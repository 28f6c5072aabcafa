SPECIFICATION FairSpec
CONSTANTS
  Hosts = {h1}
  Macs = {m1}
  NoHost = NoHost
  NoMac = NoMac
  ARP_TABLE_SIZE = 1
  ARP_MAXAGE = 2
  ARP_MAXPENDING = 1
  ARP_AGE_REREQUEST_USED_UNICAST = 1
  MaxPacket = 8
  Fragments <- Competing
  IP_REASS_MAX_PBUFS = 4
  IP_REASS_MAXAGE = 3
  MEMP_NUM_REASSDATA = 2
  MaxOffset = 3
  IP_HLEN = 0
  PBUF_POOL_SIZE = 6
  Datagrams = {}
  Src <- MCSrc
  Mtu = 1
  RecvOk = {TRUE}
  HeapOk = {TRUE, FALSE}
INVARIANTS NoLeak DeliveredWhole
PROPERTIES KeepsOwnDatagram ReassemblyEnds
