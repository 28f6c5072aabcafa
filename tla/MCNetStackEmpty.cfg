SPECIFICATION Spec
CONSTANTS
  Hosts = {h1, h2}
  Macs = {m1}
  NoHost = NoHost
  NoMac = NoMac
  ARP_TABLE_SIZE = 2
  ARP_MAXAGE = 4
  ARP_MAXPENDING = 2
  ARP_AGE_REREQUEST_USED_UNICAST = 2
  MaxPacket = 2
  Fragments = {}
  IP_REASS_MAX_PBUFS = 1
  IP_REASS_MAXAGE = 1
  MEMP_NUM_REASSDATA = 1
  MaxOffset = 9
  IP_HLEN = 0
  PBUF_POOL_SIZE = 4
  Datagrams <- WithEmpty
  Src <- MCSrc
  Mtu = 1
  RecvOk = {TRUE}
  HeapOk = {TRUE}
INVARIANTS NoLeak
