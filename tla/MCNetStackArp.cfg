SPECIFICATION FairSpec
CONSTANTS
  Hosts = {h1, h2, h3}
  Macs = {m1, m2}
  NoHost = NoHost
  NoMac = NoMac
  ARP_TABLE_SIZE = 2
  ARP_MAXAGE = 3
  ARP_MAXPENDING = 2
  ARP_AGE_REREQUEST_USED_UNICAST = 2
  MaxPacket = 2
  Fragments = {}
  IP_REASS_MAX_PBUFS = 1
  IP_REASS_MAXAGE = 1
  MEMP_NUM_REASSDATA = 1
  MaxOffset = 9
  IP_HLEN = 0
  PBUF_POOL_SIZE = 4
  Datagrams <- Mixed
  Src <- MCSrc
  Mtu = 1
  RecvOk = {TRUE}
  HeapOk = {TRUE, FALSE}
INVARIANTS NoLeak TableConsistent RightHost
PROPERTY PendingEnds
