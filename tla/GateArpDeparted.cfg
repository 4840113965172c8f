SPECIFICATION Spec
CONSTANTS
  a = a  b = b  m = m  ip1 = ip1  ip2 = ip2  ip3 = ip3
  NoMac = NoMac  NoIp = NoIp  ZeroIp = ZeroIp  NoTask = NoTask
  GroupMac = {g}  g = g
  ClientMac = {a}
  LINK_MAX_STAS = 1
  GATE_MAX_CLIENTS = 1
  RxTask = {r1}
  Claim <- RoamerAndHosts
  Wanted = {ip1}
  GW_ARP_MAX = 2
  GW_ARP_TTL = 1
  ANNOUNCE_PERIOD = 4
  MaxDelay = 1
  ClockMod = 16
INVARIANT DepartedStaysForgotten
