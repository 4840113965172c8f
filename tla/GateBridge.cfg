SPECIFICATION Spec
CONSTANTS
  a = a  b = b  c = c  m = m  gate = gate  ipA = ipA  ipM = ipM
  NoMac = NoMac  NoIp = NoIp  NoClaim = NoClaim  GROUP = GROUP
  ClientMac = {a, b, c}
  LINK_MAX_STAS = 2
  GATE_MAX_CLIENTS = 2
  GateMac = {gate}
  Claim <- Claims
  Frame <- Frames
INVARIANT BridgeTypeOK
INVARIANT ClientsTrackAdmission
INVARIANT FreedExactlyOnce
INVARIANT ClientServed
INVARIANT RightPorts
