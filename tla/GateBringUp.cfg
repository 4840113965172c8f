SPECIFICATION FairSpec
CONSTANTS
  a = a  b = b
  NoMac = NoMac
  ClientMac = {a, b}
  LINK_MAX_STAS = 2
  GATE_MAX_CLIENTS = 2
  Polls = 3
INVARIANT BringUpTypeOK
INVARIANT StartedInOrder
PROPERTY MeshAddressPinned
CHECK_DEADLOCK FALSE
