SPECIFICATION Spec
CONSTANTS
  b0 = b0
  b1 = b1
  linux = linux
  any = any
  relay = relay
  NP = NP
  HR = HR
  nofile = nofile
  App = {relay}
  Var = {NP}
  Always = {}
  ByHand = {{}}
  NoFile = nofile
  Board = {b0, b1}
  Port0 = b0
  Linux = linux
  AnyEsp = any
  Suite <- MCSuite
INVARIANT
  FlashesItsBoard
