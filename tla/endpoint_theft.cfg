\* Two daemons that start at once, with or without a socket that a crash left.
SPECIFICATION Spec
CONSTANTS
  Daemons = {d1, d2}
  Messages = {}
  CmdCodes = {}
  MaxEnds = 1
PROPERTIES LiveSocketsStay
