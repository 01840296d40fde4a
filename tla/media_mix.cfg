SPECIFICATION Spec
CONSTANTS
  a = a
  b = b
  c = c
  Channel = {a, b}
  MaxMix = 1
  SilenceAfter = 2
  Cap = 1
  Failing = {"codec", "bind", "decode"}
  Requests = {"add", "remove", "open", "close"}
  MaxEvents = 1
  MaxFrame = 1
  None = None
SYMMETRY Symmetry
CHECK_DEADLOCK FALSE
INVARIANT TypeOK
INVARIANT HearsOthers
INVARIANT RosterAgrees
