SPECIFICATION Spec
CONSTANTS
  c1 = c1
  c2 = c2
  None = None
  Conn = {c1, c2}
  Page = {1, 2}
  NReader = 3
  MaxFrame = 3
  MaxVer = 3
  MaxSalt = 3
  Environments <- Overtaken
INVARIANT ReadersKeepTheirSnapshot
