SPECIFICATION Spec
CONSTANTS
  LastKey = 3
  Definitions = {"plain", "draft"}
  Content <- MCContent
  Clients = {c1}
  Others = {o1}
  Limits = {1, 2}
  CursorTTL = 1
  MaxTime = 1
  Null = Null
INVARIANTS
  WalkNeverRepeats
  WalkIsComplete
  ShownIsReleased
