SPECIFICATION Spec
CONSTANTS
  Callers = {c1, c2, c3}
  Streams = 2
  MaxLoads = 2
  None = None
INVARIANTS EachWaitingCallIsHeldOnce OnePool ErrorsAreTrue
PROPERTY NothingWaitsForever
