\* Two callers, two failures to trip, a cooldown of two ticks, a count that
\* saturates one failure later.
SPECIFICATION FairSharedSpec
CONSTANTS
  Threshold = 2
  Cooldown = 2
  MaxCount = 3
  Callers = {c1, c2}
  Nobody = Nobody
INVARIANTS SharedTypeOK AtMostOneLiveProbe TrippedMeansThreshold FlagTellsThePhase
PROPERTIES OnlyACallClaims Recovers
