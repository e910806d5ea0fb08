SPECIFICATION FairSpec
CONSTANTS
  s1 = s1
  s2 = s2
  Sockets = {s1, s2}
  Deltas <- AllDeltas
  FirstLimit = 2
  SoftLimit = 3
  FirstTarget = 2
  MergeTarget = 3
  Fillers = TRUE
  MaxDeltas = 2
  MaxFrames = 2
  MaxConnects = 2
  MaxFaults = 1
INVARIANTS SpeechFollowsText TextComplete OneTurnSpeaks
PROPERTIES FinalIsLast Answered
CHECK_DEADLOCK FALSE
