CONSTANTS
  n1 = n1
  n2 = n2
  n1x = n1x
  Hosts <- Names
  Short <- ShortNames
  Configs <- AllConfigs
  Selections <- Pairs
  Plans = {p1}
  Calls = {c1, c2}
  MaxCalls = 2
  MaxQuestions = 2
  MaxEdits = 1
  MaxStops = 1
SYMMETRY CallSymmetry
SPECIFICATION Spec
INVARIANTS TypeOK AppliedAtMostOnce SentAsAgreed OneAnswerOneAttempt SentIsRecorded
CHECK_DEADLOCK FALSE
