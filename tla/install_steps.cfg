CONSTANTS
  Absent = Absent
  NoBridge = NoBridge
  Profiles = {p1, p2}
  GameTexts <- MCGameTexts
  MaxFaults = 1
  MaxTokens = 2
SPECIFICATION Spec
INVARIANTS RunningGameKeepsAccepting OneFailureKeepsTheText
PROPERTIES InstallLoads UninstallRestores
CHECK_DEADLOCK FALSE
