CONSTANTS
  Nil = Nil
  Method = Method
  Returns = Returns
  Raises = Raises
  MaxMocks = 3
  MaxSteps = 4
SPECIFICATION Spec
CHECK_DEADLOCK FALSE
INVARIANT RestoredIsOriginal
