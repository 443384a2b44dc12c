SPECIFICATION Spec
CONSTANTS
  File = {f1, f2}
  None = None
  MaxTexts = 1
  MaxGestures = 4
CHECK_DEADLOCK FALSE
PROPERTY EditsSurvive
