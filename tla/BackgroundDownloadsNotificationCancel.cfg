SPECIFICATION Spec
CONSTANTS
  N = 2
  Jobs = {j1}
  Workers = {w1}
  Literal = Literal
  None = None
PROPERTY NotificationCancels
