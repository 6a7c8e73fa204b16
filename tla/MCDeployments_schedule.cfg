CONSTANTS
  Jobs = {t1}
  Tasks = {t1}
  Runs = {r1}
  Workers = {w1}
  None = None
  RouterKey = claims_key
  HandlerKey = claims_key
SPECIFICATION Spec
PROPERTY TasksRunOnSchedule
