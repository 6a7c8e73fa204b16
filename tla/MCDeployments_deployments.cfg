CONSTANTS
  Jobs = {d1, t1}
  Tasks = {t1}
  Runs = {r1, r2}
  Workers = {w1, w2}
  None = None
  RouterKey = claims_key
  HandlerKey = claims_key
SPECIFICATION Spec
INVARIANTS TypeOK RunningIsTrue OutcomeIsOwn
PROPERTY EndIsRecorded
