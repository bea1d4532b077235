CONSTANTS
  r1 = r1
  r2 = r2
  r3 = r3
  c1 = c1
  c2 = c2
  Nobody = Nobody
  Requests = {r1, r2}
  Closes = {c1}
  Calls = {r1, r2, c1}
  Commands = {"TRANSACTION2", "ECHO"}
  Command <- MCCommand
  Transactions = {"TRANSACTION2"}
  Hooked = {r2}
  LastMid = 1
  Limit = 1
  RetirementBudget = 2
  GiveUpDeadlines = 1
  PerRequest = 1
  Overall = 2
  CloseRun = 1
  Rogue = TRUE
SPECIFICATION Spec
INVARIANTS ChargingCounts IndexAgrees Capacity SilenceWindow TypeOK
PROPERTIES HooksAgree
