SPECIFICATION ServicesSpec
CONSTANTS
  Clients = {"k1", "k2"}
  MaxRequests = 2
  Window = 2
  MaxNow = 4
  Requests = {"r1", "r2", "r3"}
  Capacity = 2
  ClientOf <- MCClientOf
  Writes <- MCWrites
  Calls = {c1, c2, c3}
  Emails = {e1}
  Strong = {p1, p2}
  Weak = {w}
  NoPassword = NoPassword
  TrainRequests = {q1, q2, q3}
  Models = {m1, m2}
  MaxClock = 1
  Trainings = {"t1", "t2", "t3"}
  ThreadOf <- MCThreadOf
  WantedBy <- MCWantedBy
  NoRun = NoRun
INVARIANTS
  ServicesTypeOK
  LimiterIsExact
  ExhaustionNeedsLoad
  AuditMatchesAnswer
  OneAccountPerEmail
  AnswersAreExplained
  OwnerStaysLocked
  TrackedRunsAreOwn
  TrainingsAreAccounted
  ArtifactIsKeptUnlessRaced
PROPERTY
  EveryRequestEnds
CHECK_DEADLOCK FALSE
