SPECIFICATION Spec
CONSTANTS
  Requests = {r1, r2, r3}
  Early = {r1}
  Users = {u1, u2}
  Slugs = {n1, n2}
INVARIANTS
  VersionsAreNumbered
  AnsweredMeansStored
PROPERTIES
  ImplementsVersionLog
  EveryRequestEnds
\* Every request is made once.
CHECK_DEADLOCK FALSE
