SPECIFICATION Spec
CONSTANTS
  StaffToken = {staff}
  RunnerToken = {runner}
  Request = {r1, r2}
  IdleTimeout = 4
  TouchInterval = 2
  AbsoluteTimeout = 8
  SessionTTL = 1
  SessionRetention = 1
  Slow = 1
  Horizon = 5
  Absent = Absent
  NONE = NONE
  c1 = c1
  Category = {c1}
  Capacity <- MCCapacity
  Person = {ann, bo, kid}
  Adult = {ann, bo}
  Version = {v1}
  Profile = {p1, p2}
SYMMETRY PortalSymmetry
INVARIANTS SessionLifetime SeatsAreSignups OneSelfProfile
PROPERTIES SessionsEndOnce
CHECK_DEADLOCK FALSE
