\* A job, an analyst and an administrator, two logins that may overlap.
SPECIFICATION FairSpec
CONSTANTS
  Jobs = {j1}
  Users = {ann, adm}
  Admins = {adm}
  Nobody = Nobody
  Attempts = {1, 2}
  MaxVisits = 2
  MaxLoads = 2
CHECK_DEADLOCK FALSE
INVARIANTS
  LoggedIn
  DebugForAdmins
  ActsAsVerified
PROPERTIES
  StoppedByRight
  QuitEnds
