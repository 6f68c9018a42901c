\* The user goes on while the application quits.
SPECIFICATION Spec
CONSTANTS
  Jobs = {j1}
  Users = {ann, adm}
  Admins = {adm}
  Nobody = Nobody
  Attempts = {1, 2}
  MaxVisits = 1
  MaxLoads = 1
CHECK_DEADLOCK FALSE
INVARIANT SubmitNeverRaises
