\* Two clients, two accounts, a lock after two failures.
SPECIFICATION Spec
CONSTANTS
  ann = ann
  ben = ben
  p1 = p1
  p2 = p2
  Clients = {c1, c2}
  Names = {ann, ben}
  Passwords = {p1, p2}
  NewPasswords = {p1}
  DemoAccounts <- MCDemoAccounts
  MaxFailedAttempts = 2
  LockoutDuration = 1
  MaxTime = 1
  MaxStrikes = 3
  Absent = Absent
SYMMETRY Symmetry
INVARIANT PolicyKept
PROPERTIES
  LockLasts
  OnlyAdminsManage
