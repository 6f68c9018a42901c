------------------------------ MODULE Accounts ------------------------------
(***************************************************************************)
(* auth/service.py, auth/store.py, auth/authz.py and commands/users.py:    *)
(* logins and account commands of several clients against one users.db.  A *)
(* client is a login thread of the terminal UI or a process of the command *)
(* line.  Each SQL statement is atomic; what a client computes between two *)
(* of them is its own.  Hashing is left out: a password is right or wrong. *)
(***************************************************************************)
EXTENDS Integers, Sequences, FiniteSets

CONSTANTS
  Clients,
  Names,            \* user names
  Passwords,        \* what clients type
  NewPasswords,     \* those that accounts are created with
  DemoAccounts,     \* DEMO_ACCOUNTS: a sequence of [name, password, role]
  MaxFailedAttempts,  \* MAX_FAILED_ATTEMPTS
  LockoutDuration,  \* LOCKOUT_DURATION, in units of the clock
  MaxTime,          \* bound: the clock
  MaxStrikes,       \* bound: failures counted for one account
  Absent            \* get_user() returns None

ASSUME LockAssumption == MaxFailedAttempts \in Nat \ {0} /\ LockoutDuration \in Nat \ {0}
ASSUME BoundsAssumption == MaxTime \in Nat /\ MaxStrikes \in Nat

Roles == {"analyst", "admin"}
ASSUME DemoAssumption ==
  /\ DemoAccounts \in Seq([name : Names, password : Passwords, role : Roles])
  /\ DemoAccounts # <<>> /\ NewPasswords \subseteq Passwords

Unlocked == -1
Until == {Unlocked} \cup (0..(MaxTime + LockoutDuration))

User == [role : Roles, password : Passwords, failed : 0..MaxStrikes, until : Until]
ASSUME AbsentAssumption == Absent \notin User

VARIABLES
  users,      \* the table
  now,        \* the wall clock
  pc, call,   \* what each client is doing, and with which arguments
  seen,       \* the row it has read
  lockUntil,  \* the end of a lock that began when it looked at its clock
  strikes,    \* wrong passwords since the last right one, while not mixed
  mixed       \* accounts used by two clients at a time since they were created

vars == <<users, now, pc, call, seen, lockUntil, strikes, mixed>>

\* The permissions that only ADMIN has are one: MANAGE_USERS.
\* A command of an operator with a wrong password is a login and no more.
Calls ==
  {k \in [op : {"login", "remove", "add"}, name : Names, password : Passwords,
          target : Names, role : Roles] :
     /\ k.op = "login" => k.target = k.name
     /\ k.op # "login" => k.password \in NewPasswords
     /\ k.op # "add" => k.role = "analyst"}

InLogin(c) == pc[c] \in {"verify", "record", "reset"}
LoggingIn(S, n) == \E c \in S : InLogin(c) /\ call[c].name = n

TypeOK ==
  /\ users \in [Names -> User \cup {Absent}]
  /\ now \in 0..MaxTime
  /\ pc \in [Clients -> {"idle", "verify", "record", "reset", "act", "look", "create"}]
  /\ \A c \in Clients : InLogin(c) \/ pc[c] = "act" => call[c] \in Calls /\ seen[c] \in User
  /\ \A c \in Clients : pc[c] \in {"look", "create"} => call[c] \in 1..Len(DemoAccounts)
  /\ lockUntil \in [Clients -> Until]
  /\ strikes \in [Names -> 0..MaxStrikes] /\ mixed \subseteq Names

Init ==
  /\ users = [n \in Names |-> Absent]
  /\ now = 0
  /\ pc = [c \in Clients |-> "idle"] /\ call = [c \in Clients |-> 0]
  /\ seen = [c \in Clients |-> Absent]
  /\ lockUntil = [c \in Clients |-> Unlocked]
  /\ strikes = [n \in Names |-> 0] /\ mixed = {}

Passes ==
  /\ now < MaxTime /\ now' = now + 1
  /\ UNCHANGED <<users, pc, call, seen, lockUntil, strikes, mixed>>

\* A client that is done keeps nothing.
Return(c) ==
  /\ pc' = [pc EXCEPT ![c] = "idle"]
  /\ call' = [call EXCEPT ![c] = 0] /\ seen' = [seen EXCEPT ![c] = Absent]
  /\ lockUntil' = [lockUntil EXCEPT ![c] = Unlocked]

GoTo(c, label) == pc' = [pc EXCEPT ![c] = label] /\ UNCHANGED call

-----------------------------------------------------------------------------
(* AuthService.login() *)

\* get_user(); an unknown name is refused, after a hash that nobody sees.
Lookup(c, k) ==
  /\ pc[c] = "idle" /\ users[k.name] # Absent
  /\ users[k.name].failed < MaxStrikes \/ k.password = users[k.name].password
  /\ pc' = [pc EXCEPT ![c] = "verify"] /\ call' = [call EXCEPT ![c] = k]
  /\ seen' = [seen EXCEPT ![c] = users[k.name]]
  /\ IF LoggingIn(Clients \ {c}, k.name)
       THEN mixed' = mixed \cup {k.name} /\ strikes' = [strikes EXCEPT ![k.name] = 0]
       ELSE UNCHANGED <<mixed, strikes>>
  /\ UNCHANGED <<users, now, lockUntil>>

LockedNow(c) == seen[c].until # Unlocked /\ now < seen[c].until
RightPassword(c) == call[c].password = seen[c].password

RefuseLocked(c) ==
  /\ pc[c] = "verify" /\ LockedNow(c)
  /\ Return(c)
  /\ UNCHANGED <<users, now, strikes, mixed>>

\* A wrong password; _record_failure() works with the clock of the lock check.
Wrong(c) ==
  /\ pc[c] = "verify" /\ ~LockedNow(c) /\ ~RightPassword(c)
  /\ lockUntil' = [lockUntil EXCEPT ![c] = now + LockoutDuration]
  /\ GoTo(c, "record")
  /\ UNCHANGED <<users, now, seen, strikes, mixed>>

\* update_auth_state() changes the row of that name, if there still is one.
UpdateAuthState(n, failed, until) ==
  users' = IF users[n] = Absent THEN users
           ELSE [users EXCEPT ![n].failed = failed, ![n].until = until]

\* Mutant: the lock comes one failure late.
RecordLate(c) ==
  LET attempts == seen[c].failed + 1
      n == call[c].name
  IN  /\ pc[c] = "record"
      /\ UpdateAuthState(n, attempts,
           IF attempts > MaxFailedAttempts THEN lockUntil[c] ELSE Unlocked)
      /\ strikes' = [strikes EXCEPT ![n] = IF n \in mixed THEN 0 ELSE @ + 1]
      /\ Return(c)
      /\ UNCHANGED <<now, mixed>>

Record(c) ==
  LET attempts == seen[c].failed + 1
      n == call[c].name
  IN  /\ pc[c] = "record"
      /\ UpdateAuthState(n, attempts,
           IF attempts >= MaxFailedAttempts THEN lockUntil[c] ELSE Unlocked)
      /\ strikes' = [strikes EXCEPT ![n] = IF n \in mixed THEN 0 ELSE @ + 1]
      /\ Return(c)
      /\ UNCHANGED <<now, mixed>>

\* Mutant: require() is forgotten.
AdmittedAnyone(c) ==
  IF call[c].op # "login"
    THEN GoTo(c, "act") /\ UNCHANGED <<seen, lockUntil>>
    ELSE Return(c)

\* The login succeeds.  A command goes on if its operator is an ADMIN.
Admitted(c) ==
  IF call[c].op # "login" /\ seen[c].role = "admin"
    THEN GoTo(c, "act") /\ UNCHANGED <<seen, lockUntil>>
    ELSE Return(c)

\* Mutant: the password is compared before the lock is looked at.
RightFirst(c) ==
  /\ pc[c] = "verify" /\ RightPassword(c)
  /\ IF seen[c].failed # 0 \/ seen[c].until # Unlocked
       THEN GoTo(c, "reset") /\ UNCHANGED <<seen, lockUntil>>
       ELSE Admitted(c)
  /\ UNCHANGED <<users, now, strikes, mixed>>

Right(c) ==
  /\ pc[c] = "verify" /\ ~LockedNow(c) /\ RightPassword(c)
  /\ IF seen[c].failed # 0 \/ seen[c].until # Unlocked
       THEN GoTo(c, "reset") /\ UNCHANGED <<seen, lockUntil>>
       ELSE Admitted(c)
  /\ UNCHANGED <<users, now, strikes, mixed>>

Reset(c) ==
  /\ pc[c] = "reset"
  /\ UpdateAuthState(call[c].name, 0, Unlocked)
  /\ strikes' = [strikes EXCEPT ![call[c].name] = 0]
  /\ Admitted(c)
  /\ UNCHANGED <<now, mixed>>

-----------------------------------------------------------------------------
(* commands/users.py, after its login, and seed-demo, which needs none *)

\* create_user() with add_user(), whose INSERT fails if the name is taken.
Insert(n, password, role) ==
  /\ users' = [users EXCEPT ![n] =
       [role |-> role, password |-> password, failed |-> 0, until |-> Unlocked]]
  /\ strikes' = [strikes EXCEPT ![n] = 0]
  /\ mixed' = IF LoggingIn(Clients, n)
                THEN mixed \cup {n} ELSE mixed \ {n}

\* _run_add().  A name that is taken, or a password that is not given or does
\* not satisfy the policy, ends it before anything is inserted.
RunAdd(c) ==
  /\ pc[c] = "act" /\ call[c].op = "add"
  /\ \/ /\ users[call[c].target] = Absent
        /\ \E p \in NewPasswords : Insert(call[c].target, p, call[c].role)
     \/ UNCHANGED <<users, strikes, mixed>>
  /\ Return(c)
  /\ UNCHANGED now

RunRemove(c) ==
  /\ pc[c] = "act" /\ call[c].op = "remove"
  /\ users' = [users EXCEPT ![call[c].target] = Absent]
  /\ Return(c)
  /\ UNCHANGED <<now, strikes, mixed>>

\* _run_seed_demo(): look for each demo account, and create it if it is not there.
SeedStart(c) ==
  /\ pc[c] = "idle"
  /\ pc' = [pc EXCEPT ![c] = "look"] /\ call' = [call EXCEPT ![c] = 1]
  /\ UNCHANGED <<users, now, seen, lockUntil, strikes, mixed>>

SeedOn(c) ==
  IF call[c] < Len(DemoAccounts)
    THEN /\ pc' = [pc EXCEPT ![c] = "look"] /\ call' = [call EXCEPT ![c] = @ + 1]
         /\ UNCHANGED <<seen, lockUntil>>
    ELSE Return(c)

SeedLook(c) ==
  /\ pc[c] = "look"
  /\ IF users[DemoAccounts[call[c]].name] # Absent
       THEN SeedOn(c)
       ELSE GoTo(c, "create") /\ UNCHANGED <<seen, lockUntil>>
  /\ UNCHANGED <<users, now, strikes, mixed>>

SeedCreate(c) ==
  LET a == DemoAccounts[call[c]]
  IN  /\ pc[c] = "create" /\ users[a.name] = Absent
      /\ Insert(a.name, a.password, a.role)
      /\ SeedOn(c)
      /\ UNCHANGED now

\* Another client was faster: nothing catches the UserStoreError, and the
\* process ends with a traceback.
SeedCrash(c) ==
  /\ pc[c] = "create" /\ users[DemoAccounts[call[c]].name] # Absent
  /\ Return(c)
  /\ UNCHANGED <<users, now, strikes, mixed>>

Step(c) ==
  \/ RefuseLocked(c) \/ Wrong(c) \/ Record(c) \/ Right(c) \/ Reset(c)
  \/ RunAdd(c) \/ RunRemove(c)
  \/ SeedLook(c) \/ SeedCreate(c) \/ SeedCrash(c)

Next ==
  \/ \E c \in Clients : Step(c) \/ SeedStart(c) \/ \E k \in Calls : Lookup(c, k)
  \/ Passes

Spec == Init /\ [][Next]_vars

-----------------------------------------------------------------------------
(* Properties *)

\* "MAX_FAILED_ATTEMPTS consecutive failures locks the account"
\* (service.py:3), and nothing else does: unless logins of one account
\* overlap, its row says how many wrong passwords came since the last right
\* one, and it bears a lock exactly if they are that many.
PolicyKept ==
  \A n \in Names : users[n] # Absent /\ n \notin mixed =>
    /\ users[n].failed = strikes[n]
    /\ (users[n].until # Unlocked) = (strikes[n] >= MaxFailedAttempts)

\* A lock lasts: until it ends no row loses it, whatever password is given,
\* but by a client that had read the row before, or with the account.
Locked(n) == users[n] # Absent /\ now < users[n].until
LockLasts ==
  [][\A n \in Names : Locked(n) /\ n \notin mixed =>
       users'[n] = Absent \/ users'[n].until >= users[n].until]_vars

\* Accounts are created and removed by nobody but an operator who gave the
\* password of an ADMIN whose account was not locked, and by seed-demo, which
\* creates the demo accounts alone and changes none that is there.
OnlyAdminsManage ==
  [][\A n \in Names :
       /\ users[n] = Absent /\ users'[n] # Absent =>
            \/ \E i \in 1..Len(DemoAccounts) :
                 DemoAccounts[i].name = n /\ users'[n].role = DemoAccounts[i].role
            \/ \E c \in Clients : pc[c] = "act" /\ seen[c].role = "admin"
       /\ users[n] # Absent /\ users'[n] # Absent =>
            users'[n].role = users[n].role /\ users'[n].password = users[n].password
       /\ users[n] # Absent /\ users'[n] = Absent =>
            \E c \in Clients : pc[c] = "act" /\ seen[c].role = "admin" /\ RightPassword(c)]_vars
=============================================================================
