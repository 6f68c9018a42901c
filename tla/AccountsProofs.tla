--------------------------- MODULE AccountsProofs ---------------------------
(***************************************************************************)
(* The lockout policy and the rights of Accounts, for any number of        *)
(* clients, accounts, passwords and failures, and any length of a lock.    *)
(***************************************************************************)
EXTENDS Accounts, TLAPS

-----------------------------------------------------------------------------
(* The inductive invariant *)

\* What TypeOK leaves open.
Kinds ==
  /\ call \in [Clients -> Calls \cup Nat]
  /\ seen \in [Clients -> User \cup {Absent}]

\* Two clients never log in to one account at a time, unless it is mixed.
Alone ==
  \A c, d \in Clients :
    InLogin(c) /\ InLogin(d) /\ call[c].name = call[d].name /\ c # d =>
      call[c].name \in mixed

\* The row a login has read is still the one of the table, or the account has
\* been removed.
RowIsCurrent ==
  \A c \in Clients : InLogin(c) /\ call[c].name \notin mixed =>
    /\ users[call[c].name] # Absent => users[call[c].name] = seen[c]
    /\ seen[c].failed = strikes[call[c].name]

\* What a login has found out by the time it writes, or a command acts.
Checked ==
  \A c \in Clients :
    /\ InLogin(c) => seen[c].failed < MaxStrikes \/ RightPassword(c)
    /\ pc[c] = "record" => ~RightPassword(c) /\ ~LockedNow(c) /\ lockUntil[c] # Unlocked
    /\ pc[c] = "reset" => RightPassword(c) /\ ~LockedNow(c)
    /\ pc[c] = "act" => /\ RightPassword(c) /\ seen[c].role = "admin"
                        /\ call[c].op \in {"add", "remove"}

IInv == TypeOK /\ Kinds /\ Alone /\ RowIsCurrent /\ Checked /\ PolicyKept

-----------------------------------------------------------------------------
(* Lemmas on the statements that write the table *)

\* What Calls are made of.
LEMMA CallFields ==
  ASSUME NEW k \in Calls
  PROVE  /\ k.op \in {"login", "remove", "add"} /\ k.name \in Names
         /\ k.password \in Passwords /\ k.target \in Names /\ k.role \in Roles
BY DEF Calls

\* update_auth_state() writes two columns of one row, if there is that row.
LEMMA Updated ==
  ASSUME TypeOK, NEW n \in Names, NEW failed \in 0..MaxStrikes, NEW until \in Until,
         UpdateAuthState(n, failed, until)
  PROVE  /\ users' \in [Names -> User \cup {Absent}]
         /\ \A m \in Names : m # n => users'[m] = users[m]
         /\ users[n] = Absent => users'[n] = Absent
         /\ users[n] # Absent =>
              /\ users'[n] \in User
              /\ users'[n].role = users[n].role /\ users'[n].password = users[n].password
              /\ users'[n].failed = failed /\ users'[n].until = until
<1> USE AbsentAssumption DEF TypeOK, UpdateAuthState, User
<1>1. CASE users[n] = Absent
  BY <1>1
<1>2. CASE users[n] # Absent
  <2> DEFINE row == [users[n] EXCEPT !.failed = failed, !.until = until]
  <2>1. users[n] \in User
    BY <1>2
  <2>2. /\ row \in User /\ row.role = users[n].role /\ row.password = users[n].password
        /\ row.failed = failed /\ row.until = until
    BY <2>1
  <2>3. users' = [users EXCEPT ![n] = row]
    BY <1>2
  <2>4. n \in Names /\ users \in [Names -> User \cup {Absent}]
    OBVIOUS
  <2> HIDE DEF row, TypeOK, UpdateAuthState, User
  <2>5. users'[n] = row /\ \A m \in Names : m # n => users'[m] = users[m]
    BY ONLY <2>3, <2>4
  <2>6. users' \in [Names -> User \cup {Absent}]
    BY ONLY <2>2, <2>3, <2>4
  <2>7. QED
    BY ONLY <1>2, <2>2, <2>5, <2>6
<1>3. QED
  BY <1>1, <1>2

\* create_user() writes one whole row, and tells who is logging in meanwhile.
LEMMA Inserted ==
  ASSUME TypeOK, NEW n \in Names, NEW password \in Passwords, NEW role \in Roles,
         Insert(n, password, role)
  PROVE  /\ users' \in [Names -> User \cup {Absent}]
         /\ \A m \in Names : m # n => users'[m] = users[m] /\ strikes'[m] = strikes[m]
                                      /\ (m \in mixed' <=> m \in mixed)
         /\ users'[n] \in User
         /\ users'[n] = [role |-> role, password |-> password,
                         failed |-> 0, until |-> Unlocked]
         /\ strikes' \in [Names -> 0..MaxStrikes] /\ strikes'[n] = 0
         /\ mixed' \subseteq Names
         /\ n \in mixed' <=> LoggingIn(Clients, n)
BY BoundsAssumption DEF TypeOK, Insert, User, Until

\* A client that is done is in no call.
LEMMA Returned ==
  ASSUME TypeOK, Kinds, NEW c \in Clients, Return(c)
  PROVE  /\ pc' = [pc EXCEPT ![c] = "idle"]
         /\ pc' \in [Clients -> {"idle", "verify", "record", "reset", "act", "look", "create"}]
         /\ pc'[c] = "idle"
         /\ \A d \in Clients : d # c =>
              /\ pc'[d] = pc[d] /\ call'[d] = call[d]
              /\ seen'[d] = seen[d] /\ lockUntil'[d] = lockUntil[d]
         /\ call' \in [Clients -> Calls \cup Nat]
         /\ seen' \in [Clients -> User \cup {Absent}]
         /\ lockUntil' \in [Clients -> Until]
BY DEF TypeOK, Kinds, Return, Until

\* What a step makes of the call of client c, and leaves of the others'.
ClientTyped(c) ==
  /\ pc' \in [Clients -> {"idle", "verify", "record", "reset", "act", "look", "create"}]
  /\ call' \in [Clients -> Calls \cup Nat] /\ seen' \in [Clients -> User \cup {Absent}]
  /\ lockUntil' \in [Clients -> Until]
  /\ \A d \in Clients : d # c => pc'[d] = pc[d] /\ call'[d] = call[d] /\ seen'[d] = seen[d]
  /\ pc'[c] \in {"verify", "record", "reset", "act"} => call'[c] \in Calls /\ seen'[c] \in User
  /\ pc'[c] \in {"look", "create"} => call'[c] \in 1..Len(DemoAccounts)

LEMMA TypesKept ==
  ASSUME TypeOK, NEW c \in Clients, ClientTyped(c),
         users' \in [Names -> User \cup {Absent}], now' = now,
         strikes' \in [Names -> 0..MaxStrikes], mixed' \subseteq Names
  PROVE  TypeOK' /\ Kinds'
<1>1. ASSUME NEW d \in Clients, (InLogin(d) \/ pc[d] = "act")'
      PROVE  call'[d] \in Calls /\ seen'[d] \in User
  <2>1. CASE d = c
    BY <1>1, <2>1 DEF ClientTyped, InLogin
  <2>2. CASE d # c
    BY <1>1, <2>2 DEF ClientTyped, InLogin, TypeOK
  <2>3. QED
    BY <2>1, <2>2
<1>2. ASSUME NEW d \in Clients, pc'[d] \in {"look", "create"}
      PROVE  call'[d] \in 1..Len(DemoAccounts)
  BY <1>2 DEF ClientTyped, TypeOK
<1>3. now' \in 0..MaxTime
  BY DEF TypeOK
<1>4. Kinds' /\ pc' \in [Clients -> {"idle", "verify", "record", "reset", "act", "look", "create"}]
      /\ lockUntil' \in [Clients -> Until]
  BY DEF ClientTyped, Kinds
<1>5. QED
  BY <1>1, <1>2, <1>3, <1>4 DEF TypeOK

LEMMA ReturnTyped ==
  ASSUME TypeOK, Kinds, NEW c \in Clients, Return(c)
  PROVE  ClientTyped(c)
BY Returned DEF ClientTyped

-----------------------------------------------------------------------------
(* One step *)

\* get_user(), at the start of a login
LEMMA LookupKeeps ==
  ASSUME IInv, NEW c \in Clients, NEW k \in Calls, Lookup(c, k)
  PROVE  IInv'
<1> USE DEF IInv
<1>1. /\ k.name \in Names /\ users[k.name] \in User /\ pc[c] = "idle"
      /\ users[k.name].failed < MaxStrikes \/ k.password = users[k.name].password
      /\ k.op = "login" => k.target = k.name
  BY CallFields, AbsentAssumption DEF Lookup, TypeOK, Calls
<1>2. /\ pc' = [pc EXCEPT ![c] = "verify"] /\ call' = [call EXCEPT ![c] = k]
      /\ seen' = [seen EXCEPT ![c] = users[k.name]]
      /\ UNCHANGED <<users, now, lockUntil>>
  BY DEF Lookup
<1>3. \/ /\ LoggingIn(Clients \ {c}, k.name)
         /\ mixed' = mixed \cup {k.name} /\ strikes' = [strikes EXCEPT ![k.name] = 0]
      \/ /\ ~LoggingIn(Clients \ {c}, k.name)
         /\ UNCHANGED <<mixed, strikes>>
  BY DEF Lookup
<1>4. TypeOK' /\ Kinds'
  <2>1. strikes' \in [Names -> 0..MaxStrikes] /\ mixed' \subseteq Names
    BY <1>1, <1>3, BoundsAssumption DEF TypeOK
  <2>2. /\ pc' \in [Clients -> {"idle", "verify", "record", "reset", "act", "look", "create"}]
        /\ call' \in [Clients -> Calls \cup Nat] /\ seen' \in [Clients -> User \cup {Absent}]
    BY <1>1, <1>2 DEF TypeOK, Kinds
  <2>3. QED
    BY <1>1, <1>2, <2>1, <2>2 DEF TypeOK, Kinds, InLogin
<1>5. /\ InLogin(c)' /\ call'[c] = k /\ seen'[c] = users[k.name] /\ ~InLogin(c)
      /\ \A d \in Clients : d # c => /\ InLogin(d)' <=> InLogin(d)
                                    /\ call'[d] = call[d] /\ seen'[d] = seen[d]
  BY <1>1, <1>2 DEF InLogin, TypeOK, Kinds
<1>6. Alone' /\ RowIsCurrent'
  <2>1. \A d \in Clients : d # c /\ InLogin(d) /\ call[d].name = k.name => k.name \in mixed'
    BY <1>3 DEF LoggingIn
  <2>2. mixed \subseteq mixed' /\ mixed' \subseteq mixed \cup {k.name}
    BY <1>3
  <2>3. k.name \notin mixed' => strikes' = strikes /\ users[k.name].failed = strikes[k.name]
    BY <1>1, <1>3, AbsentAssumption DEF PolicyKept
  <2>4. Alone'
    BY <1>5, <2>1, <2>2 DEF Alone
  <2>5. \A m \in Names : m \notin mixed' => strikes'[m] = strikes[m]
    BY <1>1, <1>3 DEF TypeOK
  <2>6. \A d \in Clients : InLogin(d) => call[d].name \in Names
    BY CallFields DEF TypeOK
  <2>7. QED
    BY <1>1, <1>2, <1>5, <2>1, <2>2, <2>3, <2>4, <2>5, <2>6 DEF RowIsCurrent
<1>7. Checked'
  BY <1>1, <1>2 DEF Checked, InLogin, TypeOK, Kinds, RightPassword, LockedNow
<1>8. PolicyKept'
  BY <1>1, <1>2, <1>3 DEF PolicyKept, TypeOK
<1>9. QED
  BY <1>4, <1>5, <1>6, <1>7, <1>8

\* The decisions between the statements of a login, which write nothing.
LEMMA DecisionKeeps ==
  ASSUME IInv, NEW c \in Clients, RefuseLocked(c) \/ Wrong(c) \/ Right(c)
  PROVE  IInv'
<1> USE DEF IInv
<1>1. /\ pc[c] = "verify" /\ InLogin(c) /\ call[c] \in Calls /\ seen[c] \in User
      /\ UNCHANGED <<users, now, strikes, mixed>>
  BY DEF RefuseLocked, Wrong, Right, InLogin, TypeOK
<1>2. \/ Return(c)
      \/ /\ Wrong(c) /\ ~LockedNow(c) /\ ~RightPassword(c) /\ UNCHANGED <<call, seen>>
         /\ pc' = [pc EXCEPT ![c] = "record"]
         /\ lockUntil' = [lockUntil EXCEPT ![c] = now + LockoutDuration]
      \/ /\ ~LockedNow(c) /\ RightPassword(c) /\ UNCHANGED <<call, seen, lockUntil>>
         /\ pc' = [pc EXCEPT ![c] = "reset"]
      \/ /\ RightPassword(c) /\ UNCHANGED <<call, seen, lockUntil>>
         /\ pc' = [pc EXCEPT ![c] = "act"]
         /\ call[c].op \in {"add", "remove"} /\ seen[c].role = "admin"
  BY <1>1, CallFields DEF RefuseLocked, Wrong, Right, Admitted, GoTo
<1>3. /\ now + LockoutDuration \in Until /\ now + LockoutDuration # Unlocked
  BY LockAssumption, BoundsAssumption DEF TypeOK, Until, Unlocked
<1>4. TypeOK' /\ Kinds'
  <2>1. ClientTyped(c)
    <3>1. CASE Return(c)
      BY <3>1, ReturnTyped
    <3>2. CASE ~Return(c)
      BY <1>1, <1>2, <1>3, <3>2 DEF ClientTyped, TypeOK, Kinds
    <3>3. QED
      BY <3>1, <3>2
  <2>2. QED
    BY <1>1, <2>1, TypesKept DEF TypeOK
<1>5. \A d \in Clients : InLogin(d)' => InLogin(d) /\ call'[d] = call[d] /\ seen'[d] = seen[d]
  BY <1>1, <1>2, Returned DEF InLogin, TypeOK
<1>6. Alone' /\ RowIsCurrent' /\ PolicyKept'
  BY <1>1, <1>5 DEF Alone, RowIsCurrent, PolicyKept
<1>7. Checked'
  <2>1. CASE Return(c)
    BY <1>1, <2>1, Returned DEF Checked, InLogin, RightPassword, LockedNow
  <2>2. CASE ~Return(c)
    BY <1>1, <1>2, <1>3, <2>2 DEF Checked, InLogin, RightPassword, LockedNow, TypeOK
  <2>3. QED
    BY <2>1, <2>2
<1>8. QED
  BY <1>4, <1>6, <1>7

\* What update_auth_state() is called with: while n is not mixed, the number of
\* wrong passwords so far, and a lock exactly if they are too many.
LEMMA Written ==
  ASSUME IInv, NEW c \in Clients, Record(c) \/ Reset(c)
  PROVE  \E failed \in 0..MaxStrikes, u \in Until :
           /\ UpdateAuthState(call[c].name, failed, u)
           /\ call[c].name \notin mixed =>
                /\ strikes'[call[c].name] = failed
                /\ u # Unlocked <=> failed >= MaxFailedAttempts
<1> USE DEF IInv
<1> DEFINE n == call[c].name
           until == IF seen[c].failed + 1 >= MaxFailedAttempts THEN lockUntil[c] ELSE Unlocked
<1>1. InLogin(c) /\ n \in Names
  BY CallFields DEF Record, Reset, InLogin, TypeOK
<1>2. CASE Record(c)
  <2>1. /\ seen[c].failed \in 0..MaxStrikes /\ seen[c].failed < MaxStrikes
        /\ lockUntil[c] \in Until /\ lockUntil[c] # Unlocked
    BY <1>1, <1>2 DEF Record, Checked, InLogin, TypeOK, User
  <2>2. seen[c].failed + 1 \in 0..MaxStrikes /\ until \in Until
    BY <2>1, BoundsAssumption DEF Until
  <2>3. until # Unlocked <=> seen[c].failed + 1 >= MaxFailedAttempts
    BY <2>1
  <2>4. /\ UpdateAuthState(n, seen[c].failed + 1, until)
        /\ strikes' = [strikes EXCEPT ![n] = IF n \in mixed THEN 0 ELSE @ + 1]
    BY <1>2 DEF Record
  <2>5. strikes[n] \in 0..MaxStrikes /\ (n \notin mixed => strikes[n] = seen[c].failed)
    BY <1>1 DEF RowIsCurrent, TypeOK
  <2>6. strikes'[n] = IF n \in mixed THEN 0 ELSE seen[c].failed + 1
    BY <1>1, <2>4, <2>5 DEF TypeOK
  <2>7. QED
    BY <2>2, <2>3, <2>4, <2>6
<1>3. CASE Reset(c)
  <2>1. UpdateAuthState(n, 0, Unlocked) /\ strikes' = [strikes EXCEPT ![n] = 0]
    BY <1>3 DEF Reset
  <2>2. 0 \in 0..MaxStrikes /\ Unlocked \in Until /\ ~(0 >= MaxFailedAttempts)
    BY LockAssumption, BoundsAssumption DEF Until
  <2>3. strikes'[n] = 0
    BY <1>1, <2>1 DEF TypeOK
  <2>4. QED
    BY <2>1, <2>2, <2>3
<1>4. QED
  BY <1>2, <1>3

\* update_auth_state() and the end of the login
LEMMA WriteKeeps ==
  ASSUME IInv, NEW c \in Clients, Record(c) \/ Reset(c)
  PROVE  IInv'
<1> USE DEF IInv
<1> DEFINE n == call[c].name
<1>1. /\ pc[c] \in {"record", "reset"} /\ InLogin(c) /\ call[c] \in Calls /\ n \in Names
      /\ seen[c] \in User /\ UNCHANGED <<now, mixed>>
  BY CallFields DEF Record, Reset, InLogin, TypeOK
<1>2. /\ strikes' \in [Names -> 0..MaxStrikes]
      /\ \A m \in Names : m # n => strikes'[m] = strikes[m]
  <2>1. CASE Record(c)
    <3>1. seen[c].failed \in 0..MaxStrikes /\ seen[c].failed < MaxStrikes
      BY <1>1, <2>1 DEF Record, Checked, InLogin, TypeOK, User
    <3>2. n \notin mixed => strikes[n] + 1 \in 0..MaxStrikes
      BY <1>1, <3>1, BoundsAssumption DEF RowIsCurrent
    <3>3. QED
      BY <1>1, <2>1, <3>2, BoundsAssumption DEF Record, TypeOK
  <2>2. CASE Reset(c)
    BY <1>1, <2>2, BoundsAssumption DEF Reset, TypeOK
  <2>3. QED
    BY <2>1, <2>2
<1>3. PICK failed \in 0..MaxStrikes, u \in Until :
        /\ UpdateAuthState(n, failed, u)
        /\ n \notin mixed => /\ strikes'[n] = failed
                             /\ u # Unlocked <=> failed >= MaxFailedAttempts
  BY Written
<1>4. /\ users' \in [Names -> User \cup {Absent}]
      /\ \A m \in Names : m # n => users'[m] = users[m]
      /\ users'[n] # Absent => users'[n].failed = failed /\ users'[n].until = u
  BY <1>1, <1>3, Updated
<1>5. \/ Return(c)
      \/ /\ RightPassword(c) /\ UNCHANGED <<call, seen, lockUntil>>
         /\ pc' = [pc EXCEPT ![c] = "act"]
         /\ call[c].op \in {"add", "remove"} /\ seen[c].role = "admin"
  BY <1>1, CallFields DEF Record, Reset, Admitted, GoTo, Checked
<1>6. /\ ~InLogin(c)'
      /\ \A d \in Clients : InLogin(d)' =>
           InLogin(d) /\ call'[d] = call[d] /\ seen'[d] = seen[d] /\ lockUntil'[d] = lockUntil[d]
                      /\ pc'[d] = pc[d]
  BY <1>1, <1>5, Returned DEF InLogin, TypeOK
<1>7. TypeOK' /\ Kinds'
  <2>1. ClientTyped(c)
    <3>1. CASE Return(c)
      BY <3>1, ReturnTyped
    <3>2. CASE ~Return(c)
      BY <1>1, <1>5, <3>2 DEF ClientTyped, TypeOK, Kinds
    <3>3. QED
      BY <3>1, <3>2
  <2>2. QED
    BY <1>1, <1>2, <1>4, <2>1, TypesKept DEF TypeOK
<1>8. Alone'
  BY <1>1, <1>6 DEF Alone
<1>9. RowIsCurrent'
  <2> SUFFICES ASSUME NEW d \in Clients, InLogin(d)', call'[d].name \notin mixed'
               PROVE  /\ users'[call'[d].name] # Absent => users'[call'[d].name] = seen'[d]
                      /\ seen'[d].failed = strikes'[call'[d].name]
    BY DEF RowIsCurrent
  <2>1. InLogin(d) /\ call'[d] = call[d] /\ seen'[d] = seen[d] /\ d # c
    BY <1>6
  <2>2. call[d].name \in Names /\ call[d].name \notin mixed /\ call[d].name # n
    BY <1>1, <2>1, CallFields DEF Alone, TypeOK
  <2>3. QED
    BY <1>2, <1>4, <2>1, <2>2 DEF RowIsCurrent
<1>10. Checked'
  <2>1. CASE Return(c)
    BY <1>1, <2>1, Returned DEF Checked, InLogin, RightPassword, LockedNow
  <2>2. CASE ~Return(c)
    BY <1>1, <1>5, <2>2 DEF Checked, InLogin, RightPassword, LockedNow, TypeOK
  <2>3. QED
    BY <2>1, <2>2
<1>11. PolicyKept'
  BY <1>1, <1>2, <1>3, <1>4 DEF PolicyKept
<1>12. QED
  BY <1>7, <1>8, <1>9, <1>10, <1>11

\* create_user() of a name that is free, by a client that is not logging in: a
\* login of the removed account makes the new one mixed.
LEMMA InsertKeeps ==
  ASSUME IInv, NEW n \in Names, NEW password \in Passwords, NEW role \in Roles,
         Insert(n, password, role),
         \A d \in Clients : InLogin(d)' => InLogin(d) /\ call'[d] = call[d] /\ seen'[d] = seen[d]
  PROVE  Alone' /\ RowIsCurrent' /\ PolicyKept'
<1> USE DEF IInv
<1>1. /\ \A m \in Names : m # n => users'[m] = users[m] /\ strikes'[m] = strikes[m]
                                   /\ (m \in mixed' <=> m \in mixed)
      /\ users'[n] = [role |-> role, password |-> password, failed |-> 0, until |-> Unlocked]
      /\ strikes'[n] = 0 /\ (n \in mixed' <=> LoggingIn(Clients, n))
  BY Inserted
<1>2. \A d \in Clients : InLogin(d) => call[d].name \in Names
                                       /\ (call[d].name = n => n \in mixed')
  BY <1>1, CallFields DEF TypeOK, LoggingIn
<1>3. Alone'
  BY <1>1, <1>2 DEF Alone
<1>4. RowIsCurrent'
  BY <1>1, <1>2 DEF RowIsCurrent
<1>5. PolicyKept'
  BY <1>1, LockAssumption DEF PolicyKept
<1>6. QED
  BY <1>3, <1>4, <1>5

\* `users add` and `users remove`
LEMMA CommandKeeps ==
  ASSUME IInv, NEW c \in Clients, RunAdd(c) \/ RunRemove(c)
  PROVE  IInv'
<1> USE DEF IInv
<1>1. /\ pc[c] = "act" /\ call[c] \in Calls /\ call[c].target \in Names /\ call[c].role \in Roles
      /\ Return(c) /\ now' = now
  BY CallFields DEF RunAdd, RunRemove, TypeOK
<1>2. \A d \in Clients : InLogin(d)' => InLogin(d) /\ call'[d] = call[d] /\ seen'[d] = seen[d]
  BY <1>1, Returned DEF InLogin
<1>3. Checked'
  BY <1>1, Returned DEF Checked, InLogin, RightPassword, LockedNow
<1>4. CASE /\ users[call[c].target] = Absent
           /\ \E p \in NewPasswords : Insert(call[c].target, p, call[c].role)
  <2>1. PICK p \in Passwords : Insert(call[c].target, p, call[c].role)
    BY <1>4, DemoAssumption
  <2>2. TypeOK' /\ Kinds'
    BY <1>1, <2>1, Inserted, ReturnTyped, TypesKept
  <2>3. Alone' /\ RowIsCurrent' /\ PolicyKept'
    BY <1>1, <1>2, <2>1, InsertKeeps
  <2>4. QED
    BY <1>3, <2>2, <2>3
<1>5. CASE UNCHANGED <<users, strikes, mixed>>
  <2>1. TypeOK' /\ Kinds'
    BY <1>1, <1>5, Returned DEF TypeOK, InLogin, Kinds
  <2>2. Alone' /\ RowIsCurrent' /\ PolicyKept'
    BY <1>2, <1>5 DEF Alone, RowIsCurrent, PolicyKept
  <2>3. QED
    BY <1>3, <2>1, <2>2
<1>6. CASE RunRemove(c)
  <2>1. UNCHANGED <<strikes, mixed>> /\ users' = [users EXCEPT ![call[c].target] = Absent]
    BY <1>6 DEF RunRemove
  <2>2. TypeOK' /\ Kinds'
    BY <1>1, <2>1, Returned DEF TypeOK, InLogin, Kinds
  <2>3. \A m \in Names : users'[m] # Absent => users'[m] = users[m]
    BY <1>1, <2>1 DEF TypeOK
  <2>4. \A d \in Clients : InLogin(d) => call[d].name \in Names
    BY CallFields DEF TypeOK
  <2>5. Alone' /\ RowIsCurrent' /\ PolicyKept'
    BY <1>2, <2>1, <2>3, <2>4 DEF Alone, RowIsCurrent, PolicyKept
  <2>6. QED
    BY <1>3, <2>2, <2>5
<1>7. QED
  BY <1>4, <1>5, <1>6 DEF RunAdd

\* `users seed-demo`
LEMMA SeedKeeps ==
  ASSUME IInv, NEW c \in Clients,
         SeedStart(c) \/ SeedLook(c) \/ SeedCreate(c) \/ SeedCrash(c)
  PROVE  IInv'
<1> USE DEF IInv
<1>1. Len(DemoAccounts) \in Nat \ {0}
  BY DemoAssumption
<1>2. /\ pc[c] \in {"idle", "look", "create"} /\ now' = now
      /\ pc[c] # "idle" => call[c] \in 1..Len(DemoAccounts)
  BY DEF SeedStart, SeedLook, SeedCreate, SeedCrash, TypeOK
<1>3. \/ Return(c)
      \/ /\ pc' = [pc EXCEPT ![c] = "look"] /\ UNCHANGED <<seen, lockUntil>>
         /\ \E i \in 1..Len(DemoAccounts) : call' = [call EXCEPT ![c] = i]
      \/ /\ pc' = [pc EXCEPT ![c] = "create"] /\ UNCHANGED <<seen, lockUntil, call>>
         /\ call[c] \in 1..Len(DemoAccounts)
  <2>1. CASE SeedStart(c)
    <3>1. 1 \in 1..Len(DemoAccounts)
      BY <1>1
    <3>2. QED
      BY <2>1, <3>1 DEF SeedStart
  <2>2. CASE SeedOn(c) /\ pc[c] # "idle"
    <3>1. CASE call[c] < Len(DemoAccounts)
      <4>1. call[c] + 1 \in 1..Len(DemoAccounts)
        BY <1>1, <1>2, <2>2, <3>1
      <4>2. QED
        BY <2>2, <3>1, <4>1 DEF SeedOn, Kinds
    <3>2. QED
      BY <2>2, <3>1 DEF SeedOn
  <2>3. CASE SeedLook(c)
    BY <1>2, <2>2, <2>3 DEF SeedLook, GoTo
  <2>4. CASE SeedCreate(c)
    BY <2>2, <2>4 DEF SeedCreate
  <2>5. CASE SeedCrash(c)
    BY <2>5 DEF SeedCrash
  <2>6. QED
    BY <2>1, <2>3, <2>4, <2>5
<1>4. /\ pc' \in [Clients -> {"idle", "verify", "record", "reset", "act", "look", "create"}]
      /\ call' \in [Clients -> Calls \cup Nat] /\ seen' \in [Clients -> User \cup {Absent}]
      /\ lockUntil' \in [Clients -> Until]
      /\ pc'[c] \in {"idle", "look", "create"}
      /\ pc'[c] \in {"look", "create"} => call'[c] \in 1..Len(DemoAccounts)
      /\ \A d \in Clients : d # c => /\ pc'[d] = pc[d] /\ call'[d] = call[d]
                                     /\ seen'[d] = seen[d] /\ lockUntil'[d] = lockUntil[d]
  <2>1. CASE Return(c)
    BY <2>1, Returned
  <2>2. CASE pc' = [pc EXCEPT ![c] = "create"] /\ UNCHANGED <<seen, lockUntil, call>>
             /\ call[c] \in 1..Len(DemoAccounts)
    BY <2>2 DEF TypeOK, Kinds
  <2>3. CASE /\ pc' = [pc EXCEPT ![c] = "look"] /\ UNCHANGED <<seen, lockUntil>>
             /\ \E i \in 1..Len(DemoAccounts) : call' = [call EXCEPT ![c] = i]
    <3>1. PICK i \in 1..Len(DemoAccounts) : call' = [call EXCEPT ![c] = i]
      BY <2>3
    <3>2. i \in Nat
      BY <1>1
    <3>3. QED
      BY <2>3, <3>1, <3>2 DEF TypeOK, Kinds
  <2>4. QED
    BY <1>3, <2>1, <2>2, <2>3
<1>5. \A d \in Clients : InLogin(d)' => InLogin(d) /\ call'[d] = call[d] /\ seen'[d] = seen[d]
  BY <1>4 DEF InLogin
<1>6. Checked'
  BY <1>2, <1>4 DEF Checked, InLogin, RightPassword, LockedNow
<1>7. Kinds'
  BY <1>4 DEF Kinds
<1>8. CASE SeedCreate(c)
  <2> DEFINE a == DemoAccounts[call[c]]
  <2>1. a.name \in Names /\ a.password \in Passwords /\ a.role \in Roles
    <3>1. call[c] \in 1..Len(DemoAccounts)
      BY <1>2, <1>8 DEF SeedCreate
    <3> DEFINE S == [name : Names, password : Passwords, role : Roles]
    <3>2. a \in S
      <4>1. DemoAccounts \in Seq(S)
        BY DemoAssumption
      <4> HIDE DEF S
      <4>2. QED
        BY <3>1, <4>1
    <3>3. QED
      BY <3>2
  <2>2. Insert(a.name, a.password, a.role)
    BY <1>8 DEF SeedCreate
  <2>3. /\ users' \in [Names -> User \cup {Absent}]
        /\ strikes' \in [Names -> 0..MaxStrikes] /\ mixed' \subseteq Names
    BY <2>1, <2>2, Inserted
  <2>4. TypeOK'
    BY <1>2, <1>4, <2>3 DEF TypeOK, InLogin
  <2>5. Alone' /\ RowIsCurrent' /\ PolicyKept'
    BY <1>5, <2>1, <2>2, InsertKeeps
  <2>6. QED
    BY <1>6, <1>7, <2>4, <2>5
<1>9. CASE SeedStart(c) \/ SeedLook(c) \/ SeedCrash(c)
  <2>1. UNCHANGED <<users, strikes, mixed>>
    BY <1>9 DEF SeedStart, SeedLook, SeedCrash
  <2>2. TypeOK'
    BY <1>2, <1>4, <2>1 DEF TypeOK, InLogin
  <2>3. Alone' /\ RowIsCurrent' /\ PolicyKept'
    BY <1>5, <2>1 DEF Alone, RowIsCurrent, PolicyKept
  <2>4. QED
    BY <1>6, <1>7, <2>2, <2>3
<1>10. QED
  BY <1>8, <1>9

LEMMA PassesKeeps == IInv /\ Passes => IInv'
<1> SUFFICES ASSUME IInv, Passes PROVE IInv'
  OBVIOUS
<1> USE DEF IInv, Passes
<1>1. TypeOK' /\ Kinds'
  BY BoundsAssumption DEF TypeOK, Kinds, InLogin
<1>2. Alone' /\ RowIsCurrent' /\ PolicyKept'
  BY DEF Alone, RowIsCurrent, PolicyKept, InLogin
<1>3. \A c \in Clients : ~LockedNow(c) /\ seen[c] \in User => ~LockedNow(c)'
  BY BoundsAssumption DEF LockedNow, TypeOK, User, Until, Unlocked
<1>4. Checked'
  BY <1>3 DEF Checked, InLogin, RightPassword, TypeOK
<1>5. QED
  BY <1>1, <1>2, <1>4

-----------------------------------------------------------------------------
(* Who changes a row, and how *)

\* The counter and the lock are written by a login of that account.
Updates(n) ==
  /\ users[n] # Absent /\ users'[n] # Absent
  /\ users'[n].role = users[n].role /\ users'[n].password = users[n].password
  /\ \E c \in Clients : pc[c] \in {"record", "reset"} /\ call[c].name = n

\* A row appears where there is none, by seed-demo or by an administrator.
Creates(n) ==
  /\ users[n] = Absent
  /\ \/ \E i \in 1..Len(DemoAccounts) :
          DemoAccounts[i].name = n /\ users'[n].role = DemoAccounts[i].role
     \/ \E c \in Clients : pc[c] = "act" /\ seen[c].role = "admin"

\* A row goes, by an administrator.
Removes(n) ==
  /\ users'[n] = Absent
  /\ \E c \in Clients : pc[c] = "act" /\ seen[c].role = "admin" /\ RightPassword(c)

\* A step leaves a row as it is or does one of the three.
LEMMA RowChanges ==
  ASSUME IInv, Next, NEW n \in Names
  PROVE  users'[n] = users[n] \/ Updates(n) \/ Creates(n) \/ Removes(n)
<1> USE DEF IInv
<1>1. ASSUME NEW c \in Clients, Record(c) \/ Reset(c)
      PROVE  users'[n] = users[n] \/ Updates(n)
  <2>1. /\ pc[c] \in {"record", "reset"} /\ call[c].name \in Names
        /\ \E failed \in 0..MaxStrikes, until \in Until :
             UpdateAuthState(call[c].name, failed, until)
    BY <1>1, CallFields, Written DEF Record, Reset, TypeOK, InLogin
  <2>2. CASE users[n] = Absent \/ call[c].name # n
    BY <2>1, <2>2, Updated
  <2>3. CASE users[n] # Absent /\ call[c].name = n
    BY <2>1, <2>3, Updated, AbsentAssumption DEF Updates
  <2>4. QED
    BY <2>2, <2>3
<1>2. ASSUME NEW c \in Clients, RunAdd(c)
      PROVE  users'[n] = users[n] \/ Creates(n)
  <2>1. pc[c] = "act" /\ seen[c].role = "admin"
    BY <1>2 DEF RunAdd, Checked
  <2>2. CASE UNCHANGED users
    BY <2>2
  <2>3. CASE /\ users[call[c].target] = Absent
             /\ \E p \in NewPasswords : Insert(call[c].target, p, call[c].role)
    BY <2>1, <2>3 DEF Insert, Creates, TypeOK
  <2>4. QED
    BY <1>2, <2>2, <2>3 DEF RunAdd
<1>3. ASSUME NEW c \in Clients, RunRemove(c)
      PROVE  users'[n] = users[n] \/ Removes(n)
  BY <1>3 DEF RunRemove, Removes, Checked, TypeOK
<1>4. ASSUME NEW c \in Clients, SeedCreate(c)
      PROVE  users'[n] = users[n] \/ Creates(n)
  <2> DEFINE a == DemoAccounts[call[c]]
  <2>1. call[c] \in 1..Len(DemoAccounts) /\ users[a.name] = Absent
        /\ Insert(a.name, a.password, a.role)
    BY <1>4 DEF SeedCreate, TypeOK
  <2>2. CASE a.name = n
    <3>1. users'[n].role = a.role
      BY <2>1, <2>2 DEF Insert, TypeOK
    <3>2. QED
      BY <2>1, <2>2, <3>1 DEF Creates
  <2>3. CASE a.name # n
    BY <2>1, <2>3 DEF Insert, TypeOK
  <2>4. QED
    BY <2>2, <2>3
<1>5. ASSUME NEW c \in Clients,
             \/ RefuseLocked(c) \/ Wrong(c) \/ Right(c) \/ SeedLook(c) \/ SeedCrash(c)
             \/ SeedStart(c) \/ \E k \in Calls : Lookup(c, k)
      PROVE  users' = users
  BY <1>5 DEF RefuseLocked, Wrong, Right, SeedLook, SeedCrash, SeedStart, Lookup
<1>6. Passes => users' = users
  BY DEF Passes
<1>7. QED
  BY <1>1, <1>2, <1>3, <1>4, <1>5, <1>6 DEF Next, Step

-----------------------------------------------------------------------------
(* The theorems *)

\* The parts of IInv together are kept by every statement of every client.
THEOREM Inductive == Spec => []IInv
<1>1. Init => IInv
  <2> SUFFICES ASSUME Init PROVE IInv
    OBVIOUS
  <2>1. TypeOK /\ Kinds
    BY BoundsAssumption DEF Init, TypeOK, Kinds, InLogin, Until
  <2>2. Alone /\ RowIsCurrent /\ Checked /\ PolicyKept
    BY DEF Init, Alone, RowIsCurrent, Checked, PolicyKept, InLogin
  <2>3. QED
    BY <2>1, <2>2 DEF IInv
<1>2. IInv /\ [Next]_vars => IInv'
  <2> SUFFICES ASSUME IInv, [Next]_vars PROVE IInv'
    OBVIOUS
  <2>1. CASE Next
    BY <2>1, LookupKeeps, DecisionKeeps, WriteKeeps, CommandKeeps, SeedKeeps, PassesKeeps
       DEF Next, Step
  <2>2. CASE UNCHANGED vars
    BY <2>2 DEF vars, IInv, TypeOK, Kinds, Alone, RowIsCurrent, Checked, PolicyKept,
                InLogin, RightPassword, LockedNow
  <2>3. QED
    BY <2>1, <2>2
<1>3. QED
  BY <1>1, <1>2, PTL DEF Spec

\* Every variable keeps to its values: a counter and a lock are in the range
\* of their columns, a client in a login holds the row it has read.
THEOREM TypeCorrect == Spec => []TypeOK
<1>1. IInv => TypeOK
  BY DEF IInv
<1>2. QED
  BY Inductive, <1>1, PTL

\* While its logins do not overlap, an account's counter is the number of
\* wrong passwords since the last right one, and the account bears a lock
\* exactly if they are MAX_FAILED_ATTEMPTS (service.py:3).
THEOREM LockoutPolicy == Spec => []PolicyKept
<1>1. IInv => PolicyKept
  BY DEF IInv
<1>2. QED
  BY Inductive, <1>1, PTL

\* Nobody gets past a lock before it ends: until then the row keeps it, and no
\* later failure shortens it, whatever password is given (service.py:77).
THEOREM LocksLast == Spec => LockLasts
<1>1. IInv /\ [Next]_vars =>
        [\A n \in Names : Locked(n) /\ n \notin mixed =>
           users'[n] = Absent \/ users'[n].until >= users[n].until]_vars
  <2> SUFFICES ASSUME IInv, Next, NEW n \in Names, Locked(n), n \notin mixed
               PROVE  users'[n] = Absent \/ users'[n].until >= users[n].until
    OBVIOUS
  <2>1. users[n] # Absent /\ now < users[n].until /\ users[n].until \in Int
    BY AbsentAssumption, BoundsAssumption, LockAssumption
       DEF IInv, TypeOK, Locked, User, Until, Unlocked
  <2>2. ~Updates(n)
    <3> SUFFICES ASSUME NEW c \in Clients, pc[c] \in {"record", "reset"}, call[c].name = n
                 PROVE  FALSE
      BY DEF Updates
    <3>1. users[n] = seen[c] /\ ~LockedNow(c)
      BY <2>1 DEF IInv, RowIsCurrent, Checked, InLogin
    <3>2. now \in Nat
      BY BoundsAssumption DEF IInv, TypeOK
    <3>3. QED
      BY <2>1, <3>1, <3>2 DEF LockedNow, Unlocked
  <2>3. QED
    BY <2>1, <2>2, RowChanges DEF Creates, Removes
<1>2. QED
  BY Inductive, <1>1, PTL DEF Spec, LockLasts

\* An account is created or removed by nobody but an administrator who has
\* given the right password, and by seed-demo, which creates what it lacks;
\* the role and the password of an account never change.
THEOREM AdminsManage == Spec => OnlyAdminsManage
<1>1. IInv /\ [Next]_vars =>
        [\A n \in Names :
           /\ users[n] = Absent /\ users'[n] # Absent =>
                \/ \E i \in 1..Len(DemoAccounts) :
                     DemoAccounts[i].name = n /\ users'[n].role = DemoAccounts[i].role
                \/ \E c \in Clients : pc[c] = "act" /\ seen[c].role = "admin"
           /\ users[n] # Absent /\ users'[n] # Absent =>
                users'[n].role = users[n].role /\ users'[n].password = users[n].password
           /\ users[n] # Absent /\ users'[n] = Absent =>
                \E c \in Clients : pc[c] = "act" /\ seen[c].role = "admin" /\ RightPassword(c)]_vars
  BY RowChanges DEF Updates, Creates, Removes
<1>2. QED
  BY Inductive, <1>1, PTL DEF Spec, OnlyAdminsManage
=============================================================================
