-------------------------- MODULE TuiSessionProofs --------------------------
(***************************************************************************)
(* The safety properties of TuiSession, for any number of jobs, users,     *)
(* logins and visits: whatever the threads that log in, read the log or    *)
(* close the application find when they answer.                            *)
(***************************************************************************)
EXTENDS TuiSession, TLAPS

-----------------------------------------------------------------------------
(* The inductive invariant *)

\* What TypeOK leaves open.
Kinds ==
  /\ visit \in Nat
  /\ \A l \in loads : l.visit \in Nat

\* A login that was ever asked for is for a user.
LoginsForUsers ==
  \A a \in Attempts : login[a].at # "unused" => login[a].user \in Users

\* DEBUG lines that are still to come for the screen that is open were asked
\* for by the principal of now: every visit to the logs is a new screen, and
\* the principal changes only where that screen is left.
DebugOnItsWay ==
  \A l \in loads :
    /\ l.visit = visit /\ l.level = "DEBUG" /\ screen \in {"logs", "prompt"}
    => principal \in Admins

\* A login that is about to succeed is for a user whose password was accepted.
AnswersVerified ==
  \A a \in Attempts : login[a].at = "yes" => login[a].user \in verified

IInv ==
  /\ TypeOK /\ Kinds
  /\ LoginsForUsers /\ LoggedIn
  /\ DebugForAdmins /\ DebugOnItsWay
  /\ AnswersVerified /\ ActsAsVerified

-----------------------------------------------------------------------------
(* One step *)

\* The login threads
LEMMA LoginsKeep ==
  ASSUME IInv, NEW a \in Attempts,
         \/ \E u \in Users : AttemptLogin(a, u)
         \/ \E answer \in {"yes", "no"} : Verify(a, answer)
         \/ VerifyRaises(a) \/ LoginSucceeded(a) \/ ShowError(a)
  PROVE  IInv'
<1> USE RolesAssumption
        DEF IInv, TypeOK, Kinds, LoginsForUsers, LoggedIn, DebugForAdmins,
            DebugOnItsWay, AnswersVerified, ActsAsVerified, Levels, Queue!Final,
            queue, ui, threads, On
<1>1. ASSUME NEW u \in Users, AttemptLogin(a, u) PROVE IInv'
  BY <1>1 DEF AttemptLogin
<1>2. ASSUME NEW answer \in {"yes", "no"}, Verify(a, answer) PROVE IInv'
  BY <1>2 DEF Verify
<1>3. CASE VerifyRaises(a)
  BY <1>3 DEF VerifyRaises, Raise
<1>4. CASE LoginSucceeded(a)
  BY <1>4 DEF LoginSucceeded
<1>5. CASE ShowError(a)
  BY <1>5 DEF ShowError
<1> HIDE DEF IInv
<1>6. QED
  BY <1>1, <1>2, <1>3, <1>4, <1>5

\* The handlers of the screens, and the lines of the log that arrive
LEMMA ScreensKeep ==
  ASSUME IInv,
         \/ Logout \/ Back \/ SubmitRaises \/ DismissPrompt \/ ChangeLevel
         \/ \E s \in {"new", "jobs", "findings", "logs"} : Open(s)
         \/ \E l \in Levels : ChooseLevel(l)
         \/ \E l \in loads : ShowLines(l) \/ LoadRaises(l)
  PROVE  IInv'
<1> USE RolesAssumption
        DEF IInv, TypeOK, Kinds, LoginsForUsers, LoggedIn, DebugForAdmins,
            DebugOnItsWay, AnswersVerified, ActsAsVerified, Levels, Queue!Final,
            queue, ui, threads, On
<1>1. CASE Logout
  BY <1>1 DEF Logout
<1>2. CASE Back
  BY <1>2 DEF Back
<1>3. CASE SubmitRaises
  BY <1>3 DEF SubmitRaises, Raise
<1>4. CASE DismissPrompt
  BY <1>4 DEF DismissPrompt
<1>5. CASE ChangeLevel
  BY <1>5 DEF ChangeLevel
<1>6. ASSUME NEW s \in {"new", "jobs", "findings", "logs"}, Open(s) PROVE IInv'
  <2>1. visit' = visit \/ \A l \in loads' : l.visit # visit'
    BY <1>6 DEF Open
  <2>2. DebugForAdmins' /\ DebugOnItsWay'
    BY <1>6, <2>1 DEF Open
  <2>3. QED
    BY <1>6, <2>2 DEF Open
<1>7. ASSUME NEW l \in Levels, ChooseLevel(l) PROVE IInv'
  BY <1>7 DEF ChooseLevel, May
<1>8. ASSUME NEW l \in loads, ShowLines(l) PROVE IInv'
  <2>1. CASE l.visit = visit /\ l.level = "DEBUG"
    <3>1. screen' \in {"logs", "prompt"} => principal' \in Admins
      BY <1>8, <2>1 DEF ShowLines
    <3>2. QED
      BY <1>8, <2>1, <3>1 DEF ShowLines
  <2>2. CASE l.visit # visit \/ l.level # "DEBUG"
    BY <1>8, <2>2 DEF ShowLines
  <2>3. QED
    BY <2>1, <2>2
<1>9. ASSUME NEW l \in loads, LoadRaises(l) PROVE IInv'
  BY <1>9 DEF LoadRaises, Raise
<1> HIDE DEF IInv
<1>10. QED
  BY <1>1, <1>2, <1>3, <1>4, <1>5, <1>6, <1>7, <1>8, <1>9

\* What the screens and the workers do to jobs
LEMMA JobsKeep ==
  ASSUME IInv, (\E j \in Jobs : Submit(j) \/ CancelSelected(j)) \/ Work
  PROVE  IInv'
<1> USE RolesAssumption
        DEF IInv, TypeOK, Kinds, LoginsForUsers, LoggedIn, DebugForAdmins,
            DebugOnItsWay, AnswersVerified, ActsAsVerified, Levels, Queue!Final,
            queue, ui, threads, On
<1>1. ASSUME NEW j \in Jobs, Submit(j) PROVE IInv'
  BY <1>1 DEF Submit, Queue!Accept
<1>2. ASSUME NEW j \in Jobs, CancelSelected(j) PROVE IInv'
  BY <1>2 DEF CancelSelected, Queue!CancelQueued
<1>3. CASE Work
  <2> PICK j \in Jobs : \/ Queue!Start(j) \/ Queue!Notify(j)
                        \/ Queue!Complete(j) \/ Queue!Abort(j)
    BY <1>3 DEF Work
  <2>1. app # "ended" /\ UNCHANGED <<flagged, owner, pool, ui, threads>>
    BY <1>3 DEF Work
  <2>2. CASE Queue!Start(j)
    BY <2>1, <2>2 DEF Queue!Start
  <2>3. CASE Queue!Notify(j)
    BY <2>1, <2>3 DEF Queue!Notify
  <2>4. CASE Queue!Complete(j)
    BY <2>1, <2>4 DEF Queue!Complete
  <2>5. CASE Queue!Abort(j)
    BY <2>1, <2>5 DEF Queue!Abort
  <2>6. QED
    BY <2>2, <2>3, <2>4, <2>5
<1> HIDE DEF IInv
<1>4. QED
  BY <1>1, <1>2, <1>3

\* Both ways to the end of the application
LEMMA QuittingKeeps ==
  ASSUME IInv,
         \/ RequestQuit \/ QuitJoin \/ QuitClose \/ QuitExit
         \/ Unmount \/ \E joined \in BOOLEAN : Leave(joined)
  PROVE  IInv'
<1> USE RolesAssumption
        DEF IInv, TypeOK, Kinds, LoginsForUsers, LoggedIn, DebugForAdmins,
            DebugOnItsWay, AnswersVerified, ActsAsVerified, Levels, Queue!Final,
            Queue!Close, Exited, queue, ui, threads, On
<1>1. CASE RequestQuit
  BY <1>1 DEF RequestQuit
<1>2. CASE QuitJoin
  BY <1>2 DEF QuitJoin
<1>3. CASE QuitClose
  BY <1>3 DEF QuitClose
<1>4. CASE QuitExit
  BY <1>4 DEF QuitExit
<1>5. CASE Unmount
  BY <1>5 DEF Unmount
<1>6. ASSUME NEW joined \in BOOLEAN, Leave(joined) PROVE IInv'
  BY <1>6 DEF Leave
<1> HIDE DEF IInv
<1>7. QED
  BY <1>1, <1>2, <1>3, <1>4, <1>5, <1>6

-----------------------------------------------------------------------------
(* The theorems *)

\* The parts of IInv together are kept by every step of every thread.
THEOREM Inductive == Spec => []IInv
<1>1. Init => IInv
  BY RolesAssumption
     DEF Init, Queue!Init, IInv, TypeOK, Kinds, LoginsForUsers, LoggedIn,
         DebugForAdmins, DebugOnItsWay, AnswersVerified, ActsAsVerified, Queue!Final
<1>2. IInv /\ [Next]_vars => IInv'
  <2> SUFFICES ASSUME IInv, [Next]_vars PROVE IInv'
    OBVIOUS
  <2>1. CASE Next
    BY <2>1, LoginsKeep, ScreensKeep, JobsKeep, QuittingKeeps DEF Next
  <2>2. CASE UNCHANGED vars
    BY <2>2 DEF vars, queue, ui, threads, IInv, TypeOK, Kinds, LoginsForUsers,
                LoggedIn, DebugForAdmins, DebugOnItsWay, AnswersVerified, ActsAsVerified
  <2>3. QED
    BY <2>1, <2>2
<1>3. QED
  BY <1>1, <1>2, PTL DEF Spec

\* Every variable keeps to its values; a job has an owner from the moment it
\* is listed (NewAnalysisScreen submits in the name of app.principal).
THEOREM TypeCorrect == Spec => []TypeOK
<1>1. IInv => TypeOK
  BY DEF IInv
<1>2. QED
  BY Inductive, <1>1, PTL

\* Every screen but the login screen has a user, as main_menu.py:34 asserts,
\* and the menu names the user that acts, whichever login answered last.
THEOREM LoggedInAlways == Spec => []LoggedIn
<1>1. IInv => LoggedIn
  BY DEF IInv
<1>2. QED
  BY Inductive, <1>1, PTL

\* Only an administrator ever has DEBUG lines on the screen of the tool logs,
\* however late a thread of an earlier visit answers (tool_logs.py:4).
THEOREM DebugOnlyForAdmins == Spec => []DebugForAdmins
<1>1. IInv => DebugForAdmins
  BY DEF IInv
<1>2. QED
  BY Inductive, <1>1, PTL

\* The principal, and the owner of every job, is a user whose password was
\* accepted (service.py:46), however late and in whatever order the threads
\* that log in answer.
THEOREM OnlyVerifiedAct == Spec => []ActsAsVerified
<1>1. IInv => ActsAsVerified
  BY DEF IInv
<1>2. QED
  BY Inductive, <1>1, PTL

\* A token is set only by the owner of the job or by an administrator, and a
\* job never changes hands (jobs.py:4).
THEOREM StopsByRight == Spec => StoppedByRight
<1>1. TypeOK /\ [Next]_vars =>
        [/\ \A j \in flagged' \ flagged : principal = owner[j] \/ principal \in Admins
         /\ \A j \in Jobs : owner[j] # Nobody => owner'[j] = owner[j]]_vars
  <2> SUFFICES ASSUME TypeOK, Next
               PROVE  /\ \A j \in flagged' \ flagged :
                            principal = owner[j] \/ principal \in Admins
                      /\ \A j \in Jobs : owner[j] # Nobody => owner'[j] = owner[j]
    OBVIOUS
  <2>1. ASSUME NEW j \in Jobs, Submit(j)
        PROVE  /\ flagged' = flagged
               /\ \A i \in Jobs : owner[i] # Nobody => owner'[i] = owner[i]
    BY <2>1 DEF Submit, Queue!Accept, TypeOK
  <2>2. ASSUME NEW j \in Jobs, CancelSelected(j)
        PROVE  /\ \A i \in flagged' \ flagged : principal = owner[i] \/ principal \in Admins
               /\ owner' = owner
    BY <2>2 DEF CancelSelected, MayStop, May
  <2>3. CASE UNCHANGED <<flagged, owner>>
    BY <2>3
  <2>4. CASE Logout \/ Back \/ SubmitRaises \/ DismissPrompt \/ ChangeLevel
    BY <2>3, <2>4 DEF Logout, Back, SubmitRaises, DismissPrompt, ChangeLevel, queue
  <2>5. CASE \/ \E s \in {"new", "jobs", "findings", "logs"} : Open(s)
             \/ \E l \in Levels : ChooseLevel(l)
             \/ \E l \in loads : ShowLines(l) \/ LoadRaises(l)
    BY <2>3, <2>5 DEF Open, ChooseLevel, ShowLines, LoadRaises, queue
  <2>6. CASE RequestQuit \/ QuitJoin \/ QuitClose \/ QuitExit \/ Unmount
             \/ \E joined \in BOOLEAN : Leave(joined)
    BY <2>3, <2>6 DEF RequestQuit, QuitJoin, QuitClose, QuitExit, Unmount, Leave, queue
  <2>7. CASE Work
    BY <2>3, <2>7 DEF Work
  <2>8. CASE \E a \in Attempts : \/ \E u \in Users : AttemptLogin(a, u)
                                 \/ \E answer \in {"yes", "no"} : Verify(a, answer)
                                 \/ VerifyRaises(a) \/ LoginSucceeded(a) \/ ShowError(a)
    BY <2>3, <2>8 DEF AttemptLogin, Verify, VerifyRaises, LoginSucceeded, ShowError, queue
  <2>9. QED
    BY <2>1, <2>2, <2>4, <2>5, <2>6, <2>7, <2>8 DEF Next
<1>2. QED
  BY TypeCorrect, <1>1, PTL DEF Spec, StoppedByRight
=============================================================================
