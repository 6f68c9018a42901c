----------------------------- MODULE TuiSession -----------------------------
(***************************************************************************)
(* tui/app.py, tui/screens/ and commands/tui.py: one run of the terminal   *)
(* interface, over a job queue that does what JobLifecycle promises.       *)
(*                                                                         *)
(* A handler of the UI thread is one step, and so is what a worker thread  *)
(* makes it do by call_from_thread().  Such a thread cannot be stopped:    *)
(* exclusive=True or a screen that is left only cancels its Worker object. *)
(* Handlers that change no more than what a table or a message shows are   *)
(* left out.                                                               *)
(***************************************************************************)
EXTENDS Naturals, FiniteSets

CONSTANTS
  Jobs,      \* what may be submitted
  Users, Admins,
  Nobody,    \* None, as a principal
  Attempts,  \* bound: the logins tried
  MaxVisits, \* bound: how often the tool logs are opened
  MaxLoads   \* bound: the threads that read the log at a time

ASSUME RolesAssumption == Admins \subseteq Users /\ Nobody \notin Users

VARIABLES
  \* The job queue
  status, notified, closed,
  flagged,   \* the jobs whose CancelToken is set
  owner,     \* submitted_by
  pool,      \* is any worker thread left?
  \* The UI thread
  app,       \* "running", "leaving" (the loop has ended), "joining" or "ended"
  screen,    \* the screen on top; "prompt" lies over "logs"
  principal, \* app.principal
  whoami,    \* the name that the menu was composed with
  visit,     \* which ToolLogsScreen
  level,     \* of the lines it shows, or "none"
  raised,    \* the handler that raised, if any
  \* Other threads
  login,     \* where each _do_login() is, and for whom
  loads,     \* the _load_logs() under way, with the screen that asked
  quit,      \* where action_request_quit() is
  store,     \* "open" or "closed"
  \* History
  verified   \* the users whose password AuthService.login() has accepted

Queue == INSTANCE JobLifecycle

queue == <<status, notified, closed, flagged, owner, pool>>
ui == <<app, screen, principal, whoami, visit, level, raised>>
threads == <<login, loads, quit, store, verified>>
vars == <<queue, ui, threads>>

Levels == {"DEBUG", "INFO"}
TypeOK ==
  /\ status \in [Jobs -> {"absent", "queued", "running"} \cup Queue!Final]
  /\ flagged \subseteq Jobs /\ owner \in [Jobs -> Users \cup {Nobody}]
  /\ \A j \in Jobs : status[j] = "absent" <=> owner[j] = Nobody
  /\ screen \in {"login", "menu", "new", "jobs", "findings", "logs", "prompt"}
  /\ principal \in Users \cup {Nobody} /\ whoami \in Users \cup {Nobody}
  /\ level \in Levels \cup {"none"}
  /\ login \in [Attempts -> [user : Users \cup {Nobody}, at : {"unused", "verify", "yes", "no", "over"}]]
  /\ \A l \in loads : l.visit <= visit /\ l.level \in Levels
  /\ quit \in {"idle", "join", "close", "exit", "over"} /\ store \in {"open", "closed"}
  /\ verified \subseteq Users

Init ==
  /\ Queue!Init /\ flagged = {} /\ owner = [j \in Jobs |-> Nobody] /\ pool = TRUE
  /\ app = "running" /\ screen = "login" /\ principal = Nobody /\ whoami = Nobody
  /\ visit = 0 /\ level = "none" /\ raised = "nothing"
  /\ login = [a \in Attempts |-> [user |-> Nobody, at |-> "unused"]]
  /\ loads = {} /\ quit = "idle" /\ store = "open" /\ verified = {}

\* authz.py
May(p, permission) ==
  p \in Admins \/ permission \notin {"STOP_ANY_JOB", "VIEW_ALL_TOOL_LOGS", "MANAGE_USERS"}

On(s) == app = "running" /\ screen = s

\* An exception that no handler catches ends the application.
Raise(handler) == app' = "leaving" /\ raised' = handler

-----------------------------------------------------------------------------
(* LoginScreen and MainMenuScreen *)

AttemptLogin(a, u) ==
  /\ On("login") /\ login[a].at = "unused"
  /\ login' = [login EXCEPT ![a] = [user |-> u, at |-> "verify"]]
  /\ UNCHANGED <<queue, ui, loads, quit, store, verified>>

\* In the thread: AuthService.login().  Reading a closed database raises
\* sqlite3.ProgrammingError, which is lost if the Worker has been cancelled.
Verify(a, answer) ==
  /\ app # "ended" /\ login[a].at = "verify" /\ answer \in {"yes", "no"}
  /\ store = "open"
  /\ login' = [login EXCEPT ![a].at = answer]
  /\ verified' = IF answer = "yes" THEN verified \cup {login[a].user} ELSE verified
  /\ UNCHANGED <<queue, ui, loads, quit, store>>

VerifyRaises(a) ==
  /\ app = "running" /\ login[a].at = "verify" /\ store = "closed"
  /\ login' = [login EXCEPT ![a].at = "over"]
  /\ Raise("login") \/ UNCHANGED <<app, raised>>
  /\ UNCHANGED <<queue, screen, principal, whoami, visit, level, loads, quit, store, verified>>

\* Mutant: the name is that of the form, where another may have been typed by now.
LoginSucceededAsTyped(a) ==
  /\ app = "running" /\ login[a].at = "yes"
  /\ login' = [login EXCEPT ![a].at = "over"]
  /\ \E b \in Attempts :
       /\ login[b].at # "unused"
       /\ principal' = login[b].user /\ screen' = "menu" /\ whoami' = login[b].user
  /\ UNCHANGED <<queue, app, visit, level, raised, loads, quit, store, verified>>

\* Whatever screen is on top by now is replaced.
LoginSucceeded(a) ==
  /\ app = "running" /\ login[a].at = "yes"
  /\ login' = [login EXCEPT ![a].at = "over"]
  /\ principal' = login[a].user /\ screen' = "menu" /\ whoami' = login[a].user
  /\ UNCHANGED <<queue, app, visit, level, raised, loads, quit, store, verified>>

\* Mutant: a failed login logs out.
ShowErrorLogsOut(a) ==
  /\ app = "running" /\ login[a].at = "no"
  /\ login' = [login EXCEPT ![a].at = "over"]
  /\ principal' = Nobody
  /\ UNCHANGED <<queue, app, screen, whoami, visit, level, raised, loads, quit, store, verified>>

ShowError(a) ==
  /\ app = "running" /\ login[a].at = "no"
  /\ login' = [login EXCEPT ![a].at = "over"]
  /\ UNCHANGED <<queue, ui, loads, quit, store, verified>>

Logout ==
  /\ On("menu")
  /\ principal' = Nobody /\ screen' = "login"
  /\ UNCHANGED <<queue, app, whoami, visit, level, raised, threads>>

\* The tool logs ask for a level when they are mounted.
Open(s) ==
  /\ On("menu") /\ s \in {"new", "jobs", "findings", "logs"}
  /\ screen' = IF s = "logs" THEN "prompt" ELSE s
  /\ s = "logs" => visit < MaxVisits
  /\ visit' = IF s = "logs" THEN visit + 1 ELSE visit
  /\ level' = IF s = "logs" THEN "none" ELSE level
  /\ UNCHANGED <<queue, app, principal, whoami, raised, threads>>

Back ==
  /\ app = "running" /\ screen \in {"new", "jobs", "findings", "logs"}
  /\ screen' = "menu" /\ whoami' = principal
  /\ UNCHANGED <<queue, app, principal, visit, level, raised, threads>>

-----------------------------------------------------------------------------
(* NewAnalysisScreen, JobsScreen and FindingsScreen *)

Submit(j) ==
  /\ On("new") /\ May(principal, "RUN_ANALYSIS")
  /\ Queue!Accept(j) /\ owner' = [owner EXCEPT ![j] = principal]
  /\ screen' = "jobs"
  /\ UNCHANGED <<flagged, pool, app, principal, whoami, visit, level, raised, threads>>

\* submit() raises RuntimeError; only QueueFull is caught.
SubmitRaises ==
  /\ On("new") /\ May(principal, "RUN_ANALYSIS") /\ closed
  /\ Raise("submit")
  /\ UNCHANGED <<queue, screen, principal, whoami, visit, level, threads>>

\* Mutant: the permission is that of one's own job.
MayStopOwn(p, j) == May(p, "STOP_OWN_JOB")

MayStop(p, j) == May(p, IF owner[j] = p THEN "STOP_OWN_JOB" ELSE "STOP_ANY_JOB")

\* cancel() of a job that is not over: the token, and the status if queued.
CancelSelected(j) ==
  /\ On("jobs") /\ status[j] \in {"queued", "running"}
  /\ MayStop(principal, j)
  /\ flagged' = flagged \cup {j}
  /\ IF status[j] = "queued" THEN Queue!CancelQueued(j) ELSE UNCHANGED <<status, notified, closed>>
  /\ UNCHANGED <<owner, pool, app, screen, principal, whoami, visit, level, raised, threads>>

-----------------------------------------------------------------------------
(* ToolLogsScreen and LogLevelPromptScreen *)

ChooseLevel(l) ==
  /\ On("prompt") /\ Cardinality(loads) < MaxLoads
  /\ l = "DEBUG" => May(principal, "VIEW_ALL_TOOL_LOGS")
  /\ screen' = "logs" /\ loads' = loads \cup {[visit |-> visit, level |-> l]}
  /\ UNCHANGED <<queue, app, principal, whoami, visit, level, raised, login, quit, store, verified>>

DismissPrompt ==
  /\ On("prompt") /\ screen' = "logs"
  /\ UNCHANGED <<queue, app, principal, whoami, visit, level, raised, threads>>

ChangeLevel ==
  /\ On("logs") /\ screen' = "prompt"
  /\ UNCHANGED <<queue, app, principal, whoami, visit, level, raised, threads>>

\* Mutant: the lines go to the screen on top, whoever asked for them.
ShowLinesOnTop(l) ==
  /\ app = "running" /\ l \in loads
  /\ loads' = loads \ {l}
  /\ level' = l.level
  /\ UNCHANGED <<queue, app, screen, principal, whoami, visit, raised, login, quit, store, verified>>

\* The lines, or the error, go to the screen that asked, if it is still there.
ShowLines(l) ==
  /\ app = "running" /\ l \in loads
  /\ loads' = loads \ {l}
  /\ level' = IF l.visit = visit THEN l.level ELSE level
  /\ UNCHANGED <<queue, app, screen, principal, whoami, visit, raised, login, quit, store, verified>>

\* A log that is no UTF-8, or a line that is JSON and no object, raises in the
\* thread, which is lost if the Worker has been cancelled.
LoadRaises(l) ==
  /\ app = "running" /\ l \in loads
  /\ loads' = loads \ {l}
  /\ Raise("logs") \/ UNCHANGED <<app, raised>>
  /\ UNCHANGED <<queue, screen, principal, whoami, visit, level, login, quit, store, verified>>

-----------------------------------------------------------------------------
(* Quitting *)

\* shutdown() signals; from now on nothing is accepted.  A second request
\* does the same again and is left out.
RequestQuit ==
  /\ app = "running" /\ quit = "idle"
  /\ quit' = "join" /\ Queue!Close
  /\ UNCHANGED <<flagged, owner, pool, ui, login, loads, store, verified>>

\* All worker threads have exited: a queued job stays queued (cf. JobQueue).
Exited == pool' = FALSE /\ \A j \in Jobs : status[j] # "running"

\* Mutant: join() has no timeout.
QuitJoinPatient ==
  /\ app # "ended" /\ quit = "join"
  /\ quit' = "close" /\ Exited
  /\ UNCHANGED <<status, notified, closed, flagged, owner, ui, login, loads, store, verified>>

QuitJoin ==
  /\ app # "ended" /\ quit = "join"
  /\ quit' = "close"
  /\ Exited \/ UNCHANGED pool
  /\ UNCHANGED <<status, notified, closed, flagged, owner, ui, login, loads, store, verified>>

QuitClose ==
  /\ app # "ended" /\ quit = "close"
  /\ quit' = "exit" /\ store' = "closed"
  /\ UNCHANGED <<queue, ui, login, loads, verified>>

QuitExit ==
  /\ app = "running" /\ quit = "exit"
  /\ quit' = "over" /\ app' = "leaving"
  /\ UNCHANGED <<queue, screen, principal, whoami, visit, level, raised, login, loads, store, verified>>

\* on_unmount(), after exit() and after an exception alike
Unmount ==
  /\ app = "leaving"
  /\ app' = "joining" /\ Queue!Close
  /\ UNCHANGED <<flagged, owner, pool, screen, principal, whoami, visit, level, raised, threads>>

Leave(joined) ==
  /\ app = "joining"
  /\ app' = "ended" /\ store' = "closed"
  /\ IF joined THEN Exited ELSE UNCHANGED pool
  /\ UNCHANGED <<status, notified, closed, flagged, owner, screen, principal, whoami,
                 visit, level, raised, login, loads, quit, verified>>

-----------------------------------------------------------------------------

\* The workers of the queue, until the process takes them with it
Work ==
  /\ pool /\ app # "ended"
  /\ \E j \in Jobs : \/ j \notin flagged /\ Queue!Start(j)
                     \/ Queue!Notify(j) \/ Queue!Complete(j) \/ Queue!Abort(j)
  /\ UNCHANGED <<flagged, owner, pool, ui, threads>>

Next ==
  \/ \E a \in Attempts : \/ \E u \in Users : AttemptLogin(a, u)
                         \/ \E answer \in {"yes", "no"} : Verify(a, answer)
                         \/ VerifyRaises(a) \/ LoginSucceeded(a) \/ ShowError(a)
  \/ Logout \/ Back \/ SubmitRaises
  \/ \E s \in {"new", "jobs", "findings", "logs"} : Open(s)
  \/ \E j \in Jobs : Submit(j) \/ CancelSelected(j)
  \/ \E l \in Levels : ChooseLevel(l)
  \/ DismissPrompt \/ ChangeLevel
  \/ \E l \in loads : ShowLines(l) \/ LoadRaises(l)
  \/ RequestQuit \/ QuitJoin \/ QuitClose \/ QuitExit
  \/ Unmount \/ \E joined \in BOOLEAN : Leave(joined)
  \/ Work

Spec == Init /\ [][Next]_vars

\* The thread that quits and the UI thread run on; jobs may run for ever, and
\* nobody has to do anything.
FairSpec ==
  /\ Spec
  /\ WF_vars(QuitJoin \/ QuitClose \/ QuitExit)
  /\ WF_vars(Unmount \/ \E joined \in BOOLEAN : Leave(joined))

-----------------------------------------------------------------------------
(* Properties *)

\* "only reachable after a successful login" (main_menu.py:34, and the same
\* assertion on every other screen), with logins that answer after a logout or
\* after another login; and the menu names the user that acts.
LoggedIn ==
  /\ screen # "login" => principal # Nobody
  /\ screen = "menu" => whoami = principal

\* "DEBUG is gated behind VIEW_ALL_TOOL_LOGS (admin)" (tool_logs.py:4): no
\* other user ever has such lines on the screen, though threads that read the
\* log for an earlier user may answer late.
DebugForAdmins ==
  level = "DEBUG" /\ screen \in {"logs", "prompt"} => principal \in Admins

\* Nobody acts, nor is recorded as the submitter of a job, under a name whose
\* password AuthService.login() has not accepted, although answers come when
\* another login is under way, after a logout or out of their order: a principal is
\* "an authenticated identity" (service.py:46).
ActsAsVerified ==
  /\ principal # Nobody => principal \in verified
  /\ \A j \in Jobs : owner[j] # Nobody => owner[j] \in verified

\* "an admin may cancel any job", an analyst only their own (jobs.py:4); the
\* owner of a job stays the one who submitted it.
StoppedByRight ==
  [][/\ \A j \in flagged' \ flagged : principal = owner[j] \/ principal \in Admins
     /\ \A j \in Jobs : owner[j] # Nobody => owner'[j] = owner[j]]_vars

\* "both calls below are idempotent" (app.py:113) and bounded: a quit, or an
\* exception, ends the application even if a job never ends.
QuitEnds == quit # "idle" \/ app = "leaving" ~> app = "ended"

\* "nothing here raises out to the app" (new_analysis.py:5)
SubmitNeverRaises == raised # "submit"
=============================================================================
