# Verification of security-log-analysis-tool

TLA+ models of the parts of `src/src/security_log_analysis_tool/` whose behaviour
over time is hard to test, the TLC configurations that check them on small
instances, and TLAPS proofs about them. Paths below are relative to that
directory; line numbers are in `PROJECT.json` (`map`, `hazards`).

## The system

The program reads Apache access logs and syslog `auth.log` files, detects attack
patterns (brute force, scanning, credential guessing, sudo abuse), correlates the
findings and reports them. It is used from a command line (`analyze`, `watch`,
`users`) and from a terminal UI (`tui`).

```
 analyze ---> AnalysisEngine --> parsers --> detection rules --> correlation --> report,
    |             ^                                                              export
    |             | run(job, token)                                              alerts
 TUI screens -> JobQueue -> worker threads --- on_done hook -----------------------^
    |                                                                              |
    +-> AuthService -> UserStore (SQLite)                                          |
 watch -----> WatchSession -> FileTailer, IncrementalAnalyzer ---------------------+
```

| Component | State it keeps | Operations | Hard behaviour | What makes it correct |
|---|---|---|---|---|
| Job queue (`pipeline/queue.py`) | registry of jobs and cancel tokens (under one lock), `queue.Queue`, lifecycle lock, shutdown flag, worker threads | `submit`, `cancel`, `shutdown`, `_work_loop`, `_process` | several callers against several workers; a cancel or a shutdown in the middle of anything; a full queue; a wedged worker | no job lost, run twice or started after its cancel; DONE only after the hook; a clean shutdown means quiet threads |
| File tailer (`FileTailer` in `pipeline/watch.py`) | offset, partial line, inode | `poll` | the file is renamed, recreated or truncated at any time; reads are capped | whole lines only, in order, none twice; nothing lost for good |
| Watch session, incremental analyzer (`pipeline/watch.py`, `commands/watch.py`) | one tailer, line counter, pinned parser and pending sample per file; live detectors; last findings; seen correlations | `run`, `_poll_file`, `feed`, `_correlate` | state that outlives a batch or a rotated file | the stream reports what a batch analysis of the same lines reports, once |
| Analysis engine (`pipeline/engine.py`) | none between runs | `analyze` | deferred syslog files; order of files | every line is parsed once or counted as skipped; detectors see events in an order their windows allow |
| Detection rules (`detection/`) | sliding windows and "already flagged" sets per key | `feed`, `evaluate` | eviction with out-of-order times; window edges; state across batches | a group is flagged when, and once, its window holds enough events |
| Correlation (`correlation/engine.py`) | none | `correlate` | window edges; overlapping rules | each group of findings inside the window is reported |
| Parsers (`parsers/`) | none | `parse`, `sniff` | syslog stamps have no year | the inferred year puts a line in the past, at most a year ago |
| Accounts (`auth/`) | users, failure counters and locks in SQLite | `login`, `create_user`, `remove`, `seed-demo` | read-modify-write by several threads or processes | the counter reaches the limit after that many failures; a lock is taken and released as stated |
| Alerts (`alerts/`) | none | `dispatch` | one sink of several fails | every sink is tried, with all findings above the threshold |
| Terminal UI (`tui/`) | session user, the queue, the store | login, submit, cancel, quit | quit against everything else | no screen without a user, no rights of another user, a quit that ends |
| CLI (`cli.py`, `commands/analyze.py`) | none | `analyze` | one of report, export, alerts fails | exit codes; order of effects |
| Configuration (`config.py`) | none | `load_rules`, `load_env_file` | YAML values of unexpected types | a file is accepted, or refused with a `ConfigError` |
| Exports, report, redaction, logging | none | | an export that fails | stateless text work |

**Interactions.** A screen calls the queue from a UI worker thread; a worker thread
calls `JobWorker.run` (the engine) with the job's token, which the engine does not
poll, and then the `on_done` hook, which dispatches the alerts; quitting calls
`shutdown(timeout=10)` and then closes the store. The watch session polls its
tailers one after another in one thread, feeds each batch of new lines to the live
detectors and correlates what they report.

## The modules

| Module | Models | Built on |
|---|---|---|
| `JobLifecycle` | what the queue promises (abstract) | |
| `JobQueue` | `pipeline/queue.py` | implements `JobLifecycle` |
| `LineReader` | what a tailer promises (abstract) | |
| `FileTailer` | the tailer of `pipeline/watch.py` | implements `LineReader` |
| `Detection` | `detection/*.py` under `feed` | |
| `LogFormats`, `SyslogYear` | `parsers/` as operators | |
| `Correlation` | `correlation/engine.py` and `_correlate` | |
| `WatchSession` | the rest of `pipeline/watch.py`, `commands/watch.py` | `LogFormats`, `Correlation` |
| `Analysis` | `pipeline/engine.py` | `LogFormats`, `SyslogYear` |
| `RulesFile` | `config.py`, `alerts/__init__.py` as operators | |
| `AnalyzeCommand` | `commands/analyze.py`, `cli.py`, dispatch | `Analysis`, `RulesFile` |
| `Accounts` | `auth/`, `commands/users.py` | |
| `TuiSession` | `tui/` | INSTANCE of `JobLifecycle` |
| `MC...` | what TLC needs on top: symmetry, lines, documents | each its module |
| `JobQueueProofs`, `FileTailerProofs`, `DetectionProofs`, `SyslogYearProofs`, `WatchSessionProofs`, `AnalyzeCommandProofs`, `AccountsProofs`, `TuiSessionProofs` | theorems | each its module |

### `JobLifecycle` — what the queue promises

The abstract specification: a job is accepted, started, notified and completed, or
aborted, or cancelled while queued; a final status is final, a job is DONE only after
its hook has run, and nothing is accepted once the queue is closed. Three variables,
seven actions, no threads.

### `JobQueue` — `pipeline/queue.py`

One step is what a thread does between two points where another can see the
difference: one call of the registry (each takes the registry's lock), one call of
the `queue.Queue`, or the change of the shutdown flag.

| Code | Model |
|---|---|
| `JobRegistry._jobs`, `CancelToken` | `jobs` (status or "absent"), `token` |
| `JobQueue._queue`, `_lifecycle_lock`, `_shutdown_event` | `queue`, `lock`, `down` |
| `submit` | `SubmitRefused`, or `SubmitEnter`, `SubmitAdd`, then `SubmitPut` or `SubmitFull`, `SubmitRemove`; the lock is held throughout |
| `cancel` | `CancelToken`, `CancelGet`, `CancelFlag`, `CancelFlip`: four registry or token calls without a lock around them |
| `shutdown(timeout)` | `ShutdownSignal`, then for each worker `JoinExited` or (with a timeout) `JoinTimeout`, then `ShutdownReturn` |
| `_work_loop` | `Get`, `Empty`, `KeepWaiting`, `Exit` |
| `_process`, `start_if_runnable` | `Decline`, `ClaimCancelled`, `Claim`, then `RunCancelled` / `Analyze`, `RunFails` / `RunReturns`, `HookEnds`, `Publish` |

`PollsMidRun` says whether the worker's analysis looks at the token while it runs.
`EngineWorker` does so only before it starts (`FALSE`); the `JobWorker` protocol
allows more (`TRUE`, which has all behaviours of `FALSE` and is what the safety runs
take). The hook either returns or raises, and what it raises is logged: the same step.
The variables `answer`, `cancelOK`, `notified`, `stopped` and `late` record what
callers have been told and what an `Empty` has witnessed; no guard of the code reads
them, but `Fresh` uses `answer` to make each job id new.

### `LineReader` — what a tailer promises

What the session that polls a tailer sees of it: of the files that stand at the path one
after another it follows one at a time, moves on to a newer one (`Switch`, which loses the
unread rest of the old one), and returns the next complete lines of the file at the path
(`Return`), as many as it likes. Bytes, offsets, buffers and inode numbers do not show.

### `FileTailer` — `FileTailer` of `pipeline/watch.py`

A byte is named by where it came from: byte `i` of the `g`-th file that stood at the
path. So a line that was cut, joined or begun in the middle is told from a whole one
by its bytes. `poll` is two steps, `Stat` (with `HandleRotation`) and `Read`, because
another file may come to the path between the two calls; after the `open` the handle
pins the file. `StatFails` and `OpenFails` are the early returns, on any `OSError`: no
file at the path, or one that cannot be looked at or opened just now. The environment
appends single bytes (`Append1`), renames the file away and creates another
(`Renamed`, `Created`) or truncates it in place (`Truncated`), at any time. A new file
has an inode number of its own, that of the old one, or none (`st_ino` is 0 on some
file systems).

`torn` remembers whether a file ever came between the stat and the open of one poll:
the one case in which the promise about lines fails (see findings), and which the
safety properties therefore exclude by name. `OutpacesRefill` is the one assumption,
and one on the logger: a file whose inode does not give it away is polled before it
has grown to the old offset. `watch.py:28` documents what happens otherwise, for a
platform that reports `st_ino == 0`; a file truncated in place keeps its inode on every
platform, and is covered by the assumption alone. It is a constant, so that `FALSE` is a specification too: its types are proved, its lines are
not promised.

`ImplementsReader` says that each step is one of `LineReader` or does not show, as long
as no poll was torn. The mapping divides by the length of a line: `complete` is what the
size of the file holds of whole lines, `taken` what the offset has passed. A poll that
reads no newline is a stutter, so is an append that ends no line.

### `Detection` — `detection/*.py` and what drives them

Detectors report on a stream of events that reaches them in batches. An event is
known by its position in the stream (`log`), a sliding window is a set of positions,
and so a finding's evidence can be compared with the whole history. `Feed` appends a
batch sorted by time, runs the rules that keep nothing and empties the streaks, which
are local to one `evaluate`; then the other rules look at one event per step. The code
runs the rules one after another over the batch; none reads what another keeps, so the
order does not matter. With `MaxFeeds = 1` this is the detection stage of
`AnalysisEngine.analyze`.

| Code | Model |
|---|---|
| `SlidingWindowCounter._entries`, `add`, `window_as_of` | `entries`, `Add`, `WindowAsOf` |
| `BruteForceRule`, `RateLimitAbuseRule` (count events), `ScannerBurstRule`, `SshInvalidUserEnumRule` (count different paths, users) | `Failure`, `Measure`, `flagged`; `Distinct` tells the two kinds apart |
| `BruteForceSuccessRule` | `entries` again, `Success`, `escalated` |
| `RapidSuccessAfterFailuresRule` | `streaks`, `Rapid`, `GapFits` |
| `PathTraversalRule`, `SqliProbeRule`, `SudoSensitiveCommandRule` | `Hits`, `PatternFindings` |
| events without an IP, or that no rule matches | `Skip` |

Which text matches which rule is the event's `kind`. One `entries` serves the four
threshold rules and the escalation rule, whose own counter holds the same failures.
`InOrder` is the assumption stated in `base.py` and `watch.py`: no event is older than
one of its key fed before. The code does not check it.

### `LogFormats`, `SyslogYear` — `parsers/`

A line is known by its form: it begins as the regular expression of one of the two
parsers asks, as both ask (`LogFormats` quotes such a line), or as neither.
`Recognises` is the fraction of 0.6 in whole numbers, `SniffParser` the better score,
the first on a tie. `InferYear` is `_infer_timestamp`
with its calendar: `IsDate` is `_build_dt` returning a date, `Earlier` the years that
the loop tries. The time of day is left out: one that does not exist (25:61:61) makes
`_build_dt` return None for every year, as 30 February does.

### `Correlation` — `correlation/engine.py`, `IncrementalAnalyzer._correlate`

`Correlate` is `correlate` for one rule: for each address the first anchor whose group
satisfies the thresholds. `CorrelateNew` is one call of `_correlate`: extend the
buffer (`recent`), prune by the newest, correlate under every rule in turn
(`Correlations`), report what is new (`Fresh`). New is what has another key than all
reports before (`reported`): the address and the rules that met (`Key`). The name of the
correlation rule is not part of it, so of two rules that come to one group the first
reports it. The code sorts findings by time and looks behind the anchor; of anchors of the same
time the first sees all of them, so sets give the same groups. The correlation rules
are a sequence, each with a positive window (`CorrelationAssumption`), the largest of
which decides what is pruned.

### `WatchSession` — `WatchSession` of `pipeline/watch.py`, `commands/watch.py`

A poll is a step per file (`Keep` if no format is known yet, else `Parse`), then
`Feed` and `Count`; `Stop` is the stop event or the last poll between two polls, and
Ctrl+C anywhere, which `cut` remembers (the events of the poll that is interrupted then are in no counter, and
`SummaryAdds` says that nothing else is missing). The tailer is its promise, `LineReader`, and
a poll returns all whole lines not read yet (that it may take several polls to return
them all is `FileTailer`'s concern, and a cut of the lines over polls is a cut of their
writing).
The detectors are their promise: a line says what finding it leads to, if any. `at`
is the true place of a line among those written, `no` the number the code gives it.
`FilesAssumption` and `ContentAssumption` say that the paths are a sequence, in which
one may be named twice, and that a finding begins and ends at some time. Which lines of
a batch become events (`Parsed`) is a recursive function over the batch, and what is
counted (`Total`) is a set of places, so that sums need no induction.

| Code | Model |
|---|---|
| `_line_no`, `_pending`, `_parsers` | `lineNo`, `pending`, `parser` |
| `_read_file_events`, `_resolve_parser` | `NewLines`, `Waiting`, `ParserOf`, `Capped`, `Keep`, `Parse` |
| `poll_once`, `feed` | `Turn`, `Feed`, `Count` |
| `event_count`, `failure_count`, `finding_count` | the same |

### `Analysis` — `pipeline/engine.py`

`analyze` from the names of the files to the sorted events: a step of `ParseWeb` per
line of a web log or `Defer` for a syslog file, `StartAuth` fixes the reference, a step
of `ParseAuth` per line of a deferred file, `Finish` sorts, by any bijection that orders
the dates and keeps lines of equal date as they were; `Fail` is the `ConfigError` of a
file that cannot be read or recognised. `at` is the line to be parsed next. The files
are given in every order (`Orders`). A line may bear any date, also one that no year
has, but none of the first eight years of the calendar, where the search for a year
would leave it (`Dates`).

### `RulesFile`, `AnalyzeCommand` — `config.py`, `alerts/`, `commands/analyze.py`, `cli.py`

`LoadProblem` is what `load_rules` makes of a document: fine, refused with a
`ConfigError`, or left by another exception, in the order in which the code looks.
YAML values are known by their spelling, since `true` passes for a number in Python.
`BuildDispatcher` and `Eligible` are the alerts' part. `AnalyzeCommand` extends
`Analysis`: `Load`, the steps of `Analysis`, `Detect`, `View`, then an export
(`Export`, `ExportFails`, ...), then alerts (`Mute`, `EnvFails`, `Build`, a `Send` per
sink that may fail), with `Exit` at the end and `Leave` wherever an exception leaves
`run`. A sink is its place in the list of the rules file, which may name one kind
several times; `built` keeps which of them were built, `sent` what each was given. What the rules find is any set of severities of enabled rules.

### `Accounts` — `auth/`, `commands/users.py`

One step is one SQL statement; what a client computes between two statements is its
own (`seen`, `lockUntil`). A client is a login thread of the terminal UI or a process
of the command line.

| Code | Model |
|---|---|
| `login` | `Lookup`, then `RefuseLocked`, `Wrong`, `Record`, or `Right`, `Reset` |
| `_require_manage_users` | `Admitted` |
| `users add`, `users remove` | a login, then `RunAdd`, `RunRemove` |
| `users seed-demo` | `SeedStart`, per account `SeedLook`, `SeedCreate` or `SeedCrash` |

`LockAssumption` is that both settings of the policy are positive, `DemoAssumption`
that the demo accounts and the passwords used are of the sets given. `strikes` and
`mixed` are history: the wrong passwords since the last right one, and
the accounts that two clients have used at a time. `users list` reads only.

### `TuiSession` — `tui/`

A handler of the UI thread is one step, and so is what a thread makes it do by
`call_from_thread`. Such threads cannot be stopped: `exclusive=True` cancels a
`Worker` object, not the thread, so the answer of a login or of a log read comes when
it comes, on whatever screen is there. The queue is `JobLifecycle` (INSTANCE), to
which the queue's implementation refines; so the session is checked over every queue
that keeps that promise. An exception of a handler ends the application (`Raise`, then
`Unmount`, `Leave`), and so does one of a thread whose `Worker` was not cancelled:
`VerifyRaises` of a login, `LoadRaises` of a log that is no UTF-8 or holds a line that is
JSON and no object. `verified` is history: the users whose password was accepted. The
works of Textual itself are known only by how the screens use them.

| Code | Model |
|---|---|
| `app.principal`, the screen stack, the name on the menu | `principal`, `screen`, `whoami` |
| `_do_login`, `_load_logs`, `action_request_quit` in their threads | `login`, `loads`, `quit` |
| `shutdown(timeout=10)` | `Queue!Close`, then `QuitJoin` or `Leave`: all threads have exited, or the time is over |
| `submit`, `cancel` on the screens | `Submit`, `SubmitRaises`, `CancelSelected`; the tables and the timers that fill them are left out |

## What the runs check

| Run | Instance | Shows |
|---|---|---|
| `queue_safety` | 3 jobs, 2 callers, 2 workers, 1 place | `SingleOwner`, `NoLostJob`, `DoneMeansNotified`, `CancelSticks`, `RejectedStaysOut`, `EmptyAfterSignalIsFinal`, `TrueShutdownIsQuiet`; every step is one of `JobLifecycle` or invisible (`ImplementsLifecycle`) |
| `queue_liveness` | 2 jobs, 2 callers, 1 worker, 1 place | if workers run: accepted jobs end unless shutdown is called (`JobsFinish`), shutdown drains the queue unless the worker was caught idle (`DrainsUnlessCaughtIdle`), every call returns; and a shutdown with a timeout returns in any case (`CallsReturn`) |
| `queue_stranded` | 1 job, 2 callers, 1 worker | *violation* of `DrainedOnExit`: finding 1 |
| `tail_rotation` | 3 files, chunks of 2 bytes, every kind of rotation | lines come whole, in turn and once, unless a file came in the middle of a poll (`RightUnlessTorn`), and every step until then is one of `LineReader` or invisible (`ImplementsReader`); every complete line of a file that stays is returned (`CatchesUp`) |
| `tail_midpoll` | the same, chunks of 4 | *violation* of `WholeLines`: finding 2 |
| `detect_stream` | 2 keys, 2 details, times {0, 2, 3}, window 2, threshold 2, 4 events in up to 3 feeds | `ThresholdFiresOnce`, `EscalationFiresOnce`, `EvidenceInWindow`, `EachHitReportedOnce`; a rapid success only after a true streak, and in one feed always (`RapidSuccessSound`) |
| `detect_polls` | 1 key, 4 events in up to 2 feeds | *violation* of `RapidSuccessSeen`: finding 3 |
| `watch_session` | 2 files, 3 lines, 1 rotation, a sample of 1 line, 2 correlation rules, findings of 2 addresses | lines parsed once, in turn, under their numbers (`HandedInTurn`), the summary adds up (`SummaryAdds`), after each poll every group that the batch engine makes of the recent findings has been reported, once, and nothing else is (`CorrelatedAsInBatch`: `CorrelatedInTime`, `CorrelatedOnce`, `ReportedNow`), every line read at last (`LinesReached`) |
| `accounts` | 2 clients, 2 accounts, a lock after 2 failures | the counter and the lock are what the policy says (`PolicyKept`), locks last (`LockLasts`), only administrators manage accounts (`OnlyAdminsManage`) |
| `analyze_command` | 2 files of up to 2 lines in either order, 16 rules files | each line counted once (`EachLineOnce`), dates independent of the order of files (`SameInAnyOrder`) and right where they can be known, with no day lost (`DatedRight`); windows positive and rules distinct (`CommandTypeOK`); exit code, export and report agree, and 2 comes before any effect (`CodeTellsOutcome`); the sinks that were built are called, once each and with all alerts, whatever fails (`NoneSuppressed`) |
| `tui_session` | 1 job, an analyst, an administrator, 2 logins | no screen without a user (`LoggedIn`), nor with the lines or the rights of another (`DebugForAdmins`, `StoppedByRight`); nobody acts, or owns a job, under a name whose password was not accepted (`ActsAsVerified`); a quit that ends (`QuitEnds`) |
| `tui_quit` | the same | *violation* of `SubmitNeverRaises`: finding 4 |

**Bounds.** Three jobs over one place and two workers have every place, worker and
caller taken at once, a full queue, and a job in each of two workers' hands while
another waits; two callers are a submit against a cancel or a shutdown, a cancel
against another cancel, and two shutdowns at once. No conjunct of an invariant speaks
of more than two workers or two jobs. The proofs show that the bounds hide nothing in
the safety properties; the liveness run uses the smallest instance in which the queue
fills. For the tailer, three files are two rotations in a row; `LineLen` is 2, 3, 2,
so that an offset at the end of a line of one file lies inside a line of the next;
`MaxSize = 6` gives three or two lines per file, and chunks of 2 cut lines of 3.
`MaxSize` and `NumFiles` are the only bounds on the environment, which stops when they
are reached.

For the detectors, four events are two that reach the threshold, one more that must
not report again, and one that falls out of the window; times 0, 2 and 3 with a window
of 2 have pairs inside, exactly at and beyond the edge. The two keys show that nothing
of one reaches the other. `MaxEvents` and `MaxFeeds` bound the stream; the theorems
hold for all values of both.

For the watch, `MaxLines = 3` with `MaxSniff = 1` is a sample that overflows, a line
that decides the format and one after it, or three findings for a correlation with one
that lies outside the window. `MCContent` has three findings of one address: the first two
meet the second rule, all three the first with another group, so that an address is
reported twice, under different rules; and one of another address that ends late enough
to prune the first of them. `MaxRotations` bounds how many paths are rotated. For the accounts,
a lock after two failures is reached, kept, ended (`MaxTime`, `LockoutDuration` 1) and
followed by one more failure (`MaxStrikes = 3`). For the command, `MCLines` has the
days on both sides of New Year, 29 February of a leap year, of a common year and seen
from 2103 (the leap year 2100 that is none lies between), and a day that no year has;
`MCDocs` has a document for each way a file can be refused or accepted; `SampleSize`
is 1, so that a file may be read by a parser that its second line does not fit. For the session, two
logins are one that overtakes another or comes after a logout; `MaxVisits` and
`MaxLoads` bound the log reads: two at a time, for the same screen or for two. The bound on logins (`Attempts`) also bounds how often
users change.

**Deadlock** is checked for the queue, the tailer, the detectors and the accounts: a
queue can always be shut down again or waited for, the tailer always polls, `feed` can
always be called with nothing, and a client can always log in or seed. A command that
has exited, a watch that was stopped and a session that has ended stop, so their
configurations do not check it.

**Fairness.** `FairSpec` of `JobQueue` is weak fairness of the steps of each call that
has begun (`CallersRun`): no step of a call waits for another thread except joins (for
the thread) and the entry of `submit` and `shutdown` (for the lock), and entering is
never required. That the workers run and analyses and hooks end is a premise of the
properties that need it (`WorkersRun`), since an analysis may hang;
the second part of `CallsReturn` holds without it. `FairSpec` of `FileTailer` and of
`WatchSession` is weak fairness of the poll, since `WatchSession.run` polls until it
is stopped; nobody has to write. `CatchesUp` has a premise besides: looking at the file
and opening it do not fail for ever (`OpensAgain`, strong fairness of the two, since
they may fail now and then). `FairSpec` of `TuiSession` is weak fairness of the
thread that quits and of the UI thread's way out, both of which wait for at most ten
seconds at a time; jobs may run for ever, and no user has to do anything. The other
modules have safety properties only.

The type invariants of `FileTailer`, `Accounts` and `TuiSession` are not listed in the
configurations: they are parts of the inductive invariants below, and proved.

## Findings

1. **A job can be accepted and never run** (`queue_stranded`). `_work_loop` looks at the
   shutdown flag after `queue.get` has raised `Empty`. If the last live worker stands between
   the two while one caller submits a job and another calls `shutdown`, the worker sees the
   flag and exits; the job stays QUEUED for ever and `shutdown` returns True. The
   comments of `submit` and the docstring of `shutdown` promise that accepted jobs are
   drained. `EmptyAfterSignalIsFinal` and `DrainsUnlessCaughtIdle` say exactly how far the
   promise does hold.
2. **Lines of a rotated file can be cut** (`tail_midpoll`). `poll` stats the path and
   then opens it by name. If another file comes to the path in between, the tailer reads
   the new file at the old file's offset and joins what it finds to the old partial
   line, against "a half-written line is never parsed" and the inode check. The next
   poll notices the new inode and reads the file from the top, so nothing is lost for
   good (`CatchesUp`, which `tail_rotation` checks without that exception).
3. **Rapid success after failures is missed in watch mode** (`detect_polls`). The streaks
   of `RapidSuccessAfterFailuresRule` are a local variable of `evaluate`, so failures of
   one poll are forgotten at the next. `IncrementalAnalyzer` says that detectors are
   stateful across feeds by design and that a finding fires as its triggering line
   arrives. `analyze` over the same lines reports it (`RapidSuccessSound`).
4. **A submit while the application quits ends it with a traceback** (`tui_quit`). After
   Ctrl+Q a thread signals shutdown and waits up to ten seconds for the workers; the
   screens stay usable. `submit` then raises `RuntimeError`, of which the screen, which
   says that nothing raises out of it, catches nothing: `QueueFull` alone.

Smaller ones, modelled but without a run of their own:

- A late event is counted together with failures more than a window *after* it
  (`base.py:84`), so a finding's "N failures within Ws" can be false; `watch.py:24` speaks
  of under-counting alone. With events in order it cannot be, which is proved.
- A rules file that is not UTF-8, or a rule whose `type` is a list, ends in a traceback
  (`UnicodeDecodeError`, `TypeError`), where `config.py:3` promises a `ConfigError`. So
  does a `limit` that is a word, though only when the detector is built.
- A `.env` file that cannot be read raises out of `build_dispatcher`, and an export that
  fails ends the run before the alerts. A traceback's exit code is 1, like that of a run
  with findings.
- `users seed-demo` ends with an uncaught `UserStoreError` if another process creates the
  account first (`SeedCrash`); nothing is overwritten.
- Failures of one account that are counted by two clients at a time may be lost, so that
  the lock comes late; `PolicyKept` excludes overlapping logins by name (`mixed`).
- A login thread that reads the store after the quitting thread has closed it may end the
  application with a traceback (`VerifyRaises`), and so may a tool log that is no UTF-8
  (`LoadRaises`).
- A file truncated in place that grows past the old offset between two polls loses its
  first lines on every platform, since it keeps its inode; `watch.py:28` speaks of
  platforms without inode numbers. `OutpacesRefill` excludes it from the properties.
- Of two correlation rules that come to the same rules of one address, `watch` reports the
  first only (`watch.py:163`), `analyze` both; and what ended more than a window before
  the newest finding of its poll is pruned before it is correlated (`watch.py:157`).
  `CorrelatedAsInBatch` compares groups, and over the findings that are recent.

## What is proved

### The job queue

`tlapm JobQueueProofs.tla` proves, for all values of the constants under the assumptions
named in `JobQueue` (`NumWorkers` and `MaxPending` positive, `NoJob` and `NoCaller`
not a job or a caller):

| Theorem | Statement |
|---|---|
| `TypeCorrect` | `Spec => []TypeOK`; in particular the queue never exceeds `MaxPending` |
| `Inductive` | `Spec => []IInv` |
| `SingleOwnership`, `NoJobLost`, `DoneAfterHook`, `CancelIsFinal`, `RejectionLeavesNothing`, `LateEmptyIsFinal`, `QuietAfterShutdown` | the invariants of `queue_safety`, one each |
| `LifecycleRefinement` | `Spec => ImplementsLifecycle`: the queue implements `JobLifecycle` |

None of the invariants is inductive by itself. That no two workers hold one job needs
that the queue holds no id twice, which needs that an id put on it was never seen
before, which needs that the lifecycle lock is held from the look at the id to the
answer. `IInv` says all of it, in parts:

- `LockInv`: who holds the lock, and what is not true yet while it is held;
- `RegistryInv`: what is listed, cancelled or being cancelled was once added; a refused
  job is not listed and an accepted one always is;
- `CancelSticks`, itself a property;
- `QueueInv`: the ids on the queue are distinct, accepted and not started;
- `WorkerInv`: a job is in one worker's hands, off the queue, and RUNNING exactly while
  that worker is in the run;
- `NoLostJob`, itself a property;
- `HookInv`: which jobs the hook has run for, by the place their worker has reached;
- `ShutdownInv`: what the flag, a late `Empty` and a clean join entail.

For each part one lemma treats the steps of callers and one those of workers, with a
step per action; `WorkerFrame` and `CallerFrame` say what each side leaves alone. TLC
found `IInv` to be an invariant of the `queue_safety` instance before it was proved.
The refinement maps `status` to the registry's status of accepted jobs and `closed` to
the flag; `CallerRefines` and `WorkerRefines` name the abstract action of each step.

### The detectors

`tlapm DetectionProofs.tla` proves, from the assumptions named in `Detection`:

| Theorem | Statement |
|---|---|
| `TypeCorrect` | `Spec => []TypeOK`, in any order of events |
| `Inductive` | `Spec => []IInv` if `InOrder` |
| `ThresholdOnce` | `Spec => []ThresholdFiresOnce` if `InOrder`: cutting the stream into feeds changes nothing |
| `EscalationOnce`, `EvidenceSound` | `EscalationFiresOnce`, `EvidenceInWindow`, likewise |
| `HitsOnce` | `Spec => []EachHitReportedOnce`, in any order of events |
| `RapidSound` | `Spec => []RapidSuccessSound`, in any order of events |

The first three properties compare what was reported with the whole history, while the
code keeps one evicted bucket per key. `IInv` bridges the two: `OrderInv` (the events of a
key are in order of time), `EntriesInv` (the bucket holds at least the failures within
the window of any event to come, and nothing but failures of its key), `FlagInv` (a
key is flagged exactly if its first full window has been seen), `ReportInv` and
`EvidenceBound` (findings and their evidence lie among the events seen). `FailureFires`
and `SuccessFires` are the core: with an exact window, the rule's test is the
definition of the first full window. `OrderInv` is where `InOrder` is needed.

The other two do not need it. `HitsInv` says that the findings on patterns share no hit
and cover those seen. `StreakInv` says of the streaks, which each call of `evaluate`
begins anew, that one is always the end of the true streak (`Ending`), and all of it as
long as there was one feed: so a report is always right, and what can be missed is
missed by the cut between feeds alone (finding 3).

### The year of a syslog line

`tlapm SyslogYearProofs.tla` proves of the operator `InferYear`, for every reference
after year 8 and without any bound on the dates:

| Theorem | Statement |
|---|---|
| `NoDayLost` | each day that some year has is given a year that has it |
| `CertainIsRight` | a date no later than the reference and at most ten months older, or of its year and at most a month ahead, is given its own year |

`LeapYearNear` is the core of the first: among any eight years in a row one is a leap
year, across 2100 as well, so `_YEAR_SEARCH_DEPTH` is large enough. `DatedRight` says the same of the runs of the
engine, where the reference comes from the other files.

### The tailer

`tlapm FileTailerProofs.tla` proves, for any number of files, any length of their lines
(of at least one byte and a newline) and any chunk limit:

| Theorem | Statement |
|---|---|
| `TypeCorrect` | `Spec => []TypeOK`, whatever the logger does |
| `Inductive` | `Spec => [](TypeOK /\ RightInv)` if `OutpacesRefill` |
| `LinesAreRight` | `Spec => []RightUnlessTorn` if `OutpacesRefill` |
| `ReaderRefinement` | `Spec => ImplementsReader` if `OutpacesRefill`: the tailer implements `LineReader` |

The tailer keeps an offset, an inode number and a partial line, and none says where a
line begins. `RightInv` connects them, as long as no poll was torn: `PathInv` says that
a file which is not the one followed will be noticed (by its inode, by its size, or
because nothing was read yet), and `Behind(q, r)` that the offset stands behind `q`
lines and `r` bytes, that the buffer holds just these `r` bytes, and that the last line
returned is the `q`-th. `OutpacesRefill` is needed in `PathInv` alone, for the file that
was truncated or recreated under the same number. That splitting the buffer and a chunk
at the newlines gives the lines from the `q`-th on is arithmetic with the length of a
line as a parameter: lemmas on quotients and remainders (`Division`, `LineEnds`), on the
`k`-th newline of a buffer (`KthExists`) and on the bytes between two (`Splits`,
`RunSplits`), and `RunGrows` for a chunk that follows a partial line.

`ReaderRefinement` has one step per action. `Behind` makes the quotients of the mapping
the numbers of lines (`TakenIs`); a read takes as many as the newlines it has seen
(`ReadTakes`), none beyond the end of the file; a stat switches exactly if the file is
another one, which is what `PathInv` is for (`StatSwitches`); what the logger does adds
a complete line, replaces the file or does not show (`PathSteps`).

### The watch session

`tlapm WatchSessionProofs.tla` proves, for any number of files, lines, rotations and
correlation rules and any size of the sniff buffer:

| Theorem | Statement |
|---|---|
| `TypeCorrect` | `Spec => []TypeOK` |
| `Inductive` | `Spec => []IInv` |
| `LinesInTurn` | `Spec => []HandedInTurn`: each line that was read is handed over once and in its order, or waits, or is older than a full sample; its number is its place as long as the file was not rotated |
| `SummaryIsRight` | `Spec => []SummaryAdds` |
| `WatchCorrelatesAsAnalyze` | `Spec => CorrelatedAsInBatch`, an action property: after each poll all groups that the batch engine makes of the recent findings have been reported, each once, and what the poll reports is among them |
| `CorrelationExact` | of any finite set of findings `Correlate` reports an address exactly if some of its findings, all within one window, satisfy the rule |
| `SnifferTakesBest` | `SniffParser` takes a parser that recognises the sample with the most hits, the first on a tie, and none only if none does; with fewer than a fifth of the lines in both formats no two do |

`IInv` is three parts. `EntriesInv`: until the format of a file is known all its lines
wait, and none do afterwards (`KnownOrWaiting`), the numbers lag behind the lines only after a
rotation (`AllCounted`), nothing points past what was read (`Behind`), and
`HandedInTurn`. `Counted`: the counters and the batch under way are the entries handed
over. `CorrelationInv`: the buffer is what ended within one window of the newest
finding (`BufferIsRecent`), and all that it correlates to has been reported
(`AllReported`), each group once. With these `InTime` turns what the code keeps, a buffer
and a set of keys, into what `CorrelatedInTime` says of all findings ever fed; what a
feed reports comes out of the buffer, which is the set of recent findings by then, so
`ReportedNow` follows from `BufferIsRecent` after the step. `FreshAre` says that of rules
that come to one key in one call exactly one reports it, which is what `CorrelatedOnce`
needs.

The properties speak of sets of findings, the code of an anchor and what follows it.
`CorrelationExact` says that this is the same: the earliest finding of such a set is an
anchor of one at least as large (`AnchorThere`), and more findings satisfy a rule that
fewer satisfy (`MoreSatisfy`). So an address is in `Correlations(Recently)` for every
set of its recent findings that satisfies a rule, not just for those that the search
happens to look at.

`SnifferTakesBest` rests on the threshold of 0.6: two parsers that both recognise a sample
share at least a fifth of its lines (`OneRecognises`), the lines that match both regular
expressions (`Ambiguous`). With fewer of them neither the best score nor the order of the
parsers in `_SNIFF_ORDER` decides anything; with more, they do.

### The analysis and its command

`tlapm AnalyzeCommandProofs.tla` proves, for any number of files, lines, rules and sinks
and whatever fails:

| Theorem | Statement |
|---|---|
| `TypeCorrect` | `CommandSpec => []CommandTypeOK`; in particular every rule in use has a positive window and its own name |
| `Inductive` | `CommandSpec => []CommandInv` |
| `EachLineIsReadOnce`, `OrderDoesNotMatter`, `DatesAreRight` | the invariants of the engine: `EachLineOnce`, `SameInAnyOrder`, `DatedRight` |
| `CodeIsRight`, `NothingSuppressed` | those of the command: `CodeTellsOutcome`, `NoneSuppressed` |
| `EngineAlone` | `Spec => [](EachLineOnce /\ SameInAnyOrder /\ DatedRight)`: the engine of the terminal UI, without the command |

`EngineInv` follows the files through the two lists: each waits in one of them or has
been read (`FilesInv`), the lines done are those before `at` of the file under way and
all of the files read (`LineInv`), none twice (`OnceInv`), and each was dated by the
reference (`DateInv`), which is the latest date of all web lines once syslog files are
read (`RefInv`). Independence of the order follows because that is a property of the
set of events. `Finish` keeps the invariant since a bijection of the positions keeps
the set. `DatesAreRight` cites the two theorems about `InferYear`. `Kept` is the
command's part: what each phase has and has not done (`StageInv`), and that a sink
built is still to be called or has been called once (`CallsInv`: the places called are
those built and not left, and there are as many calls as such places).

### Accounts

`tlapm AccountsProofs.tla` proves, for any number of clients, accounts and passwords,
any limit of failures and any length of a lock:

| Theorem | Statement |
|---|---|
| `TypeCorrect`, `Inductive` | `Spec => []TypeOK`, `Spec => []IInv` |
| `LockoutPolicy` | `Spec => []PolicyKept`: as long as no two logins of an account have overlapped, the counter is the number of wrong passwords since the last right one, and a lock is set exactly from the limit on |
| `LocksLast`, `AdminsManage` | the action properties `LockLasts`, `OnlyAdminsManage` |

What a login writes it computed from a row it read before. `IInv` says when that is
sound: nobody else is between the reading and the writing of that account (`Alone`), so
the row read is the row of the table or the account is gone (`RowIsCurrent`), and a
client that writes or acts has found what entitles it to (`Checked`). `RowChanges` names
the ways in which a row can change at all; with it `LocksLast` needs `RowIsCurrent` for
the logins that write, and `AdminsManage` needs `Checked` for the operator's role.

### The terminal session

`tlapm TuiSessionProofs.tla` proves, for any number of jobs, users, logins and visits:

| Theorem | Statement |
|---|---|
| `TypeCorrect`, `Inductive` | `Spec => []TypeOK`, `Spec => []IInv` |
| `LoggedInAlways`, `DebugOnlyForAdmins`, `OnlyVerifiedAct` | `LoggedIn`, `DebugForAdmins`, `ActsAsVerified` |
| `StopsByRight` | the action property `StoppedByRight` |

Threads answer late, so `IInv` speaks of answers on their way: a login under way is for
a user (`LoginsForUsers`), and one that is about to succeed for a user whose password was
accepted (`AnswersVerified`); DEBUG lines on their way to the screen that is open were
asked for by the user of now (`DebugOnItsWay`), because a visit has a number of its own.
The queue is `JobLifecycle`, so with `LifecycleRefinement` these hold over the real queue.

### What stays model-checked, and why

Every safety and action property of the passing runs is a theorem. TLC alone checks:

- the liveness properties `JobsFinish`, `CallsReturn`, `DrainsUnlessCaughtIdle`,
  `CatchesUp`, `LinesReached` and `QuitEnds`: temporal induction under fairness and
  `ENABLED` are outside what the prover supports;
- the four violations, which are counterexamples and not theorems.

The induction theorems of the library take an operator as a parameter, which no
installed prover can instantiate. What the proofs need of induction they get from the
least element of a set of numbers (`LeastNumber`, `SetInduction`, `KthExists`): for the
lines between newlines, for the latest of finitely many dates, and for `Parsed`, which
is a recursive function over a batch. The proofs treat `torn` and `mixed` as the
properties do: what they exclude is what the findings report. A session that was `cut` is
not excluded: `SummaryAdds` says what its summary lacks.

## Not modelled

- Regular expressions, hashing, the password policy, formatting, YAML and `.env` syntax
  and rendering: stateless text work. So are redaction and the set-up of logging, which
  have no module at all, and what the exporters write.
- Of the queue: job payloads, statistics, error texts and time stamps; a worker thread
  that dies other than through `_work_loop`. Of the tailer: decoding and carriage
  returns. Of the detectors: texts, markers and redaction of findings.
- That `splitlines` (batch) breaks lines at more characters than the tailer does, so that
  the two may number lines differently.
- That a watch dates syslog lines by the clock at the time they are parsed.
- Of the screens: layout, the contents of rows, and the cursor of the jobs table, which
  goes back to the first row whenever the table is filled again.
- Limits the code does not have: the registry never forgets a finished job, and the
  tailer buffers a line of any length.

The watch session takes the tailers by `LineReader` and the detectors by what they
report, and the terminal session takes the queue by `JobLifecycle`. The two abstract
specifications are proved to be implemented; one model of all steps together would be
out of TLC's reach.

## What remains open

The program is modelled and its safety properties are proved; other modules rely on the
queue and on the tailers by specifications which these are proved to implement. Left to
TLC, or to do:

- Liveness (above). What of it is safety could be proved: that `JobQueue` keeps a reason
  to go on for each waiting call, and that no reachable state of the tailer blocks a poll.
- Of the configuration, `CommandTypeOK` says what an accepted rules file gives the
  detectors; which files `LoadProblem` refuses, and with which exception, is checked
  only through the exit codes of the run.
- That the detectors' promise in `WatchSession` (a line leads to a finding or to none) is
  implemented by `Detection` is argued here, not proved.
