# deepgent: TLA+ models, checks and proofs

deepgent is an agent harness for embedded boards: an orchestrator runs a task in
an agent session, hooks supervise the session's tools, board-farm tools lease a
board and run commands on it, and evaluation campaigns drive boards for hours.
This directory models the whole of it that decides something: first the parts whose
correctness depends on the order in which several things happen (processes sharing a
lease file, tools awaiting a board, a process tree being killed, a session's messages
and hooks, a campaign on a board that fails, files rewritten without a lock, a desktop
over an event loop), then the rules that classify tasks, grant tools, rank knowledge
and turn measurements into verdicts. Paths below are relative to `src/src/deepgent/`
unless they start with `src/`.

## 1. Inventory

| Component | State it keeps | Operations | Talks to |
|---|---|---|---|
| Board leases `boards/leases.py` | one JSON file per board | acquire, release, require, current | every deepgent process of the host, through the file system |
| Board-farm tools `boards/farm.py` | a holder identity per server | list, lease, release, deploy, exec, capture_metrics, power | leases, registry, runners |
| SSH runner `boards/runner.py` | one connection | connect, run (watchdog and deadline), put, get, captures | the board |
| Local runner `boards/local.py` | a process group per command | run, terminate, copies, sampling | the host's processes |
| Board registry `boards/registry.py` | a TOML file | add, remove, register_local | all users of boards |
| Orchestrator `core/orchestrator.py` | one task's result, tracker, outcome | run_task, critic pass, task record | SDK session (external), hooks, telemetry |
| Budget `core/budget.py`, `hooks/budget_guard.py` | estimated spend of a task | record_usage, halt_needed; guard after a tool call | orchestrator, SDK |
| Other hooks `hooks/` | none, or edited files on disk | allow, deny, ask, annotate | SDK |
| Telemetry `telemetry/` | SQLite tables: records, failures, candidates, fact outcomes | record, draft, approve, aggregate | hooks, orchestrator (calibration) |
| Soak `evals/soak.py` | a run's result and report | phases, windows, rules, snapshot | runner, a concurrent workload task |
| Thermal profiler `evals/thermal_envelope.py` | the board's power mode | query, set, profile, restore | runner |
| Bisect `evals/bisect.py` and its callers | the project's working tree, the search range | list, probe, report, restore | git, golden runs |
| Golden runs, replay `evals/` | run directories, baselines, fixtures | run, score, update, record, replay | runners |
| Other evaluations `evals/` | none | statistics and verdicts | captures |
| Knowledge `knowledge/` | none, or skill files | matrix queries, arbitration, skill gates | telemetry, server |
| Knowledge server `src/server/` | chunk table and full-text index | add, search, get | knowledge clients |
| GUI `gui/` | AsyncTask, history file | start, cancel, history | the event loop |
| CLI, MCP server, host, containers, config, agents, generators | configuration and text | command surface | all of the above |

What is hard in it:

* **Concurrency between processes** without locks: the lease file (read, unlink,
  create and write are separate system calls), the working tree that bisects check
  commits out in, the registry, baselines, history.
* **State checked before an await and used after it**: the lease before a remote
  command, a fixture's hash before it is pushed, the budget before messages that
  are still in the stream.
* **Two timers that race**: the watchdog on the board and the client's deadline;
  lease expiry and a running command; SIGTERM's grace and the tree's exit.
* **Cleanup on every path**: process groups, power modes, workload tasks, reports.
* **Failure of the thing under test**: a board that wedges, reboots or answers
  late; a CLI subprocess that dies; a critic that never gives a verdict.

What makes each component correct is stated with its module in section 3. The
hazards, each at its line, are in `PROJECT.json`.

## 2. Plan

Most important first; a tick marks what is on disk.

1. [x] Board leases and what they promise (`LeaseLock`, `BoardLeases`), proofs.
2. [x] Tools on leased boards (`BoardFarm`, composes the leases with the runner).
3. [x] One task and its critic (`TaskSession`), proofs.
4. [x] Local commands (`LocalRunner`), proofs.
5. [x] Campaigns (`BoardLink`, `SoakRun`, `ThermalProfile`, composed in `MCCampaigns`),
   proofs of both. `MCHost` checks leases, campaigns and local commands in one run.
6. [x] Bisect over a shared working tree (`GoldenBisect`), proofs with its loop invariant.
7. [x] Hook gates and the store they report to (`SessionHooks`, `TelemetryStore`).
8. [x] What outlives a command: shared files and host setup (`SharedFiles`,
   `HostDetect`), fixtures (`Fixtures`), the knowledge server (`KnowledgeServer`), skill
   packs (`SkillPacks`), the cockpit (`Desktop`); checked together in `MCStores`.
9. [x] Rules as operators against what they promise: task intake (`Intake`), the
   knowledge layer (`CompatMatrix`, `KnowledgeRules`), evaluations (`Verdicts`,
   `BenchSweep`), and the two surfaces that call them (`CommandLine`), in `MCDecisions`.
10. [x] Proofs about the other state machines (hooks, store, shared files, fixtures, server,
   packs, cockpit, soak, farm) and about the bill of a task and the length of a bisect.
11. [x] The rules, for inputs of any size (`Rules_proofs`), the folds and recursions they
   compute with included; from them the three invariants of the decisions.
12. [x] What is left to TLC is said at the end of section 5.

The modules proved about declare no RECURSIVE operator and take their bounds from
constants.

## 3. Modules and the code

Time is always kept as the distance to an instant (a lease's remaining life, a
timer's remaining time), because the code only ever compares instants with the
clock. That makes every counter bounded without a state constraint.

### LeaseLock, BoardLeases: `boards/leases.py`

`LeaseLock` is an abstract lock whose claims lapse. `BoardLeases` has one action
per file-system call: `AcquireRead`/`AcquireRefused` (75-81), `AcquireUnlink`
(82-86), `AcquireCreate`/`AcquireCollides` (87-90), `AcquireWrite` (91-94),
`ReleaseRead`/`ReleaseNothing` (97-107), `ReleaseUnlink` (108). `file` is what the
path names, `stamp` the local lease of a call between its creation and its
return, `grant` what a holder was told. A write goes to the inode the call
created, so it is lost when the path names another file by then. Calls are
synchronous: holders of one process do not interleave inside a call, processes
do. `Crash` may hit between any two calls.

### BoardFarm: `boards/farm.py` over `boards/runner.py`

Extends `BoardLeases`: a tool checks the lease (`Start`, `Refused`), connects
(`ConnectFails`), runs a watchdogged command (`RunCommand`, `Finish`,
`DeadlinePasses`) or copies a file (`PutFile`, `PutDone`). `remote` and `stray`
say how long a command can still occupy the board, `Lost` and `FarmCrash` turn
the first into the second. capture_metrics is a watchdogged command too. `Unbounded` stands
for a command no watchdog ends; `FarmAssumption` keeps every watched one below it.

### TaskSession: `core/orchestrator.py`, `core/budget.py`, `hooks/`

The CLI subprocess and the SDK are external (`Turn`, `Answer`, `OutOfTurns`,
`CliDies`): they emit messages the orchestrator reads later (`Read`) and call the
hooks in between (`GuardHalts`, `GuardPasses`, `ToolFails`). After a successful
risky session `BeginAudit` starts the critic with the same tracker; `Finish`
applies the verdict and returns; with `telemetry` on it writes the record first, or
raises when the store does (`Unrecorded`). The calibrated threshold is the constant `Halt`.

### LocalRunner: `boards/local.py`

A shell and its children in one process group, any of which may fork, exit,
ignore SIGTERM (`stubborn`) or not hold the output pipes (`quiet`). `Completes`
is `communicate()` returning; `Signal`, `ShellReaped`, `SigKill` and
`NothingToSignal` are `_terminate_group` on a deadline or a cancellation.
`Process.wait()` is taken to return when the shell has exited, as documented.

### BoardLink, SoakRun, ThermalProfile, MCCampaigns: `evals/`

`BoardLink` is the connection of a campaign: up, silent (BoardError at the
deadline) or lost (asyncssh.Error). `SoakRun` is `SoakRunner.run`: windows, rules
(`Rule` is `check_window`), the workload task and its command (`job`, `busy`),
the snapshot, the report. `ThermalProfile` is `ThermalEnvelopeProfiler.run` with its
finally block (`Restore`, `EndProfile`). `MCCampaigns` runs both on one board and one link,
since neither takes a lease. `seen` is a history variable: what went wrong on the board.

`MCHost` puts the leases, the campaigns and a local command side by side: they share no
state, so a behaviour plays one of them while the other two have nothing to do.

### GoldenBisect: `evals/bisect.py`, `cli/main.py`, `mcp_server.py`

Commits are numbered along the history and `Candidates` is the list the callers
build from `git rev-list`. `Begin` lists them and notes the branch, `Checkout` and
`Probe` are the two halves of the predicate (the golden runs on whatever `tree`
holds by then), `Leave` is the finally block, reached by `Report` and by `Aborts`;
`Dies` skips it. A golden is its verdict on a commit (`passes`). `disturbed` is a
history variable: another bisect changed the tree under a golden of this one. A
checkout of the original branch in `Leave` does not fail: uncommitted changes that
let git leave the branch let it return.

### TelemetryStore, SessionHooks, MCSession: `telemetry/`, `hooks/`

Each method of the store holds its lock over one transaction and is one step.
`RecordTask` and `Calibration` (`estimate_calibration`) close the loop from the bill of
a task to the guard of the next; `RecordFailure`, `Classify` and `DraftCandidate` are
`telemetry_tap` and the taxonomy. A row is kept under its session id with its place in time,
so replacing one is an update of a function, and the median is stated by ranks. `SessionHooks`
puts tool calls of several agents in
flight: `Ask` is what the two PreToolUse gates return together (`Judged`: deny, ask,
allow, merged by the SDK, which is external), `Approve` and `Reject` the user, `Execute`
the tool, `Skip`, `Analyse` and `Verdict` the three stages of `misra_gate`, between which
other calls write the same file; an analysis that fails sees "nothing" and, since no return
code is looked at, may be answered as a clean one ("waved", `Unblocked`). `EditGates` is the
owner changing `gates.toml`. The permission gates have no property: a call runs when they let
it, and what could be said of them is their own text. `HooksSpec`
is all of it at once; `MCSession` puts `TaskSession` and three scenes of `SessionHooks` side by side: a behaviour
plays one of them, for they share no state.

### SharedFiles, HostDetect: `boards/registry.py`, `evals/runner.py`, `gui/history.py`, `host/`

The three files that are loaded, changed and rewritten in place are one action each for
the read and the decision (`Load`), the truncation (`Open`) and the write (`Write`);
`Clear` takes the history away in one call, also under one that has it open.
`Setup`, `ReadConfig`, `PinHost`, `ApplyConfig` and `RegisterLocal` are `deepgent setup`,
whose file is replaced by a rename. `Kill` may hit anywhere. `due` is a history variable:
the file as it would be had its edits run one by one; `clash` names the files two edits
overlapped on. `HostDetect` is detection as a function of a machine and of what its probe
commands do, with the shared time budget counted in probe timeouts.

### Fixtures: `evals/replay.py`, `evals/shadow.py`

A recording is `Capture`, `Get`, `Got`, `WriteManifest`; a replay is its check (`Matches`),
`Put` and `RunCommand`; a shadow run does that twice. The board's remote path is shared by
all of them, since none takes a lease. Bytes are numbered by the capture they come from.

### KnowledgeServer: `src/server/deepgent_server/` and `deepgent rag ingest`

`Split` is the sectioning of a datasheet, `Send` one awaited call of the ingesting loop,
`AddChunk` the INSERT OR REPLACE with its row numbers and an index that only grows,
`Search` the join of the two. Claims are appended by `Verify` (bench runs) and `Seed`
(the manifest), and `QueryClaim` serves the newest that applies.

### SkillPacks: `knowledge/skills.py`, `knowledge/skill_author.py`

`Author` picks the themes of one `skills author`: any, since its tuples may be unapproved
(`--include-unapproved`) or come from a file (`--from`) and `--min-cluster` says how many make a
theme. `OpenDraft` empties a draft's SKILL.md, `WriteDraft` writes it, `AuthorDies` comes
anywhere; `Review` is the person who makes a pack of a draft (external). `sync_skills` runs in
each session that starts: `StartSync` reads every SKILL.md and is refused over a torn one
(`list_skills` raises ConfigError), `RmFiles` and `RmDir` are rmtree, `MakeDir`, `CopyFile` and
`Copied` copytree, `EndSync` the return, `Leave` the end or death of the session. rmtree's
listing and its unlinks are one step. `broken` is a history variable: the copies a session
failed or died at, and none has made whole since.

### Desktop: `gui/async_bridge.py`, `gui/panels/run_task.py`

`task` is the state of each `AsyncTask`; "dropped" is one cancelled before its first step,
whose wrapper never ran and emits nothing. `StartRun`, `StopRun`, `Look` are clicks and
menu entries, `FirstStep`, `TaskFinishes`, `TaskFails` steps of the loop with the slots
they run, `ReadTree` and `Shown` the thread of a look and its return.

### Intake, CompatMatrix, KnowledgeRules, Verdicts, BenchSweep, CommandLine, MCDecisions

These are functions of their inputs. `Intake`: `core/classifier.py`,
`agents/definitions.py`, `scope_lock` and the pre-mortem; a text is the set of rules it
matches, and only the auditor can be named twice (`WithAuditor`). `CompatMatrix`:
`knowledge/matrix.py`, with integer confidences, decayed hop by hop, for which the decay is
exact. `KnowledgeRules`: the other knowledge helpers, `skill_lifecycle`,
`skill_gate`, `fact_guard`, `core/reflexion.py`. `Verdicts`: latency traces, average
precision, shadow diffs, sanitizer reports, golden scores and reviews. `BenchSweep`: what a
campaign of benches keeps and whom it calls best. `CommandLine` has one action per command,
with the MCP tool of the same name: what each calls, which exceptions each catches, which
exit code and answer come out. `MCDecisions` asks them every request of bounded sets; the
state is the request and the replies, so an invariant is a statement about all of them. Its
second scene is the command that takes many steps, `GoldenBisect`.

## 4. Runs

| Run | Module | Question | Result |
|---|---|---|---|
| `host` | MCHost | Leases of three processes with crashes and expiry; soak and profile on a failing board; a local command's tree | holds |
| `leases_race` | MCBoardLeases | Mutual exclusion across processes (leases.py:3-4) | **violated** |
| `local_orphans` | LocalRunner | Never leaving orphans (local.py:51-53) | **violated** |
| `soak_masked` | MCCampaigns | Snapshots never mask the anomaly (soak.py:203-204) | **violated** |
| `farm` | MCBoardFarm | Two holders of one process: lock refinement, coverage, strays, return | holds |
| `farm_exclusive` | MCBoardFarm | Exclusive use of the board (farm.py:73) | **violated** |
| `session` | MCSession | A task's success, record, spend, end; the edit gate with calls in flight; drafts; calibration | holds |
| `session_audit` | TaskSession | No success over a critic failure (src/docs/expansion.md:48-49) | **violated** |
| `session_record` | TaskSession | Recording is never fatal (core/orchestrator.py:402) | **violated** |
| `session_misra` | MCSession | The edit gate fails closed (hooks/misra_gate.py:6-7) | **violated** |
| `decisions` | MCDecisions | Every rule against its promise, every exit code against the verdict; two bisects of one tree | holds |
| `stores` | MCStores | Files, fixtures, server, packs and cockpit under overlaps, deaths and clicks | holds |

The properties that hold:

* `NoGhostLease`, `SecureIsStable`, `CrashFreesBoard`, `RetryWins`: what remains true of
  the lease file although mutual exclusion does not. Stealing needs a call that
  read the file before the lease was written; no crash locks a board for longer
  than its TTL, and a half-written file does not defeat a retry.
* `ImplementsLock`: within one process the lease is a lock that lapses.
* `CoverageIsKept`: an operation started with enough of its lease left never
  outlives the lease. `NoStrayAfterAnswer`, `CommandsLeaveBoard`, `ExecReturns`: the
  watchdog ends a command before the client gives up on it, and ends it even
  when the client is gone.
* `SuccessIsEarned`, `RecordMatchesOutcome`: the critic's veto reaches the outcome
  and, when there is one, the record; it never rescues a failed run. `SpendIsBounded`: both sessions
  together overshoot the halting spend by the messages in flight, plus one for
  each failed tool call, which the guard is not registered for.
* `VerdictIsCurrent`: when the newest write of a file was answered clean after an analysis the
  file is clean, although several agents write it while analyses run. `CalibrationIsTrue`: the learned factor never exceeds
  the true billing ratio, and equals it when no critic spent; with a critic it is too low,
  because the estimate counts the critic and the bill does not (`core/orchestrator.py:422`).
  `DraftsAreRooted`: a candidate names the first failure of its own session.
* `TreeIsKilled`, `RunReturns`: signals go to the group, and `run` comes back whatever the
  tree does.
* `SurvivalIsEarned`, `AnomalyIsPlaced`, `SoakEnds`, `EnvelopesAreTrue`, `ModeIsRestored`:
  reports say what happened, at its place, and the mode is put back on every path on
  which it can be.
* `BoundaryIsProbed`, `AnswerIsTrue`, `ProbesAreFew`, `BranchComesBack`: a bisect reports a
  boundary it has seen both sides of; that is the breaking change unless another
  bisect moved the tree under a golden, and the branch comes back unless a bisect
  was killed or found the branch away. Both exceptions are real: without them
  TLC finds two bisects of one project that mislead each other.
* `IntakeIsSafe`: C, C++ and firmware tasks get auditor, strongest model and critic and no
  cut drops them; grants agree with the exclusivity gate; the pre-mortem changes no scope
  verdict unless its own text matches a scope word. `KnowledgeIsSound`: distances are those of
  the equivalence the groups generate, an exact certain claim settles a cell and no answer is
  less sure than a direct claim, order matters only where a contradiction is reported, facts are arbitrated by merit, skills and upgrades
  earn their verdicts. `VerdictsAreEarned`: every measured ms, box, error and run is in the
  verdict, and a winner met the limits with figures that were taken. `ExitTellsVerdict`: exit
  code 0 means a report with a good verdict, or one of two that nobody judged (`Unjudged`,
  section 6), a failure never reads as a pass, and the tool agrees with the command except
  where it takes a limit of 0 for none.
* `FilesAreTrue`: edits are lost only on a file on which two overlapped or one died
  (`EditsSurvive`), a pin survives later detections (`PinSurvives`) unless a setup had read the
  file before it, and the default board is registered (`DefaultIsRegistered`) unless that setup
  died. `DetectionIsSound`: a probe that hung or failed leaves a note when it cost the machine
  its class; `rocminfo` failing outright is the one silent loss (`host/detect.py:270`).
* `ReplaysAreTrue`: a replay runs on the bytes it checked, and the arms of a shadow run on the
  same, but for a re-recording in the gap or another user of the remote path.
* `ServerIsTrue`: splitting loses no text, a search returns each chunk once however often it
  was sent, a finished document is all there, and a failure is overruled only by a later
  record, which may be a mere seeding. `PacksAreTrue`: drafts never write into reviewed packs
  (`DraftsDoNotShadow`); a session that nothing disturbs copies every pack or is refused over a
  torn draft (`SyncIsWhole`); and when sessions sync side by side and damage a copy, a session
  is still at it, or has failed or died at it (`DamageShows`): none goes on in silence.
* `CockpitIsTrue`: one run at a time and no stale diff after a task, except when a diff was
  being computed as it landed. `DesktopSettles`: every task ends, and one that began gives its
  panel back; one cancelled before its first step does not.

### Bounds, and why they are enough

* Leases: three processes with a holder each (two suffice for every race; the
  third interferes with both), TTL 3: a lease can be fresh, ageing and expired
  while calls are under way. Exclusivity in `farm` needs two holders of one process.
* Farm: TTL 4, timeouts, connection, kill-after and latency of one unit, grace of
  two: a command can be started with enough, too little and none of its lease
  left. `FarmAssumption` states what the code's constants satisfy (kill-after 5 plus
  latency within the grace 10).
* Session: telemetry on and off, costs 1 and 2, halt at 2, four turns and three for the critic, two
  messages of lag: the guard can pass, halt late because of unread messages, and
  be missed because tools fail.
* Local: a shell and two children (a child that forks a grandchild is the second),
  deadline 2, grace 1.
* Bisect: four commits, every pair of ends and every verdict; five candidates when
  the bad end is given by a branch's name, so a search probes up to twice, and
  two searches (interchangeable, so symmetry is used: no liveness is checked).
* Campaigns: a load and an idle phase of two windows, up to one unit of overhead
  per window (phases of 4 and 3, windows of 2, so the last window of a phase is short), plans of the current mode
  and of two modes on a board with two.
* The host run adds no bound: each scene is the instance above.
* Hooks: two calls in flight by every kind of agent, of a gated tool, a write and a removal;
  two writes of the file, so an older write's verdict, the newer write and its verdict come
  in any order (`MaxWrites`). Three sessions, three failures, two drafts; up to four tasks against a
  calibration window of two and one needed sample, so records leave the window, are replaced
  under their session id, and odd and even medians occur.
* Stores: two processes and three edits (two that overlap and one that reads the damage),
  two fixtures, two captures and two replayers, a sheet of two chunks and a note ingested by
  two commands for two chips within four sends, three claims, one theme, two starting
  sessions, packs of two files and four changes of `skills/`, two looks and two changes in the cockpit, one run dropped before it
  began. `MaxEdits`, `MaxCaptures`, `MaxSends`, `MaxClaims`, `MaxTurns`, `MaxChange` and
  `MaxDrops` are the bounds; each behaviour plays one scene, since the scenes share no state.
* Decisions: up to two or three claims, facts, boxes, benches or parts and up to four trace
  lines, values on both sides of and at every threshold, every way a call can end.

`CHECK_DEADLOCK FALSE` is said where the system may stop: the hooks and the stores have
nothing left to do when their bounded work is done.

### Fairness

Fairness is claimed of what the process or the operating system does by itself:
a synchronous call goes on unless its process dies, the event loop runs, due
timers fire, the clock advances (strongly in `BoardFarm`, where other calls may
be made between any two ticks), a campaign's awaits end because each has a
deadline on both sides. Nothing is assumed of a board, of a command, of a child
process or of an agent. In the host run the fairness is that of each component's own
specification; one that has nothing to do has no step it could ask for. `CommandsLeaveBoard` and `ExecReturns` therefore rest on the
watchdog and on the client's deadline alone. `TaskSession` assumes that a subprocess
that is still running makes progress: run_task itself has no deadline. `Desktop` assumes
that the event loop takes the first step of what is scheduled, that a run ends or is
cancelled (its own liveness is `SessionEnds`), and that threads return (`git diff` and the
test command have timeouts); nothing is assumed of clicks.

## 5. Proofs

TLC checks the instances above; the theorems hold for every value of the
constants allowed by the `ASSUME`s. Most invariants are not inductive as they stand; what
each is strengthened with, and why, is said here.

### Boards

* `BoardFarm_proofs`, of the leases by themselves: types, then `NoGhostLease` by one case per action (the file
  changes only in steps of its writer, a release forgets the grant with the
  file), `SecureIsStable` (action property: the conjunct about other calls'
  program counters is what makes `Secure` stable). For one process
  (`OneProcessHost`) mutual exclusion needs a strengthening that also says which
  stage the only call in progress has reached and what the file is at that stage;
  from it follow `GrantIsOnFile` and the step simulation of `LeaseLock`: acquire's
  write is `Grant`, its unlink, a release, a refusal and a crash are `Drop`, ticks
  are ticks, all else stutters.
* `BoardFarm_proofs`, of the tools: every step of theirs is, for the lease file, a step of `BoardLeases`
  or a refusal that tells a holder it has no lease (`FarmStepsAreLeaseSteps`), so the lease
  invariants carry over and, with `OneProcessHost`, so does `ImplementsLock` (a refusal is a
  `Drop`). `NoStrayAfterAnswer` needs `Watched`: while a tool runs, what its command may still
  take is within what the client still waits. `CoverageIsKept`, an action property, adds case
  by case that every step either lowers the lease and the budget of the operation alike, or
  ends one of them. Both assume `AllLimited`, that no timeout is 0: the code truncates timeouts
  to whole seconds and coreutils takes 0 as no limit (section 6), so without it neither holds.
* `Campaigns_proofs`: for the profiler types, `Restorable` (before the query the mode is the
  one found, what was read stays, a run that ends without restoring had read nothing), which
  gives `ModeIsRestored`, and `Measured` (a mode about to be profiled is in force unless
  noted), which gives `EnvelopesAreTrue`. For the soak `SoakInv` says of a phase being sampled
  that exactly the phases before it are completed, that no faulty window was seen, and that a
  workload failure was seen only if the job already says so; it gives `SurvivalIsEarned` and
  `AnomalyIsPlaced` when `MinSamples > 0`. With 0 an empty window trips no rule and a wedged
  board survives; the rules the code ships ask for more. `CampaignsRunApart` shows that each
  of the two, run side by side, still satisfies its own specification.

### Sessions

* `Session_proofs`, of one task: types; the invariant that ties `phase`, `audit` and `recorded`
  together gives `SuccessIsEarned` and `RecordMatchesOutcome`. `SpendIsBounded` needs an account
  of the messages in the stream: `Accounts` relates what the orchestrator has counted, what
  lies unread and what was billed, and `Ceiling` is the bound at each stage of the two
  sessions, which starts at what the guard can have let pass (`GuardSees`) and grows by one
  message when a session stops.
* `LocalRunner_proofs`: types; `TreeIsKilled` needs that nothing forks once nothing runs.
* `Session_proofs`, of the hooks: `VerdictIsCurrent` adds that analyses are of different writes, that one of the newest
  write saw the file as it is or as it was before it went, and that an unanswered newest
  write has one. `DraftsAreRooted` is inductive once the failures are a sequence: appending
  one leaves each session's first where it was. `CalibrationIsTrue` rests on `RowsInv` (a row holds
  the bill and the estimate of one task), from which every ratio is at most `rate` and equal to
  it without a critic; the median of such ratios is too, since it is one of them or the mean
  of two (`Ranked`, `SmallestOf`, `MedianOf`, by the ranks of a finite set). `ScenesAreHooks`: the run's scenes
  are behaviours of `HooksSpec`, of which the theorems speak.

### What outlives a command: `Stores_proofs`

* `CockpitIsTrue`: a diff that is shown or was read is not older than what landed, unless
  it is noted as missed. `ReplaysAreTrue`: `Verified` says at each stage of a replay which bytes it
  relies on; what others do either leaves them or marks it (`Marked`).
* `PacksAreTrue`: what `skills/` holds (`SourceInv`: reviewed packs as they were, drafts whole or
  torn), and of the copies `SyncInv`. A copy is kept (`Kept`) when it is whole, or broken, or a
  draft's, or a session is replacing it in a way that either makes it whole or fails at it
  (`Mends`); every pack a session is past is kept (`PastKept`), which no step of another session
  undoes without taking the copy on itself. `Alone` says how far the copies of an undisturbed
  session are those of the source, given that no other one syncs.
* `FilesAreTrue`: jobs carry edits of their own file; a file's damage is noted in `clash` or `torn`;
  what a setup read of the pin is the pin unless it changed since; and the default board's
  registration is still to come as long as it is not there (`LocalComes`).
* `DetectionIsSound` is about a function, and is proved for every machine and every way its
  probes can end: what is noted is all that separates the answer from the answer of a machine
  whose probes all work.
* `ServerIsTrue`: `TableInv` pairs each chunk with exactly one current entry of an index that only
  grows, and says no entry lies past the last row: a row number used again belongs to a
  newer chunk. `Sending` and `WholeInv` follow a document to its end. That
  splitting keeps a document's text (`SplitIsWhole`) is followed line by line: what is done, read
  on with the section being collected, is the text read so far. A section's pieces begin
  where the one before ends (`CutsEnd`), so read one after another they are the section.
  The hypothesis on the documents is that they are sequences of lines (`ServerAssumption`).

### Rules: `Rules_proofs`

The rules are functions of their inputs; each theorem is what one promises, for inputs of any
size. A hypothesis only says what kind of data the rule reads (natural times, integer limits,
records of the form the code builds).

* What the corpus says: `ArbitrationHolds` (the values heard, and whether they conflict, are the
  same for the reversed list), `SkillVerdictsAreEarned`, `AdviceHolds`, `GroundsAreKept`,
  `UpgradesAreVerified`, `CleanConfigsStayClean` (the draw on a rail is a sum over the parts, so
  it does not grow when one goes), `NewestIsFound` (tags of one length are strictly ordered).
* The compatibility matrix. `HopsMeasureChains`: what round n of the search holds is what round
  n - 1 of its neighbours' searches held (`SearchShifts`), hence symmetry; a round that
  adds nothing is the last one that could, and each round before it added a version, so
  after as many rounds as there are versions the search is closed. It assumes that fewer versions are
  named than `Far` counts: 99 stands for "unreachable" and would be a distance otherwise; the
  code has None there and no such limit. `QueriesAreGrounded`: the verdict is a maximum over the
  claims (`Queried`), and with a claim removed the run of the others is that of the whole up to
  the claim and no surer after it. `OrderShowsInConflict`, `ProposalsAreWorthIt`.
* Measurements. `LatenciesAreAccounted`: the sum over the frames of the sums over their stages is
  the sum over the stages; a percentile lies between two neighbours in the ascending order, so
  it grows with its rank (`Between`); a 99th percentile within the budget leaves fewer than one frame in
  a hundred, besides one, over it (`FewOver`). A bound of one frame whatever the trace's length
  would be false: the 99th percentile of 102 frames lets two go over.
  `PrecisionsAreRanked`: hits take distinct truths (`Hits`), and the precision at a rank is
  full as long as no false alarm came. `DiffsAreAccounted`: the boxes taken are the images of an
  injection. `CleanReportsAreEarned`, `ReviewsAreHonest`, `BlameIsFairlyPut`.
* Campaigns of benches: `CampaignsDropNothing`, `WinnersMeetTheirLimits`, `FrontiersAreSound`
  (domination is a strict order, so what is off a finite frontier is dominated by something on
  it), `FleetClaimsAreMeasured`.
* `ExitsTellVerdicts`: each handler of `CommandLine`, taken with a request of any size (`Read` says
  which fields the command reads), ends in one of the ways `Tells` allows: what `Told` says of its exit
  code, of the tool's answer and of the two together. That a good exit is `Vouched` for is the
  command's rule from the list above, `Unjudged` the two requests for which it is not;
  `ZeroLimits` are the requests on which command and tool differ.

### Decisions: `Decisions_proofs`

* `Bracket`, the loop invariant of `bisect` (good passed or is the trusted first candidate, bad
  failed or is the trusted last one, good < bad), is needed even for types, since what is
  checked out is the candidate between them; with it come `BoundaryIsProbed` and, from
  `Honest` (an undisturbed bisect recorded its candidates' verdicts), `AnswerIsTrue`.
  `BranchComesBack` is inductive with types. `ProbesAreFew` follows from `Few`: the candidates left
  between the ends, times two to the number of probes, are at most all there were.
* `IntakeIsSafe` for every text and every setup (`IntakeHolds`), then for the tasks of the run.
* `KnowledgeIsAlwaysSound`, `VerdictsAreAlwaysEarned`, `ExitsAlwaysTell`: the three invariants of the
  decisions. The state is a request and what came of it, so each needs only that a request of
  the scene is one the rules' theorems speak of (`RequestsAreSound`, `RequestsAreEarned`, the
  `...AreRead` lemmas: every request field by field) and that a step either asks a new one
  or leaves the request as it is. The rules carry the argument, and they carry it for requests
  larger than any scene's.

### How, where the prover has no induction

The library's induction rules take an operator as a parameter, which the installed provers
cannot instantiate. Three arguments on sets replace them, the first two in `Runs_proofs`:

* A set of naturals that is not empty has a least element (`MinOfNats`, `LeastOfNats`, from the
  well-foundedness of `<`), and a finite set has a greatest (`HasGreatest`). So a *set* P that
  holds 0 and with n also n + 1 holds all of `0 .. N` (`Counting`), and one that holds a finite set
  as soon as it holds all those with one element less holds all subsets (`SubsetCounting`). The
  induction hypothesis is membership in a set that the proof defines.
* A fold is a CHOOSE over functions. `FoldExists` builds, by `Counting`, a function that satisfies
  its equation, so the CHOOSE satisfies it too, and `FoldIsRun` reads it as a run: a function on
  `0 .. N` from the base, each value a step from the one before. What a fold computes is then
  an invariant of its run. `RunExists` does the same for recursive functions on `0 .. N`.
* A sum over a finite set does not depend on the order in which it is taken, since removing any
  of its elements takes off that element's term.

Powers of two double because a set has twice as many subsets as the set without one of its
elements (`PowersDouble`).

The type invariants are proved, for every value of the constants, and are not listed in
the runs; `GrantIsOnFile` and one-process `MutualExclusion` are proved too.

### Only model-checked

Every invariant that a passing run checks is proved, and so are the action properties and the
refinements; those of the host run are proved of each component's own specification, whose steps
are the scene's. What stays with TLC:

* Liveness (`CrashFreesBoard`, `RetryWins`, `CommandsLeaveBoard`, `ExecReturns`, `SessionEnds`, `RunReturns`,
  `SoakEnds`, `DesktopSettles`): fairness and ENABLED are out of the prover's reach.
* The seven violations, which are counterexamples.

## 6. Known limits

Where the code falls short of its own words and no run shows it as a violation, the property
beside it names the exception:

* **Matrix**: "direct claim if present, else best inference" (`knowledge/matrix.py:160`), but the
  surest answer wins (176): a close inference may overrule a direct claim that is less sure.
  `QueryIsGrounded` says what holds of direct claims.
* **fact_guard**: "an unprovenanced "fact" can never silently enter a session"
  (`hooks/fact_guard.py:5-6`), but a result that is no list of chunks, `get_chunk`'s one among them,
  passes as it is (41). `GuardKeepsGrounds` is about lists.
* **Latency**: with a budget and no stage line the report prints FAIL
  (`evals/latency_trace.py:139-141`) and the command exits with 0 (`cli/main.py:559`). **Sanitizers**: of
  several summaries the first is read, and none counts no error (`evals/cuda_check.py:91`). These
  are `Unjudged` in `ExitTellsVerdict`; `CudaCleanIsEarned` is about reports with one summary.
* **Drafts**: "the human gate (PR review) remains the only path to a trusted skill"
  (`knowledge/skill_author.py:102-103`), but every session gets all of `skills/`, drafts included
  (`core/orchestrator.py:229`), a draft's frontmatter bears the reviewed pack's name (49, 85), and
  a torn SKILL.md keeps every session from starting until it is written again.
* **Knowledge**: "only researcher queries knowledge" (`src/docs/expansion.md:45-46`), but the gate
  lets the architect and the main thread too; `GrantsMatchGate` only says that grants and gate agree.
* **Claims**: a later record of any kind stands in front of a measured failure
  (`src/server/deepgent_server/knowledge.py:124`); `FailureIsHeeded` asks no more than order.
* **Overlaps**: edits of unlocked files, pins, fixtures between hash and push, dropped runs and
  skipped refreshes are lost or stale just where `FilesAreTrue`, `ReplaysAreTrue`, `DesktopSettles`
  and `CockpitIsTrue` say; these properties show that nothing else is.

Other limits:

* The power mode is not restored when it could not be read or the restoring command failed,
  although it is promised "even after a failure" (`evals/thermal_envelope.py:9-10`);
  `ModeIsRestored` names both exceptions. Two profiles of one board, which would restore each
  other's modes, are not modelled: no lease keeps them apart.
* Sub-second timeouts turn the watchdog off (`runner.py:41`), so `CommandsLeaveBoard` is
  checked, and `NoStrayAfterAnswer` and `CoverageIsKept` are checked and proved, for timeouts of
  a second or more. deploy has no deadline
  (`runner.py:129`) and is excluded from `ExecReturns`.
* The orchestrator never releases a lease by itself, so a lease outlives its task
  until it expires; that is `BoardLeases` without a release.
* A soak of the local target is not modelled: its metrics never carry the
  `tegrastats_samples` its rules ask for (`boards/metrics.py:134-161`, `soak.py:137`).
* The last window of a soak's phase may be too short for the minimum number of
  samples (`soak.py:236`): a healthy board is then reported as a telemetry gap.
  `EndWindow` has this, no property is about it.
* With a bad end that is no descendant of the good one bisect reports that end with
  no probe (`cli/main.py:376`); `AnswerIsTrue` assumes a descendant.
* Write errors (a full disk) are not modelled, except for the telemetry store's.

## 7. Not modelled

* **Parsers and statistics of board output** (`boards/tegrastats.py`, `boards/metrics.py`, the
  parsing halves of `evals/`): regular expressions and means without state. Their results are
  inputs, with None for a figure that is missing.
* **Text that is generated**: prompts, delegation, reports, ROS 2 nodes, drivers, units, skill
  drafts. Whether a handler writes them and how it ends is in `CommandLine`.
* **Patterns**: what a command, task or error matches is an input, a set of the patterns.
* **The SDK, the CLI subprocess, git, the analyzers' container, the person who reviews**: external,
  modelled from how the code uses them. cuda_gate only appends a note.
* **Server**: tokens, the corpus endpoints (an insert and a list), the limit and ranking of a
  search. `knowledge/rag.py` is an HTTP client whose calls answer or raise.
* **GUI**: panels other than Run Task, which start and stop the same bridge; opening and saving
  sessions; widgets and styling.
* **Commands that only list or print**, the layering of settings, cgroup limits of a container,
  run-directory names except where two collide (`SelectTool`).
* **Files larger than one write buffer**: a reader sees an open file empty or whole.
* **Sanitizer**: redaction of recorded errors is pattern matching on text.
