------------------------------- MODULE SoakRun -------------------------------
(***************************************************************************)
(* evals/soak.py: SoakRunner.run over one SSH connection to a board.        *)
(*                                                                          *)
(* Each phase of the schedule samples the board in windows until its time   *)
(* is up while a workload, started as a task of its own, runs on the board; *)
(* the phase then awaits the workload.  The first broken rule stops the run *)
(* with a snapshot.  Meanwhile the board may wedge, whose BoardError        *)
(* capture_metrics turns into an empty window, or reboot (BoardLink).  Time *)
(* is in seconds of one sample each.                                        *)
(***************************************************************************)
EXTENDS BoardLink, Integers, Sequences, FiniteSetsExt

CONSTANTS
  Schedule,    \* the phases: [load : BOOLEAN, time : Nat]
  Window,      \* window_s
  MinSamples,  \* rules.min_samples_per_window
  Overhead     \* longest time a capture takes beyond its window

ASSUME SoakAssumption ==
  /\ Schedule \in Seq([load : BOOLEAN, time : Nat \ {0}]) /\ Schedule # <<>>
  /\ Window \in Nat \ {0} /\ MinSamples \in Nat /\ Overhead \in Nat

VARIABLES
  stage,       \* where run is
  phase,       \* the phase it is in
  left,        \* time left until phase_end
  window,      \* length of the window being captured
  workload,    \* the workload task
  busy,        \* the workload occupies the board
  completed,   \* len(phases_completed)
  anomaly,     \* result.anomaly's rule
  report,      \* the rule in the persisted report
  seen         \* what has gone wrong on the board so far

soak == <<stage, phase, left, window, workload, busy, completed, anomaly, report>>
soakVars == <<link, soak, seen>>

-----------------------------------------------------------------------------
Metrics(samples, hot, full) == [samples |-> samples, hot |-> hot, full |-> full]

\* check_window: the first broken rule.
Rule_NoGap(m) == IF m.hot THEN "thermal_ceiling" ELSE IF m.full THEN "ram_ceiling" ELSE "none"
Rule(m) ==
  CASE m.samples < MinSamples -> "telemetry_gap"
    [] m.samples >= MinSamples /\ m.hot -> "thermal_ceiling"
    [] m.samples >= MinSamples /\ ~m.hot /\ m.full -> "ram_ceiling"
    [] OTHER -> "none"

Over == stage \in {"done", "raised", "cancelled"}
Loaded(k) == Schedule[k].load

\* A phase begins: its workload is started on the board, if it can be.
Enter(k) ==
  /\ phase' = k /\ left' = Schedule[k].time
  /\ workload' = CASE ~Loaded(k) -> "none"
                   [] Loaded(k) /\ link = "lost" -> "error"
                   [] OTHER -> "running"
  /\ busy' = IF Loaded(k) THEN link = "up" ELSE busy
  /\ stage' = "loop"

SoakInit ==
  /\ link = "up" /\ seen = {}
  /\ stage = "loop" /\ phase = 1 /\ left = Schedule[1].time /\ window = 0
  /\ workload = (IF Loaded(1) THEN "running" ELSE "none") /\ busy = Loaded(1)
  /\ completed = 0 /\ anomaly = "none" /\ report = "none"

LinkChanges ==
  /\ LinkStep
  /\ seen' = seen \cup {"link"}
  /\ UNCHANGED soak

-----------------------------------------------------------------------------
\* Time left of the phase once a capture has taken d longer than its window.
Remaining(d) == Max({0, left - window - d})

StartWindow ==
  /\ stage = "loop" /\ left > 0 /\ link # "lost"
  /\ window' = Min({Window, left})
  /\ stage' = "capture"
  /\ UNCHANGED <<link, phase, left, workload, busy, completed, anomaly, report, seen>>

\* The capture's summary, none of it from a board that did not answer.
EndWindow(m, d) ==
  /\ stage = "capture" /\ m.samples \in {0, window}
  /\ link # "up" => m = Metrics(0, FALSE, FALSE)
  /\ left' = Remaining(d)
  /\ anomaly' = Rule(m)
  /\ stage' = IF Rule(m) = "none" THEN "loop" ELSE "snapshot"
  /\ seen' = IF m = Metrics(window, FALSE, FALSE) THEN seen ELSE seen \cup {"window"}
  /\ UNCHANGED <<link, phase, window, workload, busy, completed, report>>

\* A command on a lost connection.
WindowRaises ==
  /\ stage \in {"loop", "capture"} /\ left > 0 /\ link = "lost"
  /\ stage' = "raised"
  /\ UNCHANGED <<link, phase, left, window, workload, busy, completed, anomaly, report, seen>>

PhaseCompleted ==
  /\ completed' = completed + 1
  /\ IF phase < Len(Schedule)
       THEN Enter(phase + 1) /\ UNCHANGED report
       ELSE stage' = "done" /\ report' = "survived" /\ UNCHANGED <<phase, left, workload, busy>>
  /\ UNCHANGED <<link, window, anomaly, seen>>

IdlePhaseEnds == stage = "loop" /\ left = 0 /\ workload = "none" /\ PhaseCompleted

AwaitWorkload ==
  /\ stage = "loop" /\ left = 0 /\ workload # "none"
  /\ stage' = "await"
  /\ UNCHANGED <<link, phase, left, window, workload, busy, completed, anomaly, report, seen>>

WorkloadEnds == stage = "await" /\ workload \in {"ok", "expired"} /\ PhaseCompleted

WorkloadFailed_Counted ==
  /\ stage = "await" /\ workload = "failed"
  /\ completed' = completed + 1
  /\ anomaly' = "workload_failed" /\ stage' = "snapshot"
  /\ UNCHANGED <<link, phase, left, window, workload, busy, report, seen>>
WorkloadFailed ==
  /\ stage = "await" /\ workload = "failed"
  /\ anomaly' = "workload_failed" /\ stage' = "snapshot"
  /\ UNCHANGED <<link, phase, left, window, workload, busy, completed, report, seen>>

WorkloadRaises ==
  /\ stage = "await" /\ workload = "error"
  /\ stage' = "raised"
  /\ UNCHANGED <<link, phase, left, window, workload, busy, completed, anomaly, report, seen>>

\* The dmesg tail, whose BoardError is caught; then the task, not the command,
\* is cancelled and the report written.
Snapshot_Unbounded ==
  /\ stage = "snapshot" /\ link = "up"
  /\ report' = anomaly /\ stage' = "done"
  /\ UNCHANGED <<link, phase, left, window, workload, busy, completed, anomaly, seen>>
Snapshot ==
  /\ stage = "snapshot" /\ link # "lost"
  /\ workload' = IF workload = "running" THEN "cancelled" ELSE workload
  /\ report' = anomaly /\ stage' = "done"
  /\ UNCHANGED <<link, phase, left, window, busy, completed, anomaly, seen>>

SnapshotRaises ==
  /\ stage = "snapshot" /\ link = "lost"
  /\ stage' = "raised"
  /\ UNCHANGED <<link, phase, left, window, workload, busy, completed, anomaly, report, seen>>

Cancelled ==
  /\ ~Over /\ stage' = "cancelled"
  /\ UNCHANGED <<link, phase, left, window, workload, busy, completed, anomaly, report, seen>>

-----------------------------------------------------------------------------
\* The workload task and the command it watches: the command exits, or its
\* watchdog (phase time + 60) ends it after the sampling, or its client gives
\* up on a board that was out of reach.
JobEnds(how) ==
  /\ workload = "running"
  /\ CASE how \in {"ok", "failed"} /\ link = "up" -> busy /\ busy' = FALSE
       [] how = "expired" /\ link = "up" -> stage = "await" /\ busy /\ busy' = FALSE
       [] how = "failed" /\ link = "lost" -> UNCHANGED busy
       [] how = "error" -> /\ link = "lost" \/ (stage = "await" /\ "link" \in seen)
                           /\ UNCHANGED busy
       [] OTHER -> FALSE
  /\ workload' = how
  /\ seen' = IF how \in {"failed", "error"} THEN seen \cup {"workload"} ELSE seen
  /\ UNCHANGED <<link, stage, phase, left, window, completed, anomaly, report>>

Watchdog ==
  /\ busy /\ workload # "running" /\ busy' = FALSE
  /\ UNCHANGED <<link, stage, phase, left, window, workload, completed, anomaly, report, seen>>

Run ==
  \/ StartWindow
  \/ \E s \in {0, window}, hot \in BOOLEAN, full \in BOOLEAN, d \in 0..Overhead :
       EndWindow(Metrics(s, hot, full), d)
  \/ WindowRaises \/ IdlePhaseEnds \/ AwaitWorkload \/ WorkloadEnds
  \/ WorkloadFailed \/ WorkloadRaises \/ Snapshot \/ SnapshotRaises

Job == \E how \in {"ok", "failed", "expired", "error"} : JobEnds(how)

SoakNext == Run \/ Job \/ Watchdog \/ LinkChanges \/ Cancelled

SoakSpec == SoakInit /\ [][SoakNext]_soakVars

-----------------------------------------------------------------------------
\* A reported survival saw every phase through, no window with a fault in it
\* and no workload that failed, whenever in its phase it did.
SurvivalIsEarned ==
  report = "survived" =>
    completed = Len(Schedule) /\ anomaly = "none" /\ seen \subseteq {"link"}

\* An anomaly is charged to the phase it happened in, after all the phases
\* before it and only those were completed.
AnomalyIsPlaced ==
  anomaly # "none" => completed = phase - 1 /\ report \in {"none", anomaly}

\* A wedged, rebooting or failing board never hangs the soak.
SoakEnds == <>Over

\* "failures to snapshot never mask the anomaly itself" (soak.py:203-204).
AnomalyIsNotMasked == ~(anomaly # "none" /\ stage = "raised")
=============================================================================
