--------------------------- MODULE TelemetryStore ---------------------------
(***************************************************************************)
(* telemetry/store.py, taxonomy.py and what feeds it: the task records the  *)
(* orchestrator writes and the calibration of the budget guard it learns    *)
(* from them, the failures telemetry_tap records, and the corpus candidates *)
(* it drafts.  Each method holds the store's lock over one SQL transaction, *)
(* so a method is one step; sessions of several processes interleave them.  *)
(*                                                                          *)
(* Money is counted in token-priced units: a task whose main session costs  *)
(* n units by the price table is billed n * Rate / Quarter, so Rate is the  *)
(* true billed/estimate ratio in quarters.                                  *)
(***************************************************************************)
EXTENDS Integers, Sequences, FiniteSets, FiniteSetsExt

CONSTANTS
  Sessions,    \* session ids
  Spends,      \* what the main session of a task can cost by the price table
  Audits,      \* what its critic session can cost, 0 for none
  Rates,       \* true billed/estimate ratios, in quarters
  Window,      \* records estimate_calibration looks at (25 in the code)
  MinSamples,  \* records it needs (3 in the code)
  MaxFailures  \* bound: failures recorded

Quarter == 4

ASSUME StoreAssumption ==
  /\ Spends \subseteq Nat \ {0} /\ Audits \subseteq Nat /\ Rates \subseteq Nat \ {0}
  /\ IsFiniteSet(Sessions)
  /\ \A n \in Spends, r \in Rates : (n * r) % Quarter = 0
  /\ \A n \in Spends, a \in Audits, r \in Rates : n + a <= n * r  \* no ratio rounds to 0
  /\ {Window, MinSamples} \subseteq Nat \ {0} /\ MaxFailures \in Nat

VARIABLES
  rate,     \* how the bill relates to the price table
  tasks,    \* table task_records: the row of each id, at its ts; NoTask for none
  events,   \* table failure_events, oldest first
  drafts    \* table corpus_candidates

store == <<rate, tasks, events, drafts>>

NoTask == [at |-> 0, usd |-> -1, est |-> 0, audited |-> FALSE, outcome |-> "none"]

-----------------------------------------------------------------------------
\* estimate_calibration, in quarters: the median billed/estimate ratio of the
\* newest successes that carry both figures, the k-th smallest being the least
\* that k of them do not exceed.
Counted == {s \in Sessions : tasks[s].outcome = "success" /\ tasks[s].usd >= 0 /\ tasks[s].est > 0}
Newest == {s \in Counted : Cardinality({q \in Counted : tasks[q].at > tasks[s].at}) < Window}
Ratio(s) == (Quarter * tasks[s].usd) \div tasks[s].est
NoMoreThan(s) == {q \in Newest : Ratio(q) <= Ratio(s)}
Smallest(k) == Min({Ratio(s) : s \in {q \in Newest : Cardinality(NoMoreThan(q)) >= k}})
EstimateCalibration ==
  LET n == Cardinality(Newest) mid == n \div 2 IN
    IF n < MinSamples THEN Quarter
    ELSE IF n % 2 = 1 THEN Smallest(mid + 1)
    ELSE (Smallest(mid) + Smallest(mid + 1)) \div 2

\* BudgetTracker's calibration: the learned factor inside 0.25 .. 4.0.
Clamped(f) == IF f <= 0 THEN Quarter ELSE IF f > 4 * Quarter THEN 4 * Quarter ELSE f
Calibration == Clamped(EstimateCalibration)

-----------------------------------------------------------------------------
StoreInit == rate \in Rates /\ tasks = [s \in Sessions |-> NoTask] /\ events = <<>> /\ drafts = <<>>

\* _record_task and record_task, at the end of a task: the bill is the main
\* session's, the estimate the tracker's, which priced the critic too.  A
\* session id recorded before is replaced.
Now == 1 + Max({tasks[s].at : s \in Sessions})
RecordTask_Effective(id, n, audit, billed, outcome) ==
  /\ tasks' = [tasks EXCEPT ![id] =
       [at |-> Now, usd |-> IF billed THEN (n * rate) \div Quarter ELSE -1,
        est |-> ((n + audit) * Calibration) \div Quarter, audited |-> audit > 0,
        outcome |-> outcome]]
  /\ UNCHANGED <<rate, events, drafts>>
RecordTask(id, n, audit, billed, outcome) ==
  /\ tasks' = [tasks EXCEPT ![id] =
       [at |-> Now, usd |-> IF billed THEN (n * rate) \div Quarter ELSE -1,
        est |-> n + audit, audited |-> audit > 0, outcome |-> outcome]]
  /\ UNCHANGED <<rate, events, drafts>>

\* classify_failure: the first tag one of whose patterns the error matches.
TagOrder == <<"deploy_ssh", "static_analysis", "unit_test", "build_deps",
              "build_toolchain", "runtime_crash", "thermal", "perf_miss">>
Tags == {TagOrder[i] : i \in DOMAIN TagOrder}
Classify(matches) ==
  LET hits == {i \in DOMAIN TagOrder : TagOrder[i] \in matches}
  IN  IF hits = {} THEN "unclassified"
      ELSE TagOrder[Min(hits)]

\* telemetry_tap on PostToolUseFailure: interrupts are not failures.
RecordFailure(id, matches, interrupt) ==
  /\ Len(events) < MaxFailures
  /\ events' = IF interrupt THEN events
                 ELSE Append(events, [id |-> id, tag |-> Classify(matches)])
  /\ UNCHANGED <<rate, tasks, drafts>>

\* telemetry_tap on Stop: a candidate from the session's first failure.
FailuresFor(id) == {i \in DOMAIN events : events[i].id = id}
FirstFailure(id) == events[Min(FailuresFor(id))]
DraftCandidate_Latest(id) ==
  /\ drafts' = IF FailuresFor(id) = {} THEN drafts
               ELSE Append(drafts, [id |-> id, root_cause |-> events[Len(events)].tag])
  /\ UNCHANGED <<rate, tasks, events>>
DraftCandidate(id) ==
  /\ drafts' = IF FailuresFor(id) = {} THEN drafts
               ELSE Append(drafts, [id |-> id, root_cause |-> FirstFailure(id).tag])
  /\ UNCHANGED <<rate, tasks, events>>

-----------------------------------------------------------------------------
\* What the guard has learnt is the true ratio and never more, and exactly that
\* (up to the clamp) when no critic spent on the tasks it learnt from: learning
\* does not feed on itself, failed and unbilled tasks teach nothing.
CalibrationIsTrue ==
  Cardinality(Newest) >= MinSamples =>
    /\ Calibration <= rate
    /\ (\A s \in Newest : ~tasks[s].audited) => Calibration = Clamped(rate)

\* A candidate's root cause is that of the failure its own session met first.
DraftsAreRooted ==
  \A i \in DOMAIN drafts :
    /\ FailuresFor(drafts[i].id) # {}
    /\ drafts[i].root_cause = FirstFailure(drafts[i].id).tag
=============================================================================
