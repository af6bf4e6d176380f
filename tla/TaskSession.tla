----------------------------- MODULE TaskSession -----------------------------
(***************************************************************************)
(* core/orchestrator.py with core/budget.py and hooks/: one task through    *)
(* Orchestrator.run_task.                                                   *)
(*                                                                          *)
(* The agent runs in a CLI subprocess driven by the SDK (external): it      *)
(* emits messages into a stream the orchestrator reads at its own pace and  *)
(* calls the registered hooks between a tool call and its next turn, so a   *)
(* hook may run before the orchestrator has read the message whose tool it  *)
(* judges.  After a successful main session of a risky task a critic        *)
(* session runs with the same BudgetTracker.                                *)
(*                                                                          *)
(* Spend is counted in whole units; the tracker's estimate of a message is  *)
(* taken to be its price, and the calibrated halt threshold                 *)
(* HALT_FRACTION * cap / calibration is the constant Halt.                  *)
(***************************************************************************)
EXTENDS Integers, Sequences

CONSTANTS
  Costs,      \* what one assistant message can cost
  MaxCost,    \* the largest of them
  Halt,       \* spend from which halt_needed holds
  MaxTurns,   \* turns of the main session
  AuditTurns, \* turns of the critic session
  MaxLag      \* messages the SDK buffers ahead of the orchestrator

ASSUME SessionAssumption ==
  /\ Costs \subseteq Nat /\ MaxCost \in Costs /\ \A c \in Costs : c <= MaxCost
  /\ Halt \in Nat \ {0}
  /\ {MaxTurns, AuditTurns, MaxLag} \subseteq Nat \ {0}

VARIABLES
  gated,      \* critic_enabled and the classifier's risk tier is 2 or more
  telemetry,  \* settings.telemetry_enabled: there is a store to record in
  phase,      \* where run_task is
  cli,        \* what the CLI subprocess of the current session is doing
  turns,      \* its turns so far
  stream,     \* its messages the orchestrator has not read
  spent,      \* tracker.spent_usd
  billed,     \* what all messages cost
  failures,   \* tool calls that failed
  result,     \* the ResultMessage of the main session
  audit,      \* the ResultMessage of the critic session
  outcome,    \* of the TaskOutcome returned
  recorded    \* outcomes of the task records written

session == <<cli, turns, stream>>
vars ==
  <<gated, telemetry, phase, session, spent, billed, failures, result, audit, outcome, recorded>>

-----------------------------------------------------------------------------
\* Messages: an assistant message by its cost, a result by its error flag and
\* the verdict lines in its text.
VerdictLines == {<<>>, <<"PASS">>, <<"VETO">>, <<"PASS", "VETO">>, <<"VETO", "PASS">>}
Message(kind, cost, error, lines) ==
  [kind |-> kind, cost |-> cost, error |-> error, lines |-> lines]
Assistant(c) == Message("assistant", c, FALSE, <<>>)
Result(error, lines) == Message("result", 0, error, lines)
None == Message("none", 0, FALSE, <<>>)

Running == phase \in {"main", "audit"}
TurnLimit == IF phase = "main" THEN MaxTurns ELSE AuditTurns

\* parse_critic_verdict: the last verdict line decides, none passes.
Vetoed(lines) == lines # <<>> /\ lines[Len(lines)] = "VETO"

\* BudgetTracker.halt_needed.
HaltNeeded == spent >= Halt

-----------------------------------------------------------------------------
Init ==
  /\ gated \in BOOLEAN /\ telemetry \in BOOLEAN
  /\ phase = "main" /\ cli = "running" /\ turns = 0 /\ stream = <<>>
  /\ spent = 0 /\ billed = 0 /\ failures = 0
  /\ result = None /\ audit = None
  /\ outcome = "none" /\ recorded = <<>>

\* A turn that calls a tool.
Turn(c) ==
  /\ Running /\ cli = "running"
  /\ turns < TurnLimit /\ Len(stream) < MaxLag
  /\ turns' = turns + 1
  /\ stream' = Append(stream, Assistant(c))
  /\ billed' = billed + c
  /\ cli' = "tool"
  /\ UNCHANGED <<gated, telemetry, phase, spent, failures, result, audit, outcome, recorded>>

Close(error, lines) ==
  /\ cli' = "closed"
  /\ stream' = Append(stream, Result(error, lines))

\* The session's last message, and its result.
Answer(c, error, lines) ==
  /\ Running /\ cli = "running"
  /\ turns < TurnLimit /\ Len(stream) < MaxLag
  /\ turns' = turns + 1
  /\ stream' = stream \o <<Assistant(c), Result(error, lines)>>
  /\ billed' = billed + c
  /\ cli' = "closed"
  /\ UNCHANGED <<gated, telemetry, phase, spent, failures, result, audit, outcome, recorded>>

OutOfTurns(error) ==
  /\ Running /\ cli = "running"
  /\ turns = TurnLimit
  /\ Close(error, <<>>)
  /\ UNCHANGED <<gated, telemetry, phase, turns, spent, billed, failures, result, audit,
                 outcome, recorded>>

\* PostToolUse: budget_guard stops the session or lets it go on.
GuardHalts(error) ==
  /\ Running /\ cli = "tool" /\ HaltNeeded
  /\ Close(error, <<>>)
  /\ UNCHANGED <<gated, telemetry, phase, turns, spent, billed, failures, result, audit,
                 outcome, recorded>>

GuardPasses ==
  /\ Running /\ cli = "tool" /\ ~HaltNeeded
  /\ cli' = "running"
  /\ UNCHANGED <<gated, telemetry, phase, turns, stream, spent, billed, failures, result, audit,
                 outcome, recorded>>

\* PostToolUseFailure: reflexion_tap and telemetry_tap run, budget_guard is
\* not registered for it.
ToolFails ==
  /\ Running /\ cli = "tool"
  /\ cli' = "running"
  /\ failures' = failures + 1
  /\ UNCHANGED <<gated, telemetry, phase, turns, stream, spent, billed, result, audit,
                 outcome, recorded>>

\* The subprocess ends without a result, with an error the SDK raises or not.
CliDies ==
  /\ Running /\ cli \in {"running", "tool"}
  /\ cli' \in {"closed", "broken"}
  /\ UNCHANGED <<gated, telemetry, phase, turns, stream, spent, billed, failures, result, audit,
                 outcome, recorded>>

-----------------------------------------------------------------------------
\* The orchestrator takes the next message: record_usage, or the result.
Read ==
  /\ Running /\ stream # <<>>
  /\ LET m == Head(stream) IN
       /\ spent' = spent + m.cost
       /\ result' = IF m.kind = "result" /\ phase = "main" THEN m ELSE result
       /\ audit' = IF m.kind = "result" /\ phase = "audit" THEN m ELSE audit
  /\ stream' = Tail(stream)
  /\ UNCHANGED <<gated, telemetry, phase, cli, turns, billed, failures, outcome, recorded>>

StreamEnded == Running /\ stream = <<>> /\ cli = "closed"

\* run_task raises: how it ends is kept apart for what it means to the caller.
Raise(how) ==
  /\ phase' = how /\ cli' = "closed" /\ stream' = <<>>
  /\ UNCHANGED <<gated, telemetry, turns, spent, billed, failures, result, audit, outcome, recorded>>

\* TaskExecutionError for a session without a result; an SDK error; or the task
\* is cancelled (a stop button, Ctrl-C).
NoResult == StreamEnded /\ phase = "main" /\ result = None /\ Raise("failed")
SdkError == Running /\ stream = <<>> /\ cli = "broken" /\ Raise("failed")
Cancelled == Running /\ Raise("cancelled")

\* The critic gate opens on a successful risky task only.
AuditDue_AnyResult == gated
AuditDue == gated /\ ~result.error

BeginAudit_OwnTracker ==
  /\ StreamEnded /\ phase = "main" /\ result # None /\ AuditDue
  /\ phase' = "audit" /\ cli' = "running" /\ turns' = 0
  /\ spent' = 0
  /\ UNCHANGED <<gated, telemetry, stream, billed, failures, result, audit, outcome, recorded>>
BeginAudit ==
  /\ StreamEnded /\ phase = "main" /\ result # None /\ AuditDue
  /\ phase' = "audit" /\ cli' = "running" /\ turns' = 0
  /\ UNCHANGED <<gated, telemetry, stream, spent, billed, failures, result, audit, outcome, recorded>>

IsError == result.error \/ (phase = "audit" /\ Vetoed(audit.lines))

\* _record_task's outcome argument.
RecordedError_MainOnly == result.error
RecordedError == IsError

Named(error) == IF error THEN "error" ELSE "success"

Report ==
  /\ phase' = "returned"
  /\ outcome' = Named(IsError)
  /\ recorded' = IF telemetry THEN Append(recorded, Named(RecordedError)) ELSE recorded
  /\ UNCHANGED <<gated, telemetry, session, spent, billed, failures, result, audit>>

\* _record_task's store cannot be written, and the error leaves run_task.
Unrecorded == telemetry /\ Raise("unrecorded")

\* _record_task, then the TaskOutcome.
Finish_NeedsVerdict ==
  /\ StreamEnded /\ result # None
  /\ IF phase = "audit" THEN audit # None ELSE ~AuditDue
  /\ Report \/ Unrecorded
Finish ==
  /\ StreamEnded /\ result # None
  /\ phase = "audit" \/ ~AuditDue
  /\ Report \/ Unrecorded

Cli ==
  \/ \E c \in Costs : Turn(c)
  \/ \E c \in Costs, e \in BOOLEAN, l \in VerdictLines : Answer(c, e, l)
  \/ \E e \in BOOLEAN : OutOfTurns(e) \/ GuardHalts(e)
  \/ GuardPasses \/ ToolFails \/ CliDies

Orchestrator == Read \/ NoResult \/ SdkError \/ BeginAudit \/ Finish

Done == ~Running /\ UNCHANGED vars

Next == Cli \/ Orchestrator \/ Cancelled \/ Done

Spec == Init /\ [][Next]_vars

\* The subprocess makes progress and the event loop keeps reading.
FairSpec == Spec /\ WF_vars(Cli) /\ WF_vars(Orchestrator)

-----------------------------------------------------------------------------
MessageType ==
  [kind : {"assistant", "result", "none"}, cost : Costs \cup {0}, error : BOOLEAN,
   lines : VerdictLines]

TypeOK ==
  /\ gated \in BOOLEAN /\ telemetry \in BOOLEAN
  /\ phase \in {"main", "audit", "returned", "failed", "cancelled", "unrecorded"}
  /\ cli \in {"running", "tool", "closed", "broken"}
  /\ turns \in Nat /\ spent \in Nat /\ billed \in Nat /\ failures \in Nat
  /\ stream \in Seq(MessageType)
  /\ result \in MessageType /\ audit \in MessageType
  /\ outcome \in {"none", "success", "error"}
  /\ recorded \in Seq({"success", "error"})

\* Success is never reported over a failed main session or over the critic's
\* veto, and the critic never rescues or even audits a failed run.
SuccessIsEarned ==
  /\ outcome = "success" => ~result.error /\ ~Vetoed(audit.lines)
  /\ audit # None => gated /\ ~result.error

\* The record says what the caller was told, once; a task that raises, or runs with
\* telemetry switched off, leaves none.
RecordMatchesOutcome ==
  recorded = IF telemetry /\ phase = "returned" THEN <<outcome>> ELSE <<>>

\* "Every task emits telemetry (section 1); best-effort, never fatal"
\* (orchestrator.py:402): no outcome is lost because it could not be recorded.
RecordingIsNotFatal == phase # "unrecorded"

Slack == Halt - 1 + (MaxLag + 2) * MaxCost

\* The two sessions of a task together overshoot the halting spend by a few
\* messages, plus one for every tool call that failed.
SpendIsBounded == billed <= Slack + failures * MaxCost

\* Whatever the agent does, run_task ends.
SessionEnds == <>(~Running)

\* "A task cannot report success over a critic failure" (expansion.md:49): a
\* gated task that reports success was passed by the critic.
SuccessMeansAudited ==
  outcome = "success" /\ gated => audit.lines # <<>>
=============================================================================
