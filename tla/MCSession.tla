------------------------------ MODULE MCSession ------------------------------
(***************************************************************************)
(* Four scenes of a session, which share no state and are not multiplied:   *)
(* a task through run_task; the calls of its agents under the hooks; the    *)
(* failures of several sessions and the corpus candidates they leave; their *)
(* task records and what is learnt from them.  The hooks of the other       *)
(* scenes outlive the task, which was cancelled at once there.              *)
(***************************************************************************)
EXTENDS SessionHooks, TaskSession

CONSTANTS MaxDrafts, MaxTasks

ASSUME ScenesAssumption == "write" \in Tools

VARIABLES
  scene,   \* which of the four
  written  \* task records written

rest == <<all, scene, written>>
scenes == <<vars, rest>>

\* What the patterns of the taxonomy match in an error.
Errors == {{}, {"unit_test", "deploy_ssh"}}

Callers == Agents \ {"architect"}  \* who is to the gates what a researcher is

Task == scene = "task" /\ Next /\ UNCHANGED rest

Gates ==
  /\ scene = "calls" /\ UNCHANGED <<vars, scene, written>>
  /\ \/ \E c \in Calls :
          \/ \E a \in Callers, t \in Tools : Ask(c, a, t)
          \/ Approve(c) \/ Reject(c) \/ Execute(c)
          \/ Skip(c) \/ Analyse(c) \/ Verdict(c)
     \/ EditGates

Failures ==
  /\ scene = "failures" /\ UNCHANGED <<vars, scene, written>>
  /\ \E id \in Sessions :
       \/ Len(drafts) < MaxDrafts /\ Stop(id)
       \/ \E c \in Calls :
            \/ Ask(c, "main", "write")
            \/ \E m \in Errors, i \in BOOLEAN : Fail(c, id, m, i)

Records ==
  /\ scene = "records" /\ UNCHANGED <<vars, scene>>
  /\ written < MaxTasks /\ written' = written + 1
  /\ \E id \in Sessions, n \in Spends, audit_cost \in Audits, bill \in BOOLEAN :
       \/ TaskEnds(id, n, audit_cost, bill, "success")
       \/ TaskEnds(id, n, 0, bill, "error")

TaskIsOver ==
  /\ gated = FALSE /\ telemetry = FALSE /\ phase = "cancelled" /\ cli = "closed" /\ turns = 0 /\ stream = <<>>
  /\ spent = 0 /\ billed = 0 /\ failures = 0
  /\ result = None /\ audit = None /\ outcome = "none" /\ recorded = <<>>

ScenesInit ==
  /\ HooksInit /\ written = 0
  /\ \/ scene = "task" /\ Init /\ ci = FALSE
     \/ scene \in {"calls", "failures", "records"} /\ TaskIsOver
  /\ scene = "records" \/ rate = CHOOSE r \in Rates : TRUE

SessionSpec ==
  /\ ScenesInit /\ [][Task \/ Gates \/ Failures \/ Records]_scenes
  /\ WF_scenes(Task /\ Cli) /\ WF_scenes(Task /\ Orchestrator)
=============================================================================
