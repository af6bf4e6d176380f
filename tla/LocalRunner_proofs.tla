-------------------------- MODULE LocalRunner_proofs --------------------------
(***************************************************************************)
(* LocalRunner for every set of child processes and every deadline: what a  *)
(* signal takes with it.                                                    *)
(***************************************************************************)
EXTENDS LocalRunner, TLAPS

LEMMA TypeInit == RunInit => RunTypeOK
  BY RunnerAssumption DEF RunInit, RunTypeOK, Tree

LEMMA TypeStep == RunTypeOK /\ [RunNext]_runVars => RunTypeOK'
<1> SUFFICES ASSUME RunTypeOK, [RunNext]_runVars
             PROVE  RunTypeOK'
  OBVIOUS
<1> USE RunnerAssumption DEF RunTypeOK
<1>1. ASSUME NEW c \in Children, Fork(c)
      PROVE  RunTypeOK'
  BY <1>1 DEF Fork, Tree
<1>2. ASSUME NEW p \in Tree, Exit(p)
      PROVE  RunTypeOK'
  BY <1>2 DEF Exit
<1>3. CASE Completes
  BY <1>3 DEF Completes
<1>4. ASSUME NEW why \in {"timeout", "cancel"}, Signal(why)
      PROVE  RunTypeOK'
  BY <1>4 DEF Signal, Interrupted, Killed
<1>5. ASSUME NEW why \in {"timeout", "cancel"}, NothingToSignal(why)
      PROVE  RunTypeOK'
  BY <1>5 DEF NothingToSignal, Interrupted
<1>6. CASE ShellReaped
  BY <1>6 DEF ShellReaped
<1>7. CASE SigKill
  BY <1>7 DEF SigKill, Killed
<1>8. CASE CancelledAgain
  BY <1>8 DEF CancelledAgain
<1>9. CASE TimerTicks
  BY <1>9 DEF TimerTicks
<1>10. CASE RunIdles \/ UNCHANGED runVars
  BY <1>10 DEF RunIdles, runVars
<1> QED
  BY <1>1, <1>2, <1>3, <1>4, <1>5, <1>6, <1>7, <1>8, <1>9, <1>10
  DEF RunNext, System, Runner, RunCancelled, Tree

\* Every state of the runner is well typed.
THEOREM TypeCorrect == RunSpec => []RunTypeOK
<1>1. RunInit => RunTypeOK
  BY TypeInit
<1>2. RunTypeOK /\ [RunNext]_runVars => RunTypeOK'
  BY TypeStep
<1> QED
  BY <1>1, <1>2, PTL DEF RunSpec

-----------------------------------------------------------------------------
LEMMA KillStep == RunTypeOK /\ TreeIsKilled /\ [RunNext]_runVars => TreeIsKilled'
<1> SUFFICES ASSUME RunTypeOK, TreeIsKilled, [RunNext]_runVars
             PROVE  TreeIsKilled'
  OBVIOUS
<1> USE DEF TreeIsKilled, Lives
<1>1. ASSUME NEW c \in Children, Fork(c)
      PROVE  TreeIsKilled'
  BY <1>1 DEF Fork, RunTypeOK
<1>2. ASSUME NEW p \in Tree, Exit(p)
      PROVE  TreeIsKilled'
  BY <1>2 DEF Exit, RunTypeOK
<1>3. CASE Completes
  BY <1>3 DEF Completes
<1>4. ASSUME NEW why \in {"timeout", "cancel"}, Signal(why)
      PROVE  TreeIsKilled'
  BY <1>4 DEF Signal, Interrupted, Killed
<1>5. ASSUME NEW why \in {"timeout", "cancel"}, NothingToSignal(why)
      PROVE  TreeIsKilled'
  BY <1>5 DEF NothingToSignal, Interrupted
<1>6. CASE ShellReaped
  BY <1>6 DEF ShellReaped
<1>7. CASE SigKill
  BY <1>7 DEF SigKill, Killed
<1>8. CASE CancelledAgain \/ TimerTicks \/ RunIdles \/ UNCHANGED runVars
  BY <1>8 DEF CancelledAgain, TimerTicks, RunIdles, runVars
<1> QED
  BY <1>1, <1>2, <1>3, <1>4, <1>5, <1>6, <1>7, <1>8
  DEF RunNext, System, Runner, RunCancelled, Tree

\* After SIGKILL nothing of the tree runs, and after SIGTERM nothing does
\* unless some process ignores it, for any tree forking at any moment.
THEOREM SignalsTakeTheTree == RunSpec => []TreeIsKilled
<1>1. RunInit => TreeIsKilled
  BY DEF RunInit, TreeIsKilled
<1>2. RunTypeOK /\ TreeIsKilled /\ [RunNext]_runVars => TreeIsKilled'
  BY KillStep
<1> QED
  BY <1>1, <1>2, TypeCorrect, PTL DEF RunSpec
=============================================================================
