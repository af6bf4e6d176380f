----------------------------- MODULE LocalRunner -----------------------------
(***************************************************************************)
(* boards/local.py: one command run on the host deepgent is installed on.   *)
(*                                                                          *)
(* LocalRunner.run starts a shell in a process group of its own and awaits  *)
(* communicate(), which returns when the shell has exited and every pipe to *)
(* its output is closed.  A deadline or a cancellation makes it kill the    *)
(* group: SIGTERM, a grace, SIGKILL.  The commands the shell starts are the *)
(* operating system's (external): they fork, exit, ignore SIGTERM or send   *)
(* their output elsewhere as they please, at any moment of this.            *)
(*                                                                          *)
(* The shell's exit is reaped by the event loop at once, after which its    *)
(* pid names nothing and the pid's group cannot be looked up.               *)
(***************************************************************************)
EXTENDS Integers

CONSTANTS
  Shell,      \* the group's leader
  Children,   \* processes it may start
  Deadline,   \* timeout_s + _CLIENT_GRACE_S
  KillGrace   \* _SIGKILL_GRACE_S

ASSUME RunnerAssumption ==
  /\ Shell \notin Children
  /\ Deadline \in Nat /\ KillGrace \in Nat

VARIABLES
  proc,       \* the life of each process
  stubborn,   \* processes that ignore SIGTERM
  quiet,      \* children that do not hold the command's output pipes
  step,       \* where run is
  timer,      \* the timer it waits on
  reason,     \* why it stopped waiting for the command
  sent        \* the last signal that reached the group

runVars == <<proc, stubborn, quiet, step, timer, reason, sent>>

Tree == {Shell} \cup Children

-----------------------------------------------------------------------------
Lives(p) == proc[p] = "running"
ShellGone == ~Lives(Shell)
PipesClosed == \A p \in Tree : Lives(p) => p \in quiet

Killed(P) == [p \in Tree |-> IF Lives(p) /\ p \in P THEN "gone" ELSE proc[p]]

RunOver == step \in {"returned", "terminated", "abandoned"}

RunInit ==
  /\ proc = [p \in Tree |-> IF p = Shell THEN "running" ELSE "unborn"]
  /\ stubborn \in SUBSET Tree
  /\ quiet \in SUBSET Children
  /\ step = "communicate" /\ timer = Deadline
  /\ reason = "none" /\ sent = "none"

\* A running process starts another; only one that holds the pipes can pass
\* them on.
Fork(c) ==
  /\ proc[c] = "unborn"
  /\ \E p \in Tree : Lives(p) /\ (p \in quiet => c \in quiet)
  /\ proc' = [proc EXCEPT ![c] = "running"]
  /\ UNCHANGED <<stubborn, quiet, step, timer, reason, sent>>

Exit(p) ==
  /\ Lives(p)
  /\ proc' = [proc EXCEPT ![p] = "gone"]
  /\ UNCHANGED <<stubborn, quiet, step, timer, reason, sent>>

-----------------------------------------------------------------------------
\* The command finishes: its exit status is returned.
Completes ==
  /\ step = "communicate" /\ ShellGone /\ PipesClosed
  /\ step' = "returned"
  /\ UNCHANGED <<proc, stubborn, quiet, timer, reason, sent>>

\* TimeoutError, or CancelledError from the awaiting task.
Interrupted(why) ==
  /\ step = "communicate"
  /\ why \in {"timeout", "cancel"} /\ (why = "timeout" => timer = 0)
  /\ reason' = why

Signal_ShellOnly(why) ==
  /\ Interrupted(why) /\ ~ShellGone
  /\ sent' = "TERM" /\ proc' = Killed({Shell} \ stubborn)
  /\ step' = "grace" /\ timer' = KillGrace
  /\ UNCHANGED <<stubborn, quiet>>
Signal(why) ==
  /\ Interrupted(why) /\ ~ShellGone
  /\ sent' = "TERM" /\ proc' = Killed(Tree \ stubborn)
  /\ step' = "grace" /\ timer' = KillGrace
  /\ UNCHANGED <<stubborn, quiet>>

\* returncode is set already: _terminate_group returns without a signal.
NothingToSignal(why) ==
  /\ Interrupted(why) /\ ShellGone
  /\ step' = "terminated"
  /\ UNCHANGED <<proc, stubborn, quiet, timer, sent>>

\* proc.wait() ends with the shell, whatever else runs in the group.
ShellReaped ==
  /\ step \in {"grace", "reap"} /\ ShellGone
  /\ step' = "terminated"
  /\ UNCHANGED <<proc, stubborn, quiet, timer, reason, sent>>

\* SIGKILL to the group, unless getpgid finds no such process.
SigKill_Nobody ==
  /\ step = "grace" /\ timer = 0
  /\ step' = "reap"
  /\ UNCHANGED <<proc, sent, stubborn, quiet, timer, reason>>
SigKill ==
  /\ step = "grace" /\ timer = 0
  /\ step' = "reap"
  /\ IF ShellGone
       THEN UNCHANGED <<proc, sent>>
       ELSE sent' = "KILL" /\ proc' = Killed(Tree)
  /\ UNCHANGED <<stubborn, quiet, timer, reason>>

\* A cancellation that arrives while the group is being terminated.
CancelledAgain ==
  /\ step \in {"grace", "reap"}
  /\ step' = "abandoned"
  /\ UNCHANGED <<proc, stubborn, quiet, timer, reason, sent>>

TimerTicks ==
  /\ step \in {"communicate", "grace"} /\ timer > 0
  /\ timer' = timer - 1
  /\ UNCHANGED <<proc, stubborn, quiet, step, reason, sent>>

System == \E p \in Tree : Exit(p) \/ (p # Shell /\ Fork(p))

Runner == Completes \/ Signal("timeout") \/ NothingToSignal("timeout") \/ ShellReaped \/ SigKill

RunCancelled == Signal("cancel") \/ NothingToSignal("cancel") \/ CancelledAgain

RunIdles == RunOver /\ UNCHANGED runVars

RunNext == System \/ Runner \/ RunCancelled \/ TimerTicks \/ RunIdles

RunSpec == RunInit /\ [][RunNext]_runVars

\* The event loop runs and its clock goes on; no process is obliged to exit.
RunFairness == WF_runVars(Runner) /\ WF_runVars(TimerTicks)

-----------------------------------------------------------------------------
RunTypeOK ==
  /\ proc \in [Tree -> {"unborn", "running", "gone"}]
  /\ stubborn \subseteq Tree /\ quiet \subseteq Children
  /\ step \in {"communicate", "grace", "reap", "returned", "terminated", "abandoned"}
  /\ timer \in 0..Deadline \cup 0..KillGrace
  /\ reason \in {"none", "timeout", "cancel"}
  /\ sent \in {"none", "TERM", "KILL"}

\* How much of the tree a signal takes: after SIGKILL nothing runs, and after
\* SIGTERM nothing that is not, or does not descend from, a process ignoring
\* it (local.py:86-103: the group, not the shell, is signalled).
TreeIsKilled ==
  /\ sent = "KILL" => \A p \in Tree : ~Lives(p)
  /\ sent = "TERM" /\ stubborn = {} => \A p \in Tree : ~Lives(p)

\* Whatever the command does, run comes back (local.py:48-84).
RunReturns == <>RunOver

\* "terminates the whole tree (the shell and anything it spawned), never
\* leaving orphans" (local.py:51-53), on a deadline and on a cancellation.
NoOrphans ==
  step = "terminated" => \A p \in Tree : ~Lives(p)
=============================================================================
