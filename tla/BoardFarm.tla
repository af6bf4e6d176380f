------------------------------ MODULE BoardFarm ------------------------------
(***************************************************************************)
(* boards/farm.py over boards/runner.py: the tools that run commands on a   *)
(* leased board.  A tool checks the lease once, synchronously, and then     *)
(* awaits the connection and the remote command, while leases expire, are   *)
(* released and change hands (BoardLeases), other holders' tools run, the   *)
(* connection drops or the process dies.                                    *)
(*                                                                          *)
(* exec and capture_metrics are a watchdogged command with a client-side    *)
(* deadline, both called "exec" here; deploy is an SFTP copy.  power only   *)
(* checks the lease and refuses; list_boards reads.  The board is an SSH    *)
(* target.                                                                  *)
(***************************************************************************)
EXTENDS BoardLeases

CONSTANTS
  Timeouts,         \* the timeout_s a tool may be given, after its cap; 0 is below one second
  ConnectTimeout,   \* _CONNECT_TIMEOUT_S
  KillAfter,        \* --kill-after of the watchdog
  ClientGrace,      \* _CLIENT_GRACE_S
  Latency           \* longest time from the request to the start of the command

\* How long a copy or a command without a watchdog occupies the board: longer than a
\* lease lasts, and than any watchdogged command (the cap, 600 s, is below the TTL).
Unbounded == 1000 + TTL

ASSUME FarmAssumption ==
  /\ Timeouts \subseteq Nat
  /\ {ConnectTimeout, KillAfter, ClientGrace, Latency} \subseteq Nat
  /\ Latency + KillAfter <= ClientGrace
  /\ \A t \in Timeouts : Latency + t + KillAfter < Unbounded

VARIABLES
  call,     \* the board operation a holder is awaiting
  remote,   \* how long the awaited command can still occupy the board
  stray     \* the same for commands whose client went away (the longest of them)

farmVars == <<file, alive, pc, caller, stamp, grant, call, remote, stray>>

-----------------------------------------------------------------------------
Tools == {"exec", "deploy"}

InFlight(stage, tool, timeout, left) ==
  [stage |-> stage, tool |-> tool, timeout |-> timeout, left |-> left]
NoCall == InFlight("idle", "none", 0, 0)

\* `timeout --kill-after=K int(t) ...`: a duration of 0 disables coreutils'
\* timeout.
Watchdog_None(t) == Unbounded
Watchdog_LateKill(t) == IF t = 0 THEN Unbounded ELSE t + KillAfter + ClientGrace
Watchdog(t) == IF t = 0 THEN Unbounded ELSE t + KillAfter

\* The client gives up this long after it sent the command.
Deadline_NoGrace(t) == t
Deadline(t) == t + ClientGrace

Occupied(h) == remote[h] > 0 \/ stray[h] > 0

-----------------------------------------------------------------------------
FarmInit ==
  /\ Init
  /\ call = [h \in Holders |-> NoCall]
  /\ remote = [h \in Holders |-> 0]
  /\ stray = [h \in Holders |-> 0]

Free(h) == Idle(ProcOf[h]) /\ call[h] = NoCall

End(h) == call' = [call EXCEPT ![h] = NoCall]

\* require_lease raises: the tool answers with an error.
Refused(h) ==
  /\ Free(h) /\ ~Leased(h)
  /\ Forfeit(h)
  /\ End(h)
  /\ UNCHANGED <<file, alive, pc, caller, stamp, remote, stray>>

\* require_lease passes; the runner starts to connect.
Start(h, tool, t) ==
  /\ Free(h) /\ Leased(h)
  /\ call' = [call EXCEPT ![h] = InFlight("connecting", tool, t, ConnectTimeout)]
  /\ UNCHANGED <<vars, remote, stray>>

\* Unreachable, unknown host key, or wait_for's timeout.
ConnectFails(h) ==
  /\ call[h].stage = "connecting"
  /\ End(h)
  /\ UNCHANGED <<vars, remote, stray>>

\* run: the command is sent and starts within Latency.
RunCommand(h) ==
  /\ call[h].stage = "connecting" /\ call[h].tool = "exec"
  /\ \E d \in 0..Latency :
       remote' = [remote EXCEPT ![h] = d + Watchdog(call[h].timeout)]
  /\ call' = [call EXCEPT ![h] = InFlight("running", @.tool, 0, Deadline(@.timeout))]
  /\ UNCHANGED <<vars, stray>>

\* put: the copy is awaited without a deadline.
PutFile(h) ==
  /\ call[h].stage = "connecting" /\ call[h].tool = "deploy"
  /\ remote' = [remote EXCEPT ![h] = Unbounded]
  /\ call' = [call EXCEPT ![h] = InFlight("running", "deploy", 0, 0)]
  /\ UNCHANGED <<vars, stray>>

\* The command ends on the board, by itself.
CommandExits(h) ==
  /\ \/ /\ call[h].tool = "exec" /\ remote[h] > 0
        /\ remote' = [remote EXCEPT ![h] = 0]
        /\ UNCHANGED stray
     \/ /\ stray[h] > 0
        /\ stray' = [stray EXCEPT ![h] = 0]
        /\ UNCHANGED remote
  /\ UNCHANGED <<vars, call>>

\* Its exit status (124 when the watchdog ended it) reaches the client, on a
\* connection that still works.
Finish(h) ==
  /\ call[h].stage = "running" /\ call[h].tool = "exec" /\ remote[h] = 0
  /\ End(h)
  /\ UNCHANGED <<vars, remote, stray>>

\* The client deadline passes first: BoardError, which exec reports and
\* capture_metrics turns into an empty summary.
DeadlinePasses_Never(h) == FALSE /\ UNCHANGED farmVars
DeadlinePasses(h) ==
  /\ call[h].stage = "running" /\ call[h].tool = "exec" /\ call[h].left = 0
  /\ End(h)
  /\ UNCHANGED <<vars, remote, stray>>

PutDone(h) ==
  /\ call[h].stage = "running" /\ call[h].tool = "deploy"
  /\ remote' = [remote EXCEPT ![h] = 0]
  /\ End(h)
  /\ UNCHANGED <<vars, stray>>

\* What stays on the board when a client goes away without an answer: the
\* watchdogged command, but not the copy, which lives in the connection.
Left(h) == IF call[h].tool = "exec" /\ remote[h] > stray[h] THEN remote[h] ELSE stray[h]

\* The connection drops (exit_status None, or an asyncssh error), or the
\* session cancels the tool call.
Lost(h) ==
  /\ call[h].stage = "running"
  /\ remote' = [remote EXCEPT ![h] = 0]
  /\ stray' = [stray EXCEPT ![h] = Left(h)]
  /\ End(h)
  /\ UNCHANGED vars

FarmCrash(p) ==
  /\ Crash(p)
  /\ remote' = [h \in Holders |-> IF ProcOf[h] = p THEN 0 ELSE remote[h]]
  /\ stray' = [h \in Holders |-> IF ProcOf[h] = p THEN Left(h) ELSE stray[h]]
  /\ call' = [h \in Holders |-> IF ProcOf[h] = p THEN NoCall ELSE call[h]]

\* A timer that is due fires before time goes on.
Due(h) ==
  \/ call[h].stage = "connecting" /\ call[h].left = 0
  \/ call[h].stage = "running" /\ call[h].tool = "exec" /\ call[h].left = 0

Shrunk(n) == IF n >= Unbounded THEN n ELSE Decayed(n)

FarmTick ==
  /\ \A h \in Holders : ~Due(h)
  /\ Tick
  /\ remote' = [h \in Holders |-> Shrunk(remote[h])]
  /\ stray' = [h \in Holders |-> Shrunk(stray[h])]
  /\ call' = [h \in Holders |-> [call[h] EXCEPT !.left = Decayed(@)]]

\* One step of an operation that is being awaited.
Operate(h) ==
  \/ ConnectFails(h) \/ RunCommand(h) \/ PutFile(h) \/ CommandExits(h)
  \/ Finish(h) \/ DeadlinePasses(h) \/ PutDone(h) \/ Lost(h)

Ask(h) ==
  \/ Refused(h)
  \/ \E t \in Timeouts : Start(h, "exec", t)
  \/ Start(h, "deploy", 0)

LeaseStep ==
  /\ \/ \E p \in Processes : Continue(p)
     \/ \E p \in Processes, h \in Holders : Call(p, h)
  /\ UNCHANGED <<call, remote, stray>>

FarmNext ==
  \/ LeaseStep
  \/ \E p \in Processes : FarmCrash(p)
  \/ \E h \in Holders : Ask(h) \/ Operate(h)
  \/ FarmTick

FarmSpec == FarmInit /\ [][FarmNext]_farmVars

\* The clock goes on, however many calls are made meanwhile, and due timers
\* are served.  Nothing makes the board answer a connection, end a command,
\* deliver its exit status or take a file.
FarmFairSpec ==
  /\ FarmSpec
  /\ SF_farmVars(FarmTick)
  /\ \A p \in Processes : WF_farmVars(Continue(p) /\ UNCHANGED <<call, remote, stray>>)
  /\ \A h \in Holders : WF_farmVars(DeadlinePasses(h))
                        /\ WF_farmVars(call[h].left = 0 /\ ConnectFails(h))

-----------------------------------------------------------------------------
\* A tool that has answered leaves nothing running on the board, even when it
\* answered because its own deadline passed: the watchdog (T + kill-after)
\* always beats the client (T + grace).  Only a dropped connection, a
\* cancelled call or a dead process leaves a command behind.
NoStrayAfterAnswer ==
  \A h \in Holders : remote[h] > 0 => call[h].stage = "running"

\* Nor does a stray survive for ever (runner.py:4-7): whatever happens to the
\* client, a command leaves the board.
CommandsLeaveBoard ==
  \A h \in Holders :
    /\ remote[h] > 0 /\ call[h].tool # "deploy" ~> remote[h] = 0 \/ call[h].tool = "deploy"
    /\ stray[h] > 0 /\ ~alive[ProcOf[h]] ~> stray[h] = 0

\* The longest an operation can still occupy the board.
Budget(h) ==
  CASE call[h].stage = "connecting" /\ call[h].tool = "exec"
         -> call[h].left + Latency + call[h].timeout + KillAfter
    [] OTHER -> remote[h]

Covered(h) == Budget(h) > 0 /\ grant[h] >= Budget(h)

\* A command started with enough of its lease left never outlives the lease:
\* it stays covered while the connection is made and it runs, unless its
\* holder gives the lease up.
CoverageIsKept ==
  [][\A h \in Holders :
       Covered(h) => Covered(h)' \/ Budget(h)' = 0 \/ grant'[h] = 0]_farmVars

\* exec and capture_metrics always come back (runner.py:4-7).
ExecReturns ==
  \A h \in Holders : call[h].tool = "exec" ~> call[h].tool # "exec"

\* "Lease a board for exclusive use" (farm.py:73): no two holders' commands
\* are on the board at once.
ExclusiveUse ==
  \A g, h \in Holders : Occupied(g) /\ Occupied(h) => g = h
=============================================================================
