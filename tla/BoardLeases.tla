----------------------------- MODULE BoardLeases -----------------------------
(***************************************************************************)
(* boards/leases.py: the lease file of one board, shared by every deepgent  *)
(* process of the host.  Each board has a file of its own and no operation  *)
(* touches two, so one board is the whole story.                            *)
(*                                                                          *)
(* A lease call is a plain synchronous function: holders of one process     *)
(* (one per board-farm server) never interleave inside it, processes        *)
(* interleave between its file-system calls, and a process may die at any   *)
(* of them.  A step of a process is one file-system call and the decision   *)
(* taken on its result.                                                     *)
(*                                                                          *)
(* The code compares timestamps with the clock and nothing else, so a       *)
(* timestamp is kept as its distance from now: `left` counts down with      *)
(* Tick and 0 means expired.                                                *)
(***************************************************************************)
EXTENDS Integers

CONSTANTS
  Holders,      \* holder identities, one per board-farm server
  Processes,    \* deepgent processes; a restarted one is another process
  ProcOf,       \* the process a holder lives in
  NoHolder,     \* not a holder
  TTL           \* lifetime of a lease, in ticks

ASSUME LeaseAssumption ==
  /\ NoHolder \notin Holders
  /\ ProcOf \in [Holders -> Processes]
  /\ TTL \in Nat \ {0}

VARIABLES
  file,     \* what the lease path names
  alive,    \* the processes still running
  pc,       \* where a process is inside a lease call
  caller,   \* the holder that call is for
  stamp,    \* the call's local `lease`: time its expires_at is away
  grant     \* the lease last returned to a holder: time it still has to run

vars == <<file, alive, pc, caller, stamp, grant>>

-----------------------------------------------------------------------------
File(kind, holder, left) == [kind |-> kind, holder |-> holder, left |-> left]
Missing == File("missing", NoHolder, 0)

\* Created and not yet written: unparseable, and still the writer's inode.
Empty(h) == File("empty", h, 0)
LeaseOf(h, n) == File("lease", h, n)

FileType ==
  [kind : {"missing", "empty", "lease"}, holder : Holders \cup {NoHolder}, left : 0..TTL]

\* None for a missing file and for a corrupt one.
ReadLease_CorruptCounts == IF file.kind = "missing" THEN Missing ELSE LeaseOf(file.holder, 1)
ReadLease == IF file.kind = "lease" THEN file ELSE Missing

Active(lease) == lease.kind = "lease" /\ lease.left > 0

\* An unexpired lease of another holder refuses both acquire and release.
Blocks_AnyHolder(lease, h) == FALSE
Blocks(lease, h) == Active(lease) /\ lease.holder # h

\* current_lease and require_lease: the check before a board operation.
Leased(h) == Active(ReadLease) /\ ReadLease.holder = h

Idle(p) == alive[p] /\ pc[p] = "idle"

Return(p) ==
  /\ pc' = [pc EXCEPT ![p] = "idle"]
  /\ caller' = [caller EXCEPT ![p] = NoHolder]
  /\ stamp' = [stamp EXCEPT ![p] = 0]

Forfeit(h) == grant' = [grant EXCEPT ![h] = 0]

-----------------------------------------------------------------------------
Init ==
  /\ file = Missing
  /\ alive = [p \in Processes |-> TRUE]
  /\ pc = [p \in Processes |-> "idle"]
  /\ caller = [p \in Processes |-> NoHolder]
  /\ stamp = [p \in Processes |-> 0]
  /\ grant = [h \in Holders |-> 0]

\* acquire_lease reads another holder's active lease and raises; the holder
\* learns that it has no lease.
AcquireRefused(p, h) ==
  /\ Idle(p) /\ ProcOf[h] = p
  /\ Blocks(ReadLease, h)
  /\ Forfeit(h)
  /\ UNCHANGED <<file, alive, pc, caller, stamp>>

AcquireRead(p, h) ==
  /\ Idle(p) /\ ProcOf[h] = p
  /\ ~Blocks(ReadLease, h)
  /\ pc' = [pc EXCEPT ![p] = "unlink"]
  /\ caller' = [caller EXCEPT ![p] = h]
  /\ UNCHANGED <<file, alive, stamp, grant>>

\* Whatever the path names by now is removed: `existing is not None or
\* path.exists()` fails only when there is nothing to remove.  A lease the
\* caller itself still had is given up here; the new one's times are taken.
AcquireUnlink_ParsedOnly(p) ==
  /\ pc[p] = "unlink"
  /\ file' = IF file.kind = "empty" THEN file ELSE Missing
  /\ Forfeit(caller[p])
  /\ pc' = [pc EXCEPT ![p] = "create"]
  /\ stamp' = [stamp EXCEPT ![p] = TTL]
  /\ UNCHANGED <<alive, caller>>
AcquireUnlink(p) ==
  /\ pc[p] = "unlink"
  /\ file' = Missing
  /\ Forfeit(caller[p])
  /\ pc' = [pc EXCEPT ![p] = "create"]
  /\ stamp' = [stamp EXCEPT ![p] = TTL]
  /\ UNCHANGED <<alive, caller>>

\* O_CREAT | O_EXCL: only on a free path.
AcquireCreate(p) ==
  /\ pc[p] = "create"
  /\ file = Missing
  /\ file' = Empty(caller[p])
  /\ pc' = [pc EXCEPT ![p] = "write"]
  /\ UNCHANGED <<alive, caller, stamp, grant>>

AcquireCollides(p) ==
  /\ pc[p] = "create"
  /\ file # Missing
  /\ Return(p)
  /\ UNCHANGED <<file, alive, grant>>

\* The write goes to the inode this call created, which the path may no
\* longer name; the caller is told it has the lease either way.
AcquireWrite(p) ==
  /\ pc[p] = "write"
  /\ file' = IF file = Empty(caller[p]) THEN LeaseOf(caller[p], stamp[p]) ELSE file
  /\ grant' = [grant EXCEPT ![caller[p]] = stamp[p]]
  /\ Return(p)
  /\ UNCHANGED alive

\* release_lease finds no lease, or someone else's active one, and leaves
\* the file alone.
ReleaseNothing(p, h) ==
  /\ Idle(p) /\ ProcOf[h] = p
  /\ ReadLease = Missing \/ Blocks(ReadLease, h)
  /\ Forfeit(h)
  /\ UNCHANGED <<file, alive, pc, caller, stamp>>

ReleaseRead(p, h) ==
  /\ Idle(p) /\ ProcOf[h] = p
  /\ ReadLease # Missing /\ ~Blocks(ReadLease, h)
  /\ pc' = [pc EXCEPT ![p] = "remove"]
  /\ caller' = [caller EXCEPT ![p] = h]
  /\ UNCHANGED <<file, alive, stamp, grant>>

ReleaseUnlink_KeepsFile(p) ==
  /\ pc[p] = "remove"
  /\ Forfeit(caller[p])
  /\ Return(p)
  /\ UNCHANGED <<file, alive>>
ReleaseUnlink(p) ==
  /\ pc[p] = "remove"
  /\ file' = Missing
  /\ Forfeit(caller[p])
  /\ Return(p)
  /\ UNCHANGED alive

\* The process is killed: an open descriptor is closed without its buffer.
Crash(p) ==
  /\ alive[p]
  /\ alive' = [alive EXCEPT ![p] = FALSE]
  /\ grant' = [h \in Holders |-> IF ProcOf[h] = p THEN 0 ELSE grant[h]]
  /\ Return(p)
  /\ UNCHANGED file

Decayed(n) == IF n = 0 THEN 0 ELSE n - 1

\* Time passes for every expires_at alike.
Tick ==
  /\ file' = [file EXCEPT !.left = Decayed(file.left)]
  /\ stamp' = [p \in Processes |-> Decayed(stamp[p])]
  /\ grant' = [h \in Holders |-> Decayed(grant[h])]
  /\ UNCHANGED <<alive, pc, caller>>

\* The rest of a lease call once it is past its read.
Continue(p) ==
  \/ AcquireUnlink(p) \/ AcquireCreate(p) \/ AcquireCollides(p)
  \/ AcquireWrite(p) \/ ReleaseUnlink(p)

Call(p, h) ==
  \/ AcquireRefused(p, h) \/ AcquireRead(p, h)
  \/ ReleaseNothing(p, h) \/ ReleaseRead(p, h)

Next ==
  \/ \E p \in Processes : Continue(p) \/ Crash(p)
  \/ \E p \in Processes, h \in Holders : Call(p, h)
  \/ Tick

Spec == Init /\ [][Next]_vars

\* A synchronous call that has begun goes on unless its process dies, and
\* the clock never stops.  Nothing obliges a task to ask for a lease.
Fairness ==
  /\ \A p \in Processes : WF_vars(Continue(p))
  /\ WF_vars(Tick)

-----------------------------------------------------------------------------
TypeOK ==
  /\ file \in FileType
  /\ alive \in [Processes -> BOOLEAN]
  /\ pc \in [Processes -> {"idle", "unlink", "create", "write", "remove"}]
  /\ caller \in [Processes -> Holders \cup {NoHolder}]
  /\ stamp \in [Processes -> 0..TTL]
  /\ grant \in [Holders -> 0..TTL]

\* Two holders never believe in a lease on the board at the same time: the
\* promise of the module docstring (leases.py:1-6).  It holds when all
\* holders share a process and fails across processes.
MutualExclusion ==
  \A g, h \in Holders : grant[g] > 0 /\ grant[h] > 0 => g = h

\* A holder that was given an unexpired lease passes require_lease: the file
\* says what acquire_lease returned, to the tick, even across a sibling's
\* refused attempts.  (One process.)
GrantIsOnFile ==
  \A h \in Holders : grant[h] > 0 => Leased(h) /\ file.left = grant[h]

\* No ghost lease: an unexpired file blocks the others only on behalf of a
\* holder that knows it has the lease, or whose process is dead.
NoGhostLease ==
  Active(file) /\ alive[ProcOf[file.holder]] => grant[file.holder] = file.left

\* h alone holds the board, and no other call past its read may still touch
\* the file.
Secure(h) ==
  /\ grant[h] > 0
  /\ file = LeaseOf(h, grant[h])
  /\ \A g \in Holders \ {h} : grant[g] = 0
  /\ \A p \in Processes : pc[p] \in {"unlink", "write", "remove"} => caller[p] = h

\* Once that is so it stays so, whatever other processes call, in any
\* interleaving, until h's claim ends by expiry, release, renewal or death:
\* stealing needs a call that read the file before the lease was written.
SecureIsStable ==
  [][\A h \in Holders : Secure(h) => Secure(h)' \/ grant'[h] = 0]_vars

\* Whatever instant the other processes die at, the lease file they leave
\* behind (active, half written or removed) stops refusing the survivors.
CrashFreesBoard ==
  \A h \in Holders :
    (\A p \in Processes \ {ProcOf[h]} : ~alive[p])
      ~> ~(Blocks(ReadLease, h) /\ ProcOf[file.holder] # ProcOf[h])

\* A survivor that keeps calling acquire_lease once the others are dead gets
\* the board: a file left half written does not collide with it for ever.
RetryWins ==
  \A h \in Holders :
    /\ <>[](\A p \in Processes \ {ProcOf[h]} : ~alive[p])
    /\ []<><<AcquireRead(ProcOf[h], h)>>_vars
    => []<><<AcquireWrite(ProcOf[h])>>_vars

\* The lease a task sees is a lock that lapses.
Lock == INSTANCE LeaseLock WITH held <- grant
ImplementsLock == Lock!Spec
=============================================================================
