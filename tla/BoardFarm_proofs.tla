-------------------------- MODULE BoardFarm_proofs --------------------------
(***************************************************************************)
(* Theorems about the leases and the board farm that is used under them:    *)
(* about BoardLeases for any number of holders and processes, any           *)
(* distribution of holders over processes and any TTL; about BoardFarm for  *)
(* any timeouts too.  What they say of the watchdog they say of timeouts of *)
(* a second and more: coreutils takes a duration of 0 as no limit.          *)
(***************************************************************************)
EXTENDS BoardFarm, TLAPS

\* The leases.
\* The path names a lease or a half-written file of some holder, or nothing.
FileNamed ==
  /\ file.kind = "missing" => file = Missing
  /\ file.kind = "empty" => file.left = 0
  /\ file.kind # "missing" => file.holder \in Holders

\* A process inside a lease call is alive and serves one of its own holders,
\* who has given up its earlier lease from the unlink on.
CallsInOrder ==
  \A p \in Processes :
    /\ pc[p] # "idle" => alive[p] /\ caller[p] \in Holders /\ ProcOf[caller[p]] = p
    /\ pc[p] \in {"create", "write"} => grant[caller[p]] = 0

LeaseInv == TypeOK /\ FileNamed /\ CallsInOrder

USE LeaseAssumption

LEMMA InitInv == Init => LeaseInv
BY DEF Init, LeaseInv, TypeOK, FileNamed, CallsInOrder, FileType, File, Missing

\* LeaseInv is inductive.
LEMMA StepInv == LeaseInv /\ [Next]_vars => LeaseInv'
<1> SUFFICES ASSUME LeaseInv, [Next]_vars PROVE LeaseInv'
  OBVIOUS
<1> USE DEF LeaseInv, TypeOK, FileNamed, CallsInOrder, FileType, File, Missing,
            Empty, LeaseOf, Return, Forfeit, Idle
<1>1. ASSUME NEW p \in Processes, AcquireUnlink(p) PROVE LeaseInv'
  BY <1>1 DEF AcquireUnlink
<1>2. ASSUME NEW p \in Processes, AcquireCreate(p) PROVE LeaseInv'
  BY <1>2 DEF AcquireCreate
<1>3. ASSUME NEW p \in Processes, AcquireCollides(p) PROVE LeaseInv'
  BY <1>3 DEF AcquireCollides
<1>4. ASSUME NEW p \in Processes, AcquireWrite(p) PROVE LeaseInv'
  BY <1>4 DEF AcquireWrite
<1>5. ASSUME NEW p \in Processes, ReleaseUnlink(p) PROVE LeaseInv'
  BY <1>5 DEF ReleaseUnlink
<1>6. ASSUME NEW p \in Processes, Crash(p) PROVE LeaseInv'
  BY <1>6 DEF Crash
<1>7. ASSUME NEW p \in Processes, NEW h \in Holders, AcquireRefused(p, h) \/ ReleaseNothing(p, h)
      PROVE LeaseInv'
  BY <1>7 DEF AcquireRefused, ReleaseNothing
<1>8. ASSUME NEW p \in Processes, NEW h \in Holders, AcquireRead(p, h) \/ ReleaseRead(p, h)
      PROVE LeaseInv'
  BY <1>8 DEF AcquireRead, ReleaseRead
<1>9. CASE Tick
  BY <1>9 DEF Tick, Decayed
<1>10. CASE UNCHANGED vars
  BY <1>10 DEF vars
<1>11. QED
  BY <1>1, <1>2, <1>3, <1>4, <1>5, <1>6, <1>7, <1>8, <1>9, <1>10
     DEF Next, Continue, Call

-----------------------------------------------------------------------------
\* Every variable keeps its type: file contents, program counters, the local
\* lease of a call and the leases handed out.
THEOREM TypeCorrect == Spec => []TypeOK
<1>1. LeaseInv => TypeOK
  BY DEF LeaseInv
<1>2. QED
  BY InitInv, StepInv, <1>1, PTL DEF Spec

\* An unexpired lease file refuses other holders only on behalf of a holder
\* that was told it has the lease, for exactly that time, or of a dead one:
\* no path through acquire_lease and release_lease, however interleaved,
\* forgets a lease it wrote.
THEOREM NoGhostLeases == Spec => []NoGhostLease
<1>1. Init => NoGhostLease
  BY DEF Init, NoGhostLease, Active, Missing, File
<1>2. LeaseInv /\ NoGhostLease /\ [Next]_vars => NoGhostLease'
  <2> SUFFICES ASSUME LeaseInv, NoGhostLease, [Next]_vars PROVE NoGhostLease'
    OBVIOUS
  <2> USE DEF LeaseInv, TypeOK, FileNamed, CallsInOrder, FileType, File, Missing,
              Empty, LeaseOf, Return, Forfeit, Idle, NoGhostLease, Active
  <2>1. ASSUME NEW p \in Processes, AcquireUnlink(p) \/ AcquireCreate(p) \/ ReleaseUnlink(p)
        PROVE NoGhostLease'
    BY <2>1 DEF AcquireUnlink, AcquireCreate, ReleaseUnlink
  <2>2. ASSUME NEW p \in Processes, AcquireCollides(p) PROVE NoGhostLease'
    BY <2>2 DEF AcquireCollides
  <2>3. ASSUME NEW p \in Processes, AcquireWrite(p) PROVE NoGhostLease'
    <3>1. CASE file = Empty(caller[p])
      BY <2>3, <3>1 DEF AcquireWrite
    <3>2. CASE file # Empty(caller[p]) /\ file.holder # caller[p]
      BY <2>3, <3>2 DEF AcquireWrite
    <3>3. CASE file # Empty(caller[p]) /\ file.holder = caller[p]
      \* The caller gave its earlier lease up, so the file cannot be active.
      <4>1. ~Active(file)
        BY <2>3, <3>3 DEF AcquireWrite
      <4>2. QED
        BY <2>3, <3>3, <4>1 DEF AcquireWrite
    <3>4. QED
      BY <3>1, <3>2, <3>3
  <2>4. ASSUME NEW p \in Processes, Crash(p) PROVE NoGhostLease'
    BY <2>4 DEF Crash
  <2>5. ASSUME NEW p \in Processes, NEW h \in Holders,
               AcquireRefused(p, h) \/ ReleaseNothing(p, h)
        PROVE NoGhostLease'
    BY <2>5 DEF AcquireRefused, ReleaseNothing, Blocks, ReadLease
  <2>6. ASSUME NEW p \in Processes, NEW h \in Holders,
               AcquireRead(p, h) \/ ReleaseRead(p, h)
        PROVE NoGhostLease'
    BY <2>6 DEF AcquireRead, ReleaseRead
  <2>7. CASE Tick
    BY <2>7 DEF Tick, Decayed
  <2>8. CASE UNCHANGED vars
    BY <2>8 DEF vars
  <2>9. QED
    BY <2>1, <2>2, <2>3, <2>4, <2>5, <2>6, <2>7, <2>8 DEF Next, Continue, Call
<1>3. QED
  BY InitInv, StepInv, <1>1, <1>2, PTL DEF Spec

-----------------------------------------------------------------------------
\* A holder that is alone on the board, with no call of another process past
\* its read, stays alone until its own claim ends, for any number of
\* competing processes: a lease can only be stolen by a call that read the
\* file before the lease was written.
THEOREM SecureStaysSecure == Spec => SecureIsStable
<1>1. ASSUME LeaseInv, [Next]_vars, NEW h \in Holders, Secure(h)
      PROVE Secure(h)' \/ grant'[h] = 0
  <2> USE <1>1 DEF LeaseInv, TypeOK, FileNamed, CallsInOrder, FileType, File, Missing,
              Empty, LeaseOf, Return, Forfeit, Idle, Secure
  <2>1. ASSUME NEW p \in Processes, AcquireUnlink(p) \/ ReleaseUnlink(p)
        PROVE grant'[h] = 0
    BY <2>1 DEF AcquireUnlink, ReleaseUnlink
  <2>2. ASSUME NEW p \in Processes, AcquireCreate(p) PROVE FALSE
    BY <2>2 DEF AcquireCreate
  <2>3. ASSUME NEW p \in Processes, AcquireCollides(p) PROVE Secure(h)'
    BY <2>3 DEF AcquireCollides
  <2>4. ASSUME NEW p \in Processes, AcquireWrite(p) PROVE FALSE
    BY <2>4 DEF AcquireWrite
  <2>5. ASSUME NEW p \in Processes, Crash(p) PROVE Secure(h)' \/ grant'[h] = 0
    BY <2>5 DEF Crash
  <2>6. ASSUME NEW p \in Processes, NEW g \in Holders,
               AcquireRefused(p, g) \/ ReleaseNothing(p, g)
        PROVE Secure(h)'
    BY <2>6 DEF AcquireRefused, ReleaseNothing, Blocks, ReadLease, Active
  <2>7. ASSUME NEW p \in Processes, NEW g \in Holders,
               AcquireRead(p, g) \/ ReleaseRead(p, g)
        PROVE Secure(h)'
    BY <2>7 DEF AcquireRead, ReleaseRead, Blocks, ReadLease, Active
  <2>8. CASE Tick
    BY <2>8 DEF Tick, Decayed
  <2>9. CASE UNCHANGED vars
    BY <2>9 DEF vars
  <2>10. QED
    BY <2>1, <2>2, <2>3, <2>4, <2>5, <2>6, <2>7, <2>8, <2>9 DEF Next, Continue, Call
<1>2. LeaseInv /\ [Next]_vars
        => [\A h \in Holders : Secure(h) => Secure(h)' \/ grant'[h] = 0]_vars
  BY <1>1
<1>3. QED
  BY InitInv, StepInv, <1>2, PTL DEF Spec, SecureIsStable

-----------------------------------------------------------------------------
\* All holders are board-farm servers of one process.
OneProcessHost == \A g, h \in Holders : ProcOf[g] = ProcOf[h]

\* In one process a call finds the path as its own read left it: an active
\* lease, if any, is the caller's, and between unlink and write nobody has
\* one.
SoleCaller ==
  \A p \in Processes :
    /\ pc[p] \in {"unlink", "remove"} /\ Active(file) => file.holder = caller[p]
    /\ pc[p] \in {"create", "write"} => \A h \in Holders : grant[h] = 0
    /\ pc[p] = "create" => file = Missing
    /\ pc[p] = "write" => file = Empty(caller[p])

ExclusiveInv == LeaseInv /\ GrantIsOnFile /\ SoleCaller

LEMMA ExclusiveInit == Init => ExclusiveInv
BY InitInv DEF Init, ExclusiveInv, GrantIsOnFile, SoleCaller, Active, Missing, File

\* ExclusiveInv is inductive on one process.
LEMMA ExclusiveStep == ASSUME OneProcessHost
                       PROVE  ExclusiveInv /\ [Next]_vars => ExclusiveInv'
<1> SUFFICES ASSUME ExclusiveInv, [Next]_vars PROVE (GrantIsOnFile /\ SoleCaller)'
  BY StepInv DEF ExclusiveInv
<1>0. \A p, q \in Processes : pc[p] # "idle" /\ pc[q] # "idle" => p = q
  BY DEF OneProcessHost, ExclusiveInv, LeaseInv, CallsInOrder
<1> USE DEF ExclusiveInv, LeaseInv, TypeOK, FileNamed, CallsInOrder, FileType, File, Missing,
            Empty, LeaseOf, Return, Forfeit, Idle, Active, GrantIsOnFile, SoleCaller,
            Leased, ReadLease, OneProcessHost
<1>1. ASSUME NEW p \in Processes, AcquireUnlink(p) PROVE (GrantIsOnFile /\ SoleCaller)'
  BY <1>0, <1>1 DEF AcquireUnlink
<1>2. ASSUME NEW p \in Processes, AcquireCreate(p) PROVE (GrantIsOnFile /\ SoleCaller)'
  BY <1>0, <1>2 DEF AcquireCreate
<1>3. ASSUME NEW p \in Processes, AcquireCollides(p) PROVE (GrantIsOnFile /\ SoleCaller)'
  BY <1>0, <1>3 DEF AcquireCollides
<1>4. ASSUME NEW p \in Processes, AcquireWrite(p) PROVE (GrantIsOnFile /\ SoleCaller)'
  BY <1>0, <1>4 DEF AcquireWrite
<1>5. ASSUME NEW p \in Processes, ReleaseUnlink(p) PROVE (GrantIsOnFile /\ SoleCaller)'
  BY <1>0, <1>5 DEF ReleaseUnlink
<1>6. ASSUME NEW p \in Processes, Crash(p) PROVE (GrantIsOnFile /\ SoleCaller)'
  BY <1>0, <1>6 DEF Crash
<1>7. ASSUME NEW p \in Processes, NEW h \in Holders, AcquireRefused(p, h) \/ ReleaseNothing(p, h)
      PROVE (GrantIsOnFile /\ SoleCaller)'
  BY <1>0, <1>7 DEF AcquireRefused, ReleaseNothing, Blocks
<1>8. ASSUME NEW p \in Processes, NEW h \in Holders, AcquireRead(p, h) \/ ReleaseRead(p, h)
      PROVE (GrantIsOnFile /\ SoleCaller)'
  BY <1>0, <1>8 DEF AcquireRead, ReleaseRead, Blocks
<1>9. CASE Tick
  BY <1>0, <1>9 DEF Tick, Decayed
<1>10. CASE UNCHANGED vars
  BY <1>10 DEF vars
<1>11. QED
  BY <1>1, <1>2, <1>3, <1>4, <1>5, <1>6, <1>7, <1>8, <1>9, <1>10
     DEF Next, Continue, Call

\* Two holders in one process never hold unexpired leases on a board at the
\* same time, and what each was told is what the file says.
THEOREM ExclusiveInOneProcess ==
  ASSUME OneProcessHost PROVE Spec => [](MutualExclusion /\ GrantIsOnFile)
<1>1. ExclusiveInv => MutualExclusion /\ GrantIsOnFile
  BY DEF ExclusiveInv, GrantIsOnFile, MutualExclusion, Leased
<1>2. QED
  BY ExclusiveInit, ExclusiveStep, <1>1, PTL DEF Spec

-----------------------------------------------------------------------------
\* In one process the leases implement the abstract lock with expiry.
THEOREM LeasesImplementLock == ASSUME OneProcessHost PROVE Spec => ImplementsLock
<1>1. Init => Lock!Init
  BY DEF Init, Lock!Init
<1>2. ExclusiveInv /\ [Next]_vars => [Lock!Next]_grant
  <2> SUFFICES ASSUME ExclusiveInv, [Next]_vars PROVE [Lock!Next]_grant
    OBVIOUS
  <2> USE DEF ExclusiveInv, LeaseInv, TypeOK
  <2>1. ASSUME NEW h \in Holders, Forfeit(h) PROVE Lock!Next
    <3>1. Lock!Drop({h})
      BY <2>1 DEF Forfeit, Lock!Drop
    <3>2. QED
      BY <3>1 DEF Lock!Next
  <2>2. ASSUME NEW p \in Processes, AcquireUnlink(p) \/ ReleaseUnlink(p) PROVE Lock!Next
    BY <2>1, <2>2 DEF AcquireUnlink, ReleaseUnlink, CallsInOrder
  <2>3. ASSUME NEW p \in Processes, AcquireCreate(p) \/ AcquireCollides(p)
        PROVE UNCHANGED grant
    BY <2>3 DEF AcquireCreate, AcquireCollides
  <2>4. ASSUME NEW p \in Processes, AcquireWrite(p) PROVE Lock!Next
    <3>1. caller[p] \in Holders
      BY <2>4 DEF AcquireWrite, CallsInOrder
    <3>2. Lock!Grant(caller[p])
      BY <2>4, <3>1 DEF AcquireWrite, SoleCaller, Lock!Grant
    <3>3. QED
      BY <3>1, <3>2 DEF Lock!Next
  <2>5. ASSUME NEW p \in Processes, Crash(p) PROVE Lock!Next
    <3>1. Lock!Drop({h \in Holders : ProcOf[h] = p})
      BY <2>5 DEF Crash, Lock!Drop
    <3>2. QED
      BY <3>1 DEF Lock!Next
  <2>6. ASSUME NEW p \in Processes, NEW h \in Holders, Call(p, h)
        PROVE [Lock!Next]_grant
    BY <2>1, <2>6 DEF Call, AcquireRefused, AcquireRead, ReleaseNothing, ReleaseRead
  <2>7. CASE Tick
    BY <2>7 DEF Tick, Decayed, Lock!Next, Lock!Tick
  <2>8. CASE UNCHANGED vars
    BY <2>8 DEF vars
  <2>9. QED
    BY <2>2, <2>3, <2>4, <2>5, <2>6, <2>7, <2>8 DEF Next, Continue
<1>3. QED
  BY ExclusiveInit, ExclusiveStep, <1>1, <1>2, PTL DEF Spec, ImplementsLock, Lock!Spec

-----------------------------------------------------------------------------
\* The farm.

LEMMA Limits ==
  /\ {TTL, Unbounded, ConnectTimeout, KillAfter, ClientGrace, Latency} \subseteq Nat
  /\ Unbounded > TTL /\ Latency + KillAfter <= ClientGrace
  /\ \A t \in Timeouts : t \in Nat /\ Latency + t + KillAfter < Unbounded
BY LeaseAssumption, FarmAssumption DEF Unbounded

Calls == [stage : {"idle", "connecting", "running"}, tool : Tools \cup {"none"},
          timeout : Nat, left : Nat]

FarmType ==
  call \in [Holders -> Calls] /\ remote \in [Holders -> Nat] /\ stray \in [Holders -> Nat]

\* Only a call that is being awaited has a command on the board, and a watchdogged one
\* has at most as long to run as its client has left to wait.
Watched(h) ==
  /\ call[h].stage = "connecting" /\ call[h].tool = "exec" => call[h].timeout \in Timeouts
  /\ call[h].stage # "running" => remote[h] = 0
  /\ call[h].stage = "running" => call[h].tool \in Tools
  /\ call[h].stage = "running" /\ call[h].tool = "exec" =>
       remote[h] <= call[h].left /\ remote[h] < Unbounded
  /\ call[h].stage = "running" /\ call[h].tool = "deploy" => remote[h] = Unbounded

FarmInv == LeaseInv /\ FarmType /\ \A h \in Holders : Watched(h)

\* Every command is given a second or more.
AllLimited == 0 \notin Timeouts

-----------------------------------------------------------------------------
\* A tool that is refused tells its holder that it has no lease, and changes nothing else.
Told(h) == ~Leased(h) /\ Forfeit(h) /\ UNCHANGED <<file, alive, pc, caller, stamp>>

\* Whatever the tools do, the lease file sees calls, crashes and the clock.
LEMMA FarmStepsAreLeaseSteps == [FarmNext]_farmVars => [Next]_vars \/ \E h \in Holders : Told(h)
<1> SUFFICES ASSUME [FarmNext]_farmVars PROVE [Next]_vars \/ \E h \in Holders : Told(h)
  OBVIOUS
<1>1. CASE LeaseStep
  BY <1>1 DEF LeaseStep, Next
<1>2. ASSUME NEW p \in Processes, FarmCrash(p) PROVE Next
  BY <1>2 DEF FarmCrash, Next
<1>3. CASE FarmTick
  BY <1>3 DEF FarmTick, Next
<1>4. ASSUME NEW h \in Holders, Operate(h) PROVE UNCHANGED vars
  BY <1>4 DEF Operate, ConnectFails, RunCommand, PutFile, CommandExits, Finish, DeadlinePasses,
     PutDone, Lost
<1>5. ASSUME NEW h \in Holders, Ask(h) PROVE Told(h) \/ UNCHANGED vars
  BY <1>5 DEF Ask, Refused, Start, Told
<1>6. CASE UNCHANGED farmVars
  BY <1>6 DEF farmVars, vars
<1>7. QED
  BY <1>1, <1>2, <1>3, <1>4, <1>5, <1>6 DEF FarmNext

LEMMA FarmKeepsLeases == LeaseInv /\ [FarmNext]_farmVars => LeaseInv'
<1>1. ASSUME LeaseInv, NEW h \in Holders, Told(h) PROVE LeaseInv'
  BY <1>1, LeaseAssumption DEF LeaseInv, TypeOK, FileNamed, CallsInOrder, Told, Forfeit
<1>2. QED
  BY <1>1, StepInv, FarmStepsAreLeaseSteps

\* While leases are asked for and given back, a claim stays, ends, or is one that was
\* not there.
LEMMA ClaimsStay ==
  ASSUME LeaseInv, LeaseStep, NEW h \in Holders
  PROVE  grant'[h] = grant[h] \/ grant'[h] = 0 \/ grant[h] = 0
<1> USE DEF LeaseInv, TypeOK, CallsInOrder, Forfeit
<1>1. ASSUME NEW p \in Processes, Continue(p)
      PROVE  grant'[h] = grant[h] \/ grant'[h] = 0 \/ grant[h] = 0
  BY <1>1 DEF Continue, AcquireUnlink, AcquireCreate, AcquireCollides, AcquireWrite, ReleaseUnlink
<1>2. ASSUME NEW p \in Processes, NEW k \in Holders, Call(p, k)
      PROVE  grant'[h] = grant[h] \/ grant'[h] = 0 \/ grant[h] = 0
  BY <1>2 DEF Call, AcquireRefused, AcquireRead, ReleaseNothing, ReleaseRead
<1>3. QED
  BY <1>1, <1>2 DEF LeaseStep

-----------------------------------------------------------------------------
LEMMA FarmStart == FarmInit => FarmInv
BY InitInv, Limits DEF FarmInit, FarmInv, FarmType, Watched, NoCall, InFlight, Calls, Tools

\* A step of one holder's call leaves the others' alone.
LEMMA OneCallMoves ==
  ASSUME FarmType, NEW h \in Holders, NEW c \in Calls, NEW n \in Nat, NEW m \in Nat,
         call' = [call EXCEPT ![h] = c], remote' = [remote EXCEPT ![h] = n],
         stray' = [stray EXCEPT ![h] = m]
  PROVE  /\ FarmType'
         /\ call'[h] = c /\ remote'[h] = n
         /\ \A g \in Holders : g # h => call'[g] = call[g] /\ remote'[g] = remote[g]
BY DEF FarmType

LEMMA WatchdogLimits ==
  ASSUME AllLimited, NEW t \in Timeouts, NEW d \in 0..Latency
  PROVE  /\ d + Watchdog(t) \in Nat /\ d + Watchdog(t) <= Deadline(t)
         /\ d + Watchdog(t) < Unbounded /\ d + Watchdog(t) > 0
         /\ d + Watchdog(t) <= Latency + t + KillAfter /\ Deadline(t) \in Nat
BY Limits DEF AllLimited, Watchdog, Deadline

LEMMA FarmStepInv == ASSUME AllLimited PROVE FarmInv /\ [FarmNext]_farmVars => FarmInv'
<1> SUFFICES ASSUME FarmInv, [FarmNext]_farmVars PROVE FarmInv'
  OBVIOUS
<1>1. LeaseInv'
  BY FarmKeepsLeases DEF FarmInv
<1>2. /\ \A h \in Holders : call[h] \in Calls /\ remote[h] \in Nat /\ stray[h] \in Nat
      /\ call = [h \in Holders |-> call[h]] /\ remote = [h \in Holders |-> remote[h]]
      /\ stray = [h \in Holders |-> stray[h]]
  BY DEF FarmInv, FarmType
<1>3. NoCall \in Calls /\ NoCall.stage = "idle"
  BY DEF NoCall, InFlight, Calls
<1>4. ASSUME NEW h \in Holders, NEW m \in Nat, End(h), stray' = [stray EXCEPT ![h] = m],
             remote' = [remote EXCEPT ![h] = 0]
      PROVE  FarmInv'
  <2>1. /\ FarmType'
        /\ call'[h] = NoCall /\ remote'[h] = 0
        /\ \A g \in Holders : g # h => call'[g] = call[g] /\ remote'[g] = remote[g]
    BY <1>3, <1>4, OneCallMoves DEF End, FarmInv
  <2>2. \A g \in Holders : Watched(g)'
    BY <1>3, <2>1 DEF FarmInv, Watched
  <2>3. QED
    BY <1>1, <2>1, <2>2 DEF FarmInv
<1>5. ASSUME NEW h \in Holders, ConnectFails(h) \/ Finish(h) \/ Refused(h) PROVE FarmInv'
  <2>1. remote[h] = 0
    BY <1>3, <1>5 DEF ConnectFails, Finish, Refused, Free, FarmInv, Watched
  <2>2. remote' = [remote EXCEPT ![h] = 0] /\ stray' = [stray EXCEPT ![h] = stray[h]] /\ End(h)
    BY <1>2, <1>5, <2>1 DEF ConnectFails, Finish, Refused
  <2>3. QED
    BY <1>2, <1>4, <2>2
<1>6. ASSUME NEW h \in Holders, DeadlinePasses(h) PROVE FarmInv'
  <2>1. remote[h] = 0
    BY <1>2, <1>6 DEF DeadlinePasses, FarmInv, Watched
  <2>2. remote' = [remote EXCEPT ![h] = 0] /\ stray' = [stray EXCEPT ![h] = stray[h]] /\ End(h)
    BY <1>2, <1>6, <2>1 DEF DeadlinePasses
  <2>3. QED
    BY <1>2, <1>4, <2>2
<1>7. ASSUME NEW h \in Holders, PutDone(h) \/ Lost(h) PROVE FarmInv'
  <2>1. Left(h) \in Nat
    BY <1>2 DEF Left
  <2>2. /\ remote' = [remote EXCEPT ![h] = 0] /\ End(h)
        /\ stray' = [stray EXCEPT ![h] = stray[h]] \/ stray' = [stray EXCEPT ![h] = Left(h)]
    BY <1>2, <1>7 DEF PutDone, Lost
  <2>3. QED
    BY <1>2, <1>4, <2>1, <2>2
<1>8. ASSUME NEW h \in Holders, CommandExits(h) PROVE FarmInv'
  <2>1. UNCHANGED call
    BY <1>8 DEF CommandExits
  <2>2. FarmType'
    BY <1>8, <2>1 DEF CommandExits, FarmInv, FarmType
  <2>3. \A g \in Holders : remote'[g] = remote[g] \/ (remote'[g] = 0 /\ call[g].tool = "exec")
    BY <1>2, <1>8 DEF CommandExits
  <2>4. \A g \in Holders : Watched(g)'
    BY <1>2, <2>1, <2>3, Limits DEF FarmInv, Watched, Calls
  <2>5. QED
    BY <1>1, <2>2, <2>4 DEF FarmInv
<1>9. ASSUME NEW h \in Holders, RunCommand(h) PROVE FarmInv'
  <2>1. PICK d \in 0..Latency : remote' = [remote EXCEPT ![h] = d + Watchdog(call[h].timeout)]
    BY <1>9 DEF RunCommand
  <2> DEFINE t == call[h].timeout
             n == d + Watchdog(t)
             c == InFlight("running", "exec", 0, Deadline(t))
  <2>2. t \in Timeouts /\ call[h].tool = "exec"
    BY <1>9 DEF RunCommand, FarmInv, Watched
  <2>3. n \in Nat /\ n <= Deadline(t) /\ n < Unbounded /\ Deadline(t) \in Nat
    BY <2>2, WatchdogLimits
  <2>4. /\ call' = [call EXCEPT ![h] = c] /\ remote' = [remote EXCEPT ![h] = n]
        /\ stray' = [stray EXCEPT ![h] = stray[h]]
    BY <1>2, <1>9, <2>1, <2>2 DEF RunCommand
  <2>5. c \in Calls /\ c.stage = "running" /\ c.tool = "exec" /\ c.left = Deadline(t)
    BY <2>3 DEF InFlight, Calls, Tools
  <2> HIDE DEF n, c, t
  <2>6. /\ FarmType' /\ call'[h] = c /\ remote'[h] = n
        /\ \A g \in Holders : g # h => call'[g] = call[g] /\ remote'[g] = remote[g]
    BY <1>2, <2>3, <2>4, <2>5, OneCallMoves DEF FarmInv
  <2>7. \A g \in Holders : Watched(g)'
    BY <2>3, <2>5, <2>6 DEF FarmInv, Watched, Tools
  <2>8. QED
    BY <1>1, <2>6, <2>7 DEF FarmInv
<1>10. ASSUME NEW h \in Holders, PutFile(h) PROVE FarmInv'
  <2> DEFINE c == InFlight("running", "deploy", 0, 0)
  <2>1. /\ call' = [call EXCEPT ![h] = c] /\ remote' = [remote EXCEPT ![h] = Unbounded]
        /\ stray' = [stray EXCEPT ![h] = stray[h]]
    BY <1>2, <1>10 DEF PutFile
  <2>2. c \in Calls /\ c.stage = "running" /\ c.tool = "deploy"
    BY DEF InFlight, Calls, Tools
  <2>3. Unbounded \in Nat
    BY Limits
  <2> HIDE DEF c
  <2>4. /\ FarmType' /\ call'[h] = c /\ remote'[h] = Unbounded
        /\ \A g \in Holders : g # h => call'[g] = call[g] /\ remote'[g] = remote[g]
    BY <1>2, <2>1, <2>2, <2>3, OneCallMoves DEF FarmInv
  <2>5. \A g \in Holders : Watched(g)'
    BY <2>2, <2>4 DEF FarmInv, Watched, Tools
  <2>6. QED
    BY <1>1, <2>4, <2>5 DEF FarmInv
<1>11. ASSUME NEW h \in Holders, NEW tool \in Tools, NEW t,
              t \in Timeouts \/ (tool = "deploy" /\ t = 0), Start(h, tool, t)
       PROVE  FarmInv'
  <2> DEFINE c == InFlight("connecting", tool, t, ConnectTimeout)
  <2>1. remote[h] = 0
    BY <1>3, <1>11 DEF Start, Free, FarmInv, Watched
  <2>2. /\ call' = [call EXCEPT ![h] = c] /\ remote' = [remote EXCEPT ![h] = 0]
        /\ stray' = [stray EXCEPT ![h] = stray[h]]
    BY <1>2, <1>11, <2>1 DEF Start
  <2>3. c \in Calls /\ c.stage = "connecting" /\ c.tool = tool /\ c.timeout = t
    <3>1. t \in Nat /\ ConnectTimeout \in Nat
      BY <1>11, Limits
    <3>2. QED
      BY <1>11, <3>1 DEF InFlight, Calls
  <2> HIDE DEF c
  <2>4. /\ FarmType' /\ call'[h] = c /\ remote'[h] = 0
        /\ \A g \in Holders : g # h => call'[g] = call[g] /\ remote'[g] = remote[g]
    BY <1>2, <2>2, <2>3, OneCallMoves DEF FarmInv
  <2>5. \A g \in Holders : Watched(g)'
    BY <1>11, <2>3, <2>4 DEF FarmInv, Watched
  <2>6. QED
    BY <1>1, <2>4, <2>5 DEF FarmInv
<1>12. ASSUME NEW p \in Processes, FarmCrash(p) PROVE FarmInv'
  <2>1. \A h \in Holders : Left(h) \in Nat
    BY <1>2 DEF Left
  <2>2. FarmType'
    BY <1>2, <1>3, <1>12, <2>1 DEF FarmCrash, FarmType
  <2>3. \A h \in Holders : \/ call'[h] = NoCall /\ remote'[h] = 0
                           \/ call'[h] = call[h] /\ remote'[h] = remote[h]
    BY <1>12 DEF FarmCrash
  <2>4. \A h \in Holders : Watched(h)'
    BY <1>3, <2>3 DEF FarmInv, Watched
  <2>5. QED
    BY <1>1, <2>2, <2>4 DEF FarmInv
<1>13. CASE FarmTick
  <2>1. \A n \in Nat : Shrunk(n) \in Nat /\ Decayed(n) \in Nat
                     /\ (n >= Unbounded => Shrunk(n) = n)
                     /\ (n < Unbounded => Shrunk(n) = Decayed(n) /\ Decayed(n) <= n)
    BY Limits DEF Shrunk, Decayed
  <2>2. \A h \in Holders :
          /\ call'[h] = [call[h] EXCEPT !.left = Decayed(call[h].left)]
          /\ remote'[h] = Shrunk(remote[h]) /\ stray'[h] = Shrunk(stray[h])
    BY <1>13 DEF FarmTick
  <2>3. \A h \in Holders :
          /\ call'[h] \in Calls
          /\ call'[h].stage = call[h].stage /\ call'[h].tool = call[h].tool
          /\ call'[h].timeout = call[h].timeout /\ call'[h].left = Decayed(call[h].left)
    <3>1. \A c \in Calls : c.left \in Nat
      BY DEF Calls
    <3>2. \A c \in Calls, n \in Nat :
            /\ [c EXCEPT !.left = n] \in Calls
            /\ [c EXCEPT !.left = n].stage = c.stage /\ [c EXCEPT !.left = n].tool = c.tool
            /\ [c EXCEPT !.left = n].timeout = c.timeout /\ [c EXCEPT !.left = n].left = n
      BY DEF Calls
    <3>3. TAKE h \in Holders
    <3> DEFINE c == call[h]
               n == Decayed(call[h].left)
    <3>4. c \in Calls /\ n \in Nat /\ call'[h] = [c EXCEPT !.left = n]
      BY <1>2, <2>1, <2>2, <3>1
    <3> HIDE DEF c, n
    <3>5. /\ call'[h] \in Calls /\ call'[h].stage = c.stage /\ call'[h].tool = c.tool
          /\ call'[h].timeout = c.timeout /\ call'[h].left = n
      BY <3>2, <3>4
    <3>6. QED
      BY <3>5 DEF c, n
  <2>4. FarmType'
    <3>1. /\ \A h \in Holders : remote'[h] \in Nat /\ stray'[h] \in Nat
      BY <1>2, <2>1, <2>2
    <3>2. /\ call' = [h \in Holders |-> call'[h]] /\ remote' = [h \in Holders |-> remote'[h]]
          /\ stray' = [h \in Holders |-> stray'[h]]
      BY <1>13 DEF FarmTick
    <3>3. QED
      BY <2>3, <3>1, <3>2 DEF FarmType
  <2>5. ASSUME NEW h \in Holders PROVE Watched(h)'
    <3>1. Watched(h)
      BY DEF FarmInv
    <3>2. call[h].left \in Nat
      BY <1>2 DEF Calls
    <3>3. Unbounded \in Nat /\ Unbounded > 0
      BY LeaseAssumption DEF Unbounded
    <3>4. \A m, n \in Nat : m <= n => Decayed(m) <= Decayed(n)
      BY DEF Decayed
    <3>5. remote[h] = 0 => remote'[h] = 0
      BY <2>2, <3>3 DEF Shrunk, Decayed
    <3>6. CASE call[h].stage = "running" /\ call[h].tool = "exec"
      <4>1. remote[h] \in Nat /\ remote[h] <= call[h].left /\ remote[h] < Unbounded
        BY <1>2, <3>1, <3>6 DEF Watched
      <4>2. remote'[h] = Decayed(remote[h]) /\ remote'[h] <= remote[h] /\ remote'[h] \in Nat
        <5>1. remote'[h] = Shrunk(remote[h])
          BY <2>2
        <5>2. Shrunk(remote[h]) = Decayed(remote[h])
          BY <3>3, <4>1 DEF Shrunk
        <5>3. Decayed(remote[h]) \in Nat /\ Decayed(remote[h]) <= remote[h]
          BY <4>1 DEF Decayed
        <5>4. QED
          BY <5>1, <5>2, <5>3
      <4>3. remote'[h] <= call'[h].left /\ remote'[h] < Unbounded
        BY <2>3, <3>2, <3>3, <3>4, <4>1, <4>2
      <4>4. QED
        BY <2>3, <3>6, <4>3 DEF Watched, Tools
    <3>7. CASE ~(call[h].stage = "running" /\ call[h].tool = "exec")
      <4>1. call[h].stage = "running" /\ call[h].tool = "deploy" => remote'[h] = Unbounded
        <5>1. Shrunk(Unbounded) = Unbounded
          BY <2>1, <3>3
        <5>2. QED
          BY <2>2, <3>1, <5>1 DEF Watched
      <4>2. QED
        BY <2>3, <3>1, <3>5, <3>7, <4>1 DEF Watched
    <3>8. QED
      BY <3>6, <3>7
  <2>6. QED
    BY <1>1, <2>4, <2>5 DEF FarmInv
<1>14. CASE LeaseStep \/ UNCHANGED farmVars
  <2>1. UNCHANGED <<call, remote, stray>>
    BY <1>14 DEF LeaseStep, farmVars
  <2>2. QED
    BY <1>1, <2>1 DEF FarmInv, FarmType, Watched
<1>15. QED
  BY <1>5, <1>6, <1>7, <1>8, <1>9, <1>10, <1>11, <1>12, <1>13, <1>14
     DEF FarmNext, Operate, Ask, Tools

-----------------------------------------------------------------------------
\* THEOREM.  A tool that has answered, even because its deadline passed, has left nothing
\* running on the board: for any commands of a second and more, on any number of holders.
THEOREM NothingLeftBehind == ASSUME AllLimited PROVE FarmSpec => []NoStrayAfterAnswer
<1>1. FarmInv => NoStrayAfterAnswer
  BY DEF FarmInv, FarmType, Watched, NoStrayAfterAnswer
<1>2. QED
  BY FarmStart, FarmStepInv, <1>1, PTL DEF FarmSpec

\* What a covered operation is doing, and how much longer it can take.
LEMMA CoveredIsLimited ==
  ASSUME FarmInv, NEW h \in Holders, Covered(h)
  PROVE  /\ call[h].tool = "exec" /\ grant[h] \in Nat /\ grant[h] > 0 /\ grant[h] <= TTL
         /\ \/ call[h].stage = "connecting" /\ call[h].timeout \in Timeouts
            \/ call[h].stage = "running" /\ remote[h] > 0
<1>1. /\ grant[h] \in 0..TTL /\ remote[h] \in Nat /\ call[h] \in Calls /\ Watched(h) /\ TTL \in Nat
      /\ Unbounded \in Nat /\ Unbounded > TTL
  BY Limits DEF FarmInv, FarmType, LeaseInv, TypeOK
<1>2. CASE call[h].stage = "connecting" /\ call[h].tool = "exec"
  <2>1. /\ call[h].timeout \in Timeouts /\ call[h].timeout \in Nat /\ call[h].left \in Nat
        /\ Latency \in Nat /\ KillAfter \in Nat
    BY <1>1, <1>2, Limits DEF Watched, Calls
  <2>2. Budget(h) = call[h].left + Latency + call[h].timeout + KillAfter
    BY <1>2 DEF Budget
  <2>3. QED
    BY <1>1, <1>2, <2>1, <2>2 DEF Covered
<1>3. CASE ~(call[h].stage = "connecting" /\ call[h].tool = "exec")
  <2>1. Budget(h) = remote[h]
    BY <1>3 DEF Budget
  <2>2. remote[h] > 0 /\ grant[h] >= remote[h] /\ grant[h] <= TTL
    BY <1>1, <2>1 DEF Covered
  <2>3. call[h].stage = "running" /\ call[h].tool = "exec"
    BY <1>1, <2>2 DEF Watched, Tools
  <2>4. QED
    BY <1>1, <2>2, <2>3
<1>4. QED
  BY <1>2, <1>3

\* THEOREM.  An operation begun with enough of its lease left stays covered while it
\* connects, runs and waits, unless it ends or its holder's claim does: for any commands
\* of a second and more, whatever other holders and processes do meanwhile.
THEOREM CoverageHolds == ASSUME AllLimited PROVE FarmSpec => CoverageIsKept
<1> DEFINE Kept(h) == Covered(h)' \/ Budget(h)' = 0 \/ grant'[h] = 0
<1>1. ASSUME FarmInv, FarmInv', [FarmNext]_farmVars, NEW h \in Holders, Covered(h)
      PROVE  Kept(h)
  <2> USE <1>1
  <2>1. /\ call[h].tool = "exec" /\ grant[h] \in Nat /\ grant[h] > 0 /\ grant[h] <= TTL
        /\ \/ call[h].stage = "connecting" /\ call[h].timeout \in Timeouts
           \/ call[h].stage = "running" /\ remote[h] > 0
    BY CoveredIsLimited
  <2>2. /\ call[h] \in Calls /\ call[h].left \in Nat /\ remote[h] \in Nat /\ Watched(h)
        /\ call = [k \in Holders |-> call[k]] /\ remote = [k \in Holders |-> remote[k]]
        /\ grant = [k \in Holders |-> grant[k]] /\ stray = [k \in Holders |-> stray[k]]
    BY DEF FarmInv, FarmType, Calls, LeaseInv, TypeOK
  <2>3. NoCall.stage = "idle" /\ call[h] # NoCall
    BY <2>1 DEF NoCall, InFlight
  <2>4. ASSUME call'[h] = call[h], remote'[h] = remote[h], grant'[h] = grant[h] PROVE Kept(h)
    BY <2>4 DEF Covered, Budget
  <2>5. ASSUME call'[h] = NoCall, remote'[h] = 0 PROVE Kept(h)
    BY <2>3, <2>5 DEF Budget
  <2>6. CASE LeaseStep
    <3>1. grant'[h] = grant[h] \/ grant'[h] = 0
      BY <2>1, <2>6, ClaimsStay DEF FarmInv
    <3>2. UNCHANGED <<call, remote>>
      BY <2>6 DEF LeaseStep
    <3>3. QED
      BY <2>4, <3>1, <3>2
  <2>7. ASSUME NEW p \in Processes, FarmCrash(p) PROVE Kept(h)
    <3>1. CASE ProcOf[h] = p
      BY <2>7, <3>1 DEF FarmCrash, Crash
    <3>2. CASE ProcOf[h] # p
      BY <2>4, <2>7, <3>2 DEF FarmCrash, Crash
    <3>3. QED
      BY <3>1, <3>2
  <2>8. ASSUME NEW k \in Holders, k # h, Ask(k) \/ Operate(k) PROVE Kept(h)
    <3>1. ASSUME Ask(k) PROVE call'[h] = call[h] /\ remote'[h] = remote[h] /\ grant'[h] = grant[h]
      BY <2>2, <2>8, <3>1 DEF Ask, Refused, Start, End, Forfeit, vars
    <3>2. ASSUME Operate(k) PROVE call'[h] = call[h] /\ remote'[h] = remote[h] /\ grant'[h] = grant[h]
      BY <2>2, <2>8, <3>2 DEF Operate, ConnectFails, RunCommand, PutFile, CommandExits, Finish,
         DeadlinePasses, PutDone, Lost, End, vars
    <3>3. QED
      BY <2>4, <2>8, <3>1, <3>2
  <2>9. ~Ask(h)
    BY <2>3 DEF Ask, Refused, Start, Free
  <2>10. ASSUME ConnectFails(h) \/ Lost(h) PROVE Kept(h)
    <3>1. call'[h] = NoCall
      BY <2>2, <2>10 DEF ConnectFails, Lost, End
    <3>2. remote'[h] = 0
      BY <2>2, <2>10 DEF ConnectFails, Lost, Watched
    <3>3. QED
      BY <2>5, <3>1, <3>2
  <2>11. ASSUME RunCommand(h) PROVE Kept(h)
    <3> DEFINE t == call[h].timeout
               c == InFlight("running", "exec", 0, Deadline(t))
    <3>1. PICK d \in 0..Latency : remote' = [remote EXCEPT ![h] = d + Watchdog(call[h].timeout)]
      BY <2>11 DEF RunCommand
    <3>2. t \in Timeouts /\ call[h].stage = "connecting"
      BY <2>1, <2>11 DEF RunCommand
    <3>3. d + Watchdog(t) \in Nat /\ d + Watchdog(t) > 0 /\ d + Watchdog(t) <= Latency + t + KillAfter
      BY <3>2, WatchdogLimits
    <3>4. call'[h] = c /\ remote'[h] = d + Watchdog(t)
      BY <2>1, <2>2, <2>11, <3>1 DEF RunCommand
    <3>5. c.stage = "running"
      BY DEF InFlight
    <3>6. grant'[h] = grant[h]
      BY <2>11 DEF RunCommand, vars
    <3>7. Budget(h) = call[h].left + Latency + t + KillAfter
      BY <2>1, <3>2 DEF Budget
    <3> HIDE DEF c
    <3>8. Budget(h)' = d + Watchdog(t)
      BY <3>4, <3>5 DEF Budget
    <3>9. Latency \in Nat /\ KillAfter \in Nat /\ t \in Nat /\ grant[h] >= Budget(h)
      BY <3>2, Limits DEF Covered
    <3> HIDE DEF t
    <3>10. grant'[h] >= Budget(h)' /\ Budget(h)' > 0
      BY <2>1, <2>2, <3>3, <3>6, <3>7, <3>8, <3>9
    <3>11. QED
      BY <3>10 DEF Covered
  <2>12. ~PutFile(h) /\ ~PutDone(h)
    BY <2>1 DEF PutFile, PutDone
  <2>13. ASSUME CommandExits(h) PROVE Kept(h)
    <3>1. call'[h] = call[h] /\ grant'[h] = grant[h]
      BY <2>13 DEF CommandExits, vars
    <3>2. CASE UNCHANGED remote
      BY <2>4, <3>1, <3>2
    <3>3. CASE remote[h] > 0 /\ remote' = [remote EXCEPT ![h] = 0]
      <4>1. call[h].stage = "running" /\ remote'[h] = 0
        BY <2>2, <3>3 DEF Watched
      <4>2. QED
        BY <3>1, <4>1 DEF Budget
    <3>4. QED
      BY <2>13, <3>2, <3>3 DEF CommandExits
  <2>14. ~Finish(h) /\ ~DeadlinePasses(h)
    BY <2>1, <2>2 DEF Finish, DeadlinePasses, Watched
  <2>15. CASE FarmTick
    <3>1. grant'[h] = grant[h] - 1 /\ remote'[h] = Shrunk(remote[h])
          /\ call'[h] = [call[h] EXCEPT !.left = Decayed(call[h].left)] /\ ~Due(h)
      BY <2>1, <2>15 DEF FarmTick, Tick, Decayed
    <3>2. /\ call'[h].stage = call[h].stage /\ call'[h].tool = call[h].tool
          /\ call'[h].timeout = call[h].timeout /\ call'[h].left = Decayed(call[h].left)
      BY <2>2, <3>1 DEF Calls
    <3>3. CASE call[h].stage = "connecting"
      <4>1. /\ call[h].timeout \in Nat /\ call[h].timeout > 0 /\ Latency \in Nat /\ KillAfter \in Nat
        BY <2>1, <3>3, Limits DEF AllLimited
      <4>2. Budget(h) = call[h].left + Latency + call[h].timeout + KillAfter
        BY <2>1, <3>3 DEF Budget
      <4>3. call'[h].left = call[h].left - 1 /\ call[h].left > 0
        BY <2>2, <3>1, <3>2, <3>3 DEF Due, Decayed
      <4>4. Budget(h)' = call'[h].left + Latency + call[h].timeout + KillAfter
        BY <2>1, <3>2, <3>3 DEF Budget
      <4>5. grant[h] >= Budget(h)
        BY DEF Covered
      <4>6. grant'[h] >= Budget(h)' /\ Budget(h)' > 0
        BY <2>1, <2>2, <3>1, <4>1, <4>2, <4>3, <4>4, <4>5
      <4>7. QED
        BY <4>6 DEF Covered
    <3>4. CASE call[h].stage = "running"
      <4>1. remote[h] > 0 /\ remote[h] < Unbounded /\ Unbounded \in Nat
        BY <2>1, <2>2, <3>4, Limits DEF Watched
      <4>2. remote'[h] = remote[h] - 1
        BY <2>2, <3>1, <4>1 DEF Shrunk, Decayed
      <4>3. Budget(h) = remote[h] /\ Budget(h)' = remote'[h]
        BY <3>2, <3>4 DEF Budget
      <4>4. grant[h] >= Budget(h)
        BY DEF Covered
      <4>5. Budget(h)' = 0 \/ (grant'[h] >= Budget(h)' /\ Budget(h)' > 0)
        BY <2>1, <2>2, <3>1, <4>1, <4>2, <4>3, <4>4
      <4>6. QED
        BY <4>5 DEF Covered
    <3>5. QED
      BY <2>1, <3>3, <3>4
  <2>16. CASE UNCHANGED farmVars
    BY <2>4, <2>16 DEF farmVars
  <2>17. QED
    BY <2>6, <2>7, <2>8, <2>9, <2>10, <2>11, <2>12, <2>13, <2>14, <2>15, <2>16
       DEF FarmNext, Operate
<1>2. FarmInv /\ FarmInv' /\ [FarmNext]_farmVars
        => [\A h \in Holders : Covered(h) => Covered(h)' \/ Budget(h)' = 0 \/ grant'[h] = 0]_farmVars
  BY <1>1
<1>3. QED
  BY FarmStart, FarmStepInv, <1>2, PTL DEF FarmSpec, CoverageIsKept

-----------------------------------------------------------------------------
\* THEOREM.  On one process, under all the traffic of the tools, the leases are still the
\* abstract lock: what a refused tool tells its holder is what the lock already says.
THEOREM FarmImplementsLock == ASSUME OneProcessHost PROVE FarmSpec => ImplementsLock
<1>1. ASSUME ExclusiveInv, NEW h \in Holders, Told(h) PROVE UNCHANGED vars
  <2>1. grant \in [Holders -> 0..TTL] /\ ~Leased(h)
    BY <1>1 DEF ExclusiveInv, LeaseInv, TypeOK, Told
  <2>2. grant[h] = 0
    BY <1>1, <2>1, LeaseAssumption DEF ExclusiveInv, GrantIsOnFile
  <2>3. grant' = grant
    BY <1>1, <2>1, <2>2 DEF Told, Forfeit
  <2>4. QED
    BY <1>1, <2>3 DEF Told, vars
<1>2. ExclusiveInv /\ [FarmNext]_farmVars => [Next]_vars
  BY <1>1, FarmStepsAreLeaseSteps
<1>3. ExclusiveInv /\ [FarmNext]_farmVars => ExclusiveInv'
  <2>1. ExclusiveInv /\ [Next]_vars => ExclusiveInv'
    BY ExclusiveStep
  <2>2. QED
    BY <1>2, <2>1
<1>4. FarmInit => Init /\ ExclusiveInv
  BY ExclusiveInit DEF FarmInit
<1>5. FarmSpec => Spec
  BY <1>2, <1>3, <1>4, PTL DEF FarmSpec, Spec
<1>6. QED
  BY <1>5, LeasesImplementLock, PTL
=============================================================================
