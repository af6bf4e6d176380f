---------------------------- MODULE ThermalProfile ----------------------------
(***************************************************************************)
(* evals/thermal_envelope.py: ThermalEnvelopeProfiler.run over one SSH      *)
(* connection (BoardLink).  It reads the board's power mode, runs the       *)
(* workload once in each requested mode, and puts the mode it read back in  *)
(* a finally block.                                                         *)
(* A command on a wedged board may have been carried out although its       *)
(* answer never came (BoardError); on a lost connection it raises           *)
(* asyncssh.Error; and the run may be cancelled wherever it awaits.         *)
(***************************************************************************)
EXTENDS BoardLink, Integers, Sequences

CONSTANTS
  PowerModes,  \* nvpmodel ids of the board
  Plans,       \* the mode lists a profile can be asked for
  Current,     \* PowerMode(id=-1): profile whatever mode is set
  NoMode       \* None

ASSUME ProfileAssumption ==
  /\ Current \notin PowerModes /\ NoMode \notin PowerModes
  /\ Plans \subseteq Seq(PowerModes \cup {Current}) \ {<<>>}

VARIABLES
  at,          \* where run is
  plan,        \* the modes to profile
  turn,        \* the one being profiled
  power,       \* the board's power mode
  found,       \* its mode before the profile
  original,    \* what the profiler read of it
  note,        \* _set_mode reported a failure
  entries,     \* the profiled modes: [mode, note, ran]
  restored     \* what came of the restoring command

profile == <<at, plan, turn, power, found, original, note, entries, restored>>
profileVars == <<link, profile>>

-----------------------------------------------------------------------------
Ended == at \in {"over", "raised"}
Asked == plan[turn]

ProfileInit ==
  /\ link = "up"
  /\ at = "query" /\ plan \in Plans /\ turn = 1
  /\ power \in PowerModes /\ found = power /\ original = NoMode
  /\ note = FALSE /\ entries = <<>> /\ restored = "no"

\* _current_mode: output that is no number, and BoardError, give None.
Query ==
  /\ at = "query" /\ link # "lost"
  /\ original' \in IF link = "up" THEN {power, NoMode} ELSE {NoMode}
  /\ at' = "set"
  /\ UNCHANGED <<link, plan, turn, power, found, note, entries, restored>>

QueryRaises ==
  /\ at = "query" /\ at' = "raised"
  /\ UNCHANGED <<link, plan, turn, power, found, original, note, entries, restored>>

\* What `nvpmodel -m` does to the board and what the profiler learns: it
\* works, it is refused, or the answer is missing.
Nvpmodel(mode, failed) ==
  \/ link = "up" /\ power' = mode /\ ~failed
  \/ link = "up" /\ power' = power /\ failed
  \/ link = "silent" /\ power' \in {power, mode} /\ failed

SetMode_AnyExit ==
  /\ at = "set" /\ Asked # Current
  /\ \E failed \in BOOLEAN : Nvpmodel(Asked, failed) /\ note' = FALSE
  /\ at' = "profile"
  /\ UNCHANGED <<link, plan, turn, found, original, entries, restored>>
SetMode ==
  /\ at = "set" /\ Asked # Current
  /\ \E failed \in BOOLEAN : Nvpmodel(Asked, failed) /\ note' = failed
  /\ at' = "profile"
  /\ UNCHANGED <<link, plan, turn, found, original, entries, restored>>

KeepMode ==
  /\ at = "set" /\ Asked = Current
  /\ note' = FALSE /\ at' = "profile"
  /\ UNCHANGED <<link, plan, turn, power, found, original, entries, restored>>

\* _profile_once and analyze_mode: the workload's exit status is not looked at.
ProfileMode ==
  /\ at = "profile" /\ link = "up"
  /\ entries' = Append(entries, [mode |-> Asked, note |-> note, ran |-> power])
  /\ IF turn < Len(plan)
       THEN turn' = turn + 1 /\ at' = "set"
       ELSE at' = "restore" /\ UNCHANGED turn
  /\ UNCHANGED <<link, plan, power, found, original, note, restored>>

\* An asyncssh error, the workload's BoardError or a cancellation reaches the
\* finally block; a mode being set may have been set.
Unwind ==
  /\ at \in {"set", "profile"}
  /\ power' \in {power} \cup (IF at = "set" THEN {Asked} \cap PowerModes ELSE {})
  /\ at' = "unwinding"
  /\ UNCHANGED <<link, plan, turn, found, original, note, entries, restored>>

EndProfile ==
  /\ at' = IF at = "restore" THEN "over" ELSE "raised"
  /\ UNCHANGED <<link, plan, turn, found, original, note, entries>>

\* The finally block: _set_mode's verdict is dropped.
Restore_NotOnError ==
  /\ at \in {"restore", "unwinding"} /\ original # NoMode
  /\ \/ at = "unwinding" /\ UNCHANGED <<power, restored>>
     \/ at = "restore" /\ \E failed \in BOOLEAN :
          Nvpmodel(original, failed) /\ restored' = IF failed THEN "failed" ELSE "ok"
  /\ EndProfile
Restore ==
  /\ at \in {"restore", "unwinding"} /\ original # NoMode
  /\ \E failed \in BOOLEAN :
       Nvpmodel(original, failed) /\ restored' = IF failed THEN "failed" ELSE "ok"
  /\ EndProfile

NothingToRestore ==
  /\ at \in {"restore", "unwinding"} /\ original = NoMode
  /\ EndProfile
  /\ UNCHANGED <<power, restored>>

\* The restoring command itself raises or is cancelled.
RestoreRaises ==
  /\ at \in {"restore", "unwinding"} /\ original # NoMode
  /\ restored' = "failed" /\ at' = "raised"
  /\ UNCHANGED <<link, plan, turn, power, found, original, note, entries>>

Profile ==
  \/ Query \/ QueryRaises \/ SetMode \/ KeepMode \/ ProfileMode \/ Unwind
  \/ Restore \/ NothingToRestore \/ RestoreRaises

ProfileNext == Profile \/ (LinkStep /\ UNCHANGED profile)

ProfileSpec == ProfileInit /\ [][ProfileNext]_profileVars

-----------------------------------------------------------------------------
ProfileTypeOK ==
  /\ link \in LinkStates
  /\ at \in {"query", "set", "profile", "restore", "unwinding", "over", "raised"}
  /\ plan \in Plans /\ turn \in 1..Len(plan)
  /\ power \in PowerModes /\ found \in PowerModes /\ original \in PowerModes \cup {NoMode}
  /\ note \in BOOLEAN /\ restored \in {"no", "ok", "failed"}
  /\ entries \in
       Seq([mode : PowerModes \cup {Current}, note : BOOLEAN, ran : PowerModes])

\* An envelope without a note was measured in the mode it names: a mode that
\* could not be set, or may not have been, is marked.
EnvelopesAreTrue ==
  \A i \in DOMAIN entries :
    LET e == entries[i] IN ~e.note => e.ran = e.mode \/ e.mode = Current

\* The board ends in another mode than it was found in only when that mode
\* was never read or the restoring command failed: not after a mode that
\* could not be set, an aborted profile or a cancellation.
ModeIsRestored ==
  Ended /\ power # found => original = NoMode \/ restored = "failed"
=============================================================================
