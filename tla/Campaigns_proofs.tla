-------------------------- MODULE Campaigns_proofs --------------------------
(***************************************************************************)
(* The campaigns on a board.  ThermalProfile: type correctness, that a mode *)
(* is restored whenever it can be and that an envelope without a note is    *)
(* true, for any power modes and plans.  SoakRun: what a survival and an    *)
(* anomaly say, for any schedule and window.  And both keep it side by      *)
(* side, since neither touches more of the other than the board.            *)
(***************************************************************************)
EXTENDS MCCampaigns, TLAPS

\* What a step of the profile does to the connection: nothing.
LEMMA LinkTyped == ProfileTypeOK /\ LinkStep => link' \in LinkStates
BY DEF ProfileTypeOK, LinkStep, LinkStates

\* The mode being set is one of the plan's.
LEMMA AskedTyped ==
  ASSUME ProfileTypeOK
  PROVE  Asked \in PowerModes \cup {Current}
<1>1. plan \in Seq(PowerModes \cup {Current}) /\ turn \in 1..Len(plan)
  BY ProfileAssumption DEF ProfileTypeOK
<1> QED BY <1>1 DEF Asked

\* nvpmodel leaves the board in the mode asked for or the one it was in, and
\* reports success only in the former.
LEMMA NvpmodelWorks ==
  ASSUME NEW mode, NEW failed \in BOOLEAN, Nvpmodel(mode, failed)
  PROVE  power' \in {power, mode} /\ (~failed => power' = mode)
BY DEF Nvpmodel

\* TypeOK is inductive.
LEMMA TypeStep == ProfileTypeOK /\ [ProfileNext]_profileVars => ProfileTypeOK'
<1> SUFFICES ASSUME ProfileTypeOK, [ProfileNext]_profileVars PROVE ProfileTypeOK'
  OBVIOUS
<1> USE DEF ProfileTypeOK, LinkStates
<1>0. plan \in Seq(PowerModes \cup {Current})
  BY ProfileAssumption
<1>1. CASE Query BY <1>1 DEF Query
<1>2. CASE QueryRaises BY <1>2 DEF QueryRaises
<1>3. CASE SetMode
  <2>1. Asked \in PowerModes
    BY <1>3, AskedTyped DEF SetMode
  <2>2. PICK failed \in BOOLEAN : Nvpmodel(Asked, failed) /\ note' = failed
    BY <1>3 DEF SetMode
  <2>3. power' \in PowerModes
    BY <2>1, <2>2, NvpmodelWorks
  <2> QED BY <1>3, <2>2, <2>3 DEF SetMode
<1>4. CASE KeepMode BY <1>4 DEF KeepMode
<1>5. CASE ProfileMode
  <2>1. entries' \in Seq([mode : PowerModes \cup {Current}, note : BOOLEAN, ran : PowerModes])
    <3>1. [mode |-> Asked, note |-> note, ran |-> power]
            \in [mode : PowerModes \cup {Current}, note : BOOLEAN, ran : PowerModes]
      BY AskedTyped
    <3> QED BY <1>5, <3>1 DEF ProfileMode
  <2>2. turn' \in 1..Len(plan)
    BY <1>0, <1>5 DEF ProfileMode
  <2> QED BY <1>5, <2>1, <2>2 DEF ProfileMode
<1>6. CASE Unwind BY <1>6 DEF Unwind
<1>7. CASE Restore
  <2>1. original \in PowerModes
    BY <1>7 DEF Restore
  <2>2. PICK failed \in BOOLEAN :
          Nvpmodel(original, failed) /\ restored' = IF failed THEN "failed" ELSE "ok"
    BY <1>7 DEF Restore
  <2>3. power' \in PowerModes
    BY <2>1, <2>2, NvpmodelWorks
  <2> QED BY <1>7, <2>2, <2>3 DEF Restore, EndProfile
<1>8. CASE NothingToRestore BY <1>8 DEF NothingToRestore, EndProfile
<1>9. CASE RestoreRaises BY <1>9 DEF RestoreRaises
<1>10. CASE LinkStep /\ UNCHANGED profile
  BY <1>10, LinkTyped DEF profile, LinkStates
<1>11. CASE UNCHANGED profileVars BY <1>11 DEF profileVars, profile
<1> QED
  BY <1>1, <1>2, <1>3, <1>4, <1>5, <1>6, <1>7, <1>8, <1>9, <1>10, <1>11
  DEF ProfileNext, Profile

\* ThermalProfile keeps its types.
THEOREM TypeCorrect == ProfileSpec => []ProfileTypeOK
<1>1. ProfileInit => ProfileTypeOK
  <2> SUFFICES ASSUME ProfileInit PROVE ProfileTypeOK
    OBVIOUS
  <2>1. plan \in Seq(PowerModes \cup {Current}) /\ plan # <<>>
    BY ProfileAssumption DEF ProfileInit
  <2>2. 1 \in 1..Len(plan)
    BY <2>1
  <2>3. entries \in Seq([mode : PowerModes \cup {Current}, note : BOOLEAN, ran : PowerModes])
    BY DEF ProfileInit
  <2>4. turn \in 1..Len(plan)
    BY <2>2 DEF ProfileInit
  <2>5. power \in PowerModes /\ found \in PowerModes /\ original = NoMode /\ plan \in Plans
    BY DEF ProfileInit
  <2> QED BY <2>3, <2>4, <2>5 DEF ProfileInit, ProfileTypeOK, LinkStates
<1> QED BY <1>1, TypeStep, PTL DEF ProfileSpec

-----------------------------------------------------------------------------
\* The inductive form of ModeIsRestored.  Until the query the mode is the one
\* found; what the query read stays; a run that ended without a restoring
\* command had read nothing or changed nothing.
Restorable ==
  /\ at = "query" => power = found /\ original = NoMode /\ restored = "no"
  /\ original \in {found, NoMode}
  /\ restored = "ok" => power = found
  /\ restored # "no" => Ended
  /\ Ended /\ restored = "no" => original = NoMode

LEMMA RestorableStep ==
  ProfileTypeOK /\ Restorable /\ [ProfileNext]_profileVars => Restorable'
<1> SUFFICES ASSUME ProfileTypeOK, Restorable, [ProfileNext]_profileVars
             PROVE  Restorable'
  OBVIOUS
<1> USE DEF Restorable, Ended
<1>1. CASE Query BY <1>1 DEF Query
<1>2. CASE QueryRaises BY <1>2 DEF QueryRaises
<1>3. CASE SetMode BY <1>3 DEF SetMode
<1>4. CASE KeepMode BY <1>4 DEF KeepMode
<1>5. CASE ProfileMode BY <1>5 DEF ProfileMode
<1>6. CASE Unwind BY <1>6 DEF Unwind
<1>7. CASE Restore
  <2>1. PICK failed \in BOOLEAN :
          Nvpmodel(original, failed) /\ restored' = IF failed THEN "failed" ELSE "ok"
    BY <1>7 DEF Restore
  <2>2. restored' = "ok" => power' = original
    BY <2>1, NvpmodelWorks
  <2>3. original = found
    BY <1>7 DEF Restore
  <2>4. at' \in {"over", "raised"} /\ restored' \in {"failed", "ok"}
    BY <1>7, <2>1 DEF Restore, EndProfile
  <2>5. found' = found /\ original' = original
    BY <1>7 DEF Restore, EndProfile
  <2> QED BY <2>2, <2>3, <2>4, <2>5
<1>8. CASE NothingToRestore BY <1>8 DEF NothingToRestore, EndProfile
<1>9. CASE RestoreRaises BY <1>9 DEF RestoreRaises
<1>10. CASE LinkStep /\ UNCHANGED profile BY <1>10 DEF profile
<1>11. CASE UNCHANGED profileVars BY <1>11 DEF profileVars, profile
<1> QED
  BY <1>1, <1>2, <1>3, <1>4, <1>5, <1>6, <1>7, <1>8, <1>9, <1>10, <1>11
  DEF ProfileNext, Profile

\* However a profile ends, the board is in the mode it was found in unless
\* that mode was never read or the restoring command failed: the promise of
\* the finally block (thermal_envelope.py:265-267).
THEOREM RestoresTheMode == ProfileSpec => []ModeIsRestored
<1>1. ProfileInit => Restorable
  BY DEF ProfileInit, Restorable, Ended
<1>2. ProfileTypeOK /\ Restorable => ModeIsRestored
  BY DEF ProfileTypeOK, Restorable, ModeIsRestored
<1> QED BY <1>1, <1>2, TypeCorrect, RestorableStep, PTL DEF ProfileSpec

-----------------------------------------------------------------------------
\* The inductive form of EnvelopesAreTrue: a mode about to be profiled is
\* already in force unless its note says otherwise.
Measured ==
  /\ EnvelopesAreTrue
  /\ at = "profile" /\ ~note => power = Asked \/ Asked = Current

LEMMA MeasuredStep ==
  ProfileTypeOK /\ Measured /\ [ProfileNext]_profileVars => Measured'
<1> SUFFICES ASSUME ProfileTypeOK, Measured, [ProfileNext]_profileVars
             PROVE  Measured'
  OBVIOUS
<1> USE DEF Measured, EnvelopesAreTrue, Asked
<1>1. CASE Query BY <1>1 DEF Query
<1>2. CASE QueryRaises BY <1>2 DEF QueryRaises
<1>3. CASE SetMode
  <2>1. PICK failed \in BOOLEAN : Nvpmodel(Asked, failed) /\ note' = failed
    BY <1>3 DEF SetMode
  <2>2. ~note' => power' = Asked
    BY <2>1, NvpmodelWorks
  <2> QED BY <1>3, <2>2 DEF SetMode
<1>4. CASE KeepMode BY <1>4 DEF KeepMode
<1>5. CASE ProfileMode
  <2> DEFINE e == [mode |-> Asked, note |-> note, ran |-> power]
  <2>1. entries \in Seq([mode : PowerModes \cup {Current}, note : BOOLEAN, ran : PowerModes])
    BY DEF ProfileTypeOK
  <2>2. entries' = Append(entries, e) /\ at' # "profile"
    BY <1>5 DEF ProfileMode
  <2>3. ~e.note => e.ran = e.mode \/ e.mode = Current
    BY <1>5 DEF ProfileMode
  <2>4. ASSUME NEW i \in DOMAIN entries', ~entries'[i].note
        PROVE  entries'[i].ran = entries'[i].mode \/ entries'[i].mode = Current
    <3>1. CASE i \in DOMAIN entries
      BY <2>1, <2>2, <2>4, <3>1
    <3>2. CASE i = Len(entries) + 1
      BY <2>1, <2>2, <2>3, <2>4, <3>2
    <3> QED BY <2>1, <2>2, <3>1, <3>2
  <2> QED BY <2>2, <2>4
<1>6. CASE Unwind BY <1>6 DEF Unwind
<1>7. CASE Restore BY <1>7 DEF Restore, EndProfile
<1>8. CASE NothingToRestore BY <1>8 DEF NothingToRestore, EndProfile
<1>9. CASE RestoreRaises BY <1>9 DEF RestoreRaises
<1>10. CASE LinkStep /\ UNCHANGED profile BY <1>10 DEF profile
<1>11. CASE UNCHANGED profileVars BY <1>11 DEF profileVars, profile
<1> QED
  BY <1>1, <1>2, <1>3, <1>4, <1>5, <1>6, <1>7, <1>8, <1>9, <1>10, <1>11
  DEF ProfileNext, Profile

\* An envelope that carries no note was measured in the mode it names.
THEOREM EnvelopesNameTheirMode == ProfileSpec => []EnvelopesAreTrue
<1>1. ProfileInit => Measured
  BY DEF ProfileInit, Measured, EnvelopesAreTrue
<1>2. Measured => EnvelopesAreTrue
  BY DEF Measured
<1> QED BY <1>1, <1>2, TypeCorrect, MeasuredStep, PTL DEF ProfileSpec

-----------------------------------------------------------------------------
(***************************************************************************)
(* The soak.                                                               *)
(***************************************************************************)

\* Sampling or waiting for the workload: nothing has been found wrong yet.
Sampling == stage \in {"loop", "capture", "await"}

RuleNames == {"telemetry_gap", "thermal_ceiling", "ram_ceiling", "workload_failed"}

\* While a phase goes on, all before it are completed, every window was whole and
\* within the rules, and a workload that failed is still there to be reported.
PhaseInv ==
  Sampling =>
    /\ completed = phase - 1 /\ anomaly = "none" /\ report = "none"
    /\ "window" \notin seen
    /\ "workload" \in seen => workload \in {"failed", "error"}

SoakInv ==
  /\ left \in Nat /\ window \in Nat
  /\ phase \in 1..Len(Schedule) /\ completed \in Nat /\ Len(Schedule) \in Nat
  /\ seen \subseteq {"link", "window", "workload"} /\ anomaly \in RuleNames \cup {"none"}
  /\ PhaseInv
  /\ stage = "snapshot" => report = "none"
  /\ AnomalyIsPlaced
  /\ report = "survived" => Over /\ workload # "running"
  /\ SurvivalIsEarned

LEMMA MaxOfTwo == \A x, y \in Int : Max({x, y}) \in {x, y} /\ Max({x, y}) >= x /\ Max({x, y}) >= y
<1> SUFFICES ASSUME NEW x \in Int, NEW y \in Int
             PROVE  Max({x, y}) \in {x, y} /\ Max({x, y}) >= x /\ Max({x, y}) >= y
  OBVIOUS
<1>1. \E m \in {x, y} : \A n \in {x, y} : m >= n
  OBVIOUS
<1>2. Max({x, y}) \in {x, y} /\ \A n \in {x, y} : Max({x, y}) >= n
  BY <1>1 DEF Max
<1>3. QED
  BY <1>2

LEMMA MinOfTwo == \A x, y \in Int : Min({x, y}) \in {x, y}
<1> SUFFICES ASSUME NEW x \in Int, NEW y \in Int PROVE Min({x, y}) \in {x, y}
  OBVIOUS
<1>1. \E m \in {x, y} : \A n \in {x, y} : m <= n
  OBVIOUS
<1>2. QED
  BY <1>1 DEF Min

\* A window without a fault is one that is whole, cool and has memory to spare, when a
\* window needs a sample at all.
LEMMA RuleOfWindow ==
  ASSUME MinSamples > 0, NEW s \in {0, window}, window \in Nat, NEW hot \in BOOLEAN, NEW full \in BOOLEAN
  PROVE  /\ Rule(Metrics(s, hot, full)) \in (RuleNames \cup {"none"}) \ {"workload_failed"}
         /\ Rule(Metrics(s, hot, full)) = "none" => Metrics(s, hot, full) = Metrics(window, FALSE, FALSE)
<1>1. s \in Nat /\ MinSamples \in Nat
  BY SoakAssumption
<1>2. CASE s < MinSamples
  BY <1>1, <1>2 DEF Rule, Metrics, RuleNames
<1>3. CASE ~(s < MinSamples)
  <2>1. s >= MinSamples /\ s = window
    BY <1>1, <1>3
  <2>2. CASE hot
    BY <1>3, <2>1, <2>2 DEF Rule, Metrics, RuleNames
  <2>3. CASE ~hot /\ full
    BY <1>3, <2>1, <2>3 DEF Rule, Metrics, RuleNames
  <2>4. CASE ~hot /\ ~full
    BY <1>3, <2>1, <2>4 DEF Rule, Metrics, RuleNames
  <2>5. QED
    BY <2>2, <2>3, <2>4
<1>4. QED
  BY <1>2, <1>3

LEMMA PhasesTyped ==
  /\ Len(Schedule) \in Nat /\ 1 \in 1..Len(Schedule)
  /\ \A k \in 1..Len(Schedule) : Schedule[k].time \in Nat
<1>1. Schedule \in Seq([load : BOOLEAN, time : Nat \ {0}]) /\ Schedule # <<>>
  BY SoakAssumption
<1>2. Len(Schedule) \in Nat /\ Len(Schedule) # 0 /\ DOMAIN Schedule = 1..Len(Schedule)
  BY <1>1
<1>3. \A k \in 1..Len(Schedule) : Schedule[k].time \in Nat
  <2> DEFINE Phase == [load : BOOLEAN, time : Nat \ {0}]
  <2>1. \A x \in Phase : x.time \in Nat
    OBVIOUS
  <2>2. Schedule \in Seq(Phase)
    BY <1>1
  <2> HIDE DEF Phase
  <2>3. \A k \in 1..Len(Schedule) : Schedule[k] \in Phase
    BY <2>2
  <2>4. QED
    BY <2>1, <2>3
<1>4. QED
  BY <1>2, <1>3

LEMMA SoakStart == SoakInit => SoakInv
BY PhasesTyped DEF SoakInit, SoakInv, PhaseInv, Sampling, AnomalyIsPlaced, SurvivalIsEarned, RuleNames

\* The next phase begins, or the survival is written.
LEMMA PhaseStep ==
  ASSUME SoakInv, PhaseCompleted, Sampling, workload \in {"none", "ok", "expired"}
  PROVE  SoakInv'
<1>1. /\ completed = phase - 1 /\ anomaly = "none" /\ report = "none"
      /\ "window" \notin seen /\ "workload" \notin seen /\ seen \subseteq {"link"}
      /\ phase \in 1..Len(Schedule) /\ Len(Schedule) \in Nat /\ completed \in Nat
      /\ left \in Nat /\ window \in Nat
  BY DEF SoakInv, PhaseInv
<1>2. completed' = completed + 1 /\ UNCHANGED <<link, window, anomaly, seen>>
  BY DEF PhaseCompleted
<1>3. CASE phase < Len(Schedule)
  <2>1. phase' = phase + 1 /\ left' = Schedule[phase + 1].time /\ stage' = "loop" /\ report' = report
    BY <1>3 DEF PhaseCompleted, Enter
  <2>2. phase' \in 1..Len(Schedule) /\ completed' = phase' - 1 /\ completed' \in Nat
    BY <1>1, <1>2, <1>3, <2>1
  <2>3. left' \in Nat
    BY <2>1, <2>2, PhasesTyped
  <2>4. QED
    BY <1>1, <1>2, <2>1, <2>2, <2>3
       DEF SoakInv, PhaseInv, Sampling, AnomalyIsPlaced, SurvivalIsEarned, RuleNames
<1>4. CASE ~(phase < Len(Schedule))
  <2>1. stage' = "done" /\ report' = "survived" /\ UNCHANGED <<phase, left, workload, busy>>
    BY <1>4 DEF PhaseCompleted
  <2>2. completed' = Len(Schedule) /\ completed' \in Nat
    BY <1>1, <1>2, <1>4
  <2>3. QED
    BY <1>1, <1>2, <2>1, <2>2
       DEF SoakInv, PhaseInv, Sampling, AnomalyIsPlaced, SurvivalIsEarned, RuleNames, Over
<1>5. QED
  BY <1>3, <1>4

\* A window ends.
LEMMA WindowStep ==
  ASSUME SoakInv, MinSamples > 0, NEW s \in {0, window}, NEW hot \in BOOLEAN, NEW full \in BOOLEAN,
         NEW d \in 0..Overhead, EndWindow(Metrics(s, hot, full), d)
  PROVE  SoakInv'
<1> DEFINE m == Metrics(s, hot, full)
           rule == Rule(m)
<1>1. /\ stage = "capture" /\ left' = Remaining(d) /\ anomaly' = rule
      /\ stage' = (IF rule = "none" THEN "loop" ELSE "snapshot")
      /\ seen' = (IF m = Metrics(window, FALSE, FALSE) THEN seen ELSE seen \cup {"window"})
      /\ UNCHANGED <<phase, window, workload, completed, report>>
  BY DEF EndWindow
<1>2. window \in Nat /\ left \in Nat
  BY DEF SoakInv
<1>3. rule \in RuleNames \cup {"none"} /\ (rule = "none" => m = Metrics(window, FALSE, FALSE))
  BY <1>2, RuleOfWindow
<1>4. left' \in Nat
  <2>1. d \in Nat /\ left - window - d \in Int
    BY <1>2, SoakAssumption
  <2>2. Max({0, left - window - d}) \in Int /\ Max({0, left - window - d}) >= 0
    <3> DEFINE x == left - window - d
    <3>1. x \in Int /\ 0 \in Int
      BY <2>1
    <3> HIDE DEF x
    <3>2. Max({0, x}) \in {0, x} /\ Max({0, x}) >= 0
      BY <3>1, MaxOfTwo
    <3>3. Max({0, x}) \in Int /\ Max({0, x}) >= 0
      BY <3>1, <3>2
    <3>4. QED
      BY <3>3 DEF x
  <2>3. QED
    BY <1>1, <2>2 DEF Remaining
<1>5. /\ completed = phase - 1 /\ report = "none" /\ "window" \notin seen
      /\ "workload" \in seen => workload \in {"failed", "error"}
  BY <1>1 DEF SoakInv, PhaseInv, Sampling
<1> HIDE DEF m, rule
<1>6. CASE rule = "none"
  BY <1>1, <1>3, <1>4, <1>5, <1>6
     DEF SoakInv, PhaseInv, Sampling, AnomalyIsPlaced, SurvivalIsEarned
<1>7. CASE rule # "none"
  BY <1>1, <1>3, <1>4, <1>5, <1>7
     DEF SoakInv, PhaseInv, Sampling, AnomalyIsPlaced, SurvivalIsEarned
<1>8. QED
  BY <1>6, <1>7

LEMMA SoakStep == ASSUME MinSamples > 0 PROVE SoakInv /\ [SoakNext]_soakVars => SoakInv'
<1> SUFFICES ASSUME SoakInv, [SoakNext]_soakVars PROVE SoakInv'
  OBVIOUS
<1> USE DEF SoakInv, PhaseInv, Sampling, AnomalyIsPlaced, SurvivalIsEarned
<1>1. CASE StartWindow
  <2>1. window' \in Nat
    <3>1. Min({Window, left}) \in {Window, left} /\ Window \in Nat
      BY MinOfTwo, SoakAssumption
    <3>2. QED
      BY <1>1, <3>1 DEF StartWindow
  <2>2. QED
    BY <1>1, <2>1 DEF StartWindow
<1>2. ASSUME NEW s \in {0, window}, NEW hot \in BOOLEAN, NEW full \in BOOLEAN, NEW d \in 0..Overhead,
             EndWindow(Metrics(s, hot, full), d)
      PROVE  SoakInv'
  BY <1>2, WindowStep
<1>3. CASE WindowRaises \/ SnapshotRaises \/ WorkloadRaises \/ AwaitWorkload \/ Cancelled
  BY <1>3 DEF WindowRaises, SnapshotRaises, WorkloadRaises, AwaitWorkload, Cancelled, Over
<1>4. CASE IdlePhaseEnds \/ WorkloadEnds
  BY <1>4, PhaseStep DEF IdlePhaseEnds, WorkloadEnds
<1>5. CASE WorkloadFailed
  BY <1>5 DEF WorkloadFailed, RuleNames
<1>6. CASE Snapshot
  BY <1>6 DEF Snapshot, Over, RuleNames
<1>7. ASSUME NEW how \in {"ok", "failed", "expired", "error"}, JobEnds(how) PROVE SoakInv'
  BY <1>7 DEF JobEnds, Over
<1>8. CASE Watchdog
  BY <1>8 DEF Watchdog, Over
<1>9. CASE LinkChanges
  BY <1>9 DEF LinkChanges, soak, Over
<1>10. CASE UNCHANGED soakVars
  BY <1>10 DEF soakVars, soak, Over
<1>11. QED
  BY <1>1, <1>2, <1>3, <1>4, <1>5, <1>6, <1>7, <1>8, <1>9, <1>10 DEF SoakNext, Run, Job

\* THEOREM.  A reported survival saw every phase through, without a faulty window or a
\* failed workload, for any schedule and window, when the rules ask for a sample at all:
\* with min_samples_per_window = 0 an empty window of a wedged board would pass for a good one.
THEOREM SurvivalsAreEarned == ASSUME MinSamples > 0 PROVE SoakSpec => []SurvivalIsEarned
<1>1. SoakInv => SurvivalIsEarned
  BY DEF SoakInv
<1>2. QED
  BY SoakStart, SoakStep, <1>1, PTL DEF SoakSpec

\* THEOREM.  An anomaly is charged to the phase it happened in, after all phases before
\* it and only those were completed.
THEOREM AnomaliesArePlaced == ASSUME MinSamples > 0 PROVE SoakSpec => []AnomalyIsPlaced
<1>1. SoakInv => AnomalyIsPlaced
  BY DEF SoakInv
<1>2. QED
  BY SoakStart, SoakStep, <1>1, PTL DEF SoakSpec

\* THEOREM.  Side by side on a board, the soak and the profile each behave as they do
\* alone, on a board that answers, is silent and is lost: what is proved of each holds of both.
THEOREM CampaignsRunApart == CampaignsSpec => SoakSpec /\ ProfileSpec
<1>1. CampaignsInit => SoakInit /\ ProfileInit
  BY DEF CampaignsInit
<1>2. Profile => UNCHANGED link
  BY DEF Profile, Query, QueryRaises, SetMode, KeepMode, ProfileMode, Unwind, Restore, NothingToRestore,
     RestoreRaises, EndProfile
<1>3. Run \/ Job \/ Watchdog \/ Cancelled => UNCHANGED link
  BY DEF Run, Job, StartWindow, EndWindow, WindowRaises, IdlePhaseEnds, AwaitWorkload, WorkloadEnds,
     PhaseCompleted, WorkloadFailed, WorkloadRaises, Snapshot, SnapshotRaises, JobEnds, Watchdog, Cancelled
<1>4. [CampaignsNext]_campaigns => [SoakNext]_soakVars
  BY <1>2 DEF CampaignsNext, campaigns, soakVars, SoakNext, Stopped
<1>5. [CampaignsNext]_campaigns => [ProfileNext]_profileVars
  BY <1>3 DEF CampaignsNext, campaigns, soakVars, profileVars, ProfileNext, LinkChanges, Stopped
<1>6. QED
  BY <1>1, <1>4, <1>5, PTL DEF CampaignsSpec, SoakSpec, ProfileSpec
=============================================================================
