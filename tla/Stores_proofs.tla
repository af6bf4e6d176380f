--------------------------- MODULE Stores_proofs ---------------------------
(***************************************************************************)
(* Theorems about the components MCStores plays, for any number of          *)
(* processes, files, fixtures, packs and looks: each is proved of its       *)
(* component's own steps, and holds of StoresSpec because a scene's steps   *)
(* are those of one component and leave the others alone.                   *)
(***************************************************************************)
EXTENDS MCStores, Runs_proofs, SequenceTheorems, NaturalsInduction

-----------------------------------------------------------------------------
(* The desktop's cockpit. *)

Phases == {"idle", "scheduled", "running", "cancelling", "dropped"}

\* The diff shown, or about to be, is not older than what landed.
DesktopInv ==
  /\ task \in [Tasks -> Phases] /\ enabled \in BOOLEAN
  /\ spin \in Int /\ drops \in Nat /\ tree \in 0..MaxChange /\ landed \in 0..tree
  /\ read \in [Looks -> (0..MaxChange) \cup {Nothing}]
  /\ view \in [Looks -> (0..MaxChange) \cup {Computing}]
  /\ OneRunAtATime
  /\ "diff" \notin missed =>
       /\ view["diff"] # Computing => view["diff"] >= landed
       /\ read["diff"] # Nothing => read["diff"] >= landed

LEMMA DesktopStep == DesktopInv /\ [DesktopNext]_desktop => DesktopInv'
<1> SUFFICES ASSUME DesktopInv, [DesktopNext]_desktop PROVE DesktopInv'
  OBVIOUS
<1> USE DesktopAssumption DEF DesktopInv, OneRunAtATime, Running, Tasks, Phases, Computing, Nothing
<1>1. ASSUME NEW fromMenu \in BOOLEAN, StartRun(fromMenu) PROVE DesktopInv'
  <2>1. task["run"] = "idle" /\ spin = drops
    BY <1>1 DEF StartRun
  <2>2. task' \in [Tasks -> Phases] /\ task'["run"] = "scheduled" /\ spin' = spin + 1 /\ enabled' = FALSE
    BY <1>1 DEF StartRun
  <2>3. spin' = drops + 1 /\ spin' \in Int
    BY <2>1, <2>2
  <2>4. UNCHANGED <<tree, read, view, drops, landed, missed>>
    BY <1>1 DEF StartRun
  <2>5. QED
    BY <2>2, <2>3, <2>4
<1>2. CASE StopRun
  BY <1>2 DEF StopRun
<1>3. ASSUME NEW t \in Tasks, FirstStep(t) PROVE DesktopInv'
  BY <1>3 DEF FirstStep
<1>4. CASE Drop
  BY <1>4 DEF Drop
<1>5. CASE Change
  BY <1>5 DEF Change
<1>6. CASE TaskFinishes
  BY <1>6 DEF TaskFinishes, Done, StartLook
<1>7. CASE TaskFails
  BY <1>7 DEF TaskFails, Done
<1>8. ASSUME NEW l \in Looks, Look(l) PROVE DesktopInv'
  BY <1>8 DEF Look, StartLook
<1>9. ASSUME NEW l \in Looks, ReadTree(l) PROVE DesktopInv'
  BY <1>9 DEF ReadTree
<1>10. ASSUME NEW l \in Looks, Shown(l) PROVE DesktopInv'
  BY <1>10 DEF Shown
<1>11. CASE UNCHANGED desktop
  BY <1>11 DEF desktop
<1> QED
  BY <1>1, <1>2, <1>3, <1>4, <1>5, <1>6, <1>7, <1>8, <1>9, <1>10, <1>11
  DEF DesktopNext, LoopStep, RunEnds

LEMMA DesktopStart == DesktopInit => DesktopInv
BY DesktopAssumption DEF DesktopInit, DesktopInv, OneRunAtATime, Running, Tasks, Phases, Computing, Nothing

\* No click, menu entry, stop or late look ever makes the run button start a
\* second agent or shows a diff older than the task that last finished, for any
\* looks, any number of edits and of runs dropped before they began.
THEOREM CockpitHolds == StoresSpec => []CockpitIsTrue
<1>1. StoresInit => DesktopInv
  BY DesktopStart DEF StoresInit
<1>2. [StoresNext]_stores => [DesktopNext]_desktop
  BY DEF StoresNext, stores
<1>3. DesktopInv => CockpitIsTrue
  BY DesktopAssumption DEF DesktopInv, CockpitIsTrue, DiffIsFresh
<1> QED
  BY <1>1, <1>2, <1>3, DesktopStep, PTL DEF StoresSpec

-----------------------------------------------------------------------------
(* The replay fixtures. *)

Run == [step : {"checked", "pushed", "ran"}, fixture : Names, want : Nat, arms : {1, 2},
        first : Nat, moved : BOOLEAN, touched : BOOLEAN, ran : Nat]

\* What a replayer that nobody disturbed is about to run is what its manifest
\* named, and what its first arm ran.
Verified(s) ==
  s # NoReplay =>
    /\ s.step = "checked" /\ ~s.touched => stream[s.fixture] = s.want
    /\ s.step = "pushed" /\ ~s.touched => board = s.want
    /\ s.step = "ran" /\ ~s.touched => s.ran = s.want
    /\ ~s.moved => stream[s.fixture] = s.want
    /\ ~s.moved /\ s.first # None => s.first = s.want
FixturesInv ==
  /\ stream \in [Names -> Nat] /\ manifest \in [Names -> Nat]
  /\ board \in Nat /\ captures \in Nat
  /\ replayer \in [Replayers -> {NoReplay} \cup Run]
  /\ \A r \in Replayers : Verified(replayer[r])

LEMMA NoReplayIsIdle == NoReplay.step = "idle" /\ \A s \in Run : s # NoReplay /\ s.step # "idle"
BY DEF NoReplay, Run

\* A replayer's steps are its own: what others do only marks it.
Marked(s, t, touched, moved) ==
  \/ s = NoReplay /\ t = NoReplay
  \/ /\ s \in Run /\ t \in Run
     /\ t.step = s.step /\ t.fixture = s.fixture /\ t.want = s.want /\ t.arms = s.arms
     /\ t.first = s.first /\ t.ran = s.ran
     /\ t.touched = (s.touched \/ touched) /\ t.moved = (s.moved \/ moved)

LEMMA BoardMarks ==
  ASSUME FixturesInv, NEW by, NEW r \in Replayers, r # by
  PROVE  Marked(replayer[r], BoardWritten(by)[r], replayer[r].step = "pushed", FALSE)
<1> USE NoReplayIsIdle
<1>1. CASE replayer[r].step = "pushed"
  <2>1. BoardWritten(by)[r] = [replayer[r] EXCEPT !.touched = TRUE]
    BY <1>1 DEF BoardWritten, Touched
  <2>2. replayer[r] \in Run
    BY <1>1 DEF FixturesInv
  <2>3. QED
    BY <1>1, <2>1, <2>2 DEF Run, Marked
<1>2. CASE replayer[r].step # "pushed"
  <2>1. BoardWritten(by)[r] = replayer[r]
    BY <1>2 DEF BoardWritten, Touched
  <2>2. QED
    BY <1>2, <2>1 DEF FixturesInv, Run, Marked
<1>3. QED
  BY <1>1, <1>2

LEMMA StreamMarks ==
  ASSUME FixturesInv, NEW f, NEW r \in Replayers
  PROVE  LET s == replayer[r] IN
           Marked(s, StreamWritten(f)[r], s.step = "checked" /\ s.fixture = f, s.fixture = f)
<1> USE NoReplayIsIdle
<1> DEFINE s == replayer[r]
           t == Touched(r, LAMBDA u : u.step = "checked" /\ u.fixture = f)
<1>0. s \in {NoReplay} \cup Run
  BY DEF FixturesInv
<1>1. t = IF s.step = "checked" /\ s.fixture = f THEN [s EXCEPT !.touched = TRUE] ELSE s
  BY DEF Touched
<1>2. StreamWritten(f)[r] = IF t.step # "idle" /\ t.fixture = f THEN [t EXCEPT !.moved = TRUE] ELSE t
  BY DEF StreamWritten, Moved
<1>3. CASE s = NoReplay
  BY <1>1, <1>2, <1>3 DEF Marked
<1>4. CASE s \in Run
  <2> HIDE DEF s, t
  <2>1. t \in Run /\ t.step = s.step /\ t.fixture = s.fixture /\ t.want = s.want /\ t.arms = s.arms
        /\ t.first = s.first /\ t.ran = s.ran /\ t.moved = s.moved
        /\ t.touched = (s.touched \/ (s.step = "checked" /\ s.fixture = f))
    BY <1>1, <1>4 DEF Run
  <2>2. Marked(s, StreamWritten(f)[r], s.step = "checked" /\ s.fixture = f, s.fixture = f)
    BY <1>2, <1>4, <2>1 DEF Run, Marked
  <2>3. QED
    BY <2>2 DEF s
<1>5. QED
  BY <1>0, <1>3, <1>4

\* A check starts an arm on the stream as its manifest names it.
LEMMA CheckStep ==
  ASSUME FixturesInv, NEW r \in Replayers, NEW f \in Names, NEW arms \in {1, 2},
         NEW first \in Nat, NEW moved \in BOOLEAN,
         ~moved /\ first # None => first = stream[f],
         Checked(r, f, arms, first, moved), UNCHANGED <<stream, manifest, board, captures>>
  PROVE  FixturesInv'
<1> USE DEF FixturesInv
<1> DEFINE s == [step |-> "checked", fixture |-> f, want |-> manifest[f], arms |-> arms,
                 first |-> first, moved |-> moved, touched |-> FALSE, ran |-> None]
           new == IF ~Matches(f) THEN NoReplay ELSE s
<1>1. replayer' = [replayer EXCEPT ![r] = new]
  BY DEF Checked
<1>2. s \in Run
  BY DEF Run, None
<1>3. ASSUME Matches(f) PROVE Verified(s)
  BY <1>3 DEF Verified, Matches
<1>4. new \in {NoReplay} \cup Run /\ Verified(new)
  BY <1>2, <1>3 DEF Verified
<1>5. \A u : Verified(u) => Verified(u)'
  BY DEF Verified
<1> HIDE DEF new
<1>6. QED
  BY <1>1, <1>4, <1>5

LEMMA FixturesStep == FixturesInv /\ [FixturesNext]_fixtures => FixturesInv'
<1> SUFFICES ASSUME FixturesInv, [FixturesNext]_fixtures PROVE FixturesInv'
  OBVIOUS
<1> USE NoReplayIsIdle, FixturesAssumption
<1>0. \A r \in Replayers : Verified(replayer[r]) /\ replayer[r] \in {NoReplay} \cup Run
  BY DEF FixturesInv
<1>1. ASSUME NEW f \in Names, Capture(f) PROVE FixturesInv'
  <2>1. replayer' = BoardWritten("recorder") /\ UNCHANGED <<stream, manifest>>
        /\ board' \in Nat /\ captures' \in Nat
    BY <1>1 DEF Capture, FixturesInv
  <2>2. ASSUME NEW r \in Replayers
        PROVE  Marked(replayer[r], replayer'[r], replayer[r].step = "pushed", FALSE)
    BY <2>1, BoardMarks
  <2>3. ASSUME NEW r \in Replayers
        PROVE  replayer'[r] \in {NoReplay} \cup Run /\ Verified(replayer[r])'
    <3>1. replayer'[r] \in {NoReplay} \cup Run
      BY <2>2, Zenon DEF Marked
    <3>2. Verified(replayer[r])
      BY <1>0
    <3>3. Verified(replayer[r])'
      BY <2>1, <2>2, <3>2 DEF Marked, Verified
    <3>4. QED
      BY <3>1, <3>3
  <2>4. replayer' \in [Replayers -> {NoReplay} \cup Run]
    BY <2>1, <2>3 DEF BoardWritten
  <2>5. QED
    BY <2>1, <2>3, <2>4 DEF FixturesInv
<1>2. ASSUME NEW f \in Names, Get(f) \/ Got(f) PROVE FixturesInv'
  <2>1. PICK n \in Nat : stream' = [stream EXCEPT ![f] = n]
    BY <1>2 DEF Get, Got, Torn, FixturesInv
  <2>2. replayer' = StreamWritten(f) /\ UNCHANGED <<manifest, board, captures>>
    BY <1>2 DEF Get, Got
  <2>3. ASSUME NEW r \in Replayers
        PROVE  Marked(replayer[r], replayer'[r], replayer[r].step = "checked" /\ replayer[r].fixture = f,
                      replayer[r].fixture = f)
    BY <2>2, StreamMarks
  <2>4. stream \in [Names -> Nat]
    BY DEF FixturesInv
  <2>5. ASSUME NEW r \in Replayers
        PROVE  replayer'[r] \in {NoReplay} \cup Run /\ Verified(replayer[r])'
    <3>1. CASE replayer[r] = NoReplay
      BY <2>3, <3>1 DEF Marked, Verified
    <3>2. CASE replayer[r] \in Run
      <4>1. replayer[r].fixture # f => stream'[replayer[r].fixture] = stream[replayer[r].fixture]
        BY <2>1, <2>4, <3>2 DEF Run
      <4> DEFINE s == replayer[r]
                 u == replayer'[r]
      <4>2. /\ u \in Run /\ u.step = s.step /\ u.fixture = s.fixture /\ u.want = s.want
            /\ u.first = s.first /\ u.ran = s.ran
            /\ ~u.touched => ~s.touched /\ ~(s.step = "checked" /\ s.fixture = f)
            /\ ~u.moved => ~s.moved /\ s.fixture # f
        BY <2>3, <3>2 DEF Marked, Run
      <4>3. Verified(s) /\ s # NoReplay
        BY <1>0, <3>2
      <4> HIDE DEF s, u
      <4>4. stream'[s.fixture] = stream[s.fixture] \/ s.fixture = f
        BY <4>1 DEF s
      <4>5. Verified(s) => /\ s.step = "checked" /\ ~s.touched => stream[s.fixture] = s.want
                           /\ s.step = "pushed" /\ ~s.touched => board = s.want
                           /\ s.step = "ran" /\ ~s.touched => s.ran = s.want
                           /\ ~s.moved => stream[s.fixture] = s.want
                           /\ ~s.moved /\ s.first # None => s.first = s.want
        BY <4>3 DEF Verified
      <4>6. /\ u.step = "checked" /\ ~u.touched => stream'[u.fixture] = u.want
            /\ u.step = "pushed" /\ ~u.touched => board' = u.want
            /\ u.step = "ran" /\ ~u.touched => u.ran = u.want
            /\ ~u.moved => stream'[u.fixture] = u.want
            /\ ~u.moved /\ u.first # None => u.first = u.want
        BY <2>2, <4>2, <4>3, <4>4, <4>5
      <4>7. QED
        BY <4>2, <4>6 DEF Verified, u
    <3>3. QED
      BY <1>0, <3>1, <3>2
  <2>6. replayer' \in [Replayers -> {NoReplay} \cup Run]
    BY <2>2, <2>5 DEF StreamWritten
  <2>7. QED
    BY <2>1, <2>2, <2>5, <2>6 DEF FixturesInv
<1>3. ASSUME NEW f \in Names, WriteManifest(f) \/ Aborted(f) PROVE FixturesInv'
  BY <1>3 DEF WriteManifest, Aborted, FixturesInv, Verified
<1>4. ASSUME NEW f \in Names, NEW r \in Replayers, Replay(r, f) \/ Shadow(r, f) PROVE FixturesInv'
  BY <1>4, CheckStep DEF Replay, Shadow, None
<1>5. ASSUME NEW r \in Replayers, Put(r) PROVE FixturesInv'
  <2>1. replayer' = [BoardWritten(r) EXCEPT ![r].step = "pushed"] /\ UNCHANGED <<stream, manifest, captures>>
        /\ board' = stream[replayer[r].fixture] /\ replayer[r].step = "checked"
    BY <1>5 DEF Put
  <2>2. replayer[r] \in Run /\ BoardWritten(r)[r] = replayer[r]
    BY <1>0, <2>1 DEF BoardWritten, Touched
  <2>3. ASSUME NEW q \in Replayers
        PROVE  replayer'[q] \in {NoReplay} \cup Run /\ Verified(replayer[q])'
    <3>1. CASE q = r
      <4>1. replayer'[q] = [replayer[r] EXCEPT !.step = "pushed"]
        BY <2>1, <2>2, <3>1 DEF BoardWritten
      <4>2. QED
        BY <1>0, <2>1, <2>2, <3>1, <4>1 DEF Run, Verified
    <3>2. CASE q # r
      <4>0. replayer'[q] = BoardWritten(r)[q]
        BY <2>1, <3>2 DEF BoardWritten
      <4>1. Marked(replayer[q], replayer'[q], replayer[q].step = "pushed", FALSE)
        BY <3>2, <4>0, BoardMarks
      <4>2. QED
        BY <1>0, <2>1, <4>1 DEF Marked, Verified
    <3>3. QED
      BY <3>1, <3>2
  <2>4. replayer' \in [Replayers -> {NoReplay} \cup Run]
    BY <2>1, <2>3 DEF BoardWritten
  <2>5. board' \in Nat
    BY <2>1, <2>2 DEF Run, FixturesInv
  <2>6. QED
    BY <2>1, <2>3, <2>4, <2>5 DEF FixturesInv
<1>6. ASSUME NEW r \in Replayers, RunCommand(r) PROVE FixturesInv'
  <2> DEFINE new == [replayer[r] EXCEPT !.step = "ran", !.ran = board]
  <2>1. replayer' = [replayer EXCEPT ![r] = new] /\ replayer[r] \in Run /\ replayer[r].step = "pushed"
        /\ UNCHANGED <<stream, manifest, board, captures>>
    <3>1. replayer' = [replayer EXCEPT ![r].step = "ran", ![r].ran = board]
      BY <1>6 DEF RunCommand
    <3>2. [replayer EXCEPT ![r].step = "ran", ![r].ran = board] = [replayer EXCEPT ![r] = new]
      BY DEF FixturesInv
    <3>3. QED
      BY <1>0, <1>6, <3>1, <3>2 DEF RunCommand
  <2>2. new \in Run /\ new.step = "ran" /\ new.ran = board /\ new.touched = replayer[r].touched
        /\ new.moved = replayer[r].moved /\ new.first = replayer[r].first /\ new.want = replayer[r].want
        /\ new.fixture = replayer[r].fixture
    BY <2>1 DEF Run, FixturesInv
  <2> HIDE DEF new
  <2>3. Verified(new)
    BY <1>0, <2>1, <2>2 DEF Verified
  <2>4. \A u : Verified(u) => Verified(u)'
    BY <2>1 DEF Verified
  <2>5. QED
    BY <1>0, <2>1, <2>2, <2>3, <2>4 DEF FixturesInv
<1>7. ASSUME NEW r \in Replayers, Return(r) PROVE FixturesInv'
  <2> DEFINE s == replayer[r]
  <2>1. s.step = "ran" /\ s \in Run /\ Verified(s) /\ UNCHANGED <<stream, manifest, board, captures>>
    BY <1>0, <1>7 DEF Return
  <2>2. CASE s.arms = 2 /\ s.first = None
    <3>1. Checked(r, s.fixture, 2, s.ran, s.moved \/ s.touched)
      BY <1>7, <2>2 DEF Return
    <3>2. ~ (s.moved \/ s.touched) => s.ran = stream[s.fixture]
      BY <2>1 DEF Verified
    <3>3. s.fixture \in Names /\ s.ran \in Nat /\ (s.moved \/ s.touched) \in BOOLEAN
      BY <2>1 DEF Run
    <3> HIDE DEF s
    <3>4. QED
      BY <2>1, <3>1, <3>2, <3>3, CheckStep
  <2>3. CASE ~ (s.arms = 2 /\ s.first = None)
    <3>1. replayer' = [replayer EXCEPT ![r] = NoReplay]
      BY <1>7, <2>3 DEF Return
    <3>2. \A u : Verified(u) => Verified(u)'
      BY <2>1 DEF Verified
    <3>3. Verified(NoReplay)
      BY DEF Verified
    <3>4. QED
      BY <2>1, <3>1, <3>2, <3>3 DEF FixturesInv
  <2>4. QED
    BY <2>2, <2>3
<1>8. CASE UNCHANGED fixtures
  BY <1>8 DEF fixtures, FixturesInv, Verified
<1> QED
  BY <1>1, <1>2, <1>3, <1>4, <1>5, <1>6, <1>7, <1>8 DEF FixturesNext

\* A replay's command runs on the bytes its manifest names and a shadow run's two
\* arms on the same ones, unless they were written over behind its back: for any
\* fixtures, recordings dying anywhere, and replayers on one board.
THEOREM ReplaysHold == StoresSpec => []ReplaysAreTrue
<1>1. StoresInit => FixturesInv
  BY DEF StoresInit, FixturesInit, FixturesInv, Verified, None
<1>2. [StoresNext]_stores => [FixturesNext]_fixtures
  BY DEF StoresNext, stores
<1>3. FixturesInv => ReplaysAreTrue
  BY NoReplayIsIdle DEF FixturesInv, ReplaysAreTrue, ReplayIsVerified, ShadowComparesLike, Verified
<1> QED
  BY <1>1, <1>2, <1>3, FixturesStep, PTL DEF StoresSpec

-----------------------------------------------------------------------------
(* The skill packs. *)

Dirs == {Reviewed(t) : t \in Themes} \cup {Draft(t) : t \in Themes}
IsFn(f) == f = [x \in DOMAIN f |-> f[x]]

\* What skills/ can hold.
SourceInv ==
  /\ IsFn(source) /\ DOMAIN source \subseteq Dirs /\ IsFiniteSet(DOMAIN source)
  /\ \A d \in DOMAIN source : IF IsDraft(d) THEN source[d] \in {Whole, Cut} ELSE source[d] = Pack

LEMMA DirIsDraft ==
  \A t : IsDraft(Draft(t)) /\ ~IsDraft(Reviewed(t)) /\ Draft(t) # Reviewed(t)
BY DEF IsDraft, Draft, Reviewed

\* Whatever its texts are, a pack is a function of its files, all of them known.
LEMMA SourceTexts ==
  ASSUME SourceInv, NEW d \in DOMAIN source
  PROVE  /\ IsFn(source[d]) /\ DOMAIN source[d] \subseteq Parts
         /\ ~IsDraft(d) => DOMAIN source[d] = Parts /\ \A f \in Parts : source[d][f] = "reviewed"
<1>1. source[d] \in {Whole, Cut, Pack} /\ (~IsDraft(d) => source[d] = Pack)
  BY DEF SourceInv
<1>2. QED
  BY <1>1, PacksAssumption DEF IsFn, Whole, Cut, Pack

LEMMA HeldStep ==
  ASSUME SourceInv, NEW t \in Themes, NEW texts \in {Whole, Cut}, source' = Held(Draft(t), texts)
  PROVE  SourceInv'
<1>1. DOMAIN source' = DOMAIN source \cup {Draft(t)} /\ IsFn(source')
  BY DEF Held, IsFn
<1>2. IsFiniteSet(DOMAIN source')
  BY <1>1, FS_AddElement DEF SourceInv
<1>3. DOMAIN source' \subseteq Dirs
  BY <1>1 DEF SourceInv, Dirs
<1>4. \A d \in DOMAIN source' : source'[d] = IF d = Draft(t) THEN texts ELSE source[d]
  BY <1>1 DEF Held
<1>5. \A d \in DOMAIN source' : IF IsDraft(d) THEN source'[d] \in {Whole, Cut} ELSE source'[d] = Pack
  BY <1>1, <1>4, DirIsDraft DEF SourceInv
<1>6. \A d : IsDraft(d)' = IsDraft(d)
  BY DEF IsDraft
<1>7. QED
  BY <1>1, <1>2, <1>3, <1>5 DEF SourceInv, Dirs, IsFn, Whole, Cut, Pack

LEMMA ReviewStep ==
  ASSUME SourceInv, NEW t \in Themes, Review(t)
  PROVE  SourceInv'
<1> DEFINE D == (DOMAIN source \ {Draft(t)}) \cup {Reviewed(t)}
<1>1. source' = [d \in D |-> IF d = Reviewed(t) THEN Pack ELSE source[d]]
  BY DEF Review, Changes
<1>2. D \subseteq Dirs
  BY DEF SourceInv, Dirs
<1>3. IsFiniteSet(D)
  <2>1. IsFiniteSet(DOMAIN source \ {Draft(t)})
    BY FS_Subset DEF SourceInv
  <2>2. QED
    BY <2>1, FS_AddElement
<1>4. DOMAIN source' = D /\ \A d \in D : source'[d] = IF d = Reviewed(t) THEN Pack ELSE source[d]
  BY <1>1
<1>5. \A d \in D : IF IsDraft(d) THEN source'[d] \in {Whole, Cut} ELSE source'[d] = Pack
  BY <1>4, DirIsDraft DEF SourceInv
<1>6. QED
  BY <1>1, <1>2, <1>3, <1>4, <1>5 DEF SourceInv, IsFn

LEMMA SourceStep == SourceInv /\ [PacksNext]_packs => SourceInv'
<1> SUFFICES ASSUME SourceInv, [PacksNext]_packs PROVE SourceInv'
  OBVIOUS
<1>1. CASE UNCHANGED source
  BY <1>1 DEF SourceInv, IsFn
<1>2. ASSUME NEW t \in Themes, OpenDraft(t) \/ WriteDraft(t) PROVE SourceInv'
  BY <1>2, HeldStep DEF OpenDraft, WriteDraft, Changes
<1> QED
  BY <1>1, <1>2, ReviewStep
  DEF PacksNext, Author, AuthorDies, StartSync, RmFiles, RmDir, MakeDir, CopyFile, Copied, EndSync, Leave, packs

\* Every pack of a finite set is listed once.
LEMMA ListedOnce ==
  ASSUME NEW S, IsFiniteSet(S)
  PROVE  /\ SetToSeq(S) \in [1..Cardinality(S) -> S] /\ IsInjective(SetToSeq(S))
         /\ SetToSeq(S) \in Seq(S)
<1>1. Cardinality(S) \in Nat /\ ExistsBijection(1..Cardinality(S), S)
  BY FS_CardinalityType
<1>2. \E f \in [1..Cardinality(S) -> S] : IsInjective(f)
  BY <1>1 DEF ExistsBijection, Bijection, Injection
<1>3. SetToSeq(S) \in [1..Cardinality(S) -> S] /\ IsInjective(SetToSeq(S))
  BY <1>2 DEF SetToSeq
<1>4. SetToSeq(S) \in Seq(S)
  BY <1>1, <1>3
<1>5. QED
  BY <1>3, <1>4

AtCopies == {"emptied", "removed", "copying"}
Begun == [step : AtCopies \cup {"next", "synced"}, dirs : Seq(Dirs), at : Nat \ {0},
          left : SUBSET Parts, missed : BOOLEAN, disturbed : BOOLEAN]
Over == [step : {"refused", "failed"}, disturbed : BOOLEAN]
SyncerType ==
  /\ syncer \in [Starting -> {NotSyncing} \cup Begun \cup Over]
  /\ \A s \in Starting : syncer[s] \in Begun =>
       /\ syncer[s].at <= Len(syncer[s].dirs) + 1
       /\ AtWork(s) => syncer[s].at <= Len(syncer[s].dirs)

\* A copy has known files only, and that of a reviewed pack a person's texts.
CopiesType ==
  /\ IsFn(copies)
  /\ \A d \in DOMAIN copies :
       /\ IsFn(copies[d]) /\ DOMAIN copies[d] \subseteq Parts
       /\ ~IsDraft(d) => \A f \in DOMAIN copies[d] : copies[d][f] = "reviewed"

\* A session nobody disturbed has copied what it is past as it is, has the rest before
\* it, and is alone at it.
Alone(s) ==
  LET u == syncer[s] IN
    u # NotSyncing /\ ~u.disturbed =>
      /\ u.step # "failed"
      /\ u.step = "refused" => \E d \in DOMAIN source : source[d] = Cut
      /\ u.step # "refused" =>
           /\ IsInjective(u.dirs) /\ \A i \in DOMAIN u.dirs : u.dirs[i] \in DOMAIN source
           /\ \A i \in DOMAIN u.dirs : i < u.at \/ u.step = "synced" =>
                u.dirs[i] \in DOMAIN copies /\ copies[u.dirs[i]] = source[u.dirs[i]]
           /\ \A o \in Starting \ {s} : ~Syncing(o)
      /\ u.step = "emptied" => Dir(s) \in DOMAIN copies /\ copies[Dir(s)] = <<>>
      /\ u.step = "removed" => Dir(s) \notin DOMAIN copies
      /\ u.step = "copying" =>
           /\ Dir(s) \in DOMAIN copies /\ ~u.missed /\ u.left \subseteq DOMAIN source[Dir(s)]
           /\ DOMAIN copies[Dir(s)] = DOMAIN source[Dir(s)] \ u.left
           /\ \A f \in DOMAIN copies[Dir(s)] : copies[Dir(s)][f] = source[Dir(s)][f]

\* A session that will make the copy whole, or fail at it, if nobody else touches it.
Mends(t, d) ==
  /\ AtWork(t) /\ Dir(t) = d
  /\ syncer[t].step = "copying" =>
       syncer[t].missed \/ (d \in DOMAIN copies /\ Parts \ syncer[t].left \subseteq DOMAIN copies[d])
Kept == {d \in Dirs : \/ IsDraft(d) \/ d \in broken \/ (d \in DOMAIN copies /\ copies[d] = Pack)
                      \/ \E t \in Starting : Mends(t, d)}
Past(s) == {i \in Nat \ {0} : i < syncer[s].at \/ (i = syncer[s].at /\ AtWork(s))}
PastKept(s) ==
  syncer[s] \in Begun => \A i \in Past(s) : syncer[s].dirs[i] \in Kept

SyncInv == SyncerType /\ CopiesType /\ \A s \in Starting : Alone(s) /\ PastKept(s)

LEMMA SyncerFields ==
  /\ NotSyncing.step = "idle"
  /\ \A u \in Begun : u # NotSyncing /\ u.step \in AtCopies \cup {"next", "synced"} /\ u \notin Over
  /\ \A u \in Over : u # NotSyncing /\ u.step \in {"refused", "failed"} /\ u.disturbed \in BOOLEAN
                     /\ u \notin Begun
BY DEF NotSyncing, Begun, Over, AtCopies

\* A session at a copy is at a pack of its list.
LEMMA WorkFields ==
  ASSUME SyncerType, NEW s \in Starting, AtWork(s) \/ syncer[s].step \in {"next", "synced"}
  PROVE  /\ syncer[s] \in Begun /\ syncer[s] # NotSyncing
         /\ syncer[s].at \in Nat \ {0} /\ syncer[s].dirs \in Seq(Dirs) /\ syncer[s].left \subseteq Parts
         /\ syncer[s].missed \in BOOLEAN /\ syncer[s].disturbed \in BOOLEAN
         /\ AtWork(s) => syncer[s].at \in DOMAIN syncer[s].dirs /\ Dir(s) \in Dirs
<1>1. syncer[s] \in Begun /\ syncer[s] # NotSyncing
  BY SyncerFields DEF SyncerType, AtWork, AtCopies
<1>2. /\ syncer[s].at \in Nat \ {0} /\ syncer[s].dirs \in Seq(Dirs) /\ syncer[s].left \subseteq Parts
      /\ syncer[s].missed \in BOOLEAN /\ syncer[s].disturbed \in BOOLEAN
  BY <1>1 DEF Begun
<1>3. ASSUME AtWork(s) PROVE syncer[s].at \in DOMAIN syncer[s].dirs /\ Dir(s) \in Dirs
  <2>1. syncer[s].at <= Len(syncer[s].dirs)
    BY <1>1, <1>3 DEF SyncerType
  <2>2. syncer[s].at \in 1..Len(syncer[s].dirs)
    BY <1>2, <2>1
  <2>3. QED
    BY <1>2, <2>2 DEF Dir
<1>4. QED
  BY <1>1, <1>2, <1>3

\* Where one session syncs, every other is disturbed or was refused.
LEMMA OthersDisturbed ==
  ASSUME SyncInv, NEW r \in Starting, Syncing(r), NEW s \in Starting, s # r,
         syncer'[s] = syncer[s], source' = source
  PROVE  Alone(s)'
<1>1. syncer[s] = NotSyncing \/ syncer[s].disturbed \/ syncer[s].step = "refused"
  BY DEF SyncInv, Alone
<1>2. QED
  BY <1>1 DEF Alone, SyncInv

\* What a session's step leaves of the other copies, and of who makes them whole.
Elsewhere(d) == (d \in DOMAIN copies' <=> d \in DOMAIN copies)
                  /\ (d \in DOMAIN copies => copies'[d] = copies[d])

LEMMA KeptElsewhere ==
  ASSUME SyncInv, NEW s \in Starting, NEW d \in Kept,
         \A r \in Starting \ {s} : syncer'[r] = syncer[r],
         AtWork(s) => Dir(s) # d, d \in broken => d \in broken', Elsewhere(d)
  PROVE  d \in Kept'
<1>1. CASE IsDraft(d) \/ d \in broken \/ (d \in DOMAIN copies /\ copies[d] = Pack)
  BY <1>1 DEF Kept, Elsewhere, Pack
<1>2. ASSUME NEW t \in Starting, Mends(t, d) PROVE d \in Kept'
  <2>1. t # s /\ syncer'[t] = syncer[t]
    BY <1>2 DEF Mends
  <2>2. AtWork(t)' /\ Dir(t)' = d
    BY <1>2, <2>1 DEF Mends, AtWork, Dir
  <2>0. syncer[t].step = "copying" =>
          syncer[t].missed \/ (d \in DOMAIN copies' /\ Parts \ syncer[t].left \subseteq DOMAIN copies'[d])
    BY <1>2 DEF Mends, Elsewhere
  <2>3. Mends(t, d)'
    BY <2>0, <2>1, <2>2 DEF Mends
  <2>4. QED
    BY <2>3 DEF Kept
<1>3. QED
  BY <1>1, <1>2 DEF Kept

\* A session's step at a copy concerns that copy alone.
LEMMA SessionActs ==
  ASSUME SyncInv, NEW s \in Starting, Syncing(s), NEW c, c = Dir(s),
         \A r \in Starting \ {s} : syncer'[r] = syncer[r], source' = source,
         \A d : d # c => Elsewhere(d) /\ (d \in broken => d \in broken'),
         c \in Kept',
         syncer'[s] \in Begun =>
           syncer'[s].dirs = syncer[s].dirs /\ syncer'[s].at \in {syncer[s].at, syncer[s].at + 1}
             /\ (AtWork(s)' => syncer'[s].at = syncer[s].at)
  PROVE  \A r \in Starting : PastKept(r)' /\ (r # s => Alone(r)')
<1>1. syncer[s] \in Begun /\ syncer[s].at \in Nat \ {0}
  BY WorkFields DEF SyncInv, Syncing
<1>2. ASSUME NEW d \in Kept PROVE d \in Kept'
  <2>1. CASE d = c
    BY <2>1
  <2>2. CASE d # c
    BY <1>2, <2>2, KeptElsewhere
  <2>3. QED
    BY <2>1, <2>2
<1>3. ASSUME NEW r \in Starting, r # s PROVE PastKept(r)' /\ Alone(r)'
  <2>1. syncer'[r] = syncer[r]
    BY <1>3
  <2>2. Past(r)' = Past(r)
    BY <2>1 DEF Past, AtWork
  <2>3. PastKept(r) /\ PastKept(r)'
    BY <1>2, <2>1, <2>2 DEF SyncInv, PastKept
  <2>4. QED
    BY <1>3, <2>1, <2>3, OthersDisturbed
<1>4. PastKept(s)'
  <2>1. SUFFICES ASSUME syncer'[s] \in Begun, NEW i \in Past(s)' PROVE syncer'[s].dirs[i] \in Kept'
    BY DEF PastKept
  <2>2. syncer'[s].dirs = syncer[s].dirs /\ (i < syncer[s].at \/ i = syncer[s].at) /\ i \in Nat \ {0}
    BY <1>1, <2>1 DEF Past
  <2>3. CASE i < syncer[s].at
    <3>1. i \in Past(s)
      BY <2>2, <2>3 DEF Past
    <3>2. syncer[s].dirs[i] \in Kept
      BY <1>1, <3>1 DEF SyncInv, PastKept
    <3>3. QED
      BY <1>2, <2>2, <3>2
  <2>4. CASE i = syncer[s].at
    BY <2>2, <2>4 DEF Dir
  <2>5. QED
    BY <2>2, <2>3, <2>4
<1>5. QED
  BY <1>3, <1>4

\* What nobody disturbs in a session's step.
LEMMA AloneActs ==
  ASSUME SyncInv, NEW s \in Starting, Syncing(s), ~syncer[s].disturbed, NEW c, c = Dir(s),
         syncer[s].at \in DOMAIN syncer[s].dirs,
         \A r \in Starting \ {s} : syncer'[r] = syncer[r], source' = source,
         \A d : d # c => Elsewhere(d)
  PROVE  /\ IsInjective(syncer[s].dirs)
         /\ \A i \in DOMAIN syncer[s].dirs : syncer[s].dirs[i] \in DOMAIN source'
         /\ \A i \in DOMAIN syncer[s].dirs : i < syncer[s].at =>
              syncer[s].dirs[i] \in DOMAIN copies' /\ copies'[syncer[s].dirs[i]] = source'[syncer[s].dirs[i]]
         /\ \A o \in Starting \ {s} : ~Syncing(o)'
         /\ c \in DOMAIN source
<1>1. syncer[s] \in Begun /\ syncer[s] # NotSyncing /\ syncer[s].at \in Nat \ {0}
      /\ syncer[s].dirs \in Seq(Dirs) /\ syncer[s].step # "refused"
  BY WorkFields DEF SyncInv, Syncing, AtWork
<1>2. /\ IsInjective(syncer[s].dirs)
      /\ \A i \in DOMAIN syncer[s].dirs : syncer[s].dirs[i] \in DOMAIN source
      /\ \A i \in DOMAIN syncer[s].dirs : i < syncer[s].at =>
           syncer[s].dirs[i] \in DOMAIN copies /\ copies[syncer[s].dirs[i]] = source[syncer[s].dirs[i]]
      /\ \A o \in Starting \ {s} : ~Syncing(o)
  BY <1>1 DEF SyncInv, Alone
<1>3. \A o \in Starting \ {s} : ~Syncing(o)'
  BY <1>2 DEF Syncing, AtWork
<1>4. ASSUME NEW i \in DOMAIN syncer[s].dirs, i < syncer[s].at
      PROVE  syncer[s].dirs[i] \in DOMAIN copies' /\ copies'[syncer[s].dirs[i]] = source'[syncer[s].dirs[i]]
  <2>1. syncer[s].dirs[i] # Dir(s)
    BY <1>1, <1>2, <1>4 DEF IsInjective, Dir
  <2>2. QED
    BY <1>2, <1>4, <2>1 DEF Elsewhere
<1>5. QED
  BY <1>2, <1>3, <1>4 DEF Dir

\* The empty directory, a copy without files.
LEMMA EmptyCopy == IsFn(<<>>) /\ DOMAIN <<>> = {}
BY DEF IsFn

\* A step of session s at pack c, after which it stands at u, keeps the invariant if
\* it does so for c.
LEMMA ActStep ==
  ASSUME SyncInv, NEW s \in Starting, Syncing(s), NEW c, c = Dir(s),
         syncer[s].at \in DOMAIN syncer[s].dirs,
         NEW u \in Begun \cup Over, syncer' = [syncer EXCEPT ![s] = u], source' = source,
         u \in Begun =>
           /\ u.dirs = syncer[s].dirs /\ u.step # "synced" /\ u.disturbed = syncer[s].disturbed
           /\ u.at = IF u.step \in AtCopies THEN syncer[s].at ELSE syncer[s].at + 1,
         \A d : d # c => Elsewhere(d) /\ (d \in broken => d \in broken'),
         CopiesType', c \in Kept',
         u \in Over => syncer[s].disturbed /\ u.disturbed,
         ~syncer[s].disturbed =>
           /\ u.step = "emptied" => c \in DOMAIN copies' /\ copies'[c] = <<>>
           /\ u.step = "removed" => c \notin DOMAIN copies'
           /\ u.step = "copying" =>
                /\ c \in DOMAIN copies' /\ ~u.missed /\ u.left \subseteq DOMAIN source[c]
                /\ DOMAIN copies'[c] = DOMAIN source[c] \ u.left
                /\ \A f \in DOMAIN copies'[c] : copies'[c][f] = source[c][f]
           /\ u.step = "next" => c \in DOMAIN copies' /\ copies'[c] = source[c]
  PROVE  SyncInv'
<1>1. syncer[s] \in Begun /\ syncer[s].at \in Nat \ {0} /\ syncer[s].dirs \in Seq(Dirs)
      /\ syncer[s].disturbed \in BOOLEAN /\ syncer[s].at <= Len(syncer[s].dirs)
  BY WorkFields DEF SyncInv, Syncing
<1>2. syncer'[s] = u /\ \A r \in Starting \ {s} : syncer'[r] = syncer[r]
  BY DEF SyncInv, SyncerType
<1>3. u \in Begun => u.step \in AtCopies \cup {"next"}
  BY SyncerFields
<1>4. u \in Over => u.step \in {"refused", "failed"} /\ u \notin Begun
  BY SyncerFields
<1>5. SyncerType'
  <2>1. syncer' \in [Starting -> {NotSyncing} \cup Begun \cup Over]
    BY DEF SyncInv, SyncerType
  <2>2. ASSUME NEW r \in Starting, syncer'[r] \in Begun
        PROVE  syncer'[r].at <= Len(syncer'[r].dirs) + 1 /\ (AtWork(r)' => syncer'[r].at <= Len(syncer'[r].dirs))
    <3>1. CASE r = s
      BY <1>1, <1>2, <1>3, <2>2, <3>1 DEF AtWork, AtCopies
    <3>2. CASE r # s
      BY <1>2, <2>2, <3>2 DEF SyncInv, SyncerType, AtWork
    <3>3. QED
      BY <3>1, <3>2
  <2>3. QED
    BY <2>1, <2>2 DEF SyncerType
<1>6. \A r \in Starting : PastKept(r)' /\ (r # s => Alone(r)')
  <2>1. syncer'[s] \in Begun =>
          syncer'[s].dirs = syncer[s].dirs /\ syncer'[s].at \in {syncer[s].at, syncer[s].at + 1}
            /\ (AtWork(s)' => syncer'[s].at = syncer[s].at)
    BY <1>2, <1>3 DEF AtWork, AtCopies
  <2>2. QED
    BY <1>2, <2>1, SessionActs
<1>7. ASSUME ~syncer[s].disturbed, u \in Begun PROVE Alone(s)'
  <2>1. /\ IsInjective(syncer[s].dirs)
        /\ \A i \in DOMAIN syncer[s].dirs : syncer[s].dirs[i] \in DOMAIN source'
        /\ \A i \in DOMAIN syncer[s].dirs : i < syncer[s].at =>
             syncer[s].dirs[i] \in DOMAIN copies' /\ copies'[syncer[s].dirs[i]] = source'[syncer[s].dirs[i]]
        /\ \A o \in Starting \ {s} : ~Syncing(o)'
        /\ c \in DOMAIN source
    BY <1>2, <1>7, AloneActs
  <2>2. CASE u.step = "next"
    <3>1. u.at = syncer[s].at + 1 /\ c = syncer[s].dirs[syncer[s].at] /\ u.dirs = syncer[s].dirs
      BY <1>7, <2>2 DEF Dir, AtCopies
    <3>2. ASSUME NEW i \in DOMAIN u.dirs, i < u.at
          PROVE  u.dirs[i] \in DOMAIN copies' /\ copies'[u.dirs[i]] = source'[u.dirs[i]]
      <4>1. i < syncer[s].at \/ i = syncer[s].at
        BY <1>1, <3>1, <3>2
      <4>2. QED
        BY <1>7, <2>1, <2>2, <3>1, <3>2, <4>1
    <3>3. QED
      BY <1>2, <1>7, <2>1, <2>2, <3>1, <3>2 DEF Alone
  <2>3. CASE u.step \in AtCopies
    <3>1. Dir(s)' = c /\ u.at = syncer[s].at /\ u.dirs = syncer[s].dirs
      BY <1>2, <1>7, <2>3 DEF Dir
    <3>2. QED
      BY <1>2, <1>7, <2>1, <2>3, <3>1 DEF Alone, AtCopies
  <2>4. QED
    BY <1>3, <1>7, <2>2, <2>3
<1>8. Alone(s)'
  BY <1>1, <1>2, <1>4, <1>7 DEF Alone
<1>9. QED
  BY <1>5, <1>6, <1>8 DEF SyncInv

\* Where a session stands at its pack.
LEMMA AtPack ==
  ASSUME SyncInv, NEW s \in Starting, Syncing(s), syncer[s].at <= Len(syncer[s].dirs)
  PROVE  /\ syncer[s] \in Begun /\ syncer[s].at \in DOMAIN syncer[s].dirs
         /\ Dir(s) \in Dirs /\ syncer[s].disturbed \in BOOLEAN
<1>1. syncer[s] \in Begun /\ syncer[s].at \in Nat \ {0} /\ syncer[s].dirs \in Seq(Dirs)
      /\ syncer[s].disturbed \in BOOLEAN
  BY WorkFields DEF SyncInv, Syncing
<1>2. syncer[s].at \in 1..Len(syncer[s].dirs)
  BY <1>1
<1>3. QED
  BY <1>1, <1>2 DEF Dir

LEMMA RmFilesStep ==
  ASSUME SourceInv, SyncInv, NEW s \in Starting, RmFiles(s)
  PROVE  SyncInv'
<1>1. PICK c : c = Dir(s)
  OBVIOUS
<1>2. /\ syncer[s].step = "next" /\ ~AtWork(s) /\ Syncing(s) /\ syncer[s] \in Begun
      /\ syncer[s].at \in DOMAIN syncer[s].dirs /\ c \in Dirs
  BY <1>1, AtPack DEF RmFiles, AtWork, Syncing
<1>3. PICK step \in {"emptied", "removed"} :
        /\ syncer' = [syncer EXCEPT ![s].step = step] /\ source' = source /\ broken' = broken
        /\ step = "emptied" => c \in DOMAIN copies /\ copies' = [copies EXCEPT ![c] = <<>>]
        /\ step = "removed" => c \notin DOMAIN copies /\ copies' = copies
  <2>1. CASE c \in DOMAIN copies
    <3>1. Reaches(s, "emptied") /\ source' = source /\ copies' = [copies EXCEPT ![Dir(s)] = <<>>]
      BY <1>1, <2>1 DEF RmFiles
    <3>2. QED
      BY <1>1, <2>1, <3>1 DEF Reaches
  <2>2. CASE c \notin DOMAIN copies
    <3>1. Reaches(s, "removed") /\ source' = source /\ copies' = copies
      BY <1>1, <2>2 DEF RmFiles
    <3>2. QED
      BY <1>1, <2>2, <3>1 DEF Reaches
  <2>3. QED
    BY <2>1, <2>2
<1> DEFINE u == [syncer[s] EXCEPT !.step = step]
<1>4. /\ syncer' = [syncer EXCEPT ![s] = u]
      /\ u \in Begun /\ u.step = step /\ u.dirs = syncer[s].dirs
      /\ u.at = syncer[s].at /\ u.disturbed = syncer[s].disturbed
  BY <1>2, <1>3 DEF Begun, AtCopies
<1> HIDE DEF u
<1>5. /\ \A d : d # c => Elsewhere(d)
      /\ IsFn(copies') /\ DOMAIN copies' = DOMAIN copies
      /\ step = "emptied" => c \in DOMAIN copies' /\ copies'[c] = <<>>
      /\ step = "removed" => c \notin DOMAIN copies'
  BY <1>3 DEF Elsewhere, SyncInv, CopiesType, IsFn
<1>6. CopiesType'
  BY <1>3, <1>5, EmptyCopy DEF CopiesType, SyncInv, Elsewhere
<1>7. c \in Kept'
  <2>1. AtWork(s)' /\ Dir(s)' = c /\ syncer'[s].step # "copying"
    BY <1>1, <1>3, <1>4 DEF AtWork, Dir, SyncInv, SyncerType
  <2>2. Mends(s, c)'
    BY <2>1 DEF Mends
  <2>3. QED
    BY <1>2, <2>2 DEF Kept
<1>8. u \notin Over /\ u.step \in AtCopies /\ u.step # "synced" /\ u.step # "copying" /\ u.step # "next"
  BY <1>3, <1>4, SyncerFields DEF AtCopies
<1>9. \A d : d # c => Elsewhere(d) /\ (d \in broken => d \in broken')
  BY <1>3, <1>5
<1>10. QED
  BY <1>1, <1>2, <1>3, <1>4, <1>5, <1>6, <1>7, <1>8, <1>9, ActStep

\* Only a session somebody disturbed fails.
LEMMA FailStep ==
  ASSUME SyncInv, NEW s \in Starting, AtWork(s), Fails(s), source' = source, copies' = copies,
         syncer[s].disturbed
  PROVE  SyncInv'
<1>1. PICK c : c = Dir(s)
  OBVIOUS
<1>2. Syncing(s) /\ syncer[s] \in Begun /\ syncer[s].at \in DOMAIN syncer[s].dirs /\ c \in Dirs
  BY <1>1, WorkFields DEF SyncInv, Syncing
<1> DEFINE u == Ended(s, "failed")
<1>3. syncer' = [syncer EXCEPT ![s] = u] /\ u \in Over /\ u.disturbed /\ broken' = broken \cup {c}
  BY <1>1, <1>2 DEF Fails, Ended, Over, Begun
<1> HIDE DEF u
<1>4. u \notin Begun /\ u.step \notin AtCopies \cup {"next"}
  BY <1>3, SyncerFields DEF AtCopies
<1>5. \A d : d # c => Elsewhere(d) /\ (d \in broken => d \in broken')
  BY <1>3 DEF Elsewhere
<1>6. CopiesType' /\ c \in Kept'
  BY <1>2, <1>3 DEF SyncInv, CopiesType, IsFn, Kept
<1>7. QED
  BY <1>1, <1>2, <1>3, <1>4, <1>5, <1>6, ActStep

LEMMA RmDirStep ==
  ASSUME SourceInv, SyncInv, NEW s \in Starting, RmDir(s)
  PROVE  SyncInv'
<1>1. PICK c : c = Dir(s)
  OBVIOUS
<1>2. /\ syncer[s].step = "emptied" /\ AtWork(s) /\ Syncing(s) /\ syncer[s] \in Begun
      /\ syncer[s].at \in DOMAIN syncer[s].dirs /\ c \in Dirs /\ syncer[s] # NotSyncing
  BY <1>1, WorkFields DEF RmDir, AtWork, Syncing, SyncInv
<1>3. source' = source
  BY DEF RmDir
<1>4. CASE c \notin DOMAIN copies \/ copies[c] # <<>>
  <2>1. Fails(s) /\ copies' = copies
    BY <1>1, <1>4 DEF RmDir
  <2>2. syncer[s].disturbed
    BY <1>1, <1>2, <1>4 DEF SyncInv, Alone
  <2>3. QED
    BY <1>2, <1>3, <2>1, <2>2, FailStep
<1>5. CASE c \in DOMAIN copies /\ copies[c] = <<>>
  <2>1. Reaches(s, "removed") /\ copies' = [d \in DOMAIN copies \ {Dir(s)} |-> copies[d]]
    BY <1>1, <1>5 DEF RmDir
  <2> DEFINE u == [syncer[s] EXCEPT !.step = "removed"]
  <2>2. /\ syncer' = [syncer EXCEPT ![s] = u] /\ broken' = broken
        /\ u \in Begun /\ u.step = "removed" /\ u.dirs = syncer[s].dirs
        /\ u.at = syncer[s].at /\ u.disturbed = syncer[s].disturbed
    BY <1>2, <2>1 DEF Reaches, Begun, AtCopies
  <2> HIDE DEF u
  <2>3. (\A d : d # c => Elsewhere(d)) /\ IsFn(copies') /\ DOMAIN copies' = DOMAIN copies \ {c}
    BY <1>1, <2>1 DEF Elsewhere, IsFn
  <2>4. CopiesType'
    BY <2>3 DEF CopiesType, SyncInv, Elsewhere
  <2>5. c \in Kept'
    <3>1. AtWork(s)' /\ Dir(s)' = c /\ syncer'[s].step # "copying"
      BY <1>1, <2>2 DEF AtWork, Dir, SyncInv, SyncerType
    <3>2. Mends(s, c)'
      BY <3>1 DEF Mends
    <3>3. QED
      BY <1>2, <3>2 DEF Kept
  <2>6. u \notin Over /\ u.step \in AtCopies /\ u.step # "synced" /\ u.step = "removed"
    BY <2>2, SyncerFields DEF AtCopies
  <2>7. \A d : d # c => Elsewhere(d) /\ (d \in broken => d \in broken')
    BY <2>2, <2>3
  <2>8. QED
    BY <1>1, <1>2, <1>3, <2>2, <2>3, <2>4, <2>5, <2>6, <2>7, ActStep
<1>6. QED
  BY <1>4, <1>5

LEMMA MakeDirStep ==
  ASSUME SourceInv, SyncInv, NEW s \in Starting, MakeDir(s)
  PROVE  SyncInv'
<1>1. PICK c : c = Dir(s)
  OBVIOUS
<1>2. /\ syncer[s].step = "removed" /\ AtWork(s) /\ Syncing(s) /\ syncer[s] \in Begun
      /\ syncer[s].at \in DOMAIN syncer[s].dirs /\ c \in Dirs /\ c = syncer[s].dirs[syncer[s].at]
      /\ syncer[s] # NotSyncing
  BY <1>1, WorkFields DEF MakeDir, AtWork, Syncing, SyncInv, Dir
<1>3. source' = source
  BY DEF MakeDir
<1>4. CASE c \in DOMAIN copies \/ c \notin DOMAIN source
  <2>1. Fails(s) /\ copies' = copies
    BY <1>1, <1>4 DEF MakeDir
  <2>2. syncer[s].disturbed
    BY <1>1, <1>2, <1>4 DEF SyncInv, Alone
  <2>3. QED
    BY <1>2, <1>3, <2>1, <2>2, FailStep
<1>5. CASE c \notin DOMAIN copies /\ c \in DOMAIN source
  <2>1. /\ copies' = [d \in DOMAIN copies \cup {Dir(s)} |-> IF d = Dir(s) THEN <<>> ELSE copies[d]]
        /\ syncer' = [syncer EXCEPT ![s].step = "copying", ![s].left = DOMAIN source[Dir(s)],
                                    ![s].missed = FALSE]
        /\ broken' = broken
    BY <1>1, <1>5 DEF MakeDir
  <2> DEFINE u == [syncer[s] EXCEPT !.step = "copying", !.left = DOMAIN source[c], !.missed = FALSE]
  <2>2. DOMAIN source[c] \subseteq Parts /\ (~IsDraft(c) => DOMAIN source[c] = Parts)
    BY <1>5, SourceTexts
  <2>3. /\ syncer' = [syncer EXCEPT ![s] = u]
        /\ u \in Begun /\ u.step = "copying" /\ u.dirs = syncer[s].dirs /\ u.left = DOMAIN source[c]
        /\ u.at = syncer[s].at /\ u.disturbed = syncer[s].disturbed /\ ~u.missed
    BY <1>1, <1>2, <2>1, <2>2 DEF Begun, AtCopies, SyncInv, SyncerType
  <2> HIDE DEF u
  <2>4. /\ \A d : d # c => Elsewhere(d)
        /\ IsFn(copies') /\ DOMAIN copies' = DOMAIN copies \cup {c} /\ copies'[c] = <<>>
    BY <1>1, <2>1 DEF Elsewhere, IsFn
  <2>5. CopiesType'
    BY <2>4, EmptyCopy DEF CopiesType, SyncInv, Elsewhere
  <2>6. c \in Kept'
    <3>1. AtWork(s)' /\ Dir(s)' = c /\ syncer'[s].left = DOMAIN source[c]
      BY <1>1, <2>3 DEF AtWork, Dir, SyncInv, SyncerType
    <3>2. ~IsDraft(c) => Parts \ syncer'[s].left = {}
      BY <2>2, <3>1
    <3>3. ~IsDraft(c) => Mends(s, c)'
      BY <2>4, <3>1, <3>2 DEF Mends
    <3>4. QED
      BY <1>2, <3>3 DEF Kept
  <2>7. DOMAIN copies'[c] = DOMAIN source[c] \ u.left
        /\ \A f \in DOMAIN copies'[c] : copies'[c][f] = source[c][f]
    BY <2>3, <2>4, EmptyCopy
  <2>8. u \notin Over /\ u.step \in AtCopies /\ u.step # "synced" /\ u.step = "copying"
    BY <2>3, SyncerFields DEF AtCopies
  <2>9. \A d : d # c => Elsewhere(d) /\ (d \in broken => d \in broken')
    BY <2>1, <2>4
  <2>10. c \in DOMAIN copies' /\ u.left \subseteq DOMAIN source[c]
    BY <2>3, <2>4
  <2>11. QED
    BY <1>1, <1>2, <1>3, <2>3, <2>5, <2>6, <2>7, <2>8, <2>9, <2>10, ActStep
<1>6. QED
  BY <1>4, <1>5

\* The copy a session is at was kept before.
LEMMA AtIsKept ==
  ASSUME SyncInv, NEW s \in Starting, AtWork(s)
  PROVE  Dir(s) \in Kept
<1>1. syncer[s] \in Begun /\ syncer[s].at \in Past(s)
  BY WorkFields DEF SyncInv, Past
<1>2. QED
  BY <1>1 DEF SyncInv, PastKept, Dir

LEMMA CopyFileStep ==
  ASSUME SourceInv, SyncInv, NEW s \in Starting, CopyFile(s)
  PROVE  SyncInv'
<1>1. PICK c : c = Dir(s)
  OBVIOUS
<1>2. /\ syncer[s].step = "copying" /\ AtWork(s) /\ Syncing(s) /\ syncer[s] \in Begun
      /\ syncer[s].at \in DOMAIN syncer[s].dirs /\ c \in Dirs /\ c = syncer[s].dirs[syncer[s].at]
      /\ syncer[s] # NotSyncing /\ c \in Kept /\ syncer[s].left \subseteq Parts
  BY <1>1, WorkFields, AtIsKept DEF CopyFile, AtWork, Syncing, SyncInv, Dir
<1>3. source' = source /\ broken' = broken
  BY DEF CopyFile
<1>4. PICK f \in syncer[s].left :
        IF c \in DOMAIN copies /\ c \in DOMAIN source
        THEN /\ copies' = [copies EXCEPT ![c] =
                             [g \in DOMAIN @ \cup {f} |-> IF g = f THEN source[c][f] ELSE @[g]]]
             /\ syncer' = [syncer EXCEPT ![s].left = @ \ {f}]
        ELSE syncer' = [syncer EXCEPT ![s].left = @ \ {f}, ![s].missed = TRUE] /\ UNCHANGED copies
  BY <1>1 DEF CopyFile
<1>5. CASE ~(c \in DOMAIN copies /\ c \in DOMAIN source)
  <2> DEFINE u == [syncer[s] EXCEPT !.left = @ \ {f}, !.missed = TRUE]
  <2>1. /\ syncer' = [syncer EXCEPT ![s] = u] /\ copies' = copies
        /\ u \in Begun /\ u.step = "copying" /\ u.dirs = syncer[s].dirs
        /\ u.at = syncer[s].at /\ u.disturbed = syncer[s].disturbed /\ u.missed
    BY <1>2, <1>4, <1>5 DEF Begun, AtCopies
  <2> HIDE DEF u
  <2>2. syncer[s].disturbed
    BY <1>1, <1>2, <1>5 DEF SyncInv, Alone
  <2>3. CopiesType' /\ \A d : d # c => Elsewhere(d)
    BY <2>1 DEF CopiesType, SyncInv, IsFn, Elsewhere
  <2>4. Mends(s, c)'
    BY <1>1, <2>1 DEF Mends, AtWork, Dir, SyncInv, SyncerType
  <2>5. c \in Kept'
    BY <1>2, <2>4 DEF Kept
  <2>6. u \notin Over /\ u.step \in AtCopies /\ u.step # "synced" /\ u.step = "copying"
    BY <2>1, SyncerFields DEF AtCopies
  <2>7. \A d : d # c => Elsewhere(d) /\ (d \in broken => d \in broken')
    BY <1>3, <2>3
  <2>8. QED
    BY <1>1, <1>2, <1>3, <2>1, <2>2, <2>3, <2>5, <2>6, <2>7, ActStep
<1>6. CASE c \in DOMAIN copies /\ c \in DOMAIN source
  <2> DEFINE u == [syncer[s] EXCEPT !.left = @ \ {f}]
  <2>1. /\ syncer' = [syncer EXCEPT ![s] = u]
        /\ u \in Begun /\ u.step = "copying" /\ u.dirs = syncer[s].dirs
        /\ u.left = syncer[s].left \ {f} /\ u.missed = syncer[s].missed
        /\ u.at = syncer[s].at /\ u.disturbed = syncer[s].disturbed
    BY <1>2, <1>4, <1>6 DEF Begun, AtCopies
  <2> HIDE DEF u
  <2> DEFINE new == [g \in DOMAIN copies[c] \cup {f} |-> IF g = f THEN source[c][f] ELSE copies[c][g]]
  <2>2. copies' = [copies EXCEPT ![c] = new]
    BY <1>4, <1>6
  <2>3. /\ IsFn(new) /\ DOMAIN new = DOMAIN copies[c] \cup {f} /\ new[f] = source[c][f]
        /\ \A g \in DOMAIN copies[c] : g # f => new[g] = copies[c][g]
    BY DEF IsFn
  <2> HIDE DEF new
  <2>4. (\A d : d # c => Elsewhere(d)) /\ IsFn(copies') /\ DOMAIN copies' = DOMAIN copies /\ copies'[c] = new
    BY <1>6, <2>2 DEF Elsewhere, IsFn, SyncInv, CopiesType
  <2>5. IsFn(copies[c]) /\ DOMAIN copies[c] \subseteq Parts
        /\ (~IsDraft(c) => \A g \in DOMAIN copies[c] : copies[c][g] = "reviewed")
    BY <1>6 DEF SyncInv, CopiesType
  <2>6. ~IsDraft(c) => source[c][f] = "reviewed"
    BY <1>2, <1>4, <1>6, SourceTexts
  <2>7. /\ DOMAIN new \subseteq Parts
        /\ ~IsDraft(c) => \A g \in DOMAIN new : new[g] = "reviewed"
    BY <1>2, <1>4, <2>3, <2>5, <2>6
  <2>8. CopiesType'
    BY <1>6, <2>3, <2>4, <2>7 DEF CopiesType, SyncInv, Elsewhere
  <2>9. c \in Kept'
    <3>1. CASE IsDraft(c) \/ c \in broken
      BY <1>2, <1>3, <3>1 DEF Kept
    <3>2. CASE ~IsDraft(c) /\ copies[c] = Pack
      <4>1. DOMAIN new = Parts
        BY <1>2, <1>4, <2>3, <3>2 DEF Pack
      <4>2. new = Pack
        BY <2>3, <2>7, <3>2, <4>1 DEF IsFn, Pack
      <4>3. QED
        BY <1>2, <1>6, <2>4, <4>2 DEF Kept, Pack
    <3>3. ASSUME NEW t \in Starting, Mends(t, c) PROVE c \in Kept'
      <4>1. AtWork(t)' /\ Dir(t)' = c /\ syncer'[t].step = syncer[t].step /\ syncer'[t].missed = syncer[t].missed
            /\ Parts \ syncer'[t].left \subseteq (Parts \ syncer[t].left) \cup {f}
        <5>1. CASE t = s
          BY <1>1, <1>2, <1>4, <2>1, <5>1 DEF AtWork, Dir, SyncInv, SyncerType
        <5>2. CASE t # s
          <6>1. syncer'[t] = syncer[t]
            BY <2>1, <5>2 DEF SyncInv, SyncerType
          <6>2. QED
            BY <3>3, <6>1 DEF AtWork, Dir, Mends
        <5>3. QED
          BY <5>1, <5>2
      <4>2. syncer'[t].step = "copying" =>
              syncer'[t].missed \/ (c \in DOMAIN copies' /\ Parts \ syncer'[t].left \subseteq DOMAIN copies'[c])
        BY <1>6, <2>3, <2>4, <3>3, <4>1 DEF Mends
      <4>3. Mends(t, c)'
        BY <4>1, <4>2 DEF Mends
      <4>4. QED
        BY <1>2, <4>3 DEF Kept
    <3>4. QED
      BY <1>2, <3>1, <3>2, <3>3 DEF Kept
  <2>10. ASSUME ~syncer[s].disturbed
         PROVE  /\ c \in DOMAIN copies' /\ ~u.missed /\ u.left \subseteq DOMAIN source[c]
                /\ DOMAIN copies'[c] = DOMAIN source[c] \ u.left
                /\ \A g \in DOMAIN copies'[c] : copies'[c][g] = source[c][g]
    <3>1. /\ ~syncer[s].missed /\ syncer[s].left \subseteq DOMAIN source[c]
          /\ DOMAIN copies[c] = DOMAIN source[c] \ syncer[s].left
          /\ \A g \in DOMAIN copies[c] : copies[c][g] = source[c][g]
      BY <1>1, <1>2, <2>10 DEF SyncInv, Alone
    <3>2. QED
      BY <1>4, <1>6, <2>1, <2>3, <2>4, <3>1
  <2>11. u \notin Over /\ u.step \in AtCopies /\ u.step \notin {"emptied", "removed", "next", "synced"}
    BY <2>1, SyncerFields DEF AtCopies
  <2>12. \A d : d # c => Elsewhere(d) /\ (d \in broken => d \in broken')
    BY <1>3, <2>4
  <2>13. ~syncer[s].disturbed =>
           /\ u.step = "emptied" => c \in DOMAIN copies' /\ copies'[c] = <<>>
           /\ u.step = "removed" => c \notin DOMAIN copies'
           /\ u.step = "copying" =>
                /\ c \in DOMAIN copies' /\ ~u.missed /\ u.left \subseteq DOMAIN source[c]
                /\ DOMAIN copies'[c] = DOMAIN source[c] \ u.left
                /\ \A g \in DOMAIN copies'[c] : copies'[c][g] = source[c][g]
           /\ u.step = "next" => c \in DOMAIN copies' /\ copies'[c] = source[c]
    BY <2>10, <2>11
  <2>14. u \in Begun =>
           /\ u.dirs = syncer[s].dirs /\ u.step # "synced" /\ u.disturbed = syncer[s].disturbed
           /\ u.at = IF u.step \in AtCopies THEN syncer[s].at ELSE syncer[s].at + 1
    BY <2>1, <2>11
  <2>15. syncer' = [syncer EXCEPT ![s] = u] /\ u \in Begun \cup Over /\ source' = source /\ (u \in Over => FALSE)
    BY <1>3, <2>1, <2>11
  <2>16. QED
    BY <1>1, <1>2, <2>8, <2>9, <2>12, <2>13, <2>14, <2>15, ActStep
<1>7. QED
  BY <1>5, <1>6

LEMMA CopiedStep ==
  ASSUME SourceInv, SyncInv, NEW s \in Starting, Copied(s)
  PROVE  SyncInv'
<1>1. PICK c : c = Dir(s)
  OBVIOUS
<1>2. /\ syncer[s].step = "copying" /\ AtWork(s) /\ Syncing(s) /\ syncer[s] \in Begun
      /\ syncer[s].at \in DOMAIN syncer[s].dirs /\ c \in Dirs /\ c = syncer[s].dirs[syncer[s].at]
      /\ syncer[s] # NotSyncing /\ c \in Kept /\ syncer[s].left = {} /\ syncer[s].at \in Nat \ {0}
  BY <1>1, WorkFields, AtIsKept DEF Copied, AtWork, Syncing, SyncInv, Dir
<1>3. source' = source /\ copies' = copies
  BY DEF Copied
<1>4. ~syncer[s].disturbed =>
        /\ ~syncer[s].missed /\ c \in DOMAIN copies
        /\ DOMAIN copies[c] = DOMAIN source[c] /\ \A g \in DOMAIN copies[c] : copies[c][g] = source[c][g]
  BY <1>1, <1>2 DEF SyncInv, Alone
<1>5. CASE syncer[s].missed
  <2>1. Fails(s)
    BY <1>5 DEF Copied
  <2>2. QED
    BY <1>2, <1>3, <1>4, <1>5, <2>1, FailStep
<1>6. CASE ~syncer[s].missed
  <2>1. /\ syncer' = [syncer EXCEPT ![s].step = "next", ![s].at = @ + 1]
        /\ broken' = IF c \in DOMAIN copies /\ copies[c] = Pack THEN broken \ {c} ELSE broken
    BY <1>1, <1>6 DEF Copied
  <2> DEFINE u == [syncer[s] EXCEPT !.step = "next", !.at = @ + 1]
  <2>2. /\ syncer' = [syncer EXCEPT ![s] = u]
        /\ u \in Begun /\ u.step = "next" /\ u.dirs = syncer[s].dirs
        /\ u.at = syncer[s].at + 1 /\ u.disturbed = syncer[s].disturbed
    <3>1. syncer[s].at + 1 \in Nat \ {0}
      BY <1>2
    <3>2. u = [syncer[s] EXCEPT !.step = "next", !.at = syncer[s].at + 1]
      OBVIOUS
    <3>3. syncer' = [syncer EXCEPT ![s] = u]
      BY <1>2, <2>1 DEF Begun
    <3> HIDE DEF u
    <3>4. QED
      BY <1>2, <3>1, <3>2, <3>3 DEF Begun, AtCopies
  <2> HIDE DEF u
  <2>3. \A d : d # c => Elsewhere(d) /\ (d \in broken => d \in broken')
    BY <1>3, <2>1 DEF Elsewhere
  <2>4. CopiesType'
    BY <1>3 DEF CopiesType, SyncInv, IsFn
  <2>5. c \in Kept'
    <3>1. CASE IsDraft(c)
      BY <1>2, <3>1 DEF Kept
    <3>2. CASE c \in DOMAIN copies /\ copies[c] = Pack
      BY <1>2, <1>3, <3>2 DEF Kept, Pack
    <3>3. CASE ~IsDraft(c) /\ ~(c \in DOMAIN copies /\ copies[c] = Pack)
      <4>1. broken' = broken
        BY <2>1, <3>3
      <4>2. ~Mends(s, c)
        <5>1. SUFFICES ASSUME Mends(s, c) PROVE FALSE
          OBVIOUS
        <5>2. c \in DOMAIN copies /\ Parts \subseteq DOMAIN copies[c]
          BY <1>2, <1>6, <5>1 DEF Mends
        <5>3. copies[c] = Pack
          BY <3>3, <5>2 DEF SyncInv, CopiesType, IsFn, Pack
        <5>4. QED
          BY <3>3, <5>2, <5>3
      <4>3. ASSUME NEW t \in Starting, t # s, Mends(t, c) PROVE Mends(t, c)'
        <5>1. syncer'[t] = syncer[t]
          BY <2>2, <4>3 DEF SyncInv, SyncerType
        <5>2. QED
          BY <1>3, <4>3, <5>1 DEF Mends, AtWork, Dir
      <4>4. QED
        BY <1>2, <3>3, <4>1, <4>2, <4>3 DEF Kept
    <3>4. QED
      BY <3>1, <3>2, <3>3
  <2>6. ~syncer[s].disturbed => c \in DOMAIN copies' /\ copies'[c] = source[c]
    <3>1. SUFFICES ASSUME ~syncer[s].disturbed PROVE c \in DOMAIN copies' /\ copies'[c] = source[c]
      OBVIOUS
    <3>2. c \in DOMAIN source
      BY <1>2, <3>1 DEF SyncInv, Alone
    <3>3. IsFn(source[c]) /\ IsFn(copies[c])
      BY <1>4, <3>1, <3>2, SourceTexts DEF SyncInv, CopiesType
    <3>4. QED
      BY <1>3, <1>4, <3>1, <3>3 DEF IsFn
  <2>7. u \notin Over /\ u.step \notin AtCopies /\ u.step # "synced" /\ u.step = "next"
    BY <2>2, SyncerFields DEF AtCopies
  <2>8. QED
    BY <1>1, <1>2, <1>3, <2>2, <2>3, <2>4, <2>5, <2>6, <2>7, ActStep
<1>7. QED
  BY <1>5, <1>6

LEMMA EndSyncStep ==
  ASSUME SourceInv, SyncInv, NEW s \in Starting, EndSync(s)
  PROVE  SyncInv'
<1>1. /\ syncer[s].step = "next" /\ syncer[s].at > Len(syncer[s].dirs) /\ Syncing(s) /\ ~AtWork(s)
      /\ syncer[s] \in Begun /\ syncer[s] # NotSyncing /\ syncer[s].at \in Nat \ {0}
      /\ syncer[s].dirs \in Seq(Dirs) /\ source' = source /\ copies' = copies /\ broken' = broken
  BY WorkFields DEF EndSync, Reaches, AtWork, Syncing, SyncInv
<1> DEFINE u == [syncer[s] EXCEPT !.step = "synced"]
<1>2. /\ syncer' = [syncer EXCEPT ![s] = u]
      /\ u \in Begun /\ u.step = "synced" /\ u.dirs = syncer[s].dirs
      /\ u.at = syncer[s].at /\ u.disturbed = syncer[s].disturbed
  BY <1>1 DEF EndSync, Reaches, Begun, AtCopies
<1> HIDE DEF u
<1>3. syncer'[s] = u /\ (\A r \in Starting \ {s} : syncer'[r] = syncer[r]) /\ ~AtWork(s)'
  BY <1>2 DEF SyncInv, SyncerType, AtWork
<1>4. SyncerType'
  <2>1. syncer' \in [Starting -> {NotSyncing} \cup Begun \cup Over]
    BY <1>2 DEF SyncInv, SyncerType
  <2>2. ASSUME NEW r \in Starting, syncer'[r] \in Begun
        PROVE  syncer'[r].at <= Len(syncer'[r].dirs) + 1 /\ (AtWork(r)' => syncer'[r].at <= Len(syncer'[r].dirs))
    <3>1. CASE r = s
      BY <1>1, <1>2, <1>3, <3>1 DEF SyncInv, SyncerType
    <3>2. CASE r # s
      BY <1>3, <2>2, <3>2 DEF SyncInv, SyncerType, AtWork
    <3>3. QED
      BY <3>1, <3>2
  <2>3. QED
    BY <2>1, <2>2 DEF SyncerType
<1>5. CopiesType'
  BY <1>1 DEF CopiesType, SyncInv, IsFn
<1>6. \A d \in Kept : d \in Kept'
  BY <1>1, <1>3, KeptElsewhere DEF Elsewhere
<1>7. ASSUME NEW r \in Starting PROVE PastKept(r)'
  <2>1. Past(r)' = Past(r) /\ (syncer'[r] \in Begun => syncer[r] \in Begun /\ syncer'[r].dirs = syncer[r].dirs)
    <3>1. CASE r = s
      BY <1>1, <1>2, <1>3, <3>1 DEF Past
    <3>2. CASE r # s
      BY <1>3, <3>2 DEF Past, AtWork
    <3>3. QED
      BY <3>1, <3>2
  <2>2. QED
    BY <1>6, <2>1 DEF SyncInv, PastKept
<1>8. ASSUME ~syncer[s].disturbed PROVE Alone(s)'
  <2>1. \A i \in DOMAIN syncer[s].dirs : i < syncer[s].at
    BY <1>1
  <2>2. /\ IsInjective(syncer[s].dirs)
        /\ \A i \in DOMAIN syncer[s].dirs : syncer[s].dirs[i] \in DOMAIN source
        /\ \A i \in DOMAIN syncer[s].dirs :
             syncer[s].dirs[i] \in DOMAIN copies /\ copies[syncer[s].dirs[i]] = source[syncer[s].dirs[i]]
        /\ \A o \in Starting \ {s} : ~Syncing(o)
    BY <1>1, <1>8, <2>1 DEF SyncInv, Alone
  <2>3. \A o \in Starting \ {s} : ~Syncing(o)'
    BY <1>3, <2>2 DEF Syncing, AtWork
  <2>4. QED
    BY <1>1, <1>2, <1>3, <2>2, <2>3 DEF Alone
<1>9. Alone(s)'
  BY <1>2, <1>3, <1>8 DEF Alone
<1>10. QED
  BY <1>1, <1>3, <1>4, <1>5, <1>7, <1>9, OthersDisturbed DEF SyncInv

\* A session told it is disturbed stands where it stood.
LEMMA DisturbedStays ==
  ASSUME SyncInv, NEW r \in Starting, syncer'[r] = Disturbed(r)
  PROVE  /\ syncer'[r] \in {NotSyncing} \cup Begun \cup Over
         /\ syncer'[r] = NotSyncing \/ syncer'[r].disturbed
         /\ syncer'[r] \in Begun =>
              /\ syncer[r] \in Begun /\ syncer'[r].dirs = syncer[r].dirs /\ syncer'[r].at = syncer[r].at
              /\ syncer'[r].left = syncer[r].left /\ syncer'[r].missed = syncer[r].missed
         /\ syncer'[r].step = syncer[r].step
<1>1. CASE syncer[r] = NotSyncing
  BY <1>1, SyncerFields DEF Disturbed
<1>2. CASE syncer[r] \in Begun
  <2>1. syncer'[r] = [syncer[r] EXCEPT !.disturbed = TRUE]
    BY <1>2, SyncerFields DEF Disturbed
  <2>2. /\ syncer'[r] \in Begun /\ syncer'[r].disturbed /\ syncer'[r].step = syncer[r].step
        /\ syncer'[r].dirs = syncer[r].dirs /\ syncer'[r].at = syncer[r].at
        /\ syncer'[r].left = syncer[r].left /\ syncer'[r].missed = syncer[r].missed
    BY <1>2, <2>1 DEF Begun
  <2>3. QED
    BY <1>2, <2>2
<1>3. CASE syncer[r] \in Over
  <2>1. syncer'[r] = [syncer[r] EXCEPT !.disturbed = TRUE]
    BY <1>3, SyncerFields DEF Disturbed
  <2>2. syncer'[r] \in Over /\ syncer'[r].disturbed /\ syncer'[r].step = syncer[r].step
    BY <1>3, <2>1 DEF Over
  <2>3. QED
    BY <2>2, SyncerFields
<1>4. QED
  BY <1>1, <1>2, <1>3 DEF SyncInv, SyncerType

\* So do the copies it has made, and those it will make whole.
LEMMA DisturbedKeeps ==
  ASSUME SyncInv, UNCHANGED <<copies, broken>>,
         NEW D \in SUBSET Starting, \A r \in D : syncer'[r] = Disturbed(r),
         \A t \in Starting \ D : ~AtWork(t)
  PROVE  /\ \A d \in Kept : d \in Kept'
         /\ \A r \in D : PastKept(r)' /\ Alone(r)' /\ (Syncing(r)' <=> Syncing(r))
         /\ \A r \in D : syncer'[r] \in Begun =>
              /\ syncer'[r].at <= Len(syncer'[r].dirs) + 1
              /\ AtWork(r)' => syncer'[r].at <= Len(syncer'[r].dirs)
<1>1. ASSUME NEW d \in Kept PROVE d \in Kept'
  <2>1. CASE IsDraft(d) \/ d \in broken \/ (d \in DOMAIN copies /\ copies[d] = Pack)
    BY <2>1 DEF Kept, Pack
  <2>2. ASSUME NEW t \in Starting, Mends(t, d) PROVE d \in Kept'
    <3>1. t \in D /\ syncer'[t].step = syncer[t].step /\ AtWork(t)' /\ syncer'[t] # NotSyncing
      BY <2>2, DisturbedStays, SyncerFields DEF Mends, AtWork
    <3>2. syncer'[t] \in Begun
      BY <3>1, DisturbedStays, SyncerFields DEF AtWork
    <3>3. /\ syncer'[t].dirs = syncer[t].dirs /\ syncer'[t].at = syncer[t].at
          /\ syncer'[t].left = syncer[t].left /\ syncer'[t].missed = syncer[t].missed
      BY <3>1, <3>2, DisturbedStays
    <3>4. Dir(t)' = d
      BY <2>2, <3>3 DEF Mends, Dir
    <3>5. Mends(t, d)'
      BY <2>2, <3>1, <3>3, <3>4 DEF Mends
    <3>6. QED
      BY <3>5 DEF Kept
  <2>3. QED
    BY <2>1, <2>2 DEF Kept
<1>2. ASSUME NEW r \in D
      PROVE  /\ PastKept(r)' /\ Alone(r)' /\ (Syncing(r)' <=> Syncing(r))
             /\ syncer'[r] \in Begun =>
                  /\ syncer'[r].at <= Len(syncer'[r].dirs) + 1
                  /\ AtWork(r)' => syncer'[r].at <= Len(syncer'[r].dirs)
  <2>1. /\ syncer'[r] = NotSyncing \/ syncer'[r].disturbed
        /\ syncer'[r] \in Begun =>
             syncer[r] \in Begun /\ syncer'[r].dirs = syncer[r].dirs /\ syncer'[r].at = syncer[r].at
        /\ syncer'[r].step = syncer[r].step
    BY DisturbedStays
  <2>2. (AtWork(r)' <=> AtWork(r)) /\ (Syncing(r)' <=> Syncing(r))
    BY <2>1 DEF AtWork, Syncing
  <2>3. Alone(r)'
    BY <2>1 DEF Alone
  <2>4. PastKept(r)'
    <3>1. SUFFICES ASSUME syncer'[r] \in Begun, NEW i \in Past(r)' PROVE syncer'[r].dirs[i] \in Kept'
      BY DEF PastKept
    <3>2. i \in Past(r) /\ syncer[r].dirs[i] \in Kept
      BY <2>1, <2>2, <3>1 DEF Past, SyncInv, PastKept
    <3>3. QED
      BY <1>1, <2>1, <3>1, <3>2
  <2>5. QED
    BY <2>1, <2>2, <2>3, <2>4 DEF SyncInv, SyncerType
<1>3. QED
  BY <1>1, <1>2

LEMMA ChangeStep ==
  ASSUME SyncInv, syncer' = [r \in Starting |-> Disturbed(r)], UNCHANGED <<copies, broken>>
  PROVE  SyncInv'
<1>1. \A r \in Starting : syncer'[r] = Disturbed(r)
  OBVIOUS
<1>2. \A r \in Starting : syncer'[r] \in {NotSyncing} \cup Begun \cup Over
  BY <1>1, DisturbedStays
<1>3. /\ \A r \in Starting : PastKept(r)' /\ Alone(r)'
      /\ \A r \in Starting : syncer'[r] \in Begun =>
           /\ syncer'[r].at <= Len(syncer'[r].dirs) + 1
           /\ AtWork(r)' => syncer'[r].at <= Len(syncer'[r].dirs)
  BY <1>1, DisturbedKeeps
<1>4. SyncerType'
  BY <1>2, <1>3 DEF SyncerType
<1>5. CopiesType'
  BY DEF SyncInv, CopiesType, IsFn
<1>6. QED
  BY <1>3, <1>4, <1>5 DEF SyncInv

LEMMA StartSyncStep ==
  ASSUME SourceInv, SyncInv, NEW s \in Starting, StartSync(s)
  PROVE  SyncInv'
<1> DEFINE dirs == SetToSeq(DOMAIN source)
           cut == \E d \in DOMAIN source : source[d] = Cut
           next == [step |-> "next", dirs |-> dirs, at |-> 1, left |-> {},
                    missed |-> FALSE, disturbed |-> \E o \in Starting : Syncing(o)]
           refused == [step |-> "refused", disturbed |-> FALSE]
           u == IF cut THEN refused ELSE next
<1>1. IsInjective(dirs) /\ dirs \in Seq(DOMAIN source) /\ dirs \in Seq(Dirs)
  <2>1. DOMAIN source \subseteq Dirs
    BY DEF SourceInv
  <2>2. IsInjective(dirs) /\ dirs \in Seq(DOMAIN source)
    BY ListedOnce DEF SourceInv
  <2> HIDE DEF dirs
  <2>3. dirs \in Seq(Dirs)
    BY <2>1, <2>2
  <2>4. QED
    BY <2>2, <2>3
<1>2. /\ syncer[s] = NotSyncing /\ UNCHANGED <<source, copies, broken>>
      /\ syncer' = [r \in Starting |-> IF r # s THEN Disturbed(r) ELSE u]
  BY DEF StartSync
<1> HIDE DEF dirs, cut
<1>3. next \in Begun /\ refused \in Over
  BY <1>1 DEF Begun, Over
<1>4. /\ next.step = "next" /\ next.dirs = dirs /\ next.at = 1 /\ refused.step = "refused"
      /\ (~next.disturbed => \A o \in Starting : ~Syncing(o))
  OBVIOUS
<1> HIDE DEF next, refused
<1>5. /\ syncer'[s] = u /\ \A r \in Starting \ {s} : syncer'[r] = Disturbed(r)
  BY <1>2
<1>6. ~AtWork(s) /\ ~Syncing(s)
  BY <1>2, SyncerFields DEF AtWork, Syncing
<1>7. /\ \A r \in Starting \ {s} : PastKept(r)' /\ Alone(r)' /\ (Syncing(r)' <=> Syncing(r))
      /\ \A r \in Starting \ {s} : syncer'[r] \in Begun =>
           /\ syncer'[r].at <= Len(syncer'[r].dirs) + 1
           /\ AtWork(r)' => syncer'[r].at <= Len(syncer'[r].dirs)
  <2> DEFINE D == Starting \ {s}
  <2>1. D \in SUBSET Starting /\ (\A r \in D : syncer'[r] = Disturbed(r)) /\ \A t \in Starting \ D : ~AtWork(t)
    BY <1>5, <1>6
  <2> HIDE DEF D
  <2>2. /\ \A r \in D : PastKept(r)' /\ Alone(r)' /\ (Syncing(r)' <=> Syncing(r))
        /\ \A r \in D : syncer'[r] \in Begun =>
             /\ syncer'[r].at <= Len(syncer'[r].dirs) + 1
             /\ AtWork(r)' => syncer'[r].at <= Len(syncer'[r].dirs)
    BY <1>2, <2>1, DisturbedKeeps
  <2>3. QED
    BY <2>2 DEF D
<1>8. \A r \in Starting \ {s} : syncer'[r] \in {NotSyncing} \cup Begun \cup Over
  BY <1>5, DisturbedStays
<1>9. CopiesType'
  BY <1>2 DEF SyncInv, CopiesType, IsFn
<1>10. CASE cut
  <2>1. syncer'[s] = refused /\ refused \notin Begun
    BY <1>3, <1>5, <1>10, SyncerFields
  <2>2. PastKept(s)'
    BY <2>1 DEF PastKept
  <2>3. \E d \in DOMAIN source' : source'[d] = Cut
    BY <1>2, <1>10 DEF cut
  <2>4. Alone(s)'
    BY <1>4, <2>1, <2>3 DEF Alone, Cut
  <2>5. SyncerType'
    BY <1>2, <1>3, <1>7, <1>8, <2>1 DEF SyncerType
  <2>6. QED
    BY <1>7, <1>9, <2>2, <2>4, <2>5 DEF SyncInv
<1>11. CASE ~cut
  <2>1. syncer'[s] = next
    BY <1>5, <1>11
  <2>2. Past(s)' = {} /\ ~AtWork(s)'
    BY <1>4, <2>1 DEF Past, AtWork
  <2>3. PastKept(s)'
    BY <2>2 DEF PastKept
  <2>4. (\A i \in DOMAIN dirs : ~(i < 1) /\ dirs[i] \in DOMAIN source') /\ Len(dirs) \in Nat
    BY <1>1, <1>2
  <2>5. ~next.disturbed => \A o \in Starting \ {s} : ~Syncing(o)'
    BY <1>4, <1>7
  <2>6. Alone(s)'
    BY <1>1, <1>4, <2>1, <2>4, <2>5 DEF Alone
  <2>7. SyncerType'
    BY <1>2, <1>3, <1>4, <1>7, <1>8, <2>1, <2>2, <2>4 DEF SyncerType
  <2>8. QED
    BY <1>7, <1>9, <2>3, <2>6, <2>7 DEF SyncInv
<1>12. QED
  BY <1>10, <1>11

LEMMA LeaveStep ==
  ASSUME SourceInv, SyncInv, NEW s \in Starting, Leave(s)
  PROVE  SyncInv'
<1>1. /\ syncer'[s] = NotSyncing /\ \A r \in Starting \ {s} : syncer'[r] = syncer[r]
      /\ UNCHANGED <<source, copies>>
      /\ broken' = IF AtWork(s) THEN broken \cup {Dir(s)} ELSE broken
  BY DEF Leave, SyncInv, SyncerType
<1>2. SyncerType'
  <2>1. syncer' \in [Starting -> {NotSyncing} \cup Begun \cup Over]
    BY DEF Leave, SyncInv, SyncerType
  <2>2. ASSUME NEW r \in Starting, syncer'[r] \in Begun
        PROVE  syncer'[r].at <= Len(syncer'[r].dirs) + 1 /\ (AtWork(r)' => syncer'[r].at <= Len(syncer'[r].dirs))
    <3>1. r # s /\ syncer'[r] = syncer[r]
      BY <1>1, <2>2, SyncerFields
    <3>2. QED
      BY <2>2, <3>1 DEF SyncInv, SyncerType, AtWork
  <2>3. QED
    BY <2>1, <2>2 DEF SyncerType
<1>3. CopiesType'
  BY <1>1 DEF CopiesType, SyncInv, IsFn
<1>4. ASSUME NEW d \in Kept PROVE d \in Kept'
  <2>1. CASE AtWork(s) /\ Dir(s) = d
    BY <1>1, <2>1 DEF Kept
  <2>2. CASE ~(AtWork(s) /\ Dir(s) = d)
    BY <1>1, <2>2, KeptElsewhere DEF Elsewhere
  <2>3. QED
    BY <2>1, <2>2
<1>5. \A o \in Starting : Syncing(o)' => Syncing(o)
  BY <1>1, SyncerFields DEF Syncing, AtWork
<1>6. ASSUME NEW r \in Starting PROVE PastKept(r)' /\ Alone(r)'
  <2>1. CASE r = s
    BY <1>1, <2>1, SyncerFields DEF PastKept, Alone
  <2>2. CASE r # s
    <3>1. syncer'[r] = syncer[r] /\ Dir(r)' = Dir(r) /\ Past(r)' = Past(r)
      BY <1>1, <2>2 DEF Dir, Past, AtWork
    <3>2. PastKept(r)'
      BY <1>4, <3>1 DEF SyncInv, PastKept
    <3>3. Alone(r)'
      BY <1>1, <1>5, <3>1 DEF SyncInv, Alone
    <3>4. QED
      BY <3>2, <3>3
  <2>3. QED
    BY <2>1, <2>2
<1>7. QED
  BY <1>2, <1>3, <1>6 DEF SyncInv

LEMMA SyncStep == SourceInv /\ SyncInv /\ [PacksNext]_packs => SyncInv'
<1> SUFFICES ASSUME SourceInv, SyncInv, [PacksNext]_packs PROVE SyncInv'
  OBVIOUS
<1>1. ASSUME UNCHANGED <<source, copies, syncer, broken>> PROVE SyncInv'
  BY <1>1 DEF SyncInv, SyncerType, CopiesType, IsFn, Alone, PastKept, Past, Kept, Mends, AtWork, Syncing, Dir
<1>2. ASSUME NEW new, Changes(new) PROVE SyncInv'
  BY <1>2, ChangeStep DEF Changes
<1>3. ASSUME NEW t \in Themes, OpenDraft(t) \/ WriteDraft(t) \/ Review(t) PROVE SyncInv'
  BY <1>2, <1>3 DEF OpenDraft, WriteDraft, Review
<1>4. CASE UNCHANGED packs
  BY <1>1, <1>4 DEF packs
<1>5. ASSUME NEW themes \in SUBSET Themes, Author(themes) PROVE SyncInv'
  BY <1>1, <1>5 DEF Author
<1>6. CASE AuthorDies
  BY <1>1, <1>6 DEF AuthorDies
<1> QED
  BY <1>3, <1>4, <1>5, <1>6, RmFilesStep, RmDirStep, MakeDirStep, CopyFileStep, CopiedStep, EndSyncStep,
     StartSyncStep, LeaveStep
  DEF PacksNext

\* What the invariants say of a session: nothing a draft did to a reviewed pack, every
\* pack of one nobody disturbed, and a failure for every damaged copy.
LEMMA PacksImplied == SourceInv /\ SyncInv => PacksAreTrue
<1> SUFFICES ASSUME SourceInv, SyncInv PROVE PacksAreTrue
  OBVIOUS
<1>1. DraftsDoNotShadow
  BY DEF SourceInv, DraftsDoNotShadow
<1>2. SyncIsWhole
  <2>1. ASSUME NEW s \in Starting, syncer[s] # NotSyncing, ~syncer[s].disturbed
        PROVE  /\ syncer[s].step # "failed"
               /\ syncer[s].step = "refused" => \E d \in DOMAIN source : source[d] = Cut
               /\ syncer[s].step = "synced" =>
                    \A i \in DOMAIN syncer[s].dirs :
                      syncer[s].dirs[i] \in DOMAIN copies /\ copies[syncer[s].dirs[i]] = source[syncer[s].dirs[i]]
    BY <2>1 DEF SyncInv, Alone
  <2>2. QED
    BY <2>1 DEF SyncIsWhole
<1>3. DamageShows
  <2>1. SUFFICES ASSUME NEW s \in Starting, Syncing(s) \/ syncer[s].step = "synced",
                        NEW i \in 1..(syncer[s].at - 1), NEW d, d = syncer[s].dirs[i]
                 PROVE  \/ IsDraft(d) \/ d \in broken
                        \/ d \in DOMAIN copies /\ copies[d] = Pack
                        \/ \E t \in Starting : AtWork(t) /\ Dir(t) = d
    BY DEF DamageShows
  <2>2. syncer[s] \in Begun /\ syncer[s].at \in Nat \ {0}
    BY <2>1, WorkFields DEF SyncInv, Syncing
  <2>3. i \in Past(s)
    BY <2>2 DEF Past
  <2>4. d \in Kept
    BY <2>1, <2>2, <2>3 DEF SyncInv, PastKept
  <2>5. QED
    BY <2>4 DEF Kept, Mends
<1>4. QED
  BY <1>1, <1>2, <1>3 DEF PacksAreTrue

\* Drafts leave the packs a person reviewed alone, a session beside which nothing
\* changed ends with every pack as it is, and sessions side by side damage a copy only
\* with a failure to show for it: for any themes, packs of any files, any number of
\* sessions, and an author and sessions that die anywhere.
THEOREM PacksHold == StoresSpec => []PacksAreTrue
<1>1. StoresInit => SourceInv /\ SyncInv
  <2> SUFFICES ASSUME StoresInit PROVE SourceInv /\ SyncInv
    OBVIOUS
  <2>1. PacksInit
    BY DEF StoresInit
  <2>2. SourceInv
    <3>1. PICK had \in SUBSET Themes :
            IsFiniteSet(had) /\ source = [d \in {Reviewed(t) : t \in had} |-> Pack]
      BY <2>1 DEF PacksInit
    <3>2. DOMAIN source = {Reviewed(t) : t \in had} /\ IsFn(source) /\ \A d \in DOMAIN source : source[d] = Pack
      BY <3>1 DEF IsFn
    <3>3. IsFiniteSet(DOMAIN source)
      <4> DEFINE f == [t \in had |-> Reviewed(t)]
      <4>1. f \in Surjection(had, {Reviewed(t) : t \in had})
        BY DEF Surjection
      <4>2. QED
        BY <3>1, <3>2, <4>1, FS_Surjection
    <3>4. QED
      BY <3>2, <3>3, DirIsDraft DEF SourceInv, Dirs
  <2>3. syncer = [s \in Starting |-> NotSyncing] /\ copies = <<>>
    BY <2>1 DEF PacksInit
  <2>4. SyncInv
    BY <2>3, SyncerFields, EmptyCopy DEF SyncInv, SyncerType, CopiesType, Alone, PastKept
  <2>5. QED
    BY <2>2, <2>4
<1>2. [StoresNext]_stores => [PacksNext]_packs
  BY DEF StoresNext, stores
<1> QED
  BY <1>1, <1>2, PacksImplied, SourceStep, SyncStep, PTL DEF StoresSpec

-----------------------------------------------------------------------------
(* The shared files. *)

LocalEdit == Edit("registry", "put", "local")
EditOf(p) == job[p].step \in {"loaded", "opened"}
HoldsConfig(p) == job[p].step \in {"pinning", "applying"}

\* A record that keeps its other fields when its step changes.
IsJob(j) == j = [x \in DOMAIN j |-> j[x]] /\ "step" \in DOMAIN j
IsConfig(c) == c = [host |-> c.host, class |-> c.class, default |-> c.default]
                 /\ c.default \in BOOLEAN

JobsAreEdits ==
  /\ job = [p \in Procs |-> job[p]] /\ \A p \in Procs : IsJob(job[p])
  /\ disk = [f \in Rewritten |-> disk[f]] /\ due = [f \in Rewritten |-> due[f]]
  /\ \A p \in Procs : EditOf(p) => job[p].edit \in Edits \cup {LocalEdit}
  /\ IsConfig(config) /\ \A p \in Procs : HoldsConfig(p) => IsConfig(job[p].copy)
  /\ due_host = [pin |-> due_host.pin, raced |-> due_host.raced, left |-> due_host.left]
  /\ due_host.raced \in BOOLEAN /\ due_host.left \in BOOLEAN

\* A file no two edits overlapped on has at most one editor, which read what the
\* file was due to hold.
EditsInv ==
  \A f \in Rewritten : f \notin clash =>
    /\ \A p, q \in Editing(f) : p = q
    /\ \A p \in Editing(f) :
         job[p].copy = due[f] /\ (job[p].step = "loaded" => disk[f] = due[f])
    /\ Editing(f) = {} => disk[f] = due[f]

\* Once some process has seen the local board made the default, it is registered,
\* or the process that made it so is about to register it.
LocalComes ==
  \/ "local" \in DOMAIN due["registry"]
  \/ \E p \in Procs : job[p].step = "register" \/ (EditOf(p) /\ job[p].edit = LocalEdit)
DefaultInv ==
  ~due_host.left =>
    /\ config.default => LocalComes
    /\ \A p \in Procs : HoldsConfig(p) /\ job[p].copy.default => LocalComes

FilesInv == JobsAreEdits /\ EditsInv /\ PinSurvives /\ DefaultInv

LEMMA EditFields ==
  \A e \in Edits \cup {LocalEdit} :
    /\ e.file \in Rewritten
    /\ e.file = "registry" => e.op \in {"add", "put", "remove"}
    /\ e.file # "registry" => e.op \in {"put", "recent"}
    /\ e.op = "remove" /\ e.key = "local" => e = Edit("registry", "remove", "local")
BY DEF Edits, LocalEdit, Edit, Rewritten

\* Only its removal takes the local board out of the registry.
LEMMA LocalStays ==
  ASSUME NEW content, NEW e \in Edits \cup {LocalEdit}, NEW n, e.file = "registry",
         e # Edit("registry", "remove", "local"),
         "local" \in DOMAIN content \/ e = LocalEdit
  PROVE  "local" \in DOMAIN Apply(content, e, n)
<1>1. e.op \in {"add", "put", "remove"} /\ (e.op = "remove" => e.key # "local")
  BY EditFields
<1>2. CASE e.op \in {"add", "put"}
  <2>1. DOMAIN Apply(content, e, n) = DOMAIN content \cup {e.key}
    BY <1>2 DEF Apply
  <2>2. QED
    BY <2>1 DEF LocalEdit, Edit
<1>3. CASE e.op = "remove"
  <2>1. DOMAIN Apply(content, e, n) = DOMAIN content \ {e.key}
    BY <1>3 DEF Apply
  <2>2. e # LocalEdit
    BY <1>3 DEF LocalEdit, Edit
  <2>3. QED
    BY <1>1, <1>3, <2>1, <2>2
<1>4. QED
  BY <1>1, <1>2, <1>3

\* A step of one process that starts, carries on and ends no edit.
LEMMA AsideOfFiles ==
  ASSUME FilesInv, NEW p \in Procs, NEW new, job' = [job EXCEPT ![p] = new], ~EditOf(p),
         IsJob(new), new.step \notin {"loaded", "opened"}, UNCHANGED <<disk, due, clash>>
  PROVE  /\ job' = [q \in Procs |-> job'[q]] /\ \A q \in Procs : IsJob(job'[q])
         /\ disk' = [f \in Rewritten |-> disk'[f]] /\ due' = [f \in Rewritten |-> due'[f]]
         /\ \A q \in Procs : EditOf(q)' => job'[q].edit \in Edits \cup {LocalEdit}
         /\ EditsInv'
         /\ \A q \in Procs : q # p => job'[q] = job[q]
         /\ job'[p] = new
<1>1. /\ job' = [q \in Procs |-> IF q = p THEN new ELSE job[q]]
      /\ \A q \in Procs : q # p => job'[q] = job[q]
      /\ job'[p] = new
  BY DEF FilesInv, JobsAreEdits
<1>2. \A f : Editing(f)' = Editing(f)
  BY <1>1 DEF Editing, EditOf
<1>3. \A f : \A q \in Editing(f) : job'[q] = job[q]
  BY <1>1 DEF Editing, EditOf
<1>4. EditsInv'
  BY <1>2, <1>3 DEF EditsInv, FilesInv
<1>5. job' = [q \in Procs |-> job'[q]]
  BY <1>1
<1>6. \A q \in Procs : IsJob(job'[q])
  BY <1>1 DEF FilesInv, JobsAreEdits
<1>7. \A q \in Procs : EditOf(q)' => job'[q].edit \in Edits \cup {LocalEdit}
  BY <1>1 DEF FilesInv, JobsAreEdits, EditOf
<1>8. QED
  BY <1>1, <1>4, <1>5, <1>6, <1>7 DEF FilesInv, JobsAreEdits

\* What is about to put the local board into the registry goes on being so, unless
\* it is the process that moves.
LEMMA LocalStillComes ==
  ASSUME JobsAreEdits, LocalComes, NEW p \in Procs, UNCHANGED due,
         \A q \in Procs : q # p => job'[q] = job[q],
         job[p].step # "register", ~EditOf(p)
  PROVE  LocalComes'
BY DEF LocalComes, EditOf

\* Setting up: the steps that write no shared file.
LEMMA SetupStep ==
  ASSUME FilesInv, NEW p \in Procs, NEW pin, NEW force, Setup(p, pin, force)
  PROVE  FilesInv'
<1> DEFINE new == [step |-> IF pin = "none" THEN "apply" ELSE "pin", pin |-> pin, force |-> force]
<1>1. job[p] = NoJob /\ job' = [job EXCEPT ![p] = new] /\ UNCHANGED <<disk, torn, config, due, clash, due_host>>
  BY DEF Setup
<1>2. ~EditOf(p) /\ job[p].step # "register" /\ ~HoldsConfig(p)
  BY <1>1 DEF EditOf, NoJob, HoldsConfig
<1>3. IsJob(new) /\ new.step \in {"apply", "pin"}
  BY DEF IsJob
<1> HIDE DEF new
<1>4. /\ job' = [q \in Procs |-> job'[q]] /\ \A q \in Procs : IsJob(job'[q])
      /\ disk' = [f \in Rewritten |-> disk'[f]] /\ due' = [f \in Rewritten |-> due'[f]]
      /\ \A q \in Procs : EditOf(q)' => job'[q].edit \in Edits \cup {LocalEdit}
      /\ EditsInv'
      /\ \A q \in Procs : q # p => job'[q] = job[q]
      /\ job'[p] = new
  BY <1>1, <1>2, <1>3, AsideOfFiles
<1>5. JobsAreEdits'
  BY <1>1, <1>3, <1>4 DEF FilesInv, JobsAreEdits, HoldsConfig, IsConfig
<1>6. PinSurvives'
  BY <1>1 DEF FilesInv, PinSurvives
<1>7. LocalComes => LocalComes'
  BY <1>1, <1>2, <1>4, LocalStillComes DEF FilesInv
<1>8. DefaultInv'
  BY <1>1, <1>3, <1>4, <1>7 DEF FilesInv, DefaultInv, HoldsConfig
<1>9. QED
  BY <1>4, <1>5, <1>6, <1>8 DEF FilesInv

LEMMA ReadConfigStep ==
  ASSUME FilesInv, NEW p \in Procs, NEW from, NEW to, ReadConfig(p, from, to),
         from \in {"pin", "apply"}, to \in {"pinning", "applying"}
  PROVE  FilesInv'
<1> DEFINE new == [step |-> to, pin |-> job[p].pin, force |-> job[p].force, copy |-> config]
<1>1. job[p].step = from /\ job' = [job EXCEPT ![p] = new] /\ UNCHANGED <<disk, torn, config, due, clash, due_host>>
  BY DEF ReadConfig
<1>2. ~EditOf(p) /\ job[p].step # "register" /\ ~HoldsConfig(p)
  BY <1>1 DEF EditOf, HoldsConfig
<1>3. IsJob(new) /\ new.step = to /\ new.copy = config
  BY DEF IsJob
<1> HIDE DEF new
<1>4. /\ job' = [q \in Procs |-> job'[q]] /\ \A q \in Procs : IsJob(job'[q])
      /\ disk' = [f \in Rewritten |-> disk'[f]] /\ due' = [f \in Rewritten |-> due'[f]]
      /\ \A q \in Procs : EditOf(q)' => job'[q].edit \in Edits \cup {LocalEdit}
      /\ EditsInv'
      /\ \A q \in Procs : q # p => job'[q] = job[q]
      /\ job'[p] = new
  BY <1>1, <1>2, <1>3, AsideOfFiles
<1>5. JobsAreEdits'
  BY <1>1, <1>3, <1>4 DEF FilesInv, JobsAreEdits, HoldsConfig, IsConfig
<1>6. PinSurvives'
  BY <1>1 DEF FilesInv, PinSurvives
<1>7. LocalComes => LocalComes'
  BY <1>1, <1>2, <1>4, LocalStillComes DEF FilesInv
<1>8. DefaultInv'
  BY <1>1, <1>3, <1>4, <1>7 DEF FilesInv, DefaultInv, HoldsConfig
<1>9. QED
  BY <1>4, <1>5, <1>6, <1>8 DEF FilesInv

LEMMA PinHostStep ==
  ASSUME FilesInv, NEW p \in Procs, PinHost(p)
  PROVE  FilesInv'
<1> DEFINE new == [job[p] EXCEPT !.step = "apply"]
<1>1. /\ job[p].step = "pinning" /\ job' = [job EXCEPT ![p] = new]
      /\ UNCHANGED <<disk, torn, due, clash>>
      /\ config' = [host |-> "pinned", class |-> job[p].pin, default |-> job[p].copy.default]
      /\ due_host' = [due_host EXCEPT !.pin = job[p].pin, !.raced = Raced(p)]
  BY DEF PinHost
<1>2. ~EditOf(p) /\ job[p].step # "register" /\ HoldsConfig(p)
  BY <1>1 DEF EditOf, HoldsConfig
<1>3. IsJob(new) /\ new.step = "apply"
  BY DEF IsJob, FilesInv, JobsAreEdits
<1> HIDE DEF new
<1>4. /\ job' = [q \in Procs |-> job'[q]] /\ \A q \in Procs : IsJob(job'[q])
      /\ disk' = [f \in Rewritten |-> disk'[f]] /\ due' = [f \in Rewritten |-> due'[f]]
      /\ \A q \in Procs : EditOf(q)' => job'[q].edit \in Edits \cup {LocalEdit}
      /\ EditsInv'
      /\ \A q \in Procs : q # p => job'[q] = job[q]
      /\ job'[p] = new
  BY <1>1, <1>2, <1>3, AsideOfFiles
<1>5. /\ config' = [host |-> "pinned", class |-> job[p].pin, default |-> job[p].copy.default]
      /\ job[p].copy.default \in BOOLEAN
  BY <1>1, <1>2 DEF FilesInv, JobsAreEdits, IsConfig
<1>6. /\ due_host'.pin = job[p].pin /\ due_host'.raced = Raced(p) /\ due_host'.left = due_host.left
      /\ due_host' = [pin |-> due_host'.pin, raced |-> due_host'.raced, left |-> due_host'.left]
  BY <1>1 DEF FilesInv, JobsAreEdits
<1>7. Raced(p) \in BOOLEAN
  BY DEF Raced
<1>8. JobsAreEdits'
  BY <1>3, <1>4, <1>5, <1>6, <1>7 DEF FilesInv, JobsAreEdits, HoldsConfig, IsConfig
<1>9. PinSurvives'
  BY <1>5, <1>6 DEF PinSurvives
<1>10. LocalComes => LocalComes'
  BY <1>1, <1>2, <1>4, LocalStillComes DEF FilesInv
<1>11. DefaultInv'
  BY <1>2, <1>3, <1>4, <1>5, <1>6, <1>10 DEF FilesInv, DefaultInv, HoldsConfig
<1>12. QED
  BY <1>4, <1>8, <1>9, <1>11 DEF FilesInv

LEMMA ApplyConfigStep ==
  ASSUME FilesInv, NEW p \in Procs, ApplyConfig(p)
  PROVE  FilesInv'
<1> DEFINE found == DeriveConfig(DetectHost(Machine))
           new == IF found.local THEN [step |-> "register"] ELSE NoJob
           kept == Keeps(job[p].copy, job[p].force)
<1>1. /\ job[p].step = "applying" /\ job' = [job EXCEPT ![p] = new]
      /\ UNCHANGED <<disk, torn, due, clash>>
      /\ kept => UNCHANGED <<config, due_host>>
      /\ ~kept => /\ config' = [host |-> "detected", class |-> found.class,
                                default |-> job[p].copy.default \/ found.local]
                  /\ due_host' = [due_host EXCEPT !.raced = Raced(p)]
  BY DEF ApplyConfig
<1>2. ~EditOf(p) /\ job[p].step # "register" /\ HoldsConfig(p)
  BY <1>1 DEF EditOf, HoldsConfig
<1>3. IsJob(new) /\ new.step \in {"register", "idle"} /\ (found.local => new.step = "register")
  BY DEF IsJob, NoJob
<1>4. kept <=> Keeps(job[p].copy, job[p].force)
  OBVIOUS
<1> HIDE DEF new, found, kept
<1>5. /\ job' = [q \in Procs |-> job'[q]] /\ \A q \in Procs : IsJob(job'[q])
      /\ disk' = [f \in Rewritten |-> disk'[f]] /\ due' = [f \in Rewritten |-> due'[f]]
      /\ \A q \in Procs : EditOf(q)' => job'[q].edit \in Edits \cup {LocalEdit}
      /\ EditsInv'
      /\ \A q \in Procs : q # p => job'[q] = job[q]
      /\ job'[p] = new
  BY <1>1, <1>2, <1>3, AsideOfFiles
<1>6. /\ due_host'.pin = due_host.pin /\ due_host'.left = due_host.left
      /\ due_host'.raced = IF kept THEN due_host.raced ELSE Raced(p)
      /\ due_host' = [pin |-> due_host'.pin, raced |-> due_host'.raced, left |-> due_host'.left]
  BY <1>1 DEF FilesInv, JobsAreEdits
<1>7. Raced(p) \in BOOLEAN
  BY DEF Raced
<1>8. IsConfig(config') /\ (config'.default => config.default \/ job[p].copy.default \/ found.local)
  <2> DEFINE d == job[p].copy.default \/ found.local
  <2>1. d \in BOOLEAN /\ (d => job[p].copy.default \/ found.local)
    OBVIOUS
  <2>2. ~kept => config' = [host |-> "detected", class |-> found.class, default |-> d]
    BY <1>1
  <2> HIDE DEF d
  <2>3. QED
    BY <1>1, <2>1, <2>2 DEF FilesInv, JobsAreEdits, IsConfig
<1>9. JobsAreEdits'
  BY <1>3, <1>5, <1>6, <1>7, <1>8 DEF FilesInv, JobsAreEdits, HoldsConfig
<1>10. PinSurvives'
  <2>1. CASE kept
    BY <2>1, <1>1 DEF FilesInv, PinSurvives
  <2>2. CASE ~kept
    <3>1. SUFFICES ASSUME due_host'.pin # "none", ~due_host'.raced PROVE FALSE
      BY DEF PinSurvives
    <3>2. ~due_host.raced /\ job[p].copy = config
      BY <2>2, <3>1, <1>6 DEF Raced
    <3>3. config.host = "pinned"
      BY <3>1, <3>2, <1>6 DEF FilesInv, PinSurvives
    <3>4. QED
      BY <2>2, <3>2, <3>3, <1>4 DEF Keeps
  <2>3. QED
    BY <2>1, <2>2
<1>11. LocalComes => LocalComes'
  BY <1>1, <1>2, <1>5, LocalStillComes DEF FilesInv
<1>12. found.local => LocalComes'
  BY <1>3, <1>5 DEF LocalComes
<1>13. DefaultInv'
  BY <1>2, <1>3, <1>5, <1>6, <1>8, <1>11, <1>12 DEF FilesInv, DefaultInv, HoldsConfig
<1>14. QED
  BY <1>5, <1>9, <1>10, <1>13 DEF FilesInv

\* Process p takes an edit up: the file it read is its own until it writes it back.
LEMMA TakeUpStep ==
  ASSUME FilesInv, NEW p \in Procs, ~EditOf(p), ~HoldsConfig(p),
         NEW e \in Edits \cup {LocalEdit}, TakeUp(p, e),
         job[p].step = "register" => e = LocalEdit,
         UNCHANGED <<disk, torn, config, due, due_host>>
  PROVE  FilesInv'
<1> DEFINE f == e.file
           refused == Unreadable(f) \/ Refused(disk[f], e)
           held == [step |-> "loaded", edit |-> e, n |-> edits + 1, copy |-> disk[f]]
<1>1. /\ refused => job' = [job EXCEPT ![p] = NoJob] /\ UNCHANGED clash
      /\ ~refused => /\ job' = [job EXCEPT ![p] = held]
                     /\ clash' = IF Editing(f) = {} THEN clash ELSE clash \cup {f}
  BY DEF TakeUp
<1>2. f \in Rewritten
  BY EditFields
<1>3. e = LocalEdit => ~refused
  BY DEF LocalEdit, Edit, Unreadable, Refused
<1>4. /\ held.step = "loaded" /\ held.edit = e /\ held.copy = disk[f] /\ IsJob(held)
      /\ NoJob.step = "idle" /\ IsJob(NoJob)
  BY DEF NoJob, IsJob
<1> HIDE DEF f, refused, held
<1>5. PinSurvives'
  BY DEF FilesInv, PinSurvives
<1>6. CASE refused
  <2>1. /\ job' = [q \in Procs |-> job'[q]] /\ \A q \in Procs : IsJob(job'[q])
        /\ disk' = [g \in Rewritten |-> disk'[g]] /\ due' = [g \in Rewritten |-> due'[g]]
        /\ \A q \in Procs : EditOf(q)' => job'[q].edit \in Edits \cup {LocalEdit}
        /\ EditsInv'
        /\ \A q \in Procs : q # p => job'[q] = job[q]
        /\ job'[p] = NoJob
    BY <1>1, <1>4, <1>6, AsideOfFiles
  <2>2. JobsAreEdits'
    BY <1>4, <2>1 DEF FilesInv, JobsAreEdits, HoldsConfig, IsConfig
  <2>3. LocalComes => LocalComes'
    BY <1>3, <1>6, <2>1, LocalStillComes DEF FilesInv
  <2>4. DefaultInv'
    BY <1>4, <2>1, <2>3 DEF FilesInv, DefaultInv, HoldsConfig
  <2>5. QED
    BY <1>5, <2>1, <2>2, <2>4 DEF FilesInv
<1>7. CASE ~refused
  <2>1. /\ job' = [q \in Procs |-> IF q = p THEN held ELSE job[q]]
        /\ \A q \in Procs : q # p => job'[q] = job[q]
        /\ job'[p] = held
    BY <1>1, <1>7 DEF FilesInv, JobsAreEdits
  <2>2. JobsAreEdits'
    BY <1>4, <2>1 DEF FilesInv, JobsAreEdits, HoldsConfig, EditOf
  <2>3. Editing(f)' = Editing(f) \cup {p}
    BY <1>4, <2>1 DEF Editing, EditOf, f
  <2>4. \A g : g # f => Editing(g)' = Editing(g)
    BY <1>4, <2>1 DEF Editing, EditOf, f
  <2>5. \A g : p \notin Editing(g)
    BY DEF Editing, EditOf
  <2>6. EditsInv'
    <3>1. SUFFICES ASSUME NEW g \in Rewritten, g \notin clash'
                   PROVE  /\ \A q, r \in Editing(g)' : q = r
                          /\ \A q \in Editing(g)' :
                               job'[q].copy = due[g] /\ (job'[q].step = "loaded" => disk[g] = due[g])
                          /\ Editing(g)' = {} => disk[g] = due[g]
      BY Zenon DEF EditsInv
    <3>2. /\ g \notin clash
          /\ g = f => Editing(f) = {}
      BY <1>1, <1>7, <3>1
    <3>3. CASE g = f
      <4>1. disk[f] = due[f]
        BY <3>2, <3>3 DEF FilesInv, EditsInv
      <4>2. Editing(g)' = {p}
        BY <2>3, <3>2, <3>3
      <4>3. QED
        BY <1>4, <2>1, <3>3, <4>1, <4>2
    <3>4. CASE g # f
      <4>1. Editing(g)' = Editing(g) /\ \A q \in Editing(g) : job'[q] = job[q]
        BY <2>1, <2>4, <2>5, <3>4 DEF Editing
      <4>2. QED
        BY <3>2, <4>1 DEF FilesInv, EditsInv
    <3>5. QED
      BY <3>3, <3>4
  <2>7. LocalComes => LocalComes'
    BY <1>4, <2>1 DEF LocalComes, EditOf
  <2>8. DefaultInv'
    BY <1>4, <2>1, <2>7 DEF FilesInv, DefaultInv, HoldsConfig
  <2>9. QED
    BY <1>5, <2>2, <2>6, <2>8 DEF FilesInv
<1>8. QED
  BY <1>6, <1>7

\* The file is truncated: the edit goes on, with the copy it holds.
LEMMA OpenStep ==
  ASSUME FilesInv, NEW p \in Procs, Open(p)
  PROVE  FilesInv'
<1> DEFINE new == [job[p] EXCEPT !.step = "opened"]
           f == job[p].edit.file
<1>1. /\ job[p].step = "loaded" /\ job' = [job EXCEPT ![p] = new]
      /\ disk' = [disk EXCEPT ![f] = <<>>]
      /\ UNCHANGED <<config, edits, due, clash, due_host>>
  BY DEF Open
<1>2. IsJob(new) /\ new.step = "opened" /\ new.edit = job[p].edit /\ new.copy = job[p].copy
  BY DEF IsJob, FilesInv, JobsAreEdits
<1> HIDE DEF new
<1>3. /\ job' = [q \in Procs |-> IF q = p THEN new ELSE job[q]]
      /\ \A q \in Procs : q # p => job'[q] = job[q]
      /\ job'[p] = new
  BY <1>1 DEF FilesInv, JobsAreEdits
<1>4. EditOf(p) /\ job[p].edit \in Edits \cup {LocalEdit} /\ f \in Rewritten
  BY <1>1, EditFields DEF EditOf, FilesInv, JobsAreEdits
<1>5. p \in Editing(f) /\ \A g : g # f => p \notin Editing(g)
  BY <1>1 DEF Editing
<1> HIDE DEF f
<1>6. \A g \in Rewritten : g # f => disk'[g] = disk[g]
  BY <1>1 DEF FilesInv, JobsAreEdits
<1>7. JobsAreEdits'
  BY <1>1, <1>2, <1>3, <1>4 DEF FilesInv, JobsAreEdits, HoldsConfig, EditOf
<1>8. \A g : Editing(g)' = Editing(g)
  BY <1>1, <1>2, <1>3 DEF Editing, EditOf
<1>9. EditsInv'
  <2>1. SUFFICES ASSUME NEW g \in Rewritten, g \notin clash'
                 PROVE  /\ \A q, r \in Editing(g)' : q = r
                        /\ \A q \in Editing(g)' :
                             job'[q].copy = due'[g] /\ (job'[q].step = "loaded" => disk'[g] = due'[g])
                        /\ Editing(g)' = {} => disk'[g] = due'[g]
    BY Zenon DEF EditsInv
  <2>2. g \notin clash /\ due' = due /\ Editing(g)' = Editing(g)
    BY <1>1, <1>8, <2>1
  <2>3. CASE g = f
    <3>1. \A q \in Editing(g) : q = p
      BY <1>5, <2>2, <2>3 DEF FilesInv, EditsInv
    <3>2. job'[p].copy = due[g] /\ job'[p].step = "opened"
      BY <1>2, <1>3, <1>5, <2>2, <2>3 DEF FilesInv, EditsInv
    <3>3. QED
      BY <1>5, <2>2, <2>3, <3>1, <3>2
  <2>4. CASE g # f
    <3>1. disk'[g] = disk[g] /\ \A q \in Editing(g) : job'[q] = job[q]
      BY <1>3, <1>5, <1>6, <2>4 DEF Editing
    <3>2. QED
      BY <2>2, <3>1 DEF FilesInv, EditsInv
  <2>5. QED
    BY <2>3, <2>4
<1>10. PinSurvives'
  BY <1>1 DEF FilesInv, PinSurvives
<1>11. LocalComes => LocalComes'
  BY <1>1, <1>2, <1>3 DEF LocalComes, EditOf
<1>12. DefaultInv'
  BY <1>1, <1>2, <1>3, <1>11 DEF FilesInv, DefaultInv, HoldsConfig
<1>13. QED
  BY <1>7, <1>9, <1>10, <1>12 DEF FilesInv

\* The edit is written: what only it held is what the file was due to hold.
LEMMA WriteStep ==
  ASSUME FilesInv, NEW p \in Procs, Write(p)
  PROVE  FilesInv'
<1> DEFINE e == job[p].edit
           f == e.file
           n == job[p].n
           removal == e = Edit("registry", "remove", "local")
<1>1. /\ job[p].step = "opened" /\ job' = [job EXCEPT ![p] = NoJob]
      /\ disk' = [disk EXCEPT ![f] = Apply(job[p].copy, e, n)]
      /\ due' = [due EXCEPT ![f] = Apply(due[f], e, n)]
      /\ due_host' = IF removal THEN [due_host EXCEPT !.left = TRUE] ELSE due_host
      /\ UNCHANGED <<config, clash>>
  BY DEF Write
<1>2. /\ job' = [q \in Procs |-> IF q = p THEN NoJob ELSE job[q]]
      /\ \A q \in Procs : q # p => job'[q] = job[q]
      /\ job'[p] = NoJob
  BY <1>1 DEF FilesInv, JobsAreEdits
<1>3. EditOf(p) /\ e \in Edits \cup {LocalEdit} /\ f \in Rewritten
  BY <1>1, EditFields DEF EditOf, FilesInv, JobsAreEdits
<1>4. p \in Editing(f) /\ \A g : g # f => p \notin Editing(g)
  BY <1>1 DEF Editing
<1>5. /\ disk'[f] = Apply(job[p].copy, e, n) /\ due'[f] = Apply(due[f], e, n)
      /\ \A g \in Rewritten : g # f => disk'[g] = disk[g] /\ due'[g] = due[g]
      /\ disk' = [g \in Rewritten |-> disk'[g]] /\ due' = [g \in Rewritten |-> due'[g]]
  <2> DEFINE a == Apply(job[p].copy, e, n)
             b == Apply(due[f], e, n)
  <2>1. disk' = [disk EXCEPT ![f] = a] /\ due' = [due EXCEPT ![f] = b]
    BY <1>1
  <2>2. disk = [g \in Rewritten |-> disk[g]] /\ due = [g \in Rewritten |-> due[g]]
    BY DEF FilesInv, JobsAreEdits
  <2> HIDE DEF f, e, n, a, b
  <2>3. /\ disk'[f] = a /\ due'[f] = b
        /\ \A g \in Rewritten : g # f => disk'[g] = disk[g] /\ due'[g] = due[g]
    BY <1>3, <2>1, <2>2
  <2>4. /\ disk' = [g \in Rewritten |-> disk'[g]] /\ due' = [g \in Rewritten |-> due'[g]]
    BY <1>3, <2>1, <2>2
  <2>5. QED
    BY <2>3, <2>4 DEF a, b
<1>6. NoJob.step = "idle" /\ IsJob(NoJob)
  BY DEF NoJob, IsJob
<1>7. \A g : Editing(g)' = Editing(g) \ {p}
  BY <1>2, <1>6 DEF Editing
<1>8. removal => due_host'.left = TRUE
  BY <1>1 DEF FilesInv, JobsAreEdits
<1>9. LocalEdit.file = "registry"
  BY DEF LocalEdit, Edit
<1> HIDE DEF f, e, n, removal
<1>10. JobsAreEdits'
  BY <1>1, <1>2, <1>5, <1>6 DEF FilesInv, JobsAreEdits, HoldsConfig, EditOf
<1>11. EditsInv'
  <2>1. SUFFICES ASSUME NEW g \in Rewritten, g \notin clash'
                 PROVE  /\ \A q, r \in Editing(g)' : q = r
                        /\ \A q \in Editing(g)' :
                             job'[q].copy = due'[g] /\ (job'[q].step = "loaded" => disk'[g] = due'[g])
                        /\ Editing(g)' = {} => disk'[g] = due'[g]
    BY Zenon DEF EditsInv
  <2>2. g \notin clash /\ Editing(g)' = Editing(g) \ {p}
    BY <1>1, <1>7, <2>1
  <2>3. CASE g = f
    <3>1. Editing(g)' = {}
      BY <1>4, <2>2, <2>3 DEF FilesInv, EditsInv
    <3>2. job[p].copy = due[f]
      BY <1>4, <2>2, <2>3 DEF FilesInv, EditsInv
    <3>3. QED
      BY <1>5, <2>3, <3>1, <3>2
  <2>4. CASE g # f
    <3>1. Editing(g)' = Editing(g) /\ \A q \in Editing(g) : job'[q] = job[q]
      BY <1>2, <1>4, <2>2, <2>4 DEF Editing
    <3>2. QED
      BY <1>5, <2>2, <2>4, <3>1 DEF FilesInv, EditsInv
  <2>5. QED
    BY <2>3, <2>4
<1>12. PinSurvives'
  BY <1>1 DEF FilesInv, JobsAreEdits, PinSurvives
<1>13. LocalComes /\ ~removal => LocalComes'
  <2>1. SUFFICES ASSUME LocalComes, ~removal PROVE LocalComes'
    OBVIOUS
  <2>2. CASE f = "registry" /\ ("local" \in DOMAIN due["registry"] \/ e = LocalEdit)
    <3>1. "local" \in DOMAIN Apply(due["registry"], e, n)
      BY <1>3, <2>1, <2>2, LocalStays DEF f, removal
    <3>2. QED
      BY <1>5, <2>2, <3>1 DEF LocalComes
  <2>3. CASE f # "registry" /\ "local" \in DOMAIN due["registry"]
    BY <1>5, <2>3 DEF LocalComes, Rewritten
  <2>4. CASE \E q \in Procs : q # p /\ (job[q].step = "register" \/ (EditOf(q) /\ job[q].edit = LocalEdit))
    BY <1>2, <2>4 DEF LocalComes, EditOf
  <2>5. e = LocalEdit => f = "registry"
    BY <1>9 DEF f
  <2>6. QED
    BY <1>1, <2>1, <2>2, <2>3, <2>4, <2>5 DEF LocalComes, e
<1>14. DefaultInv'
  <2>1. removal => DefaultInv'
    BY <1>8 DEF DefaultInv
  <2>2. ~removal => DefaultInv'
    BY <1>1, <1>2, <1>6, <1>13 DEF FilesInv, DefaultInv, HoldsConfig
  <2>3. QED
    BY <2>1, <2>2
<1>15. QED
  BY <1>10, <1>11, <1>12, <1>14 DEF FilesInv

\* A process dies: what it had only read is still whole.
LEMMA KillStep ==
  ASSUME FilesInv, NEW p \in Procs, Kill(p)
  PROVE  FilesInv'
<1>1. /\ job' = [job EXCEPT ![p] = NoJob] /\ UNCHANGED <<disk, config, due>>
      /\ clash' = IF job[p].step = "opened" THEN clash \cup {job[p].edit.file} ELSE clash
      /\ due_host' = [due_host EXCEPT !.left = TRUE]
  BY DEF Kill
<1>2. /\ job' = [q \in Procs |-> IF q = p THEN NoJob ELSE job[q]]
      /\ \A q \in Procs : q # p => job'[q] = job[q]
      /\ job'[p] = NoJob
  BY <1>1 DEF FilesInv, JobsAreEdits
<1>3. NoJob.step = "idle" /\ IsJob(NoJob)
  BY DEF NoJob, IsJob
<1>4. \A g : Editing(g)' = Editing(g) \ {p}
  BY <1>2, <1>3 DEF Editing
<1>5. /\ due_host'.left = TRUE /\ due_host'.pin = due_host.pin /\ due_host'.raced = due_host.raced
      /\ due_host' = [pin |-> due_host'.pin, raced |-> due_host'.raced, left |-> due_host'.left]
  BY <1>1 DEF FilesInv, JobsAreEdits
<1>6. JobsAreEdits'
  BY <1>1, <1>2, <1>3, <1>5 DEF FilesInv, JobsAreEdits, HoldsConfig, EditOf
<1>7. EditsInv'
  <2>1. SUFFICES ASSUME NEW g \in Rewritten, g \notin clash'
                 PROVE  /\ \A q, r \in Editing(g)' : q = r
                        /\ \A q \in Editing(g)' :
                             job'[q].copy = due[g] /\ (job'[q].step = "loaded" => disk[g] = due[g])
                        /\ Editing(g)' = {} => disk[g] = due[g]
    BY <1>1, Zenon DEF EditsInv
  <2>2. g \notin clash /\ Editing(g)' = Editing(g) \ {p}
    BY <1>1, <1>4, <2>1
  <2>3. \A q \in Editing(g)' : q \in Editing(g) /\ job'[q] = job[q]
    BY <1>2, <2>2 DEF Editing
  <2>4. p \in Editing(g) => job[p].step = "loaded"
    BY <1>1, <2>1 DEF Editing
  <2>5. Editing(g)' = {} => disk[g] = due[g]
    BY <2>2, <2>4 DEF FilesInv, EditsInv
  <2>6. QED
    BY <2>2, <2>3, <2>5 DEF FilesInv, EditsInv
<1>8. PinSurvives'
  BY <1>1, <1>5 DEF FilesInv, PinSurvives
<1>9. DefaultInv'
  BY <1>5 DEF DefaultInv
<1>10. QED
  BY <1>6, <1>7, <1>8, <1>9 DEF FilesInv

LEMMA ClearStep ==
  ASSUME FilesInv, NEW p \in Procs, Clear(p)
  PROVE  FilesInv'
<1> DEFINE Cleared(q) == q \in Editing("history") /\ job[q].step = "opened"
<1>1. /\ disk' = [disk EXCEPT !["history"] = <<>>] /\ due' = [due EXCEPT !["history"] = <<>>]
      /\ job' = [q \in Procs |-> IF Cleared(q) THEN NoJob ELSE job[q]]
      /\ clash' = IF Editing("history") = {} THEN clash ELSE clash \cup {"history"}
      /\ UNCHANGED <<config, due_host>>
  BY DEF Clear
<1>2. /\ \A q \in Procs : job'[q] = IF Cleared(q) THEN NoJob ELSE job[q]
      /\ \A q \in Procs : Cleared(q) => job[q].edit.file = "history" /\ EditOf(q)
  BY <1>1 DEF Editing, EditOf
<1>3. NoJob.step = "idle" /\ IsJob(NoJob)
  BY DEF NoJob, IsJob
<1>4. /\ disk' = [f \in Rewritten |-> disk'[f]] /\ due' = [f \in Rewritten |-> due'[f]]
      /\ disk'["history"] = due'["history"]
      /\ \A f \in Rewritten : f # "history" => disk'[f] = disk[f] /\ due'[f] = due[f]
  BY <1>1 DEF FilesInv, JobsAreEdits, Rewritten
<1>5. JobsAreEdits'
  BY <1>1, <1>2, <1>3, <1>4 DEF FilesInv, JobsAreEdits, HoldsConfig, EditOf
<1>6. EditsInv'
  <2>1. SUFFICES ASSUME NEW g \in Rewritten, g \notin clash'
                 PROVE  /\ \A q, r \in Editing(g)' : q = r
                        /\ \A q \in Editing(g)' :
                             job'[q].copy = due'[g] /\ (job'[q].step = "loaded" => disk'[g] = due'[g])
                        /\ Editing(g)' = {} => disk'[g] = due'[g]
    BY Zenon DEF EditsInv
  <2>2. CASE g = "history"
    <3>1. Editing(g) = {}
      BY <1>1, <2>1, <2>2
    <3>2. Editing(g)' = {}
      BY <1>2, <1>3, <3>1 DEF Editing
    <3>3. QED
      BY <1>4, <2>2, <3>2
  <2>3. CASE g # "history"
    <3>1. g \notin clash
      BY <1>1, <2>1
    <3>2. Editing(g)' = Editing(g) /\ \A q \in Editing(g) : job'[q] = job[q]
      BY <1>2, <1>3, <2>3 DEF Editing
    <3>3. QED
      BY <1>4, <2>3, <3>1, <3>2 DEF FilesInv, EditsInv
  <2>4. QED
    BY <2>2, <2>3
<1>7. PinSurvives'
  BY <1>1 DEF FilesInv, PinSurvives
<1>8. DefaultInv'
  <2>1. LocalComes => LocalComes'
    <3>1. due'["registry"] = due["registry"]
      BY <1>4 DEF Rewritten
    <3>2. \A q \in Procs : job[q].step = "register" \/ (EditOf(q) /\ job[q].edit = LocalEdit) => ~Cleared(q)
      BY DEF Editing, LocalEdit, Edit
    <3>3. QED
      BY <1>2, <3>1, <3>2 DEF LocalComes, EditOf
  <2>2. \A q \in Procs : HoldsConfig(q)' => HoldsConfig(q) /\ job'[q] = job[q]
    BY <1>2, <1>3 DEF HoldsConfig
  <2>3. QED
    BY <1>1, <2>1, <2>2 DEF FilesInv, DefaultInv
<1>9. QED
  BY <1>5, <1>6, <1>7, <1>8 DEF FilesInv

LEMMA FilesStep == FilesInv /\ [FilesNext]_files => FilesInv'
<1> SUFFICES ASSUME FilesInv, [FilesNext]_files PROVE FilesInv'
  OBVIOUS
<1>1. ASSUME NEW p \in Procs, NEW e \in Edits, Load(p, e) PROVE FilesInv'
  BY <1>1, TakeUpStep DEF Load, NoJob, EditOf, HoldsConfig
<1>2. ASSUME NEW p \in Procs, RegisterLocal(p) PROVE FilesInv'
  BY <1>2, TakeUpStep DEF RegisterLocal, LocalEdit, EditOf, HoldsConfig
<1>3. CASE UNCHANGED files
  <2>1. UNCHANGED <<disk, config, job, due, clash, due_host>>
    BY <1>3 DEF files
  <2>2. /\ \A f : Editing(f)' = Editing(f)
        /\ \A p : EditOf(p)' = EditOf(p) /\ HoldsConfig(p)' = HoldsConfig(p)
        /\ LocalComes' = LocalComes
    BY <2>1 DEF Editing, EditOf, HoldsConfig, LocalComes
  <2>3. JobsAreEdits' /\ EditsInv'
    BY <2>1, <2>2 DEF FilesInv, JobsAreEdits, EditsInv
  <2>4. PinSurvives' /\ DefaultInv'
    BY <2>1, <2>2 DEF FilesInv, PinSurvives, DefaultInv
  <2>5. QED
    BY <2>3, <2>4 DEF FilesInv
<1>4. QED
  BY <1>1, <1>2, <1>3, SetupStep, ReadConfigStep, PinHostStep, ApplyConfigStep, OpenStep, WriteStep,
     ClearStep, KillStep DEF FilesNext

\* THEOREM.  Through any interleaving, overlap and death of any number of processes,
\* edits are lost only where two overlapped on a file or one died half-way, the
\* operator's pin is replaced only by a detection that had not seen it, and the default
\* board is registered once the setup that named it is through.
THEOREM FilesHold == StoresSpec => []FilesAreTrue
<1>1. FilesInit => FilesInv
  BY DEF FilesInit, FilesInv, JobsAreEdits, EditsInv, PinSurvives, DefaultInv, EditOf, HoldsConfig,
     Editing, IsConfig, IsJob, NoJob
<1>2. StoresInit => FilesInv
  BY <1>1 DEF StoresInit
<1>3. FilesInv /\ [StoresNext]_stores => FilesInv'
  BY FilesStep DEF StoresNext, stores, files
<1>4. FilesInv => FilesAreTrue
  <2>1. SUFFICES ASSUME FilesInv PROVE FilesAreTrue
    OBVIOUS
  <2>2. EditsSurvive
    BY <2>1 DEF FilesInv, EditsInv, EditsSurvive
  <2>3. DefaultIsRegistered
    <3>1. SUFFICES ASSUME config.default, ~due_host.left, "registry" \notin clash,
                          \A p \in Procs : job[p] = NoJob
                   PROVE  "local" \in DOMAIN disk["registry"]
      BY DEF DefaultIsRegistered
    <3>2. "local" \in DOMAIN due["registry"]
      BY <2>1, <3>1 DEF FilesInv, DefaultInv, LocalComes, NoJob, EditOf
    <3>3. Editing("registry") = {}
      BY <3>1 DEF Editing, NoJob
    <3>4. QED
      BY <2>2, <3>1, <3>2, <3>3 DEF EditsSurvive, Rewritten
  <2>4. QED
    BY <2>1, <2>2, <2>3 DEF FilesAreTrue, FilesInv
<1>5. QED
  BY <1>2, <1>3, <1>4, PTL DEF StoresSpec

-----------------------------------------------------------------------------
(***************************************************************************)
(* What a machine is taken for.                                            *)
(***************************************************************************)

\* A machine whose nvidia-smi is there on both calls or on neither.
Asked(m) ==
  /\ m = [x \in DOMAIN m |-> m[x]]
  /\ {"system", "tegra", "pi", "wsl", "container", "arm64", "hailo", "gpus", "ram", "runtime",
      "smi", "rocm"} \subseteq DOMAIN m
  /\ m.smi = <<m.smi[1], m.smi[2]>> /\ m.smi[1] \in Outcomes /\ m.smi[2] \in Outcomes
  /\ m.smi[1] = "absent" <=> m.smi[2] = "absent"
  /\ m.rocm \in Outcomes /\ m.gpus \in Nat
  /\ m.tegra \in BOOLEAN /\ m.hailo \in BOOLEAN /\ m.arm64 \in BOOLEAN

LEMMA AnsweringFields ==
  ASSUME NEW m, Asked(m)
  PROVE  LET a == Answering(m) IN
         /\ a.rocm = (IF m.rocm = "absent" THEN "absent" ELSE "answers")
         /\ a.smi[1] = (IF m.smi[1] = "absent" THEN "absent" ELSE "answers")
         /\ a.smi[2] = (IF m.smi[2] = "absent" THEN "absent" ELSE "answers")
         /\ a.system = m.system /\ a.tegra = m.tegra /\ a.pi = m.pi /\ a.wsl = m.wsl
         /\ a.container = m.container /\ a.arm64 = m.arm64 /\ a.hailo = m.hailo
         /\ a.gpus = m.gpus /\ a.ram = m.ram /\ a.runtime = m.runtime
BY DEF Answering, Asked

LEMMA ProbeFields ==
  ASSUME NEW does \in Outcomes, NEW b, b.spent \in Nat, b.truncated \in BOOLEAN
  PROVE  LET r == Probe(does, b) IN
         /\ r.ok <=> does = "answers" /\ b.spent < 2
         /\ r.spent = IF does = "hangs" /\ b.spent < 2 THEN b.spent + 1 ELSE b.spent
         /\ r.truncated <=> b.truncated \/ (does # "absent" /\ b.spent >= 2) \/ does = "hangs"
         /\ r.ok \in BOOLEAN /\ r.truncated \in BOOLEAN
<1> DEFINE late == does # "absent" /\ b.spent >= 2
           hung == does = "hangs" /\ ~late
           ok == does = "answers" /\ ~late
           truncated == b.truncated \/ late \/ hung
           spent == b.spent + (IF hung THEN 1 ELSE 0)
<1>1. Probe(does, b) = [ok |-> ok, spent |-> spent, truncated |-> truncated]
  BY DEF Probe, ProbeBudget
<1>2. /\ ok \in BOOLEAN /\ truncated \in BOOLEAN
      /\ ok <=> does = "answers" /\ b.spent < 2
      /\ truncated <=> b.truncated \/ (does # "absent" /\ b.spent >= 2) \/ does = "hangs"
      /\ spent = IF does = "hangs" /\ b.spent < 2 THEN b.spent + 1 ELSE b.spent
  OBVIOUS
<1> HIDE DEF ok, spent, truncated
<1>3. QED
  BY <1>1, <1>2

\* A first probe spends at most one timeout of the two: the next is still made.
LEMMA ProbesMade ==
  ASSUME NEW m, Asked(m)
  PROVE  LET n == NvidiaGpus(m) IN
         /\ n.probe.spent \in 0..2 /\ n.probe.truncated \in BOOLEAN /\ n.probe.ok \in BOOLEAN
         /\ n.gpus = IF n.probe.ok THEN m.gpus ELSE 0
         /\ n.noted <=> m.smi[1] # "absent" /\ (~n.probe.ok \/ m.gpus = 0)
         /\ n.probe.ok => m.smi[1] # "absent"
         /\ m.smi[1] = "absent" => n.probe.spent = 0 /\ ~n.probe.truncated
         /\ m.smi[1] = "answers" => n.probe.ok /\ n.probe.spent = 0 /\ ~n.probe.truncated
<1> DEFINE first == Probe(m.smi[1], Untried)
           again == Probe(m.smi[2], first)
           final == IF first.ok \/ m.smi[1] = "absent" THEN first ELSE again
           noted == m.smi[1] # "absent" /\ (~final.ok \/ m.gpus = 0)
<1>1. NvidiaGpus(m) = [probe |-> final, gpus |-> IF final.ok THEN m.gpus ELSE 0, noted |-> noted]
  BY DEF NvidiaGpus
<1>2. m.smi[1] \in Outcomes /\ m.smi[2] \in Outcomes
  BY DEF Asked
<1>3. /\ first.ok <=> m.smi[1] = "answers"
      /\ first.spent = IF m.smi[1] = "hangs" THEN 1 ELSE 0
      /\ first.truncated <=> m.smi[1] = "hangs"
      /\ first.ok \in BOOLEAN /\ first.truncated \in BOOLEAN
  <2>1. Untried.spent = 0 /\ Untried.truncated \in BOOLEAN /\ ~Untried.truncated
    BY DEF Untried
  <2>2. \A d \in Outcomes :
          /\ Probe(d, Untried).ok <=> d = "answers"
          /\ Probe(d, Untried).spent = IF d = "hangs" THEN 1 ELSE 0
          /\ Probe(d, Untried).truncated <=> d = "hangs"
          /\ Probe(d, Untried).ok \in BOOLEAN /\ Probe(d, Untried).truncated \in BOOLEAN
    <3>1. \A u : u.spent = 0 /\ u.truncated \in BOOLEAN /\ ~u.truncated =>
            \A d \in Outcomes :
              /\ Probe(d, u).ok <=> d = "answers"
              /\ Probe(d, u).spent = IF d = "hangs" THEN 1 ELSE 0
              /\ Probe(d, u).truncated <=> d = "hangs"
              /\ Probe(d, u).ok \in BOOLEAN /\ Probe(d, u).truncated \in BOOLEAN
      BY ProbeFields DEF Outcomes
    <3>2. QED
      BY <2>1, <3>1
  <2>3. QED
    BY <1>2, <2>2
<1> HIDE DEF first
<1>4. /\ again.ok \in BOOLEAN /\ again.truncated \in BOOLEAN /\ again.spent \in 0..2
  BY <1>2, <1>3, ProbeFields
<1> HIDE DEF again
<1>5. /\ final.spent \in 0..2 /\ final.truncated \in BOOLEAN /\ final.ok \in BOOLEAN
      /\ m.smi[1] = "absent" => ~final.ok /\ final.spent = 0 /\ ~final.truncated
      /\ m.smi[1] = "answers" => final.ok /\ final.spent = 0 /\ ~final.truncated
  BY <1>2, <1>3, <1>4
<1> HIDE DEF final
<1>6. noted \in BOOLEAN /\ (noted <=> m.smi[1] # "absent" /\ (~final.ok \/ m.gpus = 0))
  OBVIOUS
<1> HIDE DEF noted
<1>7. QED
  BY <1>1, <1>5, <1>6

\* Asked without a note, or with nothing but answers, the accelerator is told from what
\* the machine has.
Has(m) ==
  IF m.tegra THEN "tegra"
  ELSE IF m.smi[1] # "absent" /\ m.gpus > 0
       THEN (IF m.gpus > 1 THEN "multi-gpu" ELSE "cuda-discrete")
  ELSE IF m.hailo THEN "hailo"
  ELSE IF m.system = "Darwin" /\ m.arm64 THEN "apple-silicon"
  ELSE IF m.rocm # "absent" THEN "rocm" ELSE "none"

LEMMA ToldFromWhatItHas ==
  ASSUME NEW m, Asked(m), m.rocm # "fails",
         \/ ~DetectGpus(m).noted /\ ~DetectGpus(m).truncated
         \/ m.smi[1] \in {"absent", "answers"} /\ m.rocm \in {"absent", "answers"}
  PROVE  DetectGpus(m).accelerator = Has(m)
<1> DEFINE n == NvidiaGpus(m)
           r == Probe(m.rocm, n.probe)
           found(kind, truncated, noted) ==
             [accelerator |-> kind, truncated |-> truncated, noted |-> noted]
<1>1. DetectGpus(m) =
        IF m.tegra THEN found("tegra", FALSE, FALSE)
        ELSE IF n.gpus > 0
             THEN found(IF n.gpus > 1 THEN "multi-gpu" ELSE "cuda-discrete", n.probe.truncated, n.noted)
        ELSE IF m.hailo THEN found("hailo", n.probe.truncated, n.noted)
        ELSE IF m.system = "Darwin" /\ m.arm64
             THEN found("apple-silicon", n.probe.truncated, n.noted)
        ELSE found(IF r.ok THEN "rocm" ELSE "none", r.truncated, n.noted)
  BY DEF DetectGpus
<1>2. /\ n.probe.spent \in 0..2 /\ n.probe.truncated \in BOOLEAN /\ n.probe.ok \in BOOLEAN
      /\ n.gpus = IF n.probe.ok THEN m.gpus ELSE 0
      /\ n.noted <=> m.smi[1] # "absent" /\ (~n.probe.ok \/ m.gpus = 0)
      /\ n.probe.ok => m.smi[1] # "absent"
      /\ m.smi[1] = "absent" => n.probe.spent = 0 /\ ~n.probe.truncated
      /\ m.smi[1] = "answers" => n.probe.ok /\ n.probe.spent = 0 /\ ~n.probe.truncated
  BY ProbesMade
<1>3. /\ r.ok => m.rocm # "absent"
      /\ ~r.truncated /\ m.rocm # "fails" => (r.ok <=> m.rocm # "absent")
      /\ n.probe.spent = 0 /\ ~n.probe.truncated /\ m.rocm \in {"absent", "answers"} => ~r.truncated
  <2> DEFINE b == n.probe
  <2>1. b.spent \in 0..2 /\ b.truncated \in BOOLEAN /\ m.rocm \in Outcomes
    BY <1>2 DEF Asked
  <2> HIDE DEF b
  <2>2. /\ Probe(m.rocm, b).ok => m.rocm # "absent"
        /\ ~Probe(m.rocm, b).truncated /\ m.rocm # "fails" => (Probe(m.rocm, b).ok <=> m.rocm # "absent")
        /\ b.spent = 0 /\ ~b.truncated /\ m.rocm \in {"absent", "answers"} => ~Probe(m.rocm, b).truncated
    BY <2>1, ProbeFields DEF Outcomes
  <2>3. QED
    BY <2>2 DEF b
<1> HIDE DEF n, r
<1>4. CASE m.tegra
  BY <1>1, <1>4 DEF Has
<1>5. CASE ~m.tegra
  <2>1. m.gpus \in Nat /\ m.hailo \in BOOLEAN /\ m.arm64 \in BOOLEAN
    BY DEF Asked
  <2>2. n.gpus > 0 <=> m.smi[1] # "absent" /\ m.gpus > 0
    <3>1. CASE n.gpus > 0
      BY <1>2, <2>1, <3>1
    <3>2. CASE ~(n.gpus > 0)
      <4>1. DetectGpus(m).noted <=> n.noted
        BY <1>1, <1>5, <3>2
      <4>2. QED
        BY <1>2, <2>1, <3>2, <4>1
    <3>3. QED
      BY <3>1, <3>2
  <2>3. CASE n.gpus > 0
    BY <1>1, <1>2, <1>5, <2>1, <2>2, <2>3 DEF Has
  <2>4. CASE ~(n.gpus > 0) /\ (m.hailo \/ (m.system = "Darwin" /\ m.arm64))
    BY <1>1, <1>5, <2>2, <2>4 DEF Has
  <2>5. CASE ~(n.gpus > 0) /\ ~(m.hailo \/ (m.system = "Darwin" /\ m.arm64))
    <3>1. DetectGpus(m) = found(IF r.ok THEN "rocm" ELSE "none", r.truncated, n.noted)
      BY <1>1, <1>5, <2>5
    <3>2. r.ok <=> m.rocm # "absent"
      BY <1>2, <1>3, <3>1
    <3>3. QED
      BY <1>5, <2>2, <2>5, <3>1, <3>2 DEF Has
  <2>6. QED
    BY <2>3, <2>4, <2>5
<1>6. QED
  BY <1>4, <1>5

LEMMA AnsweringIsAsked ==
  ASSUME NEW m, Asked(m)
  PROVE  Asked(Answering(m)) /\ Has(Answering(m)) = Has(m)
<1> DEFINE a == Answering(m)
<1>1. /\ a.rocm = (IF m.rocm = "absent" THEN "absent" ELSE "answers")
      /\ a.smi[1] = (IF m.smi[1] = "absent" THEN "absent" ELSE "answers")
      /\ a.smi[2] = (IF m.smi[2] = "absent" THEN "absent" ELSE "answers")
      /\ a.system = m.system /\ a.tegra = m.tegra /\ a.arm64 = m.arm64 /\ a.hailo = m.hailo
      /\ a.gpus = m.gpus
  BY AnsweringFields
<1>2. a = [x \in DOMAIN a |-> a[x]] /\ DOMAIN a = DOMAIN m /\ a.smi = <<a.smi[1], a.smi[2]>>
  BY DEF Answering, Asked
<1> HIDE DEF a
<1>3. Asked(a)
  BY <1>1, <1>2 DEF Asked, Outcomes
<1>4. Has(a) = Has(m)
  BY <1>1 DEF Has
<1>5. QED
  BY <1>3, <1>4 DEF a

LEMMA HonestWhenAsked ==
  ASSUME NEW m, Asked(m)
  PROVE  DetectionIsHonest(m)
<1> DEFINE a == Answering(m)
<1>1. SUFFICES ASSUME ~DetectHost(m).noted, m.rocm # "fails"
               PROVE  DeriveConfig(DetectHost(m)) = DeriveConfig(DetectHost(a))
  BY DEF DetectionIsHonest
<1>2. /\ a.rocm \in {"absent", "answers"} /\ a.smi[1] \in {"absent", "answers"}
      /\ a.system = m.system /\ a.pi = m.pi /\ a.wsl = m.wsl /\ a.container = m.container
      /\ a.ram = m.ram /\ a.runtime = m.runtime
  BY AnsweringFields
<1>3. Asked(a) /\ Has(a) = Has(m)
  BY AnsweringIsAsked
<1>4. DetectGpus(a).accelerator = Has(m)
  BY <1>2, <1>3, ToldFromWhatItHas
<1>5. DetectGpus(m).accelerator = Has(m)
  <2>1. ~DetectGpus(m).noted /\ ~DetectGpus(m).truncated
    BY <1>1 DEF DetectHost
  <2>2. QED
    BY <1>1, <2>1, ToldFromWhatItHas
<1> HIDE DEF a
<1>6. \A k : DeviceClass(a, k) = DeviceClass(m, k)
  BY <1>2 DEF DeviceClass
<1>7. /\ DetectHost(a).class = DetectHost(m).class /\ DetectHost(a).os = DetectHost(m).os
      /\ DetectHost(a).accelerator = DetectHost(m).accelerator
      /\ DetectHost(a).runtime = DetectHost(m).runtime
  BY <1>2, <1>4, <1>5, <1>6 DEF DetectHost
<1>8. QED
  BY <1>7 DEF DeriveConfig

\* THEOREM.  Every machine the detection is asked about is taken for what it is, unless
\* its profile carries a note or its rocminfo failed: a probe that hangs, fails or is not
\* made for want of time costs no accelerator, class or capability in silence.
THEOREM DetectionHolds == StoresSpec => []DetectionIsSound
<1>1. ASSUME NEW m \in Machines PROVE DetectionIsHonest(m)
  <2>1. /\ m = [x \in DOMAIN m |-> m[x]]
        /\ {"system", "tegra", "pi", "wsl", "container", "arm64", "hailo", "gpus", "ram", "runtime",
            "smi", "rocm"} \subseteq DOMAIN m
    BY DEF Machines
  <2>2. /\ m.tegra \in BOOLEAN /\ m.hailo \in BOOLEAN /\ m.arm64 \in BOOLEAN
        /\ m.gpus \in Nat /\ m.rocm \in Outcomes
        /\ m.smi \in {<<"absent", "absent">>}
                      \cup ((Outcomes \ {"absent"}) \X (Outcomes \ {"absent"}))
    <3> DEFINE smis == {<<"absent", "absent">>}
                         \cup ((Outcomes \ {"absent"}) \X (Outcomes \ {"absent"}))
    <3>1. m \in [system : {"Linux", "Darwin"}, tegra : BOOLEAN, pi : {FALSE}, wsl : {FALSE},
                 container : BOOLEAN, arm64 : {FALSE}, hailo : BOOLEAN, gpus : 0..2, ram : {8, 32},
                 runtime : {TRUE}, smi : smis, rocm : Outcomes]
      BY DEF Machines
    <3> HIDE DEF smis
    <3>2. /\ m.tegra \in BOOLEAN /\ m.hailo \in BOOLEAN /\ m.arm64 \in {FALSE}
          /\ m.gpus \in 0..2 /\ m.rocm \in Outcomes /\ m.smi \in smis
      BY <3>1
    <3>3. {FALSE} \subseteq BOOLEAN /\ 0..2 \subseteq Nat
      OBVIOUS
    <3>4. QED
      BY <3>2, <3>3 DEF smis
  <2>3. /\ m.smi = <<m.smi[1], m.smi[2]>> /\ m.smi[1] \in Outcomes /\ m.smi[2] \in Outcomes
        /\ m.smi[1] = "absent" <=> m.smi[2] = "absent"
    BY <2>2 DEF Outcomes
  <2>4. Asked(m)
    BY <2>1, <2>2, <2>3 DEF Asked
  <2>5. QED
    BY <2>4, HonestWhenAsked
<1>2. DetectionIsSound
  BY <1>1 DEF DetectionIsSound
<1>3. QED
  BY <1>2, PTL

-----------------------------------------------------------------------------
(***************************************************************************)
(* The knowledge server.  First, what splitting a text does, for texts of   *)
(* any length: the split is followed line by line, and so is the text that  *)
(* its pieces hold.                                                         *)
(***************************************************************************)

\* Where the i-th piece of n lines ends.
Upto(i, n) == IF i * MaxText < n THEN i * MaxText ELSE n

\* Cutting n lines every MaxText of them: how many pieces there are, and where each ends.
LEMMA CutsEnd ==
  ASSUME NEW n \in Nat, NEW q, q = (n + MaxText - 1) \div MaxText
  PROVE  /\ q \in Nat /\ Upto(0, n) = 0 /\ Upto(q, n) = n
         /\ \A i \in 1..q : /\ Upto(i - 1, n) = (i - 1) * MaxText /\ (i - 1) * MaxText \in Nat
                            /\ (i - 1) * MaxText < Upto(i, n) /\ Upto(i, n) <= n /\ Upto(i, n) \in Nat
                            /\ Upto(i, n) - (i - 1) * MaxText <= MaxText
<1> DEFINE M == MaxText
           a == n + M - 1
           r == a % M
<1>1. M \in Nat /\ M > 0 /\ a \in Nat
  BY ServerAssumption
<1>2. q \in Nat /\ r \in 0..(M - 1) /\ a = M * q + r
  <2> HIDE DEF a, M
  <2> QED BY <1>1 DEF a, M
<1>3. M * q >= n /\ M * q <= n + M - 1 /\ q * M = M * q /\ M * q \in Nat
  <2> DEFINE x == M * q
  <2>1. x \in Nat /\ q * M = x
    BY <1>1, <1>2
  <2>2. n + M - 1 = x + r
    BY <1>2
  <2> HIDE DEF x, M, r
  <2>3. x >= n /\ x <= n + M - 1
    BY <1>1, <1>2, <2>1, <2>2
  <2> QED BY <2>1, <2>3 DEF x
<1>4. Upto(q, n) = n /\ Upto(0, n) = 0
  <2> HIDE DEF M
  <2>1. q * M >= n /\ 0 * M = 0
    BY <1>1, <1>3
  <2> QED BY <2>1, <1>1, <1>2, <1>3 DEF Upto, M
<1>5. ASSUME NEW i \in 1..q
      PROVE  /\ Upto(i - 1, n) = (i - 1) * M /\ (i - 1) * M \in Nat
             /\ (i - 1) * M < Upto(i, n) /\ Upto(i, n) <= n /\ Upto(i, n) \in Nat
             /\ Upto(i, n) - (i - 1) * M <= M
  <2> DEFINE y == (i - 1) * M
             d == q - i
             z == d * M
  <2>1. i \in Nat /\ i - 1 \in Nat /\ d \in Nat
    BY <1>2
  <2>2. y \in Nat /\ z \in Nat /\ i * M = y + M /\ q * M = y + M + z
    <3> HIDE DEF M
    <3>1. y \in Nat /\ z \in Nat
      BY <1>1, <2>1
    <3>2. i * M = y + M
      BY <1>1, <2>1
    <3>3. q * M = i * M + z
      BY <1>1, <1>2, <2>1
    <3> HIDE DEF y, z, d
    <3> QED BY <3>1, <3>2, <3>3
  <2>3. y < n
    <3> HIDE DEF y, z, d, M
    <3> QED BY <1>1, <1>3, <2>2
  <2>4. Upto(i - 1, n) = y
    <3> HIDE DEF y, z, d
    <3> QED BY <2>3 DEF Upto, y
  <2>5. Upto(i, n) = IF y + M < n THEN y + M ELSE n
    BY <2>2 DEF Upto
  <2> HIDE DEF y, z, d, M
  <2>6. /\ y < Upto(i, n) /\ Upto(i, n) <= n /\ Upto(i, n) \in Nat /\ Upto(i, n) - y <= M
    BY <1>1, <2>2, <2>3, <2>5
  <2> QED BY <2>2, <2>4, <2>6 DEF y
<1> QED BY <1>2, <1>4, <1>5

Piece(A, W) == [section : A, text : Seq(W)]

\* Each piece is a stretch of the section that begins where the one before it ends.
LEMMA PiecesAre ==
  ASSUME NEW A, NEW W, NEW section \in A, NEW body \in Seq(W)
  PROVE  LET p == Pieces(section, body) n == Len(body) IN
           /\ p \in Seq(Piece(A, W)) /\ Upto(0, n) = 0 /\ Upto(Len(p), n) = n
           /\ \A i \in 1..Len(p) :
                /\ Upto(i - 1, n) \in 0..n /\ Upto(i, n) \in Upto(i - 1, n)..n
                /\ p[i].text = SubSeq(body, Upto(i - 1, n) + 1, Upto(i, n))
                /\ Len(p[i].text) \in 1..MaxText
<1> DEFINE p == Pieces(section, body)
           n == Len(body)
           q == (n + MaxText - 1) \div MaxText
           part(i) == SubSeq(body, (i - 1) * MaxText + 1, Upto(i, n))
<1>1. n \in Nat /\ \A k \in 1..n : body[k] \in W
  OBVIOUS
<1> HIDE DEF n
<1>2. /\ q \in Nat /\ Upto(0, n) = 0 /\ Upto(q, n) = n
      /\ \A i \in 1..q : /\ Upto(i - 1, n) = (i - 1) * MaxText /\ (i - 1) * MaxText \in Nat
                         /\ (i - 1) * MaxText < Upto(i, n) /\ Upto(i, n) <= n /\ Upto(i, n) \in Nat
                         /\ Upto(i, n) - (i - 1) * MaxText <= MaxText
  BY <1>1, CutsEnd
<1>3. p = [i \in 1..q |-> [section |-> section, text |-> part(i)]]
  BY DEF Pieces, Upto, n
<1> HIDE DEF q, p
<1>4. ASSUME NEW i \in 1..q
      PROVE  part(i) \in Seq(W) /\ Len(part(i)) \in 1..MaxText
  <2> DEFINE a == (i - 1) * MaxText + 1
             b == Upto(i, n)
  <2>1. a \in Int /\ b \in Int /\ a >= 1 /\ b <= n /\ a <= b /\ b - a + 1 <= MaxText
    <3> DEFINE y == (i - 1) * MaxText
    <3>1. y \in Nat /\ y < b /\ b <= n /\ b \in Nat /\ b - y <= MaxText /\ a = y + 1
      BY <1>2
    <3>2. MaxText \in Nat
      BY ServerAssumption
    <3> HIDE DEF y, a, b
    <3> QED BY <3>1, <3>2, <1>1
  <2> HIDE DEF a, b
  <2>2. \A k \in a..b : body[k] \in W
    BY <1>1, <2>1
  <2>3. SubSeq(body, a, b) \in Seq(W) /\ Len(SubSeq(body, a, b)) = b - a + 1
    BY <2>1, <2>2, SubSeqProperties
  <2>4. b - a + 1 \in 1..MaxText
    <3>1. MaxText \in Nat
      BY ServerAssumption
    <3> QED BY <2>1, <3>1
  <2> QED BY <2>3, <2>4 DEF a, b
<1> HIDE DEF part
<1>5. p \in Seq(Piece(A, W)) /\ Len(p) = q /\ \A i \in 1..q : p[i].text = part(i)
  <2>1. p \in [1..q -> Piece(A, W)]
    BY <1>3, <1>4 DEF Piece
  <2> QED BY <1>2, <1>3, <2>1
<1>6. ASSUME NEW i \in 1..q
      PROVE  /\ Upto(i - 1, n) \in 0..n /\ Upto(i, n) \in Upto(i - 1, n)..n
             /\ p[i].text = SubSeq(body, Upto(i - 1, n) + 1, Upto(i, n))
             /\ Len(p[i].text) \in 1..MaxText
  <2> DEFINE y == (i - 1) * MaxText
             b == Upto(i, n)
  <2>1. y \in Nat /\ y < b /\ b <= n /\ b \in Nat /\ Upto(i - 1, n) = y
    BY <1>2
  <2>2. p[i].text = SubSeq(body, y + 1, b)
    BY <1>5 DEF part
  <2>3. Len(p[i].text) \in 1..MaxText
    BY <1>4, <1>5
  <2> HIDE DEF y, b
  <2>4. y \in 0..n /\ b \in y..n
    BY <1>1, <2>1
  <2> QED BY <2>1, <2>2, <2>3, <2>4 DEF b
<1>7. QED
  BY <1>2, <1>5, <1>6 DEF p, n

\* What the lines R are made of, and what a split has collected of them.
Words(R) == {line.text : line \in R}
Heads(R) == {"body"} \cup {line.head : line \in R}
Splitting(R) == [done : Seq(Piece(Heads(R), Words(R))), section : Heads(R), body : Seq(Words(R))]

\* A line's text goes to what was read.
LEMMA WordsAre ==
  ASSUME NEW R, NEW text \in Seq(Words(R)), NEW line \in R
  PROVE  Append(text, line.text) \in Seq(Words(R))
<1>1. line.text \in Words(R)
  BY DEF Words
<1> HIDE DEF Words
<1> QED BY <1>1

\* A flush adds the pieces of the section to what is done.
LEMMA Flushed ==
  ASSUME NEW R, NEW s \in Splitting(R)
  PROVE  /\ Flush(s) \in Splitting(R) /\ Flush(s).section = s.section /\ Flush(s).body = <<>>
         /\ Flush(s).done = s.done \o Pieces(s.section, s.body)
<1> DEFINE A == Heads(R)
           W == Words(R)
           P == Piece(A, W)
<1>1. s.section \in A /\ s.body \in Seq(W) /\ s.done \in Seq(P)
  BY DEF Splitting
<1> HIDE DEF A, W, P
<1>3. Pieces(s.section, s.body) \in Seq(P)
  BY <1>1, PiecesAre DEF P
<1>4. s.done \o Pieces(s.section, s.body) \in Seq(P)
  BY <1>1, <1>3, ConcatProperties
<1>5. Flush(s) = [done |-> s.done \o Pieces(s.section, s.body), section |-> s.section, body |-> <<>>]
  BY DEF Flush
<1>6. <<>> \in Seq(W)
  OBVIOUS
<1>7. Splitting(R) = [done : Seq(P), section : A, body : Seq(W)]
  BY DEF Splitting, A, P, W
<1> QED BY <1>1, <1>4, <1>5, <1>6, <1>7

\* A line leaves a split a split.
LEMMA LinesAreTaken ==
  ASSUME NEW R, NEW s \in Splitting(R), NEW line \in R
  PROVE  TakeLine(s, line) \in Splitting(R)
<1>1. CASE IsHead(line)
  <2>1. TakeLine(s, line) = [Flush(s) EXCEPT !.section = line.head]
    BY <1>1 DEF TakeLine
  <2>2. line.head \in Heads(R)
    BY DEF Heads
  <2> QED BY <2>1, <2>2, Flushed DEF Splitting
<1>2. CASE ~IsHead(line)
  <2>1. TakeLine(s, line) = [s EXCEPT !.body = Append(s.body, line.text)]
    BY <1>2 DEF TakeLine
  <2>2. Append(s.body, line.text) \in Seq(Words(R))
    BY WordsAre DEF Splitting
  <2> QED BY <2>1, <2>2 DEF Splitting
<1> QED BY <1>1, <1>2

\* Reading a document line by line.
LEMMA ReadingRuns ==
  ASSUME NEW R, NEW lines \in Seq(R)
  PROVE  \E run \in [0..Len(lines) -> Seq(Words(R))] :
           /\ run[0] = <<>> /\ FoldLeft(ReadOn, <<>>, lines) = run[Len(lines)]
           /\ \A i \in 1..Len(lines) : run[i] = ReadOn(run[i - 1], lines[i])
<1> DEFINE N == Len(lines)
           S == Seq(Words(R))
           step == [p \in (1..N) \X S |-> ReadOn(p[2], lines[p[1]])]
           Eq(g) == g = [T \in SUBSET (1..N) |->
                           IF T = {} THEN <<>> ELSE ReadOn(g[T \ {Max(T)}], lines[Max(T)])]
           iter == CHOOSE g : Eq(g)
<1>1. N \in Nat /\ DOMAIN lines = 1..N /\ \A i \in 1..N : lines[i] \in R
  OBVIOUS
<1>2. Stepped(N, S, <<>>, step)
  <2>1. <<>> \in S
    OBVIOUS
  <2>2. ASSUME NEW x \in S, NEW y \in R PROVE ReadOn(x, y) \in S
    BY WordsAre DEF ReadOn
  <2> HIDE DEF S, N
  <2> QED BY <1>1, <2>1, <2>2 DEF Stepped
<1>3. PICK g : IsFold(N, S, <<>>, step, g)
  <2> HIDE DEF step, N, S
  <2> QED BY <1>1, <1>2, FoldExists
<1>4. ASSUME NEW T \in SUBSET (1..N), T # {}, Max(T) \in T, NEW h, h[T \ {Max(T)}] \in S
      PROVE  step[<<Max(T), h[T \ {Max(T)}]>>] = ReadOn(h[T \ {Max(T)}], lines[Max(T)])
  <2> HIDE DEF N, S
  <2> QED BY <1>4
<1>5. Eq(g)
  <2> HIDE DEF N, S, step
  <2>1. ASSUME NEW T \in SUBSET (1..N), T # {}
        PROVE  g[T] = ReadOn(g[T \ {Max(T)}], lines[Max(T)])
    <3>1. Max(T) \in T /\ g[T \ {Max(T)}] \in S /\ g[T] = step[<<Max(T), g[T \ {Max(T)}]>>]
      BY <1>3, <2>1 DEF IsFold
    <3> QED BY <1>4, <2>1, <3>1
  <2>2. g \in [SUBSET (1..N) -> S] /\ g[{}] = <<>>
    BY <1>3 DEF IsFold
  <2> QED BY <2>1, <2>2
<1>6. Eq(iter)
  <2> HIDE DEF Eq
  <2> QED BY <1>5
<1>7. RunsTo(N, S, <<>>, step, iter[1..N])
  <2> HIDE DEF N, S, step, iter
  <2>1. iter[{}] = <<>>
    BY <1>6
  <2>2. ASSUME NEW i \in 1..N, iter[(1..i) \ {Max(1..i)}] \in S
        PROVE  iter[1..i] = step[<<Max(1..i), iter[(1..i) \ {Max(1..i)}]>>]
    <3> DEFINE D == 1..i
    <3>1. D \in SUBSET (1..N) /\ D # {} /\ Max(D) \in D
      BY <1>1, Places
    <3> HIDE DEF D
    <3>2. iter[D] = ReadOn(iter[D \ {Max(D)}], lines[Max(D)])
      BY <1>6, <3>1
    <3>3. iter[D \ {Max(D)}] \in S
      BY <2>2 DEF D
    <3>4. iter[D] = step[<<Max(D), iter[D \ {Max(D)}]>>]
      BY <1>4, <3>1, <3>2, <3>3
    <3> QED BY <3>4 DEF D
  <2> QED BY <1>1, <1>2, <2>1, <2>2, FoldIsRun
<1>8. FoldLeft(ReadOn, <<>>, lines) = iter[1..N]
  BY <1>1 DEF FoldLeft, MapThenFoldSet
<1>9. ASSUME NEW run \in [0..N -> S], NEW i \in 1..N
      PROVE  step[<<i, run[i - 1]>>] = ReadOn(run[i - 1], lines[i])
  <2> HIDE DEF N, S
  <2>1. i - 1 \in 0..N
    BY <1>1
  <2> QED BY <2>1
<1> HIDE DEF step, iter
<1>10. PICK run \in [0..N -> S] : /\ run[0] = <<>> /\ run[N] = iter[1..N]
                                  /\ \A i \in 1..N : run[i] = step[<<i, run[i - 1]>>]
  BY <1>7 DEF RunsTo
<1> QED BY <1>8, <1>9, <1>10

\* Reading pieces one after another.
Rejoined(pieces) == FoldLeft(Rejoin, <<>>, pieces)
RejoinedBy(A, W, pieces) ==
  \E run \in [0..Len(pieces) -> Seq(W)] :
    /\ run[0] = <<>> /\ Rejoined(pieces) = run[Len(pieces)]
    /\ \A i \in 1..Len(pieces) : run[i] = Rejoin(run[i - 1], pieces[i])
LEMMA RejoinedRuns ==
  ASSUME NEW A, NEW W, NEW pieces \in Seq(Piece(A, W))
  PROVE  RejoinedBy(A, W, pieces)
<1> DEFINE N == Len(pieces)
           S == Seq(W)
           step == [p \in (1..N) \X S |-> Rejoin(p[2], pieces[p[1]])]
           Eq(g) == g = [T \in SUBSET (1..N) |->
                           IF T = {} THEN <<>> ELSE Rejoin(g[T \ {Max(T)}], pieces[Max(T)])]
           iter == CHOOSE g : Eq(g)
<1>1. N \in Nat /\ DOMAIN pieces = 1..N /\ \A i \in 1..N : pieces[i] \in Piece(A, W)
  OBVIOUS
<1>2. Stepped(N, S, <<>>, step)
  <2>1. <<>> \in S
    OBVIOUS
  <2>2. ASSUME NEW x \in S, NEW y \in Piece(A, W) PROVE Rejoin(x, y) \in S
    BY DEF Rejoin, Piece
  <2> HIDE DEF S, N
  <2> QED BY <1>1, <2>1, <2>2 DEF Stepped
<1>3. PICK g : IsFold(N, S, <<>>, step, g)
  <2> HIDE DEF step, N, S
  <2> QED BY <1>1, <1>2, FoldExists
<1>4. ASSUME NEW T \in SUBSET (1..N), T # {}, Max(T) \in T, NEW h, h[T \ {Max(T)}] \in S
      PROVE  step[<<Max(T), h[T \ {Max(T)}]>>] = Rejoin(h[T \ {Max(T)}], pieces[Max(T)])
  <2> HIDE DEF N, S
  <2> QED BY <1>4
<1>5. Eq(g)
  <2> HIDE DEF N, S, step
  <2>1. ASSUME NEW T \in SUBSET (1..N), T # {}
        PROVE  g[T] = Rejoin(g[T \ {Max(T)}], pieces[Max(T)])
    <3>1. Max(T) \in T /\ g[T \ {Max(T)}] \in S /\ g[T] = step[<<Max(T), g[T \ {Max(T)}]>>]
      BY <1>3, <2>1 DEF IsFold
    <3> QED BY <1>4, <2>1, <3>1
  <2>2. g \in [SUBSET (1..N) -> S] /\ g[{}] = <<>>
    BY <1>3 DEF IsFold
  <2> QED BY <2>1, <2>2
<1>6. Eq(iter)
  <2> HIDE DEF Eq
  <2> QED BY <1>5
<1>7. RunsTo(N, S, <<>>, step, iter[1..N])
  <2> HIDE DEF N, S, step, iter
  <2>1. iter[{}] = <<>>
    BY <1>6
  <2>2. ASSUME NEW i \in 1..N, iter[(1..i) \ {Max(1..i)}] \in S
        PROVE  iter[1..i] = step[<<Max(1..i), iter[(1..i) \ {Max(1..i)}]>>]
    <3> DEFINE D == 1..i
    <3>1. D \in SUBSET (1..N) /\ D # {} /\ Max(D) \in D
      BY <1>1, Places
    <3> HIDE DEF D
    <3>2. iter[D] = Rejoin(iter[D \ {Max(D)}], pieces[Max(D)])
      BY <1>6, <3>1
    <3>3. iter[D \ {Max(D)}] \in S
      BY <2>2 DEF D
    <3>4. iter[D] = step[<<Max(D), iter[D \ {Max(D)}]>>]
      BY <1>4, <3>1, <3>2, <3>3
    <3> QED BY <3>4 DEF D
  <2> QED BY <1>1, <1>2, <2>1, <2>2, FoldIsRun
<1>8. Rejoined(pieces) = iter[1..N]
  BY <1>1 DEF Rejoined, FoldLeft, MapThenFoldSet
<1>9. ASSUME NEW run \in [0..N -> S], NEW i \in 1..N
      PROVE  step[<<i, run[i - 1]>>] = Rejoin(run[i - 1], pieces[i])
  <2> HIDE DEF N, S
  <2>1. i - 1 \in 0..N
    BY <1>1
  <2> QED BY <2>1
<1> HIDE DEF step, iter
<1>10. PICK run \in [0..N -> S] : /\ run[0] = <<>> /\ run[N] = iter[1..N]
                                  /\ \A i \in 1..N : run[i] = step[<<i, run[i - 1]>>]
  BY <1>7 DEF RunsTo
<1>11. \A i \in 1..N : run[i] = Rejoin(run[i - 1], pieces[i])
  BY <1>9, <1>10
<1> QED BY <1>8, <1>10, <1>11 DEF RejoinedBy

\* Splitting a document line by line.
LEMMA SplittingRuns ==
  ASSUME NEW R, NEW lines \in Seq(R)
  PROVE  \E run \in [0..Len(lines) -> Splitting(R)] :
           /\ run[0] = NoLines /\ FoldLeft(TakeLine, NoLines, lines) = run[Len(lines)]
           /\ \A i \in 1..Len(lines) : run[i] = TakeLine(run[i - 1], lines[i])
<1> DEFINE N == Len(lines)
           S == Splitting(R)
           step == [p \in (1..N) \X S |-> TakeLine(p[2], lines[p[1]])]
           Eq(g) == g = [T \in SUBSET (1..N) |->
                           IF T = {} THEN NoLines ELSE TakeLine(g[T \ {Max(T)}], lines[Max(T)])]
           iter == CHOOSE g : Eq(g)
<1>1. N \in Nat /\ DOMAIN lines = 1..N /\ \A i \in 1..N : lines[i] \in R
  OBVIOUS
<1>2. Stepped(N, S, NoLines, step)
  <2>1. NoLines \in S
    BY DEF NoLines, Splitting, Heads
  <2>2. ASSUME NEW x \in S, NEW y \in R PROVE TakeLine(x, y) \in S
    BY LinesAreTaken
  <2> HIDE DEF S, N
  <2> QED BY <1>1, <2>1, <2>2 DEF Stepped
<1>3. PICK g : IsFold(N, S, NoLines, step, g)
  <2> HIDE DEF step, N, S
  <2> QED BY <1>1, <1>2, FoldExists
<1>4. ASSUME NEW T \in SUBSET (1..N), T # {}, Max(T) \in T, NEW h, h[T \ {Max(T)}] \in S
      PROVE  step[<<Max(T), h[T \ {Max(T)}]>>] = TakeLine(h[T \ {Max(T)}], lines[Max(T)])
  <2> HIDE DEF N, S
  <2> QED BY <1>4
<1>5. Eq(g)
  <2> HIDE DEF N, S, step
  <2>1. ASSUME NEW T \in SUBSET (1..N), T # {}
        PROVE  g[T] = TakeLine(g[T \ {Max(T)}], lines[Max(T)])
    <3>1. Max(T) \in T /\ g[T \ {Max(T)}] \in S /\ g[T] = step[<<Max(T), g[T \ {Max(T)}]>>]
      BY <1>3, <2>1 DEF IsFold
    <3> QED BY <1>4, <2>1, <3>1
  <2>2. g \in [SUBSET (1..N) -> S] /\ g[{}] = NoLines
    BY <1>3 DEF IsFold
  <2> QED BY <2>1, <2>2
<1>6. Eq(iter)
  <2> HIDE DEF Eq
  <2> QED BY <1>5
<1>7. RunsTo(N, S, NoLines, step, iter[1..N])
  <2> HIDE DEF N, S, step, iter
  <2>1. iter[{}] = NoLines
    BY <1>6
  <2>2. ASSUME NEW i \in 1..N, iter[(1..i) \ {Max(1..i)}] \in S
        PROVE  iter[1..i] = step[<<Max(1..i), iter[(1..i) \ {Max(1..i)}]>>]
    <3> DEFINE D == 1..i
    <3>1. D \in SUBSET (1..N) /\ D # {} /\ Max(D) \in D
      BY <1>1, Places
    <3> HIDE DEF D
    <3>2. iter[D] = TakeLine(iter[D \ {Max(D)}], lines[Max(D)])
      BY <1>6, <3>1
    <3>3. iter[D \ {Max(D)}] \in S
      BY <2>2 DEF D
    <3>4. iter[D] = step[<<Max(D), iter[D \ {Max(D)}]>>]
      BY <1>4, <3>1, <3>2, <3>3
    <3> QED BY <3>4 DEF D
  <2> QED BY <1>1, <1>2, <2>1, <2>2, FoldIsRun
<1>8. FoldLeft(TakeLine, NoLines, lines) = iter[1..N]
  BY <1>1 DEF FoldLeft, MapThenFoldSet
<1>9. ASSUME NEW run \in [0..N -> S], NEW i \in 1..N
      PROVE  step[<<i, run[i - 1]>>] = TakeLine(run[i - 1], lines[i])
  <2> HIDE DEF N, S
  <2>1. i - 1 \in 0..N
    BY <1>1
  <2> QED BY <2>1
<1> HIDE DEF step, iter
<1>10. PICK run \in [0..N -> S] : /\ run[0] = NoLines /\ run[N] = iter[1..N]
                                  /\ \A i \in 1..N : run[i] = step[<<i, run[i - 1]>>]
  BY <1>7 DEF RunsTo
<1> QED BY <1>8, <1>9, <1>10

LEMMA Regrouped ==
  \A S : \A a, b, c \in Seq(S) : (a \o b) \o c = a \o (b \o c)
BY ConcatAssociative

Short(pieces) == \A i \in 1..Len(pieces) : Len(pieces[i].text) \in 1..MaxText

\* The pieces of a section, read after what is done, are its text.
LEMMA SectionIsKept ==
  ASSUME NEW A, NEW W, NEW section \in A, NEW body \in Seq(W), NEW done \in Seq(Piece(A, W))
  PROVE  /\ Rejoined(done) \in Seq(W)
         /\ Rejoined(done \o Pieces(section, body)) = Rejoined(done) \o body
         /\ Short(done) => Short(done \o Pieces(section, body))
<1> DEFINE P == Piece(A, W)
           p == Pieces(section, body)
           all == done \o p
           m == Len(done)
           q == Len(p)
           n == Len(body)
           u(i) == Upto(i, n)
<1>1. /\ p \in Seq(P) /\ u(0) = 0 /\ u(q) = n
      /\ \A i \in 1..q : /\ u(i - 1) \in 0..n /\ u(i) \in u(i - 1)..n
                         /\ p[i].text = SubSeq(body, u(i - 1) + 1, u(i))
                         /\ Len(p[i].text) \in 1..MaxText
  BY PiecesAre
<1>2. m \in Nat /\ q \in Nat /\ n \in Nat
  BY <1>1
<1>3. /\ all \in Seq(P) /\ Len(all) = m + q
      /\ \A k \in 1..m : all[k] = done[k]
      /\ \A i \in 1..q : all[m + i] = p[i]
  <2> HIDE DEF p, P
  <2>1. p \in Seq(P) /\ done \in Seq(P)
    BY <1>1 DEF P
  <2>2. /\ all \in Seq(P) /\ Len(all) = m + q
        /\ \A k \in 1..(m + q) : all[k] = IF k <= m THEN done[k] ELSE p[k - m]
    BY <2>1, ConcatProperties
  <2>3. \A i \in 1..q : m + i \in 1..(m + q) /\ ~(m + i <= m) /\ (m + i) - m = i
    BY <1>2
  <2>4. \A k \in 1..m : k \in 1..(m + q) /\ k <= m
    BY <1>2
  <2> HIDE DEF all, m, q
  <2> QED BY <2>2, <2>3, <2>4
<1>0. \A x \in Seq(Piece(A, W)) : RejoinedBy(A, W, x)
  BY RejoinedRuns
<1> HIDE DEF P, p, all, m, q, n, u
<1>4. PICK r \in [0..m -> Seq(W)] : /\ r[0] = <<>> /\ Rejoined(done) = r[m]
                                    /\ \A i \in 1..m : r[i] = Rejoin(r[i - 1], done[i])
  BY <1>0 DEF RejoinedBy, m
<1>5. PICK h \in [0..(m + q) -> Seq(W)] : /\ h[0] = <<>> /\ Rejoined(all) = h[m + q]
                                          /\ \A i \in 1..(m + q) : h[i] = Rejoin(h[i - 1], all[i])
  <2>1. \E h \in [0..Len(all) -> Seq(W)] :
          /\ h[0] = <<>> /\ Rejoined(all) = h[Len(all)]
          /\ \A i \in 1..Len(all) : h[i] = Rejoin(h[i - 1], all[i])
    <3>1. all \in Seq(Piece(A, W))
      BY <1>3 DEF P
    <3> QED BY <1>0, <3>1 DEF RejoinedBy
  <2>2. Len(all) = m + q
    BY <1>3
  <2> QED BY <2>1, <2>2
<1>6. h[m] = r[m]
  <2> DEFINE G == {k \in 0..m : h[k] = r[k]}
  <2>1. 0 \in G
    BY <1>2, <1>4, <1>5
  <2>2. ASSUME NEW k \in 0..m, k < m, k \in G PROVE k + 1 \in G
    <3>1. k + 1 \in 1..m /\ k + 1 \in 1..(m + q) /\ k + 1 \in 0..m /\ (k + 1) - 1 = k
      BY <1>2, <2>2
    <3>2. h[k + 1] = Rejoin(h[k], all[k + 1]) /\ r[k + 1] = Rejoin(r[k], done[k + 1])
      BY <1>4, <1>5, <3>1
    <3>3. all[k + 1] = done[k + 1]
      BY <1>3, <3>1
    <3> QED BY <2>2, <3>1, <3>2, <3>3
  <2>3. m \in 0..m
    BY <1>2
  <2> HIDE DEF G
  <2>4. m \in G
    BY <1>2, <2>1, <2>2, <2>3, Counting
  <2> QED BY <2>4 DEF G
<1>7. r[m] \in Seq(W)
  BY <1>2, <1>4
<1> DEFINE base == r[m]
           first(i) == SubSeq(body, 1, u(i))
           G == {i \in 0..q : h[m + i] = base \o first(i)}
<1>8. 0 \in G
  <2>1. first(0) = <<>>
    BY <1>1, SubSeqEmpty
  <2>2. base \o <<>> = base
    BY <1>7, ConcatEmptySeq
  <2>3. h[m] = base \o first(0)
    BY <1>6, <2>1, <2>2
  <2>4. 0 \in 0..q /\ m + 0 = m
    BY <1>2
  <2> HIDE DEF base, first
  <2> QED BY <2>3, <2>4
<1>9. ASSUME NEW i \in 0..q, i < q, i \in G PROVE i + 1 \in G
  <2>1. /\ i + 1 \in 1..q /\ m + (i + 1) \in 1..(m + q) /\ i + 1 \in 0..q /\ (i + 1) - 1 = i
        /\ (m + (i + 1)) - 1 = m + i
    BY <1>2, <1>9
  <2>2. h[m + (i + 1)] = h[m + i] \o p[i + 1].text
    BY <1>3, <1>5, <2>1 DEF Rejoin
  <2> DEFINE a == u(i)
             b == u(i + 1)
             next == SubSeq(body, a + 1, b)
  <2>3. a \in 0..n /\ b \in a..n /\ p[i + 1].text = next
    BY <1>1, <2>1
  <2>4. h[m + i] = base \o SubSeq(body, 1, a)
    BY <1>9
  <2> HIDE DEF a, b
  <2>5. SubSeq(body, 1, a) \o next = SubSeq(body, 1, b)
    <3>1. 1 \in 1..(n + 1) /\ a \in (1 - 1)..n /\ b \in a..n
      BY <1>2, <2>3
    <3> QED BY <3>1, ConcatAdjacentSubSeq DEF n
  <2>6. SubSeq(body, 1, a) \in Seq(W) /\ next \in Seq(W)
    <3>1. \A k \in 1..n : body[k] \in W
      BY DEF n
    <3>2. (\A k \in 1..a : body[k] \in W) /\ \A k \in (a + 1)..b : body[k] \in W
      BY <1>2, <2>3, <3>1
    <3>3. a \in Int /\ b \in Int /\ a + 1 \in Int
      BY <1>2, <2>3
    <3> HIDE DEF n
    <3> QED BY <3>2, <3>3, SubSeqProperties
  <2>7. (base \o SubSeq(body, 1, a)) \o next = base \o SubSeq(body, 1, b)
    <3> HIDE DEF base, next
    <3>1. base \in Seq(W)
      BY <1>7 DEF base
    <3> DEFINE c == SubSeq(body, 1, a)
    <3>2. c \in Seq(W) /\ next \in Seq(W) /\ c \o next = SubSeq(body, 1, b)
      BY <2>5, <2>6
    <3> HIDE DEF c
    <3>3. (base \o c) \o next = base \o (c \o next)
      <4>1. c \in Seq(W) /\ next \in Seq(W)
        BY <3>2
      <4> QED BY <3>1, <4>1, Regrouped, SMTT(30)
    <3> QED BY <3>2, <3>3 DEF c
  <2>8. h[m + (i + 1)] = base \o SubSeq(body, 1, b)
    BY <2>2, <2>3, <2>4, <2>7
  <2> QED BY <2>1, <2>8 DEF b
<1>10. q \in G
  <2> HIDE DEF G
  <2>1. q \in 0..q
    BY <1>2
  <2> QED BY <1>2, <1>8, <1>9, <2>1, Counting
<1>11. first(q) = body
  BY <1>1, SubSeqFull DEF n
<1>12. Rejoined(all) = Rejoined(done) \o body
  BY <1>4, <1>5, <1>10, <1>11
<1>13. ASSUME Short(done) PROVE Short(all)
  <2> SUFFICES ASSUME NEW k \in 1..(m + q) PROVE Len(all[k].text) \in 1..MaxText
    BY <1>3 DEF Short
  <2>1. CASE k \in 1..m
    BY <1>3, <1>13, <2>1 DEF Short, m
  <2>2. CASE k \notin 1..m
    <3>1. k - m \in 1..q /\ k = m + (k - m)
      BY <1>2, <2>2
    <3>2. all[k] = p[k - m]
      BY <1>3, <3>1
    <3> QED BY <1>1, <3>1, <3>2
  <2> QED BY <2>1, <2>2
<1> QED BY <1>4, <1>7, <1>12, <1>13 DEF all, p

\* Splitting keeps every line of text, in order, in pieces that are neither empty nor too long.
LEMMA SplitIsWhole ==
  ASSUME NEW R, NEW lines \in Seq(R)
  PROVE  /\ Split(lines) \in Seq(Piece(Heads(R), Words(R)))
         /\ Rejoined(Split(lines)) = FoldLeft(ReadOn, <<>>, lines)
         /\ Short(Split(lines))
<1> DEFINE A == Heads(R)
           W == Words(R)
           N == Len(lines)
<1>1. N \in Nat /\ \A i \in 1..N : lines[i] \in R
  OBVIOUS
<1>2. PICK s \in [0..N -> Splitting(R)] :
        /\ s[0] = NoLines /\ FoldLeft(TakeLine, NoLines, lines) = s[N]
        /\ \A i \in 1..N : s[i] = TakeLine(s[i - 1], lines[i])
  BY SplittingRuns
<1>3. PICK t \in [0..N -> Seq(W)] :
        /\ t[0] = <<>> /\ FoldLeft(ReadOn, <<>>, lines) = t[N]
        /\ \A i \in 1..N : t[i] = ReadOn(t[i - 1], lines[i])
  BY ReadingRuns
<1> DEFINE G == {i \in 0..N : Rejoined(s[i].done) \o s[i].body = t[i] /\ Short(s[i].done)}
<1>4. ASSUME NEW x \in Splitting(R)
      PROVE  /\ x.section \in A /\ x.body \in Seq(W) /\ x.done \in Seq(Piece(A, W))
             /\ Rejoined(x.done) \in Seq(W)
             /\ Rejoined(Flush(x).done) = Rejoined(x.done) \o x.body
             /\ Short(x.done) => Short(Flush(x).done)
  <2>1. x.section \in A /\ x.body \in Seq(W) /\ x.done \in Seq(Piece(A, W))
    BY DEF Splitting
  <2>2. Flush(x).done = x.done \o Pieces(x.section, x.body)
    BY Flushed
  <2> HIDE DEF A, W
  <2>3. /\ Rejoined(x.done) \in Seq(W)
        /\ Rejoined(x.done \o Pieces(x.section, x.body)) = Rejoined(x.done) \o x.body
        /\ Short(x.done) => Short(x.done \o Pieces(x.section, x.body))
    <3> DEFINE d == x.done
               c == x.section
               b == x.body
    <3>1. c \in A /\ b \in Seq(W) /\ d \in Seq(Piece(A, W))
      BY <2>1
    <3> HIDE DEF d, c, b
    <3>2. /\ Rejoined(d) \in Seq(W) /\ Rejoined(d \o Pieces(c, b)) = Rejoined(d) \o b
          /\ Short(d) => Short(d \o Pieces(c, b))
      BY <3>1, SectionIsKept
    <3> QED BY <3>2 DEF d, c, b
  <2> QED BY <2>1, <2>2, <2>3
<1>5. 0 \in G
  <2>1. Rejoined(<<>>) = <<>>
    <3>1. <<>> \in Seq(Piece(A, W)) /\ Len(<<>>) = 0
      OBVIOUS
    <3>2. RejoinedBy(A, W, <<>>)
      BY <3>1, RejoinedRuns
    <3> QED BY <3>1, <3>2 DEF RejoinedBy
  <2>2. <<>> \o <<>> = <<>> /\ Short(<<>>)
    BY DEF Short
  <2>3. s[0].done = <<>> /\ s[0].body = <<>>
    BY <1>2 DEF NoLines
  <2>4. Rejoined(s[0].done) \o s[0].body = t[0] /\ Short(s[0].done)
    BY <1>3, <2>1, <2>2, <2>3
  <2>5. 0 \in 0..N
    BY <1>1
  <2> QED BY <2>4, <2>5
<1>6. ASSUME NEW i \in 0..N, i < N, i \in G PROVE i + 1 \in G
  <2> DEFINE x == s[i]
             y == s[i + 1]
             line == lines[i + 1]
  <2>1. i + 1 \in 1..N /\ i + 1 \in 0..N /\ (i + 1) - 1 = i
    BY <1>1, <1>6
  <2>2. x \in Splitting(R) /\ y = TakeLine(x, line) /\ t[i + 1] = ReadOn(t[i], line) /\ line \in R
    BY <1>1, <1>2, <1>3, <2>1
  <2>3. Rejoined(x.done) \o x.body = t[i] /\ Short(x.done) /\ t[i] \in Seq(W)
    BY <1>3, <1>6
  <2>4. y \in Splitting(R)
    BY <1>2, <2>1
  <2> HIDE DEF x, y, line, W, A
  <2>5. CASE IsHead(line)
    <3>1. y = [Flush(x) EXCEPT !.section = line.head] /\ t[i + 1] = t[i]
      BY <2>2, <2>5 DEF TakeLine, ReadOn
    <3>2. y.done = Flush(x).done /\ y.body = <<>>
      BY <2>2, <3>1, Flushed, ZenonT(30) DEF Splitting
    <3>3. Rejoined(y.done) = t[i] /\ Short(y.done)
      BY <1>4, <2>2, <2>3, <3>2
    <3>4. t[i] \o <<>> = t[i]
      BY <2>3, ConcatEmptySeq
    <3> QED BY <2>1, <3>1, <3>2, <3>3, <3>4 DEF y
  <2>6. CASE ~IsHead(line)
    <3>1. y = [x EXCEPT !.body = Append(x.body, line.text)] /\ t[i + 1] = Append(t[i], line.text)
      BY <2>2, <2>6 DEF TakeLine, ReadOn
    <3>2. y.done = x.done /\ y.body = Append(x.body, line.text)
      BY <2>2, <3>1 DEF Splitting
    <3> DEFINE w == line.text
               d == Rejoined(x.done)
    <3>3. w \in W /\ d \in Seq(W) /\ x.body \in Seq(W)
      BY <1>4, <2>2 DEF W, Words
    <3>4. d \o Append(x.body, w) = Append(d \o x.body, w)
      <4> HIDE DEF w, d
      <4>1. Append(x.body, w) = x.body \o <<w>> /\ <<w>> \in Seq(W) /\ d \o x.body \in Seq(W)
        BY <3>3, AppendIsConcat
      <4>2. Append(d \o x.body, w) = (d \o x.body) \o <<w>>
        BY <3>3, <4>1, AppendIsConcat
      <4>3. (d \o x.body) \o <<w>> = d \o (x.body \o <<w>>)
        <5> DEFINE b == x.body
                   e == <<w>>
        <5>1. b \in Seq(W) /\ e \in Seq(W) /\ d \in Seq(W)
          BY <3>3, <4>1
        <5> HIDE DEF b, e
        <5>2. (d \o b) \o e = d \o (b \o e)
          BY <5>1, Regrouped, SMTT(30)
        <5> QED BY <5>2 DEF b, e
      <4> QED BY <4>1, <4>2, <4>3
    <3> QED BY <2>1, <2>3, <3>1, <3>2, <3>4 DEF y
  <2> QED BY <2>5, <2>6
<1>7. N \in G
  <2> HIDE DEF G
  <2>1. N \in 0..N
    BY <1>1
  <2> QED BY <1>1, <1>5, <1>6, <2>1, Counting
<1>8. s[N] \in Splitting(R) /\ Split(lines) = Flush(s[N]).done
  BY <1>1, <1>2 DEF Split
<1>9. Flush(s[N]).done \in Seq(Piece(A, W))
  BY <1>8, Flushed DEF Splitting
<1> QED BY <1>3, <1>4, <1>7, <1>8, <1>9

\* What the code splits, it keeps.
LEMMA DocsAreSplit ==
  /\ SplitKeepsText
  /\ \A doc \in DOMAIN Docs :
       Len(Split(Docs[doc])) \in Nat /\ DOMAIN Split(Docs[doc]) = 1..Len(Split(Docs[doc]))
<1> SUFFICES ASSUME NEW doc \in DOMAIN Docs
             PROVE  LET pieces == Split(Docs[doc]) IN
                      /\ Rejoined(pieces) = FoldLeft(ReadOn, <<>>, Docs[doc])
                      /\ \A i \in DOMAIN pieces : Len(pieces[i].text) \in 1..MaxText
                      /\ Len(pieces) \in Nat /\ DOMAIN pieces = 1..Len(pieces)
  BY DEF SplitKeepsText, Rejoined
<1> DEFINE R == ToSet(Docs[doc])
           pieces == Split(Docs[doc])
<1>1. Docs[doc] \in Seq(R)
  BY ServerAssumption
<1> HIDE DEF R
<1>2. /\ pieces \in Seq(Piece(Heads(R), Words(R)))
      /\ Rejoined(pieces) = FoldLeft(ReadOn, <<>>, Docs[doc]) /\ Short(pieces)
  BY <1>1, SplitIsWhole
<1> HIDE DEF pieces
<1>3. Len(pieces) \in Nat /\ DOMAIN pieces = 1..Len(pieces)
  BY <1>2
<1> QED BY <1>2, <1>3 DEF Short, pieces

Rows == { c.row : c \in chunks }
Stored == { c.id : c \in chunks }

\* Table and index: one row for each chunk, one current entry for each row, and no entry
\* past the last row, which is never given up but for a later one.
TableInv ==
  /\ \A c \in chunks : c = [row |-> c.row, id |-> c.id, chip |-> c.chip] /\ c.row \in Nat
  /\ \A e \in index : e = [row |-> e.row, id |-> e.id] /\ e.row \in Nat
  /\ \A c, d \in chunks : c.row = d.row \/ c.id = d.id => c = d
  /\ \E n \in {0} \cup Rows : (\A m \in {0} \cup Rows : m <= n) /\ \A e \in index : e.row <= n
  /\ \A c \in chunks : [row |-> c.row, id |-> c.id] \in index
  /\ \A e \in index, c \in chunks : e.row = c.row => e.id = c.id
  /\ DOMAIN last = Stored /\ \A c \in chunks : last[c.id] = c.chip

LEMMA NewRowIsNew ==
  ASSUME TableInv
  PROVE  /\ NewRow \in Nat /\ NewRow > 0
         /\ \A c \in chunks : c.row < NewRow
         /\ \A e \in index : e.row < NewRow
<1> DEFINE rows == {0} \cup Rows
           top == CHOOSE n \in rows : \A m \in rows : m <= n
<1>1. NewRow = 1 + top
  BY DEF NewRow, Rows
<1>2. rows \subseteq Nat
  BY DEF TableInv, Rows
<1>3. PICK n \in rows : (\A m \in rows : m <= n) /\ \A e \in index : e.row <= n
  BY DEF TableInv
<1>4. top \in rows /\ \A m \in rows : m <= top
  <2> HIDE DEF rows
  <2>1. QED
    BY <1>3
<1>5. (\A c \in chunks : c.row \in rows) /\ (\A e \in index : e.row \in Nat)
  BY DEF TableInv, Rows
<1> HIDE DEF top, rows
<1>6. n \in Nat /\ top \in Nat /\ n <= top
  BY <1>2, <1>3, <1>4
<1>7. \A c \in chunks : c.row \in Nat /\ c.row <= top
  BY <1>2, <1>4, <1>5
<1>8. \A e \in index : e.row <= top
  BY <1>3, <1>5, <1>6
<1>9. QED
  BY <1>1, <1>5, <1>6, <1>7, <1>8

LEMMA AddChunkStep ==
  ASSUME TableInv, NEW id, NEW chip, AddChunk(id, chip)
  PROVE  TableInv' /\ Stored' = Stored \cup {id}
<1> DEFINE n == NewRow
           new == [row |-> n, id |-> id, chip |-> chip]
           entry == [row |-> n, id |-> id]
<1>1. /\ chunks' = { c \in chunks : c.id # id } \cup {new}
      /\ index' = index \cup {entry}
      /\ last' = [d \in DOMAIN last \cup {id} |-> IF d = id THEN chip ELSE last[d]]
  BY DEF AddChunk
<1>2. /\ n \in Nat /\ n > 0
      /\ \A c \in chunks : c.row < n
      /\ \A e \in index : e.row < n
  BY NewRowIsNew
<1>3. new.row = n /\ new.id = id /\ new.chip = chip /\ entry.row = n /\ entry.id = id
  OBVIOUS
<1>4. new = [row |-> new.row, id |-> new.id, chip |-> new.chip] /\ entry = [row |-> entry.row, id |-> entry.id]
  OBVIOUS
<1>5. [row |-> new.row, id |-> new.id] = entry
  OBVIOUS
<1> HIDE DEF n, new, entry
<1>6. \A c \in chunks' : c = new \/ (c \in chunks /\ c.id # id)
  BY <1>1
<1>7. \A e \in index' : e = entry \/ e \in index
  BY <1>1
<1>8. new \in chunks' /\ entry \in index'
  BY <1>1
<1>9. \A c \in chunks' : c = [row |-> c.row, id |-> c.id, chip |-> c.chip] /\ c.row \in Nat /\ c.row <= n
  BY <1>2, <1>3, <1>4, <1>6 DEF TableInv
<1>10. \A e \in index' : e = [row |-> e.row, id |-> e.id] /\ e.row \in Nat /\ e.row <= n
  BY <1>2, <1>3, <1>4, <1>7 DEF TableInv
<1>11. \A c, d \in chunks' : c.row = d.row \/ c.id = d.id => c = d
  BY <1>2, <1>3, <1>6 DEF TableInv
<1>12. \E k \in {0} \cup Rows' : (\A m \in {0} \cup Rows' : m <= k) /\ \A e \in index' : e.row <= k
  <2>1. n \in Rows'
    BY <1>3, <1>8 DEF Rows
  <2>2. \A m \in {0} \cup Rows' : m <= n
    BY <1>2, <1>9 DEF Rows
  <2>3. QED
    BY <1>10, <2>1, <2>2
<1>13. \A c \in chunks' : [row |-> c.row, id |-> c.id] \in index'
  BY <1>1, <1>5, <1>6, <1>8 DEF TableInv
<1>14. \A e \in index', c \in chunks' : e.row = c.row => e.id = c.id
  BY <1>2, <1>3, <1>6, <1>7 DEF TableInv
<1>15. Stored' = Stored \cup {id}
  <2>1. Stored' \subseteq Stored \cup {id}
    BY <1>3, <1>6 DEF Stored
  <2>2. Stored \cup {id} \subseteq Stored'
    BY <1>1, <1>3 DEF Stored
  <2>3. QED
    BY <2>1, <2>2
<1>16. DOMAIN last' = Stored' /\ \A c \in chunks' : last'[c.id] = c.chip
  <2>1. DOMAIN last = Stored /\ \A c \in chunks : last[c.id] = c.chip /\ c.id \in Stored
    BY DEF TableInv, Stored
  <2>2. \A c \in chunks' : last'[c.id] = c.chip
    BY <1>1, <1>3, <1>6, <2>1
  <2>3. QED
    BY <1>1, <1>15, <2>1, <2>2
<1>17. QED
  BY <1>9, <1>10, <1>11, <1>12, <1>13, <1>14, <1>15, <1>16 DEF TableInv

\* A command that is sending has had stored what it sent: it is stored still, as its own
\* or as another's.
Sending(s, stored) ==
  /\ s = [at |-> s.at, doc |-> s.doc, chip |-> s.chip, pieces |-> Split(Docs[s.doc])]
  /\ s.doc \in DOMAIN Docs /\ s.at \in Nat \ {0}
  /\ \A i \in 1..(s.at - 1) : ChunkId(s.doc, s.pieces[i]) \in stored

WholeInv ==
  \A d \in whole : d[1] \in DOMAIN Docs /\
    \A i \in DOMAIN Split(Docs[d[1]]) : ChunkId(d[1], Split(Docs[d[1]])[i]) \in Stored

ServerInv ==
  /\ TableInv /\ WholeInv
  /\ client = [c \in Clients |-> client[c]]
  /\ \A c \in Clients : client[c] = NotSending \/ Sending(client[c], Stored)
  /\ \E S : claims \in Seq(S)

LEMMA SendStep ==
  ASSUME ServerInv, NEW c \in Clients, Send(c)
  PROVE  ServerInv'
<1> DEFINE s == client[c]
           id == ChunkId(s.doc, s.pieces[s.at])
           new == [s EXCEPT !.at = s.at + 1]
<1>1. /\ Sending(s, Stored) /\ s.at <= Len(s.pieces) /\ AddChunk(id, s.chip)
      /\ client' = [client EXCEPT ![c] = new] /\ UNCHANGED <<whole, claims>>
  <2>1. s # NotSending
    BY DEF Send
  <2>2. QED
    BY <2>1 DEF Send, ServerInv
<1>2. TableInv' /\ Stored' = Stored \cup {id}
  BY <1>1, AddChunkStep DEF ServerInv
<1>3. /\ \A d \in Clients : d # c => client'[d] = client[d]
      /\ client'[c] = new /\ client' = [d \in Clients |-> client'[d]]
  BY <1>1 DEF ServerInv
<1>4. WholeInv'
  BY <1>1, <1>2 DEF ServerInv, WholeInv
<1>5. \A d \in Clients : d # c => client'[d] = NotSending \/ Sending(client'[d], Stored')
  BY <1>2, <1>3 DEF ServerInv, Sending
<1>6. Sending(new, Stored')
  <2>1. new = [at |-> s.at + 1, doc |-> s.doc, chip |-> s.chip, pieces |-> s.pieces]
    <3> HIDE DEF s
    <3>1. s = [at |-> s.at, doc |-> s.doc, chip |-> s.chip, pieces |-> s.pieces]
      BY <1>1 DEF Sending
    <3>2. QED
      BY <3>1
  <2>2. s.pieces = Split(Docs[s.doc])
    BY <1>1 DEF Sending
  <2>3. s.at \in Nat \ {0} /\ s.doc \in DOMAIN Docs
    BY <1>1 DEF Sending
  <2>4. \A i \in 1..(s.at - 1) : ChunkId(s.doc, s.pieces[i]) \in Stored
    BY <1>1 DEF Sending
  <2>5. \A i \in 1..((s.at + 1) - 1) : ChunkId(s.doc, s.pieces[i]) \in Stored'
    BY <1>2, <2>3, <2>4
  <2> DEFINE a == s.at
             d == s.doc
             k == s.chip
             w == s.pieces
  <2> HIDE DEF a, d, k, w
  <2>6. /\ new = [at |-> a + 1, doc |-> d, chip |-> k, pieces |-> w]
        /\ w = Split(Docs[d]) /\ a \in Nat \ {0} /\ d \in DOMAIN Docs
        /\ \A i \in 1..((a + 1) - 1) : ChunkId(d, w[i]) \in Stored'
    BY <2>1, <2>2, <2>3, <2>5 DEF a, d, k, w
  <2>7. QED
    BY <2>6 DEF Sending
<1>7. QED
  BY <1>1, <1>2, <1>3, <1>4, <1>5, <1>6 DEF ServerInv

\* The steps of a command that leave the table alone.
LEMMA CommandStep ==
  ASSUME ServerInv, NEW c \in Clients, NEW s, s = NotSending \/ Sending(s, Stored),
         client' = [client EXCEPT ![c] = s], UNCHANGED <<chunks, index, last, claims>>, WholeInv'
  PROVE  ServerInv'
<1>1. /\ client' = [d \in Clients |-> client'[d]]
      /\ \A d \in Clients : client'[d] = client[d] \/ client'[d] = s
  BY DEF ServerInv
<1>2. Stored' = Stored /\ Rows' = Rows
  BY DEF Stored, Rows
<1>3. TableInv'
  BY <1>2 DEF ServerInv, TableInv
<1>4. QED
  BY <1>1, <1>2, <1>3 DEF ServerInv

LEMMA IngestStep == ServerInv /\ Ingesting => ServerInv'
<1> SUFFICES ASSUME ServerInv, Ingesting PROVE ServerInv'
  OBVIOUS
<1>1. UNCHANGED <<chunks, whole>> => WholeInv'
  BY DEF ServerInv, WholeInv, Stored
<1>2. ASSUME NEW c \in Clients, NEW doc \in DOMAIN Docs, NEW chip \in Chips, StartIngest(c, doc, chip)
      PROVE  ServerInv'
  <2> DEFINE s == [at |-> 1, doc |-> doc, chip |-> chip, pieces |-> Split(Docs[doc])]
  <2>1. Sending(s, Stored)
    BY DEF Sending
  <2>2. client' = [client EXCEPT ![c] = s] /\ UNCHANGED <<chunks, index, last, whole, claims>>
    BY <1>2 DEF StartIngest
  <2> HIDE DEF s
  <2>3. QED
    BY <1>1, <2>1, <2>2, CommandStep
<1>3. ASSUME NEW c \in Clients, Abandon(c) PROVE ServerInv'
  BY <1>1, <1>3, CommandStep DEF Abandon
<1>4. ASSUME NEW c \in Clients, FinishIngest(c) PROVE ServerInv'
  <2> DEFINE s == client[c]
  <2>1. /\ Sending(s, Stored) /\ s.at > Len(s.pieces)
        /\ whole' = whole \cup {<<s.doc, s.chip>>} /\ client' = [client EXCEPT ![c] = NotSending]
        /\ UNCHANGED <<chunks, index, last, claims>>
    BY <1>4 DEF FinishIngest, ServerInv
  <2> HIDE DEF s
  <2>2. s.pieces = Split(Docs[s.doc]) /\ s.doc \in DOMAIN Docs /\ s.at \in Nat
    BY <2>1 DEF Sending
  <2>3. \A i \in DOMAIN s.pieces : i \in 1..(s.at - 1)
    BY <2>1, <2>2, DocsAreSplit
  <2>4. \A i \in DOMAIN Split(Docs[s.doc]) : ChunkId(s.doc, Split(Docs[s.doc])[i]) \in Stored
    BY <2>1, <2>2, <2>3 DEF Sending
  <2>5. Stored' = Stored
    BY <2>1 DEF Stored
  <2>6. \A d \in whole' : d \in whole \/ d[1] = s.doc
    BY <2>1
  <2>7. WholeInv'
    BY <2>2, <2>4, <2>5, <2>6 DEF ServerInv, WholeInv
  <2>8. QED
    BY <2>1, <2>7, CommandStep
<1>5. QED
  BY <1>2, <1>3, <1>4, SendStep DEF Ingesting

\* The claims stay a sequence: seeding appends one for each pair of a finite line.
LEMMA SetToSeqIsSeq ==
  ASSUME NEW S, IsFiniteSet(S)
  PROVE  SetToSeq(S) \in Seq(S)
<1>1. Cardinality(S) \in Nat /\ ExistsBijection(1..Cardinality(S), S)
  BY FS_CardinalityType
<1>2. PICK f : f \in Bijection(1..Cardinality(S), S)
  BY <1>1 DEF ExistsBijection
<1>3. f \in [1..Cardinality(S) -> S] /\ IsInjective(f)
  BY <1>2 DEF Bijection, Injection, IsInjective
<1>4. SetToSeq(S) \in [1..Cardinality(S) -> S]
  BY <1>3 DEF SetToSeq
<1>5. QED
  BY <1>1, <1>4

LEMMA LongerSeq ==
  ASSUME NEW S, NEW T, NEW s \in Seq(S), NEW t \in Seq(T)
  PROVE  s \o t \in Seq(S \cup T)
<1>1. s \in Seq(S \cup T) /\ t \in Seq(S \cup T)
  OBVIOUS
<1>2. QED
  BY <1>1

LEMMA ClaimStep == ServerInv /\ Claiming => ServerInv'
<1> SUFFICES ASSUME ServerInv, Claiming PROVE ServerInv'
  OBVIOUS
<1>1. PICK S : claims \in Seq(S)
  BY DEF ServerInv
<1>2. ASSUME UNCHANGED <<chunks, index, last, client, whole>>, NEW T, claims' \in Seq(T)
      PROVE  ServerInv'
  <2>1. Stored' = Stored /\ Rows' = Rows
    BY <1>2 DEF Stored, Rows
  <2>2. TableInv' /\ WholeInv'
    BY <1>2, <2>1 DEF ServerInv, TableInv, WholeInv
  <2>3. QED
    BY <1>2, <2>1, <2>2 DEF ServerInv
<1>3. ASSUME NEW stack, NEW status, Verify(stack, status) PROVE ServerInv'
  <2> DEFINE c == Claim(stack, status, "run")
  <2>1. claims' = Append(claims, c) /\ UNCHANGED <<chunks, index, last, client, whole>>
    BY <1>3 DEF Verify
  <2> HIDE DEF c
  <2>2. claims \in Seq(S \cup {c})
    BY <1>1
  <2>3. claims' \in Seq(S \cup {c})
    BY <2>1, <2>2
  <2>4. QED
    BY <1>2, <2>1, <2>3
<1>4. ASSUME NEW line \in Lines, Seed(line) PROVE ServerInv'
  <2> DEFINE of(k) == Claim([x \in {"l4t", k} |-> line[x]], "verified_pass", "manifest")
             some == { of(k) : k \in DOMAIN line \ {"l4t"} }
  <2>1. claims' = claims \o SetToSeq(some) /\ UNCHANGED <<chunks, index, last, client, whole>>
    BY <1>4 DEF Seed
  <2>2. DOMAIN line \subseteq {"l4t", "cuda", "trt"}
    BY DEF Lines
  <2>3. some \subseteq ({} \cup {of("cuda")}) \cup {of("trt")}
    BY <2>2
  <2> HIDE DEF some, of
  <2>4. IsFiniteSet({} \cup {of("cuda")})
    BY FS_EmptySet, FS_AddElement
  <2>5. IsFiniteSet(({} \cup {of("cuda")}) \cup {of("trt")})
    BY <2>4, FS_AddElement
  <2>6. IsFiniteSet(some)
    BY <2>3, <2>5, FS_Subset
  <2>7. claims' \in Seq(S \cup some)
    BY <1>1, <2>1, <2>6, SetToSeqIsSeq, LongerSeq
  <2>8. QED
    BY <1>2, <2>1, <2>7
<1>5. QED
  BY <1>3, <1>4 DEF Claiming

-----------------------------------------------------------------------------
\* A set of numbers below a bound has a greatest.
LEMMA MaxOfNats ==
  ASSUME NEW n \in Nat, NEW T, T \subseteq 1..n, T # {}
  PROVE  \E x \in T : \A y \in T : y <= x
<1> DEFINE R == {ss \in Nat \X Nat : ss[1] < ss[2]}
           U == { n - t : t \in T }
<1>1. IsWellFoundedOn(R, Nat)
  BY NatLessThanWellFounded, Zenon DEF OpToRel
<1>2. U \subseteq Nat /\ U # {}
  <2>1. \A t \in T : n - t \in Nat
    <3>1. \A t \in 1..n : n - t \in Nat
      OBVIOUS
    <3>2. QED
      BY <3>1
  <2>2. QED
    BY <2>1
<1>3. PICK u \in U : \A y \in U : ~ (<<y, u>> \in R)
  <2> HIDE DEF R, U
  <2> QED BY <1>1, <1>2, WFMin
<1>4. PICK x \in T : u = n - x
  OBVIOUS
<1>5. ASSUME NEW y \in T PROVE y <= x
  <2>1. n - y \in U /\ u \in Nat /\ n - y \in Nat /\ x \in Nat /\ y \in Nat
    BY <1>2, <1>4
  <2>2. ~ (n - y < u)
    BY <1>3, <2>1
  <2>3. QED
    BY <1>4, <2>1, <2>2
<1>6. QED
  BY <1>5

LEMMA FailuresAreHeeded == (\E S : claims \in Seq(S)) => FailureIsHeeded
<1> SUFFICES ASSUME NEW S, claims \in Seq(S), NEW asked \in Stacks, NEW i \in DOMAIN claims,
                    ClaimApplies(claims[i].stack, asked)
             PROVE  QueryClaim(asked) >= i /\ ClaimApplies(claims[QueryClaim(asked)].stack, asked)
  BY DEF FailureIsHeeded
<1> DEFINE hits == { k \in DOMAIN claims : ClaimApplies(claims[k].stack, asked) }
           best == CHOOSE k \in hits : \A j \in hits : j <= k
<1>1. Len(claims) \in Nat /\ hits \subseteq 1..Len(claims) /\ i \in hits
  OBVIOUS
<1>2. QueryClaim(asked) = best
  BY <1>1 DEF QueryClaim
<1>3. best \in hits => ClaimApplies(claims[best].stack, asked)
  OBVIOUS
<1>4. best \in hits /\ \A j \in hits : j <= best
  <2> HIDE DEF hits
  <2>1. \E x \in hits : \A y \in hits : y <= x
    BY <1>1, MaxOfNats
  <2>2. QED
    BY <2>1
<1> HIDE DEF best, hits
<1>5. best >= i
  BY <1>1, <1>4
<1>6. QED
  BY <1>2, <1>3, <1>4, <1>5

\* Joined with the table by row, the index gives each chunk that has the word once.
LEMMA SearchFinds == TableInv => SearchIsExact
<1> SUFFICES ASSUME TableInv, NEW chip \in Chips, NEW word
             PROVE  LET hits == Search(word, chip) IN
                    /\ \A h, k \in hits : h[2].id = k[2].id => h = k
                    /\ { h[2].id : h \in hits } = { id \in DOMAIN last : last[id] = chip /\ HasWord(id, word) }
  BY DEF SearchIsExact
<1> DEFINE hits == Search(word, chip)
           found == { h[2].id : h \in hits }
           wanted == { id \in DOMAIN last : last[id] = chip /\ HasWord(id, word) }
<1>1. \A h \in hits : /\ h = <<h[1], h[2]>> /\ h[1] \in index /\ h[2] \in chunks
                      /\ h[1].row = h[2].row /\ HasWord(h[1].id, word) /\ h[2].chip = chip
  BY DEF Search
<1>2. \A e \in index, c \in chunks :
        e.row = c.row /\ HasWord(e.id, word) /\ c.chip = chip => <<e, c>> \in hits
  BY DEF Search
<1> HIDE DEF hits
<1>3. \A h \in hits : h[1].id = h[2].id
  BY <1>1 DEF TableInv
<1>4. ASSUME NEW h \in hits, NEW k \in hits, h[2].id = k[2].id PROVE h = k
  <2>1. h[2] = k[2]
    BY <1>1, <1>4 DEF TableInv
  <2>2. h[1].row = k[1].row /\ h[1].id = k[1].id
    BY <1>1, <1>3, <2>1
  <2>3. h[1] = k[1]
    BY <1>1, <2>2 DEF TableInv
  <2>4. QED
    BY <1>1, <2>1, <2>3
<1>5. found \subseteq wanted
  BY <1>1, <1>3 DEF TableInv, Stored
<1>6. ASSUME NEW id \in wanted PROVE id \in found
  <2>1. PICK c \in chunks : c.id = id
    BY DEF TableInv, Stored
  <2>2. c.chip = chip /\ HasWord(c.id, word)
    BY <2>1 DEF TableInv
  <2> DEFINE e == [row |-> c.row, id |-> c.id]
  <2>3. e \in index /\ e.row = c.row /\ e.id = c.id
    BY DEF TableInv
  <2> HIDE DEF e
  <2>4. <<e, c>> \in hits
    BY <1>2, <2>2, <2>3
  <2>5. QED
    BY <2>1, <2>4
<1>7. QED
  BY <1>4, <1>5, <1>6 DEF hits

\* THEOREM.  For any documents, however commands sending them interleave, die and start again:
\* splitting a document keeps its text, in pieces no longer than allowed; a search returns
\* every chunk that has the word, once and under its last chip, through row numbers that are
\* used again; a document sent to the end stays whole; and no later answer passes over a
\* recorded failure (server/deepgent_server/ingest.py, store.py, knowledge.py).
THEOREM ServerHolds == StoresSpec => []ServerIsTrue
<1>1. StoresInit => ServerInv
  <2>1. ASSUME ServerInit PROVE ServerInv
    <3>1. Stored = {} /\ Rows = {}
      BY <2>1 DEF ServerInit, Stored, Rows
    <3>2. <<>> \in Seq({}) /\ DOMAIN <<>> = {}
      OBVIOUS
    <3>3. TableInv
      BY <2>1, <3>1, <3>2 DEF ServerInit, TableInv
    <3>4. QED
      BY <2>1, <3>2, <3>3 DEF ServerInit, ServerInv, WholeInv
  <2>2. QED
    BY <2>1 DEF StoresInit
<1>2. ServerInv /\ [StoresNext]_stores => ServerInv'
  <2>1. ASSUME ServerInv, UNCHANGED server PROVE ServerInv'
    <3>1. UNCHANGED <<chunks, index, last, client, whole, claims>>
      BY <2>1 DEF server
    <3>2. Stored' = Stored /\ Rows' = Rows
      BY <3>1 DEF Stored, Rows
    <3>3. TableInv' /\ WholeInv'
      BY <2>1, <3>1, <3>2 DEF ServerInv, TableInv, WholeInv
    <3>4. QED
      BY <2>1, <3>1, <3>2, <3>3 DEF ServerInv
  <2>2. QED
    BY <2>1, IngestStep, ClaimStep DEF StoresNext, stores
<1>3. ServerInv => ServerIsTrue
  <2>1. ServerInv => DocumentsAreWhole
    BY DEF ServerInv, WholeInv, DocumentsAreWhole, Stored
  <2>2. QED
    BY <2>1, SearchFinds, FailuresAreHeeded, DocsAreSplit DEF ServerInv, ServerIsTrue
<1>4. QED
  BY <1>1, <1>2, <1>3, PTL DEF StoresSpec
=============================================================================
