------------------------------ MODULE Fixtures ------------------------------
(***************************************************************************)
(* evals/replay.py and the shadow runs of evals/shadow.py: recordings       *)
(* rewrite a fixture's stream and then its manifest; replays check the one  *)
(* against the other, copy the stream to the board and run a command on it; *)
(* a shadow run replays one fixture twice.  None of them takes the board's  *)
(* lease.  Bytes are numbered by the capture they come from, and a hash is  *)
(* what it hashes.                                                          *)
(***************************************************************************)
EXTENDS Naturals

CONSTANTS
  Names,      \* fixtures
  Replayers,  \* processes that replay
  MaxCaptures \* bound: captures on the board

ASSUME FixturesAssumption == MaxCaptures \in Nat /\ "recorder" \notin Replayers

None == 0       \* no file
Torn == 100000  \* a copy that is not complete

VARIABLES
  stream,   \* stream.bin of each fixture
  manifest, \* the hash its manifest names
  recorder, \* where the recording of each fixture stands
  board,    \* what the board's remote path holds
  captures, \* captures so far
  replayer \* where each replayer stands

fixtures == <<stream, manifest, recorder, board, captures, replayer>>

NoReplay == [step |-> "idle"]

FixturesInit ==
  /\ stream = [f \in Names |-> None] /\ manifest = stream
  /\ recorder = [f \in Names |-> "idle"]
  /\ board = None /\ captures = 0
  /\ replayer = [r \in Replayers |-> NoReplay]

\* History: a replayer under way is told what happened behind its back.
Touched(r, P(_)) == IF P(replayer[r]) THEN [replayer[r] EXCEPT !.touched = TRUE] ELSE replayer[r]
Moved(s, f) == IF s.step # "idle" /\ s.fixture = f THEN [s EXCEPT !.moved = TRUE] ELSE s

\* Somebody else wrote the remote path between a replayer's copy and its command.
BoardWritten(by) ==
  [r \in Replayers |-> Touched(r, LAMBDA s : r # by /\ s.step = "pushed")]

\* Somebody rewrote the stream after its check.
StreamWritten(f) ==
  [r \in Replayers |->
     Moved(Touched(r, LAMBDA s : s.step = "checked" /\ s.fixture = f), f)]

-----------------------------------------------------------------------------
\* record: the command writes the board's remote path; a command that fails leaves the
\* fixture as it is, one that times out does not.
Capture(f) ==
  /\ recorder[f] = "idle" /\ captures < MaxCaptures
  /\ captures' = captures + 1 /\ board' = captures'
  /\ \E failed \in BOOLEAN : recorder' = [recorder EXCEPT ![f] = IF failed THEN "idle" ELSE "captured"]
  /\ replayer' = BoardWritten("recorder")
  /\ UNCHANGED <<stream, manifest>>

\* The stream is copied over the old one, in place.
Get(f) ==
  /\ recorder[f] = "captured"
  /\ stream' = [stream EXCEPT ![f] = Torn]
  /\ recorder' = [recorder EXCEPT ![f] = "getting"]
  /\ replayer' = StreamWritten(f)
  /\ UNCHANGED <<manifest, board, captures>>

Got(f) ==
  /\ recorder[f] = "getting"
  /\ stream' = [stream EXCEPT ![f] = board]
  /\ recorder' = [recorder EXCEPT ![f] = "got"]
  /\ replayer' = StreamWritten(f)
  /\ UNCHANGED <<manifest, board, captures>>

WriteManifest(f) ==
  /\ recorder[f] = "got"
  /\ manifest' = [manifest EXCEPT ![f] = stream[f]]
  /\ recorder' = [recorder EXCEPT ![f] = "idle"]
  /\ UNCHANGED <<stream, board, captures, replayer>>

\* The recorder dies, or loses the board half-way.
Aborted(f) ==
  /\ recorder[f] # "idle"
  /\ recorder' = [recorder EXCEPT ![f] = "idle"]
  /\ UNCHANGED <<stream, manifest, board, captures, replayer>>

-----------------------------------------------------------------------------
\* Mutant: a fixture with a manifest is as good as its manifest.
Matches_Unhashed(f) == manifest[f] # None

\* The hash check of replay: a fixture that does not match its manifest is refused.
Matches(f) == manifest[f] # None /\ stream[f] = manifest[f]

Checked(r, f, arms, first, moved) ==
  replayer' = [replayer EXCEPT ![r] =
    IF ~Matches(f) THEN NoReplay
    ELSE [step |-> "checked", fixture |-> f, want |-> manifest[f], arms |-> arms,
          first |-> first, moved |-> moved, touched |-> FALSE, ran |-> None]]

\* A replay has one arm, a shadow run two.
Replay(r, f) ==
  /\ replayer[r] = NoReplay
  /\ Checked(r, f, 1, None, FALSE)
  /\ UNCHANGED <<stream, manifest, recorder, board, captures>>

Shadow(r, f) ==
  /\ replayer[r] = NoReplay
  /\ Checked(r, f, 2, None, FALSE)
  /\ UNCHANGED <<stream, manifest, recorder, board, captures>>

Put(r) ==
  /\ replayer[r].step = "checked"
  /\ board' = stream[replayer[r].fixture]
  /\ replayer' = [BoardWritten(r) EXCEPT ![r].step = "pushed"]
  /\ UNCHANGED <<stream, manifest, recorder, captures>>

RunCommand(r) ==
  /\ replayer[r].step = "pushed"
  /\ replayer' = [replayer EXCEPT ![r].step = "ran", ![r].ran = board]
  /\ UNCHANGED <<stream, manifest, recorder, board, captures>>

\* The second arm checks the fixture anew.
Return(r) ==
  /\ replayer[r].step = "ran"
  /\ LET s == replayer[r] IN
       IF s.arms = 2 /\ s.first = None
       THEN Checked(r, s.fixture, 2, s.ran, s.moved \/ s.touched)
       ELSE replayer' = [replayer EXCEPT ![r] = NoReplay]
  /\ UNCHANGED <<stream, manifest, recorder, board, captures>>

FixturesNext ==
  \/ \E f \in Names :
       \/ Capture(f) \/ Get(f) \/ Got(f) \/ WriteManifest(f) \/ Aborted(f)
       \/ \E r \in Replayers : Replay(r, f) \/ Shadow(r, f)
  \/ \E r \in Replayers : Put(r) \/ RunCommand(r) \/ Return(r)

-----------------------------------------------------------------------------
\* "A corrupted fixture can never silently change results" (replay.py:128): whatever a
\* recording left half done, the command of a replay reads the bytes its manifest names,
\* unless the stream was recorded over after the check, or somebody else wrote the remote
\* path before the command ran.
ReplayIsVerified ==
  \A r \in Replayers :
    replayer[r].step = "ran" /\ ~replayer[r].touched => replayer[r].ran = replayer[r].want

\* The two models of a shadow run see the same bytes, unless the fixture was recorded
\* over between them: the second check passes on the new recording as well.
ShadowComparesLike ==
  \A r \in Replayers :
    LET s == replayer[r] IN
      s.step = "ran" /\ s.first # None /\ ~s.touched /\ ~s.moved => s.ran = s.first
=============================================================================
