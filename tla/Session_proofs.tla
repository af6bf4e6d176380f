--------------------------- MODULE Session_proofs ---------------------------
(***************************************************************************)
(* Theorems about the session, for any number of calls in flight, sessions, *)
(* tools, prices, audits, turns and stream buffers: the SessionHooks with   *)
(* the TelemetryStore under them, that the runs of MCSession are behaviours *)
(* of HooksSpec, and one task and its critic, TaskSession.                  *)
(***************************************************************************)
EXTENDS MCSession, FiniteSetTheorems, SequenceTheorems, WellFoundedInduction, NaturalsInduction, TLAPS

Analysing(c) == call[c].st \in {"post", "read"}

CallType == [st : {"idle", "asked", "go", "post", "read"}, agent : Agents, tool : DOMAIN Tag,
             ver : Nat, saw : {"none", "clean", "dirty", "gone", "nothing"}]
Event == [id : Sessions, tag : Tags \cup {"unclassified"}]
HooksTypeOK ==
  /\ ci \in BOOLEAN /\ allow \in SUBSET OpTags
  /\ call \in [Calls -> CallType]
  /\ content \in {"clean", "dirty", "gone"} /\ writes \in Nat
  /\ answer \in Seq({"none", "clean", "waved", "blocked"}) /\ Len(answer) = writes

\* Every analysis in flight is of a write of its own that has no answer, and
\* one of the newest write saw the file as it is, or as it was before it went.
Pending(c) ==
  Analysing(c) =>
    /\ call[c].ver \in 1..writes /\ answer[call[c].ver] = "none"
    /\ call[c].ver = writes =>
         /\ call[c].saw = "clean" => content \in {"clean", "gone"}
         /\ call[c].saw = "gone" => content = "gone"
VerdictInv ==
  /\ \A c \in Calls : Pending(c) /\ (call[c].st # "read" => call[c].saw = "none")
  /\ \A c, d \in Calls : Analysing(c) /\ Analysing(d) /\ call[c].ver = call[d].ver => c = d
  /\ writes > 0 =>
       /\ answer[writes] = "clean" => content \in {"clean", "gone"}
       /\ \/ answer[writes] # "none" \/ content = "gone"
          \/ \E c \in Calls : Analysing(c) /\ call[c].ver = writes

\* Rows of the table carry a bill and an estimate of one task.
RowsInv ==
  /\ rate \in Rates /\ tasks = [s \in Sessions |-> tasks[s]]
  /\ \A s \in Sessions :
       \/ tasks[s] = NoTask
       \/ \E n \in Spends, a \in Audits \cup {0} :
            /\ tasks[s].usd \in {(n * rate) \div Quarter, -1}
            /\ tasks[s].est = n + a /\ (~tasks[s].audited => a = 0)

-----------------------------------------------------------------------------
\* A set of natural numbers has a least one, which Min is.
LEMMA MinOfNats ==
  ASSUME NEW T, T \subseteq Nat, T # {}
  PROVE  Min(T) \in T /\ \A y \in T : Min(T) <= y
<1> DEFINE R == {ss \in Nat \X Nat : ss[1] < ss[2]}
<1>1. IsWellFoundedOn(R, Nat)
  BY NatLessThanWellFounded, Zenon DEF OpToRel
<1>2. PICK x \in T : \A y \in T : ~ (<<y, x>> \in R)
  <2> HIDE DEF R
  <2> QED BY <1>1, WFMin
<1>3. ASSUME NEW y \in T, ~ (<<y, x>> \in R) PROVE x <= y
  BY <1>3
<1>4. \A y \in T : x <= y
  BY <1>2, <1>3
<1>5. QED
  BY <1>4, Zenon DEF Min

LEMMA NoCallIsCall == NoCall \in CallType
BY DEF NoCall, CallType, Agents, Tag

LEMMA ToolsAreTagged == \A tool \in Tools : tool \in DOMAIN Tag
BY HooksAssumption

LEMMA SafetyCases ==
  \A tool : Safety(tool) \in {"pass", "allow", "deny", "ask"}
BY DEF Safety

\* What the two gates let through.
LEMMA JudgedCases ==
  ASSUME NEW agent, NEW tool, Judged(agent, tool) # "deny"
  PROVE  Judged(agent, tool) \in {"pass", "allow", "ask"}
BY DEF Judged, Safety

LEMMA ExceptAny ==
  ASSUME NEW S, NEW s \in Seq(S), NEW i, NEW v \in S
  PROVE  /\ [s EXCEPT ![i] = v] \in Seq(S) /\ Len([s EXCEPT ![i] = v]) = Len(s)
         /\ \A j \in 1..Len(s) : [s EXCEPT ![i] = v][j] = IF j = i THEN v ELSE s[j]
<1>1. CASE i \in 1..Len(s)
  BY <1>1, ExceptSeq
<1>2. CASE i \notin 1..Len(s)
  <2>1. s \in [1..Len(s) -> S]
    BY LenProperties
  <2>2. [s EXCEPT ![i] = v] = s
    BY <1>2, <2>1, Zenon
  <2>3. QED
    BY <1>2, <2>2
<1>3. QED
  BY <1>1, <1>2

\* A call that has written the file.
LEMMA WriteCall ==
  ASSUME HooksTypeOK, NEW c \in Calls, Execute(c), call[c].tool = "write"
  PROVE  \E new \in CallType :
           /\ call' = [call EXCEPT ![c] = new]
           /\ new.st = "post" /\ new.ver = writes + 1 /\ new.saw = call[c].saw
<1> DEFINE new == [call[c] EXCEPT !.st = "post", !.ver = writes + 1]
<1>1. call[c] \in CallType /\ writes + 1 \in Nat
  BY DEF HooksTypeOK
<1>2. new \in CallType /\ new.st = "post" /\ new.ver = writes + 1 /\ new.saw = call[c].saw
  BY <1>1 DEF CallType
<1>3. call' = [call EXCEPT ![c] = new]
  <2>1. call' = [call EXCEPT ![c].st = "post", ![c].ver = writes'] /\ writes' = writes + 1
    BY DEF Execute
  <2>2. call \in [Calls -> CallType]
    BY DEF HooksTypeOK
  <2>3. [call EXCEPT ![c].st = "post", ![c].ver = writes'] = [call EXCEPT ![c] = new]
    BY <2>1, <2>2
  <2>4. QED
    BY <2>1, <2>3
<1> HIDE DEF new
<1>4. QED
  BY <1>2, <1>3

LEMMA HooksTypeInit == HooksInit => HooksTypeOK
<1> SUFFICES ASSUME HooksInit PROVE HooksTypeOK
  OBVIOUS
<1>1. call \in [Calls -> CallType]
  BY NoCallIsCall DEF HooksInit
<1>2. QED
  BY <1>1 DEF HooksInit, HooksTypeOK, OpTags

LEMMA AskIsCall ==
  ASSUME NEW agent \in Agents, NEW tool \in Tools, NEW st \in {"asked", "go"}
  PROVE  [NoCall EXCEPT !.st = st, !.agent = agent, !.tool = tool] \in CallType
BY ToolsAreTagged DEF NoCall, CallType

\* HooksTypeOK is inductive.
LEMMA HooksTypeStep == HooksTypeOK /\ [HooksNext]_all => HooksTypeOK'
<1> SUFFICES ASSUME HooksTypeOK, [HooksNext]_all PROVE HooksTypeOK'
  OBVIOUS
<1> USE DEF HooksTypeOK
<1>1. ASSUME NEW c \in Calls, NEW agent \in Agents, NEW tool \in Tools, Ask(c, agent, tool)
      PROVE  HooksTypeOK'
  <2> DEFINE judged == Judged(agent, tool)
             new == [NoCall EXCEPT !.st = IF judged = "ask" THEN "asked" ELSE "go",
                                   !.agent = agent, !.tool = tool]
  <2>1. judged \in {"pass", "allow", "ask"}
    BY <1>1, JudgedCases DEF Ask
  <2>2. new \in CallType
    BY <2>1, AskIsCall
  <2>3. call' = [call EXCEPT ![c] = new]
    BY <1>1 DEF Ask
  <2>4. call' \in [Calls -> CallType]
    <3> HIDE DEF new
    <3> QED BY <2>2, <2>3
  <2>5. QED
    BY <1>1, <2>4 DEF Ask
<1>2. ASSUME NEW c \in Calls, Approve(c) \/ Reject(c) \/ Skip(c)
      PROVE  HooksTypeOK'
  <2>1. [call[c] EXCEPT !.st = "go"] \in CallType
    BY DEF CallType
  <2>2. \E new \in CallType : call' = [call EXCEPT ![c] = new]
    BY <1>2, <2>1, NoCallIsCall DEF Approve, Reject, Skip
  <2>3. call' \in [Calls -> CallType]
    BY <2>2
  <2>4. QED
    BY <1>2, <2>3 DEF Approve, Reject, Skip
<1>3. ASSUME NEW c \in Calls, Analyse(c)
      PROVE  HooksTypeOK'
  <2>0. PICK seen \in {content, "nothing"} :
          call' = [call EXCEPT ![c].st = "read", ![c].saw = seen]
    BY <1>3 DEF Analyse
  <2>1. [call[c] EXCEPT !.st = "read", !.saw = seen] \in CallType
    BY DEF CallType
  <2>2. call' = [call EXCEPT ![c] = [call[c] EXCEPT !.st = "read", !.saw = seen]]
    BY <2>0
  <2>3. call' \in [Calls -> CallType]
    BY <2>1, <2>2
  <2>4. QED
    BY <1>3, <2>3 DEF Analyse
<1>4. ASSUME NEW c \in Calls, Execute(c)
      PROVE  HooksTypeOK'
  <2>1. CASE call[c].tool = "write"
    <3>1. call' \in [Calls -> CallType]
      BY <1>4, <2>1, WriteCall
    <3>2. answer' = Append(answer, "none") /\ writes' = writes + 1 /\ UNCHANGED <<ci, allow>>
          /\ content' \in {"clean", "dirty"}
      BY <1>4, <2>1 DEF Execute
    <3>3. answer' \in Seq({"none", "clean", "waved", "blocked"}) /\ Len(answer') = writes'
      BY <3>2
    <3>4. QED
      BY <3>1, <3>2, <3>3
  <2>2. CASE call[c].tool # "write"
    BY <1>4, <2>2, NoCallIsCall DEF Execute
  <2>3. QED
    BY <2>1, <2>2
<1>5. ASSUME NEW c \in Calls, Verdict(c)
      PROVE  HooksTypeOK'
  <2>1. PICK v \in {"blocked", "clean", "waved"} : answer' = [answer EXCEPT ![call[c].ver] = v]
    BY <1>5 DEF Verdict, Unblocked
  <2>2. answer' \in Seq({"none", "clean", "waved", "blocked"}) /\ Len(answer') = Len(answer)
    <3> DEFINE S == {"none", "clean", "waved", "blocked"}
    <3>1. v \in S /\ answer \in Seq(S)
      OBVIOUS
    <3> DEFINE i == call[c].ver
    <3> HIDE DEF S, i
    <3>2. /\ [answer EXCEPT ![i] = v] \in Seq(S)
          /\ Len([answer EXCEPT ![i] = v]) = Len(answer)
      BY <3>1, ExceptAny
    <3> USE DEF i
    <3>3. QED
      BY <2>1, <3>2 DEF S
  <2>3. QED
    BY <1>5, <2>2, NoCallIsCall DEF Verdict
<1>6. ASSUME NEW c \in Calls, NEW id, NEW m, NEW i, Fail(c, id, m, i)
      PROVE  HooksTypeOK'
  BY <1>6, NoCallIsCall DEF Fail
<1>7. CASE EditGates
  <2>1. allow' \in SUBSET OpTags
    BY <1>7 DEF EditGates
  <2>2. QED
    BY <1>7, <2>1 DEF EditGates
<1>8. CASE UNCHANGED hooks
  BY <1>8 DEF hooks
<1> QED
  BY <1>1, <1>2, <1>3, <1>4, <1>5, <1>6, <1>7, <1>8
  DEF HooksNext, Callback, AtTheEnd, Stop, TaskEnds, all

\* Every step of the session keeps the domains of what the hooks work on.
THEOREM HooksTypeCorrect == HooksSpec => []HooksTypeOK
<1> QED
  BY HooksTypeInit, HooksTypeStep, PTL DEF HooksSpec

-----------------------------------------------------------------------------
\* A call that is not analysed before or after changes nothing but that the
\* file may go, and neither does one whose file went.
LEMMA AsideStep ==
  ASSUME HooksTypeOK, VerdictInv, NEW c \in Calls, NEW new \in CallType,
         call' = [call EXCEPT ![c] = new],
         new.st \in {"idle", "asked", "go"}, new.saw = "none",
         UNCHANGED <<writes, answer>>, content' \in {content, "gone"},
         Analysing(c) => content = "gone"
  PROVE  VerdictInv'
<1> USE DEF HooksTypeOK, Analysing
<1>1. ASSUME NEW d \in Calls
      PROVE  Pending(d)' /\ (call'[d].st # "read" => call'[d].saw = "none")
  <2>1. CASE d = c
    BY <2>1 DEF Pending
  <2>2. CASE d # c
    BY <2>2 DEF Pending, VerdictInv
  <2>3. QED
    BY <2>1, <2>2
<1>2. ASSUME NEW d \in Calls, NEW e \in Calls, Analysing(d)', Analysing(e)', call'[d].ver = call'[e].ver
      PROVE  d = e
  <2>1. d # c /\ e # c
    BY <1>2
  <2>2. Analysing(d) /\ Analysing(e) /\ call[d].ver = call[e].ver
    BY <1>2, <2>1
  <2>3. QED
    BY <2>2 DEF VerdictInv
<1>3. ASSUME writes > 0
      PROVE  /\ answer[writes] = "clean" => content' \in {"clean", "gone"}
             /\ \/ answer[writes] # "none" \/ content' = "gone"
                \/ \E d \in Calls : Analysing(d)' /\ call'[d].ver = writes
  <2>1. answer[writes] = "clean" => content' \in {"clean", "gone"}
    BY <1>3 DEF VerdictInv
  <2>2. CASE answer[writes] # "none" \/ content = "gone"
    BY <2>1, <2>2
  <2>3. CASE ~ (answer[writes] # "none" \/ content = "gone")
    <3>1. PICK d \in Calls : Analysing(d) /\ call[d].ver = writes
      BY <1>3, <2>3 DEF VerdictInv
    <3>2. d # c
      BY <2>3, <3>1
    <3>3. QED
      BY <2>1, <3>1, <3>2
  <2>4. QED
    BY <2>2, <2>3
<1>4. QED
  BY <1>1, <1>2, <1>3 DEF VerdictInv

\* The newest write has an analysis of its own.
LEMMA WriteStep ==
  ASSUME HooksTypeOK, VerdictInv, NEW c \in Calls, Execute(c), call[c].tool = "write"
  PROVE  VerdictInv'
<1> USE DEF HooksTypeOK, Analysing
<1>1. PICK new \in CallType :
        call' = [call EXCEPT ![c] = new] /\ new.st = "post" /\ new.ver = writes + 1 /\ new.saw = "none"
  BY WriteCall DEF VerdictInv, Execute
<1>2. answer' = Append(answer, "none") /\ writes' = writes + 1 /\ content' \in {"clean", "dirty"}
  BY DEF Execute
<1>3. /\ answer'[writes + 1] = "none" /\ \A i \in 1..writes : answer'[i] = answer[i]
  BY <1>2
<1>4. ASSUME NEW d \in Calls
      PROVE  Pending(d)' /\ (call'[d].st # "read" => call'[d].saw = "none")
  <2>1. CASE d = c
    BY <1>1, <1>2, <1>3, <2>1 DEF Pending
  <2>2. CASE d # c
    <3>1. call'[d] = call[d]
      BY <1>1, <2>2
    <3>2. Analysing(d) => call[d].ver \in 1..writes /\ answer[call[d].ver] = "none"
      BY DEF VerdictInv, Pending
    <3>3. call[d].st # "read" => call[d].saw = "none"
      BY DEF VerdictInv
    <3>4. QED
      BY <1>2, <1>3, <3>1, <3>2, <3>3 DEF Pending
  <2>3. QED
    BY <2>1, <2>2
<1>5. ASSUME NEW d \in Calls, NEW e \in Calls, Analysing(d)', Analysing(e)', call'[d].ver = call'[e].ver
      PROVE  d = e
  <2>1. ASSUME NEW f \in Calls, f # c, Analysing(f)'
        PROVE  call'[f] = call[f] /\ Analysing(f) /\ call[f].ver \in 1..writes
    BY <1>1, <2>1 DEF VerdictInv, Pending
  <2>2. call'[c].ver = writes + 1
    BY <1>1
  <2>3. CASE d = c \/ e = c
    BY <1>5, <2>1, <2>2, <2>3
  <2>4. CASE d # c /\ e # c
    BY <1>5, <2>1, <2>4 DEF VerdictInv
  <2>5. QED
    BY <2>3, <2>4
<1>6. \E d \in Calls : Analysing(d)' /\ call'[d].ver = writes'
  BY <1>1, <1>2
<1>7. answer'[writes'] = "none"
  BY <1>2, <1>3
<1>8. QED
  BY <1>4, <1>5, <1>6, <1>7 DEF VerdictInv

\* What an analysis sees is what the newest write left, as far as that is its own.
LEMMA AnalyseStep ==
  ASSUME HooksTypeOK, VerdictInv, NEW c \in Calls, Analyse(c)
  PROVE  VerdictInv'
<1> USE DEF HooksTypeOK, Analysing
<1>1. /\ call[c].st = "post" /\ UNCHANGED <<writes, answer, content>>
      /\ call'[c].st = "read" /\ call'[c].saw \in {content, "nothing"}
      /\ call'[c].ver = call[c].ver
      /\ \A d \in Calls : d # c => call'[d] = call[d]
  BY DEF Analyse, CallType
<1>2. ASSUME NEW d \in Calls
      PROVE  Pending(d)' /\ (call'[d].st # "read" => call'[d].saw = "none")
  <2>1. CASE d = c
    BY <1>1, <2>1 DEF Pending, VerdictInv
  <2>2. CASE d # c
    BY <1>1, <2>2 DEF Pending, VerdictInv
  <2>3. QED
    BY <2>1, <2>2
<1>3. ASSUME NEW d \in Calls PROVE Analysing(d)' = Analysing(d) /\ call'[d].ver = call[d].ver
  BY <1>1
<1>4. QED
  BY <1>1, <1>2, <1>3 DEF VerdictInv

\* An answer clean was of what the file holds, when its write is the newest.
LEMMA AnswerStep ==
  ASSUME HooksTypeOK, VerdictInv, NEW c \in Calls, Verdict(c)
  PROVE  VerdictInv'
<1> USE DEF HooksTypeOK, Analysing
<1> DEFINE n == call[c].ver
<1>1. /\ Analysing(c) /\ call' = [call EXCEPT ![c] = NoCall] /\ UNCHANGED <<writes, content>>
      /\ n \in 1..writes
  BY DEF Verdict, VerdictInv, Pending
<1>2. PICK v \in {"blocked", "clean", "waved"} :
        /\ answer' = [answer EXCEPT ![n] = v]
        /\ v = "clean" => call[c].saw \in {"clean", "gone"}
  BY DEF Verdict, Unblocked
<1>3. \A i \in 1..writes : answer'[i] = IF i = n THEN v ELSE answer[i]
  BY <1>1, <1>2
<1>4. ASSUME NEW d \in Calls, d # c, Analysing(d)
      PROVE  call[d].ver # n
  BY <1>1, <1>4 DEF VerdictInv
<1>5. ASSUME NEW d \in Calls
      PROVE  Pending(d)' /\ (call'[d].st # "read" => call'[d].saw = "none")
  <2>1. CASE d = c
    BY <1>1, <2>1 DEF Pending, NoCall
  <2>2. CASE d # c
    <3>1. call'[d] = call[d] /\ Pending(d) /\ (call[d].st # "read" => call[d].saw = "none")
      BY <1>1, <2>2 DEF VerdictInv
    <3>2. QED
      BY <1>1, <1>3, <1>4, <2>2, <3>1 DEF Pending
  <2>3. QED
    BY <2>1, <2>2
<1>6. ASSUME NEW d \in Calls, NEW e \in Calls, Analysing(d)', Analysing(e)', call'[d].ver = call'[e].ver
      PROVE  d = e
  <2>1. d # c /\ e # c
    BY <1>1, <1>6 DEF NoCall
  <2>2. QED
    BY <1>1, <1>6, <2>1 DEF VerdictInv
<1>7. ASSUME writes > 0
      PROVE  /\ answer'[writes] = "clean" => content \in {"clean", "gone"}
             /\ \/ answer'[writes] # "none" \/ content = "gone"
                \/ \E d \in Calls : Analysing(d)' /\ call'[d].ver = writes
  <2>1. CASE n = writes
    <3>1. answer'[writes] = v
      BY <1>3, <1>7, <2>1
    <3>2. /\ call[c].saw = "clean" => content \in {"clean", "gone"}
          /\ call[c].saw = "gone" => content = "gone"
      BY <1>1, <2>1 DEF VerdictInv, Pending
    <3>3. QED
      BY <1>2, <3>1, <3>2
  <2>2. CASE n # writes
    <3>1. answer'[writes] = answer[writes]
      BY <1>3, <1>7, <2>2
    <3>2. ASSUME NEW d \in Calls, Analysing(d), call[d].ver = writes
          PROVE  Analysing(d)' /\ call'[d].ver = writes
      BY <1>1, <2>2, <3>2
    <3>3. QED
      BY <1>7, <3>1, <3>2 DEF VerdictInv
  <2>3. QED
    BY <2>1, <2>2
<1>8. QED
  BY <1>1, <1>5, <1>6, <1>7 DEF VerdictInv

LEMMA VerdictStep == HooksTypeOK /\ VerdictInv /\ [HooksNext]_all => VerdictInv'
<1> SUFFICES ASSUME HooksTypeOK, VerdictInv, [HooksNext]_all PROVE VerdictInv'
  OBVIOUS
<1>0. NoCall \in CallType /\ NoCall.st = "idle" /\ NoCall.saw = "none"
  BY NoCallIsCall DEF NoCall
<1>1. ASSUME NEW c \in Calls, NEW agent \in Agents, NEW tool \in Tools, Ask(c, agent, tool)
      PROVE  VerdictInv'
  <2> DEFINE judged == Judged(agent, tool)
             new == [NoCall EXCEPT !.st = IF judged = "ask" THEN "asked" ELSE "go",
                                   !.agent = agent, !.tool = tool]
  <2>1. new \in CallType
    BY <1>1, JudgedCases, AskIsCall DEF Ask
  <2>2. new.st \in {"asked", "go"} /\ new.saw = "none"
    BY DEF NoCall
  <2>3. /\ call' = [call EXCEPT ![c] = new] /\ ~Analysing(c)
        /\ UNCHANGED <<writes, answer>> /\ content' = content
    BY <1>1 DEF Ask, Analysing
  <2> HIDE DEF new
  <2>4. QED
    BY <2>1, <2>2, <2>3, AsideStep
<1>2. ASSUME NEW c \in Calls, Approve(c)
      PROVE  VerdictInv'
  <2> DEFINE new == [call[c] EXCEPT !.st = "go"]
  <2>1. call[c] \in CallType /\ call[c].st = "asked"
    BY <1>2 DEF HooksTypeOK, Approve
  <2>2. new \in CallType /\ new.st = "go" /\ new.saw = call[c].saw
    BY <2>1 DEF CallType
  <2>3. new.saw = "none"
    BY <2>1, <2>2 DEF VerdictInv
  <2>4. call' = [call EXCEPT ![c] = new]
    BY <1>2 DEF Approve, HooksTypeOK
  <2>5. UNCHANGED <<writes, answer, content>> /\ ~Analysing(c)
    BY <1>2 DEF Approve, Analysing
  <2> HIDE DEF new
  <2>6. QED
    BY <2>2, <2>3, <2>4, <2>5, AsideStep
<1>3. ASSUME NEW c \in Calls, Reject(c) \/ Skip(c)
      PROVE  VerdictInv'
  BY <1>0, <1>3, AsideStep DEF Reject, Skip, Analysing
<1>4. ASSUME NEW c \in Calls, Execute(c)
      PROVE  VerdictInv'
  <2>1. CASE call[c].tool = "write"
    BY <1>4, <2>1, WriteStep
  <2>2. CASE call[c].tool # "write"
    BY <1>0, <1>4, <2>2, AsideStep DEF Execute, Analysing
  <2>3. QED
    BY <2>1, <2>2
<1>5. ASSUME NEW c \in Calls, NEW id, NEW m, NEW i, Fail(c, id, m, i)
      PROVE  VerdictInv'
  BY <1>0, <1>5, AsideStep DEF Fail, Analysing
<1>6. CASE EditGates \/ UNCHANGED hooks
  BY <1>6 DEF EditGates, hooks, VerdictInv, Pending, Analysing
<1> QED
  BY <1>1, <1>2, <1>3, <1>4, <1>5, <1>6, AnalyseStep, AnswerStep
  DEF HooksNext, Callback, AtTheEnd, Stop, TaskEnds, all

\* A newest write answered clean left a clean file, and no write is left without
\* an answer once no analysis runs, for any number of agents writing one file
\* while others' analyses of it are under way.
THEOREM AnswersAreCurrent == HooksSpec => []VerdictIsCurrent
<1>1. HooksInit => VerdictInv
  BY DEF HooksInit, VerdictInv, Pending, Analysing, NoCall
<1>2. VerdictInv => VerdictIsCurrent
  BY DEF VerdictInv, VerdictIsCurrent, Quiet, Analysing
<1> QED
  BY <1>1, <1>2, VerdictStep, HooksTypeCorrect, PTL DEF HooksSpec

-----------------------------------------------------------------------------
\* The first of a session's failures stays the first when one is recorded.
Of(s, id) == {i \in DOMAIN s : s[i].id = id}

LEMMA FirstStays ==
  ASSUME NEW s \in Seq(Event), NEW t, NEW e \in Event, t = s \/ t = Append(s, e), NEW id,
         Of(s, id) # {}
  PROVE  Of(t, id) # {} /\ t[Min(Of(t, id))] = s[Min(Of(s, id))]
<1> DEFINE F == Of(s, id)
           G == Of(t, id)
<1>0. F = {i \in DOMAIN s : s[i].id = id} /\ G = {i \in DOMAIN t : t[i].id = id} /\ F # {}
  BY DEF Of
<1> HIDE DEF F, G
<1>1. CASE t = s
  BY <1>1 DEF F, G
<1>2. CASE t = Append(s, e)
  <2>1. /\ DOMAIN s = 1..Len(s) /\ DOMAIN t = 1..(Len(s) + 1) /\ Len(s) \in Nat
        /\ \A i \in 1..Len(s) : t[i] = s[i]
    BY <1>2
  <2>2. F \subseteq G /\ F \subseteq 1..Len(s) /\ G \subseteq 1..(Len(s) + 1)
    BY <1>0, <2>1
  <2>0. F \subseteq Nat /\ G \subseteq Nat /\ F # {} /\ G # {}
    BY <1>0, <2>1, <2>2
  <2>3. Min(F) \in F /\ \A y \in F : Min(F) <= y
    BY <2>0, MinOfNats
  <2>4. Min(G) \in G /\ \A y \in G : Min(G) <= y
    BY <2>0, MinOfNats
  <2>5. Min(G) <= Min(F) /\ Min(G) \in 1..Len(s)
    <3> DEFINE a == Min(F)
               b == Min(G)
    <3>1. a \in 1..Len(s) /\ b \in 1..(Len(s) + 1) /\ b <= a
      BY <2>2, <2>3, <2>4
    <3> HIDE DEF a, b
    <3>2. b \in 1..Len(s)
      BY <2>1, <3>1
    <3>3. QED
      BY <3>1, <3>2 DEF a, b
  <2>6. Min(G) \in F
    BY <1>0, <2>1, <2>4, <2>5
  <2>7. Min(G) = Min(F)
    <3> DEFINE a == Min(F)
               b == Min(G)
    <3>1. a \in Nat /\ b \in Nat /\ a <= b /\ b <= a
      BY <2>0, <2>3, <2>4, <2>5, <2>6
    <3> HIDE DEF a, b
    <3>2. a = b
      BY <3>1
    <3>3. QED
      BY <3>2 DEF a, b
  <2>8. QED
    BY <2>0, <2>1, <2>2, <2>5, <2>7 DEF F, G
<1>3. QED
  BY <1>1, <1>2

LEMMA ClassifyIsTag == \A matches : Classify(matches) \in Tags \cup {"unclassified"}
<1> TAKE matches
<1> DEFINE hits == {i \in DOMAIN TagOrder : TagOrder[i] \in matches}
<1>1. DOMAIN TagOrder \subseteq Nat
  BY DEF TagOrder
<1>2. CASE hits = {}
  BY <1>2 DEF Classify
<1>3. CASE hits # {}
  <2>1. Min(hits) \in hits
    BY <1>1, <1>3, MinOfNats
  <2>2. Classify(matches) = TagOrder[Min(hits)]
    BY <1>3 DEF Classify
  <2>3. QED
    BY <2>1, <2>2 DEF Tags
<1>4. QED
  BY <1>2, <1>3

\* DraftsAreRooted is inductive, given what the tables hold.
DraftsInv ==
  /\ events \in Seq(Event)
  /\ drafts \in Seq([id : Sessions, root_cause : Tags \cup {"unclassified"}])
  /\ DraftsAreRooted

LEMMA FailureStep ==
  ASSUME DraftsInv, NEW id \in Sessions, NEW m, NEW i, RecordFailure(id, m, i)
  PROVE  DraftsInv'
<1> DEFINE e == [id |-> id, tag |-> Classify(m)]
<1>1. e \in Event
  BY ClassifyIsTag DEF Event
<1>2. (events' = events \/ events' = Append(events, e)) /\ drafts' = drafts
  BY DEF RecordFailure
<1> HIDE DEF e
<1>3. events' \in Seq(Event) /\ drafts' \in Seq([id : Sessions, root_cause : Tags \cup {"unclassified"}])
  BY <1>1, <1>2 DEF DraftsInv
<1>4. ASSUME NEW d \in DOMAIN drafts
      PROVE  /\ FailuresFor(drafts[d].id)' # {}
             /\ drafts[d].root_cause = FirstFailure(drafts[d].id).tag'
  <2> DEFINE who == drafts[d].id
  <2>1. Of(events, who) # {} /\ drafts[d].root_cause = events[Min(Of(events, who))].tag
    BY DEF DraftsInv, DraftsAreRooted, FailuresFor, FirstFailure, Of
  <2>2. Of(events', who) # {} /\ events'[Min(Of(events', who))] = events[Min(Of(events, who))]
    <3>1. events \in Seq(Event)
      BY DEF DraftsInv
    <3> HIDE DEF who
    <3>2. QED
      BY <1>1, <1>2, <2>1, <3>1, FirstStays
  <2>3. QED
    BY <1>2, <2>1, <2>2 DEF FailuresFor, FirstFailure, Of
<1>5. QED
  BY <1>2, <1>3, <1>4 DEF DraftsInv, DraftsAreRooted

LEMMA DraftStep ==
  ASSUME DraftsInv, NEW id \in Sessions, DraftCandidate(id)
  PROVE  DraftsInv'
<1>1. CASE FailuresFor(id) = {}
  BY <1>1 DEF DraftCandidate, DraftsInv, DraftsAreRooted, FailuresFor, FirstFailure
<1>2. CASE FailuresFor(id) # {}
  <2> DEFINE d == [id |-> id, root_cause |-> FirstFailure(id).tag]
             Draft == [id : Sessions, root_cause : Tags \cup {"unclassified"}]
  <2>1. drafts' = Append(drafts, d) /\ UNCHANGED events
    BY <1>2 DEF DraftCandidate
  <2>2. FailuresFor(id) \subseteq 1..Len(events)
    BY DEF FailuresFor, DraftsInv
  <2>3. Min(FailuresFor(id)) \in 1..Len(events)
    BY <1>2, <2>2, MinOfNats
  <2>4. d \in Draft
    <3>1. FirstFailure(id) \in Event
      BY <2>3 DEF FirstFailure, DraftsInv
    <3>2. FirstFailure(id).tag \in Tags \cup {"unclassified"}
      BY <3>1 DEF Event
    <3>3. QED
      BY <3>2
  <2>5. d.id = id /\ d.root_cause = FirstFailure(id).tag
    OBVIOUS
  <2> HIDE DEF d
  <2>6. drafts' \in Seq(Draft)
    BY <2>1, <2>4 DEF DraftsInv
  <2>7. ASSUME NEW j \in DOMAIN drafts'
        PROVE  drafts'[j] = d \/ (j \in DOMAIN drafts /\ drafts'[j] = drafts[j])
    BY <2>1, <2>4, <2>7 DEF DraftsInv
  <2>8. \A who : FailuresFor(who)' = FailuresFor(who) /\ FirstFailure(who)' = FirstFailure(who)
    BY <2>1 DEF FailuresFor, FirstFailure
  <2>9. DraftsAreRooted'
    BY <1>2, <2>5, <2>7, <2>8 DEF DraftsAreRooted, DraftsInv
  <2>10. QED
    BY <2>1, <2>6, <2>9 DEF DraftsInv
<1>3. QED
  BY <1>1, <1>2

LEMMA DraftsStep == DraftsInv /\ [HooksNext]_all => DraftsInv'
<1> SUFFICES ASSUME DraftsInv, [HooksNext]_all PROVE DraftsInv'
  OBVIOUS
<1>1. CASE UNCHANGED <<events, drafts>>
  BY <1>1 DEF DraftsInv, DraftsAreRooted, FailuresFor, FirstFailure
<1>2. ASSUME NEW c \in Calls, Callback(c)
      PROVE  DraftsInv'
  <2>1. CASE UNCHANGED store
    BY <1>1, <2>1 DEF store
  <2>2. ASSUME NEW id \in Sessions, NEW m \in SUBSET Tags, NEW i \in BOOLEAN, Fail(c, id, m, i)
        PROVE  DraftsInv'
    BY <2>2, FailureStep DEF Fail
  <2>3. QED
    BY <1>2, <2>1, <2>2 DEF Callback, Ask, Approve, Reject, Execute, Skip, Analyse, Verdict
<1>3. CASE EditGates \/ UNCHANGED all
  BY <1>1, <1>3 DEF EditGates, all, store
<1>4. ASSUME NEW id \in Sessions, AtTheEnd(id)
      PROVE  DraftsInv'
  BY <1>1, <1>4, DraftStep DEF AtTheEnd, Stop, TaskEnds, RecordTask
<1> QED
  BY <1>2, <1>3, <1>4 DEF HooksNext

\* Every corpus candidate drafted names the root cause of the first failure its
\* session had, however the failures of any number of sessions interleave.
THEOREM CandidatesAreRooted == HooksSpec => []DraftsAreRooted
<1>1. HooksInit => DraftsInv
  BY DEF HooksInit, StoreInit, DraftsInv, DraftsAreRooted
<1>2. DraftsInv => DraftsAreRooted
  BY DEF DraftsInv
<1> QED
  BY <1>1, <1>2, DraftsStep, PTL DEF HooksSpec

-----------------------------------------------------------------------------
\* A count of k of finitely many values is some one of them that at least k do
\* not exceed.
AtLeast(N, f, k) == {f[q] : q \in {p \in N : Cardinality({r \in N : f[r] <= f[p]}) >= k}}

LEMMA Ranked ==
  ASSUME NEW N, IsFiniteSet(N), NEW f, NEW b \in Nat, \A q \in N : f[q] \in Nat /\ f[q] <= b,
         NEW k \in 1..Cardinality(N)
  PROVE  \E s \in N : Min(AtLeast(N, f, k)) = f[s]
<1> DEFINE T == {m \in Nat : \A q \in N : f[q] <= m}
           V == AtLeast(N, f, k)
<1> USE DEF AtLeast
<1>1. b \in T
  OBVIOUS
<1>2. PICK m \in T : \A y \in T : m <= y
  BY <1>1, MinOfNats
<1>3. N # {}
  BY FS_EmptySet
<1>4. PICK q \in N : f[q] = m
  <2>1. CASE m = 0
    BY <1>2, <1>3, <2>1
  <2>2. CASE m # 0
    <3>1. m - 1 \in Nat /\ ~ (m <= m - 1)
      BY <1>2, <2>2
    <3>2. m - 1 \notin T
      BY <1>2, <3>1
    <3>3. PICK q \in N : ~ (f[q] <= m - 1)
      BY <3>1, <3>2
    <3>4. f[q] <= m /\ f[q] \in Nat
      BY <1>2
    <3>5. QED
      BY <3>1, <3>3, <3>4
  <2>3. QED
    BY <2>1, <2>2
<1>5. {r \in N : f[r] <= f[q]} = N
  BY <1>2, <1>4
<1>6. Cardinality(N) \in Nat /\ Cardinality(N) >= k
  BY FS_CardinalityType
<1>7. f[q] \in V
  BY <1>5, <1>6
<1>8. V \subseteq Nat
  OBVIOUS
<1>9. Min(V) \in V
  <2> HIDE DEF V
  <2>1. QED
    BY <1>7, <1>8, MinOfNats
<1>10. QED
  BY <1>9

\* Quotients of a number at least the divisor and at most c times it.
LEMMA Quotient ==
  ASSUME NEW x \in Nat, NEW d \in Nat, d > 0, NEW c \in Nat, NEW y \in Nat, y = c * d, d <= x, x <= y
  PROVE  x \div d \in 1..c
OBVIOUS

LEMMA Exact ==
  ASSUME NEW d \in Nat, d > 0, NEW c \in Nat, NEW y \in Nat, y = c * d
  PROVE  y \div d = c
OBVIOUS

LEMMA FourTimes ==
  ASSUME NEW y \in Nat, y % 4 = 0
  PROVE  4 * (y \div 4) = y
OBVIOUS

\* A task that counts was billed at most at the true rate, at it without audit.
LEMMA RatioOf ==
  ASSUME RowsInv, NEW s \in Counted
  PROVE  Ratio(s) \in 1..rate /\ (~tasks[s].audited => Ratio(s) = rate)
<1>1. s \in Sessions /\ tasks[s].usd >= 0
  BY DEF Counted
<1>2. tasks[s] # NoTask
  BY <1>1 DEF NoTask
<1>3. PICK n \in Spends, a \in Audits \cup {0} :
        /\ tasks[s].usd \in {(n * rate) \div Quarter, -1}
        /\ tasks[s].est = n + a /\ (~tasks[s].audited => a = 0)
  BY <1>1, <1>2 DEF RowsInv
<1>4. n \in Nat /\ n > 0 /\ a \in Nat /\ rate \in Nat /\ rate > 0 /\ rate \in Rates
  BY StoreAssumption DEF RowsInv
<1> DEFINE y == n * rate
<1>5. y \in Nat /\ y % 4 = 0
  BY <1>4, StoreAssumption DEF Quarter
<1>6. n + a <= y
  <2>1. CASE a \in Audits
    BY <1>4, <2>1, StoreAssumption
  <2>2. CASE a = 0
    BY <1>4, <2>2
  <2>3. QED
    BY <2>1, <2>2
<1>7. y = rate * n /\ y <= rate * (n + a) /\ rate * (n + a) \in Nat
  BY <1>4
<1>8. tasks[s].usd = y \div 4
  BY <1>1, <1>3 DEF Quarter
<1> HIDE DEF y
<1>9. Ratio(s) = y \div (n + a)
  BY <1>3, <1>5, <1>8, FourTimes DEF Ratio, Quarter
<1>10. n + a \in Nat /\ n + a > 0
  BY <1>4
<1>11. Ratio(s) \in 1..rate
  <2> DEFINE d == n + a
             z == rate * d
  <2>1. d \in Nat /\ d > 0 /\ z \in Nat /\ d <= y /\ y <= z /\ z = rate * d
    BY <1>6, <1>7, <1>10
  <2> HIDE DEF d, z
  <2>2. y \div d \in 1..rate
    BY <1>4, <1>5, <2>1, Quotient
  <2>3. QED
    BY <1>9, <2>2 DEF d
<1>12. ASSUME ~tasks[s].audited PROVE Ratio(s) = rate
  <2>1. a = 0 /\ n + a = n
    BY <1>3, <1>4, <1>12
  <2>2. y \div n = rate
    BY <1>4, <1>5, <1>7, Exact
  <2>3. QED
    BY <1>9, <2>1, <2>2
<1>13. QED
  BY <1>11, <1>12

LEMMA SmallestOf ==
  ASSUME RowsInv, NEW k \in 1..Cardinality(Newest)
  PROVE  \E s \in Newest : Smallest(k) = Ratio(s)
<1> DEFINE f == [s \in Newest |-> Ratio(s)]
           V == AtLeast(Newest, f, k)
<1>1. IsFiniteSet(Newest)
  <2>1. Newest \subseteq Sessions
    BY DEF Newest, Counted
  <2>2. QED
    BY <2>1, StoreAssumption, FS_Subset
<1>2. rate \in Nat /\ \A q \in Newest : f[q] \in Nat /\ f[q] <= rate
  <2>1. rate \in Nat
    BY StoreAssumption DEF RowsInv
  <2>2. ASSUME NEW q \in Newest PROVE f[q] \in 1..rate
    BY RatioOf DEF Newest
  <2>3. QED
    BY <2>1, <2>2
<1>3. Smallest(k) = Min(V)
  <2>1. ASSUME NEW p \in Newest PROVE NoMoreThan(p) = {r \in Newest : f[r] <= f[p]}
    BY DEF NoMoreThan
  <2>2. V = {Ratio(s) : s \in {q \in Newest : Cardinality(NoMoreThan(q)) >= k}}
    BY <2>1 DEF AtLeast
  <2> HIDE DEF V
  <2>3. QED
    BY <2>2 DEF Smallest
<1>4. \E s \in Newest : Min(V) = f[s]
  <2> HIDE DEF f
  <2>1. QED
    BY <1>1, <1>2, Ranked
<1>5. QED
  BY <1>3, <1>4

LEMMA MeanOf ==
  ASSUME NEW r \in Nat, NEW x \in 1..r, NEW y \in 1..r
  PROVE  (x + y) \div 2 \in 1..r /\ (x = r /\ y = r => (x + y) \div 2 = r)
OBVIOUS

LEMMA Halves ==
  ASSUME NEW n \in Nat, n > 0
  PROVE  /\ n % 2 = 1 => (n \div 2) + 1 \in 1..n
         /\ n % 2 # 1 => n \div 2 \in 1..n /\ (n \div 2) + 1 \in 1..n
OBVIOUS

\* The median is within the true rate, and is it when no critic was paid.
LEMMA MedianOf ==
  ASSUME RowsInv, Cardinality(Newest) >= MinSamples
  PROVE  /\ EstimateCalibration \in 1..rate
         /\ (\A s \in Newest : ~tasks[s].audited) => EstimateCalibration = rate
<1> DEFINE n == Cardinality(Newest)
           Paid == \A s \in Newest : ~tasks[s].audited
<1>1. n \in Nat /\ n > 0 /\ ~ (n < MinSamples)
  <2>1. Newest \subseteq Sessions
    BY DEF Newest, Counted
  <2>2. n \in Nat
    BY <2>1, StoreAssumption, FS_Subset, FS_CardinalityType
  <2>3. QED
    BY <2>2, StoreAssumption
<1>2. rate \in Nat
  BY StoreAssumption DEF RowsInv
<1>3. ASSUME NEW k \in 1..n
      PROVE  Smallest(k) \in 1..rate /\ (Paid => Smallest(k) = rate)
  <2>1. PICK s \in Newest : Smallest(k) = Ratio(s)
    BY SmallestOf
  <2>2. s \in Counted
    BY DEF Newest
  <2>3. QED
    BY <2>1, <2>2, RatioOf
<1>4. EstimateCalibration = IF n % 2 = 1 THEN Smallest((n \div 2) + 1)
                            ELSE (Smallest(n \div 2) + Smallest((n \div 2) + 1)) \div 2
  BY <1>1 DEF EstimateCalibration
<1> HIDE DEF n, Paid
<1>5. CASE n % 2 = 1
  BY <1>1, <1>3, <1>4, <1>5, Halves DEF Paid
<1>6. CASE n % 2 # 1
  <2>1. n \div 2 \in 1..n /\ (n \div 2) + 1 \in 1..n
    BY <1>1, <1>6, Halves
  <2> DEFINE x == Smallest(n \div 2)
             y == Smallest((n \div 2) + 1)
  <2>2. x \in 1..rate /\ y \in 1..rate /\ (Paid => x = rate /\ y = rate)
    BY <1>3, <2>1
  <2>3. EstimateCalibration = (x + y) \div 2
    BY <1>4, <1>6
  <2> HIDE DEF x, y
  <2>4. QED
    BY <1>2, <2>2, <2>3, MeanOf DEF Paid
<1>7. QED
  BY <1>5, <1>6

LEMMA RowsGiveTruth == RowsInv => CalibrationIsTrue
<1> SUFFICES ASSUME RowsInv, Cardinality(Newest) >= MinSamples
             PROVE  /\ Calibration <= rate
                    /\ (\A s \in Newest : ~tasks[s].audited) => Calibration = Clamped(rate)
  BY DEF CalibrationIsTrue
<1>1. rate \in Nat
  BY StoreAssumption DEF RowsInv
<1> DEFINE c == EstimateCalibration
<1>2. c \in 1..rate /\ ((\A s \in Newest : ~tasks[s].audited) => c = rate)
  BY MedianOf
<1>3. Calibration = Clamped(c)
  BY DEF Calibration
<1> HIDE DEF c
<1>4. Clamped(c) <= rate
  BY <1>1, <1>2 DEF Clamped, Quarter
<1>5. QED
  BY <1>2, <1>3, <1>4

LEMMA RowsStep == RowsInv /\ [HooksNext]_all => RowsInv'
<1> SUFFICES ASSUME RowsInv, [HooksNext]_all PROVE RowsInv'
  OBVIOUS
<1>1. CASE UNCHANGED <<rate, tasks>>
  BY <1>1 DEF RowsInv
<1>2. ASSUME NEW id \in Sessions, NEW n \in Spends, NEW a \in Audits \cup {0}, NEW b \in BOOLEAN,
             NEW o, RecordTask(id, n, a, b, o)
      PROVE  RowsInv'
  <2> DEFINE row == [at |-> Now, usd |-> IF b THEN (n * rate) \div Quarter ELSE -1,
                     est |-> n + a, audited |-> a > 0, outcome |-> o]
  <2>1. tasks' = [tasks EXCEPT ![id] = row] /\ UNCHANGED rate
    BY <1>2 DEF RecordTask
  <2>2. row.usd \in {(n * rate) \div Quarter, -1} /\ row.est = n + a /\ (~row.audited => a = 0)
    <3>1. a \in Nat
      BY StoreAssumption
    <3>2. ~ (a > 0) => a = 0
      BY <3>1
    <3>3. QED
      BY <3>2
  <2> HIDE DEF row
  <2>3. tasks' = [s \in Sessions |-> IF s = id THEN row ELSE tasks[s]]
    <3>1. tasks = [s \in Sessions |-> tasks[s]]
      BY DEF RowsInv
    <3>2. DOMAIN tasks = Sessions
      BY <3>1, Zenon
    <3>3. [tasks EXCEPT ![id] = row] = [s \in DOMAIN tasks |-> IF s = id THEN row ELSE tasks[s]]
      OBVIOUS
    <3>4. QED
      BY <2>1, <3>2, <3>3
  <2>4. tasks' = [s \in Sessions |-> tasks'[s]]
    BY <2>3
  <2>5. QED
    BY <2>1, <2>2, <2>3, <2>4 DEF RowsInv
<1>3. ASSUME NEW c \in Calls, Callback(c)
      PROVE  RowsInv'
  BY <1>1, <1>3 DEF Callback, Ask, Approve, Reject, Execute, Skip, Analyse, Verdict, Fail, RecordFailure, store
<1>4. CASE EditGates \/ UNCHANGED all
  BY <1>1, <1>4 DEF EditGates, all, store
<1>5. ASSUME NEW id \in Sessions, AtTheEnd(id)
      PROVE  RowsInv'
  BY <1>1, <1>2, <1>5 DEF AtTheEnd, Stop, TaskEnds, DraftCandidate
<1> QED
  BY <1>3, <1>4, <1>5 DEF HooksNext

\* What the budget guard learns from any number of tasks of any prices is within
\* the true billed/estimate ratio, and is it when no critic was paid for.
THEOREM LearnsTheTruth == HooksSpec => []CalibrationIsTrue
<1>1. HooksInit => RowsInv
  BY DEF HooksInit, StoreInit, RowsInv
<1> QED
  BY <1>1, RowsStep, RowsGiveTruth, PTL DEF HooksSpec

-----------------------------------------------------------------------------
\* The scenes that are model-checked are behaviours of HooksSpec: their steps
\* are its own or leave it alone.
THEOREM ScenesAreHooks == SessionSpec => HooksSpec
<1>1. ScenesInit => HooksInit
  BY DEF ScenesInit
<1>2. [Task \/ Gates \/ Failures \/ Records]_scenes => [HooksNext]_all
  <2>1. Task => UNCHANGED all
    BY DEF Task, rest
  <2>2. Gates => HooksNext
    BY DEF Gates, HooksNext, Callback, Callers
  <2>3. Failures => HooksNext
    <3>1. Errors \subseteq SUBSET Tags
      BY DEF Errors, Tags, TagOrder
    <3>2. QED
      BY <3>1, ScenesAssumption DEF Failures, HooksNext, Callback, AtTheEnd, Agents
  <2>4. Records => HooksNext
    BY DEF Records, HooksNext, AtTheEnd
  <2>5. QED
    BY <2>1, <2>2, <2>3, <2>4 DEF scenes, rest
<1> QED
  BY <1>1, <1>2, PTL DEF SessionSpec, HooksSpec

-----------------------------------------------------------------------------
(* One task and its critic. *)


USE SessionAssumption

LEMMA CostIsNat == \A c \in Costs \cup {0} : c \in Nat
<1>1. \A c \in Costs : c \in Nat
  BY Zenon DEF SessionAssumption
<1>2. ASSUME NEW c \in Costs \cup {0}, c \notin Costs PROVE c \in Nat
  <2>1. c = 0
    BY <1>2
  <2>2. QED
    BY <2>1
<1>3. QED
  BY <1>1, <1>2, Zenon

LEMMA AppendToEmpty == ASSUME NEW x PROVE Append(<<>>, x) = <<x>>
OBVIOUS

LEMMA ResultIsMessage ==
  ASSUME NEW e \in BOOLEAN, NEW l \in VerdictLines PROVE Result(e, l) \in MessageType
BY DEF Result, Message, MessageType

LEMMA AssistantIsMessage ==
  ASSUME NEW c \in Costs PROVE Assistant(c) \in MessageType
BY DEF Assistant, Message, MessageType, VerdictLines

LEMMA TypeInit == Init => TypeOK
BY DEF Init, TypeOK, None, Message, MessageType, VerdictLines

\* TypeOK is inductive.
LEMMA TypeStep == TypeOK /\ [Next]_vars => TypeOK'
<1> SUFFICES ASSUME TypeOK, [Next]_vars PROVE TypeOK'
  OBVIOUS
<1> USE DEF TypeOK
<1>0. <<>> \in VerdictLines
  BY DEF VerdictLines
<1>1. ASSUME NEW c \in Costs, Turn(c) PROVE TypeOK'
  <2>1. Assistant(c) \in MessageType /\ c \in Nat
    BY AssistantIsMessage, CostIsNat
  <2>2. stream' \in Seq(MessageType)
    BY <1>1, <2>1 DEF Turn
  <2>3. turns' \in Nat /\ billed' \in Nat /\ cli' = "tool"
    BY <1>1, <2>1 DEF Turn
  <2>4. UNCHANGED <<gated, telemetry, phase, spent, failures, result, audit, outcome, recorded>>
    BY <1>1 DEF Turn
  <2>5. QED
    BY <2>2, <2>3, <2>4
<1>2. ASSUME NEW c \in Costs, NEW e \in BOOLEAN, NEW l \in VerdictLines, Answer(c, e, l)
      PROVE TypeOK'
  <2>1. <<Assistant(c), Result(e, l)>> \in Seq(MessageType)
    BY AssistantIsMessage, ResultIsMessage
  <2>2. stream' \in Seq(MessageType)
    BY <1>2, <2>1 DEF Answer
  <2>3. turns' \in Nat /\ billed' \in Nat /\ cli' = "closed"
    BY <1>2, CostIsNat DEF Answer
  <2>4. UNCHANGED <<gated, telemetry, phase, spent, failures, result, audit, outcome, recorded>>
    BY <1>2 DEF Answer
  <2>5. QED
    BY <2>2, <2>3, <2>4
<1>3. ASSUME NEW e \in BOOLEAN, OutOfTurns(e) \/ GuardHalts(e) PROVE TypeOK'
  <2>1. Result(e, <<>>) \in MessageType
    BY <1>0, ResultIsMessage
  <2>2. stream' = Append(stream, Result(e, <<>>))
    BY <1>3 DEF OutOfTurns, GuardHalts, Close
  <2>3. stream' \in Seq(MessageType)
    BY <2>1, <2>2
  <2>4. QED
    BY <1>3, <2>3 DEF OutOfTurns, GuardHalts, Close
<1>4. CASE GuardPasses \/ ToolFails \/ CliDies
  <2>1. CASE GuardPasses BY <2>1 DEF GuardPasses
  <2>2. CASE ToolFails BY <2>2 DEF ToolFails
  <2>3. CASE CliDies BY <2>3 DEF CliDies
  <2>4. QED BY <1>4, <2>1, <2>2, <2>3
<1>5. CASE Read
  <2>1. Head(stream) \in MessageType /\ Tail(stream) \in Seq(MessageType)
    BY <1>5 DEF Read
  <2>2. Head(stream).cost \in Nat
    BY <2>1, CostIsNat DEF MessageType
  <2>3. spent' \in Nat /\ stream' \in Seq(MessageType)
    BY <1>5, <2>1, <2>2 DEF Read
  <2>4. result' \in MessageType /\ audit' \in MessageType
    BY <1>5, <2>1 DEF Read
  <2>5. UNCHANGED <<gated, telemetry, phase, cli, turns, billed, failures, outcome, recorded>>
    BY <1>5 DEF Read
  <2>6. QED
    BY <2>3, <2>4, <2>5
<1>6. ASSUME NEW how \in {"failed", "cancelled", "unrecorded"}, Raise(how) PROVE TypeOK'
  BY <1>6 DEF Raise
<1>7. CASE BeginAudit
  BY <1>7 DEF BeginAudit
<1>8. CASE Report
  <2>1. outcome' \in {"success", "error"} /\ recorded' \in Seq({"success", "error"})
    BY <1>8 DEF Report, Named
  <2>2. phase' = "returned" /\ UNCHANGED <<gated, telemetry, cli, turns, stream, spent, billed, failures,
                                           result, audit>>
    BY <1>8 DEF Report, session
  <2>3. QED
    BY <2>1, <2>2
<1>9. CASE UNCHANGED vars
  BY <1>9 DEF vars, session
<1>10. QED
  BY <1>1, <1>2, <1>3, <1>4, <1>5, <1>6, <1>7, <1>8, <1>9
     DEF Next, Cli, Orchestrator, NoResult, SdkError, Cancelled, Done, Finish, Unrecorded

\* Every variable of a task keeps its type.
THEOREM TypeCorrect == Spec => []TypeOK
BY TypeInit, TypeStep, PTL DEF Spec

-----------------------------------------------------------------------------
\* What is known at each phase: nothing is returned or recorded before the
\* end, a critic's result exists only once its session began, and that
\* session begins on a successful main result, which it no longer changes.
PhaseInv ==
  /\ phase # "returned" => outcome = "none" /\ recorded = <<>>
  /\ phase = "main" => audit = None
  /\ phase = "audit" => gated /\ ~result.error

SessionInv == TypeOK /\ PhaseInv /\ SuccessIsEarned /\ RecordMatchesOutcome

LEMMA SessionInit == Init => SessionInv
BY TypeInit DEF Init, SessionInv, PhaseInv, SuccessIsEarned, RecordMatchesOutcome, None,
                Message, Vetoed

\* SessionInv is inductive.
LEMMA SessionStep == SessionInv /\ [Next]_vars => SessionInv'
<1> SUFFICES ASSUME SessionInv, [Next]_vars
             PROVE (PhaseInv /\ SuccessIsEarned /\ RecordMatchesOutcome)'
  BY TypeStep DEF SessionInv
<1> USE DEF SessionInv, PhaseInv, SuccessIsEarned, RecordMatchesOutcome, Running
<1>1. CASE Cli
  BY <1>1 DEF Cli, Turn, Answer, OutOfTurns, GuardHalts, GuardPasses, ToolFails, CliDies
<1>2. CASE Read
  BY <1>2 DEF Read, Vetoed
<1>3. ASSUME NEW how \in {"failed", "cancelled", "unrecorded"}, Raise(how), Running
      PROVE  (PhaseInv /\ SuccessIsEarned /\ RecordMatchesOutcome)'
  BY <1>3 DEF Raise
<1>4. CASE BeginAudit
  BY <1>4 DEF BeginAudit, AuditDue
<1>5. CASE Finish /\ Report
  <2>1. phase' = "returned" /\ UNCHANGED <<gated, telemetry, result, audit>>
        /\ phase \in {"main", "audit"} /\ (phase = "audit" \/ ~AuditDue)
    BY <1>5 DEF Finish, Report, StreamEnded
  <2>2. outcome' = Named(IsError) /\ recorded' = IF telemetry THEN <<outcome'>> ELSE <<>>
    BY <1>5, <2>1, AppendToEmpty DEF Report, RecordedError
  <2>3. outcome' = "success" => ~result.error /\ ~Vetoed(audit.lines)
    BY <2>1, <2>2 DEF Named, IsError, Vetoed, None, Message
  <2>4. QED
    BY <2>1, <2>2, <2>3 DEF Vetoed
<1>6. CASE UNCHANGED vars
  BY <1>6 DEF vars, session, Vetoed
<1>7. QED
  BY <1>1, <1>2, <1>3, <1>4, <1>5, <1>6
     DEF Next, Orchestrator, NoResult, SdkError, StreamEnded, Cancelled, Done, Finish, Unrecorded

\* A task never reports success over a failed session or a critic's veto, and
\* the critic never judges a failed run.
THEOREM SuccessEarned == Spec => []SuccessIsEarned
<1>1. SessionInv => SuccessIsEarned
  BY DEF SessionInv
<1>2. QED
  BY SessionInit, SessionStep, <1>1, PTL DEF Spec

\* The telemetry record of a task is written once and agrees with what the
\* caller was told; no other task has one, nor any without telemetry.
THEOREM RecordsMatch == Spec => []RecordMatchesOutcome
<1>1. SessionInv => RecordMatchesOutcome
  BY DEF SessionInv
<1>2. QED
  BY SessionInit, SessionStep, <1>1, PTL DEF Spec

-----------------------------------------------------------------------------
(***************************************************************************)
(* The bound on the bill.  What the messages in the stream cost is a sum    *)
(* over a sequence: it is described by its partial sums, P[i] being what    *)
(* tracker.spent_usd will be when i more messages have been read.           *)
(***************************************************************************)
\* P accounts for every message of s, from a to b, and none of them costs more
\* than MaxCost.
Accounts(P, s, a, b) ==
  /\ P \in [0..Len(s) -> Nat]
  /\ P[0] = a /\ P[Len(s)] = b
  /\ \A i \in 1..Len(s) : P[i] = P[i - 1] + s[i].cost
  /\ \A i \in 0..Len(s) : b - P[i] <= (Len(s) - i) * MaxCost

\* What the guard lets through at most: the spend it sees below Halt, and the
\* messages the SDK buffers; each failed tool call escapes it once.
Passed == Halt - 1 + MaxLag * MaxCost + failures * MaxCost

\* A session adds one message between two looks of the guard, and the critic's
\* session starts with the one the main session may end with.
Ceiling ==
  CASE phase = "main" /\ cli = "running" -> Passed
    [] phase = "main" /\ cli # "running" -> Passed + MaxCost
    [] phase = "audit" /\ cli = "running" -> Passed + MaxCost
    [] OTHER -> Passed + MaxCost + MaxCost

SpendInv ==
  /\ Running => \E P : Accounts(P, stream, spent, billed)
  /\ Running /\ cli \in {"running", "tool"} => Len(stream) <= MaxLag
  /\ billed <= Ceiling

\* Arithmetic of products with the constants.
LEMMA Products ==
  ASSUME NEW a \in Int, NEW b \in Nat
  PROVE (a + 1) * b = a * b + b /\ a * b \in Int /\ (a \in Nat => a * b \in Nat)
OBVIOUS

LEMMA Monotone ==
  ASSUME NEW a \in Nat, NEW b \in Nat, NEW c \in Nat, a <= b
  PROVE a * c <= b * c
OBVIOUS

LEMMA OneMore ==
  ASSUME NEW x \in Nat, NEW y \in Nat, NEW r \in Int, NEW c \in Nat, NEW m \in Nat,
         x - y <= r, c <= m
  PROVE x + c - y <= r + m
OBVIOUS

LEMMA ConstantsAreNats == MaxCost \in Nat /\ Halt \in Nat /\ Halt >= 1 /\ MaxLag \in Nat
BY CostIsNat DEF SessionAssumption

\* The accounts go on when a message is added that costs what is billed for it,
LEMMA AccountsAppend ==
  ASSUME NEW s \in Seq(MessageType), NEW a \in Nat, NEW b \in Nat, NEW P, Accounts(P, s, a, b),
         NEW m \in MessageType, NEW c \in Nat, m.cost = c, c <= MaxCost,
         NEW d \in Nat, d = b + c
  PROVE \E Q : Accounts(Q, Append(s, m), a, d)
<1> DEFINE n == Len(s) t == Append(s, m)
<1>0. n \in Nat /\ Len(t) = n + 1 /\ MaxCost \in Nat
  BY ConstantsAreNats
<1>1. /\ \A i \in 1..n : t[i] = s[i]
      /\ t[n + 1] = m
  OBVIOUS
<1>2. /\ P \in [0..n -> Nat] /\ P[0] = a /\ P[n] = b
      /\ \A i \in 1..n : P[i] = P[i - 1] + s[i].cost
      /\ \A i \in 0..n : b - P[i] <= (n - i) * MaxCost
  BY DEF Accounts
<1> HIDE DEF n, t
<1>3. PICK Q \in [0..(n + 1) -> Nat] :
        /\ \A i \in 0..n : Q[i] = P[i] /\ P[i] \in Nat
        /\ Q[n + 1] = b + c
  <2> DEFINE F == [i \in 0..(n + 1) |-> IF i <= n THEN P[i] ELSE b + c]
  <2>1. ASSUME NEW i \in 0..(n + 1) PROVE F[i] \in Nat /\ (i <= n => F[i] = P[i])
    <3>1. i <= n => i \in 0..n
      BY <1>0
    <3>2. i \in 0..n => P[i] \in Nat
      BY <1>2
    <3>3. QED
      BY <3>1, <3>2
  <2>2. F \in [0..(n + 1) -> Nat]
    BY <2>1
  <2>3. ASSUME NEW i \in 0..n PROVE F[i] = P[i] /\ P[i] \in Nat
    <3>1. i \in 0..(n + 1) /\ i <= n
      BY <1>0
    <3>2. QED
      BY <1>2, <2>1, <3>1
  <2>4. F[n + 1] = b + c
    BY <1>0
  <2>5. QED
    BY <2>2, <2>3, <2>4
<1>4. ASSUME NEW i \in 1..(n + 1) PROVE Q[i] = Q[i - 1] + t[i].cost
  <2>1. CASE i = n + 1
    <3>1. n \in 0..n /\ i - 1 = n
      BY <1>0, <2>1
    <3>2. Q[i - 1] = b /\ Q[i] = b + c
      BY <1>2, <1>3, <2>1, <3>1
    <3>3. t[i].cost = c
      BY <1>1, <2>1
    <3>4. QED
      BY <3>2, <3>3
  <2>2. CASE i # n + 1
    <3>1. i \in 1..n /\ i - 1 \in 0..n /\ i \in 0..n
      BY <1>0, <2>2
    <3>2. Q[i] = P[i] /\ Q[i - 1] = P[i - 1]
      BY <1>3, <3>1
    <3>3. QED
      BY <1>1, <1>2, <3>1, <3>2
  <2>3. QED
    BY <2>1, <2>2
<1>5. ASSUME NEW i \in 0..(n + 1) PROVE b + c - Q[i] <= (n + 1 - i) * MaxCost
  <2>1. CASE i = n + 1
    <3>1. n + 1 - i = 0
      BY <1>0, <2>1
    <3>2. QED
      BY <1>0, <1>3, <2>1, <3>1
  <2>2. CASE i # n + 1
    <3>1. i \in 0..n /\ n - i \in Int /\ n + 1 - i = n - i + 1
      BY <1>0, <2>2
    <3>2. Q[i] = P[i] /\ P[i] \in Nat
      BY <1>3, <3>1
    <3>3. (n - i + 1) * MaxCost = (n - i) * MaxCost + MaxCost /\ (n - i) * MaxCost \in Int
      BY <1>0, <3>1, Products
    <3> DEFINE r == (n - i) * MaxCost
    <3>4. r \in Int /\ b - P[i] <= r
      BY <1>2, <3>1, <3>3
    <3> HIDE DEF r
    <3>5. b + c - Q[i] <= r + MaxCost
      BY <1>0, <3>2, <3>4, OneMore
    <3>6. QED
      BY <3>1, <3>3, <3>5 DEF r
  <2>3. QED
    BY <2>1, <2>2
<1>6. 0 \in 0..n /\ Q[0] = a
  BY <1>0, <1>2, <1>3
<1>7. Accounts(Q, t, a, d)
  <2>1. Q \in [0..Len(t) -> Nat] /\ Q[Len(t)] = d
    BY <1>0, <1>3
  <2>2. \A i \in 1..Len(t) : Q[i] = Q[i - 1] + t[i].cost
    BY <1>0, <1>4
  <2>3. \A i \in 0..Len(t) : d - Q[i] <= (Len(t) - i) * MaxCost
    BY <1>0, <1>5, SMTT(30)
  <2>4. QED
    BY <1>6, <2>1, <2>2, <2>3 DEF Accounts
<1>8. QED
  BY <1>7 DEF t

\* and when the first one is read.
LEMMA AccountsTail ==
  ASSUME NEW s \in Seq(MessageType), NEW a \in Nat, NEW b \in Nat, NEW P, Accounts(P, s, a, b),
         s # <<>>
  PROVE \E Q : Accounts(Q, Tail(s), a + Head(s).cost, b)
<1> DEFINE n == Len(s) t == Tail(s) h == Head(s).cost
<1>0. n \in Nat /\ n >= 1 /\ Len(t) = n - 1
  OBVIOUS
<1>1. /\ \A i \in 1..(n - 1) : t[i] = s[i + 1]
      /\ h = s[1].cost
  OBVIOUS
<1>2. /\ P \in [0..n -> Nat] /\ P[0] = a /\ P[n] = b
      /\ \A i \in 1..n : P[i] = P[i - 1] + s[i].cost
      /\ \A i \in 0..n : b - P[i] <= (n - i) * MaxCost
  BY DEF Accounts
<1> HIDE DEF n, t, h
<1>3. PICK Q \in [0..(n - 1) -> Nat] : \A i \in 0..(n - 1) : Q[i] = P[i + 1]
  <2>1. ASSUME NEW i \in 0..(n - 1) PROVE P[i + 1] \in Nat
    <3>1. i + 1 \in 0..n
      BY <1>0
    <3>2. QED
      BY <1>2, <3>1
  <2>2. [i \in 0..(n - 1) |-> P[i + 1]] \in [0..(n - 1) -> Nat]
    BY <2>1
  <2>3. QED
    BY <2>2
<1>4. Q[0] = a + h /\ Q[n - 1] = b
  <2>1. 0 \in 0..(n - 1) /\ n - 1 \in 0..(n - 1) /\ 1 \in 1..n
    BY <1>0
  <2>2. Q[0] = P[0 + 1] /\ Q[n - 1] = P[n - 1 + 1] /\ P[1] = P[1 - 1] + s[1].cost
    BY <1>2, <1>3, <2>1
  <2>3. QED
    BY <1>0, <1>1, <1>2, <2>2
<1>5. ASSUME NEW i \in 1..(n - 1) PROVE Q[i] = Q[i - 1] + t[i].cost
  <2>1. i + 1 \in 1..n /\ i \in 0..(n - 1) /\ i - 1 \in 0..(n - 1) /\ i + 1 - 1 = i /\ i - 1 + 1 = i
    BY <1>0
  <2>2. Q[i] = P[i + 1] /\ Q[i - 1] = P[i] /\ P[i + 1] = P[i] + s[i + 1].cost
    BY <1>2, <1>3, <2>1
  <2>3. QED
    BY <1>1, <2>2
<1>6. ASSUME NEW i \in 0..(n - 1) PROVE b - Q[i] <= (n - 1 - i) * MaxCost
  <2>1. i + 1 \in 0..n /\ n - (i + 1) = n - 1 - i
    BY <1>0
  <2>2. b - P[i + 1] <= (n - (i + 1)) * MaxCost
    BY <1>2, <2>1
  <2>3. QED
    BY <1>3, <2>1, <2>2
<1>7. Accounts(Q, t, a + h, b)
  BY <1>0, <1>3, <1>4, <1>5, <1>6 DEF Accounts
<1>8. QED
  BY <1>7 DEF t, h

LEMMA SpendInit == Init => SpendInv
<1> SUFFICES ASSUME Init PROVE SpendInv
  OBVIOUS
<1>1. stream = <<>> /\ Len(stream) = 0 /\ spent = 0 /\ billed = 0 /\ failures = 0
      /\ phase = "main" /\ cli = "running"
  BY DEF Init
<1>2. MaxCost \in Nat /\ Halt \in Nat /\ Halt >= 1 /\ MaxLag \in Nat
  BY ConstantsAreNats
<1>3. Accounts([i \in 0..0 |-> 0], stream, spent, billed)
  BY <1>1, <1>2 DEF Accounts
<1>4. MaxLag * MaxCost \in Nat /\ 0 * MaxCost = 0
  BY <1>2
<1>5. billed <= Ceiling
  BY <1>1, <1>2, <1>4 DEF Ceiling, Passed
<1>6. QED
  BY <1>1, <1>2, <1>3, <1>5 DEF SpendInv

\* What the guard sees is at most the messages in the stream behind the bill.
LEMMA GuardSees ==
  ASSUME TypeOK, SpendInv, Running, Len(stream) <= MaxLag, ~HaltNeeded
  PROVE billed <= Passed
<1>1. PICK P : Accounts(P, stream, spent, billed)
  BY DEF SpendInv
<1> DEFINE n == Len(stream)
<1>2. n \in Nat /\ billed \in Nat /\ spent \in Nat /\ failures \in Nat
  BY DEF TypeOK
<1>3. MaxCost \in Nat /\ Halt \in Nat /\ MaxLag \in Nat /\ n <= MaxLag
  BY ConstantsAreNats
<1>4. billed - spent <= (n - 0) * MaxCost
  BY <1>1, <1>2 DEF Accounts
<1>5. spent <= Halt - 1
  BY <1>2, <1>3 DEF HaltNeeded
<1> HIDE DEF n
<1>6. n * MaxCost <= MaxLag * MaxCost /\ n * MaxCost \in Nat /\ MaxLag * MaxCost \in Nat
      /\ failures * MaxCost \in Nat
  BY <1>2, <1>3, Monotone, Products
<1>7. n - 0 = n
  BY <1>2
<1> DEFINE r == n * MaxCost s == MaxLag * MaxCost t == failures * MaxCost
<1>8. r \in Nat /\ s \in Nat /\ t \in Nat /\ r <= s /\ billed - spent <= r
  BY <1>4, <1>6, <1>7
<1> HIDE DEF r, s, t
<1>9. billed <= Halt - 1 + s + t
  BY <1>2, <1>3, <1>5, <1>8
<1>10. QED
  BY <1>9 DEF Passed, s, t

LEMMA PassedIsInt ==
  ASSUME TypeOK
  PROVE /\ Passed \in Int /\ MaxCost \in Nat /\ Passed >= 0
        /\ failures' = failures => Passed' = Passed
        /\ failures' = failures + 1 => Passed' = Passed + MaxCost
<1>1. MaxCost \in Nat /\ Halt \in Nat /\ Halt >= 1 /\ MaxLag \in Nat /\ failures \in Nat
  BY ConstantsAreNats DEF TypeOK
<1>2. MaxLag * MaxCost \in Nat /\ failures * MaxCost \in Nat
      /\ (failures + 1) * MaxCost = failures * MaxCost + MaxCost
  BY <1>1, Products
<1> DEFINE s == MaxLag * MaxCost t == failures * MaxCost
<1>3. s \in Nat /\ t \in Nat /\ Passed = Halt - 1 + s + t
      /\ (failures' = failures => Passed' = Passed)
      /\ (failures' = failures + 1 => Passed' = Halt - 1 + s + (t + MaxCost))
  BY <1>2 DEF Passed
<1> HIDE DEF s, t
<1>4. QED
  BY <1>1, <1>3

\* SpendInv is inductive.
LEMMA SpendStep == TypeOK /\ SpendInv /\ [Next]_vars => SpendInv'
<1> SUFFICES ASSUME TypeOK, SpendInv, [Next]_vars PROVE SpendInv'
  OBVIOUS
<1>0. /\ Passed \in Int /\ MaxCost \in Nat /\ billed \in Nat /\ billed <= Ceiling
      /\ failures' = failures => Passed' = Passed
      /\ failures' = failures + 1 => Passed' = Passed + MaxCost
  BY PassedIsInt DEF TypeOK, SpendInv
<1>00. /\ phase \in {"main", "audit", "returned", "failed", "cancelled", "unrecorded"}
       /\ cli \in {"running", "tool", "closed", "broken"}
       /\ stream \in Seq(MessageType) /\ Len(stream) \in Nat /\ MaxLag \in Nat
  BY ConstantsAreNats DEF TypeOK
<1> HIDE DEF Passed
<1>1. ASSUME NEW c \in Costs, Turn(c) PROVE SpendInv'
  <2>1. PICK P : Accounts(P, stream, spent, billed)
    BY <1>1 DEF Turn, SpendInv
  <2>2. Assistant(c) \in MessageType /\ Assistant(c).cost = c /\ c \in Nat /\ c <= MaxCost
    BY AssistantIsMessage, CostIsNat, Zenon DEF Assistant, Message, SessionAssumption
  <2>3. \E Q : Accounts(Q, stream', spent', billed')
    <3>1. stream' = Append(stream, Assistant(c)) /\ spent' = spent /\ billed' = billed + c
      BY <1>1 DEF Turn
    <3>2. billed \in Nat /\ spent \in Nat /\ billed' \in Nat
      BY <2>2, <3>1 DEF TypeOK
    <3>3. \E Q : Accounts(Q, Append(stream, Assistant(c)), spent, billed')
      BY <1>00, <2>1, <2>2, <3>1, <3>2, AccountsAppend
    <3>4. QED
      BY <3>1, <3>3
  <2>4. Len(stream') = Len(stream) + 1 /\ Len(stream) < MaxLag
    BY <1>1, <1>00, <2>2 DEF Turn
  <2>5. billed' <= Ceiling'
    BY <1>0, <1>00, <1>1, <2>2 DEF Turn, Ceiling, Running
  <2>6. QED
    BY <1>00, <1>1, <2>3, <2>4, <2>5 DEF SpendInv, Turn
<1>2. ASSUME NEW c \in Costs, NEW e \in BOOLEAN, NEW l \in VerdictLines, Answer(c, e, l)
      PROVE SpendInv'
  <2>1. PICK P : Accounts(P, stream, spent, billed)
    BY <1>2 DEF Answer, SpendInv
  <2>2. /\ Assistant(c) \in MessageType /\ Assistant(c).cost = c /\ c \in Nat /\ c <= MaxCost
        /\ Result(e, l) \in MessageType /\ Result(e, l).cost = 0
    BY AssistantIsMessage, ResultIsMessage, CostIsNat, Zenon
       DEF Assistant, Result, Message, SessionAssumption
  <2>3. /\ stream' = stream \o <<Assistant(c), Result(e, l)>>
        /\ spent' = spent /\ billed' = billed + c
    BY <1>2 DEF Answer
  <2>4. billed \in Nat /\ spent \in Nat /\ billed' \in Nat /\ billed' = billed' + 0
    BY <2>2, <2>3 DEF TypeOK
  <2>5. PICK Q : Accounts(Q, Append(stream, Assistant(c)), spent, billed')
    BY <1>00, <2>1, <2>2, <2>3, <2>4, AccountsAppend
  <2>6. Append(stream, Assistant(c)) \in Seq(MessageType)
    BY <1>00, <2>2
  <2>7. \E R : Accounts(R, Append(Append(stream, Assistant(c)), Result(e, l)), spent, billed')
    <3>1. 0 \in Nat /\ 0 <= MaxCost
      BY <1>0
    <3>2. QED
      BY <2>2, <2>4, <2>5, <2>6, <3>1, AccountsAppend
  <2>8. Append(Append(stream, Assistant(c)), Result(e, l)) = stream'
    BY <1>00, <2>2, <2>3
  <2>9. billed' <= Ceiling'
    BY <1>0, <1>00, <1>2, <2>2, SMTT(30) DEF Answer, Ceiling, Running
  <2>10. QED
    BY <1>2, <2>3, <2>7, <2>8, <2>9 DEF SpendInv, Answer
<1>3. ASSUME NEW e \in BOOLEAN, OutOfTurns(e) \/ GuardHalts(e) PROVE SpendInv'
  <2>1. PICK P : Accounts(P, stream, spent, billed)
    BY <1>3 DEF OutOfTurns, GuardHalts, SpendInv
  <2>2. Result(e, <<>>) \in MessageType /\ Result(e, <<>>).cost = 0
    BY ResultIsMessage DEF Result, Message, VerdictLines
  <2>3. /\ stream' = Append(stream, Result(e, <<>>)) /\ cli' = "closed"
        /\ cli \in {"running", "tool"}
        /\ UNCHANGED <<phase, spent, billed, failures>>
    BY <1>3 DEF OutOfTurns, GuardHalts, Close
  <2>4. billed \in Nat /\ spent \in Nat /\ billed = billed + 0
    BY DEF TypeOK
  <2>5. \E Q : Accounts(Q, Append(stream, Result(e, <<>>)), spent, billed)
    BY <1>0, <1>00, <2>1, <2>2, <2>4, AccountsAppend
  <2>6. billed' <= Ceiling'
    BY <1>0, <1>00, <2>3 DEF Ceiling
  <2>7. QED
    BY <2>3, <2>5, <2>6 DEF SpendInv
<1>4. CASE GuardPasses
  <2>1. /\ Running /\ cli = "tool" /\ cli' = "running" /\ ~HaltNeeded
        /\ UNCHANGED <<phase, stream, spent, billed, failures>>
    BY <1>4 DEF GuardPasses
  <2>2. billed <= Passed
    BY <2>1, GuardSees DEF SpendInv
  <2>3. billed' <= Ceiling'
    BY <1>0, <1>00, <2>1, <2>2 DEF Ceiling
  <2>4. QED
    BY <2>1, <2>3 DEF SpendInv, Running
<1>5. CASE ToolFails \/ CliDies
  <2>1. /\ Running /\ cli \in {"running", "tool"} /\ UNCHANGED <<phase, stream, spent, billed>>
        /\ \/ cli = "tool" /\ cli' = "running" /\ failures' = failures + 1
           \/ cli' \in {"closed", "broken"} /\ failures' = failures
    BY <1>5 DEF ToolFails, CliDies
  <2>2. billed' <= Ceiling'
    BY <1>0, <1>00, <2>1 DEF Ceiling
  <2>3. QED
    BY <2>1, <2>2 DEF SpendInv, Running
<1>6. CASE Read
  <2>1. /\ Running /\ stream # <<>> /\ stream' = Tail(stream)
        /\ spent' = spent + Head(stream).cost
        /\ UNCHANGED <<phase, cli, billed, failures>>
    BY <1>6 DEF Read
  <2>2. PICK P : Accounts(P, stream, spent, billed)
    BY <2>1 DEF SpendInv
  <2>3. billed \in Nat /\ spent \in Nat
    BY DEF TypeOK
  <2>4. \E Q : Accounts(Q, stream', spent', billed')
    BY <1>00, <2>1, <2>2, <2>3, AccountsTail
  <2>5. Len(stream') = Len(stream) - 1
    BY <1>00, <2>1
  <2>6. billed' <= Ceiling'
    BY <1>0, <1>00, <2>1 DEF Ceiling
  <2>7. QED
    BY <1>00, <2>1, <2>4, <2>5, <2>6 DEF SpendInv, Running
<1>7. ASSUME NEW how \in {"failed", "cancelled", "unrecorded"}, Raise(how)
      PROVE  SpendInv'
  <2>1. phase' \in {"failed", "cancelled", "unrecorded"} /\ UNCHANGED <<billed, failures>>
    BY <1>7 DEF Raise
  <2>2. billed' <= Ceiling'
    BY <1>0, <1>00, <2>1 DEF Ceiling
  <2>3. QED
    BY <2>1, <2>2 DEF SpendInv, Running
<1>8. CASE BeginAudit
  <2>1. /\ Running /\ phase = "main" /\ cli = "closed" /\ stream = <<>> /\ phase' = "audit"
        /\ cli' = "running" /\ UNCHANGED <<stream, spent, billed, failures>>
    BY <1>8 DEF BeginAudit, StreamEnded
  <2>2. billed' <= Ceiling'
    BY <1>0, <1>00, <2>1 DEF Ceiling
  <2>3. Len(stream) = 0
    BY <2>1
  <2>4. QED
    BY <1>00, <2>1, <2>2, <2>3 DEF SpendInv, Running
<1>9. CASE Report
  <2>1. phase' = "returned" /\ UNCHANGED <<billed, failures>>
    BY <1>9 DEF Report
  <2>2. billed' <= Ceiling'
    BY <1>0, <1>00, <2>1 DEF Ceiling
  <2>3. QED
    BY <2>1, <2>2 DEF SpendInv, Running
<1>10. CASE UNCHANGED vars
  <2>1. UNCHANGED <<phase, cli, stream, spent, billed, failures>>
    BY <1>10 DEF vars, session
  <2>2. QED
    BY <1>0, <2>1 DEF SpendInv, Running, Ceiling
<1>11. QED
  BY <1>1, <1>2, <1>3, <1>4, <1>5, <1>6, <1>7, <1>8, <1>9, <1>10
     DEF Next, Cli, Orchestrator, NoResult, SdkError, Cancelled, Done, Finish, Unrecorded

\* The two sessions of a task are billed at most the halting spend, what the
\* SDK buffers, one message for each session and one for each tool call that
\* failed, whatever the messages cost and however the sessions interleave.
THEOREM SpendBounded == Spec => []SpendIsBounded
<1>1. TypeOK /\ SpendInv => SpendIsBounded
  <2> SUFFICES ASSUME TypeOK, SpendInv PROVE SpendIsBounded
    OBVIOUS
  <2>1. Passed \in Int /\ MaxCost \in Nat /\ billed \in Nat /\ billed <= Ceiling
    BY PassedIsInt DEF TypeOK, SpendInv
  <2>2. billed <= Passed + MaxCost + MaxCost
    <3> HIDE DEF Passed
    <3>1. QED
      BY <2>1 DEF Ceiling
  <2>3. (MaxLag + 1 + 1) * MaxCost = MaxLag * MaxCost + MaxCost + MaxCost
        /\ MaxLag * MaxCost \in Nat /\ failures * MaxCost \in Nat
    <3>1. MaxLag \in Nat /\ failures \in Nat
      BY ConstantsAreNats DEF TypeOK
    <3>2. (MaxLag + 1 + 1) * MaxCost = (MaxLag + 1) * MaxCost + MaxCost
      BY <2>1, <3>1, Products
    <3>3. (MaxLag + 1) * MaxCost = MaxLag * MaxCost + MaxCost
      BY <2>1, <3>1, Products
    <3>4. QED
      BY <2>1, <3>1, <3>2, <3>3, Products
  <2>4. MaxLag + 2 = MaxLag + 1 + 1 /\ Halt \in Nat
    BY ConstantsAreNats
  <2> DEFINE r == MaxLag * MaxCost t == failures * MaxCost u == (MaxLag + 2) * MaxCost
  <2>5. Passed = Halt - 1 + r + t /\ u = r + MaxCost + MaxCost /\ r \in Nat /\ t \in Nat
    BY <2>3, <2>4 DEF Passed
  <2>6. SpendIsBounded <=> billed <= Halt - 1 + u + t
    BY DEF SpendIsBounded, Slack
  <2> HIDE DEF r, t, u
  <2>7. QED
    BY <2>1, <2>2, <2>4, <2>5, <2>6
<1>2. QED
  BY TypeInit, TypeStep, SpendInit, SpendStep, <1>1, PTL DEF Spec
=============================================================================
