--------------------------- MODULE Decisions_proofs ---------------------------
(***************************************************************************)
(* Theorems about the scenes of MCDecisions: about bisects, for any number  *)
(* of them and any history, and about the intake of any task.               *)
(***************************************************************************)
EXTENDS MCDecisions, Rules_proofs

USE BisectAssumption

\* The middle lies strictly between the two ends.
LEMMA Middle ==
  ASSUME NEW g \in Nat, NEW h \in Nat, h - g > 1
  PROVE  (g + h) \div 2 \in Nat /\ g < (g + h) \div 2 /\ (g + h) \div 2 < h
OBVIOUS

\* The candidates are commits, the given ends first and last; between an end
\* and a later one they follow each other, but for an end that occurs twice.
LEMMA ListOfCommits ==
  ASSUME NEW from \in Commits, NEW to \in Commits, NEW named \in BOOLEAN
  PROVE  LET list == Candidates(from, to, named) IN
           /\ list \in Seq(Commits)
           /\ Len(list) >= 1 /\ list[1] = from /\ list[Len(list)] = to
           /\ from < to => \A i \in 2 .. Len(list) :
                             list[i] = list[i - 1] + 1 \/ (i = Len(list) /\ list[i] = list[i - 1])
BY DEF Candidates, Commits

-----------------------------------------------------------------------------
\* What good and bad are: a place that passed and a later one that failed,
\* neighbours once they are reported.
Bracket(b) ==
  /\ 1 <= good[b] /\ good[b] < bad[b] /\ bad[b] <= Len(candidates[b])
  /\ good[b] = 1 \/ Recorded(b, good[b], TRUE)
  /\ bad[b] = Len(candidates[b]) \/ Recorded(b, bad[b], FALSE)

Searching(b) ==
  /\ IF candidates[b] = <<>>
       THEN pc[b] \in {"idle", "error"} /\ answer[b] = 0
       ELSE pc[b] # "idle" /\ Bracket(b)
  /\ pc[b] = "golden" => bad[b] - good[b] > 1
  /\ answer[b] # 0 => ~Active(b) /\ answer[b] = bad[b] /\ bad[b] = good[b] + 1

SearchInv == TypeOK /\ \A b \in Bisects : Searching(b)

\* The records of an undisturbed bisect are the verdicts of its candidates.
Honest(b) ==
  /\ pc[b] = "idle" => steps[b] = <<>>
  /\ ~disturbed[b] =>
       /\ \A k \in 1 .. Len(steps[b]) : steps[b][k].passed = passes[candidates[b][steps[b][k].at]]
       /\ pc[b] = "golden" => tree.commit = candidates[b][Mid(b)]
  /\ candidates[b] # <<>> /\ candidates[b][1] < candidates[b][Len(candidates[b])] =>
       \A i \in 2 .. Len(candidates[b]) :
         \/ candidates[b][i] = candidates[b][i - 1] + 1
         \/ i = Len(candidates[b]) /\ candidates[b][i] = candidates[b][i - 1]

HonestInv == \A b \in Bisects : Honest(b)

\* What of the state belongs to b alone.
Private(b) == <<pc[b], candidates[b], good[b], bad[b], steps[b], original[b], answer[b]>>

LEMMA TreeTyped == TypeOK => tree.commit \in Commits /\ tree.head \in {"branch", "HEAD"}
BY DEF TypeOK, OnBranch, Detached, Commits

\* A step of one bisect leaves what belongs to the others alone.
LEMMA OthersKeep ==
  ASSUME TypeOK, NEW c \in Bisects, BisectStep(c), NEW b \in Bisects, b # c
  PROVE  UNCHANGED Private(b) /\ UNCHANGED passes
<1> USE DEF TypeOK, Private
<1>1. ASSUME NEW from \in Commits, NEW to \in Commits, NEW named \in BOOLEAN,
             Begin(c, from, to, named)
      PROVE  UNCHANGED Private(b) /\ UNCHANGED passes
  BY <1>1 DEF Begin
<1>2. CASE Refused(c) BY <1>2 DEF Refused
<1>3. CASE Checkout(c) BY <1>3 DEF Checkout
<1>4. CASE Probe(c) BY <1>4 DEF Probe
<1>5. CASE Report(c) BY <1>5 DEF Report, Leave
<1>6. ASSUME NEW how \in {"error", "raised"}, Aborts(c, how)
      PROVE  UNCHANGED Private(b) /\ UNCHANGED passes
  BY <1>6 DEF Aborts, Leave
<1>7. CASE Dies(c) BY <1>7 DEF Dies
<1> QED BY <1>1, <1>2, <1>3, <1>4, <1>5, <1>6, <1>7 DEF BisectStep

\* A golden that runs was checked out from between the ends.
LEMMA MiddleCandidate ==
  ASSUME TypeOK, NEW b \in Bisects, Searching(b), Active(b), bad[b] - good[b] > 1
  PROVE  /\ Mid(b) \in Nat /\ good[b] < Mid(b) /\ Mid(b) < bad[b]
         /\ Mid(b) \in 1 .. Len(candidates[b]) /\ candidates[b][Mid(b)] \in Commits
<1> USE DEF TypeOK
<1>1. Bracket(b)
  BY DEF Searching, Active
<1>2. Mid(b) \in Nat /\ good[b] < Mid(b) /\ Mid(b) < bad[b]
  BY Middle DEF Mid
<1>3. candidates[b] \in Seq(Commits) /\ Mid(b) \in 1 .. Len(candidates[b])
  BY <1>1, <1>2 DEF Bracket
<1> QED BY <1>2, <1>3

\* A probe adds its verdict to the records and keeps the others.
LEMMA ProbeRecords ==
  ASSUME TypeOK, NEW b \in Bisects, Probe(b), Mid(b) \in Nat, NEW i \in Nat, NEW v \in BOOLEAN,
         Recorded(b, i, v) \/ (i = Mid(b) /\ v = passes[tree.commit])
  PROVE  Recorded(b, i, v)'
<1> DEFINE r == [at |-> Mid(b), passed |-> passes[tree.commit]]
<1>1. r \in [at : Nat, passed : BOOLEAN]
  BY TreeTyped DEF TypeOK
<1>2. /\ steps[b] \in Seq([at : Nat, passed : BOOLEAN])
      /\ steps'[b] = Append(steps[b], r)
  BY DEF TypeOK, Probe
<1>3. /\ Len(steps'[b]) = Len(steps[b]) + 1 /\ steps'[b][Len(steps[b]) + 1] = r
      /\ Len(steps[b]) \in Nat
      /\ \A k \in 1 .. Len(steps[b]) : steps'[b][k] = steps[b][k]
  BY <1>1, <1>2
<1>4. CASE i = Mid(b) /\ v = passes[tree.commit]
  BY <1>3, <1>4 DEF Recorded
<1>5. CASE Recorded(b, i, v)
  <2>1. PICK k \in 1 .. Len(steps[b]) : steps[b][k] = [at |-> i, passed |-> v]
    BY <1>5 DEF Recorded
  <2>2. k \in 1 .. Len(steps'[b]) /\ steps'[b][k] = [at |-> i, passed |-> v]
    <3> HIDE DEF r
    <3> QED BY <1>3, <2>1
  <2> QED BY <2>2 DEF Recorded
<1> QED BY <1>4, <1>5

\* A step of b keeps b's search in order.
LEMMA SearchStep ==
  ASSUME TypeOK, NEW b \in Bisects, Searching(b), BisectStep(b)
  PROVE  Searching(b)'
<1> USE DEF TypeOK
<1>1. ASSUME NEW from \in Commits, NEW to \in Commits, NEW named \in BOOLEAN,
             Begin(b, from, to, named)
      PROVE  Searching(b)'
  <2> DEFINE list == Candidates(from, to, named)
  <2>1. list \in Seq(Commits) /\ Len(list) >= 2 /\ list # <<>>
    BY <1>1, ListOfCommits DEF Begin
  <2>2. /\ candidates'[b] = list /\ good'[b] = 1 /\ bad'[b] = Len(list)
        /\ pc'[b] = "search" /\ answer'[b] = 0 /\ answer[b] = 0
    BY <1>1 DEF Begin, Searching
  <2> HIDE DEF list
  <2> QED BY <2>1, <2>2 DEF Searching, Bracket, Active
<1>2. CASE Refused(b)
  BY <1>2 DEF Refused, Searching, Active
<1>3. CASE Checkout(b)
  BY <1>3 DEF Checkout, Searching, Bracket, Recorded, Active
<1>4. CASE Probe(b)
  <2>1. Active(b) /\ bad[b] - good[b] > 1 /\ Bracket(b) /\ candidates[b] # <<>> /\ answer[b] = 0
    BY <1>4 DEF Probe, Searching, Active
  <2>2. Mid(b) \in Nat /\ good[b] < Mid(b) /\ Mid(b) < bad[b]
    BY <2>1, MiddleCandidate
  <2>3. /\ candidates'[b] = candidates[b] /\ pc'[b] = "search" /\ answer'[b] = 0
        /\ passes[tree.commit] => good'[b] = Mid(b) /\ bad'[b] = bad[b]
        /\ ~passes[tree.commit] => good'[b] = good[b] /\ bad'[b] = Mid(b)
    BY <1>4, <2>1 DEF Probe
  <2>4. passes[tree.commit] \in BOOLEAN
    BY TreeTyped
  <2>5. ASSUME NEW g \in Nat, g = good'[b]
        PROVE  g = 1 \/ Recorded(b, g, TRUE)'
    <3>1. g = 1 \/ Recorded(b, g, TRUE) \/ (g = Mid(b) /\ TRUE = passes[tree.commit])
      BY <2>1, <2>3, <2>4, <2>5 DEF Bracket
    <3> QED BY <1>4, <2>2, <3>1, ProbeRecords
  <2>6. ASSUME NEW h \in Nat, h = bad'[b]
        PROVE  h = Len(candidates[b]) \/ Recorded(b, h, FALSE)'
    <3>1. h = Len(candidates[b]) \/ Recorded(b, h, FALSE) \/ (h = Mid(b) /\ FALSE = passes[tree.commit])
      BY <2>1, <2>3, <2>4, <2>6 DEF Bracket
    <3> QED BY <1>4, <2>2, <3>1, ProbeRecords
  <2>7. /\ good'[b] \in Nat /\ bad'[b] \in Nat
        /\ 1 <= good'[b] /\ good'[b] < bad'[b] /\ bad'[b] <= Len(candidates[b])
    BY <2>1, <2>2, <2>3, <2>4 DEF Bracket
  <2>8. good'[b] = 1 \/ Recorded(b, good[b], TRUE)'
    BY <2>5, <2>7 DEF Recorded
  <2>9. bad'[b] = Len(candidates[b]) \/ Recorded(b, bad[b], FALSE)'
    BY <2>6, <2>7 DEF Recorded
  <2>10. Bracket(b)'
    BY <2>3, <2>7, <2>8, <2>9 DEF Bracket
  <2> QED BY <2>1, <2>3, <2>10 DEF Searching, Active
<1>5. CASE Report(b)
  <2>0. good[b] \in Nat /\ bad[b] \in Nat
    OBVIOUS
  <2>1. Active(b) /\ Bracket(b) /\ candidates[b] # <<>>
    BY <1>5 DEF Report, Searching, Active
  <2>3. bad[b] = good[b] + 1
    <3> HIDE DEF TypeOK
    <3> QED BY <1>5, <2>0, <2>1 DEF Report, Bracket
  <2>2. /\ pc'[b] = "done" /\ answer'[b] = bad[b]
        /\ UNCHANGED <<candidates, good, bad, steps>>
    BY <1>5 DEF Report, Leave
  <2> QED BY <2>1, <2>2, <2>3 DEF Searching, Bracket, Recorded, Active
<1>6. ASSUME NEW how \in {"error", "raised"}, Aborts(b, how)
      PROVE  Searching(b)'
  BY <1>6 DEF Aborts, Leave, Searching, Bracket, Recorded, Active
<1>7. CASE Dies(b)
  BY <1>7 DEF Dies, Searching, Bracket, Recorded, Active
<1> QED BY <1>1, <1>2, <1>3, <1>4, <1>5, <1>6, <1>7 DEF BisectStep

\* TypeOK is preserved: what is checked out is a candidate.
LEMMA TypeStep == SearchInv /\ [Next]_vars => TypeOK'
<1> SUFFICES ASSUME SearchInv, [Next]_vars PROVE TypeOK'
  OBVIOUS
<1> USE DEF TypeOK
<1>0. TypeOK /\ \A b \in Bisects : Searching(b)
  BY DEF SearchInv
<1>1. ASSUME NEW b \in Bisects, NEW from \in Commits, NEW to \in Commits, NEW named \in BOOLEAN,
             Begin(b, from, to, named)
      PROVE  TypeOK'
  <2> DEFINE list == Candidates(from, to, named)
  <2>1. list \in Seq(Commits) /\ Len(list) \in Nat /\ tree.head \in {"branch", "HEAD"}
    <3> HIDE DEF TypeOK
    <3>1. list \in Seq(Commits)
      BY ListOfCommits
    <3>2. tree.head \in {"branch", "HEAD"}
      BY <1>0, TreeTyped
    <3> QED BY <3>1, <3>2
  <2>2. /\ candidates' = [candidates EXCEPT ![b] = list]
        /\ good' = [good EXCEPT ![b] = 1] /\ bad' = [bad EXCEPT ![b] = Len(list)]
        /\ original' = [original EXCEPT ![b] = tree.head] /\ pc' = [pc EXCEPT ![b] = "search"]
        /\ UNCHANGED <<tree, passes, steps, answer, disturbed>>
    BY <1>1 DEF Begin
  <2> HIDE DEF list
  <2> QED BY <1>0, <2>1, <2>2
<1>2. ASSUME NEW b \in Bisects, Refused(b) PROVE TypeOK'
  BY <1>0, <1>2 DEF Refused
<1>3. ASSUME NEW b \in Bisects, Checkout(b) PROVE TypeOK'
  <2>1. candidates[b][Mid(b)] \in Commits
    BY <1>0, <1>3, MiddleCandidate DEF Checkout, Active
  <2> QED BY <1>0, <1>3, <2>1 DEF Checkout, TreeMoves
<1>4. ASSUME NEW b \in Bisects, Probe(b) PROVE TypeOK'
  <2>1. Mid(b) \in Nat /\ passes[tree.commit] \in BOOLEAN
    BY <1>0, <1>4, MiddleCandidate, TreeTyped DEF Probe, Searching, Active
  <2>2. [at |-> Mid(b), passed |-> passes[tree.commit]] \in [at : Nat, passed : BOOLEAN]
    BY <2>1
  <2>3. steps' \in [Bisects -> Seq([at : Nat, passed : BOOLEAN])]
    BY <1>0, <1>4, <2>2 DEF Probe
  <2> QED BY <1>0, <1>4, <2>1, <2>3 DEF Probe
<1>5. ASSUME NEW b \in Bisects, Report(b) PROVE TypeOK'
  BY <1>0, <1>5 DEF Report, Leave, TreeMoves
<1>6. ASSUME NEW b \in Bisects, NEW how \in {"error", "raised"}, Aborts(b, how) PROVE TypeOK'
  BY <1>0, <1>6 DEF Aborts, Leave, TreeMoves
<1>7. ASSUME NEW b \in Bisects, Dies(b) PROVE TypeOK'
  BY <1>0, <1>7 DEF Dies
<1>8. CASE UNCHANGED vars
  BY <1>0, <1>8 DEF vars
<1> QED BY <1>1, <1>2, <1>3, <1>4, <1>5, <1>6, <1>7, <1>8 DEF Next, BisectStep

LEMMA SearchInvStep == SearchInv /\ [Next]_vars => SearchInv'
<1> SUFFICES ASSUME SearchInv, [Next]_vars PROVE SearchInv'
  OBVIOUS
<1>1. TypeOK /\ TypeOK'
  BY TypeStep DEF SearchInv
<1>2. ASSUME NEW b \in Bisects PROVE Searching(b)'
  <2>1. Searching(b)
    BY DEF SearchInv
  <2>2. CASE BisectStep(b)
    BY <1>1, <2>1, <2>2, SearchStep
  <2>3. CASE UNCHANGED Private(b)
    BY <2>1, <2>3 DEF Private, Searching, Bracket, Recorded, Active
  <2>4. CASE UNCHANGED vars
    BY <2>1, <2>4 DEF vars, Searching, Bracket, Recorded, Active
  <2> QED BY <1>1, <2>2, <2>3, <2>4, OthersKeep DEF Next
<1> QED BY <1>1, <1>2 DEF SearchInv

LEMMA SearchInvInit == Init => SearchInv
BY DEF Init, SearchInv, TypeOK, Searching, Active

\* Types: no bisect ever checks out, records or reports anything but one of
\* its candidates, whatever the others do.
THEOREM TypeCorrect == Spec => []TypeOK
<1>1. SearchInv => TypeOK
  BY DEF SearchInv
<1> QED BY <1>1, SearchInvInit, SearchInvStep, PTL DEF Spec

\* The reported boundary was probed on both sides or is a trusted end
\* (bisect.py:74-87), for any number of bisects of one tree.
THEOREM ReportsABoundary == Spec => []BoundaryIsProbed
<1>1. SearchInv => BoundaryIsProbed
  <2> SUFFICES ASSUME SearchInv, NEW b \in Bisects, answer[b] # 0
               PROVE  /\ answer[b] = Len(candidates[b]) \/ Recorded(b, answer[b], FALSE)
                      /\ answer[b] = 2 \/ Recorded(b, answer[b] - 1, TRUE)
    BY DEF BoundaryIsProbed
  <2>1. good[b] \in Nat /\ answer[b] = bad[b] /\ bad[b] = good[b] + 1 /\ Bracket(b)
    BY DEF SearchInv, TypeOK, Searching
  <2>2. answer[b] - 1 = good[b]
    BY <2>1
  <2>3. answer[b] = Len(candidates[b]) \/ Recorded(b, answer[b], FALSE)
    BY <2>1 DEF Bracket
  <2>4. CASE good[b] = 1
    <3>1. answer[b] = 2
      BY <2>1, <2>4
    <3> QED BY <2>3, <3>1
  <2>5. CASE Recorded(b, good[b], TRUE)
    <3>1. Recorded(b, answer[b] - 1, TRUE)
      BY <2>2, <2>5, Zenon
    <3> QED BY <2>3, <3>1
  <2> QED BY <2>1, <2>4, <2>5 DEF Bracket
<1> QED BY <1>1, SearchInvInit, SearchInvStep, PTL DEF Spec

-----------------------------------------------------------------------------
\* The branch is away only under a bisect, after one that was killed or that
\* found it away (main.py:386-397), for any number of them.
THEOREM RestoresTheBranch == Spec => []BranchComesBack
<1>1. Init => BranchComesBack
  BY DEF Init, BranchComesBack
<1>2. TypeOK /\ BranchComesBack /\ [Next]_vars => BranchComesBack'
  <2> SUFFICES ASSUME TypeOK, BranchComesBack, [Next]_vars, tree' # OnBranch
               PROVE  \E b \in Bisects : (Active(b) \/ pc[b] = "dead" \/ original[b] = "HEAD")'
    BY DEF BranchComesBack, OnBranch
  <2>1. ASSUME NEW c \in Bisects, BisectStep(c),
               (Active(c) \/ pc[c] = "dead" \/ original[c] = "HEAD")'
        PROVE  \E b \in Bisects : (Active(b) \/ pc[b] = "dead" \/ original[b] = "HEAD")'
    BY <2>1
  <2>2. ASSUME NEW c \in Bisects, BisectStep(c), UNCHANGED tree,
               (Active(c) \/ pc[c] = "dead" \/ original[c] = "HEAD")
                 => (Active(c) \/ pc[c] = "dead" \/ original[c] = "HEAD")'
        PROVE  \E b \in Bisects : (Active(b) \/ pc[b] = "dead" \/ original[b] = "HEAD")'
    <3>1. PICK w \in Bisects : Active(w) \/ pc[w] = "dead" \/ original[w] = "HEAD"
      BY <2>2 DEF BranchComesBack
    <3>2. CASE w = c
      BY <2>2, <3>1, <3>2
    <3>3. CASE w # c
      BY <2>2, <3>1, <3>3, OthersKeep DEF Private, Active
    <3> QED BY <3>2, <3>3
  <2>3. ASSUME NEW c \in Bisects, NEW how \in {"done", "error", "raised"}, BisectStep(c), Leave(c, how)
        PROVE  \E b \in Bisects : (Active(b) \/ pc[b] = "dead" \/ original[b] = "HEAD")'
    BY <2>1, <2>3 DEF Leave, TreeMoves
  <2>4. ASSUME NEW c \in Bisects, BisectStep(c)
        PROVE  \E b \in Bisects : (Active(b) \/ pc[b] = "dead" \/ original[b] = "HEAD")'
    <3> USE DEF TypeOK
    <3>1. ASSUME NEW from \in Commits, NEW to \in Commits, NEW named \in BOOLEAN, Begin(c, from, to, named)
          PROVE  Active(c)'
      BY <3>1 DEF Begin, Active
    <3>2. Refused(c) => UNCHANGED tree /\ pc[c] = "idle" /\ UNCHANGED original
      BY DEF Refused
    <3>3. Checkout(c) \/ Probe(c) => Active(c)'
      BY DEF Checkout, Probe, Active
    <3>4. Report(c) => Leave(c, "done")
      BY DEF Report
    <3>5. ASSUME NEW how \in {"error", "raised"}, Aborts(c, how) PROVE Leave(c, how)
      BY <3>5 DEF Aborts
    <3>6. Dies(c) => pc'[c] = "dead"
      BY DEF Dies
    <3> HIDE DEF TypeOK
    <3> QED BY <2>1, <2>2, <2>3, <2>4, <3>1, <3>2, <3>3, <3>4, <3>5, <3>6 DEF BisectStep, Active
  <2>5. CASE UNCHANGED vars
    BY <2>5 DEF vars, BranchComesBack, Active
  <2> QED BY <2>4, <2>5 DEF Next
<1> QED BY <1>1, <1>2, TypeCorrect, PTL DEF Spec

-----------------------------------------------------------------------------
\* A step of b keeps its records honest.
LEMMA HonestStep ==
  ASSUME TypeOK, NEW b \in Bisects, Searching(b), Honest(b), BisectStep(b)
  PROVE  Honest(b)'
<1> USE DEF TypeOK
<1>1. ASSUME NEW from \in Commits, NEW to \in Commits, NEW named \in BOOLEAN,
             Begin(b, from, to, named)
      PROVE  Honest(b)'
  <2> DEFINE list == Candidates(from, to, named)
  <2>1. /\ list[1] = from /\ list[Len(list)] = to
        /\ from < to => \A i \in 2 .. Len(list) :
                          list[i] = list[i - 1] + 1 \/ (i = Len(list) /\ list[i] = list[i - 1])
    BY ListOfCommits
  <2>2. /\ candidates'[b] = list /\ pc'[b] = "search"
        /\ steps'[b] = <<>>
    BY <1>1 DEF Begin, Honest
  <2> HIDE DEF list, TypeOK
  <2> QED BY <2>1, <2>2 DEF Honest
<1>2. CASE Refused(b)
  BY <1>2 DEF Refused, Honest
<1>3. CASE Checkout(b)
  <2>1. /\ UNCHANGED <<passes, candidates, good, bad, steps>> /\ pc'[b] = "golden" /\ pc[b] = "search"
        /\ tree' = Detached(candidates[b][Mid(b)])
        /\ disturbed'[b] = disturbed[b]
    BY <1>3 DEF Checkout, TreeMoves
  <2>2. tree'.commit = candidates'[b][Mid(b)']
    BY <2>1 DEF Detached, Mid
  <2> HIDE DEF TypeOK
  <2> QED BY <2>1, <2>2 DEF Honest
<1>4. CASE Probe(b)
  <2> DEFINE r == [at |-> Mid(b), passed |-> passes[tree.commit]]
  <2>1. Mid(b) \in Nat /\ passes[tree.commit] \in BOOLEAN
    BY <1>4, MiddleCandidate, TreeTyped DEF Probe, Searching, Active
  <2>2. /\ UNCHANGED <<passes, candidates, disturbed>> /\ pc'[b] = "search" /\ pc[b] = "golden"
        /\ steps'[b] = Append(steps[b], r)
    BY <1>4 DEF Probe
  <2>3. r \in [at : Nat, passed : BOOLEAN] /\ steps[b] \in Seq([at : Nat, passed : BOOLEAN])
    BY <2>1
  <2>4. ASSUME NEW k \in 1 .. Len(steps'[b]), ~disturbed[b]
        PROVE  steps'[b][k].passed = passes[candidates[b][steps'[b][k].at]]
    <3>1. CASE k \in 1 .. Len(steps[b])
      <4>1. steps'[b][k] = steps[b][k]
        BY <2>2, <2>3, <3>1
      <4> HIDE DEF TypeOK
      <4> QED BY <2>4, <3>1, <4>1 DEF Honest
    <3>2. CASE k = Len(steps[b]) + 1
      <4>1. steps'[b][k] = r
        BY <2>2, <2>3, <3>2
      <4>2. tree.commit = candidates[b][Mid(b)]
        BY <2>2, <2>4 DEF Honest
      <4> QED BY <4>1, <4>2
    <3>3. Len(steps'[b]) = Len(steps[b]) + 1 /\ Len(steps[b]) \in Nat
      <4> HIDE DEF TypeOK, r
      <4> QED BY <2>2, <2>3
    <3> QED BY <3>1, <3>2, <3>3
  <2> HIDE DEF TypeOK, r
  <2> QED BY <2>2, <2>4 DEF Honest
<1>5. ASSUME NEW how \in {"done", "error", "raised"}, Leave(b, how), Active(b)
      PROVE  Honest(b)'
  <2>1. /\ UNCHANGED <<passes, candidates, good, bad, steps>> /\ pc'[b] = how
        /\ disturbed'[b] = disturbed[b]
    BY <1>5 DEF Leave, TreeMoves
  <2> HIDE DEF TypeOK
  <2> QED BY <1>5, <2>1 DEF Honest, Active
<1>6. CASE Dies(b)
  BY <1>6 DEF Dies, Honest
<1>7. Report(b) => Active(b) /\ Leave(b, "done")
  BY DEF Report, Active
<1>8. ASSUME NEW how \in {"error", "raised"}, Aborts(b, how) PROVE Active(b) /\ Leave(b, how)
  BY <1>8 DEF Aborts, Active
<1> HIDE DEF TypeOK
<1> QED BY <1>1, <1>2, <1>3, <1>4, <1>5, <1>6, <1>7, <1>8 DEF BisectStep

\* A step of another bisect either leaves b's golden its tree or disturbs b.
LEMMA HonestOthers ==
  ASSUME TypeOK, NEW c \in Bisects, BisectStep(c), NEW b \in Bisects, b # c, Honest(b)
  PROVE  Honest(b)'
<1>1. UNCHANGED Private(b) /\ UNCHANGED passes
  BY OthersKeep
<1>2. ~disturbed'[b] => ~disturbed[b] /\ (pc[b] = "golden" => tree'.commit = tree.commit)
  <2>1. ASSUME NEW to, TreeMoves(c, to)
        PROVE  ~disturbed'[b] => ~disturbed[b] /\ (pc[b] = "golden" => tree'.commit = tree.commit)
    BY <2>1 DEF TreeMoves
  <2>2. Refused(c) \/ Probe(c) \/ Dies(c) => UNCHANGED <<tree, disturbed>>
    BY DEF Refused, Probe, Dies
  <2>3. ASSUME NEW from \in Commits, NEW to \in Commits, NEW named \in BOOLEAN, Begin(c, from, to, named)
        PROVE  UNCHANGED <<tree, disturbed>>
    BY <2>3 DEF Begin
  <2>4. Checkout(c) => TreeMoves(c, Detached(candidates[c][Mid(c)]))
    BY DEF Checkout
  <2>5. ASSUME Report(c) \/ \E how \in {"error", "raised"} : Aborts(c, how)
        PROVE  TreeMoves(c, IF original[c] = "HEAD" THEN tree ELSE OnBranch)
    BY <2>5 DEF Report, Aborts, Leave
  <2> QED BY <2>1, <2>2, <2>3, <2>4, <2>5 DEF BisectStep
<1>3. Mid(b)' = Mid(b)
  BY <1>1 DEF Private, Mid
<1> QED BY <1>1, <1>2, <1>3 DEF Private, Honest

LEMMA HonestInvStep == SearchInv /\ HonestInv /\ [Next]_vars => HonestInv'
<1> SUFFICES ASSUME SearchInv, HonestInv, [Next]_vars, NEW b \in Bisects PROVE Honest(b)'
  BY DEF HonestInv
<1>1. TypeOK /\ Searching(b) /\ Honest(b)
  BY DEF SearchInv, HonestInv
<1>2. CASE UNCHANGED vars
  BY <1>1, <1>2 DEF vars, Honest, Mid
<1> QED BY <1>1, <1>2, HonestStep, HonestOthers DEF Next

\* The breaking change of an undisturbed bisect of a good commit and a bad
\* descendant is one, for every history (bisect.py:66-87).
THEOREM FindsTheBreakingChange == Spec => []AnswerIsTrue
<1>1. Init => HonestInv
  <2> SUFFICES ASSUME Init, NEW b \in Bisects PROVE Honest(b)
    BY DEF HonestInv
  <2>1. pc[b] = "idle" /\ steps[b] = <<>> /\ candidates[b] = <<>>
    BY DEF Init
  <2> QED BY <2>1 DEF Honest
<1>2. SearchInv /\ HonestInv => AnswerIsTrue
  <2> SUFFICES ASSUME SearchInv, HonestInv, NEW b \in Bisects, answer[b] # 0, ~disturbed[b],
                      candidates[b][1] < candidates[b][Len(candidates[b])],
                      passes[candidates[b][1]], ~passes[candidates[b][Len(candidates[b])]]
               PROVE  /\ candidates[b][answer[b]] = candidates[b][answer[b] - 1] + 1
                      /\ ~passes[candidates[b][answer[b]]]
                      /\ passes[candidates[b][answer[b] - 1]]
    BY DEF AnswerIsTrue
  <2> DEFINE list == candidates[b] g == good[b] h == bad[b]
  <2>1. /\ g \in Nat /\ h \in Nat /\ answer[b] = h /\ h = g + 1 /\ Bracket(b) /\ Honest(b)
        /\ list \in Seq(Commits) /\ list # <<>>
    BY DEF SearchInv, HonestInv, TypeOK, Searching
  <2>2. ASSUME NEW i \in Nat, NEW v \in BOOLEAN, Recorded(b, i, v)
        PROVE  passes[list[i]] = v
    BY <2>1, <2>2 DEF Recorded, Honest
  <2>3. passes[list[g]] = TRUE \/ (g = 1 /\ passes[list[1]])
    BY <2>1, <2>2 DEF Bracket
  <2>4. passes[list[h]] = FALSE \/ (h = Len(list) /\ ~passes[list[Len(list)]])
    <3>1. CASE h = Len(list) BY <3>1
    <3>2. CASE Recorded(b, h, FALSE)
      <4>1. passes[list[h]] = FALSE BY <2>1, <2>2, <3>2
      <4> QED BY <4>1
    <3> QED BY <2>1, <3>1, <3>2 DEF Bracket
  <2>5. h \in 2 .. Len(list) /\ h - 1 = g
    BY <2>1 DEF Bracket
  <2>6. list[h] = list[g] + 1 \/ list[h] = list[g]
    BY <2>1, <2>5 DEF Honest
  <2>7. passes[list[g]] /\ ~passes[list[h]]
    BY <2>3, <2>4
  <2>8. answer[b] - 1 = g
    BY <2>1
  <2> HIDE DEF list, g, h
  <2> QED BY <2>1, <2>5, <2>6, <2>7, <2>8 DEF list
<1> QED BY <1>1, <1>2, HonestInvStep, SearchInvInit, SearchInvStep, PTL DEF Spec
-----------------------------------------------------------------------------
\* Powers of two, read off the sizes of power sets: a set with one more element
\* has its subsets twice, with that element and without it.
LEMMA PowersDouble ==
  ASSUME NEW n \in Nat
  PROVE  2 ^ n \in Nat /\ 2 ^ n >= 1 /\ 2 ^ (n + 1) = 2 * 2 ^ n
<1> DEFINE A == SUBSET (1 .. n)
           B == {a \cup {n + 1} : a \in A}
<1>1. /\ IsFiniteSet(1 .. n) /\ Cardinality(1 .. n) = n
      /\ IsFiniteSet(1 .. n + 1) /\ Cardinality(1 .. n + 1) = n + 1
  <2>1. /\ IsFiniteSet(1 .. n) /\ Cardinality(1 .. n) = IF 1 > n THEN 0 ELSE n - 1 + 1
        /\ IsFiniteSet(1 .. n + 1)
        /\ Cardinality(1 .. n + 1) = IF 1 > n + 1 THEN 0 ELSE (n + 1) - 1 + 1
    BY FS_Interval
  <2> QED BY <2>1
<1>2. /\ IsFiniteSet(A) /\ Cardinality(A) = 2 ^ n
      /\ Cardinality(SUBSET (1 .. n + 1)) = 2 ^ (n + 1)
  BY <1>1, FS_SUBSET
<1>3. IsFiniteSet(B) /\ Cardinality(B) = Cardinality(A)
  <2> DEFINE f == [a \in A |-> a \cup {n + 1}]
  <2>1. f \in Bijection(A, B)
    <3>1. \A a \in A : n + 1 \notin a
      OBVIOUS
    <3>2. \A a1, a2 \in A : a1 \cup {n + 1} = a2 \cup {n + 1} => a1 = a2
      BY <3>1
    <3> HIDE DEF A
    <3>3. f \in [A -> B] /\ \A t \in B : \E a \in A : f[a] = t
      OBVIOUS
    <3>4. \A a1, a2 \in A : f[a1] = f[a2] => a1 = a2
      BY <3>2
    <3> HIDE DEF B, f
    <3>5. f \in Injection(A, B)
      BY <3>3, <3>4 DEF Injection, IsInjective
    <3>6. f \in Surjection(A, B)
      BY <3>3 DEF Surjection
    <3> QED BY <3>5, <3>6 DEF Bijection
  <2>2. ExistsBijection(A, B)
    <3> HIDE DEF A, B, f
    <3> QED BY <2>1 DEF ExistsBijection
  <2> HIDE DEF A, B
  <2> QED BY <1>2, <2>2, FS_Bijection
<1>4. SUBSET (1 .. n + 1) = A \cup B
  <2>1. ASSUME NEW s \in SUBSET (1 .. n + 1) PROVE s \in A \cup B
    <3>1. CASE n + 1 \notin s
      BY <3>1
    <3>2. CASE n + 1 \in s
      <4>1. s \ {n + 1} \in A /\ s = (s \ {n + 1}) \cup {n + 1}
        BY <3>2
      <4> QED BY <4>1
    <3> QED BY <3>1, <3>2
  <2>2. ASSUME NEW s \in A PROVE s \in SUBSET (1 .. n + 1)
    OBVIOUS
  <2>3. ASSUME NEW s \in B PROVE s \in SUBSET (1 .. n + 1)
    <3>1. PICK a \in A : s = a \cup {n + 1}
      OBVIOUS
    <3>2. n + 1 \in 1 .. n + 1 /\ a \subseteq 1 .. n + 1
      BY <2>2
    <3> QED BY <3>1, <3>2
  <2> HIDE DEF A, B
  <2> QED BY <2>1, <2>2, <2>3
<1>5. A \cap B = {}
  OBVIOUS
<1>6. Cardinality(A \cup B) = Cardinality(A) + Cardinality(B) - Cardinality(A \cap B)
  <2> HIDE DEF A, B
  <2> QED BY <1>2, <1>3, FS_Union
<1>7. Cardinality({}) = 0
  BY FS_EmptySet
<1>8. Cardinality(A) \in Nat /\ Cardinality(A) # 0
  <2>1. {} \in A
    OBVIOUS
  <2> HIDE DEF A
  <2> QED BY <1>2, <2>1, FS_CardinalityType, FS_EmptySet
<1> HIDE DEF A, B
<1>9. 2 ^ (n + 1) = Cardinality(A) + Cardinality(A)
  <2>1. Cardinality(SUBSET (1 .. n + 1)) = Cardinality(A \cup B)
    BY <1>4, Zenon
  <2>2. Cardinality(A \cap B) = 0
    BY <1>5, <1>7, Zenon
  <2> DEFINE q == 2 ^ (n + 1)
  <2>3. q = Cardinality(A \cup B)
    BY <1>2, <2>1
  <2> HIDE DEF q
  <2>4. q = Cardinality(A) + Cardinality(A)
    BY <1>3, <1>6, <1>8, <2>2, <2>3
  <2> QED BY <2>4 DEF q
<1> DEFINE p == 2 ^ n
           q == 2 ^ (n + 1)
<1>10. p = Cardinality(A) /\ q = Cardinality(A) + Cardinality(A)
  BY <1>2, <1>9
<1> HIDE DEF p, q
<1>11. p \in Nat /\ p >= 1 /\ q = 2 * p
  BY <1>8, <1>10
<1> QED BY <1>11 DEF p, q

\* What is left to search, the places strictly between good and bad, is at
\* most halved by either verdict.
LEMMA Halved ==
  ASSUME NEW g \in Nat, NEW h \in Nat, h - g > 1
  PROVE  /\ 2 * ((g + h) \div 2 - g - 1) <= h - g - 1
         /\ 2 * (h - (g + h) \div 2 - 1) <= h - g - 1
OBVIOUS

LEMMA HalvedTimesTwice ==
  ASSUME NEW v \in Nat, NEW w \in Nat, NEW p \in Nat, 2 * w <= v
  PROVE  w * (2 * p) <= v * p
<1>1. w * (2 * p) = (2 * w) * p
  OBVIOUS
<1>2. PICK d \in Nat : v = 2 * w + d
  <2>1. v - 2 * w \in Nat /\ v = 2 * w + (v - 2 * w)
    OBVIOUS
  <2> QED BY <2>1
<1>3. v * p = (2 * w) * p + d * p /\ d * p \in Nat /\ (2 * w) * p \in Nat
  BY <1>2
<1> QED BY <1>1, <1>3

\* The inductive form of ProbesAreFew: doubled once per probe, what is left to
\* search still fits into the candidates.
Left(b) == bad[b] - good[b] - 1

Few(b) ==
  /\ pc[b] = "idle" => steps[b] = <<>>
  /\ candidates[b] = <<>> => steps[b] = <<>>
  /\ candidates[b] # <<>> => Left(b) * 2 ^ Len(steps[b]) <= Len(candidates[b]) - 2
  /\ steps[b] # <<>> => 2 ^ (Len(steps[b]) - 1) < Len(candidates[b]) - 1

FewInv == \A b \in Bisects : Few(b)

LEMMA FewStep ==
  ASSUME TypeOK, NEW b \in Bisects, Searching(b), Few(b), BisectStep(b)
  PROVE  Few(b)'
<1>1. ASSUME NEW from \in Commits, NEW to \in Commits, NEW named \in BOOLEAN,
             Begin(b, from, to, named)
      PROVE  Few(b)'
  <2> DEFINE list == Candidates(from, to, named)
  <2>1. list \in Seq(Commits) /\ Len(list) \in Nat /\ Len(list) >= 2
    BY <1>1, ListOfCommits DEF Begin
  <2>2. /\ candidates'[b] = list /\ good'[b] = 1 /\ bad'[b] = Len(list)
        /\ steps'[b] = <<>> /\ pc'[b] = "search"
    <3> HIDE DEF list
    <3> QED BY <1>1 DEF Begin, Few, TypeOK, list
  <2>3. 2 ^ 0 = 1 /\ Len(<<>>) = 0
    OBVIOUS
  <2> HIDE DEF list
  <2>4. Left(b)' * 2 ^ Len(steps'[b]) = Len(list) - 2
    BY <2>1, <2>2, <2>3 DEF Left
  <2> QED BY <2>1, <2>2, <2>4 DEF Few
<1>2. CASE Probe(b)
  <2> DEFINE k == Len(steps[b])
             n == Len(candidates[b])
             p == 2 ^ k
             v == Left(b)
             w == Left(b)'
  <2>1. /\ pc[b] = "golden" /\ bad[b] - good[b] > 1 /\ good[b] \in Nat /\ bad[b] \in Nat
        /\ candidates[b] # <<>> /\ candidates[b] \in Seq(Commits)
        /\ steps[b] \in Seq([at : Nat, passed : BOOLEAN])
    BY <1>2 DEF Probe, Searching, TypeOK
  <2>2. /\ candidates' = candidates /\ pc'[b] = "search"
        /\ \E r : steps'[b] = Append(steps[b], r) /\ r \in [at : Nat, passed : BOOLEAN]
        /\ \/ good'[b] = Mid(b) /\ bad'[b] = bad[b]
           \/ good'[b] = good[b] /\ bad'[b] = Mid(b)
    <3>1. Mid(b) \in Nat /\ passes[tree.commit] \in BOOLEAN
      BY <1>2, <2>1, MiddleCandidate, TreeTyped DEF Probe, Active, TypeOK
    <3> QED BY <1>2, <3>1 DEF Probe, TypeOK
  <2>3. k \in Nat /\ n \in Nat /\ Len(steps'[b]) = k + 1 /\ steps'[b] # <<>>
    BY <2>1, <2>2, SMTT(30)
  <2>4. p \in Nat /\ p >= 1 /\ 2 ^ (k + 1) = 2 * p
    <3> HIDE DEF k
    <3> QED BY <2>3, PowersDouble
  <2>5. v \in Nat /\ w \in Nat /\ v >= 1 /\ 2 * w <= v
    <3> DEFINE g == good[b] h == bad[b] m == Mid(b)
    <3>1. /\ m \in Nat /\ g < m /\ m < h
          /\ 2 * (m - g - 1) <= h - g - 1 /\ 2 * (h - m - 1) <= h - g - 1
      BY <2>1, Middle, Halved DEF Mid
    <3>2. v = h - g - 1 /\ (w = h - m - 1 \/ w = m - g - 1)
      BY <2>2 DEF Left
    <3>3. g \in Nat /\ h \in Nat
      BY <2>1
    <3> HIDE DEF g, h, m, v, w
    <3> QED BY <3>1, <3>2, <3>3
  <2>6. v * p <= n - 2
    BY <2>1 DEF Few
  <2> HIDE DEF k, n, p, v, w
  <2>7. w * (2 * p) <= v * p /\ p <= v * p
    <3>1. w * (2 * p) <= v * p
      BY <2>4, <2>5, HalvedTimesTwice
    <3>2. PICK d \in Nat : v = 1 + d
      <4>1. v - 1 \in Nat /\ v = 1 + (v - 1)
        BY <2>5
      <4> QED BY <4>1
    <3>3. v * p = p + d * p /\ d * p \in Nat
      BY <2>4, <3>2
    <3> QED BY <2>4, <3>1, <3>3
  <2>8. w * 2 ^ (k + 1) <= n - 2 /\ p < n - 1
    <3>1. v * p \in Int /\ w * (2 * p) \in Int
      BY <2>4, <2>5
    <3> DEFINE vp == v * p
               wp == w * (2 * p)
    <3>2. wp <= vp /\ p <= vp /\ vp <= n - 2 /\ vp \in Int /\ wp \in Int
      BY <2>6, <2>7, <3>1
    <3> HIDE DEF vp, wp
    <3>3. wp <= n - 2 /\ p < n - 1
      BY <2>3, <2>4, <3>2
    <3> QED BY <2>4, <3>3 DEF wp
  <2>9. (k + 1) - 1 = k
    BY <2>3
  <2>10. candidates'[b] # <<>> /\ Len(candidates'[b]) = n
    BY <2>1, <2>2 DEF n
  <2>11. Left(b)' * 2 ^ Len(steps'[b]) <= Len(candidates'[b]) - 2
    BY <2>3, <2>8, <2>10 DEF w
  <2>12. 2 ^ (Len(steps'[b]) - 1) < Len(candidates'[b]) - 1
    BY <2>3, <2>8, <2>9, <2>10 DEF p
  <2> QED BY <2>2, <2>3, <2>10, <2>11, <2>12 DEF Few
<1>3. ASSUME UNCHANGED <<candidates, good, bad, steps>>, pc'[b] # "idle"
      PROVE  Few(b)'
  BY <1>3 DEF Few, Left
<1>4. Refused(b) \/ Checkout(b) \/ Report(b) \/ Dies(b)
        => UNCHANGED <<candidates, good, bad, steps>> /\ pc'[b] # "idle"
  BY DEF Refused, Checkout, Report, Leave, Dies, TypeOK
<1>5. ASSUME NEW how \in {"error", "raised"}, Aborts(b, how)
      PROVE  UNCHANGED <<candidates, good, bad, steps>> /\ pc'[b] # "idle"
  BY <1>5 DEF Aborts, Leave, TypeOK
<1> QED BY <1>1, <1>2, <1>3, <1>4, <1>5 DEF BisectStep

\* "Find the first failing candidate in O(log n) predicate runs" (bisect.py:64),
\* for a list of candidates of any length and any verdicts, also when another
\* bisect moves the tree.
THEOREM HalvesTheRange == Spec => []ProbesAreFew
<1>1. Init => FewInv
  <2> SUFFICES ASSUME Init, NEW b \in Bisects PROVE Few(b)
    BY DEF FewInv
  <2>1. steps[b] = <<>> /\ candidates[b] = <<>>
    BY DEF Init
  <2> QED BY <2>1 DEF Few
<1>2. SearchInv /\ FewInv /\ [Next]_vars => FewInv'
  <2> SUFFICES ASSUME SearchInv, FewInv, [Next]_vars, NEW b \in Bisects PROVE Few(b)'
    BY DEF FewInv
  <2>1. TypeOK /\ Searching(b) /\ Few(b)
    BY DEF SearchInv, FewInv
  <2>2. CASE UNCHANGED Private(b)
    BY <2>1, <2>2 DEF Private, Few, Left
  <2>3. CASE UNCHANGED vars
    BY <2>1, <2>3 DEF vars, Few, Left
  <2> QED BY <2>1, <2>2, <2>3, FewStep, OthersKeep DEF Next
<1>3. FewInv => ProbesAreFew
  BY DEF FewInv, Few, ProbesAreFew
<1> QED BY <1>1, <1>2, <1>3, SearchInvInit, SearchInvStep, PTL DEF Spec
-----------------------------------------------------------------------------
\* The bisects of the scenes are those of GoldenBisect.
THEOREM ScenesAreBisects == DecisionsSpec => Spec
<1>1. DecisionsInit => Init
  BY DEF DecisionsInit
<1>2. [Requested \/ Bisected \/ Over]_decisions => [Next]_vars
  BY DEF Requested, Bisected, Over, decisions
<1> QED BY <1>1, <1>2, PTL DEF DecisionsSpec, Spec

-----------------------------------------------------------------------------
\* The first rule a text matches is one of the table.
LEMMA OneOfTheRules ==
  ASSUME NEW text
  PROVE  Matched(text) \in {Rules[i] : i \in 1 .. 9} \cup {Generic}
<1> DEFINE hits == {i \in DOMAIN Rules : Rules[i].class \in text}
<1>1. DOMAIN Rules = 1 .. 9
  BY DEF Rules
<1>2. CASE hits = {}
  BY <1>2 DEF Matched
<1>3. CASE hits # {}
  <2>1. \E i \in hits : \A j \in hits : i <= j
    <3> HIDE DEF hits
    <3>1. hits \subseteq Nat
      BY <1>1 DEF hits
    <3> QED BY <1>3, <3>1, LeastOfNats
  <2>2. (CHOOSE i \in hits : \A j \in hits : i <= j) \in 1 .. 9
    <3>1. (CHOOSE i \in hits : \A j \in hits : i <= j) \in hits
      <4> HIDE DEF hits
      <4> QED BY <2>1
    <3> QED BY <1>1, <3>1
  <2>3. Matched(text) = Rules[CHOOSE i \in hits : \A j \in hits : i <= j]
    BY <1>3 DEF Matched
  <2> HIDE DEF hits
  <2> QED BY <2>2, <2>3
<1> QED BY <1>2, <1>3

\* What the table says of a rule: at most two specialists, all of them known,
\* and the critic from risk 2 on.
LEMMA RulesAreSmall ==
  ASSUME NEW r \in {Rules[i] : i \in 1 .. 9} \cup {Generic}
  PROVE  /\ r.risk \in 1 .. 3
         /\ r.specialists \in Seq(Coders \cup Reviewers) /\ Len(r.specialists) <= 2
<1> DEFINE Names == Coders \cup Reviewers
<1>1. ASSUME NEW class, NEW a \in Names, NEW risk \in 1 .. 3, r = Rule(class, <<a>>, risk)
      PROVE  r.risk \in 1 .. 3 /\ r.specialists \in Seq(Names) /\ Len(r.specialists) <= 2
  <2> HIDE DEF Names
  <2>1. r.risk = risk /\ r.specialists = <<a>>
    BY <1>1 DEF Rule
  <2>2. <<a>> \in Seq(Names) /\ Len(<<a>>) = 1
    OBVIOUS
  <2> QED BY <2>1, <2>2
<1>2. ASSUME NEW class, NEW a \in Names, NEW b \in Names, NEW risk \in 1 .. 3,
             r = Rule(class, <<a, b>>, risk)
      PROVE  r.risk \in 1 .. 3 /\ r.specialists \in Seq(Names) /\ Len(r.specialists) <= 2
  <2> HIDE DEF Names
  <2>1. r.risk = risk /\ r.specialists = <<a, b>>
    BY <1>2 DEF Rule
  <2>2. <<a, b>> \in Seq(Names) /\ Len(<<a, b>>) = 2
    OBVIOUS
  <2> QED BY <2>1, <2>2
<1>3. CASE r = Generic
  <2> HIDE DEF Names
  <2>1. r.risk = 1 /\ r.specialists = <<>>
    BY <1>3 DEF Generic, Rule
  <2> QED BY <2>1
<1>4. /\ {SAFETY_AUDITOR, "driver-engineer", "perception-engineer", "data-engineer",
         "pipeline-engineer", "profiler", "triage", "integrator"} \subseteq Names
  BY DEF Coders, Reviewers
<1>5. ASSUME NEW i \in 1 .. 9, r = Rules[i]
      PROVE  r.risk \in 1 .. 3 /\ r.specialists \in Seq(Names) /\ Len(r.specialists) <= 2
  <2> HIDE DEF Names
  <2>1. CASE i = 1
    <3>1. r = Rule("safety", <<SAFETY_AUDITOR>>, 3)
      BY <1>5, <2>1 DEF Rules
    <3> QED BY <1>1, <1>4, <3>1
  <2>2. CASE i = 2
    <3>1. r = Rule("driver", <<"driver-engineer">>, 3)
      BY <1>5, <2>2 DEF Rules
    <3> QED BY <1>1, <1>4, <3>1
  <2>3. CASE i = 3
    <3>1. r = Rule("training", <<"perception-engineer", "data-engineer">>, 2)
      BY <1>5, <2>3 DEF Rules
    <3> QED BY <1>2, <1>4, <3>1
  <2>4. CASE i = 4
    <3>1. r = Rule("quantization", <<"perception-engineer">>, 2)
      BY <1>5, <2>4 DEF Rules
    <3> QED BY <1>1, <1>4, <3>1
  <2>5. CASE i = 5
    <3>1. r = Rule("pipeline", <<"pipeline-engineer">>, 2)
      BY <1>5, <2>5 DEF Rules
    <3> QED BY <1>1, <1>4, <3>1
  <2>6. CASE i = 6
    <3>1. r = Rule("perf", <<"profiler">>, 2)
      BY <1>5, <2>6 DEF Rules
    <3> QED BY <1>1, <1>4, <3>1
  <2>7. CASE i = 7
    <3>1. r = Rule("debug", <<"triage">>, 2)
      BY <1>5, <2>7 DEF Rules
    <3> QED BY <1>1, <1>4, <3>1
  <2>8. CASE i = 8
    <3>1. r = Rule("labeling", <<"data-engineer">>, 2)
      BY <1>5, <2>8 DEF Rules
    <3> QED BY <1>1, <1>4, <3>1
  <2>9. CASE i = 9
    <3>1. r = Rule("release", <<"integrator">>, 2)
      BY <1>5, <2>9 DEF Rules
    <3> QED BY <1>1, <1>4, <3>1
  <2> QED BY <2>1, <2>2, <2>3, <2>4, <2>5, <2>6, <2>7, <2>8, <2>9
<1> QED BY <1>3, <1>5

\* The list of specialists is never cut: the auditor is its last or was in it.
LEMMA SpecialistsOf ==
  ASSUME NEW text
  PROVE  LET c == Classification(text) IN
           /\ ToSet(c.specialists) \subseteq Coders \cup Reviewers
           /\ "cpp" \in text => SAFETY_AUDITOR \in ToSet(c.specialists) /\ c.risk = 3 /\ c.tier = "opus"
           /\ "hardware" \in text => c.risk >= 2
<1> DEFINE rule == Matched(text)
           all == IF "cpp" \in text THEN WithAuditor(rule.specialists) ELSE rule.specialists
           agents == Cut(all)
<1>1. /\ rule.risk \in 1 .. 3
      /\ rule.specialists \in Seq(Coders \cup Reviewers) /\ Len(rule.specialists) <= 2
  BY OneOfTheRules, RulesAreSmall
<1> HIDE DEF rule
<1>2. /\ all \in Seq(Coders \cup Reviewers) /\ Len(all) <= 3
      /\ "cpp" \in text => \E i \in 1 .. Len(all) : all[i] = SAFETY_AUDITOR
  <2>1. SAFETY_AUDITOR \in Coders \cup Reviewers
    BY DEF Reviewers
  <2>2. CASE "cpp" \in text /\ SAFETY_AUDITOR \notin ToSet(rule.specialists)
    <3>1. all = Append(rule.specialists, SAFETY_AUDITOR)
      BY <2>2 DEF WithAuditor
    <3>2. Len(all) = Len(rule.specialists) + 1 /\ all[Len(all)] = SAFETY_AUDITOR
      BY <1>1, <2>1, <3>1
    <3> HIDE DEF all
    <3> QED BY <1>1, <2>1, <3>1, <3>2
  <2>3. CASE "cpp" \in text /\ SAFETY_AUDITOR \in ToSet(rule.specialists)
    BY <1>1, <2>3 DEF WithAuditor, ToSet
  <2>4. CASE "cpp" \notin text
    BY <1>1, <2>4
  <2> QED BY <2>2, <2>3, <2>4
<1> HIDE DEF all
<1>3. agents = all
  BY <1>2 DEF Cut, MAX_SPECIALISTS
<1>4. Classification(text) =
        [class |-> rule.class, specialists |-> agents, tier |-> ModelTier(agents),
         risk |-> AtLeast(AtLeast(rule.risk, IF "cpp" \in text THEN 3 ELSE 1),
                          IF "hardware" \in text THEN 2 ELSE 1)]
  BY DEF Classification, rule, all
<1> HIDE DEF agents
<1>5. ToSet(agents) \subseteq Coders \cup Reviewers
  BY <1>2, <1>3 DEF ToSet
<1>6. "cpp" \in text => SAFETY_AUDITOR \in ToSet(agents)
  BY <1>2, <1>3 DEF ToSet
<1>7. "cpp" \in text => ModelTier(agents) = "opus"
  BY <1>6 DEF ModelTier
<1>8. LET risk == AtLeast(AtLeast(rule.risk, IF "cpp" \in text THEN 3 ELSE 1),
                          IF "hardware" \in text THEN 2 ELSE 1)
      IN  ("cpp" \in text => risk = 3) /\ ("hardware" \in text => risk >= 2)
  BY <1>1 DEF AtLeast
<1> QED BY <1>4, <1>5, <1>6, <1>7, <1>8

\* Escalation, grants and scope (classifier.py:208-249, definitions.py:302-321,
\* exclusivity_gate.py:28-30, scope_lock.py:150-187), for every text, whatever
\* it matches, and every setup of the pre-mortem.
THEOREM IntakeHolds ==
  ASSUME NEW text, NEW setup
  PROVE  /\ EscalationSurvives(text, setup)
         /\ GrantsMatchGate(text, setup)
         /\ ScopeFollowsTask(text, setup)
<1> DEFINE c == Classification(text)
           asked_for == ToSet(c.specialists)
           loaded == Core \cup (asked_for \cap (Coders \cup Reviewers))
                       \cup (IF c.risk >= 2 THEN {"critic"} ELSE {})
           t == Intake(text, setup)
<1>1. /\ asked_for \subseteq Coders \cup Reviewers
      /\ "cpp" \in text => SAFETY_AUDITOR \in asked_for /\ c.risk = 3 /\ c.tier = "opus"
      /\ "hardware" \in text => c.risk >= 2
  BY SpecialistsOf
<1>2. t.c = c /\ t.agents = [a \in loaded |-> Granted(a)] /\ t.runs = InScope(Prompt(text, setup))
  BY DEF Intake, SelectAgents
<1> HIDE DEF c, t
<1>3. EscalationSurvives(text, setup)
  <2>1. DOMAIN t.agents = loaded
    BY <1>2
  <2>2. "cpp" \in text => SAFETY_AUDITOR \in loaded /\ "critic" \in loaded
    BY <1>1
  <2>3. "hardware" \in text => "critic" \in loaded
    BY <1>1
  <2>4. ToSet(t.c.specialists) \subseteq loaded
    BY <1>1, <1>2
  <2> HIDE DEF loaded
  <2> QED BY <1>1, <1>2, <2>1, <2>2, <2>3, <2>4 DEF EscalationSurvives, t
<1>4. GrantsMatchGate(text, setup)
  <2>1. /\ DOMAIN Owners = {"knowledge", "board_farm"}
        /\ Owners["knowledge"] = {"researcher", "architect"}
        /\ Owners["board_farm"] = {"hardware-runner"}
    BY DEF Owners
  <2>2. Core \subseteq loaded /\ loaded \subseteq Core \cup Coders \cup Reviewers \cup {"critic"}
    OBVIOUS
  <2> HIDE DEF loaded
  <2>3. ASSUME NEW a \in loaded, NEW tool \in DOMAIN Owners, tool \in Granted(a)
        PROVE  a \in Owners[tool]
    BY <2>1, <2>2, <2>3 DEF Granted, Coder, Reviewer, Core, Coders, Reviewers, SAFETY_AUDITOR
  <2>4. /\ "researcher" \in loaded /\ "hardware-runner" \in loaded
        /\ "knowledge" \in Granted("researcher") /\ "board_farm" \in Granted("hardware-runner")
    BY <2>2 DEF Granted, Core, Coders, Reviewers, SAFETY_AUDITOR
  <2> QED BY <1>2, <2>1, <2>3, <2>4 DEF GrantsMatchGate, t
<1>5. ScopeFollowsTask(text, setup)
  BY <1>2 DEF ScopeFollowsTask, t, InScope, Prompt
<1> QED BY <1>3, <1>4, <1>5

\* The same of the scene's tasks.
THEOREM IntakeIsAlwaysSafe == DecisionsSpec => []IntakeIsSafe
<1>1. IntakeIsSafe
  BY IntakeHolds DEF IntakeIsSafe
<1> QED BY <1>1, PTL

-----------------------------------------------------------------------------
\* What the requests of the knowledge commands hold.
LEMMA UpToIsSeq == ASSUME NEW n \in Nat, NEW S PROVE UpTo(n, S) \subseteq Seq(S)
BY DEF UpTo

LEMMA JudgedAre ==
  ASSUME NEW q \in Judged
  PROVE  /\ q.cmd \in {"query", "analyze", "ros2-node", "skills-eval", "facts", "hw"}
         /\ q.cmd \in {"query", "analyze"} => q.claims \in UpTo(2, Claimed) /\ q.rules \in RuleSets
         /\ q.cmd = "query" => q.cell = [l4t |-> 1, trt |-> 1]
         /\ q.cmd = "analyze" =>
              q.universe = <<[l4t |-> 1, trt |-> 1], [l4t |-> 3, trt |-> 2], [l4t |-> 2, trt |-> 1]>>
         /\ q.cmd = "skills-eval" => q.arms \in [with : Arms, without : Arms]
         /\ q.cmd = "facts" => /\ q.facts \in UpTo(3, Asserted)
                               /\ q.learned \in {<<>>, [forum |-> 9], [forum |-> 2, datasheet_rag |-> 3]}
         /\ q.cmd = "hw" => /\ q.config.parts \in UpTo(2, Parts)
                            /\ q.config.budgets \in {<<>>, [vdd |-> 4]}
                            /\ q.config = [parts |-> q.config.parts, budgets |-> q.config.budgets]
BY DEF Judged

LEMMA AnsweredAre ==
  ASSUME NEW q \in Answered
  PROVE  /\ q.cmd \in {"premortem", "reflect", "triage", "driver", "search", "upgrade"}
         /\ q.cmd \in {"premortem", "reflect", "triage"} => q.tuples \in {<<>>, <<"fan">>}
         /\ q.cmd = "search" =>
              q.result \in [shape : {"chunks", "chunk"}, unknown : BOOLEAN,
                            chunks : UpTo(2, {Chunk(TRUE), Chunk(FALSE)})]
         /\ q.cmd = "upgrade" => /\ q.current \in [l4t : 1 .. 2, trt : 1 .. 2]
                                 /\ q.proposed \in Moves
BY DEF Answered

\* The other requests are about something else.
LEMMA OthersAre ==
  /\ \A q \in Asks : q.cmd \in {"task", "ci"}
  /\ \A q \in Goldens : q.cmd = "golden"
  /\ \A q \in Measured : q.cmd \in {"replay", "soak", "thermal", "nsight", "shadow", "latency",
                                    "accuracy", "cuda", "score"}
  /\ \A q \in Campaigns : q.cmd \in {"select", "quant", "fleet", "differential"}
  /\ \A q \in Kept : q.cmd \in {"errata", "bom", "validate", "doctor", "containers", "versions"}
<1>1. \A q \in Asks : q.cmd \in {"task", "ci"}
  BY DEF Asks
<1>2. \A q \in Goldens : q.cmd = "golden"
  BY DEF Goldens
<1>3. \A q \in Measured : q.cmd \in {"replay", "soak", "thermal", "nsight", "shadow", "latency",
                                    "accuracy", "cuda", "score"}
  BY DEF Measured
<1>4. \A q \in Campaigns : q.cmd \in {"select", "quant", "fleet", "differential"}
  BY DEF Campaigns
<1>5. \A q \in Kept : q.cmd \in {"errata", "bom", "validate", "doctor", "containers", "versions"}
  BY DEF Kept
<1> QED BY <1>1, <1>2, <1>3, <1>4, <1>5

-----------------------------------------------------------------------------
\* The stacks and the words the claims are about.
Known == {[l4t |-> v] : v \in 1 .. 3} \cup [l4t : 1 .. 3, trt : 1 .. 2]
Terms == BOOLEAN \cup {"unknown", "no claim", "inferred", "verified", "lab"}

LEMMA ClaimedAreClaims == Claimed \subseteq Claims(Known, Terms)
<1> SUFFICES ASSUME NEW c \in Claimed PROVE c \in Claims(Known, Terms)
  OBVIOUS
<1> DEFINE n == 9 * (Full \div 10)
           h == Full \div 2
<1>1. Full \in Sure /\ n \in Sure /\ h \in Sure
  BY FullIs DEF Sure
<1> HIDE DEF n, h
<1>2. PICK s \in {[l4t |-> v] : v \in 1 .. 3} \cup [l4t : {1, 3}, trt : {1, 2}], w \in BOOLEAN,
           p \in {<<Full, "lab">>, <<n, "verified">>, <<h, "lab">>} :
           c = Claim(s, w, p[1], p[2])
  BY DEF Claimed, n, h
<1>3. p[1] \in Sure /\ p[2] \in Terms
  <2>1. CASE p = <<Full, "lab">>
    BY <1>1, <2>1 DEF Terms
  <2>2. CASE p = <<n, "verified">>
    BY <1>1, <2>2 DEF Terms
  <2>3. CASE p = <<h, "lab">>
    BY <1>1, <2>3 DEF Terms
  <2> QED BY <2>1, <2>2, <2>3
<1>4. s \in Known
  BY DEF Known
<1>5. w \in Terms
  BY DEF Terms
<1> QED BY <1>2, <1>3, <1>4, <1>5 DEF Claim, Claims

LEMMA TwoComponents == \A S \in SUBSET {"l4t", "trt"} : IsFiniteSet(S)
<1>1. IsFiniteSet({"l4t"})
  <2>1. {"l4t"} = {} \cup {"l4t"}
    OBVIOUS
  <2> QED BY <2>1, FS_EmptySet, FS_AddElement
<1>2. IsFiniteSet({"l4t", "trt"})
  <2>1. {"l4t", "trt"} = {"l4t"} \cup {"trt"}
    OBVIOUS
  <2> QED BY <1>1, <2>1, FS_AddElement
<1> QED BY <1>2, FS_Subset

LEMMA FewVersions ==
  ASSUME NEW rules \in RuleSets, NEW k \in {"l4t", "trt"}
  PROVE  IsFiniteSet(UNION rules[k]) /\ Cardinality(UNION rules[k]) < Far
<1>1. UNION rules[k] \subseteq 1 .. 3
  BY DEF RuleSets
<1>2. UNION rules[k] \in SUBSET Nat /\ \A v \in UNION rules[k] : v <= 3
  BY <1>1
<1>3. IsFiniteSet(UNION rules[k]) /\ Cardinality(UNION rules[k]) <= 3 + 1
  BY <1>2, FS_BoundedSetOfNaturals
<1>4. Cardinality(UNION rules[k]) \in Nat
  BY <1>3, FS_CardinalityType
<1> QED BY <1>3, <1>4 DEF Far

LEMMA KnownAreRuled ==
  ASSUME NEW rules \in RuleSets, NEW s \in Known
  PROVE  Ruled(s, rules) /\ s = [k \in DOMAIN s |-> s[k]]
<1>1. DOMAIN s \in SUBSET {"l4t", "trt"} /\ s = [k \in DOMAIN s |-> s[k]]
  BY DEF Known
<1>2. IsFiniteSet(DOMAIN s)
  BY <1>1, TwoComponents
<1>3. \A k \in DOMAIN s : IsFiniteSet(UNION rules[k])
  BY <1>1, FewVersions
<1> QED BY <1>1, <1>2, <1>3 DEF Ruled

LEMMA KnownClaims ==
  ASSUME NEW claims \in UpTo(2, Claimed), NEW rules \in RuleSets
  PROVE  Querying(Known, Terms, claims, rules)
<1>1. claims \in Seq(Claimed)
  BY UpToIsSeq
<1>2. claims \in Seq(Claims(Known, Terms))
  BY <1>1, ClaimedAreClaims
<1>3. Spoken(Terms)
  BY DEF Spoken, Terms
<1> QED BY <1>2, <1>3, KnownAreRuled DEF Querying

-----------------------------------------------------------------------------
LEMMA QueriesHold ==
  ASSUME NEW q \in Judged, q.cmd = "query"
  PROVE  /\ \A k \in DOMAIN q.rules : HopsAreEquivalence(q.rules[k])
         /\ QueryIsGrounded(q.claims, q.cell, q.rules)
         /\ OrderShowsOnlyInConflict(q.claims, q.cell, q.rules)
<1>1. q.claims \in UpTo(2, Claimed) /\ q.rules \in RuleSets /\ q.cell = [l4t |-> 1, trt |-> 1]
  BY JudgedAre
<1>2. Querying(Known, Terms, q.claims, q.rules)
  BY <1>1, KnownClaims
<1>3. ASSUME NEW k \in DOMAIN q.rules PROVE HopsAreEquivalence(q.rules[k])
  <2>1. k \in {"l4t", "trt"}
    BY <1>1 DEF RuleSets
  <2>2. IsFiniteSet(UNION q.rules[k]) /\ Cardinality(UNION q.rules[k]) < Far
    BY <1>1, <2>1, FewVersions
  <2> QED BY <2>2, HopsMeasureChains
<1>4. QueryIsGrounded(q.claims, q.cell, q.rules)
  BY <1>2, QueriesAreGrounded
<1>5. q.cell = [k \in DOMAIN q.cell |-> q.cell[k]]
  BY <1>1
<1>6. \A s \in Known : s = [k \in DOMAIN s |-> s[k]]
  BY <1>1, KnownAreRuled
<1>7. OrderShowsOnlyInConflict(q.claims, q.cell, q.rules)
  BY <1>2, <1>5, <1>6, OrderShowsInConflict
<1> QED BY <1>3, <1>4, <1>7

LEMMA AnalysesHold ==
  ASSUME NEW q \in Judged, q.cmd = "analyze"
  PROVE  NextIsWorthIt(q.claims, q.universe, q.rules)
<1>1. /\ q.claims \in UpTo(2, Claimed) /\ q.rules \in RuleSets
      /\ q.universe = <<[l4t |-> 1, trt |-> 1], [l4t |-> 3, trt |-> 2], [l4t |-> 2, trt |-> 1]>>
  BY JudgedAre
<1>2. Querying(Known, Terms, q.claims, q.rules)
  BY <1>1, KnownClaims
<1>3. q.universe \in Seq(Known)
  BY <1>1 DEF Known
<1> QED BY <1>2, <1>3, ProposalsAreWorthIt

LEMMA FactsAreAsserted ==
  ASSUME NEW q \in Judged, q.cmd = "facts"
  PROVE  q.facts \in Seq(Asserting) /\ \A x \in DOMAIN q.learned : q.learned[x] \in Nat
<1>1. /\ q.facts \in UpTo(3, Asserted)
      /\ q.learned \in {<<>>, [forum |-> 9], [forum |-> 2, datasheet_rag |-> 3]}
  BY JudgedAre
<1>2. Asserted \subseteq Asserting
  BY DEF Asserted, Asserting, Base
<1>3. q.facts \in Seq(Asserting)
  BY <1>1, <1>2, UpToIsSeq
<1>4. \A x \in DOMAIN q.learned : q.learned[x] \in Nat
  BY <1>1
<1> QED BY <1>3, <1>4

LEMMA ConfigsAre ==
  ASSUME NEW q \in Judged, q.cmd = "hw"
  PROVE  \E Pin, Text, Rails :
           q.config \in [parts : Seq([pins : Seq(Pin), addr : Text, rail : Text, ma : Nat]),
                         budgets : [Rails -> Int]]
<1> DEFINE Text == {"none", "0x10", "vdd"}
           Listed == [pins : Seq(Nat), addr : Text, rail : Text, ma : Nat]
<1>1. /\ q.config.parts \in UpTo(2, Parts) /\ q.config.budgets \in {<<>>, [vdd |-> 4]}
      /\ q.config = [parts |-> q.config.parts, budgets |-> q.config.budgets]
  BY JudgedAre
<1>2. Parts \subseteq Listed
  <2>1. {<<>>, <<1>>, <<1, 2>>, <<2, 2>>} \subseteq Seq(Nat)
    OBVIOUS
  <2>2. {0, 3} \subseteq Nat
    OBVIOUS
  <2>3. ASSUME NEW p \in Parts PROVE p \in Listed
    <3>1. /\ p = [pins |-> p.pins, addr |-> p.addr, rail |-> p.rail, ma |-> p.ma]
          /\ p.pins \in {<<>>, <<1>>, <<1, 2>>, <<2, 2>>} /\ p.ma \in {0, 3}
          /\ p.addr \in {"none", "0x10"} /\ p.rail \in {"vdd"}
      BY DEF Parts
    <3>2. p.addr \in Text /\ p.rail \in Text
      BY <3>1
    <3>3. p.pins \in Seq(Nat) /\ p.ma \in Nat
      BY <2>1, <2>2, <3>1
    <3> QED BY <3>1, <3>2, <3>3
  <2> QED BY <2>3
<1>3. q.config.parts \in Seq(Listed)
  <2> HIDE DEF Listed
  <2> QED BY <1>1, <1>2, UpToIsSeq
<1>4. PICK Rails : q.config.budgets \in [Rails -> Int]
  <2>1. CASE q.config.budgets = <<>>
    <3>1. q.config.budgets \in [{} -> Int]
      BY <2>1
    <3> QED BY <3>1
  <2>2. CASE q.config.budgets = [vdd |-> 4]
    <3>1. q.config.budgets \in [{"vdd"} -> Int]
      BY <2>2
    <3> QED BY <3>1
  <2> QED BY <1>1, <2>1, <2>2
<1>5. q.config \in [parts : Seq(Listed), budgets : [Rails -> Int]]
  BY <1>1, <1>3, <1>4
<1> QED BY <1>5

LEMMA OtherJudgementsHold ==
  ASSUME NEW q \in Judged
  PROVE  /\ q.cmd = "facts" => FactsAreArbitrated(q.facts, q.learned)
         /\ q.cmd = "skills-eval" => SkillsEarnTheirPlace(q.arms)
         /\ q.cmd = "hw" => CleanIsClean(q.config)
<1>1. ASSUME q.cmd = "facts" PROVE FactsAreArbitrated(q.facts, q.learned)
  BY <1>1, FactsAreAsserted, ArbitrationHolds
<1>2. ASSUME q.cmd = "skills-eval" PROVE SkillsEarnTheirPlace(q.arms)
  <2>1. q.arms \in [with : Arms, without : Arms]
    BY <1>2, JudgedAre
  <2>2. Arms \subseteq Counts
    BY DEF Arms, Counted, Counts
  <2>3. q.arms \in [with : Counts, without : Counts]
    BY <2>1, <2>2
  <2> QED BY <2>3, SkillVerdictsAreEarned
<1>3. ASSUME q.cmd = "hw" PROVE CleanIsClean(q.config)
  <2>1. PICK Pin, Text, Rails :
          q.config \in [parts : Seq([pins : Seq(Pin), addr : Text, rail : Text, ma : Nat]),
                        budgets : [Rails -> Int]]
    BY <1>3, ConfigsAre
  <2> QED BY <2>1, CleanConfigsStayClean
<1> QED BY <1>1, <1>2, <1>3

LEMMA AnswersHold ==
  ASSUME NEW q \in Answered
  PROVE  /\ q.cmd = "upgrade" => UpgradeIsVerified(q.matrix, q.current, q.proposed)
         /\ q.cmd = "search" => GuardKeepsGrounds(q.result)
         /\ q.cmd \in {"premortem", "reflect"} => AdviceIsGrounded(q.tag, q.tuples, q.status)
<1>1. ASSUME q.cmd = "upgrade" PROVE UpgradeIsVerified(q.matrix, q.current, q.proposed)
  <2>1. q.current \in [{"l4t", "trt"} -> 1 .. 2] /\ q.proposed \in Moves
    BY <1>1, AnsweredAre
  <2>2. PICK moves \in SUBSET {"l4t", "trt"} : q.proposed \in [moves -> 1 .. 2]
    BY <2>1 DEF Moves, PartOf
  <2>3. IsFiniteSet(moves)
    BY <2>2, TwoComponents
  <2> QED BY <2>1, <2>2, <2>3, UpgradesAreVerified
<1>2. ASSUME q.cmd = "search" PROVE GuardKeepsGrounds(q.result)
  <2> DEFINE C == {Chunk(TRUE), Chunk(FALSE)}
  <2>1. q.result \in [shape : {"chunks", "chunk"}, unknown : BOOLEAN, chunks : UpTo(2, C)]
    BY <1>2, AnsweredAre
  <2>2. \A c \in C : c.provenance \in BOOLEAN
    <3>1. Chunk(TRUE).provenance = TRUE /\ Chunk(FALSE).provenance = FALSE
      BY DEF Chunk
    <3> QED BY <3>1
  <2> HIDE DEF C
  <2>3. q.result \in [shape : {"chunks", "chunk"}, unknown : BOOLEAN, chunks : Seq(C)]
    BY <2>1, UpToIsSeq
  <2> QED BY <2>2, <2>3, GroundsAreKept
<1>3. ASSUME q.cmd \in {"premortem", "reflect"} PROVE AdviceIsGrounded(q.tag, q.tuples, q.status)
  <2>1. q.tuples \in Seq({"fan"})
    <3>1. q.tuples \in {<<>>, <<"fan">>}
      BY <1>3, AnsweredAre
    <3>2. <<>> \in Seq({"fan"}) /\ <<"fan">> \in Seq({"fan"})
      OBVIOUS
    <3> QED BY <3>1, <3>2
  <2> QED BY <2>1, AdviceHolds
<1> QED BY <1>1, <1>2, <1>3

-----------------------------------------------------------------------------
\* A command notes what it was asked; the ones that lose a run, or refuse a
\* kind, note that too.
Changed == {"quant", "differential", "fleet", "select", "score", "containers"}

LEMMA CommandsNote ==
  ASSUME NEW q, Command(q)
  PROVE  asked' = q \/ (q.cmd \in Changed /\ asked' = [q EXCEPT !.way = "deepgent"])
<1> DEFINE P == asked' = q
           R == q.cmd \in Changed /\ (asked' = q \/ asked' = [q EXCEPT !.way = "deepgent"])
<1>1. Differential(q) \/ QuantSweep(q) \/ Fleet(q) \/ SelectModel(q) => R
  BY DEF Differential, QuantSweep, Fleet, SelectModel, Campaign, Reply, Changed
<1>2. AccuracyScore(q) \/ ContainersBuild(q) => R
  BY DEF AccuracyScore, ContainersBuild, Reply, Changed
<1>3. (RunTask(q) \/ CiRun(q) \/ EvalsRun(q) \/ ReplayFixture(q) \/ Soak(q) \/ Measure(q)
       \/ Latency(q) \/ AccuracyGate(q) \/ CudaCheck(q)) => P
  BY DEF RunTask, CiRun, EvalsRun, ReplayFixture, Soak, Measure, Latency, AccuracyGate, CudaCheck, Reply
<1>4. (MatrixQuery(q) \/ MatrixAnalyze(q) \/ Produce(q) \/ Facts(q) \/ HwCheck(q) \/ ErrataScan(q)
       \/ BomTool(q) \/ SkillsValidate(q) \/ VersionsCheck(q) \/ Doctor(q)) => P
  BY DEF MatrixQuery, MatrixAnalyze, Produce, Facts, HwCheck, ErrataScan, BomTool, SkillsValidate,
         VersionsCheck, Doctor, Reply
<1>5. (Premortems(q) \/ Reflect(q) \/ Triage(q) \/ UpgradeCheck(q) \/ RagSearch(q)
       \/ ScaffoldDriver(q)) => P
  BY DEF Premortems, Reflect, Triage, UpgradeCheck, RagSearch, ScaffoldDriver, Reply
<1>6. P \/ R => P \/ (q.cmd \in Changed /\ asked' = [q EXCEPT !.way = "deepgent"])
  OBVIOUS
<1>7. P \/ R
  <2> HIDE DEF P, R
  <2> QED BY <1>1, <1>2, <1>3, <1>4, <1>5 DEF Command
<1> QED BY <1>6, <1>7

LEMMA CommandKept ==
  ASSUME NEW q \in Measured \cup Campaigns \cup Kept
  PROVE  [q EXCEPT !.way = "deepgent"].cmd = q.cmd
<1> SUFFICES "cmd" \in DOMAIN q
  OBVIOUS
<1>1. CASE q \in Measured BY <1>1 DEF Measured
<1>2. CASE q \in Campaigns BY <1>2 DEF Campaigns
<1>3. CASE q \in Kept BY <1>3 DEF Kept
<1> QED BY <1>1, <1>2, <1>3

\* What a request to the knowledge layer, or about its records, is answered.
Sound(q) ==
  /\ q.cmd = "query" =>
       /\ \A k \in DOMAIN q.rules : HopsAreEquivalence(q.rules[k])
       /\ QueryIsGrounded(q.claims, q.cell, q.rules)
       /\ OrderShowsOnlyInConflict(q.claims, q.cell, q.rules)
  /\ q.cmd = "analyze" => NextIsWorthIt(q.claims, q.universe, q.rules)
  /\ q.cmd = "facts" => FactsAreArbitrated(q.facts, q.learned)
  /\ q.cmd = "skills-eval" => SkillsEarnTheirPlace(q.arms)
  /\ q.cmd = "upgrade" => UpgradeIsVerified(q.matrix, q.current, q.proposed)
  /\ q.cmd = "hw" => CleanIsClean(q.config)
  /\ q.cmd = "search" => GuardKeepsGrounds(q.result)
  /\ q.cmd \in {"premortem", "reflect"} => AdviceIsGrounded(q.tag, q.tuples, q.status)

LEMMA SoundIsEnough == (Sound(asked) => KnowledgeIsSound) /\ (Sound(asked') => KnowledgeIsSound')
<1>1. Sound(asked) => KnowledgeIsSound
  BY Zenon DEF Sound, KnowledgeIsSound
<1>2. Sound(asked') => KnowledgeIsSound'
  BY Zenon DEF Sound, KnowledgeIsSound
<1> QED BY <1>1, <1>2

Judging == {"query", "analyze", "facts", "skills-eval", "upgrade", "hw", "search", "premortem", "reflect"}

LEMMA IdleIsSound == ASSUME NEW q, q.cmd \notin Judging PROVE Sound(q)
BY DEF Sound, Judging

LEMMA RequestsAreSound ==
  /\ \A q \in Judged : Sound(q)
  /\ \A q \in Answered : Sound(q)
  /\ \A q \in Asks \cup Goldens \cup Measured \cup Campaigns \cup Kept : q.cmd \notin Judging
<1>1. ASSUME NEW q \in Judged PROVE Sound(q)
  <2>1. q.cmd \notin {"upgrade", "search", "premortem", "reflect"}
    BY JudgedAre
  <2>2. /\ q.cmd = "facts" => FactsAreArbitrated(q.facts, q.learned)
        /\ q.cmd = "skills-eval" => SkillsEarnTheirPlace(q.arms)
        /\ q.cmd = "hw" => CleanIsClean(q.config)
    BY OtherJudgementsHold
  <2>3. q.cmd = "analyze" => NextIsWorthIt(q.claims, q.universe, q.rules)
    BY AnalysesHold
  <2>4. q.cmd = "query" =>
          /\ \A k \in DOMAIN q.rules : HopsAreEquivalence(q.rules[k])
          /\ QueryIsGrounded(q.claims, q.cell, q.rules)
          /\ OrderShowsOnlyInConflict(q.claims, q.cell, q.rules)
    BY QueriesHold
  <2> QED BY <2>1, <2>2, <2>3, <2>4 DEF Sound
<1>2. ASSUME NEW q \in Answered PROVE Sound(q)
  <2>1. q.cmd \notin {"query", "analyze", "facts", "skills-eval", "hw"}
    BY AnsweredAre
  <2>2. /\ q.cmd = "upgrade" => UpgradeIsVerified(q.matrix, q.current, q.proposed)
        /\ q.cmd = "search" => GuardKeepsGrounds(q.result)
        /\ q.cmd \in {"premortem", "reflect"} => AdviceIsGrounded(q.tag, q.tuples, q.status)
    BY AnswersHold
  <2> QED BY <2>1, <2>2 DEF Sound
<1>3. \A q \in Asks \cup Goldens \cup Measured \cup Campaigns \cup Kept : q.cmd \notin Judging
  BY OthersAre DEF Judging
<1> QED BY <1>1, <1>2, <1>3

\* Every request of the scene is answered soundly.
LEMMA RequestKnows == Requested => KnowledgeIsSound'
<1> SUFFICES ASSUME Requested PROVE Sound(asked')
  BY SoundIsEnough
<1>1. ASSUME NEW q \in Judged, Command(q) PROVE Sound(asked')
  <2>1. q.cmd \notin Changed
    BY JudgedAre DEF Changed
  <2>2. asked' = q
    BY <1>1, <2>1, CommandsNote
  <2> QED BY <2>2, RequestsAreSound
<1>2. ASSUME NEW q \in Answered, Command(q) PROVE Sound(asked')
  <2>1. q.cmd \notin Changed
    BY AnsweredAre DEF Changed
  <2>2. asked' = q
    BY <1>2, <2>1, CommandsNote
  <2> QED BY <2>2, RequestsAreSound
<1>3. ASSUME NEW q \in Asks \cup Goldens \cup Measured \cup Campaigns \cup Kept, Command(q)
      PROVE  Sound(asked')
  <2>1. asked'.cmd = q.cmd
    <3>1. CASE asked' = q BY <3>1
    <3>2. CASE q.cmd \in Changed /\ asked' = [q EXCEPT !.way = "deepgent"]
      <4>1. q \in Measured \cup Campaigns \cup Kept
        BY <3>2, OthersAre DEF Changed
      <4> QED BY <3>2, <4>1, CommandKept
    <3> QED BY <1>3, <3>1, <3>2, CommandsNote
  <2>2. asked'.cmd \notin Judging
    BY <2>1, RequestsAreSound
  <2> QED BY <2>2, IdleIsSound
<1> QED BY <1>1, <1>2, <1>3 DEF Requested

\* What the knowledge layer says rests on what it was given (matrix.py, facts.py,
\* skill_lifecycle.py, products.py, hardware_check.py, fact_guard.py, reflect.py),
\* for every request of the scene.
THEOREM KnowledgeIsAlwaysSound == DecisionsSpec => []KnowledgeIsSound
<1>1. DecisionsInit => KnowledgeIsSound
  <2>1. Idle.cmd \notin Judging
    BY DEF Idle, Judging
  <2> QED BY <2>1, IdleIsSound, SoundIsEnough DEF DecisionsInit, CommandInit
<1>2. KnowledgeIsSound /\ [Requested \/ Bisected \/ Over]_decisions => KnowledgeIsSound'
  <2>1. Requested => KnowledgeIsSound'
    BY RequestKnows
  <2>2. Bisected \/ Over \/ UNCHANGED decisions => asked' = asked
    BY DEF Bisected, Over, decisions, surfaces
  <2>3. KnowledgeIsSound /\ asked' = asked => KnowledgeIsSound'
    BY DEF KnowledgeIsSound
  <2> QED BY <2>1, <2>2, <2>3
<1> QED BY <1>1, <1>2, PTL DEF DecisionsSpec

-----------------------------------------------------------------------------
\* What the requests about measurements hold.
LEMMA MeasuredAre ==
  ASSUME NEW q \in Measured
  PROVE  /\ q.cmd = "replay" => q.status \in 0 .. 1
         /\ q.cmd = "soak" => q.survived \in BOOLEAN
         /\ q.cmd = "nsight" => q.ns \in [1 .. 4 -> 0 .. 2]
         /\ q.cmd = "shadow" => q.a \in UpTo(2, Labelled) /\ q.b \in UpTo(2, Labelled)
         /\ q.cmd = "latency" => q.lines \in UpTo(4, Lines) /\ q.budget \in {None, 0, 4, 5}
         /\ q.cmd = "accuracy" => /\ q.measured \in 0 .. 3 /\ q.baseline \in {None, 2}
                                  /\ q.tolerance \in 0 .. 1
         /\ q.cmd = "cuda" => q.reports \in UpTo(2, Reports)
         /\ q.cmd = "score" => q.kind \in {"classification", "other", "detection"}
         /\ q.cmd = "score" /\ q.kind = "detection" =>
              q.preds \in UpTo(3, Boxes) /\ q.truths \in UpTo(2, Boxes)
BY DEF Measured

LEMMA GoldensAre ==
  ASSUME NEW q \in Goldens
  PROVE  /\ q.metrics \in Metrics /\ q.baseline \in Baselines /\ q.diff \in BOOLEAN
         /\ q.criteria \in {<<>>, [wall_s |-> 23], [err |-> 1]}
BY DEF Goldens

LEMMA CampaignsAre ==
  ASSUME NEW q \in Campaigns
  PROVE  /\ q.cmd = "select" =>
              /\ q.benches \in UpTo(2, Benched) \/ q.benches = <<>>
              /\ \/ q.limit \in [power : {Void, 2, 3}, fps : {Void, 0, 5}, latency : {Void, 1},
                                 accuracy : {Void, 1}]
                 \/ q.limit = Limit(Void, Void, Void, Void)
         /\ q.cmd = "quant" => q.benches \in UpTo(2, Configs) \/ q.benches \in [1 .. 3 -> Configs \ Gone]
         /\ q.cmd \in {"fleet", "differential"} => q.benches \in UpTo(2, Benched)
<1> HIDE DEF Benched, Configs, Gone, Void, Limit, UpTo
<1> QED BY DEF Campaigns

\* They are what the rules are stated for.
LEMMA TracesAre == Lines \subseteq Traced({"capture", "infer"})
<1> SUFFICES ASSUME NEW l \in Lines PROVE l \in Traced({"capture", "infer"})
  OBVIOUS
<1>1. PICK s \in {"capture", "infer"}, m \in {1, 4}, f \in {None, 1} : l = Line(s, m, f)
  BY DEF Lines
<1>2. m \in Nat /\ f \in Int
  BY DEF None
<1> QED BY <1>1, <1>2 DEF Line, Traced

LEMMA LabelledAre == Labelled \subseteq Boxed({"car", "van"})
<1> SUFFICES ASSUME NEW p \in Labelled PROVE p \in Boxed({"car", "van"})
  OBVIOUS
<1>1. PICK b \in Boxes, l \in {"car", "van"} : p = [lo |-> b.lo, hi |-> b.hi, label |-> l]
  BY DEF Labelled
<1>2. b.lo \in Int /\ b.hi \in Int /\ b.lo < b.hi
  <2>1. PICK c \in {<<0, 2>>, <<0, 4>>, <<1, 3>>, <<3, 4>>} : b = [lo |-> c[1], hi |-> c[2]]
    BY DEF Boxes
  <2> QED BY <2>1
<1> QED BY <1>1, <1>2 DEF Boxed

LEMMA BenchesAre == Benched \subseteq Benching /\ Configs \subseteq Benching
<1>1. ASSUME NEW ok \in BOOLEAN, NEW l \in Int, NEW f \in Int, NEW e \in Int, NEW p \in Int, NEW a \in Int
      PROVE  Bench(ok, l, f, e, p, a) \in Rowed
  BY <1>1 DEF Bench, Rowed
<1>2. Void \in Int
  BY DEF Void, NoFigure
<1> HIDE DEF Void
<1>3. Gone \subseteq Benching
  BY <1>1, <1>2 DEF Gone, Benching
<1>4. ASSUME NEW l \in Int, NEW f \in Int, NEW p \in Int, NEW a \in Int PROVE Fast(l, f, p, a) \in Rowed
  BY <1>1, <1>2, <1>4 DEF Fast
<1>5. {Fast(l, f, p, a) : l \in {1, 2}, f \in {5, 9}, p \in {Void, 3}, a \in {Void, 1}} \subseteq Rowed
  BY <1>2, <1>4
<1>6. Fast(Void, Void, 3, 1) \in Rowed
  BY <1>2, <1>4
<1>9. Rowed \subseteq Benching
  BY DEF Benching
<1> HIDE DEF Rowed, Benching
<1> DEFINE V == {Void, 1, 2}
           L == {1, 2}
           A == {Bench(TRUE, l, 9, e, Void, a) : l \in L, e \in V, a \in V}
           c == Bench(TRUE, 1, 5, 1, 2, 1)
<1>7. A \subseteq Rowed
  <2>1. V \subseteq Int /\ L \subseteq Int /\ 9 \in Int /\ TRUE \in BOOLEAN
    BY <1>2
  <2> HIDE DEF V, L
  <2>2. ASSUME NEW x \in A PROVE x \in Rowed
    <3>1. PICK l \in L, e \in V, a \in V : x = Bench(TRUE, l, 9, e, Void, a)
      BY DEF Bench
    <3>2. l \in Int /\ e \in Int /\ a \in Int
      BY <2>1
    <3> QED BY <1>2, <3>1, <3>2 DEF Bench, Rowed
  <2> HIDE DEF A
  <2> QED BY <2>2
<1>8. c \in Rowed
  <2>1. TRUE \in BOOLEAN /\ 1 \in Int /\ 5 \in Int /\ 2 \in Int
    OBVIOUS
  <2> QED BY <1>1, <2>1
<1>10. Benched \subseteq Benching
  BY <1>3, <1>5, <1>6, <1>9 DEF Benched
<1>11. Configs \subseteq Benching
  <2>1. Configs = A \cup {c} \cup Gone
    BY DEF Configs
  <2> HIDE DEF A, c, V, L
  <2> QED BY <1>3, <1>7, <1>8, <1>9, <2>1
<1> QED BY <1>10, <1>11

LEMMA BenchedCampaigns ==
  ASSUME NEW q \in Campaigns
  PROVE  q.benches \in Seq(Benching) /\ (q.cmd = "select" => q.limit \in Limited)
<1> HIDE DEF Benching
<1>1. q.cmd \in {"select", "quant", "fleet", "differential"}
  BY OthersAre
<1>2. q.benches \in UpTo(2, Benched) \/ q.benches = <<>> \/ q.benches \in UpTo(2, Configs)
      \/ q.benches \in [1 .. 3 -> Configs \ Gone]
  BY <1>1, CampaignsAre
<1>3. ASSUME q.benches \in [1 .. 3 -> Configs \ Gone] PROVE q.benches \in Seq(Benching)
  <2> DEFINE S == Configs \ Gone
  <2>1. S \subseteq Benching
    BY BenchesAre
  <2>2. q.benches \in [1 .. 3 -> S]
    BY <1>3
  <2> HIDE DEF S
  <2>3. q.benches \in [1 .. 3 -> Benching]
    BY <2>1, <2>2
  <2>4. 3 \in 0 .. 3 /\ 3 \in Nat
    OBVIOUS
  <2>5. q.benches \in UpTo(3, Benching)
    BY <2>3, <2>4 DEF UpTo
  <2> QED BY <2>4, <2>5, UpToIsSeq
<1>4. ASSUME q.benches = <<>> PROVE q.benches \in Seq(Benching)
  BY <1>4
<1>5. ASSUME q.benches \in UpTo(2, Benched) \/ q.benches \in UpTo(2, Configs)
      PROVE  q.benches \in Seq(Benching)
  <2>1. q.benches \in Seq(Benched) \/ q.benches \in Seq(Configs)
    BY <1>5, UpToIsSeq
  <2>2. ASSUME NEW S, S \subseteq Benching PROVE Seq(S) \subseteq Seq(Benching)
    BY <2>2
  <2> QED BY <2>1, <2>2, BenchesAre
<1>6. q.cmd = "select" => q.limit \in Limited
  <2>1. Void \in Int
    BY DEF Void, NoFigure
  <2> HIDE DEF Void
  <2> QED BY <2>1, CampaignsAre DEF Limit, Limited
<1> QED BY <1>2, <1>3, <1>4, <1>5, <1>6

-----------------------------------------------------------------------------
LEMMA ReportsAre ==
  ASSUME NEW q \in Measured, q.cmd = "cuda"
  PROVE  q.reports \in Seq([headers : Nat, summaries : Seq(Nat)])
<1>1. q.reports \in Seq(Reports)
  BY MeasuredAre, UpToIsSeq
<1>2. Reports \subseteq [headers : Nat, summaries : Seq(Nat)]
  <2>1. UpTo(2, 0 .. 1) \subseteq Seq(0 .. 1)
    BY UpToIsSeq
  <2>2. UpTo(2, 0 .. 1) \subseteq Seq(Nat)
    BY <2>1
  <2> QED BY <2>2 DEF Reports
<1>3. q.reports \in Seq([headers : Nat, summaries : Seq(Nat)])
  <2> DEFINE R == [headers : Nat, summaries : Seq(Nat)]
  <2>1. Reports \subseteq R
    BY <1>2
  <2> HIDE DEF R
  <2>2. q.reports \in Seq(R)
    BY <1>1, <2>1
  <2> QED BY <2>2 DEF R
<1> QED BY <1>3

LEMMA GoldenFigures ==
  ASSUME NEW q \in Goldens
  PROVE  /\ \A k \in DOMAIN q.metrics : q.metrics[k] \in Nat
         /\ q.baseline # NoBaseline => \A k \in DOMAIN q.baseline.metrics : q.baseline.metrics[k] \in Nat
<1>1. q.metrics \in Metrics /\ q.baseline \in Baselines
  BY GoldensAre
<1>2. \A k \in DOMAIN q.metrics : q.metrics[k] \in Nat
  <2>1. CASE q.metrics \in PartOf(Costs, {0, 20, 23, 24})
    BY <2>1 DEF PartOf
  <2>2. CASE q.metrics \in [{"err"} -> {0, 2}]
    BY <2>2
  <2> QED BY <1>1, <2>1, <2>2 DEF Metrics
<1>3. q.baseline # NoBaseline => \A k \in DOMAIN q.baseline.metrics : q.baseline.metrics[k] \in Nat
  <2>1. ASSUME q.baseline # NoBaseline PROVE q.baseline.metrics \in PartOf(Costs, {0, 20})
    BY <1>1, <2>1 DEF Baselines
  <2> QED BY <2>1 DEF PartOf
<1> QED BY <1>2, <1>3

LEMMA MeasurementsHold ==
  ASSUME NEW q \in Measured
  PROVE  /\ q.cmd = "latency" =>
              \A perFrame \in 0 .. 2 : LatencyIsAccounted(q.lines, q.budget, perFrame)
         /\ q.cmd = "score" /\ q.kind = "detection" => PrecisionIsRanked(q.preds, q.truths)
         /\ q.cmd = "shadow" => DiffIsAccounted(q.a, q.b)
         /\ q.cmd = "cuda" => CudaCleanIsEarned(q.reports)
         /\ q.cmd = "nsight" => BlameIsFair(q.ns)
<1>1. ASSUME q.cmd = "latency", NEW perFrame \in 0 .. 2
      PROVE  LatencyIsAccounted(q.lines, q.budget, perFrame)
  <2>1. q.lines \in Seq(Lines) /\ q.budget \in {None, 0, 4, 5}
    BY <1>1, MeasuredAre, UpToIsSeq
  <2>2. q.lines \in Seq(Traced({"capture", "infer"}))
    BY <2>1, TracesAre
  <2>3. q.budget \in Int /\ perFrame \in Nat
    BY <2>1 DEF None
  <2> QED BY <2>2, <2>3, LatenciesAreAccounted
<1>2. ASSUME q.cmd = "score", q.kind = "detection" PROVE PrecisionIsRanked(q.preds, q.truths)
  <2>1. q.preds \in Seq(Boxes) /\ q.truths \in Seq(Boxes)
    BY <1>2, MeasuredAre, UpToIsSeq
  <2> QED BY <2>1, PrecisionsAreRanked
<1>3. ASSUME q.cmd = "shadow" PROVE DiffIsAccounted(q.a, q.b)
  <2>1. q.a \in Seq(Labelled) /\ q.b \in Seq(Labelled)
    BY <1>3, MeasuredAre, UpToIsSeq
  <2>2. q.a \in Seq(Boxed({"car", "van"})) /\ q.b \in Seq(Boxed({"car", "van"}))
    BY <2>1, LabelledAre
  <2> QED BY <2>2, DiffsAreAccounted
<1>4. ASSUME q.cmd = "cuda" PROVE CudaCleanIsEarned(q.reports)
  <2> QED BY <1>4, ReportsAre, CleanReportsAreEarned
<1>5. ASSUME q.cmd = "nsight" PROVE BlameIsFair(q.ns)
  <2>1. q.ns \in [1 .. 4 -> Nat]
    BY <1>5, MeasuredAre
  <2> QED BY <2>1, BlameIsFairlyPut
<1> QED BY <1>1, <1>2, <1>3, <1>4, <1>5

LEMMA GoldensHold ==
  ASSUME NEW q \in Goldens
  PROVE  ReviewIsHonest({[passed |-> Scored(q.metrics, q.criteria), metrics |-> q.metrics,
                          baseline |-> q.baseline]})
<1> DEFINE r == [passed |-> Scored(q.metrics, q.criteria), metrics |-> q.metrics, baseline |-> q.baseline]
<1>4. /\ \A k \in Costs \cap DOMAIN r.metrics : r.metrics[k] \in Nat
      /\ r.baseline # NoBaseline => \A k \in Costs \cap DOMAIN r.baseline.metrics : r.baseline.metrics[k] \in Nat
  BY GoldenFigures
<1> HIDE DEF r
<1>5. ReviewIsHonest({r})
  BY <1>4, ReviewsAreHonest
<1> QED BY <1>5 DEF r

LEMMA CampaignsHold ==
  ASSUME NEW q \in Campaigns
  PROVE  /\ NothingIsDropped(q.cmd, q.benches)
         /\ q.cmd = "select" => WinnerMeetsLimits(Rows(q.cmd, q.benches).rows, q.limit)
         /\ q.cmd = "quant" => FrontierIsSound(Rows(q.cmd, q.benches).rows)
         /\ q.cmd = "fleet" => ClaimsAreMeasured(q.benches, q.stacks)
<1>1. q.benches \in Seq(Benching) /\ (q.cmd = "select" => q.limit \in Limited)
  BY BenchedCampaigns
<1>2. Rows(q.cmd, q.benches).rows \in Seq(Rowed)
  BY <1>1, RowsAre
<1>3. NothingIsDropped(q.cmd, q.benches)
  BY <1>1, CampaignsDropNothing
<1>4. q.cmd = "select" => WinnerMeetsLimits(Rows(q.cmd, q.benches).rows, q.limit)
  BY <1>1, <1>2, WinnersMeetTheirLimits
<1>5. FrontierIsSound(Rows(q.cmd, q.benches).rows)
  BY <1>2, FrontiersAreSound
<1>6. ClaimsAreMeasured(q.benches, q.stacks)
  BY <1>1, FleetClaimsAreMeasured
<1> QED BY <1>3, <1>4, <1>5, <1>6

-----------------------------------------------------------------------------
\* What a request to measure or to compare is answered.
Earned(q) ==
  /\ q.cmd = "latency" =>
       \A perFrame \in 0 .. 2 : LatencyIsAccounted(q.lines, q.budget, perFrame)
  /\ q.cmd = "score" /\ q.kind = "detection" => PrecisionIsRanked(q.preds, q.truths)
  /\ q.cmd = "shadow" => DiffIsAccounted(q.a, q.b)
  /\ q.cmd = "cuda" => CudaCleanIsEarned(q.reports)
  /\ q.cmd = "nsight" => BlameIsFair(q.ns)
  /\ q.cmd = "golden" =>
       ReviewIsHonest({[passed |-> Scored(q.metrics, q.criteria), metrics |-> q.metrics,
                        baseline |-> q.baseline]})
  /\ q.cmd = "select" => /\ NothingIsDropped(q.cmd, q.benches)
                         /\ WinnerMeetsLimits(Rows(q.cmd, q.benches).rows, q.limit)
  /\ q.cmd = "quant" => FrontierIsSound(Rows(q.cmd, q.benches).rows)
  /\ q.cmd = "fleet" => ClaimsAreMeasured(q.benches, q.stacks)

LEMMA EarnedIsEnough == (Earned(asked) => VerdictsAreEarned) /\ (Earned(asked') => VerdictsAreEarned')
<1>1. Earned(asked) => VerdictsAreEarned
  BY Zenon DEF Earned, VerdictsAreEarned
<1>2. Earned(asked') => VerdictsAreEarned'
  BY Zenon DEF Earned, VerdictsAreEarned
<1> QED BY <1>1, <1>2

Measuring == {"latency", "score", "shadow", "cuda", "nsight", "golden", "select", "quant", "fleet"}

LEMMA IdleIsEarned == ASSUME NEW q, q.cmd \notin Measuring PROVE Earned(q)
BY DEF Earned, Measuring

LEMMA RequestsAreEarned ==
  /\ \A q \in Goldens \cup Measured \cup Campaigns : Earned(q)
  /\ \A q \in Asks \cup Judged \cup Kept \cup Answered : q.cmd \notin Measuring
<1>1. ASSUME NEW q \in Goldens PROVE Earned(q)
  BY OthersAre, GoldensHold DEF Earned
<1>2. ASSUME NEW q \in Measured PROVE Earned(q)
  <2>1. q.cmd \notin {"golden", "select", "quant", "fleet"}
    BY OthersAre
  <2> QED BY <2>1, MeasurementsHold DEF Earned
<1>3. ASSUME NEW q \in Campaigns PROVE Earned(q)
  <2>1. q.cmd \notin {"latency", "score", "shadow", "cuda", "nsight", "golden"}
    BY OthersAre
  <2> QED BY <2>1, CampaignsHold DEF Earned
<1>4. \A q \in Asks \cup Judged \cup Kept \cup Answered : q.cmd \notin Measuring
  <2>1. \A q \in Judged : q.cmd \notin Measuring
    BY JudgedAre DEF Measuring
  <2>2. \A q \in Answered : q.cmd \notin Measuring
    BY AnsweredAre DEF Measuring
  <2>3. \A q \in Asks \cup Kept : q.cmd \notin Measuring
    BY OthersAre DEF Measuring
  <2> QED BY <2>1, <2>2, <2>3
<1> QED BY <1>1, <1>2, <1>3, <1>4

\* A campaign that lost a run, or a score of a refused kind, was asked the same.
LEMMA EarnedAsChanged ==
  ASSUME NEW q, Earned(q), NEW c, c.cmd = q.cmd,
         q.cmd = "score" => c.kind = q.kind /\ c.kind # "detection",
         q.cmd \in {"select", "quant", "fleet"} => c.benches = q.benches,
         q.cmd = "select" => c.limit = q.limit, q.cmd = "fleet" => c.stacks = q.stacks,
         q.cmd \in Changed
  PROVE  Earned(c)
<1>1. q.cmd \notin {"latency", "shadow", "cuda", "nsight", "golden"}
  BY DEF Changed
<1> QED BY <1>1 DEF Earned

\* Only a kind that is neither a classification nor a detection is refused.
LEMMA ChangedKeeps ==
  ASSUME NEW q \in Measured \cup Campaigns \cup Kept, Command(q), asked' # q,
         q.cmd \in Changed, asked' = [q EXCEPT !.way = "deepgent"]
  PROVE  /\ asked'.cmd = q.cmd
         /\ q.cmd = "score" => asked'.kind = q.kind /\ asked'.kind # "detection"
         /\ q.cmd \in {"select", "quant", "fleet"} => asked'.benches = q.benches
         /\ q.cmd = "select" => asked'.limit = q.limit
         /\ q.cmd = "fleet" => asked'.stacks = q.stacks
<1>1. asked'.cmd = q.cmd
  BY CommandKept
<1>2. CASE q \in Measured
  <2>1. q.cmd = "score"
    BY <1>2, OthersAre DEF Changed
  <2>2. "kind" \in DOMAIN q
    BY <1>2, <2>1 DEF Measured
  <2>3. AccuracyScore(q)
    BY <2>1 DEF Command, RunTask, CiRun, EvalsRun, ReplayFixture, Soak, Measure, Latency, AccuracyGate,
       CudaCheck, Differential, QuantSweep, Fleet, SelectModel, MatrixQuery, MatrixAnalyze, Produce, Facts,
       HwCheck, ErrataScan, BomTool, SkillsValidate, VersionsCheck, Doctor, ContainersBuild, Premortems,
       Reflect, Triage, UpgradeCheck, RagSearch, ScaffoldDriver
  <2>4. q.kind = "other"
    BY <2>3 DEF AccuracyScore, Reply
  <2>5. asked'.kind = q.kind
    BY <2>2
  <2> QED BY <1>1, <2>1, <2>4, <2>5
<1>3. CASE q \in Campaigns
  <2>1. /\ q.cmd \in {"select", "quant", "fleet", "differential"}
        /\ "benches" \in DOMAIN q
        /\ q.cmd = "select" => "limit" \in DOMAIN q
        /\ q.cmd = "fleet" => "stacks" \in DOMAIN q
    BY <1>3, OthersAre DEF Campaigns
  <2> QED BY <1>1, <2>1
<1>4. CASE q \in Kept
  BY <1>1, <1>4, OthersAre DEF Changed
<1> QED BY <1>2, <1>3, <1>4

LEMMA RequestEarns == Requested => VerdictsAreEarned'
<1> SUFFICES ASSUME Requested PROVE Earned(asked')
  BY EarnedIsEnough
<1>1. ASSUME NEW q \in Asks \cup Judged \cup Kept \cup Answered, Command(q) PROVE Earned(asked')
  <2>1. q.cmd \notin Measuring
    BY RequestsAreEarned
  <2>2. CASE asked' = q
    BY <2>1, <2>2, IdleIsEarned
  <2>3. CASE asked' # q
    <3>1. q.cmd \in Changed /\ asked' = [q EXCEPT !.way = "deepgent"]
      BY <1>1, <2>3, CommandsNote
    <3>2. q \in Kept
      BY <3>1, OthersAre, JudgedAre, AnsweredAre DEF Changed
    <3>3. asked'.cmd = q.cmd
      BY <3>1, <3>2, CommandKept
    <3> QED BY <2>1, <3>3, IdleIsEarned
  <2> QED BY <2>2, <2>3
<1>2. ASSUME NEW q \in Goldens \cup Measured \cup Campaigns, Command(q) PROVE Earned(asked')
  <2>1. Earned(q)
    BY RequestsAreEarned
  <2>2. CASE asked' = q
    BY <2>1, <2>2
  <2>3. CASE asked' # q
    <3>1. q.cmd \in Changed /\ asked' = [q EXCEPT !.way = "deepgent"]
      BY <1>2, <2>3, CommandsNote
    <3>2. q \in Measured \cup Campaigns \cup Kept
      BY <3>1, OthersAre DEF Changed
    <3> QED BY <1>2, <2>1, <2>3, <3>1, <3>2, ChangedKeeps, EarnedAsChanged
  <2> QED BY <2>2, <2>3
<1> QED BY <1>1, <1>2 DEF Requested

\* What an evaluation reports follows from what the boards printed
\* (latency_trace.py, metrics.py, shadow.py, cuda_check.py, nsight.py, pr_review.py,
\* bench.py and the campaigns), for every request of the scene.
THEOREM VerdictsAreAlwaysEarned == DecisionsSpec => []VerdictsAreEarned
<1>1. DecisionsInit => VerdictsAreEarned
  <2>1. Idle.cmd \notin Measuring
    BY DEF Idle, Measuring
  <2> QED BY <2>1, IdleIsEarned, EarnedIsEnough DEF DecisionsInit, CommandInit
<1>2. VerdictsAreEarned /\ [Requested \/ Bisected \/ Over]_decisions => VerdictsAreEarned'
  <2>1. Requested => VerdictsAreEarned'
    BY RequestEarns
  <2>2. Bisected \/ Over \/ UNCHANGED decisions => asked' = asked
    BY DEF Bisected, Over, decisions, surfaces
  <2>3. VerdictsAreEarned /\ asked' = asked => VerdictsAreEarned'
    BY DEF VerdictsAreEarned
  <2> QED BY <2>1, <2>2, <2>3
<1> QED BY <1>1, <1>2, PTL DEF DecisionsSpec

-----------------------------------------------------------------------------
\* Every request of the scene can be read.
LEMMA WaysAreKnown ==
  ASSUME NEW q \in Asks \cup Goldens \cup Measured \cup Campaigns \cup Judged \cup Kept \cup Answered
  PROVE  "way" \in DOMAIN q
<1>1. CASE q \in Asks BY <1>1 DEF Asks
<1>2. CASE q \in Goldens BY <1>2 DEF Goldens
<1>3. CASE q \in Measured BY <1>3 DEF Measured
<1>4. CASE q \in Campaigns BY <1>4 DEF Campaigns
<1>5. CASE q \in Judged BY <1>5 DEF Judged
<1>6. CASE q \in Kept BY <1>6 DEF Kept
<1>7. CASE q \in Answered BY <1>7 DEF Answered
<1> QED BY <1>1, <1>2, <1>3, <1>4, <1>5, <1>6, <1>7

LEMMA MeasuredAreRead == ASSUME NEW q \in Measured PROVE Read(q)
<1>1. "way" \in DOMAIN q /\ q.cmd \in {"replay", "soak", "thermal", "nsight", "shadow", "latency",
                                       "accuracy", "cuda", "score"}
  BY WaysAreKnown, OthersAre
<1>2. ASSUME q.cmd = "latency" PROVE q.budget \in Int /\ \E Stages : q.lines \in Seq(Traced(Stages))
  <2>1. q.lines \in Seq(Lines) /\ q.budget \in {None, 0, 4, 5}
    BY <1>2, MeasuredAre, UpToIsSeq
  <2>2. q.lines \in Seq(Traced({"capture", "infer"}))
    BY <2>1, TracesAre
  <2>3. q.budget \in Int
    BY <2>1 DEF None
  <2> QED BY <2>2, <2>3
<1>3. ASSUME q.cmd = "accuracy" PROVE q.measured \in Int /\ q.baseline \in Int /\ q.tolerance \in Int
  BY <1>3, MeasuredAre DEF None
<1>4. ASSUME q.cmd = "cuda" PROVE q.reports \in Seq([headers : Nat, summaries : Seq(Nat)])
  BY <1>4, ReportsAre, MeasuredAre
<1>5. ASSUME q.cmd = "soak" PROVE q.survived \in BOOLEAN
  BY <1>5, MeasuredAre
<1> QED BY <1>1, <1>2, <1>3, <1>4, <1>5 DEF Read

LEMMA GoldensAreRead == ASSUME NEW q \in Goldens PROVE Read(q)
<1>1. "way" \in DOMAIN q /\ q.cmd = "golden"
  BY WaysAreKnown, OthersAre
<1>2. \A k \in DOMAIN q.criteria : q.criteria[k] \in Int
  BY GoldensAre
<1>3. \A k \in DOMAIN q.metrics : q.metrics[k] \in Nat
  BY GoldenFigures
<1>4. q.baseline # NoBaseline => \A k \in DOMAIN q.baseline.metrics : q.baseline.metrics[k] \in Nat
  BY GoldenFigures
<1> QED BY <1>1, <1>2, <1>3, <1>4 DEF Read

LEMMA CampaignsAreRead == ASSUME NEW q \in Campaigns PROVE Read(q)
<1>1. "way" \in DOMAIN q /\ q.cmd \in {"select", "quant", "fleet", "differential"}
  BY WaysAreKnown, OthersAre
<1> HIDE DEF Benching
<1> QED BY <1>1, BenchedCampaigns DEF Read

LEMMA JudgedAreRead == ASSUME NEW q \in Judged PROVE Read(q)
<1>1. "way" \in DOMAIN q /\ q.cmd \in {"query", "analyze", "ros2-node", "skills-eval", "facts", "hw"}
  BY WaysAreKnown, JudgedAre
<1>2. ASSUME q.cmd = "facts"
      PROVE  q.facts \in Seq(Asserting) /\ \A x \in DOMAIN q.learned : q.learned[x] \in Nat
  BY <1>2, FactsAreAsserted
<1>3. ASSUME q.cmd = "hw"
      PROVE  \E Pin, Text, Rails :
               q.config \in [parts : Seq([pins : Seq(Pin), addr : Text, rail : Text, ma : Nat]),
                             budgets : [Rails -> Int]]
  BY <1>3, ConfigsAre
<1> QED BY <1>1, <1>2, <1>3 DEF Read

LEMMA KeptAreRead == ASSUME NEW q \in Kept PROVE Read(q)
<1>1. "way" \in DOMAIN q /\ q.cmd \in {"errata", "bom", "validate", "doctor", "containers", "versions"}
  BY WaysAreKnown, OthersAre
<1>2. ASSUME q.cmd = "versions"
      PROVE  \E n \in Nat : /\ q.pinned \in [1 .. n -> Int] /\ IsFiniteSet(q.tags)
                            /\ q.tags \subseteq [1 .. n -> Int] \cup {NotATag}
  <2>1. q.pinned \in {<<1, 2>>} /\ q.tags \in SUBSET {NotATag, <<1, 1>>, <<1, 2>>, <<1, 3>>, <<2, 0>>}
    BY <1>2 DEF Kept
  <2>2. 2 \in Nat /\ \A x, y \in Int : <<x, y>> \in [1 .. 2 -> Int]
    OBVIOUS
  <2>3. IsFiniteSet(q.tags)
    <3>1. \A a, b, c, d, e : IsFiniteSet({a, b, c, d, e})
      <4>1. ASSUME NEW a, NEW b, NEW c, NEW d, NEW e PROVE IsFiniteSet({a, b, c, d, e})
        <5>1. IsFiniteSet({} \cup {a}) BY FS_EmptySet, FS_AddElement
        <5>2. IsFiniteSet(({} \cup {a}) \cup {b}) BY <5>1, FS_AddElement
        <5>3. IsFiniteSet((({} \cup {a}) \cup {b}) \cup {c}) BY <5>2, FS_AddElement
        <5>4. IsFiniteSet(((({} \cup {a}) \cup {b}) \cup {c}) \cup {d}) BY <5>3, FS_AddElement
        <5>5. IsFiniteSet((((({} \cup {a}) \cup {b}) \cup {c}) \cup {d}) \cup {e}) BY <5>4, FS_AddElement
        <5>6. {a, b, c, d, e} = (((({} \cup {a}) \cup {b}) \cup {c}) \cup {d}) \cup {e} OBVIOUS
        <5> QED BY <5>5, <5>6
      <4> QED BY <4>1
    <3>2. IsFiniteSet({NotATag, <<1, 1>>, <<1, 2>>, <<1, 3>>, <<2, 0>>})
      BY <3>1
    <3> QED BY <2>1, <3>2, FS_Subset
  <2>4. \A t \in q.tags : t = NotATag \/ t \in [1 .. 2 -> Int]
    BY <2>1, <2>2
  <2>5. q.pinned \in [1 .. 2 -> Int]
    BY <2>1, <2>2
  <2> QED BY <2>2, <2>3, <2>4, <2>5
<1> QED BY <1>1, <1>2 DEF Read

LEMMA AnsweredAreRead == ASSUME NEW q \in Answered PROVE Read(q)
<1>1. "way" \in DOMAIN q /\ q.cmd \in {"premortem", "reflect", "triage", "driver", "search", "upgrade"}
  BY WaysAreKnown, AnsweredAre
<1>2. ASSUME q.cmd = "upgrade"
      PROVE  \E K, V : \E keys \in SUBSET K, moves \in SUBSET K :
               IsFiniteSet(moves) /\ q.current \in [keys -> V] /\ q.proposed \in [moves -> V]
  <2> DEFINE K == {"l4t", "trt"}
             V == 1 .. 2
  <2>1. q.current \in [K -> V] /\ K \in SUBSET K
    BY <1>2, AnsweredAre
  <2>2. q.proposed \in Moves
    BY <1>2, AnsweredAre
  <2>3. PICK moves \in SUBSET K : q.proposed \in [moves -> V]
    BY <2>2 DEF Moves, PartOf
  <2>4. IsFiniteSet(moves)
    BY <2>3, TwoComponents
  <2> HIDE DEF K, V
  <2> QED BY <2>1, <2>3, <2>4
<1> QED BY <1>1, <1>2 DEF Read

LEMMA AsksAreRead == ASSUME NEW q \in Asks PROVE Read(q)
<1>1. "way" \in DOMAIN q /\ q.cmd \in {"task", "ci"}
  BY WaysAreKnown, OthersAre
<1> QED BY <1>1 DEF Read

\* The exit codes tell the verdicts (cli/main.py, mcp_server.py), for every request
\* of the scene.
THEOREM ExitsAlwaysTell == DecisionsSpec => []ExitTellsVerdict
<1>1. DecisionsInit => ExitTellsVerdict
  <2> SUFFICES ASSUME DecisionsInit PROVE ExitTellsVerdict
    OBVIOUS
  <2>1. asked = Idle /\ cli.exit = 0 /\ ~mcp.good
    BY DEF DecisionsInit, CommandInit, Answer
  <2> QED BY <2>1 DEF ExitTellsVerdict
<1>2. ExitTellsVerdict /\ [Requested \/ Bisected \/ Over]_decisions => ExitTellsVerdict'
  <2>1. Requested => ExitTellsVerdict'
    BY AsksAreRead, GoldensAreRead, MeasuredAreRead, CampaignsAreRead, JudgedAreRead, KeptAreRead,
       AnsweredAreRead, ExitsTellVerdicts DEF Requested
  <2>2. Bisected \/ Over \/ UNCHANGED decisions => UNCHANGED surfaces
    BY DEF Bisected, Over, decisions
  <2>3. ExitTellsVerdict /\ UNCHANGED surfaces => ExitTellsVerdict'
    BY DEF ExitTellsVerdict, surfaces
  <2> QED BY <2>1, <2>2, <2>3
<1> QED BY <1>1, <1>2, PTL DEF DecisionsSpec
===============================================================================
