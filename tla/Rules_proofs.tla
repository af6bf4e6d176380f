----------------------------- MODULE Rules_proofs -----------------------------
(***************************************************************************)
(* Theorems about the rules by which evaluations, campaigns and the         *)
(* knowledge layer come to their answers, for inputs of any size.  The      *)
(* rules are loops over sequences, written as folds: what a fold computes   *)
(* is reasoned about as the run of its states, from the first element to    *)
(* the last, and by induction along that run.                               *)
(***************************************************************************)
EXTENDS CommandLine, Runs_proofs

\* The run of a sum: what it comes to after each place.
LEMMA TotalRuns ==
  ASSUME NEW s \in Seq(Nat)
  PROVE  \E run \in [0 .. Len(s) -> Nat] :
           /\ run[0] = 0 /\ Total(s) = run[Len(s)]
           /\ \A i \in 1 .. Len(s) : run[i] = run[i - 1] + s[i]
<1> DEFINE N == Len(s)
           S == Nat
           step == [p \in (1 .. N) \X S |-> p[2] + s[p[1]]]
           Eq(g) == g = [T \in SUBSET (1 .. N) |-> IF T = {} THEN 0 ELSE g[T \ {Max(T)}] + s[Max(T)]]
           iter == CHOOSE g : Eq(g)
<1>1. N \in Nat /\ DOMAIN s = 1 .. N /\ \A i \in 1 .. N : s[i] \in Nat
  OBVIOUS
<1>2. Stepped(N, S, 0, step)
  BY <1>1 DEF Stepped
<1>3. PICK g : IsFold(N, S, 0, step, g)
  <2> HIDE DEF step, N, S
  <2> QED BY <1>1, <1>2, FoldExists
<1>4. ASSUME NEW T \in SUBSET (1 .. N), T # {}, Max(T) \in T, NEW h, h[T \ {Max(T)}] \in S
      PROVE  step[<<Max(T), h[T \ {Max(T)}]>>] = h[T \ {Max(T)}] + s[Max(T)]
  <2> HIDE DEF N, S
  <2> QED BY <1>4
<1>5. Eq(g)
  <2> HIDE DEF N, S, step
  <2> QED BY <1>3, <1>4 DEF IsFold
<1>6. Eq(iter)
  <2> HIDE DEF Eq
  <2> QED BY <1>5
<1>7. RunsTo(N, S, 0, step, iter[1 .. N])
  <2> HIDE DEF N, S, step, iter
  <2>1. iter[{}] = 0
    BY <1>6
  <2>2. ASSUME NEW i \in 1 .. N, iter[(1 .. i) \ {Max(1 .. i)}] \in S
        PROVE  iter[1 .. i] = step[<<Max(1 .. i), iter[(1 .. i) \ {Max(1 .. i)}]>>]
    <3> DEFINE D == 1 .. i
    <3>1. D \in SUBSET (1 .. N) /\ D # {} /\ Max(D) \in D
      BY <1>1, Places
    <3> HIDE DEF D
    <3>2. iter[D] = iter[D \ {Max(D)}] + s[Max(D)]
      BY <1>6, <3>1
    <3>3. iter[D \ {Max(D)}] \in S
      BY <2>2 DEF D
    <3>4. iter[D] = step[<<Max(D), iter[D \ {Max(D)}]>>]
      BY <1>4, <3>1, <3>2, <3>3
    <3> QED BY <3>4 DEF D
  <2> QED BY <1>1, <1>2, <2>1, <2>2, FoldIsRun, ZenonT(30)
<1>8. Total(s) = iter[1 .. N]
  BY <1>1 DEF Total, FoldLeft, MapThenFoldSet
<1>9. \A run \in [0 .. N -> Nat] : \A i \in 1 .. N :
        step[<<i, run[i - 1]>>] = run[i - 1] + s[i]
  <2> HIDE DEF N
  <2> QED BY <1>1, SMTT(30)
<1> HIDE DEF step, iter, N
<1>10. \E run \in [0 .. N -> Nat] :
         /\ run[0] = 0 /\ Total(s) = run[N]
         /\ \A i \in 1 .. N : run[i] = run[i - 1] + s[i]
  BY <1>7, <1>8, <1>9 DEF RunsTo
<1> QED BY <1>10 DEF N

\* Among finitely many places one has the greatest value.
LEMMA HasGreatest ==
  ASSUME NEW n \in Nat, NEW I, I \subseteq 1 .. n, I # {},
         NEW f, \A i \in I : f[i] \in Int
  PROVE  \E i \in I : \A j \in I : f[j] <= f[i]
<1> DEFINE Peak(J) == \E i \in J : \A j \in J : f[j] <= f[i]
           T == {m \in Nat : \E J \in SUBSET I : J # {} /\ J \subseteq 1 .. m /\ ~Peak(J)}
<1>1. T = {}
  <2> SUFFICES ASSUME T # {} PROVE FALSE
    OBVIOUS
  <2>1. PICK m \in T : \A y \in T : m <= y
    <3> HIDE DEF T
    <3>1. T \subseteq Nat
      BY DEF T
    <3> QED BY <3>1, LeastOfNats
  <2>2. m \in Nat
    BY <2>1
  <2>3. PICK J \in SUBSET I : J # {} /\ J \subseteq 1 .. m /\ ~Peak(J)
    BY <2>1
  <2>4. m # 0
    <3>1. PICK e \in J : e \in 1 .. m
      <4> HIDE DEF Peak
      <4> QED BY <2>3
    <3> QED BY <2>2, <3>1
  <2>5. m - 1 \in Nat /\ m - 1 \notin T
    <3> HIDE DEF T
    <3>1. m - 1 \in Nat /\ ~ (m <= m - 1)
      BY <2>2, <2>4
    <3> QED BY <2>1, <3>1
  <2>6. \A K \in SUBSET I : K # {} /\ K \subseteq 1 .. (m - 1) => Peak(K)
    <3> HIDE DEF Peak
    <3> QED BY <2>5
  <2>7. m \in J
    <3>1. m \notin J => J \subseteq 1 .. (m - 1)
      <4>1. ASSUME m \notin J, NEW j \in J PROVE j \in 1 .. (m - 1)
        <5>1. j \in 1 .. m /\ j # m
          BY <2>3, <4>1
        <5> QED BY <2>2, <5>1
      <4> QED BY <4>1
    <3> HIDE DEF Peak
    <3> QED BY <2>3, <2>6, <3>1
  <2>8. CASE J \ {m} = {}
    <3>1. J = {m} /\ f[m] \in Int
      BY <2>7, <2>8
    <3> QED BY <2>3, <3>1
  <2>9. CASE J \ {m} # {}
    <3>1. J \ {m} \subseteq 1 .. (m - 1) /\ J \ {m} \in SUBSET I
      BY <2>2, <2>3
    <3>2. Peak(J \ {m})
      <4> HIDE DEF Peak
      <4> QED BY <2>6, <2>9, <3>1
    <3>3. PICK k \in J \ {m} : \A j \in J \ {m} : f[j] <= f[k]
      BY <3>2
    <3>4. f[m] \in Int /\ f[k] \in Int /\ \A j \in J : f[j] \in Int
      BY <2>7, <3>3
    <3>5. CASE f[m] <= f[k]
      BY <2>3, <3>3, <3>5
    <3>6. CASE f[k] <= f[m]
      <4>1. \A j \in J : f[j] <= f[m]
        BY <3>3, <3>4, <3>6
      <4> QED BY <2>3, <2>7, <4>1
    <3> QED BY <3>4, <3>5, <3>6
  <2> QED BY <2>8, <2>9
<1>2. n \notin T
  <2> HIDE DEF T
  <2> QED BY <1>1
<1> QED BY <1>2

\* The first of the best is one of the places, and none is better.
LEMMA FirstOfBest ==
  ASSUME NEW n \in Nat, NEW I, I \subseteq 1 .. n, I # {},
         NEW f, \A i \in I : f[i] \in Int
  PROVE  LET best == {i \in I : \A j \in I : f[j] <= f[i]}
         IN  /\ First(best) \in I /\ \A j \in I : f[j] <= f[First(best)]
             /\ Min(best) \in I /\ \A j \in I : f[j] <= f[Min(best)]
<1> DEFINE best == {i \in I : \A j \in I : f[j] <= f[i]}
<1>1. best # {} /\ best \subseteq Nat
  <2>1. \E i \in I : \A j \in I : f[j] <= f[i]
    BY HasGreatest
  <2>2. I \subseteq Nat
    OBVIOUS
  <2> QED BY <2>1, <2>2
<1>2. \E x \in best : \A y \in best : x <= y
  <2> HIDE DEF best
  <2> QED BY <1>1, LeastOfNats
<1>3. First(best) \in best
  <2> HIDE DEF best
  <2> QED BY <1>2 DEF First
<1>4. Min(best) \in best
  <2> HIDE DEF best
  <2> QED BY <1>2 DEF Min
<1> QED BY <1>3, <1>4

-----------------------------------------------------------------------------
Asserting == [value : STRING \cup Int, source : DOMAIN Base]

LEMMA ConfidenceIsNat ==
  ASSUME NEW source \in DOMAIN Base, NEW learned, \A x \in DOMAIN learned : learned[x] \in Nat
  PROVE  Confidence(source, learned) \in Nat
BY DEF Confidence, Base

\* Whom arbitration follows: nobody if all is memory, else a most confident
\* assertion that is not; and what it calls a conflict.
LEMMA Arbitrated ==
  ASSUME NEW facts \in Seq(Asserting),
         NEW learned, \A x \in DOMAIN learned : learned[x] \in Nat
  PROVE  LET a == Arbitrate(facts, learned)
             heard == {i \in DOMAIN facts : facts[i].source # "model_memory"}
             conf(i) == Confidence(facts[i].source, learned)
         IN  /\ a.conflict \in BOOLEAN
             /\ a.win = 0 <=> heard = {}
             /\ a.win # 0 => a.win \in heard /\ \A j \in heard : conf(j) <= conf(a.win)
             /\ a.conflict <=> a.win # 0 /\ \E i \in heard : facts[i].value # facts[a.win].value
                                                             /\ conf(i) >= 6
<1> DEFINE a == Arbitrate(facts, learned)
           heard == {i \in DOMAIN facts : facts[i].source # "model_memory"}
           conf(i) == Confidence(facts[i].source, learned)
           best == {i \in heard : \A j \in heard : conf(j) <= conf(i)}
           win == IF best = {} THEN 0 ELSE Min(best)
<1>1. /\ a.win = win
      /\ a.conflict = (win # 0 /\ \E i \in heard : facts[i].value # facts[win].value /\ conf(i) >= 6)
  BY DEF Arbitrate
<1>2. heard \subseteq 1 .. Len(facts) /\ Len(facts) \in Nat
  OBVIOUS
<1>3. \A i \in heard : conf(i) \in Nat
  <2>1. \A i \in heard : facts[i].source \in DOMAIN Base
    <3>1. \A i \in DOMAIN facts : facts[i] \in Asserting
      OBVIOUS
    <3> QED BY <3>1 DEF Asserting
  <2> HIDE DEF heard
  <2> QED BY <2>1, ConfidenceIsNat
<1>4. CASE heard = {}
  <2>1. best = {}
    BY <1>4
  <2>2. win = 0
    BY <2>1
  <2> HIDE DEF a, win, heard, conf
  <2> QED BY <1>1, <1>4, <2>2 DEF a, heard, conf
<1>5. CASE heard # {}
  <2> DEFINE f == [i \in heard |-> conf(i)]
             most == {i \in heard : \A j \in heard : f[j] <= f[i]}
  <2>1. \A i \in heard : f[i] = conf(i) /\ f[i] \in Int
    <3> HIDE DEF heard, conf
    <3> QED BY <1>3
  <2>2. Min(most) \in heard /\ \A j \in heard : f[j] <= f[Min(most)]
    <3> HIDE DEF f, heard
    <3> QED BY <1>2, <1>5, <2>1, FirstOfBest
  <2>3. most = best
    <3> HIDE DEF f, heard, conf
    <3> QED BY <2>1
  <2>4. best # {}
    <3> HIDE DEF f, heard, conf
    <3> QED BY <1>2, <1>5, <2>1, <2>3, HasGreatest
  <2>5. win = Min(best) /\ win \in heard /\ win # 0 /\ \A j \in heard : conf(j) <= conf(win)
    <3>1. win = Min(most)
      <4> HIDE DEF most, best
      <4> QED BY <2>3, <2>4
    <3>2. Min(most) # 0
      <4> HIDE DEF most, heard
      <4> QED BY <1>2, <2>2
    <3> HIDE DEF most, best, win, heard, conf
    <3> QED BY <2>1, <2>2, <2>3, <3>1, <3>2
  <2> HIDE DEF a, win, heard, conf, best
  <2> QED BY <1>1, <1>5, <2>5 DEF a, heard, conf
<1> QED BY <1>4, <1>5
\* Facts are arbitrated by merit (knowledge/fact_confidence.py): memory never wins,
\* a value nobody disputes is disputed only by sources nobody should trust, and
\* what is called a conflict does not depend on the order of the assertions; for
\* any number of assertions and any reliabilities that were learned.
THEOREM ArbitrationHolds ==
  ASSUME NEW facts \in Seq(Asserting),
         NEW learned, \A x \in DOMAIN learned : learned[x] \in Nat
  PROVE  FactsAreArbitrated(facts, learned)
<1> DEFINE turned == Reverse(facts)
           a == Arbitrate(facts, learned)
           b == Arbitrate(turned, learned)
           heard == {i \in DOMAIN facts : facts[i].source # "model_memory"}
           heardTurned == {i \in DOMAIN turned : turned[i].source # "model_memory"}
           conf(i) == Confidence(facts[i].source, learned)
           confTurned(i) == Confidence(turned[i].source, learned)
           n == Len(facts)
           back(i) == (n - i) + 1
<1>1. /\ n \in Nat /\ DOMAIN facts = 1 .. n /\ DOMAIN turned = 1 .. n
      /\ \A i \in 1 .. n : back(i) \in 1 .. n /\ back(back(i)) = i /\ turned[i] = facts[back(i)]
  BY DEF Reverse
<1>2. turned \in Seq(Asserting)
  <2>1. \A i \in 1 .. n : facts[i] \in Asserting
    OBVIOUS
  <2>2. turned = [i \in 1 .. n |-> facts[back(i)]]
    BY DEF Reverse
  <2> HIDE DEF turned, back
  <2> QED BY <1>1, <2>1, <2>2
<1>3. /\ a.conflict \in BOOLEAN
      /\ a.win = 0 <=> heard = {}
      /\ a.win # 0 => a.win \in heard /\ \A j \in heard : conf(j) <= conf(a.win)
      /\ a.conflict <=> a.win # 0 /\ \E i \in heard : facts[i].value # facts[a.win].value
                                                      /\ conf(i) >= 6
  BY Arbitrated
<1>4. /\ b.conflict \in BOOLEAN
      /\ b.win = 0 <=> heardTurned = {}
      /\ b.win # 0 => b.win \in heardTurned /\ \A j \in heardTurned : confTurned(j) <= confTurned(b.win)
      /\ b.conflict <=> b.win # 0 /\ \E i \in heardTurned : turned[i].value # turned[b.win].value
                                                            /\ confTurned(i) >= 6
  <2> HIDE DEF turned
  <2> QED BY <1>2, Arbitrated
<1>5. \A i \in heard : back(i) \in heardTurned /\ turned[back(i)] = facts[i]
                       /\ confTurned(back(i)) = conf(i)
  <2> HIDE DEF turned, back
  <2> QED BY <1>1
<1>6. \A i \in heardTurned : back(i) \in heard /\ facts[back(i)] = turned[i]
                             /\ conf(back(i)) = confTurned(i)
  <2> HIDE DEF turned, back
  <2> QED BY <1>1
<1>7. \A i \in heard : conf(i) \in Nat
  <2>1. \A i \in heard : facts[i].source \in DOMAIN Base
    <3>1. \A i \in DOMAIN facts : facts[i] \in Asserting
      OBVIOUS
    <3> QED BY <3>1 DEF Asserting
  <2> HIDE DEF heard
  <2> QED BY <2>1, ConfidenceIsNat
<1> HIDE DEF turned, a, b, heard, heardTurned, conf, confTurned, back, n
<1>8. ASSUME a.win # 0, conf(a.win) >= 6 PROVE a.conflict <=> b.conflict
  <2> DEFINE w == back(b.win)
  <2>1. a.win \in heard /\ back(a.win) \in heardTurned
    BY <1>3, <1>5, <1>8
  <2>2. b.win # 0 /\ b.win \in heardTurned /\ \A j \in heardTurned : confTurned(j) <= confTurned(b.win)
    BY <1>4, <2>1
  <2>3. w \in heard /\ facts[w] = turned[b.win] /\ conf(w) = confTurned(b.win)
    BY <1>6, <2>2
  <2>4. conf(w) >= 6
    <3>1. confTurned(back(a.win)) = conf(a.win) /\ confTurned(back(a.win)) <= conf(w)
      BY <1>5, <2>1, <2>2, <2>3
    <3>2. conf(w) \in Nat /\ conf(a.win) \in Nat
      BY <1>7, <2>1, <2>3
    <3> HIDE DEF w
    <3> QED BY <1>8, <3>1, <3>2
  <2> HIDE DEF w
  <2>5. ASSUME a.conflict PROVE b.conflict
    <3>1. PICK i \in heard : facts[i].value # facts[a.win].value /\ conf(i) >= 6
      BY <1>3, <2>5
    <3>2. CASE facts[w].value = facts[a.win].value
      <4>1. back(i) \in heardTurned /\ turned[back(i)].value # turned[b.win].value /\ confTurned(back(i)) >= 6
        BY <1>5, <2>3, <3>1, <3>2
      <4> QED BY <1>4, <2>2, <4>1
    <3>3. CASE facts[w].value # facts[a.win].value
      <4>1. /\ turned[back(a.win)].value # turned[b.win].value
            /\ confTurned(back(a.win)) >= 6
        BY <1>5, <1>8, <2>1, <2>3, <3>3
      <4> QED BY <1>4, <2>1, <2>2, <4>1
    <3> QED BY <3>2, <3>3
  <2>6. ASSUME b.conflict PROVE a.conflict
    <3>1. PICK i \in heardTurned : turned[i].value # turned[b.win].value /\ confTurned(i) >= 6
      BY <1>4, <2>6
    <3>2. back(i) \in heard /\ facts[back(i)].value # facts[w].value /\ conf(back(i)) >= 6
      BY <1>6, <2>3, <3>1
    <3>3. CASE facts[w].value = facts[a.win].value
      BY <1>3, <1>8, <3>2, <3>3
    <3>4. CASE facts[w].value # facts[a.win].value
      BY <1>3, <1>8, <2>3, <2>4, <3>4
    <3> QED BY <3>3, <3>4
  <2> QED BY <1>3, <1>4, <2>5, <2>6
<1>9. /\ a.win # 0 => facts[a.win].source # "model_memory"
      /\ a.win = 0 => \A i \in DOMAIN facts : facts[i].source = "model_memory"
  BY <1>3 DEF heard
<1>10. a.win # 0 /\ ~a.conflict => \A i \in DOMAIN facts :
         facts[i].value # facts[a.win].value => conf(i) < 6
  <2> SUFFICES ASSUME a.win # 0, ~a.conflict, NEW i \in DOMAIN facts,
                      facts[i].value # facts[a.win].value
               PROVE  conf(i) < 6
    OBVIOUS
  <2>1. CASE i \in heard
    <3>1. ~ (conf(i) >= 6)
      BY <1>3, <2>1
    <3> QED BY <1>7, <2>1, <3>1
  <2>2. CASE i \notin heard
    <3>1. conf(i) = 0
      BY <2>2 DEF heard, conf, Confidence
    <3> QED BY <3>1
  <2> QED BY <2>1, <2>2
<1>11. a.win # 0 /\ conf(a.win) >= 6 => a.conflict = b.conflict
  <2>1. a.conflict \in BOOLEAN /\ b.conflict \in BOOLEAN
    BY <1>3, <1>4
  <2>2. ASSUME NEW x \in BOOLEAN, NEW y \in BOOLEAN, x <=> y PROVE x = y
    BY <2>2
  <2> QED BY <1>8, <2>1, <2>2
<1> QED BY <1>9, <1>10, <1>11 DEF FactsAreArbitrated, a, b, conf, turned
-----------------------------------------------------------------------------
\* A campaign's rows, with the figures a board can print.
Rowed == [ok : BOOLEAN, latency : Int, fps : Int, energy : Int, power : Int, accuracy : Int]
Limited == [power : Int, fps : Int, latency : Int, accuracy : Int]

\* The winner of a selection met every limit that was set with figures that were
\* taken, and no candidate that does too is faster (model_selector.py); for any
\* number of candidates and any limits.
THEOREM WinnersMeetTheirLimits ==
  ASSUME NEW rows \in Seq(Rowed), NEW limit \in Limited
  PROVE  WinnerMeetsLimits(rows, limit)
<1> DEFINE w == SelectWinner(rows, limit)
           n == Len(rows)
           within(i) == /\ rows[i].ok
                        /\ \A k \in DOMAIN limit : limit[k] # NoFigure => rows[i][k] # NoFigure
                        /\ \A k \in AtMost : limit[k] # NoFigure => rows[i][k] <= limit[k]
                        /\ \A k \in AtLeastK : limit[k] # NoFigure => rows[i][k] >= limit[k]
           meeting == {i \in DOMAIN rows : Meets(rows[i], limit)}
           f == [i \in meeting |-> Fps(rows[i])]
           most == {i \in meeting : \A j \in meeting : f[j] <= f[i]}
<1>1. /\ n \in Nat /\ DOMAIN rows = 1 .. n /\ meeting \subseteq 1 .. n
      /\ \A i \in 1 .. n : rows[i] \in Rowed
  OBVIOUS
<1>2. ASSUME NEW i \in 1 .. n PROVE Meets(rows[i], limit) <=> within(i)
  <2>1. rows[i] \in Rowed
    BY <1>1
  <2>2. DOMAIN limit = AtMost \cup AtLeastK /\ \A k \in AtMost \cup AtLeastK : limit[k] \in Int
    BY DEF Limited, AtMost, AtLeastK
  <2>3. \A k \in AtMost \cup AtLeastK : rows[i][k] \in Int
    BY <2>1 DEF Rowed, AtMost, AtLeastK
  <2>4. AtMost \cap AtLeastK = {}
    BY DEF AtMost, AtLeastK
  <2> QED BY <2>2, <2>3, <2>4 DEF Meets, Violations
<1>3. ASSUME NEW i \in 1 .. n PROVE Fps(rows[i]) \in Int /\ rows[i].fps \in Int
                                    /\ (rows[i].fps <= Fps(rows[i]))
  <2>1. rows[i].fps \in Int
    <3>1. rows[i] \in Rowed
      BY <1>1
    <3> QED BY <3>1 DEF Rowed
  <2>2. Fps(rows[i]) = IF rows[i].fps = NoFigure THEN 0 ELSE rows[i].fps
    BY DEF Fps
  <2> QED BY <2>1, <2>2 DEF NoFigure
<1>4. w = IF meeting = {} THEN 0 ELSE First(most)
  BY DEF SelectWinner, Best
<1>5. CASE meeting = {}
  <2>1. \A i \in DOMAIN rows : ~within(i)
    <3> HIDE DEF within
    <3> QED BY <1>1, <1>2, <1>5
  <2>2. w = 0
    BY <1>4, <1>5
  <2> HIDE DEF w, meeting
  <2> QED BY <2>1, <2>2 DEF WinnerMeetsLimits, w
<1>6. CASE meeting # {}
  <2>1. \A i \in meeting : f[i] = Fps(rows[i]) /\ f[i] \in Int
    <3> HIDE DEF meeting, n
    <3> QED BY <1>1, <1>3
  <2>2. First(most) \in meeting /\ \A j \in meeting : f[j] <= f[First(most)]
    <3> HIDE DEF meeting, n, f
    <3> QED BY <1>1, <1>6, <2>1, FirstOfBest
  <2>3. w = First(most)
    BY <1>4, <1>6
  <2> HIDE DEF most, f
  <2>4. w \in meeting /\ \A j \in meeting : Fps(rows[j]) <= Fps(rows[w])
    <3> HIDE DEF meeting, w
    <3> QED BY <2>1, <2>2, <2>3
  <2>5. w \in 1 .. n /\ within(w) /\ w # 0
    <3>1. w \in 1 .. n /\ Meets(rows[w], limit)
      BY <1>1, <2>4
    <3> HIDE DEF within, w, meeting
    <3> QED BY <1>1, <1>2, <3>1
  <2>6. \A i \in DOMAIN rows : within(i) => rows[i].fps <= Fps(rows[w])
    <3> SUFFICES ASSUME NEW i \in 1 .. n, within(i) PROVE rows[i].fps <= Fps(rows[w])
      BY <1>1
    <3>1. i \in meeting
      <4> HIDE DEF within
      <4> QED BY <1>1, <1>2
    <3>2. Fps(rows[i]) <= Fps(rows[w]) /\ Fps(rows[w]) \in Int
      <4> HIDE DEF meeting, w, n
      <4> QED BY <1>3, <2>4, <2>5, <3>1
    <3> HIDE DEF w
    <3> QED BY <1>3, <3>2
  <2>7. ~ (\A i \in DOMAIN rows : ~within(i))
    <3> HIDE DEF within, w
    <3> QED BY <1>1, <2>5
  <2> HIDE DEF meeting
  <2> QED BY <2>5, <2>6, <2>7 DEF WinnerMeetsLimits, w
<1> QED BY <1>5, <1>6
\* Of configs that report the same figures, to dominate is a partial order that
\* adds up: the dominating one has the greater sum of gains.
Alike(rows) == \A i, j \in TimedRows(rows) : \A k \in {"energy", "accuracy"} :
                 rows[i][k] = NoFigure <=> rows[j][k] = NoFigure
Figure(b, k) == IF b[k] = NoFigure THEN 0 ELSE b[k]
Worth(b) == Figure(b, "accuracy") - b.latency - Figure(b, "energy")

LEMMA DominatesAsAnOrder ==
  ASSUME NEW rows \in Seq(Rowed), Alike(rows),
         NEW i \in TimedRows(rows), NEW j \in TimedRows(rows), NEW k \in TimedRows(rows)
  PROVE  /\ Worth(rows[i]) \in Int
         /\ Dominates(rows[j], rows[i]) =>
              Worth(rows[i]) < Worth(rows[j]) /\ rows[j].latency <= rows[i].latency
         /\ Dominates(rows[k], rows[j]) /\ Dominates(rows[j], rows[i]) => Dominates(rows[k], rows[i])
<1> DEFINE x == rows[i] y == rows[j] z == rows[k]
           E == x.energy # NoFigure
           A == x.accuracy # NoFigure
<1>1. /\ x \in Rowed /\ y \in Rowed /\ z \in Rowed
      /\ x.latency # NoFigure /\ y.latency # NoFigure /\ z.latency # NoFigure
  BY DEF TimedRows
<1>2. /\ E <=> y.energy # NoFigure
      /\ E <=> z.energy # NoFigure
      /\ A <=> y.accuracy # NoFigure
      /\ A <=> z.accuracy # NoFigure
  <2>1. ASSUME NEW a \in TimedRows(rows), NEW b \in TimedRows(rows)
        PROVE  /\ rows[a].energy # NoFigure <=> rows[b].energy # NoFigure
               /\ rows[a].accuracy # NoFigure <=> rows[b].accuracy # NoFigure
    BY DEF Alike
  <2> QED BY <2>1
<1> HIDE DEF x, y, z, E, A
<1>3. ASSUME NEW a \in Rowed, NEW b \in Rowed, a.latency # NoFigure, b.latency # NoFigure,
             E <=> a.energy # NoFigure, E <=> b.energy # NoFigure,
             A <=> a.accuracy # NoFigure, A <=> b.accuracy # NoFigure
      PROVE  Dominates(a, b) <=>
               /\ a.latency <= b.latency
               /\ E => a.energy <= b.energy
               /\ A => a.accuracy >= b.accuracy
               /\ \/ a.latency < b.latency
                  \/ E /\ a.energy < b.energy
                  \/ A /\ a.accuracy > b.accuracy
  <2>1. /\ a.latency \in Int /\ b.latency \in Int /\ a.energy \in Int /\ b.energy \in Int
        /\ a.accuracy \in Int /\ b.accuracy \in Int
    BY DEF Rowed
  <2>2. Shared(a, b) = {"latency"} \cup (IF E THEN {"energy"} ELSE {}) \cup (IF A THEN {"accuracy"} ELSE {})
    BY <1>3 DEF Shared
  <2>3. /\ Gain(a, b, "latency") = b.latency - a.latency
        /\ Gain(a, b, "energy") = b.energy - a.energy
        /\ Gain(a, b, "accuracy") = a.accuracy - b.accuracy
    BY DEF Gain
  <2>4. "latency" \in Shared(a, b)
    BY <2>2
  <2>5. (\A g \in Shared(a, b) : Gain(a, b, g) >= 0) <=>
          /\ Gain(a, b, "latency") >= 0
          /\ E => Gain(a, b, "energy") >= 0
          /\ A => Gain(a, b, "accuracy") >= 0
    BY <2>2
  <2>6. (\E g \in Shared(a, b) : Gain(a, b, g) > 0) <=>
          \/ Gain(a, b, "latency") > 0
          \/ E /\ Gain(a, b, "energy") > 0
          \/ A /\ Gain(a, b, "accuracy") > 0
    BY <2>2
  <2>7. /\ Gain(a, b, "latency") >= 0 <=> a.latency <= b.latency
        /\ Gain(a, b, "latency") > 0 <=> a.latency < b.latency
    BY <2>1, <2>3
  <2>8. /\ Gain(a, b, "energy") >= 0 <=> a.energy <= b.energy
        /\ Gain(a, b, "energy") > 0 <=> a.energy < b.energy
    BY <2>1, <2>3
  <2>9. /\ Gain(a, b, "accuracy") >= 0 <=> a.accuracy >= b.accuracy
        /\ Gain(a, b, "accuracy") > 0 <=> a.accuracy > b.accuracy
    BY <2>1, <2>3
  <2>10. Dominates(a, b) <=> /\ \A g \in Shared(a, b) : Gain(a, b, g) >= 0
                             /\ \E g \in Shared(a, b) : Gain(a, b, g) > 0
    BY <2>4, Zenon DEF Dominates
  <2> QED BY <2>5, <2>6, <2>7, <2>8, <2>9, <2>10
<1>4. ASSUME NEW a \in Rowed, E <=> a.energy # NoFigure, A <=> a.accuracy # NoFigure
      PROVE  /\ Worth(a) = (IF A THEN a.accuracy ELSE 0) - a.latency - (IF E THEN a.energy ELSE 0)
             /\ a.latency \in Int /\ a.energy \in Int /\ a.accuracy \in Int
  BY <1>4 DEF Rowed, Worth, Figure
<1>5. /\ E <=> x.energy # NoFigure
      /\ A <=> x.accuracy # NoFigure
  BY DEF E, A
<1>6. Dominates(y, x) => Worth(x) < Worth(y) /\ y.latency <= x.latency
  <2>1. Dominates(y, x) <=>
               /\ y.latency <= x.latency
               /\ E => y.energy <= x.energy
               /\ A => y.accuracy >= x.accuracy
               /\ \/ y.latency < x.latency
                  \/ E /\ y.energy < x.energy
                  \/ A /\ y.accuracy > x.accuracy
    BY <1>1, <1>2, <1>3, <1>5
  <2>2. /\ Worth(x) = (IF A THEN x.accuracy ELSE 0) - x.latency - (IF E THEN x.energy ELSE 0)
        /\ Worth(y) = (IF A THEN y.accuracy ELSE 0) - y.latency - (IF E THEN y.energy ELSE 0)
    BY <1>1, <1>2, <1>4, <1>5
  <2>3. /\ x.latency \in Int /\ x.energy \in Int /\ x.accuracy \in Int
        /\ y.latency \in Int /\ y.energy \in Int /\ y.accuracy \in Int
    BY <1>1 DEF Rowed
  <2>4. ASSUME Dominates(y, x) PROVE Worth(x) < Worth(y) /\ y.latency <= x.latency
    <3>1. CASE E /\ A
      BY <2>1, <2>2, <2>3, <2>4, <3>1
    <3>2. CASE E /\ ~A
      BY <2>1, <2>2, <2>3, <2>4, <3>2, SMTT(30)
    <3>3. CASE ~E /\ A
      BY <2>1, <2>2, <2>3, <2>4, <3>3
    <3>4. CASE ~E /\ ~A
      BY <2>1, <2>2, <2>3, <2>4, <3>4
    <3> QED BY <3>1, <3>2, <3>3, <3>4
  <2> QED BY <2>4
<1>7. Dominates(z, y) /\ Dominates(y, x) => Dominates(z, x)
  <2>1. /\ Dominates(y, x) <=>
               /\ y.latency <= x.latency
               /\ E => y.energy <= x.energy
               /\ A => y.accuracy >= x.accuracy
               /\ \/ y.latency < x.latency
                  \/ E /\ y.energy < x.energy
                  \/ A /\ y.accuracy > x.accuracy
        /\ Dominates(z, y) <=>
               /\ z.latency <= y.latency
               /\ E => z.energy <= y.energy
               /\ A => z.accuracy >= y.accuracy
               /\ \/ z.latency < y.latency
                  \/ E /\ z.energy < y.energy
                  \/ A /\ z.accuracy > y.accuracy
        /\ Dominates(z, x) <=>
               /\ z.latency <= x.latency
               /\ E => z.energy <= x.energy
               /\ A => z.accuracy >= x.accuracy
               /\ \/ z.latency < x.latency
                  \/ E /\ z.energy < x.energy
                  \/ A /\ z.accuracy > x.accuracy
    BY <1>1, <1>2, <1>3, <1>5
  <2>2. /\ x.latency \in Int /\ x.energy \in Int /\ x.accuracy \in Int
        /\ y.latency \in Int /\ y.energy \in Int /\ y.accuracy \in Int
        /\ z.latency \in Int /\ z.energy \in Int /\ z.accuracy \in Int
    BY <1>1 DEF Rowed
  <2>3. ASSUME Dominates(z, y), Dominates(y, x) PROVE Dominates(z, x)
    <3>1. z.latency <= x.latency
      BY <2>1, <2>2, <2>3
    <3>2. E => z.energy <= x.energy
      BY <2>1, <2>2, <2>3
    <3>3. A => z.accuracy >= x.accuracy
      BY <2>1, <2>2, <2>3
    <3>4. \/ z.latency < x.latency
          \/ E /\ z.energy < x.energy
          \/ A /\ z.accuracy > x.accuracy
      BY <2>1, <2>2, <2>3, SMTT(30)
    <3> QED BY <2>1, <3>1, <3>2, <3>3, <3>4
  <2> QED BY <2>3
<1>8. Worth(x) \in Int
  BY <1>1, <1>4, <1>5
<1> QED BY <1>6, <1>7, <1>8 DEF x, y, z

\* The frontier of a sweep (quant_sweep.py): one config is on it as soon as any
\* was timed, the others are dominated by one that is, and without limits the
\* fastest of all is picked; for any number of configs that report alike.
THEOREM FrontiersAreSound ==
  ASSUME NEW rows \in Seq(Rowed)
  PROVE  FrontierIsSound(rows)
<1> DEFINE n == Len(rows)
           timed == TimedRows(rows)
           front == Frontier(rows)
           unlimited == Limit(NoFigure, NoFigure, NoFigure, NoFigure)
<1>1. /\ n \in Nat /\ timed \subseteq 1 .. n /\ front \subseteq timed
      /\ \A i \in 1 .. n : rows[i] \in Rowed
  BY DEF TimedRows, Frontier
<1> SUFFICES ASSUME Alike(rows)
             PROVE  /\ timed # {} <=> front # {}
                    /\ \A i \in timed \ front : \E j \in front : Dominates(rows[j], rows[i])
                    /\ timed # {} =>
                         LET w == SelectBest(rows, unlimited) IN
                           \A i \in timed : rows[w].latency <= rows[i].latency
                    /\ Knee(rows) \in front \cup {0}
  BY Zenon DEF FrontierIsSound, Alike
<1>2. ASSUME NEW i \in timed \ front PROVE \E j \in front : Dominates(rows[j], rows[i])
  <2> DEFINE D == {j \in timed : Dominates(rows[j], rows[i])}
             f == [j \in D |-> Worth(rows[j])]
  <2>1. D # {} /\ D \subseteq 1 .. n
    BY <1>1 DEF Frontier
  <2>2. \A j \in D : f[j] = Worth(rows[j]) /\ f[j] \in Int
    BY DominatesAsAnOrder
  <2>3. PICK j \in D : \A k \in D : f[k] <= f[j]
    <3> HIDE DEF D, f, n
    <3> QED BY <1>1, <2>1, <2>2, HasGreatest
  <2>4. j \in timed /\ Dominates(rows[j], rows[i])
    OBVIOUS
  <2>5. ASSUME NEW k \in timed, Dominates(rows[k], rows[j]) PROVE FALSE
    <3>1. k \in D
      BY <2>4, <2>5, DominatesAsAnOrder
    <3>2. Worth(rows[j]) < Worth(rows[k]) /\ Worth(rows[j]) \in Int /\ Worth(rows[k]) \in Int
      BY <2>4, <2>5, DominatesAsAnOrder
    <3>3. Worth(rows[k]) <= Worth(rows[j])
      <4> HIDE DEF D, f
      <4> QED BY <2>2, <2>3, <3>1
    <3> QED BY <3>2, <3>3
  <2>6. j \in front
    BY <2>4, <2>5 DEF Frontier
  <2> QED BY <2>4, <2>6
<1>3. timed # {} <=> front # {}
  BY <1>1, <1>2
<1>4. ASSUME timed # {}, NEW i \in timed
      PROVE  rows[SelectBest(rows, unlimited)].latency <= rows[i].latency
  <2> DEFINE w == SelectBest(rows, unlimited)
             g == [j \in front |-> 0 - rows[j].latency]
             most == {j \in front : \A k \in front : g[k] <= g[j]}
             within == {j \in front : Violations(rows[j], unlimited) = {}}
  <2>1. within = front
    <3>1. \A k \in AtMost \cup AtLeastK : unlimited[k] = NoFigure
      BY DEF Limit, AtMost, AtLeastK
    <3> HIDE DEF unlimited, front
    <3> QED BY <3>1 DEF Violations
  <2>2. front # {} /\ front \subseteq 1 .. n
    BY <1>1, <1>3, <1>4
  <2>3. \A j \in timed : rows[j].latency \in Int
    <3>1. \A j \in timed : rows[j] \in Rowed
      BY <1>1
    <3> HIDE DEF timed
    <3> QED BY <3>1 DEF Rowed
  <2>4. \A j \in front : g[j] = 0 - rows[j].latency /\ g[j] \in Int
    <3> HIDE DEF front, timed
    <3> QED BY <1>1, <2>3
  <2>5. First(most) \in front /\ \A k \in front : g[k] <= g[First(most)]
    <3> HIDE DEF front, g, n
    <3> QED BY <1>1, <2>2, <2>4, FirstOfBest
  <2>6. w = First(most)
    <3>1. w = First({j \in within : \A k \in within : 0 - rows[k].latency <= 0 - rows[j].latency})
      BY <2>1, <2>2 DEF SelectBest, Best
    <3>2. most = {j \in front : \A k \in front : 0 - rows[k].latency <= 0 - rows[j].latency}
      <4> HIDE DEF front, g
      <4> QED BY <2>4
    <3> HIDE DEF w, within, most, front
    <3> QED BY <2>1, <3>1, <3>2
  <2> HIDE DEF w, most
  <2>7. w \in front /\ \A k \in front : rows[w].latency <= rows[k].latency
    <3>1. w \in front /\ \A k \in front : g[k] <= g[w]
      <4> HIDE DEF g, front
      <4> QED BY <2>5, <2>6
    <3> HIDE DEF g, front, timed
    <3> QED BY <1>1, <2>3, <2>4, <3>1
  <2>8. CASE i \in front
    <3> HIDE DEF front, timed
    <3> QED BY <2>7, <2>8 DEF w
  <2>9. CASE i \notin front
    <3>1. PICK j \in front : Dominates(rows[j], rows[i])
      <4> HIDE DEF front, timed
      <4> QED BY <1>2, <1>4, <2>9
    <3>2. rows[j].latency <= rows[i].latency
      BY <1>1, <3>1, DominatesAsAnOrder
    <3>3. rows[w].latency <= rows[j].latency /\ w \in timed /\ j \in timed
      <4> HIDE DEF front, timed
      <4> QED BY <1>1, <2>7
    <3> HIDE DEF front, timed
    <3> QED BY <2>3, <3>2, <3>3 DEF w
  <2> QED BY <2>8, <2>9
<1>5. Knee(rows) \in front \cup {0}
  <2> DEFINE eligible == {i \in front : rows[i].fps # NoFigure}
             rate(i) == (12 * rows[i].fps) \div (IF rows[i].power > 0 THEN rows[i].power ELSE 1)
             f == [i \in eligible |-> rate(i)]
             most == {i \in eligible : \A j \in eligible : f[j] <= f[i]}
  <2>1. Knee(rows) = IF eligible = {} THEN 0
                     ELSE First({i \in eligible : \A j \in eligible : rate(j) <= rate(i)})
    BY DEF Knee, Best
  <2>2. ASSUME NEW i \in eligible PROVE rate(i) \in Int /\ f[i] = rate(i)
    <3>1. rows[i] \in Rowed
      BY <1>1
    <3>2. rows[i].fps \in Int /\ rows[i].power \in Int
      BY <3>1 DEF Rowed
    <3>3. ASSUME NEW p \in Int, NEW q \in Int
          PROVE  (12 * p) \div (IF q > 0 THEN q ELSE 1) \in Int
      OBVIOUS
    <3>4. f[i] = rate(i)
      <4> HIDE DEF rate, eligible
      <4> QED OBVIOUS
    <3> QED BY <3>2, <3>3, <3>4
  <2>3. eligible \subseteq front
    OBVIOUS
  <2> HIDE DEF rate, eligible
  <2>4. most = {i \in eligible : \A j \in eligible : rate(j) <= rate(i)}
    <3> HIDE DEF f
    <3> QED BY <2>2
  <2>5. eligible # {} => First(most) \in eligible
    <3> HIDE DEF f, front, n
    <3>1. eligible \subseteq 1 .. n
      BY <1>1, <2>3
    <3> QED BY <1>1, <2>2, <3>1, FirstOfBest
  <2> HIDE DEF most, front
  <2> QED BY <2>1, <2>3, <2>4, <2>5
<1> QED BY <1>2, <1>3, <1>4, <1>5
-----------------------------------------------------------------------------
\* A review of a change passes only over goldens that all passed and whose
\* costs, where both runs have them, did not grow by half (pr_review.py,
\* schema.py); for any number of goldens and any figures.
THEOREM ReviewsAreHonest ==
  ASSUME NEW results,
         \A r \in results :
           /\ \A k \in Costs \cap DOMAIN r.metrics : r.metrics[k] \in Nat
           /\ r.baseline # NoBaseline =>
                \A k \in Costs \cap DOMAIN r.baseline.metrics : r.baseline.metrics[k] \in Nat
  PROVE  ReviewIsHonest(results)
<1> SUFFICES ASSUME ~ChangesRequested(results), NEW r \in results
             PROVE  /\ r.passed
                    /\ r.baseline # NoBaseline =>
                         \A k \in Costs \cap DOMAIN r.metrics \cap DOMAIN r.baseline.metrics :
                           r.baseline.metrics[k] > 0 => 2 * r.metrics[k] <= 3 * r.baseline.metrics[k]
  BY DEF ReviewIsHonest
<1>1. r.passed /\ DiffAgainst(r.baseline, r.passed, r.metrics) \subseteq {"no baseline"}
  BY DEF ChangesRequested
<1>2. ASSUME r.baseline # NoBaseline,
             NEW k \in Costs \cap DOMAIN r.metrics \cap DOMAIN r.baseline.metrics,
             r.baseline.metrics[k] > 0
      PROVE  2 * r.metrics[k] <= 3 * r.baseline.metrics[k]
  <2> DEFINE m == r.metrics[k]
             b == r.baseline.metrics[k]
  <2>1. m \in Nat /\ b \in Nat /\ b > 0
    BY <1>2
  <2>2. ~ (100 * (m - b) > 15 * b)
    <3>1. k # "no baseline"
      BY <1>2 DEF Costs
    <3>2. k \notin DiffAgainst(r.baseline, r.passed, r.metrics)
      BY <1>1, <3>1
    <3> QED BY <1>2, <3>2 DEF DiffAgainst
  <2> HIDE DEF m, b
  <2>3. 2 * m <= 3 * b
    BY <2>1, <2>2
  <2> QED BY <2>3 DEF m, b
<1> QED BY <1>1, <1>2

\* The slice a profile blames takes no less than the others together, and when
\* none is blamed, none does (nsight.py); for any times.
THEOREM BlameIsFairlyPut ==
  ASSUME NEW ns \in [1 .. 4 -> Nat]
  PROVE  BlameIsFair(ns)
<1> DEFINE sum == ns[1] + ns[2] + ns[3] + ns[4]
           longest == {i \in 1 .. 4 : \A j \in 1 .. 4 : ns[j] <= ns[i]}
           top == LeastOf(longest)
<1>1. /\ ns[1] \in Nat /\ ns[2] \in Nat /\ ns[3] \in Nat /\ ns[4] \in Nat
      /\ \A i \in 1 .. 4 : ns[i] \in Nat
  OBVIOUS
<1>2. top \in longest
  <2>1. longest # {} /\ longest \subseteq Nat
    <3>1. \E i \in 1 .. 4 : \A j \in 1 .. 4 : ns[j] <= ns[i]
      BY <1>1, HasGreatest
    <3> QED BY <3>1
  <2>2. \E x \in longest : \A y \in longest : x <= y
    <3> HIDE DEF longest
    <3> QED BY <2>1, LeastOfNats
  <2> HIDE DEF longest
  <2> QED BY <2>2 DEF LeastOf
<1>3. /\ Bottleneck(ns) = IF sum = 0 THEN "unknown" ELSE IF 2 * ns[top] >= sum THEN Slices[top] ELSE "balanced"
      /\ top \in 1 .. 4 /\ \A j \in 1 .. 4 : ns[j] <= ns[top]
  BY <1>2 DEF Bottleneck
<1> HIDE DEF top
<1>4. sum \in Nat /\ ns[top] \in Nat
  BY <1>1, <1>3
<1>5. /\ \A i \in 1 .. 4 : Slices[i] \notin {"unknown", "balanced"}
      /\ \A i, j \in 1 .. 4 : Slices[i] = Slices[j] => i = j
  BY DEF Slices
<1> HIDE DEF sum
<1>6. ASSUME NEW i \in 1 .. 4, Slices[i] = Bottleneck(ns) PROVE ns[i] >= sum - ns[i]
  <2>1. i = top /\ 2 * ns[top] >= sum
    BY <1>3, <1>5, <1>6
  <2> QED BY <1>4, <2>1
<1>7. ASSUME NEW i \in 1 .. 4, Bottleneck(ns) = "balanced" PROVE ns[i] < sum - ns[i]
  <2>1. ~ (2 * ns[top] >= sum)
    BY <1>3, <1>5, <1>7
  <2>2. ns[i] <= ns[top] /\ ns[i] \in Nat
    BY <1>1, <1>3
  <2> QED BY <1>4, <2>1, <2>2
<1> QED BY <1>6, <1>7 DEF BlameIsFair, sum
-----------------------------------------------------------------------------
Counts == [runs : Nat, passed : Nat, loops : Nat]

\* A skill's ablation (skill_lifecycle.py): a skill measured on one side only is
\* not decided on, none that lowers the pass rate is promoted, and one more pass
\* never costs a skill its standing; for any numbers of runs, passes and loops.
THEOREM SkillVerdictsAreEarned ==
  ASSUME NEW s \in [with : Counts, without : Counts]
  PROVE  SkillsEarnTheirPlace(s)
<1> DEFINE t == [s EXCEPT !.with.passed = @ + 1]
           w == s.with
           o == s.without
           lift == Cross(s, "passed")
           cells == Cells(s)
           cuts == CutsLoops(s)
<1>1. /\ w.runs \in Nat /\ w.passed \in Nat /\ w.loops \in Nat
      /\ o.runs \in Nat /\ o.passed \in Nat /\ o.loops \in Nat
  BY DEF Counts
<1>2. /\ t.without = o /\ t.with.runs = w.runs /\ t.with.loops = w.loops
      /\ t.with.passed = w.passed + 1
  BY DEF Counts
<1> HIDE DEF t, w, o
<1>3. lift \in Int /\ cells \in Nat /\ cuts \in BOOLEAN
  <2>1. /\ lift = w.passed * o.runs - o.passed * w.runs
        /\ cells = w.runs * o.runs
        /\ Cross(s, "loops") = w.loops * o.runs - o.loops * w.runs
    BY DEF Cross, Cells, w, o
  <2>2. \A x, y \in Nat : x * y \in Nat
    OBVIOUS
  <2>3. w.passed * o.runs \in Nat /\ o.passed * w.runs \in Nat /\ w.runs * o.runs \in Nat
    BY <1>1, <2>2
  <2>4. lift \in Int /\ cells \in Nat
    BY <2>1, <2>3
  <2> QED BY <2>4 DEF CutsLoops
<1>4. /\ Cross(t, "passed") = lift + o.runs /\ Cells(t) = cells
      /\ CutsLoops(t) = cuts
  <2>1. /\ Cross(t, "passed") = (w.passed + 1) * o.runs - o.passed * w.runs
        /\ lift = w.passed * o.runs - o.passed * w.runs
    BY <1>2 DEF Cross, w, o
  <2>2. (w.passed + 1) * o.runs = w.passed * o.runs + o.runs
    BY <1>1
  <2>3. w.passed * o.runs \in Int /\ o.passed * w.runs \in Int
    BY <1>1
  <2>4. Cross(t, "passed") = lift + o.runs
    BY <1>1, <2>1, <2>2, <2>3
  <2>5. Cells(t) = cells
    BY <1>2 DEF Cells, w, o
  <2>6. Cross(t, "loops") = Cross(s, "loops")
    BY <1>2 DEF Cross, w, o
  <2>7. CutsLoops(t) = cuts
    BY <2>5, <2>6 DEF CutsLoops
  <2> QED BY <2>4, <2>5, <2>7
<1>5. SkillVerdict(s) =
        IF w.runs < 4 \/ o.runs < 4 THEN "insufficient-data"
        ELSE IF 100 * lift >= 15 * cells \/ (lift >= 0 /\ cuts) THEN "promote"
        ELSE IF lift <= 0 /\ ~cuts THEN "retire" ELSE "keep"
  BY DEF SkillVerdict, w, o
<1>6. SkillVerdict(t) =
        IF w.runs < 4 \/ o.runs < 4 THEN "insufficient-data"
        ELSE IF 100 * (lift + o.runs) >= 15 * cells \/ (lift + o.runs >= 0 /\ cuts) THEN "promote"
        ELSE IF lift + o.runs <= 0 /\ ~cuts THEN "retire" ELSE "keep"
  BY <1>2, <1>4 DEF SkillVerdict
<1> HIDE DEF lift, cells, cuts
<1>7. 0 \in {w.runs, o.runs} => SkillVerdict(s) = "insufficient-data"
  BY <1>1, <1>5
<1>8. SkillVerdict(s) = "promote" => lift >= 0
  BY <1>3, <1>5
<1>9. SkillVerdict(s) \in DOMAIN Standing => Standing[SkillVerdict(t)] >= Standing[SkillVerdict(s)]
  <2>1. /\ DOMAIN Standing = {"retire", "keep", "promote"}
        /\ Standing["retire"] = 0 /\ Standing["keep"] = 1 /\ Standing["promote"] = 2
    BY DEF Standing
  <2>2. CASE w.runs < 4 \/ o.runs < 4
    BY <1>5, <2>1, <2>2
  <2>3. CASE ~ (w.runs < 4 \/ o.runs < 4)
    <3>1. SkillVerdict(s) = "promote" => SkillVerdict(t) = "promote"
      BY <1>1, <1>3, <1>5, <1>6, <2>3
    <3>2. SkillVerdict(s) = "keep" => SkillVerdict(t) \in {"keep", "promote"}
      BY <1>1, <1>3, <1>5, <1>6, <2>3
    <3>3. SkillVerdict(t) \in {"retire", "keep", "promote"}
      BY <1>6, <2>3
    <3> QED BY <2>1, <3>1, <3>2, <3>3
  <2> QED BY <2>2, <2>3
<1> QED BY <1>7, <1>8, <1>9 DEF SkillsEarnTheirPlace, t, w, o, lift
-----------------------------------------------------------------------------
\* One sequence after another.
LEMMA Joined ==
  ASSUME NEW S, NEW a \in Seq(S), NEW b \in Seq(S)
  PROVE  /\ a \o b \in Seq(S) /\ Len(a \o b) = Len(a) + Len(b)
         /\ \A k \in 1 .. Len(a) : (a \o b)[k] = a[k]
         /\ \A k \in 1 .. Len(b) : (a \o b)[Len(a) + k] = b[k]
OBVIOUS

LEMMA SameSequence ==
  ASSUME NEW S, NEW a \in Seq(S), NEW b \in Seq(S), Len(a) = Len(b),
         \A i \in 1 .. Len(a) : a[i] = b[i]
  PROVE  a = b
OBVIOUS

LEMMA JoinedByOne ==
  ASSUME NEW S, NEW x \in S, NEW y \in S, NEW z \in S
  PROVE  /\ <<x>> \o <<y>> = <<x, y>> /\ <<x, y>> \o <<z>> = <<x, y, z>>
         /\ <<x>> \o <<>> = <<x>> /\ <<>> \o <<x>> = <<x>> /\ <<>> \o <<>> = <<>>
<1>1. /\ <<x>> \in Seq(S) /\ Len(<<x>>) = 1 /\ <<x>>[1] = x
      /\ <<y>> \in Seq(S) /\ Len(<<y>>) = 1 /\ <<y>>[1] = y
      /\ <<z>> \in Seq(S) /\ Len(<<z>>) = 1 /\ <<z>>[1] = z
  OBVIOUS
<1>8. <<x, y>> \in Seq(S) /\ Len(<<x, y>>) = 2 /\ <<x, y>>[1] = x /\ <<x, y>>[2] = y
  OBVIOUS
<1>9. /\ <<x, y, z>> \in Seq(S) /\ Len(<<x, y, z>>) = 3
      /\ <<x, y, z>>[1] = x /\ <<x, y, z>>[2] = y /\ <<x, y, z>>[3] = z
  BY SMTT(30)
<1>2. ASSUME NEW a \in Seq(S), NEW b \in Seq(S), NEW c \in Seq(S),
             Len(a) = 1, Len(b) = 1, Len(c) = 2, c[1] = a[1], c[2] = b[1]
      PROVE  a \o b = c
  <2>1. a \o b \in Seq(S) /\ Len(a \o b) = 2 /\ (a \o b)[1] = a[1] /\ (a \o b)[2] = b[1]
    BY <1>2, Joined, SMTT(30)
  <2>2. \A d \in Seq(S) : Len(d) = 2 /\ d[1] = c[1] /\ d[2] = c[2] => d = c
    BY <1>2
  <2> QED BY <1>2, <2>1, <2>2
<1>7. ASSUME NEW a \in Seq(S), NEW b \in Seq(S), NEW c \in Seq(S),
             Len(a) = 2, Len(b) = 1, Len(c) = 3, c[1] = a[1], c[2] = a[2], c[3] = b[1]
      PROVE  a \o b = c
  <2>1. /\ a \o b \in Seq(S) /\ Len(a \o b) = Len(a) + Len(b)
        /\ \A k \in 1 .. Len(a) : (a \o b)[k] = a[k]
        /\ \A k \in 1 .. Len(b) : (a \o b)[Len(a) + k] = b[k]
    OBVIOUS
  <2> DEFINE ab == a \o b
  <2>3. ab \in Seq(S) /\ Len(ab) = 3 /\ ab[1] = a[1] /\ ab[2] = a[2] /\ ab[3] = b[1]
    <3>1. /\ ab \in Seq(S) /\ Len(ab) = Len(a) + Len(b)
          /\ \A k \in 1 .. Len(a) : ab[k] = a[k]
          /\ \A k \in 1 .. Len(b) : ab[Len(a) + k] = b[k]
      BY <2>1
    <3> HIDE DEF ab
    <3>2. 1 \in 1 .. Len(a) /\ 2 \in 1 .. Len(a) /\ 1 \in 1 .. Len(b)
      BY <1>7
    <3> QED BY <1>7, <3>1, <3>2
  <2>2. \A d \in Seq(S) : Len(d) = 3 /\ d[1] = c[1] /\ d[2] = c[2] /\ d[3] = c[3] => d = c
    BY <1>7
  <2> HIDE DEF ab
  <2>4. ab = c
    BY <1>7, <2>2, <2>3
  <2> QED BY <2>4 DEF ab
<1>3. \A s \in Seq(S) : s \o <<>> = s /\ <<>> \o s = s
  OBVIOUS
<1>4. ASSUME NEW a, NEW b, NEW c, a = <<x>>, b = <<y>>, c = <<x, y>>
      PROVE  a \o b = c
  <2>1. /\ a \in Seq(S) /\ b \in Seq(S) /\ c \in Seq(S)
        /\ Len(a) = 1 /\ Len(b) = 1 /\ Len(c) = 2 /\ c[1] = a[1] /\ c[2] = b[1]
    BY <1>1, <1>8, <1>9, <1>4
  <2> QED BY <1>2, <2>1
<1>5. ASSUME NEW a, NEW b, NEW c, a = <<x, y>>, b = <<z>>, c = <<x, y, z>>
      PROVE  a \o b = c
  <2>1. /\ a \in Seq(S) /\ b \in Seq(S) /\ c \in Seq(S) /\ Len(a) = 2 /\ Len(b) = 1 /\ Len(c) = 3
        /\ c[1] = a[1] /\ c[2] = a[2] /\ c[3] = b[1]
    BY <1>1, <1>8, <1>9, <1>5
  <2> QED BY <1>7, <2>1
<1>6. <<>> \in Seq(S)
  OBVIOUS
<1> QED BY <1>1, <1>8, <1>9, <1>3, <1>4, <1>5, <1>6

\* A replan meets a grave failure with evidence first and takes a fix from the
\* corpus only if it holds one, a pre-mortem warns of a stack only if that is
\* verified to fail (core/reflexion.py, knowledge/premortem.py); whatever the corpus holds.
THEOREM AdviceHolds ==
  ASSUME NEW S, NEW tag, NEW tuples \in Seq(S), NEW status
  PROVE  AdviceIsGrounded(tag, tuples, status)
<1> DEFINE plan == Replan(tag, tuples)
<1>1. \A x, y, z \in {"evidence", "corpus", "advice"} :
        /\ <<x>> \o <<y>> = <<x, y>> /\ <<x, y>> \o <<z>> = <<x, y, z>>
        /\ <<x>> \o <<>> = <<x>> /\ <<>> \o <<x>> = <<x>> /\ <<>> \o <<>> = <<>>
  BY JoinedByOne
<1>2. /\ tag \in Grave /\ tuples # <<>> => plan = <<"evidence", "corpus", "advice">>
      /\ tag \in Grave /\ tuples = <<>> => plan = <<"evidence", "advice">>
      /\ tag \notin Grave /\ tuples # <<>> => plan = <<"corpus", "advice">>
      /\ tag \notin Grave /\ tuples = <<>> => plan = <<"advice">>
  BY <1>1, Zenon DEF Replan
<1>3. status # "verified_fail" => Premortem(tuples, status) = tuples
  BY DEF Premortem
<1>4. /\ tag \in Grave <=> Head(plan) = "evidence"
      /\ tuples = <<>> => "corpus" \notin ToSet(plan)
      /\ Last(plan) = "advice"
  <2>1. /\ Head(<<"evidence", "corpus", "advice">>) = "evidence"
        /\ Head(<<"evidence", "advice">>) = "evidence"
        /\ Head(<<"corpus", "advice">>) = "corpus" /\ Head(<<"advice">>) = "advice"
    OBVIOUS
  <2>2. /\ Last(<<"evidence", "corpus", "advice">>) = "advice"
        /\ Last(<<"evidence", "advice">>) = "advice"
        /\ Last(<<"corpus", "advice">>) = "advice" /\ Last(<<"advice">>) = "advice"
    BY DEF Last
  <2>3. ASSUME NEW p \in {<<"evidence", "advice">>, <<"advice">>}
        PROVE  "corpus" \notin ToSet(p)
    BY DEF ToSet
  <2> HIDE DEF plan
  <2> QED BY <1>2, <2>1, <2>2, <2>3
<1> HIDE DEF plan
<1> QED BY <1>3, <1>4 DEF AdviceIsGrounded, plan

\* What a search is stripped down to has provenance.
LEMMA StrippedChunks ==
  ASSUME NEW C, \A c \in C : c.provenance \in BOOLEAN, NEW s \in Seq(C)
  PROVE  Stripped(s) \in Seq({c \in C : Grounded(c)})
<1> DEFINE N == Len(s)
           S == Seq({c \in C : Grounded(c)})
           step == [p \in (1 .. N) \X S |-> IF Grounded(s[p[1]]) THEN Append(p[2], s[p[1]]) ELSE p[2]]
           Eq(g) == g = [T \in SUBSET (1 .. N) |-> IF T = {} THEN <<>> ELSE IF Grounded(s[Max(T)]) THEN Append(g[T \ {Max(T)}], s[Max(T)]) ELSE g[T \ {Max(T)}]]
           iter == CHOOSE g : Eq(g)
<1>1. N \in Nat /\ DOMAIN s = 1 .. N /\ \A i \in 1 .. N : s[i] \in C
  OBVIOUS
<1>2. Stepped(N, S, <<>>, step)
  <2>1. ASSUME NEW p \in (1 .. N) \X S PROVE step[p] \in S
    <3>1. s[p[1]] \in C /\ p[2] \in S
      BY <1>1
    <3>2. Grounded(s[p[1]]) => Append(p[2], s[p[1]]) \in S
      <4> DEFINE G == {c \in C : Grounded(c)}
      <4>1. S = Seq(G) /\ (Grounded(s[p[1]]) => s[p[1]] \in G)
        BY <3>1
      <4> HIDE DEF G, S
      <4> QED BY <3>1, <4>1
    <3> HIDE DEF N, S
    <3> QED BY <3>1, <3>2
  <2>2. <<>> \in S
    OBVIOUS
  <2> HIDE DEF S, N
  <2> QED BY <2>1, <2>2 DEF Stepped
<1>3. PICK g : IsFold(N, S, <<>>, step, g)
  <2> HIDE DEF step, N, S
  <2> QED BY <1>1, <1>2, FoldExists
<1>4. ASSUME NEW T \in SUBSET (1 .. N), T # {}, Max(T) \in T, NEW h, h[T \ {Max(T)}] \in S
      PROVE  step[<<Max(T), h[T \ {Max(T)}]>>] = IF Grounded(s[Max(T)]) THEN Append(h[T \ {Max(T)}], s[Max(T)]) ELSE h[T \ {Max(T)}]
  <2> HIDE DEF N, S
  <2> QED BY <1>4
<1>5. Eq(g)
  <2> HIDE DEF N, S, step
  <2> QED BY <1>3, <1>4 DEF IsFold
<1>6. Eq(iter)
  <2> HIDE DEF Eq
  <2> QED BY <1>5
<1>7. RunsTo(N, S, <<>>, step, iter[1 .. N])
  <2> HIDE DEF N, S, step, iter
  <2>1. iter[{}] = <<>>
    BY <1>6
  <2>2. ASSUME NEW i \in 1 .. N, iter[(1 .. i) \ {Max(1 .. i)}] \in S
        PROVE  iter[1 .. i] = step[<<Max(1 .. i), iter[(1 .. i) \ {Max(1 .. i)}]>>]
    <3> DEFINE D == 1 .. i
    <3>1. D \in SUBSET (1 .. N) /\ D # {} /\ Max(D) \in D
      BY <1>1, Places
    <3> HIDE DEF D
    <3>2. iter[D] = IF Grounded(s[Max(D)]) THEN Append(iter[D \ {Max(D)}], s[Max(D)]) ELSE iter[D \ {Max(D)}]
      BY <1>6, <3>1
    <3>3. iter[D \ {Max(D)}] \in S
      BY <2>2 DEF D
    <3>4. iter[D] = step[<<Max(D), iter[D \ {Max(D)}]>>]
      BY <1>4, <3>1, <3>2, <3>3
    <3> QED BY <3>4 DEF D
  <2> QED BY <1>1, <1>2, <2>1, <2>2, FoldIsRun, ZenonT(30)
<1>8. Stripped(s) = iter[1 .. N]
  BY <1>1 DEF Stripped, FoldLeft, MapThenFoldSet
<1> HIDE DEF step, iter, N, S
<1>9. Stripped(s) \in S
  BY <1>1, <1>7, <1>8 DEF RunsTo
<1> QED BY <1>9 DEF S

\* A search is shown without the chunks that lack provenance, and is called
\* unknown exactly when none is left (fact_guard.py), for any number of them.
THEOREM GroundsAreKept ==
  ASSUME NEW C, \A c \in C : c.provenance \in BOOLEAN,
         NEW result \in [shape : {"chunks", "chunk"}, unknown : BOOLEAN, chunks : Seq(C)]
  PROVE  GuardKeepsGrounds(result)
<1> DEFINE kept == Stripped(result.chunks)
           r == Guarded(result)
<1>1. kept \in Seq({c \in C : Grounded(c)})
  BY StrippedChunks
<1>2. \A c \in ToSet(kept) : Grounded(c)
  BY <1>1 DEF ToSet
<1>3. \/ r = result /\ (result.shape = "chunks" => \A c \in ToSet(result.chunks) : Grounded(c))
      \/ r = [result EXCEPT !.chunks = kept, !.unknown = kept = <<>>]
  BY DEF Guarded
<1>4. CASE r = result /\ (result.shape = "chunks" => \A c \in ToSet(result.chunks) : Grounded(c))
  <2> HIDE DEF r
  <2> QED BY <1>4 DEF GuardKeepsGrounds, r
<1>5. CASE r = [result EXCEPT !.chunks = kept, !.unknown = kept = <<>>]
  <2>1. r.chunks = kept /\ (r.unknown <=> kept = <<>>)
    <3> HIDE DEF r, kept
    <3> QED BY <1>5
  <2> HIDE DEF r, kept
  <2> QED BY <1>2, <2>1 DEF GuardKeepsGrounds, r
<1> QED BY <1>3, <1>4, <1>5

\* An upgrade that moves one component and is called safe leads to a stack that
\* is verified to pass (products.py), whatever else the stack holds.
THEOREM UpgradesAreVerified ==
  ASSUME NEW K, NEW V, NEW keys \in SUBSET K, NEW moves \in SUBSET K, IsFiniteSet(moves),
         NEW current \in [keys -> V], NEW proposed \in [moves -> V], NEW matrix
  PROVE  UpgradeIsVerified(matrix, current, proposed)
<1> DEFINE moved == Moved(current, proposed)
           target == Overlaid(current, proposed)
           impacts == Impacts(matrix, current, proposed)
<1>1. SUFFICES ASSUME Safe(impacts), Cardinality(DOMAIN impacts) <= 1
               PROVE  target = current \/ Status(matrix, target) = "verified_pass"
  BY DEF UpgradeIsVerified
<1>2. DOMAIN impacts = moved /\ moved \subseteq moves /\ IsFiniteSet(moved)
  BY FS_Subset DEF Impacts, Moved
<1>3. CASE moved = {}
  <2>1. moves \subseteq keys /\ \A k \in moves : current[k] = proposed[k]
    BY <1>3 DEF Moved
  <2>2. target = current
    BY <2>1 DEF Overlaid
  <2> QED BY <2>2
<1>4. CASE moved # {}
  <2>1. PICK k \in moved : moved = {k}
    <3>1. Cardinality(moved) = 1
      BY <1>1, <1>2, <1>4, FS_EmptySet, FS_CardinalityType
    <3> QED BY <1>2, <3>1, FS_Singleton
  <2>2. k \in moves /\ \A m \in moves : m # k => m \in keys /\ current[m] = proposed[m]
    BY <1>2, <2>1 DEF Moved
  <2>3. Overlaid(current, [m \in {k} |-> proposed[k]]) = target
    <3> DEFINE one == [m \in {k} |-> proposed[k]]
    <3>1. DOMAIN one = {k} /\ one[k] = proposed[k]
      OBVIOUS
    <3>2. keys \cup {k} = keys \cup moves
      BY <2>2
    <3>3. \A m \in keys \cup moves :
            (IF m \in {k} THEN one[m] ELSE current[m]) = IF m \in moves THEN proposed[m] ELSE current[m]
      BY <2>2, <3>1
    <3> HIDE DEF one
    <3> QED BY <3>1, <3>2, <3>3 DEF Overlaid
  <2>4. impacts[k] = Status(matrix, target) /\ impacts[k] = "verified_pass"
    BY <1>1, <1>2, <2>1, <2>3 DEF Impacts, Safe
  <2> QED BY <2>4
<1> QED BY <1>3, <1>4

-----------------------------------------------------------------------------
\* A sequence without its place i.
LEMMA Removed ==
  ASSUME NEW S, NEW s \in Seq(S), NEW i \in 1 .. Len(s)
  PROVE  /\ RemoveAt(s, i) \in Seq(S) /\ Len(RemoveAt(s, i)) = Len(s) - 1
         /\ \A k \in 1 .. (Len(s) - 1) : RemoveAt(s, i)[k] = s[IF k < i THEN k ELSE k + 1]
<1> DEFINE a == SubSeq(s, 1, i - 1)
           b == SubSeq(s, i + 1, Len(s))
<1>1. /\ a \in Seq(S) /\ Len(a) = i - 1 /\ \A k \in 1 .. (i - 1) : a[k] = s[k]
      /\ b \in Seq(S) /\ Len(b) = Len(s) - i /\ \A k \in 1 .. (Len(s) - i) : b[k] = s[i + k]
  OBVIOUS
<1>2. RemoveAt(s, i) = a \o b
  BY DEF RemoveAt
<1> HIDE DEF a, b
<1> DEFINE ab == a \o b
<1>3. /\ ab \in Seq(S) /\ Len(ab) = Len(a) + Len(b)
      /\ \A k \in 1 .. Len(a) : ab[k] = a[k]
      /\ \A k \in 1 .. Len(b) : ab[Len(a) + k] = b[k]
  <2>1. a \in Seq(S) /\ b \in Seq(S)
    BY <1>1
  <2> QED BY <2>1
<1> HIDE DEF ab
<1>4. Len(ab) = Len(s) - 1
  BY <1>1, <1>3
<1>5. ASSUME NEW k \in 1 .. (Len(s) - 1)
      PROVE  ab[k] = s[IF k < i THEN k ELSE k + 1]
  <2>1. CASE k < i
    BY <1>1, <1>3, <2>1
  <2>2. CASE ~(k < i)
    <3>1. k - (i - 1) \in 1 .. Len(b) /\ k = Len(a) + (k - (i - 1)) /\ i + (k - (i - 1)) = k + 1
      BY <1>1, <2>2
    <3>2. ab[k] = b[k - (i - 1)] /\ b[k - (i - 1)] = s[k + 1]
      BY <1>1, <1>3, <3>1
    <3> QED BY <2>2, <3>2
  <2> QED BY <2>1, <2>2
<1> QED BY <1>2, <1>3, <1>4, <1>5 DEF ab

\* The run of what a rail draws, from part to part.
Weighed(parts) == \A i \in 1 .. Len(parts) : parts[i].ma \in Nat
Drawn(parts, rail, sum) ==
  \E run \in [0 .. Len(parts) -> Nat] :
    /\ run[0] = 0 /\ sum = run[Len(parts)]
    /\ \A i \in 1 .. Len(parts) :
         run[i] = IF parts[i].rail = rail THEN run[i - 1] + parts[i].ma ELSE run[i - 1]

LEMMA DrawRuns ==
  ASSUME NEW S0, NEW config, config.parts \in Seq(S0), Weighed(config.parts), NEW rail
  PROVE  Drawn(config.parts, rail, Draw(config, rail))
<1> DEFINE s == config.parts
           N == Len(s)
           S == Nat
           step == [p \in (1 .. N) \X S |-> IF s[p[1]].rail = rail THEN p[2] + s[p[1]].ma ELSE p[2]]
           Eq(g) == g = [T \in SUBSET (1 .. N) |-> IF T = {} THEN 0 ELSE IF s[Max(T)].rail = rail THEN g[T \ {Max(T)}] + s[Max(T)].ma ELSE g[T \ {Max(T)}]]
           iter == CHOOSE g : Eq(g)
<1>1. N \in Nat /\ DOMAIN s = 1 .. N /\ \A i \in 1 .. N : s[i].ma \in Nat
  BY DEF Weighed
<1>2. Stepped(N, S, 0, step)
  BY <1>1 DEF Stepped
<1>3. PICK g : IsFold(N, S, 0, step, g)
  <2> HIDE DEF step, N, S
  <2> QED BY <1>1, <1>2, FoldExists
<1>4. ASSUME NEW T \in SUBSET (1 .. N), T # {}, Max(T) \in T, NEW h, h[T \ {Max(T)}] \in S
      PROVE  step[<<Max(T), h[T \ {Max(T)}]>>] = IF s[Max(T)].rail = rail THEN h[T \ {Max(T)}] + s[Max(T)].ma ELSE h[T \ {Max(T)}]
  <2> HIDE DEF N, S
  <2> QED BY <1>4
<1>5. Eq(g)
  <2> HIDE DEF N, S, step
  <2>1. ASSUME NEW T \in SUBSET (1 .. N), T # {}
        PROVE  g[T] = IF s[Max(T)].rail = rail THEN g[T \ {Max(T)}] + s[Max(T)].ma ELSE g[T \ {Max(T)}]
    <3>1. Max(T) \in T /\ g[T \ {Max(T)}] \in S /\ g[T] = step[<<Max(T), g[T \ {Max(T)}]>>]
      BY <1>3, <2>1 DEF IsFold
    <3> QED BY <1>4, <2>1, <3>1
  <2>2. g \in [SUBSET (1 .. N) -> S] /\ g[{}] = 0
    BY <1>3 DEF IsFold
  <2> QED BY <2>1, <2>2
<1>6. Eq(iter)
  <2> HIDE DEF Eq
  <2> QED BY <1>5
<1>7. RunsTo(N, S, 0, step, iter[1 .. N])
  <2> HIDE DEF N, S, step, iter
  <2>1. iter[{}] = 0
    BY <1>6
  <2>2. ASSUME NEW i \in 1 .. N, iter[(1 .. i) \ {Max(1 .. i)}] \in S
        PROVE  iter[1 .. i] = step[<<Max(1 .. i), iter[(1 .. i) \ {Max(1 .. i)}]>>]
    <3> DEFINE D == 1 .. i
    <3>1. D \in SUBSET (1 .. N) /\ D # {} /\ Max(D) \in D
      BY <1>1, Places, SMTT(30)
    <3> HIDE DEF D
    <3>2. iter[D] = IF s[Max(D)].rail = rail THEN iter[D \ {Max(D)}] + s[Max(D)].ma ELSE iter[D \ {Max(D)}]
      BY <1>6, <3>1
    <3>3. iter[D \ {Max(D)}] \in S
      BY <2>2 DEF D
    <3>4. iter[D] = step[<<Max(D), iter[D \ {Max(D)}]>>]
      BY <1>4, <3>1, <3>2, <3>3
    <3> QED BY <3>4 DEF D
  <2> QED BY <1>1, <1>2, <2>1, <2>2, FoldIsRun, ZenonT(30)
<1>8. Draw(config, rail) = iter[1 .. N]
  BY <1>1 DEF Draw, FoldLeft, MapThenFoldSet
<1>9. \A run \in [0 .. N -> Nat] : \A i \in 1 .. N : step[<<i, run[i - 1]>>] =
        IF s[i].rail = rail THEN run[i - 1] + s[i].ma ELSE run[i - 1]
  <2> HIDE DEF N
  <2> QED BY <1>1
<1> HIDE DEF step, iter, N, s
<1>10. \E run \in [0 .. N -> Nat] :
         /\ run[0] = 0 /\ Draw(config, rail) = run[N]
         /\ \A i \in 1 .. N : run[i] =
              IF s[i].rail = rail THEN run[i - 1] + s[i].ma ELSE run[i - 1]
  BY <1>7, <1>8, <1>9 DEF RunsTo
<1> QED BY <1>10 DEF N, s, Drawn

\* A part less draws no more.
LEMMA DrawsNoMore ==
  ASSUME NEW S, NEW config, config.parts \in Seq(S), Weighed(config.parts),
         NEW i \in 1 .. Len(config.parts),
         NEW fewer, fewer.parts = RemoveAt(config.parts, i), NEW rail
  PROVE  Draw(config, rail) \in Nat /\ Draw(fewer, rail) \in Nat
         /\ Draw(fewer, rail) <= Draw(config, rail)
<1> DEFINE s == config.parts
           t == fewer.parts
           N == Len(s)
<1>1. /\ N \in Nat /\ i \in 1 .. N /\ Len(t) = N - 1 /\ t \in Seq(S)
      /\ \A k \in 1 .. (N - 1) : t[k] = s[IF k < i THEN k ELSE k + 1]
      /\ \A k \in 1 .. N : s[k].ma \in Nat
  <2>1. \A k \in 1 .. N : s[k].ma \in Nat
    BY DEF Weighed
  <2>2. N \in Nat
    OBVIOUS
  <2> QED BY <2>1, <2>2, Removed
<1> HIDE DEF s, t
<1>2. PICK a \in [0 .. N -> Nat] :
        /\ a[0] = 0 /\ Draw(config, rail) = a[N]
        /\ \A k \in 1 .. N : a[k] = IF s[k].rail = rail THEN a[k - 1] + s[k].ma ELSE a[k - 1]
  <2>1. Drawn(config.parts, rail, Draw(config, rail))
    BY DrawRuns
  <2> QED BY <2>1 DEF Drawn, s
<1>3. PICK b \in [0 .. (N - 1) -> Nat] :
        /\ b[0] = 0 /\ Draw(fewer, rail) = b[N - 1]
        /\ \A k \in 1 .. (N - 1) : b[k] = IF t[k].rail = rail THEN b[k - 1] + t[k].ma ELSE b[k - 1]
  <2>1. Weighed(t)
    <3>1. \A k \in 1 .. (N - 1) : (IF k < i THEN k ELSE k + 1) \in 1 .. N
      BY <1>1
    <3> QED BY <1>1, <3>1 DEF Weighed
  <2>2. Drawn(t, rail, Draw(fewer, rail))
    BY <1>1, <2>1, DrawRuns DEF t
  <2> QED BY <1>1, <2>2 DEF Drawn
<1> HIDE DEF N
<1> DEFINE P == {k \in 0 .. (N - 1) : b[k] <= a[k + 1] /\ (k < i => b[k] = a[k])}
<1>4. 0 \in P
  BY <1>1, <1>2, <1>3
<1>5. ASSUME NEW k \in 0 .. (N - 1), k < N - 1, k \in P PROVE k + 1 \in P
  <2>1. /\ k + 1 \in 1 .. (N - 1) /\ (k + 1) - 1 = k /\ (k + 1) + 1 = k + 2
        /\ k + 1 \in 1 .. N /\ k + 2 \in 1 .. N /\ (k + 2) - 1 = k + 1
        /\ a[k] \in Nat /\ a[k + 1] \in Nat /\ a[k + 2] \in Nat /\ b[k] \in Nat
        /\ s[k + 1].ma \in Nat /\ s[k + 2].ma \in Nat
    <3>1. k \in Nat /\ N \in Nat /\ k + 1 <= N - 1
      BY <1>1, <1>5
    <3>2. /\ k + 1 \in 1 .. (N - 1) /\ (k + 1) - 1 = k /\ (k + 1) + 1 = k + 2
          /\ k + 1 \in 1 .. N /\ k + 2 \in 1 .. N /\ (k + 2) - 1 = k + 1
          /\ k \in 0 .. N /\ k + 1 \in 0 .. N /\ k + 2 \in 0 .. N /\ k \in 0 .. (N - 1)
      BY <3>1
    <3> QED BY <1>1, <3>2
  <2>2. b[k + 1] = IF t[k + 1].rail = rail THEN b[k] + t[k + 1].ma ELSE b[k]
    BY <1>3, <2>1
  <2>3. /\ a[k + 1] = IF s[k + 1].rail = rail THEN a[k] + s[k + 1].ma ELSE a[k]
        /\ a[k + 2] = IF s[k + 2].rail = rail THEN a[k + 1] + s[k + 2].ma ELSE a[k + 1]
    BY <1>2, <2>1
  <2>4. t[k + 1] = IF k + 1 < i THEN s[k + 1] ELSE s[k + 2]
    BY <1>1, <2>1
  <2>5. b[k] <= a[k + 1] /\ (k < i => b[k] = a[k])
    BY <1>5
  <2>6. CASE k + 1 < i
    <3>1. t[k + 1] = s[k + 1] /\ b[k] = a[k]
      BY <1>1, <2>4, <2>5, <2>6
    <3>2. b[k + 1] = a[k + 1] /\ a[k + 1] <= a[k + 2]
      BY <2>1, <2>2, <2>3, <3>1
    <3> QED BY <2>1, <3>2
  <2>7. CASE ~(k + 1 < i)
    <3>1. t[k + 1] = s[k + 2]
      BY <2>4, <2>7
    <3>2. b[k + 1] <= a[k + 2]
      BY <2>1, <2>2, <2>3, <2>5, <3>1
    <3> QED BY <2>1, <2>7, <3>2
  <2> QED BY <2>6, <2>7
<1>6. \A k \in 0 .. (N - 1) : k \in P
  <2>1. N - 1 \in Nat
    BY <1>1
  <2> HIDE DEF P
  <2> QED BY <1>4, <1>5, <2>1, Counting
<1> QED BY <1>1, <1>2, <1>3, <1>6

\* A configuration has no pin conflict when no pin is listed at two places.
PinsApart(parts) ==
  \A i, j \in DOMAIN parts : \A a \in DOMAIN parts[i].pins, b \in DOMAIN parts[j].pins :
    parts[i].pins[a] = parts[j].pins[b] => i = j /\ a = b

LEMMA PinsAlone ==
  ASSUME NEW config
  PROVE  PinConflicts(config) = {} <=> PinsApart(config.parts)
<1> DEFINE listed == UNION {{i} \X DOMAIN config.parts[i].pins : i \in DOMAIN config.parts}
           pin(p) == config.parts[p[1]].pins[p[2]]
           clash == {p \in listed : \E q \in listed \ {p} : pin(p) = pin(q)}
<1>1. \A i \in DOMAIN config.parts : \A a \in DOMAIN config.parts[i].pins :
        <<i, a>> \in listed /\ pin(<<i, a>>) = config.parts[i].pins[a]
  OBVIOUS
<1>2. \A p \in listed : p = <<p[1], p[2]>> /\ p[1] \in DOMAIN config.parts
                          /\ p[2] \in DOMAIN config.parts[p[1]].pins
  OBVIOUS
<1>3. PinConflicts(config) = {} <=> clash = {}
  BY DEF PinConflicts
<1>4. clash = {} <=> \A p, q \in listed : pin(p) = pin(q) => p = q
  <2> HIDE DEF listed, pin
  <2> QED OBVIOUS
<1>5. ASSUME \A p, q \in listed : pin(p) = pin(q) => p = q,
             NEW i \in DOMAIN config.parts, NEW j \in DOMAIN config.parts,
             NEW a \in DOMAIN config.parts[i].pins, NEW b \in DOMAIN config.parts[j].pins,
             config.parts[i].pins[a] = config.parts[j].pins[b]
      PROVE  i = j /\ a = b
  <2>1. <<i, a>> = <<j, b>>
    <3>1. /\ <<i, a>> \in listed /\ pin(<<i, a>>) = config.parts[i].pins[a]
          /\ <<j, b>> \in listed /\ pin(<<j, b>>) = config.parts[j].pins[b]
      BY <1>1
    <3> HIDE DEF listed, pin
    <3> QED BY <1>5, <3>1
  <2> QED BY <2>1
<1>6. ASSUME NEW p \in listed, NEW q \in listed, pin(p) = pin(q), PinsApart(config.parts)
      PROVE  p = q
  <2>1. p[1] = q[1] /\ p[2] = q[2]
    <3> HIDE DEF listed
    <3> QED BY <1>2, <1>6 DEF PinsApart
  <2> HIDE DEF listed
  <2> QED BY <1>2, <2>1
<1>7. (\A p, q \in listed : pin(p) = pin(q) => p = q) => PinsApart(config.parts)
  <2> HIDE DEF listed, pin
  <2> QED BY <1>5 DEF PinsApart
<1> HIDE DEF listed, pin, clash
<1> QED BY <1>3, <1>4, <1>6, <1>7

\* A clean configuration stays clean without any one part, and its parts share
\* neither a pin nor a bus address, however many parts it has.
THEOREM CleanConfigsStayClean ==
  ASSUME NEW Pin, NEW Text, NEW Rails,
         NEW config \in [parts : Seq([pins : Seq(Pin), addr : Text, rail : Text, ma : Nat]),
                         budgets : [Rails -> Int]]
  PROVE  CleanIsClean(config)
<1> DEFINE S == [pins : Seq(Pin), addr : Text, rail : Text, ma : Nat]
           s == config.parts
           N == Len(s)
<1>1. s \in Seq(S) /\ N \in Nat /\ DOMAIN s = 1 .. N /\ \A i \in 1 .. N : s[i] \in S
  <2>1. s \in Seq(S)
    OBVIOUS
  <2> HIDE DEF S, s
  <2> QED BY <2>1
<1>2. Weighed(s)
  BY <1>1 DEF Weighed
<1> SUFFICES ASSUME Clean(config), NEW i \in 1 .. N
             PROVE  /\ Clean([config EXCEPT !.parts = RemoveAt(@, i)])
                    /\ \A j \in (1 .. N) \ {i} :
                         /\ ToSet(s[i].pins) \cap ToSet(s[j].pins) = {}
                         /\ s[i].addr = "none" \/ s[i].addr # s[j].addr
  BY <1>1 DEF CleanIsClean
<1> DEFINE t == RemoveAt(s, i)
           fewer == [config EXCEPT !.parts = t]
           from(k) == IF k < i THEN k ELSE k + 1
<1>3. fewer.parts = t /\ fewer.budgets = config.budgets
  OBVIOUS
<1>4. Len(t) = N - 1 /\ t \in Seq(S) /\ DOMAIN t = 1 .. (N - 1)
      /\ \A k \in 1 .. (N - 1) : t[k] = s[from(k)]
  <2> HIDE DEF S, s
  <2>1. /\ t \in Seq(S) /\ Len(t) = N - 1
        /\ \A k \in 1 .. (N - 1) : t[k] = s[IF k < i THEN k ELSE k + 1]
    BY <1>1, Removed
  <2> HIDE DEF t
  <2> QED BY <2>1
<1>5. \A k \in 1 .. (N - 1) : from(k) \in 1 .. N
      /\ \A m \in 1 .. (N - 1) : from(k) = from(m) => k = m
  <2>1. ASSUME NEW k \in 1 .. (N - 1) PROVE from(k) \in 1 .. N
    <3> HIDE DEF s
    <3> QED BY <1>1, <2>1
  <2>2. ASSUME NEW k \in 1 .. (N - 1), NEW m \in 1 .. (N - 1), from(k) = from(m) PROVE k = m
    <3>1. k \in Int /\ m \in Int /\ i \in Int
      BY <1>1
    <3> QED BY <2>2, <3>1
  <2> QED BY <2>1, <2>2
<1>6. PinsApart(s)
  BY PinsAlone DEF Clean
<1>7. ASSUME NEW j \in 1 .. N, NEW k \in 1 .. N, j # k, s[j].addr # "none"
      PROVE  s[j].addr # s[k].addr
  <2> DEFINE twice == {n \in DOMAIN s : /\ s[n].addr # "none"
                                        /\ \E m \in DOMAIN s \ {n} : s[n].addr = s[m].addr}
  <2>1. \A n \in twice : s[n].addr \in BusConflicts(config)
    BY DEF BusConflicts
  <2>2. j \notin twice
    <3> HIDE DEF twice
    <3> QED BY <2>1 DEF Clean
  <2> QED BY <1>1, <1>7, <2>2
<1>8. PinConflicts(fewer) = {}
  <2> HIDE DEF S, s, t, fewer, from
  <2>1. ASSUME NEW j \in 1 .. (N - 1), NEW k \in 1 .. (N - 1),
               NEW a \in DOMAIN t[j].pins, NEW b \in DOMAIN t[k].pins, t[j].pins[a] = t[k].pins[b]
        PROVE  j = k /\ a = b
    <3>1. t[j] = s[from(j)] /\ t[k] = s[from(k)] /\ from(j) \in DOMAIN s /\ from(k) \in DOMAIN s
      BY <1>1, <1>4, <1>5
    <3>2. from(j) = from(k) /\ a = b
      BY <1>6, <2>1, <3>1 DEF PinsApart
    <3> QED BY <1>5, <3>2
  <2>2. PinsApart(t)
    BY <1>4, <2>1 DEF PinsApart
  <2> QED BY <1>3, <2>2, PinsAlone
<1>9. BusConflicts(fewer) = {}
  <2> HIDE DEF S, s, t, fewer, from
  <2>1. ASSUME NEW j \in 1 .. (N - 1), NEW k \in 1 .. (N - 1), j # k, t[j].addr # "none"
        PROVE  t[j].addr # t[k].addr
    <3>1. t[j] = s[from(j)] /\ t[k] = s[from(k)]
      BY <1>4
    <3>2. from(j) \in 1 .. N /\ from(k) \in 1 .. N /\ from(j) # from(k)
      BY <1>5, <2>1
    <3> QED BY <1>7, <2>1, <3>1, <3>2
  <2>2. ASSUME NEW j \in DOMAIN t, t[j].addr # "none", NEW k \in DOMAIN t \ {j}, t[j].addr = t[k].addr
        PROVE  FALSE
    BY <1>4, <2>1, <2>2
  <2>3. {j \in DOMAIN t : t[j].addr # "none" /\ \E k \in DOMAIN t \ {j} : t[j].addr = t[k].addr} = {}
    BY <2>2
  <2> QED BY <1>3, <2>3 DEF BusConflicts
<1>10. PowerConflicts(fewer) = {}
  <2>1. ASSUME NEW rail \in DOMAIN config.budgets
        PROVE  ~(Draw(fewer, rail) > config.budgets[rail])
    <3>1. ~(Draw(config, rail) > config.budgets[rail])
      BY DEF Clean, PowerConflicts
    <3>2. Draw(config, rail) \in Nat /\ Draw(fewer, rail) \in Nat /\ Draw(fewer, rail) <= Draw(config, rail)
      <4>1. fewer.parts = RemoveAt(config.parts, i) /\ i \in 1 .. Len(config.parts)
            /\ config.parts \in Seq(S) /\ Weighed(config.parts)
        BY <1>1, <1>2, <1>3
      <4> HIDE DEF S, s, t, fewer
      <4> QED BY <4>1, DrawsNoMore
    <3>3. config.budgets[rail] \in Int
      OBVIOUS
    <3> HIDE DEF fewer
    <3> QED BY <3>1, <3>2, <3>3
  <2> QED BY <1>3, <2>1 DEF PowerConflicts
<1>11. Clean([config EXCEPT !.parts = RemoveAt(@, i)])
  <2>1. [config EXCEPT !.parts = RemoveAt(@, i)] = fewer
    OBVIOUS
  <2> HIDE DEF fewer
  <2> QED BY <1>8, <1>9, <1>10, <2>1 DEF Clean
<1>12. ASSUME NEW j \in (1 .. N) \ {i}
       PROVE  ToSet(s[i].pins) \cap ToSet(s[j].pins) = {}
  <2> HIDE DEF S, s
  <2>1. j \in DOMAIN s /\ i \in DOMAIN s /\ i # j
    BY <1>1, <1>12
  <2>2. ASSUME NEW a \in DOMAIN s[i].pins, NEW b \in DOMAIN s[j].pins
        PROVE  s[i].pins[a] # s[j].pins[b]
    BY <1>6, <2>1 DEF PinsApart
  <2> QED BY <2>2 DEF ToSet
<1> HIDE DEF s, S, t, fewer
<1> QED BY <1>7, <1>11, <1>12

-----------------------------------------------------------------------------
\* What holds of the empty set, and of a set when it holds of the set without
\* any one element, holds of every subset of a finite set.
LEMMA SubsetCounting ==
  ASSUME NEW D, IsFiniteSet(D), NEW G, {} \in G,
         \A T \in SUBSET D : T # {} /\ (\A x \in T : T \ {x} \in G) => T \in G
  PROVE  \A T \in SUBSET D : T \in G
<1> DEFINE N == Cardinality(D)
           P == {n \in 0 .. N : \A T \in SUBSET D : Cardinality(T) = n => T \in G}
<1>1. N \in Nat /\ \A T \in SUBSET D : IsFiniteSet(T) /\ Cardinality(T) \in 0 .. N
  BY FS_CardinalityType, FS_Subset
<1>2. 0 \in P
  <2>1. \A T \in SUBSET D : Cardinality(T) = 0 => T = {}
    BY <1>1, FS_EmptySet
  <2> QED BY <1>1, <2>1
<1>3. ASSUME NEW n \in 0 .. N, n < N, n \in P PROVE n + 1 \in P
  <2>1. ASSUME NEW T \in SUBSET D, Cardinality(T) = n + 1 PROVE T \in G
    <3>1. T # {}
      BY <2>1, <1>1, FS_EmptySet
    <3>2. ASSUME NEW x \in T PROVE T \ {x} \in G
      <4>1. T \ {x} \in SUBSET D /\ IsFiniteSet(T)
        BY <1>1
      <4>2. Cardinality(T \ {x}) = n
        <5>1. Cardinality(T \ {x}) = Cardinality(T) - 1
          BY <4>1, FS_RemoveElement
        <5> QED BY <2>1, <5>1
      <4> QED BY <1>3, <4>1, <4>2
    <3> QED BY <3>1, <3>2
  <2>2. n + 1 \in 0 .. N
    BY <1>1, <1>3
  <2> QED BY <2>1, <2>2
<1>4. \A n \in 0 .. N : n \in P
  <2> HIDE DEF P, N
  <2> QED BY <1>1, <1>2, <1>3, Counting
<1> QED BY <1>1, <1>4

\* Sums over the subsets of a finite set: as the folds compute them, taking an
\* element they choose, and taking any element.
Pick(T) == CHOOSE x \in T : TRUE
Picked(D, f, g) ==
  /\ g \in [SUBSET D -> Int] /\ g[{}] = 0
  /\ \A T \in SUBSET D : T # {} => g[T] = f[Pick(T)] + g[T \ {Pick(T)}]
Sums(D, f, g) ==
  /\ g \in [SUBSET D -> Int] /\ g[{}] = 0
  /\ \A T \in SUBSET D : \A x \in T : g[T] = f[x] + g[T \ {x}]

LEMMA PickedExists ==
  ASSUME NEW D, IsFiniteSet(D), NEW f \in [D -> Int]
  PROVE  \E g : Picked(D, f, g)
<1> DEFINE N == Cardinality(D)
           Low(n) == {T \in SUBSET D : Cardinality(T) <= n}
           Up(n, g) == /\ g[{}] = 0
                       /\ \A T \in Low(n) : T # {} => g[T] = f[Pick(T)] + g[T \ {Pick(T)}]
           P == {n \in 0 .. N : \E g \in [Low(n) -> Int] : Up(n, g)}
<1>1. N \in Nat /\ \A T \in SUBSET D : IsFiniteSet(T) /\ Cardinality(T) \in 0 .. N
  BY FS_CardinalityType, FS_Subset
<1>2. \A T \in SUBSET D : T # {} => Pick(T) \in T
  BY DEF Pick
<1>3. \A T \in SUBSET D : T # {} =>
         T \ {Pick(T)} \in SUBSET D /\ Cardinality(T \ {Pick(T)}) = Cardinality(T) - 1
  BY <1>1, <1>2, FS_RemoveElement
<1>4. \A T \in SUBSET D : (Cardinality(T) = 0) <=> (T = {})
  BY <1>1, FS_EmptySet
<1>5. 0 \in P
  <2> DEFINE g == [T \in Low(0) |-> 0]
  <2>1. \A T \in Low(0) : T = {}
    BY <1>1, <1>4
  <2>2. {} \in Low(0)
    BY <1>4
  <2>3. g \in [Low(0) -> Int] /\ Up(0, g)
    BY <2>1, <2>2
  <2>4. 0 \in 0 .. N
    BY <1>1
  <2> HIDE DEF g, Low
  <2> QED BY <2>3, <2>4
<1>6. ASSUME NEW n \in 0 .. N, n < N, n \in P PROVE n + 1 \in P
  <2>1. PICK g \in [Low(n) -> Int] : Up(n, g)
    BY <1>6
  <2> DEFINE h == [T \in Low(n + 1) |-> IF T \in Low(n) THEN g[T] ELSE f[Pick(T)] + g[T \ {Pick(T)}]]
  <2>2. {} \in Low(n) /\ {} \in Low(n + 1)
    BY <1>1, <1>4, <1>6
  <2>3. ASSUME NEW T \in Low(n + 1), T # {} PROVE T \ {Pick(T)} \in Low(n) /\ T \ {Pick(T)} \in Low(n + 1)
    BY <1>1, <1>3, <1>6, <2>3
  <2>4. \A T \in Low(n + 1) : T # {} => f[Pick(T)] \in Int
    BY <1>2
  <2> HIDE DEF Low
  <2>5. h \in [Low(n + 1) -> Int]
    <3>1. ASSUME NEW T \in Low(n + 1)
          PROVE  (IF T \in Low(n) THEN g[T] ELSE f[Pick(T)] + g[T \ {Pick(T)}]) \in Int
      <4>1. CASE T \in Low(n)
        BY <4>1
      <4>2. CASE T \notin Low(n)
        <5>1. T # {}
          BY <2>2, <4>2
        <5>2. f[Pick(T)] \in Int /\ g[T \ {Pick(T)}] \in Int
          BY <2>1, <2>3, <2>4, <5>1
        <5> QED BY <4>2, <5>2
      <4> QED BY <4>1, <4>2
    <3> QED BY <3>1
  <2>6. h[{}] = 0
    BY <2>1, <2>2
  <2>7. ASSUME NEW T \in Low(n + 1), T # {} PROVE h[T] = f[Pick(T)] + h[T \ {Pick(T)}]
    <3>1. h[T \ {Pick(T)}] = g[T \ {Pick(T)}]
      BY <2>3, <2>7
    <3>2. h[T] = IF T \in Low(n) THEN g[T] ELSE f[Pick(T)] + g[T \ {Pick(T)}]
      OBVIOUS
    <3> HIDE DEF h
    <3> QED BY <2>1, <2>7, <3>1, <3>2
  <2>8. n + 1 \in 0 .. N
    BY <1>1, <1>6
  <2> HIDE DEF h
  <2> QED BY <2>5, <2>6, <2>7, <2>8
<1>7. N \in P
  <2> HIDE DEF P, N
  <2> QED BY <1>1, <1>5, <1>6, Counting
<1>8. PICK g \in [Low(N) -> Int] : Up(N, g)
  BY <1>7
<1>9. Low(N) = SUBSET D
  BY <1>1
<1> QED BY <1>8, <1>9 DEF Picked

\* A sum does not depend on the element that is taken.
LEMMA PickedSums ==
  ASSUME NEW D, IsFiniteSet(D), NEW f \in [D -> Int], NEW g, Picked(D, f, g)
  PROVE  Sums(D, f, g)
<1> DEFINE G == {T \in SUBSET D : \A x \in T : g[T] = f[x] + g[T \ {x}]}
<1>1. {} \in G
  OBVIOUS
<1>2. ASSUME NEW T \in SUBSET D, T # {}, \A x \in T : T \ {x} \in G PROVE T \in G
  <2>1. ASSUME NEW x \in T PROVE g[T] = f[x] + g[T \ {x}]
    <3> DEFINE p == Pick(T)
    <3>1. p \in T /\ g[T] = f[p] + g[T \ {p}]
      BY <1>2 DEF Pick, Picked
    <3>2. CASE x = p
      BY <3>1, <3>2
    <3>3. CASE x # p
      <4>1. g[T \ {p}] = f[x] + g[(T \ {p}) \ {x}]
        BY <1>2, <3>1, <3>3
      <4>2. g[T \ {x}] = f[p] + g[(T \ {x}) \ {p}]
        BY <1>2, <3>1, <3>3
      <4>3. (T \ {x}) \ {p} = (T \ {p}) \ {x} /\ (T \ {x}) \ {p} \in SUBSET D
        OBVIOUS
      <4>4. f[x] \in Int /\ f[p] \in Int /\ g[(T \ {p}) \ {x}] \in Int
        BY <3>1, <4>3 DEF Picked
      <4> DEFINE rest == g[(T \ {p}) \ {x}]
      <4>5. g[T] = f[p] + (f[x] + rest) /\ g[T \ {x}] = f[p] + rest
        BY <3>1, <4>1, <4>2, <4>3
      <4>6. f[x] \in Int /\ f[p] \in Int /\ rest \in Int
        BY <4>4
      <4> HIDE DEF p, G, rest
      <4>7. f[x] + (f[p] + rest) = f[p] + (f[x] + rest)
        BY <4>6
      <4> QED BY <4>5, <4>7
    <3> QED BY <3>2, <3>3
  <2> QED BY <2>1
<1>3. \A T \in SUBSET D : T \in G
  <2> HIDE DEF G
  <2> QED BY <1>1, <1>2, SubsetCounting
<1> QED BY <1>3 DEF Picked, Sums

LEMMA PickedByRule ==
  ASSUME NEW D, IsFiniteSet(D), NEW f \in [D -> Int], NEW g,
         g = [T \in SUBSET D |-> IF T = {} THEN 0 ELSE f[Pick(T)] + g[T \ {Pick(T)}]]
  PROVE  Sums(D, f, g)
<1> DEFINE G == {T \in SUBSET D : g[T] \in Int}
<1>1. g[{}] = 0 /\ \A T \in SUBSET D : T # {} => g[T] = f[Pick(T)] + g[T \ {Pick(T)}]
  OBVIOUS
<1>2. {} \in G
  BY <1>1
<1>3. ASSUME NEW T \in SUBSET D, T # {}, \A x \in T : T \ {x} \in G PROVE T \in G
  <2>1. Pick(T) \in T
    BY <1>3 DEF Pick
  <2>2. g[T \ {Pick(T)}] \in Int /\ f[Pick(T)] \in Int
    BY <1>3, <2>1
  <2>3. g[T] = f[Pick(T)] + g[T \ {Pick(T)}]
    BY <1>1, <1>3
  <2>4. g[T] \in Int
    BY <2>2, <2>3
  <2> QED BY <2>4
<1>4. \A T \in SUBSET D : T \in G
  <2> HIDE DEF G
  <2> QED BY <1>2, <1>3, SubsetCounting
<1>5. g \in [SUBSET D -> Int]
  BY <1>4
<1>6. Picked(D, f, g)
  BY <1>1, <1>5 DEF Picked
<1> QED BY <1>6, PickedSums

\* Sums of functions that agree on a set agree there.
LEMMA SumsAgree ==
  ASSUME NEW D, IsFiniteSet(D), NEW E, IsFiniteSet(E), NEW f, NEW h, NEW g, NEW k,
         Sums(D, f, g), Sums(E, h, k), NEW W \in SUBSET D, W \in SUBSET E, \A x \in W : f[x] = h[x]
  PROVE  g[W] = k[W]
<1> DEFINE G == {T \in SUBSET W : g[T] = k[T]}
<1>1. {} \in G
  BY DEF Sums
<1>2. ASSUME NEW T \in SUBSET W, T # {}, \A x \in T : T \ {x} \in G PROVE T \in G
  <2>1. PICK x \in T : TRUE
    BY <1>2
  <2>2. g[T] = f[x] + g[T \ {x}] /\ k[T] = h[x] + k[T \ {x}]
    BY DEF Sums
  <2>3. g[T \ {x}] = k[T \ {x}] /\ f[x] = h[x]
    BY <1>2
  <2> QED BY <2>2, <2>3
<1>3. IsFiniteSet(W)
  BY FS_Subset
<1>4. \A T \in SUBSET W : T \in G
  <2> HIDE DEF G
  <2> QED BY <1>1, <1>2, <1>3, SubsetCounting
<1> QED BY <1>4

\* A sum of naturals is one, and 0 exactly when each of them is.
LEMMA SumsOfNats ==
  ASSUME NEW D, IsFiniteSet(D), NEW f \in [D -> Nat], NEW g, Sums(D, f, g)
  PROVE  \A T \in SUBSET D : g[T] \in Nat /\ (g[T] = 0 <=> \A x \in T : f[x] = 0)
<1> DEFINE G == {T \in SUBSET D : g[T] \in Nat /\ (g[T] = 0 <=> \A x \in T : f[x] = 0)}
<1>1. {} \in G
  BY DEF Sums
<1>2. ASSUME NEW T \in SUBSET D, T # {}, \A x \in T : T \ {x} \in G PROVE T \in G
  <2>1. PICK x \in T : TRUE
    BY <1>2
  <2>2. g[T] = f[x] + g[T \ {x}] /\ f[x] \in Nat
    BY DEF Sums
  <2>3. g[T \ {x}] \in Nat /\ (g[T \ {x}] = 0 <=> \A y \in T \ {x} : f[y] = 0)
    BY <1>2
  <2>4. g[T] = 0 <=> f[x] = 0 /\ g[T \ {x}] = 0
    BY <2>2, <2>3
  <2> QED BY <2>2, <2>3, <2>4
<1>3. \A T \in SUBSET D : T \in G
  <2> HIDE DEF G
  <2> QED BY <1>1, <1>2, SubsetCounting
<1> QED BY <1>3

LEMMA FullIs == Full \in Nat /\ Full > 0
BY DEF Full

\* Confidence is lost from hop to hop.
LEMMA ConfidenceDecays ==
  ASSUME NEW conf \in 0 .. Full, NEW hops \in Nat
  PROVE  /\ Decayed(conf, hops) \in 0 .. Full
         /\ hops = 0 => Decayed(conf, hops) = conf
         /\ Decayed(conf, hops) = Full => hops = 0
<1> DEFINE N == hops
           S == 0 .. Full
           step == [p \in (1 .. N) \X S |-> (7 * p[2]) \div 10]
           Eq(u) == u = [h \in 0 .. hops |-> IF h = 0 THEN conf ELSE (7 * u[h - 1]) \div 10]
           kept == CHOOSE u : Eq(u)
<1>1. \A x \in S : (7 * x) \div 10 \in S /\ (7 * x) \div 10 # Full
  <2>1. ASSUME NEW x \in S PROVE (7 * x) \div 10 \in S /\ (7 * x) \div 10 # Full
    <3>1. Full \in Nat /\ Full > 0 /\ x \in Int /\ x >= 0 /\ x <= Full
      BY FullIs
    <3>2. (7 * x) \div 10 >= 0
      BY <3>1
    <3>3. (7 * x) \div 10 < Full
      BY <3>1
    <3>4. (7 * x) \div 10 \in Int
      BY <3>1
    <3> DEFINE y == (7 * x) \div 10
    <3> HIDE DEF y
    <3>5. y \in S /\ y # Full
      BY <3>1, <3>2, <3>3, <3>4 DEF y
    <3> QED BY <3>5 DEF y
  <2> QED BY <2>1
<1>2. Stepped(N, S, conf, step)
  BY <1>1 DEF Stepped
<1>3. \A u \in [0 .. N -> S] : \A i \in 1 .. N : step[<<i, u[i - 1]>>] = (7 * u[i - 1]) \div 10
  OBVIOUS
<1>4. PICK r : Goes(N, S, conf, step, r)
  <2> HIDE DEF step, S, N
  <2> QED BY <1>2, RunExists DEF N
<1>5. Eq(r)
  <2> HIDE DEF step, S
  <2>1. r \in [0 .. N -> S] /\ r[0] = conf /\ \A i \in 1 .. N : r[i] = (7 * r[i - 1]) \div 10
    BY <1>3, <1>4 DEF Goes
  <2>2. \A i \in 0 .. N : i # 0 => i \in 1 .. N
    OBVIOUS
  <2>3. \A i \in 0 .. N : r[i] = IF i = 0 THEN conf ELSE (7 * r[i - 1]) \div 10
    BY <2>1, <2>2
  <2> QED BY <2>1, <2>3
<1>6. Eq(kept)
  <2> HIDE DEF Eq
  <2> QED BY <1>5
<1>7. Decayed(conf, hops) = kept[hops]
  BY DEF Decayed
<1> DEFINE P == {i \in 0 .. N : kept[i] \in S /\ (i # 0 => kept[i] # Full)}
<1>8. kept[0] = conf /\ \A i \in 1 .. N : kept[i] = (7 * kept[i - 1]) \div 10
  <2> HIDE DEF kept
  <2>1. 0 \in 0 .. N /\ \A i \in 1 .. N : i \in 0 .. N /\ i # 0
    OBVIOUS
  <2> QED BY <1>6, <2>1
<1> HIDE DEF kept
<1>9. 0 \in P
  BY <1>8
<1>10. ASSUME NEW n \in 0 .. N, n < N, n \in P PROVE n + 1 \in P
  <2>1. n + 1 \in 1 .. N /\ n + 1 \in 0 .. N /\ (n + 1) - 1 = n
    BY <1>10
  <2>2. kept[n + 1] = (7 * kept[n]) \div 10
    BY <1>8, <2>1
  <2> HIDE DEF S
  <2> QED BY <1>1, <1>10, <2>1, <2>2
<1>11. \A n \in 0 .. N : n \in P
  <2> HIDE DEF P
  <2> QED BY <1>9, <1>10, Counting
<1>12. hops \in P
  BY <1>11
<1> QED BY <1>7, <1>8, <1>12

-----------------------------------------------------------------------------
\* The versions a chain of n rules leads to, as the breadth-first search finds
\* them, and one round of it.
Wider(groups, W) == W \cup UNION {g \in groups : g \cap W # {}}
Search(groups, a) ==
  CHOOSE within : within =
    [n \in 0..Cardinality(UNION groups) |->
       IF n = 0 THEN {a}
       ELSE within[n - 1] \cup UNION {g \in groups : g \cap within[n - 1] # {}}]
Searched(groups, a, w) ==
  LET C == Cardinality(UNION groups) IN
  /\ w \in [0 .. C -> SUBSET ({a} \cup UNION groups)]
  /\ w[0] = {a} /\ \A n \in 1 .. C : w[n] = Wider(groups, w[n - 1])

LEMMA SearchRuns ==
  ASSUME NEW groups, IsFiniteSet(UNION groups), NEW a
  PROVE  Searched(groups, a, Search(groups, a))
<1> DEFINE N == Cardinality(UNION groups)
           S == SUBSET ({a} \cup UNION groups)
           step == [p \in (1 .. N) \X S |-> Wider(groups, p[2])]
           Eq(w) == w = [n \in 0 .. N |-> IF n = 0 THEN {a} ELSE Wider(groups, w[n - 1])]
<1>1. N \in Nat
  BY FS_CardinalityType
<1>2. Stepped(N, S, {a}, step)
  BY DEF Stepped, Wider
<1>3. PICK g : IsFold(N, S, {a}, step, g)
  <2> HIDE DEF step, N, S
  <2> QED BY <1>1, <1>2, FoldExists
<1>4. \A i \in 1 .. N : \A W \in S : step[<<i, W>>] = Wider(groups, W)
  OBVIOUS
<1> DEFINE w == [n \in 0 .. N |-> g[1 .. n]]
<1>5. /\ \A n \in 0 .. N : w[n] = g[1 .. n] /\ g[1 .. n] \in S
      /\ w[0] = {a}
  <2> HIDE DEF N, S, step
  <2>1. 1 .. 0 = {} /\ 0 \in 0 .. N
    BY <1>1
  <2>2. \A n \in 0 .. N : 1 .. n \in SUBSET (1 .. N)
    BY <1>1
  <2>3. g[{}] = {a} /\ \A T \in SUBSET (1 .. N) : g[T] \in S
    BY <1>3 DEF IsFold
  <2> QED BY <2>1, <2>2, <2>3
<1>6. ASSUME NEW i \in 1 .. N PROVE w[i] = Wider(groups, w[i - 1])
  <2> HIDE DEF N, S, step
  <2>1. /\ 1 .. i \in SUBSET (1 .. N) /\ 1 .. i # {}
        /\ Max(1 .. i) = i /\ (1 .. i) \ {i} = 1 .. (i - 1)
    BY <1>1, Places
  <2>2. g[1 .. i] = step[<<i, g[1 .. (i - 1)]>>]
    BY <1>3, <2>1 DEF IsFold
  <2>3. i \in 0 .. N /\ i - 1 \in 0 .. N
    BY <1>1
  <2>4. w[i] = g[1 .. i] /\ w[i - 1] = g[1 .. (i - 1)] /\ g[1 .. (i - 1)] \in S
    BY <1>5, <2>3
  <2> HIDE DEF w
  <2> QED BY <1>4, <2>2, <2>4
<1>7. w \in [0 .. N -> S]
  <2> HIDE DEF S, N
  <2> QED BY <1>5
<1>8. Eq(w)
  <2>1. \A n \in 0 .. N : w[n] = IF n = 0 THEN {a} ELSE Wider(groups, w[n - 1])
    <3>1. \A n \in 0 .. N : n # 0 => n \in 1 .. N
      BY <1>1
    <3> HIDE DEF w, N
    <3> QED BY <1>5, <1>6, <3>1
  <2>2. w = [n \in 0 .. N |-> w[n]]
    OBVIOUS
  <2> HIDE DEF w
  <2> QED BY <2>1, <2>2
<1>9. Eq(Search(groups, a))
  <2> HIDE DEF w
  <2>1. \E u : Eq(u)
    BY <1>8
  <2>2. Eq(CHOOSE u : Eq(u))
    <3> HIDE DEF Eq
    <3> QED BY <2>1
  <2> QED BY <2>2 DEF Search, Wider
<1>10. \A u : Eq(u) => Searched(groups, a, u)
  <2> SUFFICES ASSUME NEW u, Eq(u) PROVE Searched(groups, a, u)
    OBVIOUS
  <2> DEFINE P == {n \in 0 .. N : u[n] \in S}
  <2>1. u[0] = {a} /\ \A n \in 1 .. N : n - 1 \in 0 .. N /\ u[n] = Wider(groups, u[n - 1])
    <3> HIDE DEF N
    <3>1. 0 \in 0 .. N /\ \A n \in 1 .. N : n \in 0 .. N /\ n - 1 \in 0 .. N /\ n # 0
      BY <1>1
    <3> QED BY <3>1
  <2>2. \A W \in S : Wider(groups, W) \in S
    BY DEF Wider
  <2>3. 0 \in P /\ \A n \in 0 .. N : n < N /\ n \in P => n + 1 \in P
    <3>1. 0 \in P
      <4> HIDE DEF Eq, N
      <4> QED BY <1>1, <2>1
    <3>2. ASSUME NEW n \in 0 .. N, n < N, n \in P PROVE n + 1 \in P
      <4> HIDE DEF Eq, N, S
      <4>1. n + 1 \in 1 .. N /\ n + 1 \in 0 .. N /\ (n + 1) - 1 = n
        BY <1>1, <3>2
      <4> QED BY <2>1, <2>2, <3>2, <4>1
    <3> QED BY <3>1, <3>2
  <2>4. \A n \in 0 .. N : n \in P
    <3> HIDE DEF P, N
    <3> QED BY <1>1, <2>3, Counting
  <2>5. u \in [0 .. N -> S]
    <3>1. \A n \in 0 .. N : u[n] \in S
      BY <2>4
    <3>2. u = [n \in 0 .. N |-> u[n]]
      <4> HIDE DEF N
      <4>1. DOMAIN u = 0 .. N
        OBVIOUS
      <4>2. \E f : u = [n \in 0 .. N |-> f[n]]
        <5>1. u = [n \in 0 .. N |-> [m \in 0 .. N |-> IF m = 0 THEN {a} ELSE Wider(groups, u[m - 1])][n]]
          OBVIOUS
        <5> QED BY <5>1
      <4> QED BY <4>2
    <3> HIDE DEF Eq, S, N
    <3> QED BY <3>1, <3>2
  <2> HIDE DEF Eq
  <2> QED BY <2>1, <2>5 DEF Searched
<1> HIDE DEF Eq
<1> QED BY <1>9, <1>10

LEMMA HopsOfSearch ==
  ASSUME NEW groups, NEW a, NEW b
  PROVE  LET steps == {n \in DOMAIN Search(groups, a) : b \in Search(groups, a)[n]}
         IN  Hops(groups, a, b) = IF steps = {} THEN Far ELSE Min(steps)
BY DEF Hops, Search

\* What one search finds, round by round: more and more, nothing beyond a set
\* closed under the groups, and all of it before the rounds end.
Closed(groups, W) == \A g \in groups : g \cap W = {} \/ g \subseteq W
LEMMA SearchGrows ==
  ASSUME NEW groups, IsFiniteSet(UNION groups), NEW a \in UNION groups, NEW w, Searched(groups, a, w)
  PROVE  /\ \A n \in 0 .. Cardinality(UNION groups) : w[n] \subseteq w[Cardinality(UNION groups)]
         /\ Closed(groups, w[Cardinality(UNION groups)])
<1> DEFINE V == UNION groups
           C == Cardinality(V)
<1>1. /\ C \in Nat /\ w \in [0 .. C -> SUBSET V]
      /\ w[0] = {a} /\ \A n \in 1 .. C : w[n] = Wider(groups, w[n - 1])
  BY FS_CardinalityType DEF Searched
<1>2. \A n \in 0 .. C : w[n] \in SUBSET V /\ IsFiniteSet(w[n]) /\ Cardinality(w[n]) \in 0 .. C
  <2>1. \A n \in 0 .. C : w[n] \in SUBSET V
    BY <1>1
  <2>2. \A T \in SUBSET V : IsFiniteSet(T) /\ Cardinality(T) \in 0 .. C
    BY FS_CardinalityType, FS_Subset
  <2> HIDE DEF C, V
  <2> QED BY <2>1, <2>2
<1>3. \A W \in SUBSET V : W \subseteq Wider(groups, W) /\ (Wider(groups, W) = W => Closed(groups, W))
  BY DEF Wider, Closed
<1> HIDE DEF C, V
<1>4. \A n \in 0 .. C : n < C => n + 1 \in 0 .. C /\ w[n + 1] = Wider(groups, w[n]) /\ w[n] \subseteq w[n + 1]
  <2> TAKE n \in 0 .. C
  <2> HAVE n < C
  <2>1. n + 1 \in 1 .. C /\ n + 1 \in 0 .. C /\ (n + 1) - 1 = n
    BY <1>1
  <2>2. w[n + 1] = Wider(groups, w[n])
    BY <1>1, <2>1
  <2>3. w[n] \subseteq Wider(groups, w[n])
    BY DEF Wider
  <2> QED BY <2>1, <2>2, <2>3
<1>5. \A n \in 0 .. C : \A m \in 0 .. n : w[m] \subseteq w[n]
  <2> DEFINE P == {n \in 0 .. C : \A m \in 0 .. n : w[m] \subseteq w[n]}
  <2>1. 0 \in P
    BY <1>1
  <2>2. ASSUME NEW n \in 0 .. C, n < C, n \in P PROVE n + 1 \in P
    <3>1. \A m \in 0 .. (n + 1) : m \in 0 .. n \/ m = n + 1
      BY <1>1
    <3>2. w[n] \subseteq w[n + 1] /\ n + 1 \in 0 .. C
      BY <1>4, <2>2
    <3> QED BY <2>2, <3>1, <3>2
  <2>3. \A n \in 0 .. C : n \in P
    <3> HIDE DEF P
    <3> QED BY <1>1, <2>1, <2>2, Counting
  <2> QED BY <2>3
<1>6. \A n \in 0 .. C : Closed(groups, w[n]) \/ Cardinality(w[n]) >= n + 1
  <2> DEFINE P == {n \in 0 .. C : Closed(groups, w[n]) \/ Cardinality(w[n]) >= n + 1}
  <2>1. 0 \in P
    <3>1. Cardinality(w[0]) = 1
      BY <1>1, FS_Singleton
    <3>2. 0 \in 0 .. C /\ 1 >= 0 + 1
      BY <1>1
    <3> QED BY <3>1, <3>2
  <2>2. ASSUME NEW n \in 0 .. C, n < C, n \in P PROVE n + 1 \in P
    <3>1. n + 1 \in 0 .. C /\ w[n + 1] = Wider(groups, w[n]) /\ w[n] \subseteq w[n + 1]
      BY <1>4, <2>2
    <3>2. CASE Closed(groups, w[n])
      <4>1. Wider(groups, w[n]) = w[n]
        BY <3>2 DEF Wider, Closed
      <4> QED BY <3>1, <3>2, <4>1
    <3>3. CASE w[n + 1] = w[n]
      BY <1>2, <1>3, <3>1, <3>3
    <3>4. CASE w[n + 1] # w[n] /\ Cardinality(w[n]) >= n + 1
      <4>1. Cardinality(w[n]) <= Cardinality(w[n + 1]) /\ Cardinality(w[n]) # Cardinality(w[n + 1])
        <5>1. w[n] \in SUBSET w[n + 1] /\ IsFiniteSet(w[n + 1])
          BY <1>2, <3>1
        <5> QED BY <3>4, <5>1, FS_Subset
      <4>2. Cardinality(w[n + 1]) \in Int /\ Cardinality(w[n]) \in Int /\ n \in Int
        BY <1>1, <1>2, <3>1
      <4>3. Cardinality(w[n + 1]) >= (n + 1) + 1
        BY <3>4, <4>1, <4>2
      <4> QED BY <3>1, <4>3
    <3> QED BY <2>2, <3>2, <3>3, <3>4
  <2>3. \A n \in 0 .. C : n \in P
    <3> HIDE DEF P
    <3> QED BY <1>1, <2>1, <2>2, Counting
  <2> QED BY <2>3
<1>7. Closed(groups, w[C])
  <2>1. C \in 0 .. C /\ Cardinality(w[C]) <= C /\ Cardinality(w[C]) \in Int
    BY <1>1, <1>2
  <2>2. ~ (Cardinality(w[C]) >= C + 1)
    BY <1>1, <2>1
  <2> QED BY <1>6, <2>1, <2>2
<1>8. \A n \in 0 .. C : n \in 0 .. C /\ w[n] \subseteq w[C]
  <2>1. C \in 0 .. C /\ \A n \in 0 .. C : n \in 0 .. C
    BY <1>1
  <2> QED BY <1>5, <2>1
<1> QED BY <1>7, <1>8 DEF C, V

LEMMA SearchStaysIn ==
  ASSUME NEW groups, IsFiniteSet(UNION groups), NEW a, NEW w, Searched(groups, a, w),
         NEW s, a \in s, Closed(groups, s)
  PROVE  \A n \in 0 .. Cardinality(UNION groups) : w[n] \subseteq s
<1> DEFINE C == Cardinality(UNION groups)
           P == {n \in 0 .. C : w[n] \subseteq s}
<1>1. C \in Nat /\ w[0] = {a} /\ \A n \in 1 .. C : w[n] = Wider(groups, w[n - 1])
  BY FS_CardinalityType DEF Searched
<1> HIDE DEF C
<1>2. 0 \in P
  BY <1>1
<1>3. ASSUME NEW n \in 0 .. C, n < C, n \in P PROVE n + 1 \in P
  <2>1. n + 1 \in 1 .. C /\ n + 1 \in 0 .. C /\ (n + 1) - 1 = n
    BY <1>1, <1>3
  <2>2. w[n + 1] = Wider(groups, w[n])
    BY <1>1, <2>1
  <2>3. Wider(groups, w[n]) \subseteq s
    BY <1>3 DEF Wider, Closed
  <2> QED BY <2>1, <2>2, <2>3
<1>4. \A n \in 0 .. C : n \in P
  <2> HIDE DEF P
  <2> QED BY <1>1, <1>2, <1>3, Counting
<1> QED BY <1>4 DEF C

\* A round further from a is a round from a neighbour of a, and so a search
\* finds its way back.
Next2(groups, x, y) == x = y \/ \E g \in groups : x \in g /\ y \in g
LEMMA SearchShifts ==
  ASSUME NEW groups, IsFiniteSet(UNION groups)
  PROVE  \A n \in 0 .. Cardinality(UNION groups) : n < Cardinality(UNION groups) =>
           \A x, y : y \in Search(groups, x)[n + 1] <=>
             \E z : Next2(groups, x, z) /\ y \in Search(groups, z)[n]
<1> DEFINE C == Cardinality(UNION groups)
           W(x) == Search(groups, x)
           N(x, y) == Next2(groups, x, y)
           P == {n \in 0 .. C : n < C => \A x, y : y \in W(x)[n + 1] <=> \E z : N(x, z) /\ y \in W(z)[n]}
<1>1. C \in Nat /\ \A x : W(x)[0] = {x} /\ \A n \in 1 .. C : W(x)[n] = Wider(groups, W(x)[n - 1])
  <2>1. C \in Nat
    BY FS_CardinalityType
  <2>2. ASSUME NEW x
        PROVE  W(x)[0] = {x} /\ \A n \in 1 .. C : W(x)[n] = Wider(groups, W(x)[n - 1])
    <3>1. Searched(groups, x, W(x))
      BY SearchRuns
    <3> HIDE DEF W
    <3> QED BY <3>1 DEF Searched
  <2> HIDE DEF C, W
  <2> QED BY <2>1, <2>2
<1>2. \A W0, y : y \in Wider(groups, W0) <=> \E u : u \in W0 /\ N(u, y)
  BY DEF Wider, Next2
<1> HIDE DEF C, W, N
<1>3. \A n \in 0 .. C : n < C => \A x, y : y \in W(x)[n + 1] <=> \E u : u \in W(x)[n] /\ N(u, y)
  <2> TAKE n \in 0 .. C
  <2> HAVE n < C
  <2>1. n + 1 \in 1 .. C /\ (n + 1) - 1 = n
    BY <1>1
  <2>2. \A x : W(x)[n + 1] = Wider(groups, W(x)[n])
    BY <1>1, <2>1
  <2> QED BY <1>2, <2>2
<1>4. 0 \in P
  <2>1. 0 \in 0 .. C /\ 0 + 1 = 1
    BY <1>1
  <2>2. 0 < C => \A x, y : y \in W(x)[0 + 1] <=> N(x, y)
    <3>1. \A x, u : u \in W(x)[0] <=> u = x
      BY <1>1
    <3> QED BY <1>3, <2>1, <3>1
  <2>3. \A x, y : N(x, y) <=> \E z : N(x, z) /\ y \in W(z)[0]
    BY <1>1
  <2> QED BY <2>1, <2>2, <2>3
<1>5. ASSUME NEW n \in 0 .. C, n < C, n \in P PROVE n + 1 \in P
  <2>1. n + 1 \in 0 .. C
    BY <1>1, <1>5
  <2> SUFFICES ASSUME n + 1 < C, NEW x, NEW y
               PROVE  y \in W(x)[(n + 1) + 1] <=> \E z : N(x, z) /\ y \in W(z)[n + 1]
    BY <2>1
  <2>2. y \in W(x)[(n + 1) + 1] <=> \E u : u \in W(x)[n + 1] /\ N(u, y)
    BY <1>3, <2>1
  <2>3. \A u : u \in W(x)[n + 1] <=> \E z : N(x, z) /\ u \in W(z)[n]
    BY <1>5
  <2>4. \A z : y \in W(z)[n + 1] <=> \E u : u \in W(z)[n] /\ N(u, y)
    BY <1>3, <1>5
  <2> QED BY <2>2, <2>3, <2>4
<1>6. \A n \in 0 .. C : n \in P
  <2> HIDE DEF P
  <2> QED BY <1>1, <1>4, <1>5, Counting
<1> QED BY <1>6 DEF C, W, N

LEMMA SearchIsSymmetric ==
  ASSUME NEW groups, IsFiniteSet(UNION groups)
  PROVE  \A n \in 0 .. Cardinality(UNION groups) :
           \A x, y : y \in Search(groups, x)[n] <=> x \in Search(groups, y)[n]
<1> DEFINE C == Cardinality(UNION groups)
           W(x) == Search(groups, x)
           N(x, y) == Next2(groups, x, y)
           P == {n \in 0 .. C : \A x, y : y \in W(x)[n] <=> x \in W(y)[n]}
<1>1. C \in Nat /\ \A x : W(x)[0] = {x} /\ \A n \in 1 .. C : W(x)[n] = Wider(groups, W(x)[n - 1])
  <2>1. C \in Nat
    BY FS_CardinalityType
  <2>2. ASSUME NEW x
        PROVE  W(x)[0] = {x} /\ \A n \in 1 .. C : W(x)[n] = Wider(groups, W(x)[n - 1])
    <3>1. Searched(groups, x, W(x))
      BY SearchRuns
    <3> HIDE DEF W
    <3> QED BY <3>1 DEF Searched
  <2> HIDE DEF C, W
  <2> QED BY <2>1, <2>2
<1>2. \A n \in 0 .. C : n < C => \A x, y : y \in W(x)[n + 1] <=> \E z : N(x, z) /\ y \in W(z)[n]
  BY SearchShifts
<1>3. \A W0, y : y \in Wider(groups, W0) <=> \E u : u \in W0 /\ N(u, y)
  BY DEF Wider, Next2
<1>4. \A x, y : N(x, y) <=> N(y, x)
  BY DEF Next2
<1> HIDE DEF C, W, N
<1>5. \A n \in 0 .. C : n < C => \A x, y : y \in W(x)[n + 1] <=> \E u : u \in W(x)[n] /\ N(u, y)
  <2> TAKE n \in 0 .. C
  <2> HAVE n < C
  <2>1. n + 1 \in 1 .. C /\ (n + 1) - 1 = n
    BY <1>1
  <2>2. \A x : W(x)[n + 1] = Wider(groups, W(x)[n])
    BY <1>1, <2>1
  <2> QED BY <1>3, <2>2
<1>6. 0 \in P
  <2>1. 0 \in 0 .. C
    BY <1>1
  <2>2. \A x, u : u \in W(x)[0] <=> u = x
    BY <1>1
  <2> QED BY <2>1, <2>2
<1>7. ASSUME NEW n \in 0 .. C, n < C, n \in P PROVE n + 1 \in P
  <2>1. n + 1 \in 0 .. C
    BY <1>1, <1>7
  <2>2. ASSUME NEW x, NEW y PROVE y \in W(x)[n + 1] <=> x \in W(y)[n + 1]
    <3>1. y \in W(x)[n + 1] <=> \E u : u \in W(x)[n] /\ N(u, y)
      BY <1>5, <1>7
    <3>2. x \in W(y)[n + 1] <=> \E u : N(y, u) /\ x \in W(u)[n]
      BY <1>2, <1>7
    <3>3. \A u : u \in W(x)[n] <=> x \in W(u)[n]
      BY <1>7
    <3> QED BY <1>4, <3>1, <3>2, <3>3
  <2> QED BY <2>1, <2>2
<1>8. \A n \in 0 .. C : n \in P
  <2> HIDE DEF P
  <2> QED BY <1>1, <1>6, <1>7, Counting
<1> QED BY <1>8 DEF C, W

\* Distances are rounds of the search or Far, and nothing is at distance 0 of a
\* version but itself.
Rounds(groups, a, b) == {n \in 0 .. Cardinality(UNION groups) : b \in Search(groups, a)[n]}
LEMMA HopsAreRounds ==
  ASSUME NEW groups, IsFiniteSet(UNION groups), NEW a, NEW b
  PROVE  /\ Rounds(groups, a, b) = {} => Hops(groups, a, b) = Far
         /\ Rounds(groups, a, b) # {} =>
              /\ Hops(groups, a, b) \in Rounds(groups, a, b)
              /\ \A n \in Rounds(groups, a, b) : Hops(groups, a, b) <= n
         /\ Hops(groups, a, b) \in Nat
         /\ Hops(groups, a, b) = 0 <=> a = b
<1> DEFINE C == Cardinality(UNION groups)
           w == Search(groups, a)
           steps == {n \in 0 .. C : b \in w[n]}
           h == Hops(groups, a, b)
<1>1. C \in Nat /\ DOMAIN w = 0 .. C /\ w[0] = {a}
  BY FS_CardinalityType, SearchRuns DEF Searched
<1>2. h = IF steps = {} THEN Far ELSE Min(steps)
  <2>1. steps = {n \in DOMAIN w : b \in w[n]}
    BY <1>1
  <2> QED BY <2>1, HopsOfSearch
<1> HIDE DEF h, w, C
<1>3. steps # {} => Min(steps) \in steps /\ \A n \in steps : Min(steps) <= n
  <2>1. steps \subseteq Nat
    BY <1>1
  <2> HIDE DEF steps
  <2> QED BY <2>1, LeastOfNats DEF Min
<1>4. steps # {} => h \in steps /\ \A n \in steps : h <= n
  BY <1>2, <1>3
<1>5. steps = {} => h = Far
  BY <1>2
<1>6. h \in Nat
  BY <1>1, <1>4, <1>5 DEF Far
<1>7. h = 0 <=> a = b
  <2>1. h = 0 => a = b
    <3>1. h = 0 => steps # {} /\ 0 \in steps
      BY <1>4, <1>5 DEF Far
    <3> QED BY <1>1, <3>1
  <2>2. a = b => h = 0
    <3> SUFFICES ASSUME a = b PROVE h = 0
      OBVIOUS
    <3>1. 0 \in steps
      BY <1>1
    <3>2. h <= 0
      BY <1>4, <3>1
    <3> QED BY <1>6, <3>2
  <2> QED BY <2>1, <2>2
<1> QED BY <1>4, <1>5, <1>6, <1>7 DEF h, w, C, Rounds

\* The breadth-first search measures distance in the equivalence the groups
\* generate, as long as fewer versions are named than Far counts.
THEOREM HopsMeasureChains ==
  ASSUME NEW groups, IsFiniteSet(UNION groups), Cardinality(UNION groups) < Far
  PROVE  HopsAreEquivalence(groups)
<1> DEFINE V == UNION groups
           C == Cardinality(V)
           W(x) == Search(groups, x)
           steps(x, y) == {n \in 0 .. C : y \in W(x)[n]}
           h(x, y) == Hops(groups, x, y)
<1>1. C \in Nat /\ C < Far
  BY FS_CardinalityType
<1>2. \A x, y : /\ steps(x, y) = {} => h(x, y) = Far
                /\ steps(x, y) # {} => h(x, y) \in steps(x, y) /\ \A n \in steps(x, y) : h(x, y) <= n
                /\ h(x, y) \in Nat
  BY HopsAreRounds DEF Rounds
<1>3. \A x, y : steps(x, y) = steps(y, x)
  BY SearchIsSymmetric
<1>4. \A x, y : h(x, y) = Far <=> steps(x, y) = {}
  <2>1. \A x, y : \A n \in steps(x, y) : n # Far
    BY <1>1 DEF Far
  <2> HIDE DEF steps, h
  <2> QED BY <1>2, <2>1
<1>5. \A x, y : h(x, y) = h(y, x)
  <2> TAKE x, y
  <2>1. steps(x, y) \subseteq Int
    BY <1>1
  <2> HIDE DEF steps, h
  <2>2. CASE steps(x, y) = {}
    BY <1>2, <1>3, <2>2
  <2>3. CASE steps(x, y) # {}
    <3>1. h(x, y) \in steps(x, y) /\ h(y, x) \in steps(x, y) /\ h(x, y) <= h(y, x) /\ h(y, x) <= h(x, y)
      BY <1>2, <1>3, <2>3
    <3> QED BY <2>1, <3>1
  <2> QED BY <2>2, <2>3
<1>6. ASSUME NEW a \in V, NEW b \in V, steps(a, b) = {}
      PROVE  \E s \in SUBSET V : Closed(groups, s) /\ a \in s /\ b \notin s
  <2>1. /\ \A n \in 0 .. C : W(a)[n] \subseteq W(a)[C]
        /\ Closed(groups, W(a)[C])
    BY SearchRuns, SearchGrows
  <2>2. W(a)[0] = {a} /\ W(a)[C] \in SUBSET V
    <3>1. W(a) \in [0 .. C -> SUBSET ({a} \cup V)] /\ W(a)[0] = {a}
      BY SearchRuns DEF Searched
    <3>2. {a} \cup V = V /\ C \in 0 .. C
      BY <1>1
    <3> HIDE DEF W, V, C
    <3> QED BY <3>1, <3>2
  <2>3. 0 \in 0 .. C /\ C \in 0 .. C
    BY <1>1
  <2>4. b \notin W(a)[C]
    BY <1>6, <2>3
  <2> HIDE DEF W, V, C
  <2> QED BY <2>1, <2>2, <2>3, <2>4
<1>7. ASSUME NEW a \in V, NEW b \in V, NEW s, Closed(groups, s), a \in s, b \notin s
      PROVE  steps(a, b) = {}
  BY <1>7, SearchRuns, SearchStaysIn
<1> HIDE DEF steps, h
<1> QED BY <1>4, <1>5, <1>6, <1>7 DEF HopsAreEquivalence, Closed, h

-----------------------------------------------------------------------------
LEMMA HopsAreNats ==
  ASSUME NEW groups, IsFiniteSet(UNION groups), NEW a, NEW b
  PROVE  Hops(groups, a, b) \in Nat /\ (Hops(groups, a, b) = 0 => a = b)
<1> DEFINE h == Hops(groups, a, b)
<1>1. h \in Nat
  BY HopsAreRounds
<1>2. h = 0 <=> a = b
  BY HopsAreRounds, ZenonT(30)
<1> QED BY <1>1, <1>2

\* How many hops a claim is away from a cell: none exactly when it is about the
\* cell's own versions.
Ruled(stack, rules) ==
  IsFiniteSet(DOMAIN stack) /\ \A k \in DOMAIN stack : IsFiniteSet(UNION rules[k])
LEMMA AppliesIsDistance ==
  ASSUME NEW claim, NEW cell, NEW rules, Ruled(claim.stack, rules)
  PROVE  /\ Applies(claim, cell, rules) \in Nat
         /\ Applies(claim, cell, rules) = 0 =>
              DOMAIN claim.stack \subseteq DOMAIN cell
                /\ \A k \in DOMAIN claim.stack : claim.stack[k] = cell[k]
<1> DEFINE D == DOMAIN claim.stack
           hops(k) == Hops(rules[k], claim.stack[k], cell[k])
           f == [k \in D |-> hops(k)]
           Eq(g) == g = [T \in SUBSET D |->
                           IF T = {} THEN 0 ELSE hops(Pick(T)) + g[T \ {Pick(T)}]]
           sum == CHOOSE g : Eq(g)
<1>1. IsFiniteSet(D) /\ f \in [D -> Nat] /\ f \in [D -> Int]
  <2>1. \A k \in D : hops(k) \in Nat
    BY HopsAreNats DEF Ruled
  <2> HIDE DEF hops, D
  <2>2. f \in [D -> Nat] /\ f \in [D -> Int]
    BY <2>1
  <2> QED BY <2>2 DEF Ruled, D
<1>2. PICK g : Picked(D, f, g)
  <2> HIDE DEF f, D
  <2> QED BY <1>1, PickedExists
<1>3. \A T \in SUBSET D : T # {} => Pick(T) \in D
  BY DEF Pick
<1>4. Eq(g)
  <2> HIDE DEF D, hops
  <2>1. g \in [SUBSET D -> Int] /\ g[{}] = 0
    BY <1>2 DEF Picked
  <2>2. \A T \in SUBSET D : T # {} => g[T] = hops(Pick(T)) + g[T \ {Pick(T)}]
    BY <1>2, <1>3 DEF Picked
  <2> QED BY <2>1, <2>2
<1>5. Eq(sum)
  <2> HIDE DEF Eq
  <2> QED BY <1>4
<1>6. sum = [T \in SUBSET D |-> IF T = {} THEN 0 ELSE f[Pick(T)] + sum[T \ {Pick(T)}]]
  <2> HIDE DEF D, hops, sum
  <2> QED BY <1>3, <1>5
<1>7. Sums(D, f, sum)
  <2> HIDE DEF D, f, sum
  <2> QED BY <1>1, <1>6, PickedByRule
<1>8. MapThenSumSet(hops, D) = sum[D]
  BY DEF MapThenSumSet, MapThenFoldSet, Pick
<1>9. Applies(claim, cell, rules) =
        IF D \subseteq DOMAIN cell /\ \A k \in D : hops(k) # Far THEN sum[D] ELSE Far
  <2> HIDE DEF sum
  <2> QED BY <1>8 DEF Applies
<1>10. sum[D] \in Nat /\ (sum[D] = 0 => \A k \in D : f[k] = 0)
  <2> HIDE DEF D, f, sum
  <2> QED BY <1>1, <1>7, SumsOfNats
<1>11. \A k \in D : f[k] = 0 => claim.stack[k] = cell[k]
  <2>1. ASSUME NEW k \in D, f[k] = 0 PROVE claim.stack[k] = cell[k]
    <3>1. IsFiniteSet(UNION rules[k]) /\ Hops(rules[k], claim.stack[k], cell[k]) = 0
      BY <2>1 DEF Ruled
    <3> DEFINE g0 == rules[k]
               a == claim.stack[k]
               b == cell[k]
    <3> HIDE DEF g0, a, b
    <3>2. IsFiniteSet(UNION g0) /\ Hops(g0, a, b) = 0
      BY <3>1 DEF g0, a, b
    <3>3. a = b
      BY <3>2, HopsAreNats
    <3> QED BY <3>3 DEF a, b
  <2> QED BY <2>1
<1> HIDE DEF D, f, sum, hops
<1>12. Applies(claim, cell, rules) \in Nat
  BY <1>9, <1>10 DEF Far
<1>13. Applies(claim, cell, rules) = 0 => D \subseteq DOMAIN cell /\ \A k \in D : f[k] = 0
  BY <1>9, <1>10 DEF Far
<1> QED BY <1>11, <1>12, <1>13 DEF D

\* What a claim offers as an answer, from some hops away.
Sure == {x \in Nat : x <= Full}
Answers(Words) == [works : Words, conf : Sure, basis : Words]
Claims(Stacks, Words) == [stack : Stacks, works : Words, conf : Sure, source : Words]
Spoken(Words) == {"unknown", "no claim", "inferred", "verified"} \subseteq Words
Offer(claim, hops) ==
  [works |-> claim.works, conf |-> Decayed(claim.conf, hops),
   basis |-> IF hops # 0 THEN "inferred"
             ELSE IF claim.conf = Full THEN "verified" ELSE claim.source]

LEMMA Offered ==
  ASSUME NEW Stacks, NEW Words, Spoken(Words), NEW claim \in Claims(Stacks, Words), NEW hops \in Nat
  PROVE  /\ Offer(claim, hops) \in Answers(Words)
         /\ Offer(claim, hops).works = claim.works
         /\ Offer(claim, hops).conf = Full <=> hops = 0 /\ claim.conf = Full
         /\ Offer(claim, hops).basis = "inferred" => Offer(claim, hops).conf # Full
         /\ Offer(claim, hops).basis = "verified" => hops = 0
         /\ Offer(claim, hops).conf = Full => Offer(claim, hops).basis = "verified"
<1>1. claim.conf \in Sure /\ claim.works \in Words /\ claim.source \in Words
  BY DEF Claims
<1>2. claim.conf \in 0 .. Full
  BY <1>1, FullIs DEF Sure
<1>3. /\ Decayed(claim.conf, hops) \in 0 .. Full
      /\ hops = 0 => Decayed(claim.conf, hops) = claim.conf
      /\ Decayed(claim.conf, hops) = Full => hops = 0
  BY <1>2, ConfidenceDecays
<1>4. Decayed(claim.conf, hops) \in Sure
  BY <1>3, FullIs DEF Sure
<1> DEFINE basis == IF hops # 0 THEN "inferred" ELSE IF claim.conf = Full THEN "verified" ELSE claim.source
           conf == Decayed(claim.conf, hops)
<1>5. basis \in Words
  BY <1>1 DEF Spoken
<1>6. conf = Full <=> hops = 0 /\ claim.conf = Full
  BY <1>3
<1>7. /\ basis = "inferred" => conf # Full
      /\ basis = "verified" => hops = 0
      /\ conf = Full => basis = "verified"
  BY <1>6
<1>8. Offer(claim, hops) = [works |-> claim.works, conf |-> conf, basis |-> basis]
  BY DEF Offer
<1> HIDE DEF conf, basis
<1> DEFINE o == Offer(claim, hops)
<1>9. o.works = claim.works /\ o.conf = conf /\ o.basis = basis
  BY <1>8
<1>10. o \in Answers(Words)
  BY <1>1, <1>4, <1>5, <1>8 DEF Answers, conf
<1> HIDE DEF o
<1> QED BY <1>6, <1>7, <1>9, <1>10 DEF o

LEMMA Judges ==
  ASSUME NEW best, NEW claim, NEW hops
  PROVE  Judge(best, claim, hops) =
           IF hops = Far THEN best
           ELSE IF best = Unknown \/ Offer(claim, hops).conf > best.conf THEN Offer(claim, hops)
           ELSE best
BY DEF Judge, Offer

\* The run of a query, from claim to claim.
Querying(Stacks, Words, claims, rules) ==
  /\ Spoken(Words) /\ claims \in Seq(Claims(Stacks, Words))
  /\ \A s \in Stacks : Ruled(s, rules)
Queried(Words, claims, cell, rules, v) ==
  \E run \in [0 .. Len(claims) -> Answers(Words)] :
    /\ run[0] = Unknown /\ v = run[Len(claims)]
    /\ \A i \in 1 .. Len(claims) :
         run[i] = Judge(run[i - 1], claims[i], Applies(claims[i], cell, rules))

LEMMA QueryRuns ==
  ASSUME NEW Stacks, NEW Words, NEW claims, NEW cell, NEW rules,
         Querying(Stacks, Words, claims, rules)
  PROVE  /\ Queried(Words, claims, cell, rules, Query(claims, cell, rules))
         /\ Len(claims) \in Nat /\ DOMAIN claims = 1 .. Len(claims)
         /\ \A i \in 1 .. Len(claims) : /\ claims[i] \in Claims(Stacks, Words)
                                        /\ Applies(claims[i], cell, rules) \in Nat
<1> DEFINE s == claims
<1> DEFINE N == Len(s)
           S == Answers(Words)
           step == [p \in (1 .. N) \X S |-> Judge(p[2], s[p[1]], Applies(s[p[1]], cell, rules))]
           Eq(g) == g = [T \in SUBSET (1 .. N) |-> IF T = {} THEN Unknown ELSE Judge(g[T \ {Max(T)}], s[Max(T)], Applies(s[Max(T)], cell, rules))]
           iter == CHOOSE g : Eq(g)
<1>1. /\ N \in Nat /\ DOMAIN s = 1 .. N
      /\ \A i \in 1 .. N : s[i] \in Claims(Stacks, Words) /\ Applies(s[i], cell, rules) \in Nat
  <2>1. s \in Seq(Claims(Stacks, Words))
    BY DEF Querying
  <2>2. \A c \in Claims(Stacks, Words) : Ruled(c.stack, rules)
    BY DEF Querying, Claims
  <2>3. \A c \in Claims(Stacks, Words) : Applies(c, cell, rules) \in Nat
    BY <2>2, AppliesIsDistance
  <2> HIDE DEF s
  <2> QED BY <2>1, <2>3
<1>2. Stepped(N, S, Unknown, step)
  <2>1. Unknown \in S
    <3>1. 0 \in Sure /\ "unknown" \in Words /\ "no claim" \in Words
      <4>1. 0 \in Sure
        BY FullIs DEF Sure
      <4>2. "unknown" \in Words /\ "no claim" \in Words
        BY DEF Querying, Spoken
      <4> QED BY <4>1, <4>2
    <3> QED BY <3>1 DEF Unknown, Answers
  <2>2. ASSUME NEW b \in S, NEW c \in Claims(Stacks, Words), NEW h \in Nat PROVE Judge(b, c, h) \in S
    <3>1. Offer(c, h) \in S
      BY Offered DEF Querying
    <3> HIDE DEF S
    <3> QED BY <2>2, <3>1, Judges
  <2> HIDE DEF S, N, s
  <2> QED BY <1>1, <2>1, <2>2 DEF Stepped
<1>3. PICK g : IsFold(N, S, Unknown, step, g)
  <2> HIDE DEF step, N, S
  <2> QED BY <1>1, <1>2, FoldExists
<1>4. ASSUME NEW T \in SUBSET (1 .. N), T # {}, Max(T) \in T, NEW h, h[T \ {Max(T)}] \in S
      PROVE  step[<<Max(T), h[T \ {Max(T)}]>>] = Judge(h[T \ {Max(T)}], s[Max(T)], Applies(s[Max(T)], cell, rules))
  <2> HIDE DEF N, S
  <2> QED BY <1>4
<1>5. Eq(g)
  <2> HIDE DEF N, S, step
  <2>1. ASSUME NEW T \in SUBSET (1 .. N), T # {}
        PROVE  g[T] = Judge(g[T \ {Max(T)}], s[Max(T)], Applies(s[Max(T)], cell, rules))
    <3>1. Max(T) \in T /\ g[T \ {Max(T)}] \in S /\ g[T] = step[<<Max(T), g[T \ {Max(T)}]>>]
      BY <1>3, <2>1 DEF IsFold
    <3> QED BY <1>4, <2>1, <3>1
  <2>2. g \in [SUBSET (1 .. N) -> S] /\ g[{}] = Unknown
    BY <1>3 DEF IsFold
  <2> QED BY <2>1, <2>2
<1>6. Eq(iter)
  <2> HIDE DEF Eq
  <2> QED BY <1>5
<1>7. RunsTo(N, S, Unknown, step, iter[1 .. N])
  <2> HIDE DEF N, S, step, iter
  <2>1. iter[{}] = Unknown
    BY <1>6
  <2>2. ASSUME NEW i \in 1 .. N, iter[(1 .. i) \ {Max(1 .. i)}] \in S
        PROVE  iter[1 .. i] = step[<<Max(1 .. i), iter[(1 .. i) \ {Max(1 .. i)}]>>]
    <3> DEFINE D == 1 .. i
    <3>1. D \in SUBSET (1 .. N) /\ D # {} /\ Max(D) \in D
      BY <1>1, Places
    <3> HIDE DEF D
    <3>2. iter[D] = Judge(iter[D \ {Max(D)}], s[Max(D)], Applies(s[Max(D)], cell, rules))
      BY <1>6, <3>1
    <3>3. iter[D \ {Max(D)}] \in S
      BY <2>2 DEF D
    <3>4. iter[D] = step[<<Max(D), iter[D \ {Max(D)}]>>]
      BY <1>4, <3>1, <3>2, <3>3
    <3> QED BY <3>4 DEF D
  <2> QED BY <1>1, <1>2, <2>1, <2>2, FoldIsRun, ZenonT(30)
<1>8. Query(claims, cell, rules) = iter[1 .. N]
  BY <1>1 DEF Query, FoldLeft, MapThenFoldSet
<1>9. \A run \in [0 .. N -> S] : \A i \in 1 .. N : step[<<i, run[i - 1]>>] =
        Judge(run[i - 1], s[i], Applies(s[i], cell, rules))
  <2> HIDE DEF N, S
  <2> QED BY <1>1
<1> HIDE DEF step, iter, N, s, S
<1>10. \E run \in [0 .. N -> S] :
         /\ run[0] = Unknown /\ Query(claims, cell, rules) = run[N]
         /\ \A i \in 1 .. N : run[i] = Judge(run[i - 1], s[i], Applies(s[i], cell, rules))
  BY <1>7, <1>8, <1>9 DEF RunsTo
<1> QED BY <1>1, <1>10 DEF N, s, S, Queried

\* A query answers with the best offer there is.
BestOffer(claims, cell, rules, v) ==
  LET hops(i) == Applies(claims[i], cell, rules) IN
  /\ \/ v = Unknown
     \/ \E i \in DOMAIN claims : hops(i) # Far /\ v = Offer(claims[i], hops(i))
  /\ \A i \in DOMAIN claims : hops(i) # Far => Offer(claims[i], hops(i)).conf <= v.conf

LEMMA QueryIsBest ==
  ASSUME NEW Stacks, NEW Words, NEW claims, NEW cell, NEW rules,
         Querying(Stacks, Words, claims, rules)
  PROVE  /\ Query(claims, cell, rules) \in Answers(Words)
         /\ BestOffer(claims, cell, rules, Query(claims, cell, rules))
<1> DEFINE N == Len(claims)
           hops(i) == Applies(claims[i], cell, rules)
           offer(i) == Offer(claims[i], hops(i))
           v == Query(claims, cell, rules)
<1>1. N \in Nat /\ DOMAIN claims = 1 .. N /\ \A i \in 1 .. N : hops(i) \in Nat /\ offer(i) \in Answers(Words)
  BY QueryRuns, Offered DEF Querying
<1>2. PICK run \in [0 .. N -> Answers(Words)] :
        /\ run[0] = Unknown /\ v = run[N]
        /\ \A i \in 1 .. N : run[i] = Judge(run[i - 1], claims[i], hops(i))
  <2>1. Queried(Words, claims, cell, rules, Query(claims, cell, rules))
    BY QueryRuns
  <2> QED BY <2>1 DEF Queried
<1>3. \A i \in 1 .. N : run[i] =
        IF hops(i) = Far THEN run[i - 1]
        ELSE IF run[i - 1] = Unknown \/ offer(i).conf > run[i - 1].conf THEN offer(i)
        ELSE run[i - 1]
  BY <1>2, Judges
<1>4. Unknown.conf = 0 /\ \A a \in Answers(Words) : a.conf \in Nat
  BY DEF Unknown, Answers, Sure
<1> HIDE DEF N, hops, offer, v
<1> DEFINE P == {n \in 0 .. N :
                   /\ run[n] = Unknown \/ \E i \in 1 .. n : hops(i) # Far /\ run[n] = offer(i)
                   /\ \A i \in 1 .. n : hops(i) # Far => offer(i).conf <= run[n].conf}
<1>5. 0 \in P
  BY <1>1, <1>2
<1>6. ASSUME NEW n \in 0 .. N, n < N, n \in P PROVE n + 1 \in P
  <2>1. n + 1 \in 1 .. N /\ n + 1 \in 0 .. N /\ (n + 1) - 1 = n /\ n \in Nat
    BY <1>1, <1>6
  <2>2. run[n + 1] =
          IF hops(n + 1) = Far THEN run[n]
          ELSE IF run[n] = Unknown \/ offer(n + 1).conf > run[n].conf THEN offer(n + 1)
          ELSE run[n]
    BY <1>3, <2>1
  <2>3. run[n].conf \in Nat /\ run[n + 1].conf \in Nat /\ \A i \in 1 .. N : offer(i).conf \in Nat
    BY <1>1, <1>2, <1>4, <2>1
  <2>4. \A i \in 1 .. (n + 1) : i \in 1 .. N /\ (i \in 1 .. n \/ i = n + 1)
    BY <1>1, <2>1
  <2>5. n + 1 \in 1 .. (n + 1) /\ \A i \in 1 .. n : i \in 1 .. (n + 1) /\ i \in 1 .. N
    BY <1>1, <2>1
  <2>6. run[n] = Unknown \/ \E i \in 1 .. n : hops(i) # Far /\ run[n] = offer(i)
    BY <1>6
  <2>7. \A i \in 1 .. n : hops(i) # Far => offer(i).conf <= run[n].conf
    BY <1>6
  <2>8. run[n] = Unknown => run[n].conf = 0
    BY <1>4
  <2>9. run[n + 1] = Unknown \/ \E i \in 1 .. (n + 1) : hops(i) # Far /\ run[n + 1] = offer(i)
    BY <2>2, <2>5, <2>6
  <2>10. run[n].conf <= run[n + 1].conf
    BY <2>1, <2>2, <2>3, <2>8
  <2>11. ASSUME NEW i \in 1 .. (n + 1), hops(i) # Far PROVE offer(i).conf <= run[n + 1].conf
    <3>1. CASE i \in 1 .. n
      <4>1. offer(i).conf <= run[n].conf /\ offer(i).conf \in Nat
        BY <2>3, <2>4, <2>7, <2>11, <3>1
      <4> QED BY <2>3, <2>10, <4>1
    <3>2. CASE i = n + 1
      BY <2>1, <2>2, <2>3, <2>11, <3>2
    <3> QED BY <2>4, <3>1, <3>2
  <2> QED BY <2>1, <2>9, <2>11
<1>7. \A n \in 0 .. N : n \in P
  <2> HIDE DEF P
  <2> QED BY <1>1, <1>5, <1>6, Counting
<1>8. N \in P /\ N \in 0 .. N
  BY <1>1, <1>7
<1>9. v \in Answers(Words)
  BY <1>2, <1>8
<1> QED BY <1>1, <1>2, <1>8, <1>9 DEF BestOffer, hops, offer, v

\* The surest answer does not depend on the order of the claims, and more claims
\* never make it less sure.
LEMMA MoreIsSurer ==
  ASSUME NEW Stacks, NEW Words, NEW claims, NEW more, NEW cell, NEW rules,
         Querying(Stacks, Words, claims, rules), Querying(Stacks, Words, more, rules),
         \A i \in DOMAIN claims : \E j \in DOMAIN more : claims[i] = more[j]
  PROVE  Query(claims, cell, rules).conf <= Query(more, cell, rules).conf
<1> DEFINE v == Query(claims, cell, rules)
           w == Query(more, cell, rules)
<1>1. v.conf \in Nat /\ w.conf \in Nat
  BY QueryIsBest DEF Answers, Sure
<1>2. BestOffer(claims, cell, rules, v) /\ BestOffer(more, cell, rules, w)
  BY QueryIsBest
<1> HIDE DEF v, w
<1>3. v = Unknown => v.conf <= w.conf
  <2>1. Unknown.conf = 0
    BY DEF Unknown
  <2> QED BY <1>1, <2>1
<1>4. ASSUME v # Unknown PROVE v.conf <= w.conf
  <2>1. PICK i \in DOMAIN claims : /\ Applies(claims[i], cell, rules) # Far
                                   /\ v = Offer(claims[i], Applies(claims[i], cell, rules))
    BY <1>2, <1>4 DEF BestOffer
  <2>2. PICK j \in DOMAIN more : claims[i] = more[j]
    OBVIOUS
  <2>3. Offer(more[j], Applies(more[j], cell, rules)).conf <= w.conf
    BY <1>2, <2>1, <2>2 DEF BestOffer
  <2> QED BY <2>1, <2>2, <2>3
<1> QED BY <1>3, <1>4 DEF v, w

\* A certain answer is that of a certain claim about the cell's own versions.
LEMMA CertainIsDirect ==
  ASSUME NEW Stacks, NEW Words, NEW claims, NEW cell, NEW rules,
         Querying(Stacks, Words, claims, rules),
         Query(claims, cell, rules).conf = Full
  PROVE  \E i \in DOMAIN claims : /\ Applies(claims[i], cell, rules) = 0
                                  /\ claims[i].conf = Full
                                  /\ claims[i].works = Query(claims, cell, rules).works
                                  /\ Query(claims, cell, rules).basis = "verified"
<1> DEFINE v == Query(claims, cell, rules)
           hops(i) == Applies(claims[i], cell, rules)
<1>1. BestOffer(claims, cell, rules, v)
  BY QueryIsBest
<1>2. \A i \in DOMAIN claims : hops(i) \in Nat /\ claims[i] \in Claims(Stacks, Words)
  BY QueryRuns
<1>3. v # Unknown
  <2>1. Unknown.conf = 0 /\ v.conf = Full
    BY DEF Unknown
  <2> HIDE DEF v
  <2> QED BY <2>1, FullIs
<1>4. PICK i \in DOMAIN claims : v = Offer(claims[i], hops(i))
  <2> HIDE DEF v
  <2> QED BY <1>1, <1>3 DEF BestOffer
<1>5. Spoken(Words)
  BY DEF Querying
<1>6. /\ v.works = claims[i].works
      /\ v.conf = Full <=> hops(i) = 0 /\ claims[i].conf = Full
      /\ v.conf = Full => v.basis = "verified"
  <2> DEFINE c == claims[i]
             h == hops(i)
  <2>1. c \in Claims(Stacks, Words) /\ h \in Nat /\ v = Offer(c, h)
    BY <1>2, <1>4
  <2> HIDE DEF v, c, h
  <2>2. /\ v.works = c.works
        /\ v.conf = Full <=> h = 0 /\ c.conf = Full
        /\ v.conf = Full => v.basis = "verified"
    BY <1>5, <2>1, Offered
  <2> QED BY <2>2 DEF c, h
<1> QED BY <1>6

\* A claim that does not apply changes nothing.
LEMMA IdleClaims ==
  ASSUME NEW Stacks, NEW Words, NEW claims, NEW cell, NEW rules,
         Querying(Stacks, Words, claims, rules),
         NEW i \in 1 .. Len(claims), Applies(claims[i], cell, rules) = Far
  PROVE  Query(RemoveAt(claims, i), cell, rules) = Query(claims, cell, rules)
<1> DEFINE N == Len(claims)
           t == RemoveAt(claims, i)
           hops(c) == Applies(c, cell, rules)
<1>1. /\ N \in Nat /\ i \in 1 .. N /\ Len(t) = N - 1 /\ Querying(Stacks, Words, t, rules)
      /\ \A k \in 1 .. (N - 1) : t[k] = claims[IF k < i THEN k ELSE k + 1]
  <2>1. claims \in Seq(Claims(Stacks, Words))
    BY DEF Querying
  <2>2. /\ t \in Seq(Claims(Stacks, Words)) /\ Len(t) = N - 1
        /\ \A k \in 1 .. (N - 1) : t[k] = claims[IF k < i THEN k ELSE k + 1]
    BY <2>1, Removed
  <2>3. N \in Nat /\ i \in 1 .. N
    BY <2>1
  <2> HIDE DEF t, N
  <2> QED BY <2>2, <2>3 DEF Querying
<1>2. PICK a \in [0 .. N -> Answers(Words)] :
        /\ a[0] = Unknown /\ Query(claims, cell, rules) = a[N]
        /\ \A k \in 1 .. N : a[k] = Judge(a[k - 1], claims[k], hops(claims[k]))
  <2>1. Queried(Words, claims, cell, rules, Query(claims, cell, rules))
    BY QueryRuns
  <2> QED BY <2>1 DEF Queried
<1> HIDE DEF t
<1>3. PICK b \in [0 .. (N - 1) -> Answers(Words)] :
        /\ b[0] = Unknown /\ Query(t, cell, rules) = b[N - 1]
        /\ \A k \in 1 .. (N - 1) : b[k] = Judge(b[k - 1], t[k], hops(t[k]))
  <2>1. Queried(Words, t, cell, rules, Query(t, cell, rules))
    BY <1>1, QueryRuns
  <2> QED BY <1>1, <2>1 DEF Queried
<1>4. a[i] = a[i - 1]
  BY <1>1, <1>2, Judges
<1> HIDE DEF N, hops
<1> DEFINE P == {k \in 0 .. (N - 1) : b[k] = IF k < i THEN a[k] ELSE a[k + 1]}
<1>5. 0 \in P
  <2>1. 0 \in 0 .. (N - 1)
    BY <1>1
  <2>2. ~(0 < i) => FALSE
    BY <1>1
  <2> QED BY <1>2, <1>3, <2>1, <2>2
<1>6. ASSUME NEW k \in 0 .. (N - 1), k < N - 1, k \in P PROVE k + 1 \in P
  <2>1. /\ k + 1 \in 1 .. (N - 1) /\ (k + 1) - 1 = k /\ (k + 1) + 1 = k + 2
        /\ k + 1 \in 1 .. N /\ k + 2 \in 1 .. N /\ (k + 2) - 1 = k + 1 /\ k \in Nat /\ i \in Nat
        /\ k + 1 \in 0 .. (N - 1)
    BY <1>1, <1>6
  <2>2. b[k + 1] = Judge(b[k], t[k + 1], hops(t[k + 1]))
    BY <1>3, <2>1
  <2>3. /\ a[k + 1] = Judge(a[k], claims[k + 1], hops(claims[k + 1]))
        /\ a[k + 2] = Judge(a[k + 1], claims[k + 2], hops(claims[k + 2]))
    BY <1>2, <2>1
  <2>4. t[k + 1] = IF k + 1 < i THEN claims[k + 1] ELSE claims[k + 2]
    BY <1>1, <2>1
  <2>5. b[k] = IF k < i THEN a[k] ELSE a[k + 1]
    BY <1>6
  <2>6. CASE k + 1 < i
    <3>1. k < i
      BY <2>1, <2>6
    <3>2. b[k + 1] = a[k + 1]
      BY <2>2, <2>3, <2>4, <2>5, <2>6, <3>1
    <3> QED BY <2>1, <2>6, <3>2
  <2>7. CASE ~(k + 1 < i)
    <3>1. b[k] = a[k + 1]
      <4>1. CASE k < i
        <5>1. i = k + 1 /\ i - 1 = k
          BY <2>1, <2>7, <4>1
        <5> QED BY <1>4, <2>5, <4>1, <5>1
      <4>2. CASE ~(k < i)
        BY <2>5, <4>2
      <4> QED BY <4>1, <4>2
    <3>2. b[k + 1] = a[k + 2]
      BY <2>2, <2>3, <2>4, <2>7, <3>1
    <3> QED BY <2>1, <2>7, <3>2
  <2> QED BY <2>6, <2>7
<1>7. \A k \in 0 .. (N - 1) : k \in P
  <2>1. N - 1 \in Nat
    BY <1>1
  <2> HIDE DEF P
  <2> QED BY <1>5, <1>6, <2>1, Counting
<1>8. b[N - 1] = a[N]
  <2>1. N - 1 \in 0 .. (N - 1) /\ (N - 1) + 1 = N
    BY <1>1
  <2>2. b[N - 1] = IF N - 1 < i THEN a[N - 1] ELSE a[N]
    BY <1>7, <2>1
  <2>3. CASE N - 1 < i
    <3>1. i = N
      BY <1>1, <2>3
    <3> QED BY <1>4, <2>2, <2>3, <3>1
  <2> QED BY <2>2, <2>3
<1> QED BY <1>2, <1>3, <1>8 DEF t

\* Answers rest on the claims there are: a certain one settles its cell, nothing
\* inferred is as sure, a direct one gives way only to one as sure, and claims
\* only add.
THEOREM QueriesAreGrounded ==
  ASSUME NEW Stacks, NEW Words, NEW claims, NEW cell, NEW rules,
         Querying(Stacks, Words, claims, rules)
  PROVE  QueryIsGrounded(claims, cell, rules)
<1> DEFINE v == Query(claims, cell, rules)
           N == Len(claims)
           hops(i) == Applies(claims[i], cell, rules)
<1>1. /\ N \in Nat /\ DOMAIN claims = 1 .. N /\ claims \in Seq(Claims(Stacks, Words))
      /\ \A i \in 1 .. N : hops(i) \in Nat /\ claims[i] \in Claims(Stacks, Words)
  BY QueryRuns DEF Querying
<1>2. v \in Answers(Words) /\ BestOffer(claims, cell, rules, v)
  BY QueryIsBest
<1>3. ASSUME NEW i \in 1 .. N, hops(i) = 0, claims[i].conf = Full PROVE v.conf = Full
  <2>1. Offer(claims[i], hops(i)).conf = Full
    BY <1>1, <1>3, Offered DEF Querying
  <2>2. hops(i) # Far
    BY <1>3 DEF Far
  <2>3. Offer(claims[i], hops(i)).conf <= v.conf
    BY <1>1, <1>2, <2>2 DEF BestOffer
  <2>4. v.conf \in Nat /\ v.conf <= Full
    BY <1>2 DEF Answers, Sure
  <2> HIDE DEF v, hops
  <2> QED BY <2>1, <2>3, <2>4, FullIs
<1>4. v.conf = Full => \E i \in 1 .. N : hops(i) = 0 /\ claims[i].conf = Full /\ claims[i].works = v.works
  BY <1>1, CertainIsDirect
<1>5. v.basis = "inferred" => v.conf < Full
  <2> SUFFICES ASSUME v.basis = "inferred" PROVE v.conf < Full
    OBVIOUS
  <2>1. v.conf \in Nat /\ v.conf <= Full
    BY <1>2 DEF Answers, Sure
  <2>2. v.conf = Full => v.basis = "verified"
    BY CertainIsDirect
  <2> HIDE DEF v
  <2> QED BY <2>1, <2>2, FullIs
<1>6. ASSUME NEW i \in 1 .. N
      PROVE  /\ Query(RemoveAt(claims, i), cell, rules).conf <= v.conf
             /\ hops(i) = Far => Query(RemoveAt(claims, i), cell, rules) = v
  <2>1. hops(i) = Far => Query(RemoveAt(claims, i), cell, rules) = v
    BY IdleClaims
  <2> DEFINE t == RemoveAt(claims, i)
  <2>2. /\ t \in Seq(Claims(Stacks, Words)) /\ Len(t) = N - 1 /\ DOMAIN t = 1 .. (N - 1)
        /\ \A k \in 1 .. (N - 1) : t[k] = claims[IF k < i THEN k ELSE k + 1]
    <3>1. /\ t \in Seq(Claims(Stacks, Words)) /\ Len(t) = N - 1
          /\ \A k \in 1 .. (N - 1) : t[k] = claims[IF k < i THEN k ELSE k + 1]
      BY <1>1, Removed
    <3> HIDE DEF t
    <3> QED BY <3>1
  <2> HIDE DEF t
  <2>3. Querying(Stacks, Words, t, rules)
    BY <2>2 DEF Querying
  <2>4. \A k \in DOMAIN t : \E j \in DOMAIN claims : t[k] = claims[j]
    <3>1. ASSUME NEW k \in 1 .. (N - 1) PROVE (IF k < i THEN k ELSE k + 1) \in 1 .. N
      <4> HIDE DEF N
      <4> QED BY <1>1
    <3> HIDE DEF N
    <3> QED BY <1>1, <2>2, <3>1
  <2>5. Query(t, cell, rules).conf <= v.conf
    BY <2>3, <2>4, MoreIsSurer
  <2> QED BY <2>1, <2>5 DEF t
<1>8. ASSUME NEW i \in 1 .. N, hops(i) = 0 PROVE claims[i].conf <= v.conf
  <2>1. Offer(claims[i], hops(i)).conf = claims[i].conf
    BY <1>1, <1>8, ConfidenceDecays, FullIs DEF Offer, Claims, Sure
  <2>2. hops(i) # Far
    BY <1>8 DEF Far
  <2>3. Offer(claims[i], hops(i)).conf <= v.conf
    BY <1>1, <1>2, <2>2 DEF BestOffer
  <2> HIDE DEF v, hops
  <2> QED BY <2>1, <2>3
<1> HIDE DEF v, N, hops
<1>7. QueryIsGrounded(claims, cell, rules) <=>
        /\ (\E i \in {j \in 1 .. N : hops(j) = 0} : claims[i].conf = Full) =>
             v.conf = Full /\ \E i \in {j \in 1 .. N : hops(j) = 0} :
                                claims[i].conf = Full /\ claims[i].works = v.works
        /\ v.basis = "inferred" => v.conf < Full
        /\ \A i \in {j \in 1 .. N : hops(j) = 0} : claims[i].conf <= v.conf
        /\ \A i \in 1 .. N : /\ Query(RemoveAt(claims, i), cell, rules).conf <= v.conf
                             /\ hops(i) = Far => Query(RemoveAt(claims, i), cell, rules) = v
  BY <1>1 DEF QueryIsGrounded, v, hops
<1> QED BY <1>3, <1>4, <1>5, <1>6, <1>7, <1>8

\* The order of the claims shows in a certain answer only in a contradiction.
THEOREM OrderShowsInConflict ==
  ASSUME NEW Stacks, NEW Words, NEW claims, NEW cell, NEW rules,
         Querying(Stacks, Words, claims, rules),
         cell = [k \in DOMAIN cell |-> cell[k]],
         \A s \in Stacks : s = [k \in DOMAIN s |-> s[k]]
  PROVE  OrderShowsOnlyInConflict(claims, cell, rules)
<1> DEFINE N == Len(claims)
           back == Reverse(claims)
           v == Query(claims, cell, rules)
           w == Query(back, cell, rules)
<1>1. /\ N \in Nat /\ DOMAIN claims = 1 .. N /\ claims \in Seq(Claims(Stacks, Words))
      /\ \A i \in 1 .. N : claims[i] \in Claims(Stacks, Words)
  BY QueryRuns DEF Querying
<1>2. /\ back \in Seq(Claims(Stacks, Words)) /\ DOMAIN back = 1 .. N
      /\ \A i \in 1 .. N : back[i] = claims[(N - i) + 1] /\ (N - i) + 1 \in 1 .. N
  <2>1. back = [i \in 1 .. N |-> claims[(N - i) + 1]]
    BY DEF Reverse
  <2>2. \A i \in 1 .. N : (N - i) + 1 \in 1 .. N
    <3> HIDE DEF N
    <3> QED BY <1>1
  <2> HIDE DEF N, back
  <2>3. \A i \in 1 .. N : back[i] \in Claims(Stacks, Words)
    BY <1>1, <2>1, <2>2
  <2>4. back \in [1 .. N -> Claims(Stacks, Words)]
    BY <2>1, <2>3
  <2>5. back \in Seq(Claims(Stacks, Words))
    BY <1>1, <2>4
  <2> QED BY <2>1, <2>2, <2>5
<1>3. Querying(Stacks, Words, back, rules)
  <2> HIDE DEF back
  <2> QED BY <1>2 DEF Querying
<1> HIDE DEF N, back
<1>4. \A i \in DOMAIN back : \E j \in DOMAIN claims : back[i] = claims[j]
  BY <1>1, <1>2
<1>5. \A i \in DOMAIN claims : \E j \in DOMAIN back : claims[i] = back[j]
  <2>1. \A i \in 1 .. N : (N - ((N - i) + 1)) + 1 = i /\ (N - i) + 1 \in 1 .. N
    BY <1>1
  <2>2. \A i \in 1 .. N : claims[i] = back[(N - i) + 1]
    BY <1>2, <2>1
  <2> QED BY <1>1, <1>2, <2>1, <2>2
<1>6. v.conf = w.conf
  <2>1. v.conf <= w.conf /\ w.conf <= v.conf
    BY <1>3, <1>4, <1>5, MoreIsSurer
  <2>2. v.conf \in Nat /\ w.conf \in Nat
    BY <1>3, QueryIsBest DEF Answers, Sure
  <2> HIDE DEF v, w
  <2> QED BY <2>1, <2>2
<1>7. ASSUME v.works # w.works, v.conf = Full, \A i \in 1 .. N : DOMAIN claims[i].stack = DOMAIN cell
      PROVE  cell \in Contradictions(claims)
  <2>1. PICK i \in 1 .. N : /\ Applies(claims[i], cell, rules) = 0 /\ claims[i].conf = Full
                            /\ claims[i].works = v.works
    BY <1>1, <1>7, CertainIsDirect
  <2>2. PICK k \in DOMAIN back : /\ Applies(back[k], cell, rules) = 0 /\ back[k].conf = Full
                                 /\ back[k].works = w.works
    <3>1. w.conf = Full
      BY <1>6, <1>7
    <3> QED BY <1>3, <3>1, CertainIsDirect
  <2>3. PICK j \in 1 .. N : claims[j] = back[k]
    BY <1>1, <1>4
  <2>4. ASSUME NEW n \in 1 .. N, Applies(claims[n], cell, rules) = 0 PROVE claims[n].stack = cell
    <3> DEFINE s == claims[n].stack
    <3>1. s \in Stacks
      BY <1>1 DEF Claims
    <3>2. Ruled(s, rules)
      BY <3>1 DEF Querying
    <3>3. \A m \in DOMAIN s : s[m] = cell[m]
      BY <2>4, <3>2, AppliesIsDistance
    <3>4. DOMAIN s = DOMAIN cell
      BY <1>7
    <3> HIDE DEF s
    <3>5. s = [m \in DOMAIN s |-> s[m]]
      BY <3>1
    <3>6. s = cell
      BY <3>3, <3>4, <3>5
    <3> QED BY <3>6 DEF s
  <2>5. claims[i].stack = cell /\ claims[j].stack = cell
    BY <2>1, <2>2, <2>3, <2>4
  <2>6. claims[i].conf = Full /\ claims[j].conf = Full /\ claims[i].works # claims[j].works
    BY <1>7, <2>1, <2>2, <2>3
  <2> QED BY <1>1, <2>5, <2>6 DEF Contradictions
<1> QED BY <1>1, <1>6, <1>7 DEF OrderShowsOnlyInConflict, back

\* The cell that is proposed misses a certain answer, and no other that does is
\* worth more.
THEOREM ProposalsAreWorthIt ==
  ASSUME NEW Stacks, NEW Words, NEW claims, NEW rules, Querying(Stacks, Words, claims, rules),
         NEW universe \in Seq(Stacks)
  PROVE  NextIsWorthIt(claims, universe, rules)
<1> DEFINE n == Len(universe)
           cell(i) == universe[i]
           v(i) == Query(claims, universe[i], rules)
           value(i) == Value(claims, universe, i, rules)
           open == {i \in DOMAIN universe : v(i).basis # "verified"}
           unsure == {i \in DOMAIN universe :
                        \A c \in DOMAIN claims : Applies(claims[c], universe[i], rules) # 0}
           best == {i \in open : \A j \in open : value(j) <= value(i)}
           next == NextToVerify(claims, universe, rules)
<1>1. n \in Nat /\ DOMAIN universe = 1 .. n
  OBVIOUS
<1>2. \A i \in DOMAIN universe : v(i).conf \in Nat /\ v(i).conf <= Full
  BY QueryIsBest DEF Answers, Sure
<1>3. ASSUME NEW i \in unsure PROVE i \in open
  <2>1. BestOffer(claims, universe[i], rules, v(i))
    BY QueryIsBest
  <2>2. ASSUME NEW c \in DOMAIN claims
        PROVE  Offer(claims[c], Applies(claims[c], universe[i], rules)).basis # "verified"
    <3>1. Applies(claims[c], universe[i], rules) # 0
      OBVIOUS
    <3>2. claims[c] \in Claims(Stacks, Words) /\ Applies(claims[c], universe[i], rules) \in Nat
      BY QueryRuns
    <3> QED BY <3>1, <3>2, Offered DEF Querying
  <2>3. v(i).basis # "verified"
    <3>1. Unknown.basis # "verified"
      BY DEF Unknown
    <3>2. v(i) = Unknown \/ \E c \in DOMAIN claims :
                             v(i) = Offer(claims[c], Applies(claims[c], universe[i], rules))
      BY <2>1 DEF BestOffer
    <3> HIDE DEF v
    <3> QED BY <2>2, <3>1, <3>2
  <2> QED BY <2>3
<1>4. \A i \in open : v(i).conf < Full
  <2>1. \A i \in open : v(i).conf = Full => FALSE
    BY CertainIsDirect
  <2> HIDE DEF v
  <2> QED BY <1>2, <2>1, FullIs
<1>5. \A i \in DOMAIN universe : value(i) \in Int
  <2> TAKE i \in DOMAIN universe
  <2> DEFINE others == {j \in DOMAIN universe \ {i} :
                          Applies([stack |-> universe[i]], universe[j], rules) # Far}
             size == Cardinality(others)
             share == Full \div 10
  <2>1. IsFiniteSet(DOMAIN universe)
    BY <1>1, FS_Interval
  <2>2. size \in Nat
    BY <2>1, FS_Subset, FS_CardinalityType
  <2>3. share \in Int
    BY FullIs
  <2>4. value(i) = (Full - v(i).conf) + share * size
    BY DEF Value
  <2> HIDE DEF size, share, value, v
  <2> QED BY <1>2, <2>2, <2>3, <2>4, FullIs
<1>6. open # {} => Min(best) \in open /\ \A j \in open : value(j) <= value(Min(best))
  <2> SUFFICES ASSUME open # {} PROVE Min(best) \in open /\ \A j \in open : value(j) <= value(Min(best))
    OBVIOUS
  <2> DEFINE f == [i \in DOMAIN universe |-> value(i)]
             top == {i \in open : \A j \in open : f[j] <= f[i]}
  <2>1. open \subseteq 1 .. n /\ \A i \in open : f[i] \in Int /\ f[i] = value(i)
    BY <1>1, <1>5
  <2>2. top = best
    <3> HIDE DEF open, f, value
    <3> QED BY <2>1
  <2>3. Min(top) \in open /\ \A j \in open : f[j] <= f[Min(top)]
    <3> HIDE DEF open, f, n
    <3> QED BY <1>1, <2>1, FirstOfBest
  <2> HIDE DEF open, f, value, top, best
  <2> QED BY <2>1, <2>2, <2>3
<1>7. next = IF open = {} THEN 0 ELSE Min(best)
  BY DEF NextToVerify
<1>8. \A i \in open : i # 0
  BY <1>1
<1> HIDE DEF v, value, open, unsure, best, next
<1>9. /\ next = 0 => unsure = {}
      /\ next # 0 => v(next).conf < Full
      /\ next # 0 => \A i \in unsure : value(i) <= value(next)
  BY <1>3, <1>4, <1>6, <1>7, <1>8
<1> QED BY <1>9 DEF NextIsWorthIt, v, value, unsure, next

-----------------------------------------------------------------------------
\* Of finitely many numbers one is the greatest.
LEMMA FiniteHasGreatest ==
  ASSUME NEW D, IsFiniteSet(D), D # {}, NEW f, \A x \in D : f[x] \in Int
  PROVE  \E x \in D : \A y \in D : f[y] <= f[x]
<1> DEFINE G == {T \in SUBSET D : T # {} => \E x \in T : \A y \in T : f[y] <= f[x]}
<1>1. ASSUME NEW T \in SUBSET D, T # {}, \A x \in T : T \ {x} \in G PROVE T \in G
  <2>1. PICK z \in T : TRUE
    BY <1>1
  <2>2. CASE T \ {z} = {}
    <3>1. \A y \in T : y = z /\ f[y] \in Int
      BY <2>2
    <3>2. \A y \in T : f[y] <= f[z]
      BY <3>1
    <3> QED BY <2>1, <3>2
  <2>3. CASE T \ {z} # {}
    <3>1. PICK m \in T \ {z} : \A y \in T \ {z} : f[y] <= f[m]
      BY <1>1, <2>1, <2>3
    <3>2. f[m] \in Int /\ f[z] \in Int /\ \A y \in T : f[y] \in Int
      BY <2>1, <3>1
    <3>3. CASE f[z] <= f[m]
      <4>1. \A y \in T : f[y] <= f[m]
        BY <3>1, <3>3
      <4> QED BY <3>1, <4>1
    <3>4. CASE ~(f[z] <= f[m])
      <4>1. \A y \in T : f[y] <= f[z]
        BY <3>1, <3>2, <3>4
      <4> QED BY <2>1, <4>1
    <3> QED BY <3>3, <3>4
  <2> QED BY <2>2, <2>3
<1>2. \A T \in SUBSET D : T \in G
  <2>1. {} \in G
    OBVIOUS
  <2> HIDE DEF G
  <2> QED BY <1>1, <2>1, SubsetCounting
<1> QED BY <1>2

\* The places whose value is at most v.
AtMostIn(values, v) == {x \in DOMAIN values : values[x] <= v}
Valued(values) ==
  /\ IsFiniteSet(DOMAIN values) /\ DOMAIN values # {}
  /\ \A x \in DOMAIN values : values[x] \in Nat

LEMMA AtMostCounts ==
  ASSUME NEW values, Valued(values), NEW v
  PROVE  /\ IsFiniteSet(AtMostIn(values, v)) /\ Cardinality(AtMostIn(values, v)) \in Nat
         /\ Cardinality(AtMostIn(values, v)) <= Cardinality(DOMAIN values)
         /\ Cardinality(DOMAIN values) \in Nat /\ Cardinality(DOMAIN values) # 0
         /\ Cardinality(DOMAIN values \ AtMostIn(values, v))
              = Cardinality(DOMAIN values) - Cardinality(AtMostIn(values, v))
<1> DEFINE D == DOMAIN values
           A == AtMostIn(values, v)
<1>1. IsFiniteSet(D) /\ A \in SUBSET D /\ D # {} /\ A \subseteq D
  BY DEF Valued, AtMostIn
<1> HIDE DEF D, A
<1>2. IsFiniteSet(A) /\ Cardinality(A) <= Cardinality(D)
  BY <1>1, FS_Subset
<1>3. Cardinality(A) \in Nat /\ Cardinality(D) \in Nat
  BY <1>1, <1>2, FS_CardinalityType
<1>4. Cardinality(D) # 0
  BY <1>1, FS_EmptySet
<1>5. Cardinality(D \ A) = Cardinality(D) - Cardinality(D \cap A)
  BY <1>1, FS_Difference
<1>6. D \cap A = A
  BY <1>1
<1> QED BY <1>2, <1>3, <1>4, <1>5, <1>6 DEF D, A

\* The least of a set of naturals.
LEMMA LeastIs ==
  ASSUME NEW S, S \subseteq Nat, S # {}
  PROVE  LeastOf(S) \in S /\ \A y \in S : LeastOf(S) <= y
<1>1. \E x \in S : \A y \in S : x <= y
  BY LeastOfNats
<1> QED BY <1>1 DEF LeastOf

\* The k-th value: at least k are no greater, and it is the least such value.
LEMMA NthIs ==
  ASSUME NEW values, Valued(values), NEW k \in 1 .. Cardinality(DOMAIN values)
  PROVE  /\ Nth(values, k) \in Nat
         /\ \E x \in DOMAIN values : Nth(values, k) = values[x]
         /\ Cardinality(AtMostIn(values, Nth(values, k))) >= k
         /\ \A x \in DOMAIN values :
              Cardinality(AtMostIn(values, values[x])) >= k => Nth(values, k) <= values[x]
<1> DEFINE D == DOMAIN values
           S == {v \in Range(values) : Cardinality(AtMostIn(values, v)) >= k}
<1>1. S \subseteq Nat
  BY DEF Valued, Range
<1>2. S # {}
  <2>1. PICK x \in D : \A y \in D : values[y] <= values[x]
    BY FiniteHasGreatest DEF Valued
  <2>2. AtMostIn(values, values[x]) = D
    BY <2>1 DEF AtMostIn
  <2>3. values[x] \in Range(values)
    BY DEF Range
  <2>4. Cardinality(D) >= k
    BY AtMostCounts
  <2> QED BY <2>2, <2>3, <2>4
<1>3. Nth(values, k) = LeastOf(S)
  BY DEF Nth, AtMostIn
<1>4. Nth(values, k) \in S /\ \A y \in S : Nth(values, k) <= y
  <2> HIDE DEF S
  <2> QED BY <1>1, <1>2, <1>3, LeastIs
<1>5. \A x \in D : values[x] \in Range(values)
  BY DEF Range
<1>6. \A v \in Range(values) : \E x \in D : v = values[x]
  BY DEF Range
<1>7. Nth(values, k) \in Range(values) /\ Cardinality(AtMostIn(values, Nth(values, k))) >= k
  BY <1>4
<1>8. Nth(values, k) \in Nat
  BY <1>1, <1>4
<1>9. \A x \in D : Cardinality(AtMostIn(values, values[x])) >= k => Nth(values, k) <= values[x]
  BY <1>4, <1>5
<1> QED BY <1>6, <1>7, <1>8, <1>9

LEMMA NthGrows ==
  ASSUME NEW values, Valued(values), NEW j \in 1 .. Cardinality(DOMAIN values),
         NEW k \in 1 .. Cardinality(DOMAIN values), j <= k
  PROVE  Nth(values, j) <= Nth(values, k)
<1>1. PICK x \in DOMAIN values : Nth(values, k) = values[x]
  BY NthIs
<1>2. Cardinality(AtMostIn(values, values[x])) >= k /\ Cardinality(AtMostIn(values, values[x])) \in Nat
  BY <1>1, NthIs, AtMostCounts
<1>3. Cardinality(DOMAIN values) \in Nat
  BY AtMostCounts
<1>4. Cardinality(AtMostIn(values, values[x])) >= j
  BY <1>2, <1>3
<1> QED BY <1>1, <1>4, NthIs

-----------------------------------------------------------------------------
\* A percentile of at least two values lies between two neighbours.
Interpolated(values, q, rank) ==
  100 * Nth(values, (rank \div 100) + 1)
    + (Nth(values, (rank \div 100) + 2) - Nth(values, (rank \div 100) + 1)) * (rank % 100)

LEMMA PercentileIs ==
  ASSUME NEW values, Valued(values), NEW q \in 0 .. 99,
         NEW n, n = Cardinality(DOMAIN values)
  PROVE  /\ n = 1 => Percentile(values, q) = 100 * Nth(values, 1)
         /\ n # 1 => /\ n \in Nat /\ n >= 2 /\ q * (n - 1) \in Nat
                     /\ (q * (n - 1)) \div 100 \in 0 .. (n - 2)
                     /\ Percentile(values, q) = Interpolated(values, q, q * (n - 1))
<1>1. n \in Nat /\ n # 0
  BY AtMostCounts
<1>2. n = 1 => Percentile(values, q) = 100 * Nth(values, 1)
  BY DEF Percentile
<1>3. ASSUME n # 1
      PROVE  /\ n \in Nat /\ n >= 2 /\ q * (n - 1) \in Nat
             /\ (q * (n - 1)) \div 100 \in 0 .. (n - 2)
             /\ Percentile(values, q) = Interpolated(values, q, q * (n - 1))
  <2> DEFINE m == n - 1
             rank == q * m
             d == rank \div 100
  <2>1. n >= 2 /\ m \in Nat /\ m >= 1 /\ q \in Nat /\ q <= 99
    BY <1>1, <1>3
  <2> HIDE DEF m
  <2>2. rank \in Nat /\ rank <= 99 * m
    BY <2>1
  <2> HIDE DEF rank
  <2>3. d \in Nat /\ d < m
    BY <2>1, <2>2
  <2> HIDE DEF d
  <2>4. d + 2 <= n /\ d \in 0 .. (n - 2)
    BY <1>1, <2>1, <2>3 DEF m
  <2>5. LeastOf({(d + 1) + 1, n}) = d + 2
    <3>1. {(d + 1) + 1, n} \subseteq Nat
      BY <1>1, <2>3
    <3> DEFINE S == {(d + 1) + 1, n}
    <3>2. LeastOf(S) \in S /\ \A y \in S : LeastOf(S) <= y
      BY <3>1, LeastIs
    <3>3. (d + 1) + 1 = d + 2
      BY <2>3
    <3> QED BY <1>1, <2>3, <2>4, <3>2, <3>3
  <2>6. Percentile(values, q) =
          100 * Nth(values, d + 1)
            + (Nth(values, LeastOf({(d + 1) + 1, n})) - Nth(values, d + 1)) * (rank % 100)
    BY <1>3 DEF Percentile, m, rank, d
  <2>7. Percentile(values, q) = Interpolated(values, q, rank)
    BY <2>5, <2>6 DEF Interpolated, d
  <2> QED BY <1>1, <2>1, <2>2, <2>4, <2>7 DEF rank, d, m
<1> QED BY <1>2, <1>3

\* Between two neighbours a percentile grows with its rank, and does not pass
\* the upper one.
LEMMA Between ==
  ASSUME NEW a \in Nat, NEW b \in Nat, a <= b, NEW r \in 0 .. 99, NEW s \in 0 .. 99, r <= s
  PROVE  /\ (b - a) * r \in Nat /\ (b - a) * r <= (b - a) * s
         /\ 100 * a <= 100 * a + (b - a) * r /\ 100 * a + (b - a) * r <= 100 * b
<1> DEFINE w == b - a
           t == s - r
           u == 100 - r
<1>1. w \in Nat /\ t \in Nat /\ u \in Nat /\ r \in Nat /\ s = r + t /\ 100 = r + u /\ b = a + w
  OBVIOUS
<1>2. w * r \in Nat /\ w * t \in Nat /\ w * u \in Nat
  <2> HIDE DEF w, t, u
  <2> QED BY <1>1
<1>3. w * (r + t) = w * r + w * t /\ w * (r + u) = w * r + w * u
  <2> HIDE DEF w, t, u
  <2> QED BY <1>1
<1>4. w * s = w * r + w * t /\ 100 * w = w * r + w * u
  <2>1. 100 * w = w * 100
    BY <1>1
  <2> HIDE DEF w, t, u
  <2> QED BY <1>1, <1>3, <2>1
<1>5. w * r <= w * s /\ 100 * a <= 100 * a + w * r
  BY <1>2, <1>4
<1>6. 100 * a + w * r <= 100 * b
  <2> DEFINE x == w * r
             y == w * u
  <2>1. x \in Nat /\ y \in Nat /\ 100 * w = x + y
    BY <1>2, <1>4
  <2> HIDE DEF x, y, w
  <2>2. 100 * b = 100 * a + 100 * w
    BY <1>1
  <2> QED BY <1>1, <2>1, <2>2 DEF x
<1> QED BY <1>2, <1>5, <1>6

\* A percentile lies between its two neighbours.
LEMMA Within ==
  ASSUME NEW a \in Nat, NEW b \in Nat, a <= b, NEW r \in 0 .. 99
  PROVE  /\ (b - a) * r \in Nat
         /\ 100 * a <= 100 * a + (b - a) * r /\ 100 * a + (b - a) * r <= 100 * b
<1>1. r <= r
  OBVIOUS
<1> QED BY <1>1, Between

LEMMA InterpolatedGrows ==
  ASSUME NEW values, Valued(values), NEW n, n = Cardinality(DOMAIN values), n # 1, NEW p, NEW q,
         NEW r \in Nat, NEW s \in Nat, r <= s, s \div 100 \in 0 .. (n - 2)
  PROVE  Interpolated(values, p, r) <= Interpolated(values, q, s)
<1> DEFINE d == r \div 100
           e == s \div 100
           x == r % 100
           y == s % 100
<1>0. n \in Nat /\ n # 0
  BY AtMostCounts
<1>1. /\ d \in Nat /\ e \in Nat /\ d <= e /\ e <= n - 2
      /\ x \in 0 .. 99 /\ y \in 0 .. 99 /\ (d = e => x <= y)
  BY <1>0
<1>2. /\ d + 1 \in 1 .. n /\ d + 2 \in 1 .. n /\ e + 1 \in 1 .. n /\ e + 2 \in 1 .. n
  BY <1>0, <1>1
<1> DEFINE a == Nth(values, d + 1)
           b == Nth(values, d + 2)
           f == Nth(values, e + 1)
           g == Nth(values, e + 2)
<1>3. /\ Interpolated(values, p, r) = 100 * a + (b - a) * x
      /\ Interpolated(values, q, s) = 100 * f + (g - f) * y
  BY DEF Interpolated
<1> HIDE DEF d, e, x, y
<1>4. a \in Nat /\ b \in Nat /\ f \in Nat /\ g \in Nat
  BY <1>2, NthIs
<1>5. a <= b /\ f <= g
  BY <1>1, <1>2, NthGrows
<1>6. CASE d = e
  <2>1. a = f /\ b = g /\ x <= y
    BY <1>1, <1>6
  <2> HIDE DEF a, b, f, g
  <2>2. (b - a) * x \in Nat /\ (b - a) * x <= (b - a) * y /\ (b - a) * y \in Nat
    <3>1. (b - a) * x <= (b - a) * y
      BY <1>1, <1>4, <1>5, <2>1, Between
    <3>2. (b - a) * x \in Nat
      BY <1>1, <1>4, <1>5, Within
    <3>3. (b - a) * y \in Nat
      BY <1>1, <1>4, <1>5, Within
    <3> QED BY <3>1, <3>2, <3>3
  <2> QED BY <1>3, <1>4, <2>1, <2>2
<1>7. CASE d # e
  <2>1. d + 2 <= e + 1
    BY <1>1, <1>7
  <2>2. b <= f
    BY <1>2, <2>1, NthGrows
  <2> HIDE DEF a, b, f, g
  <2>3. 100 * a + (b - a) * x <= 100 * b /\ (b - a) * x \in Nat
    BY <1>1, <1>4, <1>5, Within
  <2>4. 100 * f <= 100 * f + (g - f) * y /\ (g - f) * y \in Nat
    BY <1>1, <1>4, <1>5, Within
  <2> QED BY <1>3, <1>4, <2>2, <2>3, <2>4
<1> QED BY <1>6, <1>7

\* The percentiles of what was measured are in order.
LEMMA PercentilesInOrder ==
  ASSUME NEW values, Valued(values), NEW p \in 0 .. 99, NEW q \in 0 .. 99, p <= q
  PROVE  Percentile(values, p) <= Percentile(values, q)
<1> DEFINE n == Cardinality(DOMAIN values)
<1>0. n \in Nat /\ n # 0
  BY AtMostCounts
<1>1. CASE n = 1
  <2>1. Percentile(values, p) = 100 * Nth(values, 1) /\ Percentile(values, q) = 100 * Nth(values, 1)
    BY <1>1, PercentileIs
  <2>2. Nth(values, 1) \in Nat
    BY <1>1, NthIs
  <2> QED BY <2>1, <2>2
<1>2. CASE n # 1
  <2> DEFINE m == n - 1
  <2>1. m \in Nat
    BY <1>0
  <2>2. /\ p * m \in Nat /\ q * m \in Nat /\ (q * m) \div 100 \in 0 .. (n - 2)
        /\ Percentile(values, p) = Interpolated(values, p, p * m)
        /\ Percentile(values, q) = Interpolated(values, q, q * m)
    BY <1>2, PercentileIs
  <2>3. p * m <= q * m
    <3> HIDE DEF m
    <3>1. q = p + (q - p) /\ q - p \in Nat /\ p \in Nat
      OBVIOUS
    <3>2. (q - p) * m \in Nat /\ p * m + (q - p) * m = (p + (q - p)) * m
      BY <2>1, <3>1
    <3> QED BY <2>2, <3>1, <3>2
  <2> HIDE DEF n, m
  <2> QED BY <1>2, <2>2, <2>3, InterpolatedGrows DEF n
<1> QED BY <1>1, <1>2

\* A 99th percentile within a budget leaves few values over it.
LEMMA FewAboveIt ==
  ASSUME NEW values, Valued(values), NEW budget \in Int, Percentile(values, 99) <= 100 * budget
  PROVE  FewOver(values, budget)
<1> DEFINE D == DOMAIN values
           n == Cardinality(D)
           over == {f \in D : values[f] > budget}
<1>0. n \in Nat /\ n # 0
  BY AtMostCounts
<1>1. ASSUME NEW k \in 1 .. n, Nth(values, k) <= budget
      PROVE  Cardinality(over) \in Nat /\ Cardinality(over) <= n - k
  <2> DEFINE v == Nth(values, k)
             A == AtMostIn(values, v)
  <2>1. v \in Nat /\ Cardinality(A) >= k
    BY NthIs
  <2>2. Cardinality(D \ A) = n - Cardinality(A) /\ Cardinality(A) \in Nat
    BY AtMostCounts
  <2>3. over \subseteq D \ A
    <3>1. ASSUME NEW f \in over PROVE f \notin A
      <4>1. values[f] \in Nat /\ values[f] > budget
        BY DEF Valued
      <4>2. ~(values[f] <= v)
        <5> HIDE DEF v
        <5> QED BY <1>1, <2>1, <4>1 DEF v
      <4> QED BY <4>2 DEF AtMostIn
    <3> QED BY <3>1
  <2>4. IsFiniteSet(D \ A)
    BY FS_Difference DEF Valued
  <2> HIDE DEF A, D, over, v
  <2>5. IsFiniteSet(over) /\ Cardinality(over) <= Cardinality(D \ A) /\ Cardinality(over) \in Nat
    BY <2>3, <2>4, FS_Subset, FS_CardinalityType
  <2> HIDE DEF n
  <2> QED BY <1>0, <2>1, <2>2, <2>5
<1>2. FewOver(values, budget) <=> 100 * Cardinality(over) < n + 99
  BY DEF FewOver
<1>3. CASE n = 1
  <2>1. Percentile(values, 99) = 100 * Nth(values, 1) /\ Nth(values, 1) \in Nat
    BY <1>3, PercentileIs, NthIs
  <2>2. Nth(values, 1) <= budget
    BY <2>1
  <2>3. 1 \in 1 .. n
    BY <1>3
  <2>4. Cardinality(over) \in Nat /\ Cardinality(over) <= n - 1
    BY <1>1, <2>2, <2>3
  <2> QED BY <1>2, <1>3, <2>4
<1>4. CASE n # 1
  <2> DEFINE m == n - 1
             d == (99 * m) \div 100
             e == (99 * m) % 100
  <2>1. /\ d \in 0 .. (n - 2)
        /\ Percentile(values, 99) = 100 * Nth(values, d + 1) + (Nth(values, d + 2) - Nth(values, d + 1)) * e
    BY <1>4, PercentileIs DEF Interpolated
  <2>2. d + 1 \in 1 .. n /\ d + 2 \in 1 .. n /\ d + 1 <= d + 2 /\ m \in Nat /\ e \in 0 .. 99
    BY <1>0, <2>1
  <2>3. 99 * m <= 100 * d + 99
    BY <2>2
  <2> HIDE DEF d, e
  <2> DEFINE a == Nth(values, d + 1)
             b == Nth(values, d + 2)
  <2>4. a \in Nat /\ b \in Nat /\ a <= b
    BY <2>2, NthIs, NthGrows
  <2>5. a <= budget
    <3> HIDE DEF a, b
    <3>1. 100 * a <= 100 * a + (b - a) * e
      BY <2>2, <2>4, Within
    <3>2. (b - a) * e \in Nat
      BY <2>2, <2>4, Within
    <3>3. Percentile(values, 99) = 100 * a + (b - a) * e
      BY <2>1 DEF a, b
    <3> QED BY <2>4, <3>1, <3>2, <3>3
  <2>6. Cardinality(over) \in Nat /\ Cardinality(over) <= n - (d + 1)
    BY <1>1, <2>2, <2>5
  <2>7. 100 * Cardinality(over) < n + 99
    <3> HIDE DEF over
    <3> QED BY <1>0, <2>1, <2>2, <2>3, <2>6
  <2> QED BY <1>2, <2>7
<1> QED BY <1>3, <1>4

-----------------------------------------------------------------------------
\* Lines of a trace, and what the loop over them keeps after each.
Traced(Stages) == [stage : Stages, ms : Nat, frame : Int]
Cutting(Stages) == [seen : SUBSET Stages, frame : Int, out : Seq(Traced(Stages))]
Placed(p, l) ==
  LET next == l.stage \in p.seen
  IN  IF l.frame # None THEN l.frame ELSE IF next THEN p.frame + 1 ELSE p.frame
OfFrame(p, l) == [stage |-> l.stage, ms |-> l.ms, frame |-> Placed(p, l)]
Later(p, l) ==
  LET next == l.stage \in p.seen
      frame == IF l.frame # None THEN l.frame ELSE IF next THEN p.frame + 1 ELSE p.frame
      line == [stage |-> l.stage, ms |-> l.ms, frame |-> frame]
  IN  IF l.frame # None THEN [p EXCEPT !.out = Append(@, line)]
      ELSE [seen |-> {l.stage} \cup IF next THEN {} ELSE p.seen, frame |-> frame,
            out |-> Append(p.out, line)]
Started == [seen |-> {}, frame |-> 0, out |-> <<>>]

LEMMA LaterIs ==
  ASSUME NEW Stages, NEW p \in Cutting(Stages), NEW l \in Traced(Stages)
  PROVE  /\ Later(p, l) \in Cutting(Stages) /\ OfFrame(p, l) \in Traced(Stages)
         /\ Later(p, l).out = Append(p.out, OfFrame(p, l))
         /\ l.frame = None => /\ Later(p, l).frame = OfFrame(p, l).frame
                              /\ Later(p, l).seen = {l.stage} \cup IF l.stage \in p.seen THEN {} ELSE p.seen
<1>1. /\ p.seen \in SUBSET Stages /\ p.frame \in Int /\ p.out \in Seq(Traced(Stages))
      /\ p = [seen |-> p.seen, frame |-> p.frame, out |-> p.out]
  BY DEF Cutting
<1>2. l.stage \in Stages /\ l.ms \in Nat /\ l.frame \in Int
  BY DEF Traced
<1>3. Placed(p, l) \in Int
  BY <1>1, <1>2 DEF Placed
<1>4. OfFrame(p, l) \in Traced(Stages) /\ OfFrame(p, l).frame = Placed(p, l)
  BY <1>2, <1>3 DEF OfFrame, Traced
<1>5. Append(p.out, OfFrame(p, l)) \in Seq(Traced(Stages))
  BY <1>1, <1>4
<1>6. CASE l.frame # None
  <2>1. Later(p, l) = [p EXCEPT !.out = Append(p.out, OfFrame(p, l))]
    BY <1>6 DEF Later, OfFrame, Placed
  <2>2. Later(p, l) = [seen |-> p.seen, frame |-> p.frame, out |-> Append(p.out, OfFrame(p, l))]
    BY <1>1, <2>1
  <2> QED BY <1>1, <1>4, <1>5, <1>6, <2>2 DEF Cutting
<1>7. CASE l.frame = None
  <2> DEFINE more == {l.stage} \cup IF l.stage \in p.seen THEN {} ELSE p.seen
  <2>1. Later(p, l) = [seen |-> more, frame |-> Placed(p, l), out |-> Append(p.out, OfFrame(p, l))]
    BY <1>7 DEF Later, OfFrame, Placed
  <2>2. more \in SUBSET Stages
    BY <1>1, <1>2
  <2> QED BY <1>3, <1>4, <1>5, <2>1, <2>2 DEF Cutting
<1> QED BY <1>6, <1>7

\* The run of the loop.
CutRun(Stages, lines, run) ==
  /\ run \in [0 .. Len(lines) -> Cutting(Stages)] /\ run[0] = Started
  /\ Timed(lines) = run[Len(lines)].out
  /\ \A i \in 1 .. Len(lines) : run[i] = Later(run[i - 1], lines[i])

LEMMA TimedRuns ==
  ASSUME NEW Stages, NEW lines \in Seq(Traced(Stages))
  PROVE  \E run : CutRun(Stages, lines, run)
<1> DEFINE N == Len(lines)
           S == Cutting(Stages)
           step == [p \in (1 .. N) \X S |-> Later(p[2], lines[p[1]])]
           Eq(g) == g = [T \in SUBSET (1 .. N) |-> IF T = {} THEN Started ELSE Later(g[T \ {Max(T)}], lines[Max(T)])]
           iter == CHOOSE g : Eq(g)
<1>1. N \in Nat /\ DOMAIN lines = 1 .. N /\ \A i \in 1 .. N : lines[i] \in Traced(Stages)
  OBVIOUS
<1>2. Stepped(N, S, Started, step)
  <2>1. Started \in S
    BY DEF Started, Cutting
  <2>2. \A p \in S, l \in Traced(Stages) : Later(p, l) \in S
    BY LaterIs
  <2> HIDE DEF S, N
  <2> QED BY <1>1, <2>1, <2>2 DEF Stepped
<1>3. PICK g : IsFold(N, S, Started, step, g)
  <2> HIDE DEF step, N, S
  <2> QED BY <1>1, <1>2, FoldExists
<1>4. ASSUME NEW T \in SUBSET (1 .. N), T # {}, Max(T) \in T, NEW h, h[T \ {Max(T)}] \in S
      PROVE  step[<<Max(T), h[T \ {Max(T)}]>>] = Later(h[T \ {Max(T)}], lines[Max(T)])
  <2> HIDE DEF N, S
  <2> QED BY <1>4
<1>5. Eq(g)
  <2> HIDE DEF N, S, step
  <2>1. ASSUME NEW T \in SUBSET (1 .. N), T # {}
        PROVE  g[T] = Later(g[T \ {Max(T)}], lines[Max(T)])
    <3>1. Max(T) \in T /\ g[T \ {Max(T)}] \in S /\ g[T] = step[<<Max(T), g[T \ {Max(T)}]>>]
      BY <1>3, <2>1 DEF IsFold
    <3> QED BY <1>4, <2>1, <3>1
  <2>2. g \in [SUBSET (1 .. N) -> S] /\ g[{}] = Started
    BY <1>3 DEF IsFold
  <2> QED BY <2>1, <2>2
<1>6. Eq(iter)
  <2> HIDE DEF Eq
  <2> QED BY <1>5
<1>7. RunsTo(N, S, Started, step, iter[1 .. N])
  <2> HIDE DEF N, S, step, iter
  <2>1. iter[{}] = Started
    BY <1>6
  <2>2. ASSUME NEW i \in 1 .. N, iter[(1 .. i) \ {Max(1 .. i)}] \in S
        PROVE  iter[1 .. i] = step[<<Max(1 .. i), iter[(1 .. i) \ {Max(1 .. i)}]>>]
    <3> DEFINE D == 1 .. i
    <3>1. D \in SUBSET (1 .. N) /\ D # {} /\ Max(D) \in D
      BY <1>1, Places
    <3> HIDE DEF D
    <3>2. iter[D] = Later(iter[D \ {Max(D)}], lines[Max(D)])
      BY <1>6, <3>1
    <3>3. iter[D \ {Max(D)}] \in S
      BY <2>2 DEF D
    <3>4. iter[D] = step[<<Max(D), iter[D \ {Max(D)}]>>]
      BY <1>4, <3>1, <3>2, <3>3
    <3> QED BY <3>4 DEF D
  <2> QED BY <1>1, <1>2, <2>1, <2>2, FoldIsRun, ZenonT(30)
<1>8. Timed(lines) = iter[1 .. N].out
  BY <1>1 DEF Timed, FoldLeft, MapThenFoldSet, Later, Started
<1>9. ASSUME NEW run \in [0 .. N -> S], NEW i \in 1 .. N
      PROVE  step[<<i, run[i - 1]>>] = Later(run[i - 1], lines[i])
  <2> HIDE DEF N, S
  <2>1. i - 1 \in 0 .. N
    BY <1>1
  <2> QED BY <2>1
<1> HIDE DEF step, iter
<1>10. PICK run \in [0 .. N -> S] : /\ run[0] = Started /\ run[N] = iter[1 .. N]
                                    /\ \A i \in 1 .. N : run[i] = step[<<i, run[i - 1]>>]
  BY <1>7 DEF RunsTo
<1>11. CutRun(Stages, lines, run)
  BY <1>8, <1>9, <1>10 DEF CutRun
<1> QED BY <1>11

\* Every line is timed as it is, in the frame it was put in.
LEMMA TimedIs ==
  ASSUME NEW Stages, NEW lines \in Seq(Traced(Stages)), NEW run, CutRun(Stages, lines, run)
  PROVE  /\ Timed(lines) \in Seq(Traced(Stages)) /\ Len(Timed(lines)) = Len(lines)
         /\ \A i \in 1 .. Len(lines) : Timed(lines)[i] = OfFrame(run[i - 1], lines[i])
<1> DEFINE N == Len(lines)
           P == {i \in 0 .. N : /\ Len(run[i].out) = i
                                /\ \A k \in 1 .. i : run[i].out[k] = OfFrame(run[k - 1], lines[k])}
<1>0. N \in Nat /\ \A i \in 1 .. N : lines[i] \in Traced(Stages)
  OBVIOUS
<1>1. 0 \in P
  <2>1. run[0].out = <<>>
    BY DEF CutRun, Started
  <2> QED BY <2>1
<1>2. ASSUME NEW n \in 0 .. N, n < N, n \in P PROVE n + 1 \in P
  <2> DEFINE s == run[n].out
             x == OfFrame(run[n], lines[n + 1])
  <2>1. n + 1 \in 1 .. N /\ n + 1 \in 0 .. N /\ (n + 1) - 1 = n /\ n \in Nat
    BY <1>0, <1>2
  <2>2. run[n] \in Cutting(Stages) /\ run[n + 1] = Later(run[n], lines[n + 1])
    BY <2>1 DEF CutRun
  <2>3. run[n + 1].out = Append(s, x) /\ x \in Traced(Stages)
    BY <1>0, <2>1, <2>2, LaterIs
  <2>4. s \in Seq(Traced(Stages)) /\ Len(s) = n
    BY <1>2, <2>2 DEF Cutting
  <2>5. \A k \in 1 .. n : s[k] = OfFrame(run[k - 1], lines[k])
    BY <1>2
  <2> HIDE DEF s
  <2>6. /\ Len(Append(s, x)) = n + 1 /\ Append(s, x)[n + 1] = x
        /\ \A k \in 1 .. n : Append(s, x)[k] = s[k]
    <3> HIDE DEF x
    <3> QED BY <2>1, <2>3, <2>4
  <2>7. \A k \in 1 .. (n + 1) : k \in 1 .. n \/ k = n + 1
    BY <2>1
  <2>8. \A k \in 1 .. (n + 1) : Append(s, x)[k] = OfFrame(run[k - 1], lines[k])
    BY <2>1, <2>5, <2>6, <2>7
  <2> HIDE DEF x
  <2> QED BY <2>1, <2>3, <2>6, <2>8
<1>3. \A n \in 0 .. N : n \in P
  <2> HIDE DEF P, N
  <2> QED BY <1>0, <1>1, <1>2, Counting
<1>4. N \in P /\ N \in 0 .. N
  BY <1>0, <1>3
<1>5. run[N].out \in Seq(Traced(Stages))
  BY <1>4 DEF CutRun, Cutting
<1> QED BY <1>4, <1>5 DEF CutRun

-----------------------------------------------------------------------------
\* Sums of functions that differ at one place differ by as much.
LEMMA SumsChange ==
  ASSUME NEW D, IsFiniteSet(D), NEW f, NEW h, NEW g, NEW k, Sums(D, f, g), Sums(D, h, k),
         NEW x \in D, f[x] \in Int, NEW d \in Int, h[x] = f[x] + d, \A y \in D \ {x} : h[y] = f[y]
  PROVE  k[D] = g[D] + d
<1>1. g[D] = f[x] + g[D \ {x}] /\ k[D] = h[x] + k[D \ {x}] /\ g[D \ {x}] \in Int
  BY DEF Sums
<1>2. g[D \ {x}] = k[D \ {x}]
  <2> DEFINE W == D \ {x}
  <2>1. W \in SUBSET D /\ \A y \in W : f[y] = h[y]
    OBVIOUS
  <2> HIDE DEF W
  <2> QED BY <2>1, SumsAgree DEF W
<1> QED BY <1>1, <1>2

LEMMA SumsExist ==
  ASSUME NEW D, IsFiniteSet(D), NEW f \in [D -> Int]
  PROVE  \E g : Sums(D, f, g)
BY PickedExists, PickedSums

\* The sum of a function's values.
LEMMA SumFunctionIs ==
  ASSUME NEW D, IsFiniteSet(D), NEW f \in [D -> Int], NEW g, Sums(D, f, g)
  PROVE  SumFunction(f) = g[D]
<1> DEFINE Eq(u) == u = [T \in SUBSET D |-> IF T = {} THEN 0 ELSE f[Pick(T)] + u[T \ {Pick(T)}]]
           sum == CHOOSE u : Eq(u)
<1>1. PICK u : Picked(D, f, u)
  BY PickedExists
<1>2. Eq(u)
  <2>1. u \in [SUBSET D -> Int] /\ u[{}] = 0
    BY <1>1 DEF Picked
  <2>2. \A T \in SUBSET D : T # {} => u[T] = f[Pick(T)] + u[T \ {Pick(T)}]
    BY <1>1 DEF Picked
  <2> QED BY <2>1, <2>2
<1>3. Eq(sum)
  <2> HIDE DEF Eq
  <2> QED BY <1>2
<1>4. SumFunction(f) = sum[D]
  BY DEF SumFunction, SumFunctionOnSet, FoldFunctionOnSet, MapThenFoldSet, Pick
<1>5. Sums(D, f, sum)
  <2> HIDE DEF sum
  <2> QED BY <1>3, PickedByRule
<1>6. sum[D] = g[D]
  <2> HIDE DEF sum
  <2>1. D \in SUBSET D
    OBVIOUS
  <2> QED BY <1>5, <2>1, SumsAgree
<1> QED BY <1>4, <1>6

\* The totals of the frames add up to what all the lines took.
Mask(t, f) == [i \in DOMAIN t |-> IF t[i].frame = f THEN t[i].ms ELSE 0]
All(t) == [i \in DOMAIN t |-> t[i].ms]
RunOf(s, run) ==
  /\ run \in [0 .. Len(s) -> Nat] /\ run[0] = 0 /\ Total(s) = run[Len(s)]
  /\ \A i \in 1 .. Len(s) : run[i] = run[i - 1] + s[i]

LEMMA FramesAddUp ==
  ASSUME NEW Stages, NEW t \in Seq(Traced(Stages))
  PROVE  LET totals == [f \in Frames(t) |-> Total(Mask(t, f))] IN
           /\ totals \in [Frames(t) -> Nat] /\ IsFiniteSet(Frames(t))
           /\ SumFunction(totals) = Total(All(t))
<1> DEFINE N == Len(t)
           F == Frames(t)
           totals == [f \in F |-> Total(Mask(t, f))]
<1>1. N \in Nat /\ DOMAIN t = 1 .. N /\ \A i \in 1 .. N : t[i] \in Traced(Stages)
  OBVIOUS
<1>2. IsFiniteSet(F)
  <2> DEFINE fr == [i \in 1 .. N |-> t[i].frame]
  <2>1. IsFiniteSet(1 .. N)
    BY <1>1, FS_Interval
  <2>2. fr \in Surjection(1 .. N, F)
    BY <1>1 DEF Surjection, Frames
  <2> HIDE DEF fr, F
  <2> QED BY <2>1, <2>2, FS_Surjection
<1>3. \A i \in 1 .. N : t[i].frame \in F /\ t[i].ms \in Nat
  BY <1>1 DEF Frames, Traced
<1>4. \A f \in F : Mask(t, f) \in Seq(Nat) /\ Len(Mask(t, f)) = N
  BY <1>1, <1>3 DEF Mask
<1>5. \A f \in F : \E run : RunOf(Mask(t, f), run)
  BY <1>4, TotalRuns DEF RunOf
<1>6. All(t) \in Seq(Nat) /\ Len(All(t)) = N
  BY <1>1, <1>3 DEF All
<1>7. PICK all : RunOf(All(t), all)
  BY <1>6, TotalRuns DEF RunOf
<1> DEFINE runs == [f \in F |-> CHOOSE run : RunOf(Mask(t, f), run)]
           part(i) == [f \in F |-> runs[f][i]]
           P == {i \in 0 .. N : \A g : Sums(F, part(i), g) => g[F] = all[i]}
<1>8. \A f \in F : RunOf(Mask(t, f), runs[f])
  BY <1>5
<1> HIDE DEF runs
<1>9. \A i \in 0 .. N : part(i) \in [F -> Nat] /\ part(i) \in [F -> Int]
  BY <1>4, <1>8 DEF RunOf
<1>10. ASSUME NEW i \in 1 .. N, NEW f \in F
       PROVE  part(i)[f] = part(i - 1)[f] + (IF t[i].frame = f THEN t[i].ms ELSE 0)
  <2>1. Mask(t, f)[i] = IF t[i].frame = f THEN t[i].ms ELSE 0
    BY <1>1 DEF Mask
  <2>2. runs[f][i] = runs[f][i - 1] + Mask(t, f)[i]
    BY <1>4, <1>8 DEF RunOf
  <2> QED BY <2>1, <2>2
<1>11. ASSUME NEW i \in 1 .. N PROVE all[i] = all[i - 1] + t[i].ms
  <2>1. All(t)[i] = t[i].ms
    BY <1>1 DEF All
  <2> QED BY <1>6, <1>7, <2>1 DEF RunOf
<1>12. 0 \in P
  <2>1. 0 \in 0 .. N /\ all[0] = 0
    BY <1>1, <1>7 DEF RunOf
  <2>2. \A f \in F : part(0)[f] = 0
    BY <1>8 DEF RunOf
  <2>3. ASSUME NEW g, Sums(F, part(0), g) PROVE g[F] = 0
    <3> DEFINE z == part(0)
    <3>1. z \in [F -> Nat] /\ \A f \in F : z[f] = 0
      BY <1>9, <2>1, <2>2
    <3>2. Sums(F, z, g) /\ F \in SUBSET F
      BY <2>3
    <3> HIDE DEF z, F
    <3> QED BY <1>2, <3>1, <3>2, SumsOfNats
  <2> QED BY <2>1, <2>3
<1>13. ASSUME NEW n \in 0 .. N, n < N, n \in P PROVE n + 1 \in P
  <2> DEFINE m == n + 1
             x == t[m].frame
             d == t[m].ms
             u == part(n)
             w == part(m)
  <2>1. m \in 1 .. N /\ m \in 0 .. N /\ m - 1 = n
    BY <1>1, <1>13
  <2>2. x \in F /\ d \in Nat /\ d \in Int
    BY <1>3, <2>1
  <2>3. u \in [F -> Int] /\ w \in [F -> Int]
    BY <1>9, <2>1
  <2>4. \A f \in F : w[f] = u[f] + (IF x = f THEN d ELSE 0)
    BY <1>10, <2>1
  <2>5. ASSUME NEW k, Sums(F, w, k) PROVE k[F] = all[m]
    <3>1. PICK g : Sums(F, u, g)
      <4> HIDE DEF F, u
      <4> QED BY <1>2, <2>3, SumsExist
    <3>2. g[F] = all[n]
      BY <1>13, <3>1
    <3>3. w[x] = u[x] + d /\ u[x] \in Int /\ \A y \in F \ {x} : w[y] = u[y]
      <4> HIDE DEF u, w, x, d, F
      <4> QED BY <2>2, <2>3, <2>4
    <3>4. k[F] = g[F] + d
      <4> HIDE DEF u, w, x, d, F
      <4> QED BY <1>2, <2>2, <2>5, <3>1, <3>3, SumsChange
    <3>5. all[m] = all[n] + d
      BY <1>11, <2>1
    <3> QED BY <3>2, <3>4, <3>5
  <2> HIDE DEF x, d, u, F
  <2> QED BY <2>1, <2>5
<1>14. \A n \in 0 .. N : n \in P
  <2> HIDE DEF P, N
  <2> QED BY <1>1, <1>12, <1>13, Counting
<1>15. totals = part(N) /\ N \in 0 .. N
  <2>1. \A f \in F : Total(Mask(t, f)) = runs[f][N]
    BY <1>4, <1>8 DEF RunOf
  <2> QED BY <1>1, <2>1
<1>16. totals \in [F -> Nat] /\ totals \in [F -> Int]
  <2> HIDE DEF totals
  <2> QED BY <1>9, <1>15
<1>17. PICK g : Sums(F, totals, g)
  <2> HIDE DEF totals, F
  <2> QED BY <1>2, <1>16, SumsExist
<1>18. SumFunction(totals) = g[F]
  <2> HIDE DEF totals, F
  <2> QED BY <1>2, <1>16, <1>17, SumFunctionIs
<1>19. g[F] = all[N]
  <2>1. Sums(F, part(N), g)
    <3> HIDE DEF totals
    <3> QED BY <1>15, <1>17
  <2> HIDE DEF totals
  <2> QED BY <1>14, <1>15, <2>1
<1>20. Total(All(t)) = all[N]
  BY <1>6, <1>7 DEF RunOf
<1> HIDE DEF totals
<1>21. totals \in [F -> Nat] /\ IsFiniteSet(F) /\ SumFunction(totals) = Total(All(t))
  BY <1>2, <1>16, <1>18, <1>19, <1>20
<1> QED BY <1>21 DEF totals

-----------------------------------------------------------------------------
\* Places of a trace in blocks of per: the place is r in block k.
LEMMA Blocks ==
  ASSUME NEW per \in Nat, per # 0, NEW k \in Nat, NEW f \in Nat, NEW r \in 1 .. per, NEW s \in 1 .. per
  PROVE  /\ k * per \in Nat /\ f * per \in Nat /\ (k + 1) * per = k * per + per
         /\ k < f => k * per + per <= f * per
         /\ k * per + r = f * per + s => k = f
<1>1. ASSUME NEW a \in Nat, NEW b \in Nat, a < b
      PROVE  a * per \in Nat /\ b * per \in Nat /\ a * per + per <= b * per
  <2> DEFINE d == b - (a + 1)
  <2>1. d \in Nat /\ b = (a + 1) + d
    BY <1>1
  <2> HIDE DEF d
  <2>2. b * per = a * per + per + d * per /\ d * per \in Nat /\ a * per \in Nat
    BY <2>1
  <2> QED BY <2>2
<1>2. k * per \in Nat /\ f * per \in Nat /\ (k + 1) * per = k * per + per
  OBVIOUS
<1>3. k * per + r = f * per + s => k = f
  <2> DEFINE x == k * per
             y == f * per
  <2>1. x \in Nat /\ y \in Nat /\ (k < f => x + per <= y) /\ (f < k => y + per <= x)
    BY <1>1, <1>2
  <2> HIDE DEF x, y
  <2>2. x + r = y + s => k = f
    BY <2>1
  <2> QED BY <2>2 DEF x, y
<1> QED BY <1>1, <1>2, <1>3

\* Remainders of neighbours differ, those of a block apart do not.
LEMMA Remainders ==
  ASSUME NEW per \in Nat, per # 0, NEW a \in Nat, NEW b \in Nat, a < b
  PROVE  /\ b - a < per => a % per # b % per
         /\ b - a = per => a % per = b % per
<1> DEFINE u == a \div per
           v == b \div per
           x == a % per
           y == b % per
<1>1. /\ a = u * per + x /\ u \in Nat /\ x \in 0 .. (per - 1)
      /\ b = v * per + y /\ v \in Nat /\ y \in 0 .. (per - 1)
  OBVIOUS
<1> HIDE DEF u, v, x, y
<1>2. ASSUME b - a < per PROVE x # y
  <2>1. u * per \in Nat /\ v * per \in Nat /\ (u < v => u * per + per <= v * per)
        /\ (v < u => v * per + per <= u * per)
    BY <1>1, Blocks
  <2> DEFINE uu == u * per
             vv == v * per
  <2>2. uu \in Nat /\ vv \in Nat /\ (u < v => uu + per <= vv) /\ (v < u => vv + per <= uu)
        /\ a = uu + x /\ b = vv + y /\ (u = v => uu = vv)
    BY <1>1, <2>1
  <2> HIDE DEF uu, vv
  <2> QED BY <1>1, <1>2, <2>2
<1>3. ASSUME b - a = per PROVE x = y
  <2>1. u + 1 \in Nat /\ x + 1 \in 1 .. per /\ y + 1 \in 1 .. per
    BY <1>1
  <2>2. (u + 1) * per = u * per + per
    BY <1>1, <2>1, Blocks
  <2>3. u * per \in Nat /\ v * per \in Nat
    BY <1>1, <2>1, Blocks
  <2> DEFINE uu == u * per
             vv == v * per
             ww == (u + 1) * per
  <2>4. ww + (x + 1) = vv + (y + 1)
    <3>1. a = uu + x /\ b = vv + y /\ ww = uu + per /\ uu \in Nat /\ vv \in Nat
      BY <1>1, <2>2, <2>3
    <3> HIDE DEF uu, vv, ww
    <3> QED BY <1>1, <1>3, <3>1
  <2>5. u + 1 = v
    BY <1>1, <2>1, <2>4, Blocks
  <2>6. ww = vv
    BY <2>5
  <2> HIDE DEF ww, vv, uu
  <2> QED BY <1>1, <2>3, <2>4, <2>6 DEF vv
<1> QED BY <1>2, <1>3 DEF x, y

\* A trace without frames in which the stages repeat after per lines.
Uniform(lines, per) ==
  /\ per > 0 /\ Len(lines) % per = 0
  /\ \A i \in DOMAIN lines : lines[i].frame = None
  /\ \A i, j \in DOMAIN lines : lines[i].stage = lines[j].stage <=> i % per = j % per

\* After place i, r of block k, the loop is in frame k and has seen its stages.
At(lines, per, run, i, k, r) ==
  /\ i = k * per + r /\ run[i].frame = k /\ OfFrame(run[i - 1], lines[i]).frame = k
  /\ run[i].seen = {lines[j].stage : j \in (k * per + 1) .. i}

LEMMA CutWhereFramesEnd ==
  ASSUME NEW Stages, NEW lines \in Seq(Traced(Stages)), NEW run, CutRun(Stages, lines, run),
         NEW per \in Nat, Uniform(lines, per)
  PROVE  \A i \in 1 .. Len(lines) : \E k \in Nat, r \in 1 .. per : At(lines, per, run, i, k, r)
<1> DEFINE N == Len(lines)
           Good(i) == \E k \in Nat, r \in 1 .. per : At(lines, per, run, i, k, r)
           P == {i \in 0 .. N : i # 0 => Good(i)}
<1>0. /\ N \in Nat /\ DOMAIN lines = 1 .. N /\ per # 0 /\ 1 \in 1 .. per
      /\ \A i \in 1 .. N : lines[i] \in Traced(Stages) /\ lines[i].frame = None
  BY DEF Uniform
<1>1. ASSUME NEW n \in 0 .. N, n < N, n # 0 => Good(n) PROVE n + 1 \in 1 .. N /\ Good(n + 1)
  <2> DEFINE m == n + 1
             p == run[n]
             l == lines[m]
  <2>1. m \in 1 .. N /\ m - 1 = n /\ n \in Nat /\ n \in 0 .. N
    BY <1>0, <1>1
  <2>2. p \in Cutting(Stages) /\ run[m] = Later(p, l)
    BY <2>1 DEF CutRun
  <2>3. l \in Traced(Stages) /\ l.frame = None
    BY <1>0, <2>1
  <2>4. /\ run[m].frame = OfFrame(p, l).frame
        /\ run[m].seen = {l.stage} \cup IF l.stage \in p.seen THEN {} ELSE p.seen
    <3> DEFINE s == Later(p, l)
    <3>1. run[m] = s
      BY <2>2
    <3> HIDE DEF p, l, m
    <3>2. s.frame = OfFrame(p, l).frame
      BY <2>2, <2>3, LaterIs
    <3>3. s.seen = {l.stage} \cup IF l.stage \in p.seen THEN {} ELSE p.seen
      BY <2>2, <2>3, LaterIs
    <3> HIDE DEF s
    <3> QED BY <3>1, <3>2, <3>3
  <2>5. OfFrame(p, l).frame = IF l.stage \in p.seen THEN p.frame + 1 ELSE p.frame
    <3> HIDE DEF p, l
    <3> QED BY <2>3 DEF OfFrame, Placed
  <2>6. CASE n = 0
    <3>1. p.seen = {} /\ p.frame = 0
      BY <2>6 DEF CutRun, Started
    <3>2. run[m].frame = 0 /\ OfFrame(p, l).frame = 0 /\ run[m].seen = {l.stage}
      BY <2>4, <2>5, <3>1
    <3>3. 0 * per = 0 /\ m = 0 * per + 1
      BY <2>6
    <3>4. \A j \in (0 * per + 1) .. m : j = m
      BY <2>6, <3>3
    <3>5. m \in (0 * per + 1) .. m
      BY <2>6, <3>3
    <3>6. run[m].seen = {lines[j].stage : j \in (0 * per + 1) .. m}
      <4> HIDE DEF m
      <4> QED BY <3>2, <3>4, <3>5
    <3>7. At(lines, per, run, m, 0, 1)
      <4>1. run[m - 1] = p
        BY <2>1
      <4> HIDE DEF m, p
      <4> QED BY <3>2, <3>3, <3>6, <4>1 DEF At
    <3> QED BY <1>0, <2>1, <3>7
  <2>7. CASE n # 0
    <3>1. PICK k \in Nat, r \in 1 .. per : At(lines, per, run, n, k, r)
      BY <1>1, <2>7
    <3> DEFINE B == k * per
    <3>2. B \in Nat /\ (k + 1) * per = B + per
      BY <1>0, <3>1, Blocks
    <3>3. n = B + r /\ p.frame = k /\ p.seen = {lines[j].stage : j \in (B + 1) .. n}
      BY <3>1 DEF At
    <3> HIDE DEF B
    <3>4. \A j \in (B + 1) .. n : j \in 1 .. N /\ j \in Nat /\ j < m /\ m - j <= r
      BY <2>1, <3>2, <3>3
    <3>5. \A j \in (B + 1) .. n : lines[m].stage = lines[j].stage <=> m % per = j % per
      BY <1>0, <2>1, <3>4 DEF Uniform
    <3>6. m \in Nat
      BY <2>1
    <3>7. CASE r < per
      <4>1. \A j \in (B + 1) .. n : m - j < per
        BY <2>1, <3>2, <3>3, <3>4, <3>7
      <4>2. \A j \in (B + 1) .. n : lines[m].stage # lines[j].stage
        <5> HIDE DEF m
        <5> QED BY <1>0, <3>4, <3>5, <3>6, <4>1, Remainders
      <4>3. l.stage \notin p.seen
        BY <3>3, <4>2
      <4>4. run[m].frame = k /\ OfFrame(p, l).frame = k /\ run[m].seen = {l.stage} \cup p.seen
        BY <2>4, <2>5, <3>3, <4>3
      <4>5. \A j \in (B + 1) .. m : j = m \/ j \in (B + 1) .. n
        BY <3>2, <3>3
      <4>6. m \in (B + 1) .. m /\ \A j \in (B + 1) .. n : j \in (B + 1) .. m
        BY <3>2, <3>3
      <4>7. run[m].seen = {lines[j].stage : j \in (B + 1) .. m}
        <5> HIDE DEF m, p
        <5> QED BY <3>3, <4>4, <4>5, <4>6
      <4>8. m = B + (r + 1) /\ r + 1 \in 1 .. per
        BY <3>2, <3>3, <3>7
      <4>9. At(lines, per, run, m, k, r + 1)
        <5>1. run[m - 1] = p
          BY <2>1
        <5> HIDE DEF m, p
        <5> QED BY <4>4, <4>7, <4>8, <5>1 DEF At, B
      <4> QED BY <2>1, <4>8, <4>9
    <3>8. CASE r = per
      <4> DEFINE o == B + 1
      <4>1. o \in (B + 1) .. n /\ o \in Nat /\ o < m /\ m - o = per
        <5>1. n = B + per /\ per \in Nat /\ per # 0 /\ B \in Nat /\ m = n + 1
          BY <1>0, <3>2, <3>3, <3>8
        <5> HIDE DEF m, p, l, N
        <5> QED BY <5>1
      <4>2. lines[m].stage = lines[o].stage
        <5> HIDE DEF m, o
        <5> QED BY <1>0, <3>5, <3>6, <4>1, Remainders
      <4>3. l.stage \in p.seen
        <5> HIDE DEF o
        <5> QED BY <3>3, <4>1, <4>2
      <4>4. run[m].frame = k + 1 /\ OfFrame(p, l).frame = k + 1 /\ run[m].seen = {l.stage}
        BY <2>4, <2>5, <3>3, <4>3
      <4>5. m = (k + 1) * per + 1
        BY <3>2, <3>3, <3>8
      <4>6. \A j \in m .. m : j = m
        BY <3>6
      <4>7. m \in m .. m
        BY <3>6
      <4>8. run[m].seen = {lines[j].stage : j \in ((k + 1) * per + 1) .. m}
        <5>1. run[m].seen = {lines[j].stage : j \in m .. m}
          <6> HIDE DEF m
          <6> QED BY <4>4, <4>6, <4>7
        <5> HIDE DEF m
        <5> QED BY <4>5, <5>1
      <4>9. At(lines, per, run, m, k + 1, 1)
        <5>1. run[m - 1] = p
          BY <2>1
        <5> HIDE DEF m, p
        <5> QED BY <4>4, <4>5, <4>8, <5>1 DEF At
      <4> QED BY <1>0, <2>1, <4>9
    <3> QED BY <3>1, <3>7, <3>8
  <2> QED BY <2>6, <2>7
<1>2. 0 \in P
  BY <1>0
<1>3. ASSUME NEW n \in 0 .. N, n < N, n \in P PROVE n + 1 \in P
  <2>1. n # 0 => Good(n)
    BY <1>3
  <2> HIDE DEF Good
  <2>2. n + 1 \in 1 .. N /\ Good(n + 1)
    BY <1>1, <1>3, <2>1
  <2> QED BY <2>2
<1>4. \A n \in 0 .. N : n \in P
  <2> HIDE DEF P, N
  <2> QED BY <1>0, <1>2, <1>3, Counting
<1>5. ASSUME NEW i \in 1 .. N PROVE Good(i)
  <2>1. i \in 0 .. N /\ i # 0
    BY <1>0
  <2> HIDE DEF Good
  <2> QED BY <1>4, <2>1
<1> QED BY <1>5

\* The total of a block, as the total of all with the others masked.
LEMMA BlockTotal ==
  ASSUME NEW s \in Seq(Nat), NEW c \in Seq(Nat), NEW B \in Nat, B + Len(c) <= Len(s),
         \A i \in 1 .. Len(s) :
           s[i] = IF i > B /\ i <= B + Len(c) THEN c[i - B] ELSE 0
  PROVE  Total(s) = Total(c)
<1> DEFINE N == Len(s)
           M == Len(c)
<1>0. N \in Nat /\ M \in Nat /\ B + M <= N
  OBVIOUS
<1>1. PICK run : RunOf(s, run)
  BY TotalRuns DEF RunOf
<1>2. PICK sub : RunOf(c, sub)
  BY TotalRuns DEF RunOf
<1> DEFINE Is(i) == run[i] = IF i <= B THEN 0 ELSE IF i <= B + M THEN sub[i - B] ELSE sub[M]
           P == {i \in 0 .. N : Is(i)}
<1>3. 0 \in P
  BY <1>0, <1>1 DEF RunOf
<1>4. /\ \A i \in 1 .. N : run[i] = run[i - 1] + s[i]
      /\ \A i \in 1 .. M : sub[i] = sub[i - 1] + c[i]
      /\ sub[0] = 0 /\ \A i \in 0 .. M : sub[i] \in Nat
  BY <1>1, <1>2 DEF RunOf
<1>5. ASSUME NEW n \in 0 .. N, n < N, n \in P PROVE n + 1 \in P
  <2> DEFINE m == n + 1
  <2>1. m \in 1 .. N /\ m \in 0 .. N /\ m - 1 = n /\ n \in Nat
    BY <1>0, <1>5
  <2>2. run[m] = run[n] + s[m]
    BY <1>4, <2>1
  <2>3. CASE m <= B
    <3>1. n <= B /\ ~(m > B)
      BY <2>1, <2>3
    <3>2. s[m] = 0 /\ run[n] = 0
      BY <1>5, <2>1, <3>1
    <3> HIDE DEF m
    <3> QED BY <2>1, <2>2, <2>3, <3>2
  <2>4. CASE m > B /\ m <= B + M
    <3> DEFINE j == m - B
    <3>1. j \in 1 .. M /\ j - 1 = n - B /\ j - 1 \in 0 .. M
      BY <1>0, <2>1, <2>4
    <3>2. s[m] = c[j]
      BY <2>1, <2>4
    <3>3. run[n] = sub[j - 1]
      <4>1. CASE n <= B
        <5>1. n = B /\ j - 1 = 0 /\ run[n] = 0
          BY <1>5, <2>1, <2>4, <4>1
        <5> QED BY <1>4, <5>1
      <4>2. CASE ~(n <= B)
        <5>1. n <= B + M
          BY <1>0, <2>1, <2>4
        <5>2. run[n] = sub[n - B]
          BY <1>5, <4>2, <5>1
        <5> QED BY <3>1, <5>2
      <4> QED BY <4>1, <4>2
    <3>4. sub[j] = sub[j - 1] + c[j]
      BY <1>4, <3>1
    <3>5. run[m] = sub[m - B]
      <4> HIDE DEF m
      <4> QED BY <2>2, <3>2, <3>3, <3>4
    <3>6. ~(m <= B)
      BY <2>1, <2>4
    <3> HIDE DEF m
    <3> QED BY <2>1, <2>4, <3>5, <3>6
  <2>5. CASE ~(m <= B + M)
    <3>1. s[m] = 0 /\ ~(m <= B)
      BY <1>0, <2>1, <2>5
    <3>2. run[n] = sub[M]
      <4>1. CASE n <= B
        <5>1. n = B /\ M = 0 /\ run[n] = 0
          BY <1>0, <1>5, <2>1, <2>5, <4>1
        <5> QED BY <1>4, <5>1
      <4>2. CASE n > B /\ n <= B + M
        <5>1. n - B = M
          <6> HIDE DEF N, M
          <6> QED BY <1>0, <2>1, <2>5, <4>2
        <5>2. ~(n <= B)
          BY <2>1, <4>2
        <5> QED BY <1>5, <4>2, <5>1, <5>2
      <4>3. CASE n > B + M
        <5>1. ~(n <= B) /\ ~(n <= B + M)
          BY <1>0, <2>1, <4>3
        <5> QED BY <1>5, <5>1
      <4> QED BY <1>0, <2>1, <4>1, <4>2, <4>3
    <3>3. run[m] = sub[M]
      <4>1. sub[M] \in Nat
        BY <1>0, <1>4
      <4> HIDE DEF m
      <4> QED BY <2>2, <3>1, <3>2, <4>1
    <3> HIDE DEF m
    <3> QED BY <2>1, <2>5, <3>1, <3>3
  <2> QED BY <1>0, <2>1, <2>3, <2>4, <2>5
<1>6. \A n \in 0 .. N : n \in P
  <2> HIDE DEF P, N
  <2> QED BY <1>0, <1>3, <1>5, Counting
<1>7. Is(N)
  BY <1>0, <1>6
<1>8. run[N] = sub[M]
  <2>1. CASE N <= B
    <3>1. N = B /\ M = 0
      BY <1>0, <2>1
    <3> QED BY <1>4, <1>7, <2>1, <3>1
  <2>2. CASE ~(N <= B) /\ N <= B + M
    <3>1. N - B = M
      BY <1>0, <2>2
    <3> QED BY <1>7, <2>2, <3>1
  <2>3. CASE ~(N <= B) /\ ~(N <= B + M)
    BY <1>7, <2>3
  <2> QED BY <2>1, <2>2, <2>3
<1> QED BY <1>1, <1>2, <1>8 DEF RunOf

\* A uniform trace is cut where its frames end, and each total is its block's.
LEMMA UniformTotals ==
  ASSUME NEW Stages, NEW lines \in Seq(Traced(Stages)), NEW per \in Nat, Uniform(lines, per)
  PROVE  FrameTotals(lines) =
           [k \in 0 .. (Len(lines) \div per - 1) |-> Total([j \in 1 .. per |-> lines[k * per + j].ms])]
<1> DEFINE N == Len(lines)
           t == Timed(lines)
           K == N \div per
<1>1. PICK run : CutRun(Stages, lines, run)
  BY TimedRuns
<1>2. /\ t \in Seq(Traced(Stages)) /\ Len(t) = N
      /\ \A i \in 1 .. N : t[i] = OfFrame(run[i - 1], lines[i])
  BY <1>1, TimedIs
<1>3. N \in Nat /\ DOMAIN lines = 1 .. N /\ \A i \in 1 .. N : lines[i] \in Traced(Stages)
  OBVIOUS
<1> HIDE DEF t
<1>4. per # 0 /\ per \in Nat /\ N = K * per /\ K \in Nat
  <2>1. per > 0 /\ N % per = 0
    BY DEF Uniform
  <2> HIDE DEF N
  <2>2. per \in Nat /\ per # 0 /\ N \in Nat
    BY <1>3, <2>1
  <2>3. N = (N \div per) * per + (N % per) /\ N \div per \in Nat
    BY <2>2
  <2> QED BY <2>1, <2>2, <2>3
<1> HIDE DEF K
<1>5. ASSUME NEW i \in 1 .. N
      PROVE  \E k \in Nat, r \in 1 .. per : i = k * per + r /\ t[i].frame = k /\ t[i].ms = lines[i].ms
  <2>1. PICK k \in Nat, r \in 1 .. per : At(lines, per, run, i, k, r)
    BY <1>1, CutWhereFramesEnd
  <2>2. t[i] = OfFrame(run[i - 1], lines[i])
    BY <1>2
  <2>3. t[i].frame = k /\ t[i].ms = lines[i].ms
    BY <2>1, <2>2 DEF At, OfFrame
  <2> QED BY <2>1, <2>3 DEF At
<1>6. DOMAIN t = 1 .. N
  BY <1>2
<1>7. ASSUME NEW k \in 0 .. (K - 1)
      PROVE  /\ k \in Frames(t) /\ k * per \in Nat /\ k * per + per <= N
             /\ \A i \in 1 .. N : t[i].frame = k <=> i > k * per /\ i <= k * per + per
  <2> DEFINE B == k * per
  <2>1. k \in Nat /\ k < K /\ 1 \in 1 .. per
    BY <1>4
  <2>2. B \in Nat /\ B + per <= N
    BY <1>4, <2>1, Blocks
  <2>3. ASSUME NEW i \in 1 .. N PROVE t[i].frame = k <=> i > B /\ i <= B + per
    <3>1. PICK h \in Nat, r \in 1 .. per : i = h * per + r /\ t[i].frame = h
      BY <1>5
    <3>2. h = k => i > B /\ i <= B + per
      <4>1. i = B + r \/ h # k
        BY <3>1
      <4> HIDE DEF B
      <4> QED BY <1>4, <2>2, <4>1
    <3>3. ASSUME i > B, i <= B + per PROVE h = k
      <4> DEFINE s == i - B
      <4>1. s \in 1 .. per /\ i = B + s
        <5> HIDE DEF B
        <5> QED BY <1>4, <2>2, <3>3
      <4> HIDE DEF s
      <4>2. h * per + r = k * per + s
        BY <3>1, <4>1
      <4> QED BY <1>4, <2>1, <4>1, <4>2, Blocks
    <3> QED BY <3>1, <3>2, <3>3
  <2>4. k \in Frames(t)
    <3>1. B + 1 \in 1 .. N /\ B + 1 > B /\ B + 1 <= B + per
      <4> HIDE DEF B
      <4> QED BY <1>3, <1>4, <2>2
    <3>2. t[B + 1].frame = k
      BY <2>3, <3>1
    <3> HIDE DEF B
    <3> QED BY <1>6, <3>1, <3>2 DEF Frames
  <2> QED BY <2>2, <2>3, <2>4
<1>8. Frames(t) = 0 .. (K - 1)
  <2>1. ASSUME NEW f \in Frames(t) PROVE f \in 0 .. (K - 1)
    <3>1. PICK i \in 1 .. N : f = t[i].frame
      BY <1>6 DEF Frames
    <3>2. PICK k \in Nat, r \in 1 .. per : i = k * per + r /\ t[i].frame = k
      BY <1>5
    <3>3. ~(K <= k)
      <4>1. /\ K < k => K * per + per <= k * per
            /\ K * per \in Nat /\ k * per \in Nat
        BY <1>4, <3>2, Blocks
      <4> DEFINE x == K * per
                 y == k * per
      <4>2. x \in Nat /\ y \in Nat /\ (K < k => x + per <= y) /\ N = x /\ i = y + r /\ (K = k => x = y)
        BY <1>4, <3>2, <4>1
      <4> HIDE DEF x, y
      <4> QED BY <1>4, <3>1, <3>2, <4>2
    <3> QED BY <1>4, <3>1, <3>2, <3>3
  <2>2. ASSUME NEW k \in 0 .. (K - 1) PROVE k \in Frames(t)
    BY <1>7
  <2> QED BY <2>1, <2>2
<1>9. ASSUME NEW k \in 0 .. (K - 1)
      PROVE  Total(Mask(t, k)) = Total([j \in 1 .. per |-> lines[k * per + j].ms])
  <2> DEFINE B == k * per
             c == [j \in 1 .. per |-> lines[B + j].ms]
             s == Mask(t, k)
  <2>1. /\ B \in Nat /\ B + per <= N
        /\ \A i \in 1 .. N : t[i].frame = k <=> i > B /\ i <= B + per
    BY <1>7
  <2> HIDE DEF B
  <2>2. c \in Seq(Nat) /\ Len(c) = per /\ \A j \in 1 .. per : c[j] = lines[B + j].ms
    <3>1. \A j \in 1 .. per : B + j \in 1 .. N
      BY <1>3, <1>4, <2>1
    <3>2. \A j \in 1 .. per : lines[B + j].ms \in Nat
      BY <1>3, <3>1 DEF Traced
    <3> QED BY <1>4, <3>2
  <2>3. s \in Seq(Nat) /\ Len(s) = N
    <3>1. \A i \in 1 .. N : t[i].ms \in Nat
      BY <1>3, <1>5 DEF Traced
    <3> QED BY <1>3, <1>6, <3>1 DEF Mask
  <2>4. ASSUME NEW i \in 1 .. N
        PROVE  s[i] = IF i > B /\ i <= B + per THEN c[i - B] ELSE 0
    <3>1. s[i] = IF t[i].frame = k THEN t[i].ms ELSE 0
      BY <1>6 DEF Mask
    <3>2. t[i].ms = lines[i].ms
      BY <1>5
    <3>3. i > B /\ i <= B + per => i - B \in 1 .. per /\ B + (i - B) = i
      BY <1>4, <2>1
    <3> HIDE DEF c, s
    <3> QED BY <2>1, <2>2, <3>1, <3>2, <3>3
  <2> HIDE DEF c, s
  <2>5. Total(s) = Total(c)
    BY <2>1, <2>2, <2>3, <2>4, BlockTotal
  <2> QED BY <2>5 DEF c, s, B
<1>10. FrameTotals(lines) = [f \in Frames(t) |-> Total(Mask(t, f))]
  BY DEF FrameTotals, t, Mask
<1>11. FrameTotals(lines) = [k \in 0 .. (K - 1) |-> Total([j \in 1 .. per |-> lines[k * per + j].ms])]
  <2> HIDE DEF N
  <2> QED BY <1>8, <1>9, <1>10
<1> QED BY <1>11 DEF K

\* A latency trace (latency_trace.py): the totals of the frames add up to what
\* every stage took, percentiles are in order, a passed budget is kept by all
\* frames but few, and a trace of like frames is cut where they end; for traces
\* of any length, stages, frames and times.
THEOREM LatenciesAreAccounted ==
  ASSUME NEW Stages, NEW lines \in Seq(Traced(Stages)), NEW budget \in Int, NEW perFrame \in Nat
  PROVE  LatencyIsAccounted(lines, budget, perFrame)
<1> SUFFICES ASSUME lines # <<>> PROVE LatencyIsAccounted(lines, budget, perFrame)
  BY DEF LatencyIsAccounted
<1> DEFINE t == Timed(lines)
           totals == FrameTotals(lines)
           N == Len(lines)
<1>0. N \in Nat /\ N # 0 /\ DOMAIN lines = 1 .. N
  OBVIOUS
<1>1. PICK run : CutRun(Stages, lines, run)
  BY TimedRuns
<1>2. /\ t \in Seq(Traced(Stages)) /\ Len(t) = N
      /\ \A i \in 1 .. N : t[i] = OfFrame(run[i - 1], lines[i])
  BY <1>1, TimedIs
<1> HIDE DEF t
<1>3. totals = [f \in Frames(t) |-> Total(Mask(t, f))]
  BY DEF FrameTotals, t, Mask
<1> HIDE DEF totals
<1>4. /\ totals \in [Frames(t) -> Nat] /\ IsFiniteSet(Frames(t))
      /\ SumFunction(totals) = Total(All(t))
  BY <1>2, <1>3, FramesAddUp
<1>5. All(t) = [i \in DOMAIN lines |-> lines[i].ms]
  <2>1. DOMAIN t = DOMAIN lines
    BY <1>2
  <2>2. \A i \in DOMAIN lines : t[i].ms = lines[i].ms
    <3> TAKE i \in DOMAIN lines
    <3>1. t[i] = OfFrame(run[i - 1], lines[i])
      BY <1>0, <1>2
    <3> QED BY <3>1 DEF OfFrame
  <2> QED BY <2>1, <2>2 DEF All
<1>6. Valued(totals)
  <2>1. 1 \in DOMAIN t
    BY <1>0, <1>2
  <2>2. Frames(t) # {}
    BY <2>1 DEF Frames
  <2> QED BY <1>4, <2>2 DEF Valued
<1>7. Percentile(totals, 50) <= Percentile(totals, 95)
  <2>1. 50 \in 0 .. 99 /\ 95 \in 0 .. 99 /\ 50 <= 95
    OBVIOUS
  <2> QED BY <1>6, <2>1, PercentilesInOrder
<1>8. Percentile(totals, 95) <= P99(lines)
  <2>1. 95 \in 0 .. 99 /\ 99 \in 0 .. 99 /\ 95 <= 99
    OBVIOUS
  <2>2. P99(lines) = Percentile(totals, 99)
    BY DEF P99, totals
  <2> QED BY <1>6, <2>1, <2>2, PercentilesInOrder
<1>9. LatencyPassed(lines, budget) = "pass" => FewOver(totals, budget)
  <2>1. LatencyPassed(lines, budget) = "pass" => P99(lines) <= 100 * budget
    BY DEF LatencyPassed
  <2> QED BY <1>6, <2>1, FewAboveIt DEF P99, totals
<1>10. Uniform(lines, perFrame) =>
         totals = [k \in 0 .. (N \div perFrame - 1) |->
                     Total([j \in 1 .. perFrame |-> lines[k * perFrame + j].ms])]
  BY UniformTotals DEF totals
<1> HIDE DEF N
<1> QED BY <1>4, <1>5, <1>7, <1>8, <1>9, <1>10 DEF LatencyIsAccounted, Uniform, N, totals

\* What the exit code says of a latency budget.
LEMMA BudgetIsKept ==
  ASSUME NEW Stages, NEW lines \in Seq(Traced(Stages)), NEW budget \in Int, budget # None,
         LatencyPassed(lines, budget) # "fail"
  PROVE  FewOver(FrameTotals(lines), budget)
<1>1. CASE lines = <<>>
  <2>1. PICK run : CutRun(Stages, lines, run)
    BY TimedRuns
  <2>2. Timed(lines) \in Seq(Traced(Stages)) /\ Len(Timed(lines)) = 0
    BY <1>1, <2>1, TimedIs
  <2>3. Frames(Timed(lines)) = {}
    BY <2>2 DEF Frames
  <2>4. DOMAIN FrameTotals(lines) = {}
    BY <2>3 DEF FrameTotals
  <2> DEFINE over == {f \in DOMAIN FrameTotals(lines) : FrameTotals(lines)[f] > budget}
  <2>5. over = {} /\ Cardinality({}) = 0
    BY <2>4, FS_EmptySet
  <2> QED BY <2>4, <2>5 DEF FewOver
<1>2. CASE lines # <<>>
  <2>1. LatencyIsAccounted(lines, budget, 0)
    BY LatenciesAreAccounted
  <2>2. LatencyPassed(lines, budget) = "pass"
    BY <1>2 DEF LatencyPassed
  <2> QED BY <1>2, <2>1, <2>2 DEF LatencyIsAccounted
<1> QED BY <1>1, <1>2

-----------------------------------------------------------------------------
\* The greatest of some places is one of them.
LEMMA GreatestPlace ==
  ASSUME NEW n \in Nat, NEW I, I \subseteq 1 .. n, I # {}
  PROVE  Max(I) \in I /\ \A j \in I : j <= Max(I)
<1> DEFINE f == [i \in I |-> i]
<1>1. \A i \in I : f[i] \in Int /\ f[i] = i /\ i \in Int
  OBVIOUS
<1> HIDE DEF f
<1>2. PICK i \in I : \A j \in I : f[j] <= f[i]
  BY <1>1, HasGreatest
<1>3. \A j \in I : i >= j
  BY <1>1, <1>2
<1>4. Max(I) \in I /\ \A j \in I : Max(I) >= j
  BY <1>3 DEF Max
<1> QED BY <1>1, <1>4

\* What a diff keeps while it goes through the incumbent's boxes.
Diffing(M) == [taken : SUBSET (1 .. M), agreements : Nat, changed : Nat, removed : Nat]
Undiffed == [taken |-> {}, agreements |-> 0, changed |-> 0, removed |-> 0]
Differing(b, d, p) ==
  LET j == TakeBox(p, d.taken, b) IN
    IF j = 0 THEN [d EXCEPT !.removed = @ + 1]
    ELSE IF b[j].label = p.label
         THEN [d EXCEPT !.taken = @ \cup {j}, !.agreements = @ + 1]
         ELSE [d EXCEPT !.taken = @ \cup {j}, !.changed = @ + 1]

\* A box takes none, or one that is free.
LEMMA TakesFree ==
  ASSUME NEW B, NEW b \in Seq(B), NEW p, NEW taken
  PROVE  TakeBox(p, taken, b) = 0 \/ TakeBox(p, taken, b) \in (1 .. Len(b)) \ taken
<1> DEFINE free == {j \in DOMAIN b \ taken : Half(Overlap(p, b[j]))}
           best == {j \in free : \A k \in free : ~Better(Overlap(p, b[k]), Overlap(p, b[j]))}
<1>1. TakeBox(p, taken, b) = IF best = {} THEN 0 ELSE Max(best)
  BY DEF TakeBox
<1>2. DOMAIN b = 1 .. Len(b) /\ Len(b) \in Nat
  OBVIOUS
<1>3. best \subseteq (1 .. Len(b)) \ taken
  <2> HIDE DEF Max
  <2> QED BY <1>2
<1>4. CASE best = {} BY <1>1, <1>4
<1>5. CASE best # {}
  <2> HIDE DEF best
  <2>1. Max(best) \in best
    BY <1>2, <1>3, <1>5, GreatestPlace
  <2> QED BY <1>1, <1>3, <1>5, <2>1
<1> HIDE DEF best
<1> QED BY <1>4, <1>5

\* One step: the box is counted once, and so is the one it takes.
LEMMA DiffersOnce ==
  ASSUME NEW B, NEW b \in Seq(B), NEW p, NEW d \in Diffing(Len(b))
  PROVE  LET e == Differing(b, d, p) IN
           /\ e \in Diffing(Len(b))
           /\ e.agreements + e.changed + e.removed = d.agreements + d.changed + d.removed + 1
           /\ (e.agreements + e.changed) + Cardinality(d.taken) = (d.agreements + d.changed) + Cardinality(e.taken)
<1> DEFINE M == Len(b)
           j == TakeBox(p, d.taken, b)
           e == Differing(b, d, p)
<1>0. M \in Nat
  OBVIOUS
<1>1. d.taken \in SUBSET (1 .. M) /\ d.agreements \in Nat /\ d.changed \in Nat /\ d.removed \in Nat
  BY DEF Diffing
<1>9. d = [taken |-> d.taken, agreements |-> d.agreements, changed |-> d.changed, removed |-> d.removed]
  BY DEF Diffing
<1>2. j = 0 \/ j \in (1 .. M) \ d.taken
  BY TakesFree
<1>3. IsFiniteSet(d.taken) /\ Cardinality(d.taken) \in Nat
  <2>1. IsFiniteSet(1 .. M)
    BY <1>0, FS_Interval
  <2>2. IsFiniteSet(d.taken)
    BY <1>1, <2>1, FS_Subset
  <2> QED BY <2>2, FS_CardinalityType
<1>4. j \in 1 .. M => j # 0
  BY <1>0
<1>5. j # 0 => Cardinality(d.taken \cup {j}) = Cardinality(d.taken) + 1
  <2> HIDE DEF j
  <2> QED BY <1>2, <1>3, FS_AddElement
<1>6. CASE j = 0
  <2>1. e = [taken |-> d.taken, agreements |-> d.agreements, changed |-> d.changed, removed |-> d.removed + 1]
    <3>1. e = [d EXCEPT !.removed = @ + 1]
      BY <1>6 DEF Differing
    <3> HIDE DEF e
    <3> QED BY <1>9, <3>1
  <2> HIDE DEF e
  <2>2. e \in Diffing(M)
    <3> HIDE DEF M
    <3> QED BY <1>1, <2>1 DEF Diffing
  <2>3. /\ e.taken = d.taken /\ e.agreements = d.agreements /\ e.changed = d.changed
        /\ e.removed = d.removed + 1
    BY <2>1
  <2>4. /\ e.agreements + e.changed + e.removed = d.agreements + d.changed + d.removed + 1
        /\ (e.agreements + e.changed) + Cardinality(d.taken) = (d.agreements + d.changed) + Cardinality(e.taken)
    <3>1. e.agreements + e.changed + e.removed = d.agreements + d.changed + d.removed + 1
      BY <1>1, <2>3
    <3> QED BY <2>3, <3>1
  <2> QED BY <2>2, <2>4 DEF e
<1>7. CASE j # 0 /\ b[j].label = p.label
  <2>1. e = [taken |-> d.taken \cup {j}, agreements |-> d.agreements + 1, changed |-> d.changed,
             removed |-> d.removed]
    <3>1. e = [d EXCEPT !.taken = @ \cup {j}, !.agreements = @ + 1]
      BY <1>7 DEF Differing
    <3> HIDE DEF j, e
    <3> QED BY <1>9, <3>1
  <2> HIDE DEF e
  <2>2. e \in Diffing(M)
    <3> HIDE DEF M, j
    <3>1. d.taken \cup {j} \in SUBSET (1 .. M)
      BY <1>1, <1>2, <1>7
    <3> QED BY <1>1, <2>1, <3>1 DEF Diffing
  <2>3. /\ e.taken = d.taken \cup {j} /\ e.agreements = d.agreements + 1 /\ e.changed = d.changed
        /\ e.removed = d.removed
    BY <2>1
  <2>4. /\ e.agreements + e.changed + e.removed = d.agreements + d.changed + d.removed + 1
        /\ (e.agreements + e.changed) + Cardinality(d.taken) = (d.agreements + d.changed) + Cardinality(e.taken)
    <3>1. Cardinality(e.taken) = Cardinality(d.taken) + 1
      BY <1>5, <1>7, <2>3
    <3> HIDE DEF j
    <3>2. e.agreements = d.agreements + 1 /\ e.changed = d.changed /\ e.removed = d.removed
      BY <2>3
    <3> DEFINE p1 == d.agreements
               q1 == d.changed
               r1 == d.removed
               c1 == Cardinality(d.taken)
    <3>3. p1 \in Nat /\ q1 \in Nat /\ r1 \in Nat /\ c1 \in Nat
      BY <1>1, <1>3
    <3>4. /\ (p1 + 1) + q1 + r1 = p1 + q1 + r1 + 1
          /\ ((p1 + 1) + q1) + c1 = (p1 + q1) + (c1 + 1)
      <4> HIDE DEF p1, q1, r1, c1
      <4> QED BY <3>3
    <3> QED BY <3>1, <3>2, <3>4
  <2> QED BY <2>2, <2>4 DEF e
<1>8. CASE j # 0 /\ b[j].label # p.label
  <2>1. e = [taken |-> d.taken \cup {j}, agreements |-> d.agreements, changed |-> d.changed + 1,
             removed |-> d.removed]
    <3>1. e = [d EXCEPT !.taken = @ \cup {j}, !.changed = @ + 1]
      BY <1>8 DEF Differing
    <3> HIDE DEF j, e
    <3> QED BY <1>9, <3>1
  <2> HIDE DEF e
  <2>2. e \in Diffing(M)
    <3> HIDE DEF M, j
    <3>1. d.taken \cup {j} \in SUBSET (1 .. M)
      BY <1>1, <1>2, <1>8
    <3> QED BY <1>1, <2>1, <3>1 DEF Diffing
  <2>3. /\ e.taken = d.taken \cup {j} /\ e.agreements = d.agreements /\ e.changed = d.changed + 1
        /\ e.removed = d.removed
    BY <2>1
  <2>4. /\ e.agreements + e.changed + e.removed = d.agreements + d.changed + d.removed + 1
        /\ (e.agreements + e.changed) + Cardinality(d.taken) = (d.agreements + d.changed) + Cardinality(e.taken)
    <3>1. Cardinality(e.taken) = Cardinality(d.taken) + 1
      BY <1>5, <1>8, <2>3
    <3> HIDE DEF j
    <3>2. e.agreements = d.agreements /\ e.changed = d.changed + 1 /\ e.removed = d.removed
      BY <2>3
    <3> DEFINE p1 == d.agreements
               q1 == d.changed
               r1 == d.removed
               c1 == Cardinality(d.taken)
    <3>3. p1 \in Nat /\ q1 \in Nat /\ r1 \in Nat /\ c1 \in Nat
      BY <1>1, <1>3
    <3>4. /\ p1 + (q1 + 1) + r1 = p1 + q1 + r1 + 1
          /\ (p1 + (q1 + 1)) + c1 = (p1 + q1) + (c1 + 1)
      <4> HIDE DEF p1, q1, r1, c1
      <4> QED BY <3>3
    <3> QED BY <3>1, <3>2, <3>4
  <2> QED BY <2>2, <2>4 DEF e
<1> HIDE DEF j
<1> QED BY <1>6, <1>7, <1>8

\* The run of a diff.
DiffRun(a, b, run) ==
  /\ run \in [0 .. Len(a) -> Diffing(Len(b))] /\ run[0] = Undiffed
  /\ LET d == run[Len(a)] IN
       DiffDetections(a, b) = [agreements |-> d.agreements, changed |-> d.changed, removed |-> d.removed,
                               added |-> Len(b) - Cardinality(d.taken)]
  /\ \A i \in 1 .. Len(a) : run[i] = Differing(b, run[i - 1], a[i])

LEMMA DiffRuns ==
  ASSUME NEW B, NEW a \in Seq(B), NEW b \in Seq(B)
  PROVE  \E run : DiffRun(a, b, run)
<1> DEFINE N == Len(a)
           S == Diffing(Len(b))
           step == [p \in (1 .. N) \X S |-> Differing(b, p[2], a[p[1]])]
           Eq(g) == g = [T \in SUBSET (1 .. N) |-> IF T = {} THEN Undiffed ELSE Differing(b, g[T \ {Max(T)}], a[Max(T)])]
           iter == CHOOSE g : Eq(g)
<1>1. N \in Nat /\ DOMAIN a = 1 .. N
  OBVIOUS
<1>2. Stepped(N, S, Undiffed, step)
  <2>1. Undiffed \in S
    BY DEF Undiffed, Diffing
  <2>2. \A d \in S, p \in B : Differing(b, d, p) \in S
    BY DiffersOnce
  <2>3. \A i \in 1 .. N : a[i] \in B
    OBVIOUS
  <2> HIDE DEF S, N
  <2> QED BY <1>1, <2>1, <2>2, <2>3 DEF Stepped
<1>3. PICK g : IsFold(N, S, Undiffed, step, g)
  <2> HIDE DEF step, N, S
  <2> QED BY <1>1, <1>2, FoldExists
<1>4. ASSUME NEW T \in SUBSET (1 .. N), T # {}, Max(T) \in T, NEW h, h[T \ {Max(T)}] \in S
      PROVE  step[<<Max(T), h[T \ {Max(T)}]>>] = Differing(b, h[T \ {Max(T)}], a[Max(T)])
  <2> HIDE DEF N, S
  <2> QED BY <1>4
<1>5. Eq(g)
  <2> HIDE DEF N, S, step
  <2>1. ASSUME NEW T \in SUBSET (1 .. N), T # {}
        PROVE  g[T] = Differing(b, g[T \ {Max(T)}], a[Max(T)])
    <3>1. Max(T) \in T /\ g[T \ {Max(T)}] \in S /\ g[T] = step[<<Max(T), g[T \ {Max(T)}]>>]
      BY <1>3, <2>1 DEF IsFold
    <3> QED BY <1>4, <2>1, <3>1
  <2>2. g \in [SUBSET (1 .. N) -> S] /\ g[{}] = Undiffed
    BY <1>3 DEF IsFold
  <2> QED BY <2>1, <2>2
<1>6. Eq(iter)
  <2> HIDE DEF Eq
  <2> QED BY <1>5
<1>7. RunsTo(N, S, Undiffed, step, iter[1 .. N])
  <2> HIDE DEF N, S, step, iter
  <2>1. iter[{}] = Undiffed
    BY <1>6
  <2>2. ASSUME NEW i \in 1 .. N, iter[(1 .. i) \ {Max(1 .. i)}] \in S
        PROVE  iter[1 .. i] = step[<<Max(1 .. i), iter[(1 .. i) \ {Max(1 .. i)}]>>]
    <3> DEFINE D == 1 .. i
    <3>1. D \in SUBSET (1 .. N) /\ D # {} /\ Max(D) \in D
      BY <1>1, Places
    <3> HIDE DEF D
    <3>2. iter[D] = Differing(b, iter[D \ {Max(D)}], a[Max(D)])
      BY <1>6, <3>1
    <3>3. iter[D \ {Max(D)}] \in S
      BY <2>2 DEF D
    <3>4. iter[D] = step[<<Max(D), iter[D \ {Max(D)}]>>]
      BY <1>4, <3>1, <3>2, <3>3
    <3> QED BY <3>4 DEF D
  <2> QED BY <1>1, <1>2, <2>1, <2>2, FoldIsRun, ZenonT(30)
<1>8. DiffDetections(a, b) =
        LET d == iter[1 .. N] IN
          [agreements |-> d.agreements, changed |-> d.changed, removed |-> d.removed,
           added |-> Len(b) - Cardinality(d.taken)]
  BY <1>1 DEF DiffDetections, FoldLeft, MapThenFoldSet, Differing, Undiffed
<1>9. ASSUME NEW run \in [0 .. N -> S], NEW i \in 1 .. N
      PROVE  step[<<i, run[i - 1]>>] = Differing(b, run[i - 1], a[i])
  <2> HIDE DEF N, S
  <2>1. i - 1 \in 0 .. N
    BY <1>1
  <2> QED BY <2>1
<1> HIDE DEF step, iter
<1>10. PICK run \in [0 .. N -> S] : /\ run[0] = Undiffed /\ run[N] = iter[1 .. N]
                                    /\ \A i \in 1 .. N : run[i] = step[<<i, run[i - 1]>>]
  BY <1>7 DEF RunsTo
<1>11. DiffRun(a, b, run)
  BY <1>8, <1>9, <1>10 DEF DiffRun
<1> QED BY <1>11

-----------------------------------------------------------------------------
\* Boxes: none is empty.
Boxed(Labels) == {p \in [lo : Int, hi : Int, label : Labels] : p.lo < p.hi}

\* A number of equal factors grows with the other.
LEMMA Products == ASSUME NEW w \in Nat, w # 0, NEW x \in Int, NEW y \in Int, x < y PROVE x * w < y * w
<1>1. y * w - x * w = (y - x) * w
  OBVIOUS
<1>2. (y - x) * w > 0
  <2>1. y - x \in Nat /\ y - x # 0
    OBVIOUS
  <2> DEFINE z == y - x
  <2>2. z * w > 0
    <3> HIDE DEF z
    <3> QED BY <2>1 DEF z
  <2> QED BY <2>2
<1>3. x * w \in Int /\ y * w \in Int /\ (y - x) * w \in Int
  OBVIOUS
<1> QED BY <1>1, <1>2, <1>3

\* A box overlaps itself more than any other, and altogether.
LEMMA OverlapsItself ==
  ASSUME NEW Labels, NEW p \in Boxed(Labels), NEW q \in Boxed(Labels)
  PROVE  /\ Half(Overlap(p, p)) /\ ~Better(Overlap(p, p), Overlap(p, p))
         /\ <<p.lo, p.hi>> # <<q.lo, q.hi>> =>
              Better(Overlap(p, p), Overlap(p, q)) /\ ~Better(Overlap(p, q), Overlap(p, p))
<1> DEFINE lo == IF p.lo >= q.lo THEN p.lo ELSE q.lo
           hi == IF p.hi <= q.hi THEN p.hi ELSE q.hi
           inter == IF hi > lo THEN hi - lo ELSE 0
           den == (p.hi - p.lo) + (q.hi - q.lo) - inter
           w == p.hi - p.lo
<1>1. p.lo \in Int /\ p.hi \in Int /\ p.lo < p.hi /\ q.lo \in Int /\ q.hi \in Int /\ q.lo < q.hi
  BY DEF Boxed
<1>2. w \in Nat /\ w # 0
  BY <1>1
<1>3. Overlap(p, p) = [num |-> w, den |-> w]
  BY <1>1 DEF Overlap
<1>4. Overlap(p, q) = [num |-> inter, den |-> den]
  BY DEF Overlap
<1>5. inter \in Nat /\ den \in Int
  BY <1>1
<1>6. <<p.lo, p.hi>> # <<q.lo, q.hi>> => inter < den
  <2> SUFFICES ASSUME p.lo # q.lo \/ p.hi # q.hi PROVE inter < den
    OBVIOUS
  <2> QED BY <1>1
<1> HIDE DEF w, inter, den
<1>7. Half(Overlap(p, p)) /\ ~Better(Overlap(p, p), Overlap(p, p))
  <2>1. Half(Overlap(p, p))
    BY <1>2, <1>3 DEF Half
  <2>2. w * w \in Int
    BY <1>2
  <2>3. ~Better(Overlap(p, p), Overlap(p, p))
    BY <1>3, <2>2 DEF Better
  <2> QED BY <2>1, <2>3
<1>8. ASSUME inter < den
      PROVE  Better(Overlap(p, p), Overlap(p, q)) /\ ~Better(Overlap(p, q), Overlap(p, p))
  <2>1. inter * w < den * w
    BY <1>2, <1>5, <1>8, Products
  <2>2. w * den = den * w
    BY <1>2, <1>5
  <2>3. Better(Overlap(p, p), Overlap(p, q)) <=> w * den > inter * w
    BY <1>3, <1>4 DEF Better
  <2>4. Better(Overlap(p, q), Overlap(p, p)) <=> inter * w > w * den
    BY <1>3, <1>4 DEF Better
  <2> DEFINE x == inter * w
             y == w * den
  <2>5. x \in Int /\ y \in Int /\ x < y
    BY <1>2, <1>5, <2>1, <2>2
  <2>6. y > x /\ ~(x > y)
    <3> HIDE DEF x, y
    <3> QED BY <2>5
  <2> QED BY <2>3, <2>4, <2>6
<1> QED BY <1>6, <1>7, <1>8

\* Each box is counted, and taken, at most once, and boxes that differ all
\* agree with themselves (shadow.py), for any boxes.
THEOREM DiffsAreAccounted ==
  ASSUME NEW Labels, NEW a \in Seq(Boxed(Labels)), NEW b \in Seq(Boxed(Labels))
  PROVE  DiffIsAccounted(a, b)
<1> DEFINE B == Boxed(Labels)
           N == Len(a)
<1> HIDE DEF B
<1>0. a \in Seq(B) /\ b \in Seq(B) /\ N \in Nat
  BY DEF B
<1>1. ASSUME NEW c \in Seq(B), NEW run, DiffRun(a, c, run)
      PROVE  \A i \in 0 .. N :
               /\ run[i].agreements + run[i].changed + run[i].removed = i
               /\ run[i].agreements + run[i].changed = Cardinality(run[i].taken)
  <2> DEFINE P == {i \in 0 .. N : /\ run[i].agreements + run[i].changed + run[i].removed = i
                                  /\ run[i].agreements + run[i].changed = Cardinality(run[i].taken)}
  <2>1. 0 \in P
    <3>1. Cardinality({}) = 0
      BY FS_EmptySet
    <3>2. /\ run[0].taken = {} /\ run[0].agreements = 0 /\ run[0].changed = 0 /\ run[0].removed = 0
          /\ 0 \in 0 .. N
      BY <1>0, <1>1 DEF DiffRun, Undiffed
    <3>3. /\ run[0].agreements + run[0].changed + run[0].removed = 0
          /\ run[0].agreements + run[0].changed = Cardinality(run[0].taken)
      BY <3>1, <3>2
    <3> QED BY <3>2, <3>3
  <2>2. ASSUME NEW n \in 0 .. N, n < N, n \in P PROVE n + 1 \in P
    <3> DEFINE d == run[n]
               e == run[n + 1]
    <3>1. n + 1 \in 1 .. N /\ n + 1 \in 0 .. N /\ (n + 1) - 1 = n
      BY <1>0, <2>2
    <3>2. d \in Diffing(Len(c)) /\ e = Differing(c, d, a[n + 1])
      BY <1>1, <3>1 DEF DiffRun
    <3> HIDE DEF d, e
    <3>3. /\ e \in Diffing(Len(c))
          /\ e.agreements + e.changed + e.removed = d.agreements + d.changed + d.removed + 1
          /\ (e.agreements + e.changed) + Cardinality(d.taken) = (d.agreements + d.changed) + Cardinality(e.taken)
      BY <1>1, <3>2, DiffersOnce
    <3>4. /\ e.agreements \in Nat /\ e.changed \in Nat /\ e.removed \in Nat
          /\ d.agreements \in Nat /\ d.changed \in Nat /\ d.removed \in Nat
      BY <3>2, <3>3 DEF Diffing
    <3>5. Cardinality(e.taken) \in Nat
      <4>1. e.taken \in SUBSET (1 .. Len(c)) /\ Len(c) \in Nat
        BY <3>3, <1>1 DEF Diffing
      <4> DEFINE m == Len(c)
      <4>3. m \in Int
        BY <4>1
      <4>4. e.taken \in SUBSET (1 .. m)
        BY <4>1
      <4> HIDE DEF m
      <4>5. IsFiniteSet(1 .. m)
        BY <4>3, FS_Interval
      <4>2. IsFiniteSet(e.taken)
        BY <4>4, <4>5, FS_Subset
      <4> QED BY <4>2, FS_CardinalityType
    <3>6. d.agreements + d.changed + d.removed = n /\ d.agreements + d.changed = Cardinality(d.taken)
      BY <2>2 DEF d
    <3>7. e.agreements + e.changed + e.removed = n + 1 /\ e.agreements + e.changed = Cardinality(e.taken)
      <4> DEFINE x == Cardinality(e.taken)
                 y == Cardinality(d.taken)
      <4>1. /\ x \in Nat /\ n \in Nat
            /\ (e.agreements + e.changed) + y = (d.agreements + d.changed) + x
            /\ d.agreements + d.changed = y
        BY <1>0, <3>3, <3>5, <3>6
      <4>6. \A k, l \in Nat : k + l \in Nat
        OBVIOUS
      <4>5. d.agreements + d.changed \in Nat /\ e.agreements + e.changed \in Nat
        BY <3>4, <4>6, Zenon
      <4> HIDE DEF x, y
      <4>2. y \in Nat
        BY <4>1, <4>5
      <4> DEFINE v == e.agreements + e.changed
      <4>3. v = x
        <5>1. v \in Nat /\ v + y = y + x
          BY <4>1, <4>5
        <5> HIDE DEF v
        <5> QED BY <4>1, <4>2, <5>1
      <4>4. e.agreements + e.changed + e.removed = n + 1
        BY <3>3, <3>4, <3>6, <4>1
      <4> QED BY <4>3, <4>4 DEF x
    <3> QED BY <3>1, <3>7 DEF e
  <2> HIDE DEF P
  <2>3. \A i \in 0 .. N : i \in P
    BY <1>0, <2>1, <2>2, Counting
  <2> QED BY <2>3 DEF P
<1>2. /\ DiffDetections(a, b).agreements + DiffDetections(a, b).changed + DiffDetections(a, b).removed = N
      /\ DiffDetections(a, b).agreements + DiffDetections(a, b).changed + DiffDetections(a, b).added = Len(b)
  <2>1. PICK run : DiffRun(a, b, run)
    BY <1>0, DiffRuns
  <2> DEFINE d == run[N]
  <2>2. N \in 0 .. N
    BY <1>0
  <2>3. /\ d.agreements + d.changed + d.removed = N
        /\ d.agreements + d.changed = Cardinality(d.taken)
    BY <1>0, <1>1, <2>1, <2>2
  <2>4. /\ DiffDetections(a, b).agreements = d.agreements /\ DiffDetections(a, b).changed = d.changed
        /\ DiffDetections(a, b).removed = d.removed
        /\ DiffDetections(a, b).added = Len(b) - Cardinality(d.taken)
    BY <2>1 DEF DiffRun
  <2>5. d.agreements \in Nat /\ d.changed \in Nat /\ d.removed \in Nat
    BY <2>1, <2>2 DEF DiffRun, Diffing
  <2> HIDE DEF d
  <2>6. Len(b) \in Nat
    OBVIOUS
  <2> QED BY <2>3, <2>4, <2>5, <2>6
<1>3. ASSUME \A i, j \in DOMAIN a : i # j => <<a[i].lo, a[i].hi>> # <<a[j].lo, a[j].hi>>
      PROVE  DiffDetections(a, a).agreements = N
  <2>1. PICK run : DiffRun(a, a, run)
    BY <1>0, DiffRuns
  <2> DEFINE P == {i \in 0 .. N : run[i].agreements = i /\ run[i].taken = 1 .. i}
  <2>2. 0 \in P
    BY <1>0, <2>1 DEF DiffRun, Undiffed
  <2>3. ASSUME NEW n \in 0 .. N, n < N, n \in P PROVE n + 1 \in P
    <3> DEFINE m == n + 1
               d == run[n]
               free == {j \in DOMAIN a \ d.taken : Half(Overlap(a[m], a[j]))}
               best == {j \in free : \A k \in free : ~Better(Overlap(a[m], a[k]), Overlap(a[m], a[j]))}
    <3>1. m \in 1 .. N /\ m \in 0 .. N /\ m - 1 = n /\ m \notin 1 .. n /\ DOMAIN a = 1 .. N
          /\ (1 .. n) \cup {m} = 1 .. m /\ m # 0
      BY <1>0, <2>3
    <3>2. d \in Diffing(N) /\ run[m] = Differing(a, d, a[m]) /\ d.agreements = n /\ d.taken = 1 .. n
      <4>1. d \in Diffing(N)
        BY <2>1 DEF DiffRun
      <4>2. run[m] = Differing(a, run[m - 1], a[m])
        BY <2>1, <3>1 DEF DiffRun
      <4> QED BY <2>3, <3>1, <4>1, <4>2
    <3> HIDE DEF d, m
    <3>3. a[m] \in Boxed(Labels) /\ \A j \in 1 .. N : a[j] \in Boxed(Labels)
      BY <3>1
    <3>4. m \in free
      BY <3>1, <3>2, <3>3, OverlapsItself
    <3>5. ASSUME NEW j \in free, j # m
          PROVE  Better(Overlap(a[m], a[m]), Overlap(a[m], a[j])) /\ ~Better(Overlap(a[m], a[j]), Overlap(a[m], a[m]))
      <4>1. <<a[m].lo, a[m].hi>> # <<a[j].lo, a[j].hi>> /\ a[j] \in Boxed(Labels)
        BY <1>3, <3>1, <3>3, <3>5
      <4> QED BY <3>3, <4>1, OverlapsItself
    <3>6. ~Better(Overlap(a[m], a[m]), Overlap(a[m], a[m]))
      BY <3>3, OverlapsItself
    <3>7. TakeBox(a[m], d.taken, a) = IF best = {} THEN 0 ELSE Max(best)
      BY DEF TakeBox
    <3> HIDE DEF free
    <3>8. best = {m}
      <4>1. m \in best
        BY <3>4, <3>5, <3>6
      <4>2. \A j \in best : j = m
        BY <3>4, <3>5
      <4> HIDE DEF best
      <4> QED BY <4>1, <4>2
    <3>9. Max({m}) = m
      <4>1. m \in Nat /\ m >= m
        BY <3>1
      <4> QED BY <4>1 DEF Max
    <3>10. TakeBox(a[m], d.taken, a) = m
      BY <3>7, <3>8, <3>9
    <3>11. Differing(a, d, a[m]) = [d EXCEPT !.taken = @ \cup {m}, !.agreements = @ + 1]
      BY <3>1, <3>10 DEF Differing
    <3>12. /\ Differing(a, d, a[m]).agreements = d.agreements + 1
           /\ Differing(a, d, a[m]).taken = d.taken \cup {m}
      <4>1. d = [taken |-> d.taken, agreements |-> d.agreements, changed |-> d.changed, removed |-> d.removed]
        BY <3>2 DEF Diffing
      <4> QED BY <3>11, <4>1
    <3>13. run[m].agreements = m /\ run[m].taken = 1 .. m
      <4>1. run[m].agreements = n + 1
        BY <3>2, <3>12
      <4> QED BY <3>1, <3>2, <3>12, <4>1 DEF m
    <3> QED BY <3>1, <3>13 DEF m
  <2> HIDE DEF P
  <2>4. \A i \in 0 .. N : i \in P
    BY <1>0, <2>2, <2>3, Counting
  <2>5. run[N].agreements = N
    BY <1>0, <2>4 DEF P
  <2>6. DiffDetections(a, a).agreements = run[N].agreements
    BY <2>1 DEF DiffRun
  <2> QED BY <2>5, <2>6
<1> QED BY <1>2, <1>3 DEF DiffIsAccounted

-----------------------------------------------------------------------------
\* What the scoring keeps while it goes through the predictions.
Hitting(M) == [taken : SUBSET (1 .. M), hits : Seq(BOOLEAN)]
Unhit == [taken |-> {}, hits |-> <<>>]
Scoring(truths, m, p) ==
  LET j == TakeTruth(p, m.taken, truths)
  IN  [taken |-> IF j = 0 THEN m.taken ELSE m.taken \cup {j}, hits |-> Append(m.hits, j # 0)]

\* A prediction takes none, or a truth that is free.
LEMMA TakesFreeTruth ==
  ASSUME NEW B, NEW truths \in Seq(B), NEW p, NEW taken
  PROVE  TakeTruth(p, taken, truths) = 0 \/ TakeTruth(p, taken, truths) \in (1 .. Len(truths)) \ taken
<1> DEFINE free == {j \in DOMAIN truths \ taken : Overlap(p, truths[j]).num > 0}
           best == {j \in free : \A k \in free : ~Better(Overlap(p, truths[k]), Overlap(p, truths[j]))}
<1>1. TakeTruth(p, taken, truths) =
        IF best = {} THEN 0 ELSE IF Half(Overlap(p, truths[LeastOf(best)])) THEN LeastOf(best) ELSE 0
  BY DEF TakeTruth
<1>2. best \subseteq (1 .. Len(truths)) \ taken
  BY DEF Better
<1>3. best \subseteq Nat
  <2> HIDE DEF best
  <2> QED BY <1>2
<1>4. best # {} => LeastOf(best) \in best
  <2> HIDE DEF best
  <2> QED BY <1>3, LeastIs
<1> HIDE DEF best
<1> QED BY <1>1, <1>2, <1>4

\* One step: a prediction is one more hit or miss, and a hit takes one truth.
LEMMA ScoresOne ==
  ASSUME NEW B, NEW truths \in Seq(B), NEW p, NEW m \in Hitting(Len(truths))
  PROVE  LET e == Scoring(truths, m, p)
             j == TakeTruth(p, m.taken, truths)
         IN  /\ e \in Hitting(Len(truths)) /\ e.hits = Append(m.hits, j # 0)
             /\ IsFiniteSet(m.taken) /\ Cardinality(m.taken) \in Nat
             /\ Cardinality(e.taken) = IF j # 0 THEN Cardinality(m.taken) + 1 ELSE Cardinality(m.taken)
<1> DEFINE M == Len(truths)
           j == TakeTruth(p, m.taken, truths)
           e == Scoring(truths, m, p)
           more == IF j = 0 THEN m.taken ELSE m.taken \cup {j}
<1>0. M \in Nat
  OBVIOUS
<1>1. m.taken \in SUBSET (1 .. M) /\ m.hits \in Seq(BOOLEAN)
  BY DEF Hitting
<1>2. j = 0 \/ j \in (1 .. M) \ m.taken
  BY TakesFreeTruth
<1>3. IsFiniteSet(m.taken) /\ Cardinality(m.taken) \in Nat
  <2>1. IsFiniteSet(1 .. M)
    BY <1>0, FS_Interval
  <2>2. IsFiniteSet(m.taken)
    BY <1>1, <2>1, FS_Subset
  <2> QED BY <2>2, FS_CardinalityType
<1>4. e = [taken |-> more, hits |-> Append(m.hits, j # 0)]
  BY DEF Scoring
<1> HIDE DEF M, j, e
<1>5. e.taken = more /\ e.hits = Append(m.hits, j # 0)
  BY <1>4
<1>6. Append(m.hits, j # 0) \in Seq(BOOLEAN)
  BY <1>1
<1>7. more \in SUBSET (1 .. M)
  BY <1>1, <1>2
<1>8. e \in Hitting(M)
  <2> HIDE DEF more
  <2> QED BY <1>4, <1>6, <1>7 DEF Hitting
<1>9. Cardinality(e.taken) = IF j # 0 THEN Cardinality(m.taken) + 1 ELSE Cardinality(m.taken)
  BY <1>2, <1>3, <1>5, FS_AddElement
<1> QED BY <1>3, <1>5, <1>8, <1>9 DEF M, j, e

\* The run of the scoring.
HitRun(preds, truths, run) ==
  /\ run \in [0 .. Len(preds) -> Hitting(Len(truths))] /\ run[0] = Unhit
  /\ Hits(preds, truths) = run[Len(preds)].hits
  /\ \A i \in 1 .. Len(preds) : run[i] = Scoring(truths, run[i - 1], preds[i])

LEMMA HitRuns ==
  ASSUME NEW B, NEW preds \in Seq(B), NEW truths \in Seq(B)
  PROVE  \E run : HitRun(preds, truths, run)
<1> DEFINE N == Len(preds)
           S == Hitting(Len(truths))
           step == [p \in (1 .. N) \X S |-> Scoring(truths, p[2], preds[p[1]])]
           Eq(g) == g = [T \in SUBSET (1 .. N) |-> IF T = {} THEN Unhit ELSE Scoring(truths, g[T \ {Max(T)}], preds[Max(T)])]
           iter == CHOOSE g : Eq(g)
<1>1. N \in Nat /\ DOMAIN preds = 1 .. N
  OBVIOUS
<1>2. Stepped(N, S, Unhit, step)
  <2>1. Unhit \in S
    <3>1. <<>> \in Seq(BOOLEAN) /\ {} \in SUBSET (1 .. Len(truths))
      OBVIOUS
    <3> QED BY <3>1 DEF Unhit, Hitting
  <2>2. \A m \in S, p \in B : Scoring(truths, m, p) \in S
    BY ScoresOne
  <2>3. \A i \in 1 .. N : preds[i] \in B
    OBVIOUS
  <2> HIDE DEF S, N
  <2> QED BY <1>1, <2>1, <2>2, <2>3 DEF Stepped
<1>3. PICK g : IsFold(N, S, Unhit, step, g)
  <2> HIDE DEF step, N, S
  <2> QED BY <1>1, <1>2, FoldExists
<1>4. ASSUME NEW T \in SUBSET (1 .. N), T # {}, Max(T) \in T, NEW h, h[T \ {Max(T)}] \in S
      PROVE  step[<<Max(T), h[T \ {Max(T)}]>>] = Scoring(truths, h[T \ {Max(T)}], preds[Max(T)])
  <2> HIDE DEF N, S
  <2> QED BY <1>4
<1>5. Eq(g)
  <2> HIDE DEF N, S, step
  <2>1. ASSUME NEW T \in SUBSET (1 .. N), T # {}
        PROVE  g[T] = Scoring(truths, g[T \ {Max(T)}], preds[Max(T)])
    <3>1. Max(T) \in T /\ g[T \ {Max(T)}] \in S /\ g[T] = step[<<Max(T), g[T \ {Max(T)}]>>]
      BY <1>3, <2>1 DEF IsFold
    <3> QED BY <1>4, <2>1, <3>1
  <2>2. g \in [SUBSET (1 .. N) -> S] /\ g[{}] = Unhit
    BY <1>3 DEF IsFold
  <2> QED BY <2>1, <2>2
<1>6. Eq(iter)
  <2> HIDE DEF Eq
  <2> QED BY <1>5
<1>7. RunsTo(N, S, Unhit, step, iter[1 .. N])
  <2> HIDE DEF N, S, step, iter
  <2>1. iter[{}] = Unhit
    BY <1>6
  <2>2. ASSUME NEW i \in 1 .. N, iter[(1 .. i) \ {Max(1 .. i)}] \in S
        PROVE  iter[1 .. i] = step[<<Max(1 .. i), iter[(1 .. i) \ {Max(1 .. i)}]>>]
    <3> DEFINE D == 1 .. i
    <3>1. D \in SUBSET (1 .. N) /\ D # {} /\ Max(D) \in D
      BY <1>1, Places
    <3> HIDE DEF D
    <3>2. iter[D] = Scoring(truths, iter[D \ {Max(D)}], preds[Max(D)])
      BY <1>6, <3>1
    <3>3. iter[D \ {Max(D)}] \in S
      BY <2>2 DEF D
    <3>4. iter[D] = step[<<Max(D), iter[D \ {Max(D)}]>>]
      BY <1>4, <3>1, <3>2, <3>3
    <3> QED BY <3>4 DEF D
  <2> QED BY <1>1, <1>2, <2>1, <2>2, FoldIsRun, ZenonT(30)
<1>8. Hits(preds, truths) = iter[1 .. N].hits
  BY <1>1 DEF Hits, FoldLeft, MapThenFoldSet, Scoring, Unhit
<1>9. ASSUME NEW run \in [0 .. N -> S], NEW i \in 1 .. N
      PROVE  step[<<i, run[i - 1]>>] = Scoring(truths, run[i - 1], preds[i])
  <2> HIDE DEF N, S
  <2>1. i - 1 \in 0 .. N
    BY <1>1
  <2> QED BY <2>1
<1> HIDE DEF step, iter
<1>10. PICK run \in [0 .. N -> S] : /\ run[0] = Unhit /\ run[N] = iter[1 .. N]
                                    /\ \A i \in 1 .. N : run[i] = step[<<i, run[i - 1]>>]
  BY <1>7 DEF RunsTo
<1>11. HitRun(preds, truths, run)
  BY <1>8, <1>9, <1>10 DEF HitRun
<1> QED BY <1>11

\* Which of the first k are hits.
Found(hits, k) == {i \in 1 .. k : hits[i]}

\* One more place is one more hit or it is not.
LEMMA FoundGrows ==
  ASSUME NEW hits, NEW k \in Nat
  PROVE  /\ IsFiniteSet(Found(hits, k)) /\ Cardinality(Found(hits, k)) \in Nat
         /\ Cardinality(Found(hits, k)) <= k
         /\ Cardinality(Found(hits, k)) = k => \A i \in 1 .. k : hits[i]
         /\ (\A i \in 1 .. k : hits[i]) => Cardinality(Found(hits, k)) = k
         /\ k # 0 => Cardinality(Found(hits, k)) =
                       IF hits[k] THEN Cardinality(Found(hits, k - 1)) + 1 ELSE Cardinality(Found(hits, k - 1))
<1> DEFINE F == Found(hits, k)
           I == 1 .. k
<1>1. IsFiniteSet(I) /\ Cardinality(I) = k
  BY FS_Interval
<1>2. F \in SUBSET I
  BY DEF Found
<1>3. IsFiniteSet(F) /\ Cardinality(F) <= Cardinality(I) /\ (Cardinality(I) = Cardinality(F) => I = F)
  <2> HIDE DEF F, I
  <2> QED BY <1>1, <1>2, FS_Subset
<1>4. Cardinality(F) \in Nat
  BY <1>3, FS_CardinalityType
<1>5. (\A i \in I : hits[i]) => F = I
  BY DEF Found
<1>6. F = I => \A i \in I : hits[i]
  BY DEF Found
<1>7. ASSUME k # 0
      PROVE  Cardinality(F) = IF hits[k] THEN Cardinality(Found(hits, k - 1)) + 1
                              ELSE Cardinality(Found(hits, k - 1))
  <2> DEFINE E == Found(hits, k - 1)
  <2>1. k - 1 \in Nat /\ k \in I /\ k \notin 1 .. (k - 1) /\ I = (1 .. (k - 1)) \cup {k}
    BY <1>7
  <2>2. k \notin E /\ F = IF hits[k] THEN E \cup {k} ELSE E
    BY <2>1 DEF Found
  <2>3. IsFiniteSet(E)
    <3>1. E \in SUBSET F
      BY <2>1 DEF Found
    <3> HIDE DEF E, F
    <3> QED BY <1>3, <3>1, FS_Subset
  <2> HIDE DEF E, F
  <2>4. CASE hits[k]
    <3>1. Cardinality(E \cup {k}) = Cardinality(E) + 1
      BY <2>2, <2>3, FS_AddElement
    <3> QED BY <2>2, <2>4, <3>1 DEF E
  <2>5. CASE ~hits[k]
    BY <2>2, <2>5 DEF E
  <2> QED BY <2>4, <2>5
<1> HIDE DEF F, I
<1> QED BY <1>1, <1>3, <1>4, <1>5, <1>6, <1>7 DEF F, I

\* The hits of a run: one for each prediction, as many as truths are taken.
LEMMA HitsAre ==
  ASSUME NEW B, NEW preds \in Seq(B), NEW truths \in Seq(B), NEW run, HitRun(preds, truths, run)
  PROVE  \A n \in 0 .. Len(preds) :
           /\ run[n].hits \in Seq(BOOLEAN) /\ Len(run[n].hits) = n
           /\ \A k \in 1 .. n : run[n].hits[k] = (TakeTruth(preds[k], run[k - 1].taken, truths) # 0)
           /\ Cardinality(run[n].taken) = Cardinality(Found(run[n].hits, n))
<1> DEFINE N == Len(preds)
           Hit(k) == (TakeTruth(preds[k], run[k - 1].taken, truths) # 0)
           P == {n \in 0 .. N : /\ Len(run[n].hits) = n
                                /\ \A k \in 1 .. n : run[n].hits[k] = Hit(k)
                                /\ Cardinality(run[n].taken) = Cardinality(Found(run[n].hits, n))}
<1>0. N \in Nat
  OBVIOUS
<1>1. 0 \in P
  <2>1. run[0].hits = <<>> /\ run[0].taken = {}
    BY DEF HitRun, Unhit
  <2>2. Found(<<>>, 0) = {}
    BY DEF Found
  <2>3. 0 \in 0 .. N
    BY <1>0
  <2>4. Len(run[0].hits) = 0 /\ Cardinality(run[0].taken) = Cardinality(Found(run[0].hits, 0))
    BY <2>1, <2>2
  <2>5. \A k \in 1 .. 0 : run[0].hits[k] = Hit(k)
    <3> HIDE DEF Hit
    <3> QED OBVIOUS
  <2> HIDE DEF Hit
  <2> QED BY <2>3, <2>4, <2>5
<1>2. ASSUME NEW n \in 0 .. N, n < N, n \in P PROVE n + 1 \in P
  <2> DEFINE s == run[n].hits
             j == TakeTruth(preds[n + 1], run[n].taken, truths)
             x == j # 0
             t == Append(s, x)
  <2>1. n + 1 \in 1 .. N /\ n + 1 \in 0 .. N /\ (n + 1) - 1 = n /\ n \in Nat
    BY <1>0, <1>2
  <2>2. run[n] \in Hitting(Len(truths)) /\ run[n + 1] = Scoring(truths, run[n], preds[n + 1])
    BY <2>1 DEF HitRun
  <2>3. s \in Seq(BOOLEAN) /\ Len(s) = n /\ \A k \in 1 .. n : s[k] = Hit(k)
    BY <1>2, <2>2 DEF Hitting
  <2>4. x \in BOOLEAN /\ Hit(n + 1) = x
    <3>1. run[(n + 1) - 1].taken = run[n].taken
      BY <2>1
    <3> HIDE DEF j
    <3>2. x \in BOOLEAN
      OBVIOUS
    <3> QED BY <3>1, <3>2 DEF j
  <2>5. /\ run[n + 1].hits = t
        /\ Cardinality(run[n + 1].taken) =
             IF x THEN Cardinality(run[n].taken) + 1 ELSE Cardinality(run[n].taken)
    <3> DEFINE m == run[n]
               p == preds[n + 1]
    <3>1. m \in Hitting(Len(truths)) /\ run[n + 1] = Scoring(truths, m, p)
      BY <2>2
    <3> HIDE DEF m, p
    <3>2. /\ run[n + 1].hits = Append(m.hits, TakeTruth(p, m.taken, truths) # 0)
          /\ Cardinality(run[n + 1].taken) =
               IF TakeTruth(p, m.taken, truths) # 0 THEN Cardinality(m.taken) + 1 ELSE Cardinality(m.taken)
      BY <3>1, ScoresOne
    <3> QED BY <3>2 DEF m, p
  <2> HIDE DEF s, x
  <2>6. Len(t) = n + 1 /\ t[n + 1] = x /\ \A k \in 1 .. n : t[k] = s[k]
    BY <2>1, <2>3, <2>4
  <2> HIDE DEF t
  <2>7. \A k \in 1 .. (n + 1) : t[k] = Hit(k)
    <3>1. \A k \in 1 .. (n + 1) : k \in 1 .. n \/ k = n + 1
      BY <2>1
    <3> HIDE DEF Hit
    <3> QED BY <2>3, <2>4, <2>6, <3>1
  <2>8. Found(t, n) = Found(s, n)
    BY <2>6 DEF Found
  <2>9. Cardinality(Found(t, n + 1)) = IF x THEN Cardinality(Found(s, n)) + 1 ELSE Cardinality(Found(s, n))
    <3>1. n + 1 \in Nat /\ n + 1 # 0
      BY <2>1
    <3> QED BY <2>1, <2>6, <2>8, <3>1, FoundGrows
  <2>10. Cardinality(run[n].taken) = Cardinality(Found(s, n))
    BY <1>2 DEF s
  <2>11. Cardinality(run[n + 1].taken) = Cardinality(Found(t, n + 1))
    BY <2>5, <2>9, <2>10
  <2> QED BY <2>1, <2>5, <2>6, <2>7, <2>11
<1>3. \A n \in 0 .. N : n \in P
  <2> HIDE DEF P, N
  <2> QED BY <1>0, <1>1, <1>2, Counting
<1>4. \A n \in 0 .. N : run[n].hits \in Seq(BOOLEAN)
  BY DEF HitRun, Hitting
<1> QED BY <1>3, <1>4

-----------------------------------------------------------------------------
\* A quotient: the last multiple that fits.
LEMMA Quotient ==
  ASSUME NEW x \in Nat, NEW k \in Nat, k # 0
  PROVE  \E d \in Nat : x \div k = d /\ d * k <= x /\ x < (d + 1) * k
<1> DEFINE d == x \div k
           r == x % k
<1>1. d \in Nat /\ r \in Nat /\ r < k /\ x = d * k + r
  OBVIOUS
<1> DEFINE m == d * k
<1>2. m \in Nat /\ (d + 1) * k = m + k
  BY <1>1
<1>3. m <= x /\ x < m + k
  <2> HIDE DEF m, r
  <2> QED BY <1>1, <1>2 DEF m
<1> HIDE DEF d
<1> QED BY <1>1, <1>2, <1>3 DEF d

\* Smaller factors make smaller products.
LEMMA Factors ==
  ASSUME NEW k \in Nat, k # 0, NEW x \in Nat, NEW y \in Nat, x * k < y * k
  PROVE  x < y
<1> SUFFICES ASSUME y <= x PROVE FALSE
  OBVIOUS
<1>1. x * k \in Nat /\ y * k \in Nat
  OBVIOUS
<1>2. CASE x = y
  BY <1>1, <1>2
<1>3. CASE y < x
  <2>1. y * k < x * k
    BY <1>3, Products
  <2> DEFINE p == x * k
             q == y * k
  <2>2. p \in Nat /\ q \in Nat /\ p < q /\ q < p
    BY <1>1, <2>1
  <2> HIDE DEF p, q
  <2> QED BY <2>2
<1> QED BY <1>2, <1>3

\* A precision is a fraction, is full when the first k are all hits, and does
\* not grow where one more is none.
LEMMA PrecisionIs ==
  ASSUME NEW hits, NEW k \in Nat, k # 0
  PROVE  /\ Precision(hits, k) \in Nat /\ Precision(hits, k) <= 6
         /\ Precision(hits, k) = 6 => \A i \in 1 .. k : hits[i]
         /\ (\A i \in 1 .. k : hits[i]) => Precision(hits, k) = 6
         /\ ~hits[k] /\ k # 1 => Precision(hits, k) <= Precision(hits, k - 1)
<1> DEFINE c == Cardinality(Found(hits, k))
<1>1. c \in Nat /\ c <= k /\ (c = k => \A i \in 1 .. k : hits[i]) /\ ((\A i \in 1 .. k : hits[i]) => c = k)
  BY FoundGrows
<1>2. Precision(hits, k) = (6 * c) \div k
  BY DEF Precision, Found, Sixth
<1> HIDE DEF c
<1>3. PICK d \in Nat : (6 * c) \div k = d /\ d * k <= 6 * c /\ 6 * c < (d + 1) * k
  <2>1. 6 * c \in Nat
    BY <1>1
  <2> QED BY <2>1, Quotient
<1> DEFINE p == d * k
           q == (d + 1) * k
<1>4. p \in Nat /\ q \in Nat /\ p <= 6 * c /\ 6 * c < q
  BY <1>3
<1>5. d <= 6
  <2> SUFFICES ASSUME 7 <= d PROVE FALSE
    BY <1>3
  <2>1. 7 * k <= p
    <3>1. d # 7 => 7 * k < d * k
      BY <1>3, Products
    <3>2. d = 7 => 7 * k = d * k
      OBVIOUS
    <3> HIDE DEF p
    <3> QED BY <3>1, <3>2, <1>4 DEF p
  <2> HIDE DEF p, q
  <2> QED BY <1>1, <1>4, <2>1
<1>6. d = 6 => c = k
  <2> SUFFICES ASSUME d = 6 PROVE c = k
    OBVIOUS
  <2>1. p = 6 * k
    OBVIOUS
  <2> HIDE DEF p, q
  <2> QED BY <1>1, <1>4, <2>1
<1>7. c = k => d = 6
  <2> SUFFICES ASSUME c = k PROVE d = 6
    OBVIOUS
  <2>1. 6 * k < (d + 1) * k
    BY <1>3
  <2>2. 6 < d + 1
    BY <2>1, <1>3, Factors
  <2> QED BY <1>5, <2>2
<1>8. ASSUME ~hits[k], k # 1 PROVE d <= Precision(hits, k - 1)
  <2> DEFINE j == k - 1
             b == Cardinality(Found(hits, j))
  <2>1. j \in Nat /\ j # 0 /\ j < k
    BY <1>8
  <2>2. b = c
    BY <1>8, FoundGrows DEF c
  <2>3. Precision(hits, j) = (6 * c) \div j
    BY <2>2 DEF Precision, Found, Sixth
  <2> HIDE DEF j
  <2>4. PICK e \in Nat : (6 * c) \div j = e /\ e * j <= 6 * c /\ 6 * c < (e + 1) * j
    <3>1. 6 * c \in Nat
      BY <1>1
    <3> QED BY <2>1, <3>1, Quotient
  <2>5. d <= e
    <3>1. d * j < (e + 1) * j
      <4>1. d * j <= d * k
        <5>1. d = 0 \/ j * d < k * d
          BY <1>3, <2>1, Products
        <5>2. j * d = d * j /\ k * d = d * k /\ d * j \in Nat /\ d * k \in Nat
          BY <1>3, <2>1
        <5>3. d = 0 => d * j = 0 /\ d * k = 0
          BY <2>1
        <5> DEFINE u == d * j
                   v == d * k
        <5> HIDE DEF u, v
        <5>4. u \in Nat /\ v \in Nat /\ (d = 0 => u = 0 /\ v = 0) /\ (d = 0 \/ u < v)
          BY <5>1, <5>2, <5>3 DEF u, v
        <5>5. u <= v
          BY <5>4
        <5> QED BY <5>5 DEF u, v
      <4> DEFINE u == d * j
                 v == d * k
                 w == (e + 1) * j
                 x == 6 * c
      <4>2. u \in Nat /\ v \in Nat /\ w \in Nat /\ x \in Nat /\ u <= v /\ v <= x /\ x < w
        BY <1>1, <1>3, <2>1, <2>4, <4>1
      <4>3. u < w
        <5> HIDE DEF u, v, w, x
        <5> QED BY <4>2
      <4> QED BY <4>3
    <3>2. d < e + 1
      BY <1>3, <2>1, <2>4, <3>1, Factors
    <3> QED BY <3>2
  <2> QED BY <2>3, <2>4, <2>5 DEF j
<1> QED BY <1>1, <1>2, <1>3, <1>5, <1>6, <1>7, <1>8

-----------------------------------------------------------------------------
\* The best precision at or after a place.
Reached(hits, i) == Max({Precision(hits, k) : k \in i .. Len(hits)})
Right(hits) == {i \in DOMAIN hits : hits[i]}
ReachedEach(hits) == [i \in Right(hits) |-> Reached(hits, i)]

LEMMA ReachedIs ==
  ASSUME NEW hits \in Seq(BOOLEAN), NEW i \in 1 .. Len(hits)
  PROVE  /\ \E k \in i .. Len(hits) : Reached(hits, i) = Precision(hits, k)
         /\ \A k \in i .. Len(hits) : Precision(hits, k) <= Reached(hits, i)
         /\ Reached(hits, i) \in Nat /\ Reached(hits, i) <= 6
<1> DEFINE n == Len(hits)
           I == i .. n
           f == [k \in I |-> Precision(hits, k)]
           V == {Precision(hits, k) : k \in I}
<1>1. n \in Nat /\ i \in I /\ I \subseteq 1 .. n /\ \A k \in I : k \in Nat /\ k # 0
  OBVIOUS
<1>2. \A k \in I : f[k] = Precision(hits, k) /\ f[k] \in Nat /\ f[k] <= 6
  <2> HIDE DEF I
  <2> QED BY <1>1, PrecisionIs
<1>3. PICK m \in I : \A k \in I : f[k] <= f[m]
  <2> HIDE DEF f, I
  <2>1. I # {} /\ \A k \in I : f[k] \in Int
    BY <1>1, <1>2
  <2> QED BY <1>1, <2>1, HasGreatest
<1> HIDE DEF f, I
<1>4. f[m] \in V /\ \A v \in V : f[m] >= v
  BY <1>2, <1>3
<1>5. Max(V) \in V /\ \A v \in V : Max(V) >= v
  <2> HIDE DEF V
  <2> QED BY <1>4 DEF Max
<1>6. Reached(hits, i) = Max(V)
  BY DEF Reached, I
<1>7. /\ \E k \in I : Reached(hits, i) = Precision(hits, k)
      /\ \A k \in I : Precision(hits, k) <= Reached(hits, i)
  <2>1. \A k \in I : Max(V) >= Precision(hits, k) /\ Precision(hits, k) \in Nat
    BY <1>2, <1>5
  <2>2. Max(V) \in Nat
    BY <1>2, <1>5
  <2>3. \A k \in I : Precision(hits, k) <= Max(V)
    <3> HIDE DEF V
    <3> QED BY <2>1, <2>2
  <2> QED BY <1>5, <1>6, <2>3
<1> QED BY <1>2, <1>7 DEF I

\* The average precision is the sum of what the hits are worth.
LEMMA AverageIs ==
  ASSUME NEW preds, NEW truths, NEW hits \in Seq(BOOLEAN), hits = Hits(preds, truths)
  PROVE  \E g : Sums(Right(hits), ReachedEach(hits), g) /\ AveragePrecision(preds, truths) = g[Right(hits)]
<1> DEFINE D == Right(hits)
           worth(i) == Max({Precision(hits, k) : k \in i .. Len(hits)})
           f == [i \in D |-> worth(i)]
           Eq(g) == g = [T \in SUBSET D |->
                           IF T = {} THEN 0 ELSE worth(Pick(T)) + g[T \ {Pick(T)}]]
           sum == CHOOSE g : Eq(g)
<1>1. IsFiniteSet(D) /\ f \in [D -> Nat] /\ f \in [D -> Int] /\ f = ReachedEach(hits)
  <2>1. D \in SUBSET (1 .. Len(hits)) /\ Len(hits) \in Nat
    BY DEF Right
  <2>2. IsFiniteSet(1 .. Len(hits))
    BY <2>1, FS_Interval
  <2>3. IsFiniteSet(D)
    <3> HIDE DEF D
    <3> QED BY <2>1, <2>2, FS_Subset
  <2>4. f = ReachedEach(hits)
    BY DEF ReachedEach, Reached
  <2>5. \A i \in D : Reached(hits, i) \in Nat
    BY <2>1, ReachedIs
  <2>6. f \in [D -> Nat]
    <3> HIDE DEF D
    <3> QED BY <2>5 DEF Reached
  <2>7. f \in [D -> Int]
    <3> HIDE DEF D, f
    <3> QED BY <2>6
  <2> QED BY <2>3, <2>4, <2>6, <2>7
<1>2. PICK g : Picked(D, f, g)
  <2> HIDE DEF f, D
  <2> QED BY <1>1, PickedExists
<1>3. \A T \in SUBSET D : T # {} => Pick(T) \in D
  BY DEF Pick
<1>4. Eq(g)
  <2> HIDE DEF D, worth
  <2>1. g \in [SUBSET D -> Int] /\ g[{}] = 0
    BY <1>2 DEF Picked
  <2>2. \A T \in SUBSET D : T # {} => g[T] = worth(Pick(T)) + g[T \ {Pick(T)}]
    BY <1>2, <1>3 DEF Picked
  <2> QED BY <2>1, <2>2
<1>5. Eq(sum)
  <2> HIDE DEF Eq
  <2> QED BY <1>4
<1>6. sum = [T \in SUBSET D |-> IF T = {} THEN 0 ELSE f[Pick(T)] + sum[T \ {Pick(T)}]]
  <2> HIDE DEF D, worth, sum
  <2> QED BY <1>3, <1>5
<1>7. Sums(D, f, sum)
  <2> HIDE DEF D, f, sum
  <2> QED BY <1>1, <1>6, PickedByRule
<1>8. MapThenSumSet(worth, D) = sum[D]
  BY DEF MapThenSumSet, MapThenFoldSet, Pick
<1>9. AveragePrecision(preds, truths) = sum[D]
  <2> HIDE DEF sum
  <2> QED BY <1>8 DEF AveragePrecision, Right
<1> HIDE DEF sum, f
<1> QED BY <1>1, <1>7, <1>9

\* A sum of parts of at most 6 is full exactly when all of them are.
LEMMA SumsAtMost ==
  ASSUME NEW D, IsFiniteSet(D), NEW f \in [D -> Nat], \A x \in D : f[x] <= 6, NEW g, Sums(D, f, g)
  PROVE  /\ g[D] \in Nat /\ g[D] <= 6 * Cardinality(D)
         /\ g[D] = 6 * Cardinality(D) <=> \A x \in D : f[x] = 6
<1> DEFINE Full6(T) == /\ g[T] \in Nat /\ g[T] <= 6 * Cardinality(T)
                       /\ g[T] = 6 * Cardinality(T) <=> \A x \in T : f[x] = 6
           G == {T \in SUBSET D : Full6(T)}
<1>1. {} \in G
  BY FS_EmptySet DEF Sums
<1>2. ASSUME NEW T \in SUBSET D, T # {}, \A x \in T : T \ {x} \in G PROVE T \in G
  <2>1. PICK x \in T : TRUE
    BY <1>2
  <2> DEFINE U == T \ {x}
             c == Cardinality(U)
             a == g[U]
             b == f[x]
  <2>2. /\ a \in Nat /\ a <= 6 * c /\ (a = 6 * c <=> \A y \in U : f[y] = 6)
    BY <1>2, <2>1
  <2>3. g[T] = b + a
    BY <2>1 DEF Sums
  <2>4. b \in Nat /\ b <= 6
    BY <2>1
  <2>5. c \in Nat /\ Cardinality(T) = c + 1
    <3>1. IsFiniteSet(T)
      BY FS_Subset
    <3>2. IsFiniteSet(U) /\ Cardinality(U) = Cardinality(T) - 1
      BY <2>1, <3>1, FS_RemoveElement
    <3>3. Cardinality(T) \in Nat /\ Cardinality(U) \in Nat
      BY <3>1, <3>2, FS_CardinalityType
    <3> HIDE DEF U
    <3> QED BY <3>2, <3>3
  <2>6. (\A y \in T : f[y] = 6) <=> (b = 6 /\ \A y \in U : f[y] = 6)
    BY <2>1
  <2> HIDE DEF c, a, b
  <2>7. b + a \in Nat /\ b + a <= 6 * (c + 1) /\ (b + a = 6 * (c + 1) <=> (b = 6 /\ a = 6 * c))
    BY <2>2, <2>4, <2>5
  <2>8. g[T] = 6 * Cardinality(T) <=> \A y \in T : f[y] = 6
    BY <2>2, <2>3, <2>5, <2>6, <2>7
  <2>9. g[T] \in Nat /\ g[T] <= 6 * Cardinality(T)
    BY <2>3, <2>5, <2>7
  <2> QED BY <2>8, <2>9
<1>3. \A T \in SUBSET D : T \in G
  <2> HIDE DEF G
  <2> QED BY <1>1, <1>2, SubsetCounting
<1> QED BY <1>3

\* Every hit is worth a full precision exactly when the hits come first.
LEMMA FullWhenFirst ==
  ASSUME NEW hits \in Seq(BOOLEAN)
  PROVE  LET found == Cardinality(Right(hits)) IN
           (\A i \in Right(hits) : Reached(hits, i) = 6) <=> \A i \in 1 .. found : hits[i]
<1> DEFINE n == Len(hits)
           D == Right(hits)
           found == Cardinality(D)
<1>1. n \in Nat /\ DOMAIN hits = 1 .. n
  OBVIOUS
<1>2. D = Found(hits, n) /\ D \subseteq 1 .. n /\ \A i \in D : hits[i]
  BY DEF Right, Found
<1>3. IsFiniteSet(D) /\ found \in Nat /\ found <= n
  <2> HIDE DEF D
  <2> QED BY <1>1, <1>2, FoundGrows
<1>4. ASSUME \A i \in 1 .. found : hits[i], NEW i \in D PROVE Reached(hits, i) = 6
  <2>1. 1 .. found \subseteq D
    <3>1. \A k \in 1 .. found : k \in 1 .. n
      <4> HIDE DEF D
      <4> QED BY <1>1, <1>3
    <3>2. \A k \in 1 .. n : hits[k] => k \in D
      BY <1>1 DEF Right
    <3> HIDE DEF D
    <3> QED BY <1>4, <3>1, <3>2
  <2>2. 1 .. found = D
    <3>1. IsFiniteSet(1 .. found) /\ Cardinality(1 .. found) = found
      BY <1>3, FS_Interval
    <3>2. 1 .. found \in SUBSET D
      BY <2>1
    <3> DEFINE J == 1 .. found
    <3> HIDE DEF D, J
    <3>3. J \in SUBSET D /\ Cardinality(J) = Cardinality(D)
      BY <3>1, <3>2 DEF J
    <3>4. J = D
      BY <1>3, <3>3, FS_Subset
    <3> QED BY <3>4 DEF J
  <2>3. i \in 1 .. n /\ i \in Nat /\ i # 0 /\ i <= found
    <3>1. i \in 1 .. found
      BY <1>4, <2>2
    <3> HIDE DEF D
    <3> QED BY <1>1, <1>3, <3>1
  <2>4. Precision(hits, i) = 6
    <3>1. \A k \in 1 .. i : hits[k]
      BY <1>3, <1>4, <2>3
    <3> QED BY <2>3, <3>1, PrecisionIs
  <2>5. i \in i .. n
    BY <1>1, <2>3
  <2>6. Precision(hits, i) <= Reached(hits, i) /\ Reached(hits, i) \in Nat /\ Reached(hits, i) <= 6
    BY <2>3, <2>5, ReachedIs
  <2> QED BY <2>4, <2>6
<1>5. ASSUME \A i \in D : Reached(hits, i) = 6, NEW i \in 1 .. found PROVE hits[i]
  <2>1. D # {}
    <3>1. found # 0
      BY <1>3
    <3> HIDE DEF D
    <3> QED BY <3>1, FS_EmptySet DEF D
  <2>2. Max(D) \in D /\ \A j \in D : j <= Max(D)
    <3> HIDE DEF D
    <3> QED BY <1>1, <1>2, <2>1, GreatestPlace
  <2> DEFINE m == Max(D)
  <2>3. m \in D /\ m \in 1 .. n /\ \A j \in D : j <= m
    BY <1>2, <2>2
  <2> HIDE DEF m
  <2>4. PICK k \in m .. n : Reached(hits, m) = Precision(hits, k)
    BY <2>3, ReachedIs
  <2>5. Precision(hits, k) = 6 /\ k \in Nat /\ k # 0 /\ k \in 1 .. n
    BY <1>1, <1>5, <2>3, <2>4
  <2>6. \A j \in 1 .. k : hits[j]
    BY <2>5, PrecisionIs
  <2>7. D \subseteq 1 .. k
    <3> SUFFICES ASSUME NEW j \in D PROVE j \in 1 .. k
      OBVIOUS
    <3>1. j \in 1 .. n /\ j <= m /\ m <= k
      BY <1>2, <2>3, <2>4
    <3> HIDE DEF D
    <3> QED BY <1>1, <2>3, <2>5, <3>1
  <2>8. found <= k
    <3>1. IsFiniteSet(1 .. k) /\ Cardinality(1 .. k) = k
      BY <2>5, FS_Interval
    <3>2. D \in SUBSET (1 .. k)
      BY <2>7
    <3> DEFINE J == 1 .. k
    <3> HIDE DEF D, J
    <3>3. D \in SUBSET J /\ IsFiniteSet(J) /\ Cardinality(J) = k
      BY <3>1, <3>2 DEF J
    <3> QED BY <3>3, FS_Subset
  <2>9. i \in 1 .. k
    <3> HIDE DEF D
    <3>1. i \in Nat /\ 1 <= i /\ i <= found
      BY <1>3, <1>5
    <3> QED BY <1>3, <2>5, <2>8, <3>1
  <2> QED BY <2>6, <2>9
<1> HIDE DEF D
<1> QED BY <1>4, <1>5 DEF D

\* The scoring of all but the last prediction is that of all, up to there.
LEMMA FrontHits ==
  ASSUME NEW B, NEW preds \in Seq(B), NEW truths \in Seq(B), Len(preds) # 0
  PROVE  LET hits == Hits(preds, truths)
             fewer == Hits(Front(preds), truths)
         IN  /\ fewer \in Seq(BOOLEAN) /\ Len(fewer) = Len(preds) - 1
             /\ \A k \in 1 .. (Len(preds) - 1) : fewer[k] = hits[k]
<1> DEFINE n == Len(preds)
           front == Front(preds)
<1>1. /\ n \in Nat /\ n # 0 /\ n - 1 \in Nat
      /\ front \in Seq(B) /\ Len(front) = n - 1 /\ \A k \in 1 .. (n - 1) : front[k] = preds[k]
  <2>1. front = SubSeq(preds, 1, n - 1)
    BY DEF Front
  <2>2. n \in Nat /\ n # 0 /\ n - 1 \in Nat
    OBVIOUS
  <2> DEFINE m == n - 1
             sub == SubSeq(preds, 1, m)
  <2>3. sub \in Seq(B) /\ Len(sub) = m /\ \A k \in 1 .. m : sub[k] = preds[k]
    <3>1. m \in Nat /\ \A k \in 1 .. m : preds[k] \in B
      BY <2>2
    <3> HIDE DEF m
    <3> QED BY <3>1
  <2> QED BY <2>1, <2>2, <2>3
<1>2. PICK run : HitRun(preds, truths, run)
  BY HitRuns
<1>3. PICK r : HitRun(front, truths, r)
  <2> HIDE DEF front
  <2> QED BY <1>1, HitRuns
<1> HIDE DEF front
<1> DEFINE P == {i \in 0 .. (n - 1) : r[i] = run[i]}
<1>4. 0 \in P
  BY <1>1, <1>2, <1>3 DEF HitRun
<1>5. ASSUME NEW i \in 0 .. (n - 1), i < n - 1, i \in P PROVE i + 1 \in P
  <2>1. i + 1 \in 1 .. (n - 1) /\ i + 1 \in 1 .. n /\ i + 1 \in 0 .. (n - 1) /\ (i + 1) - 1 = i
    BY <1>1, <1>5
  <2>2. r[i + 1] = Scoring(truths, r[i], front[i + 1]) /\ run[i + 1] = Scoring(truths, run[i], preds[i + 1])
    BY <1>1, <1>2, <1>3, <2>1 DEF HitRun
  <2> QED BY <1>1, <1>5, <2>1, <2>2
<1>6. \A i \in 0 .. (n - 1) : i \in P
  <2> HIDE DEF P, n
  <2> QED BY <1>1, <1>4, <1>5, Counting
<1>7. Hits(front, truths) = run[n - 1].hits /\ Hits(preds, truths) = run[n].hits
  <2>1. n - 1 \in 0 .. (n - 1)
    BY <1>1
  <2>2. Hits(front, truths) = r[n - 1].hits
    BY <1>1, <1>3 DEF HitRun
  <2>3. Hits(preds, truths) = run[n].hits
    BY <1>2 DEF HitRun
  <2> QED BY <1>6, <2>1, <2>2, <2>3
<1>8. n - 1 \in 0 .. n /\ n \in 0 .. n /\ \A k \in 1 .. (n - 1) : k \in 1 .. n
  BY <1>1
<1>9. \A i \in 0 .. n : /\ run[i].hits \in Seq(BOOLEAN) /\ Len(run[i].hits) = i
                        /\ \A k \in 1 .. i : run[i].hits[k] = (TakeTruth(preds[k], run[k - 1].taken, truths) # 0)
  BY <1>2, HitsAre
<1> HIDE DEF n
<1>10. \A k \in 1 .. (n - 1) : run[n - 1].hits[k] = run[n].hits[k]
  BY <1>8, <1>9
<1>11. run[n - 1].hits \in Seq(BOOLEAN) /\ Len(run[n - 1].hits) = n - 1
  BY <1>8, <1>9
<1> QED BY <1>7, <1>10, <1>11 DEF n, front

\* A last place that is no hit changes what no hit is worth.
LEMMA WorthWithoutMiss ==
  ASSUME NEW hits \in Seq(BOOLEAN), NEW fewer \in Seq(BOOLEAN), Len(hits) # 0, Len(fewer) = Len(hits) - 1,
         \A k \in 1 .. (Len(hits) - 1) : fewer[k] = hits[k], ~hits[Len(hits)]
  PROVE  Right(fewer) = Right(hits) /\ ReachedEach(fewer) = ReachedEach(hits)
<1> DEFINE n == Len(hits)
<1>1. n \in Nat /\ n # 0 /\ DOMAIN hits = 1 .. n /\ DOMAIN fewer = 1 .. (n - 1)
      /\ (\A k \in 1 .. n : (k = n \/ k \in 1 .. (n - 1)))
      /\ \A k \in 1 .. (n - 1) : k \in 1 .. n
  OBVIOUS
<1>2. Right(fewer) = Right(hits) /\ Right(hits) \subseteq 1 .. (n - 1)
  BY <1>1 DEF Right
<1>3. ASSUME NEW k \in 1 .. (n - 1) PROVE Precision(fewer, k) = Precision(hits, k)
  <2>1. k \in Nat /\ \A i \in 1 .. k : i \in 1 .. (n - 1)
    BY <1>1, <1>3
  <2>2. {i \in 1 .. k : fewer[i]} = {i \in 1 .. k : hits[i]}
    BY <2>1
  <2> QED BY <2>2 DEF Precision
<1>4. ASSUME NEW i \in Right(hits) PROVE Reached(fewer, i) = Reached(hits, i)
  <2>1. i \in 1 .. (n - 1) /\ i \in 1 .. n /\ n - 1 \in i .. (n - 1) /\ n # 1
    BY <1>1, <1>2, <1>4
  <2>2. /\ \E k \in i .. n : Reached(hits, i) = Precision(hits, k)
        /\ \A k \in i .. n : Precision(hits, k) <= Reached(hits, i)
        /\ Reached(hits, i) \in Nat
    BY <2>1, ReachedIs
  <2>3. /\ \E k \in i .. (n - 1) : Reached(fewer, i) = Precision(fewer, k)
        /\ \A k \in i .. (n - 1) : Precision(fewer, k) <= Reached(fewer, i)
        /\ Reached(fewer, i) \in Nat
    BY <1>1, <2>1, ReachedIs
  <2>4. \A k \in i .. (n - 1) : k \in 1 .. (n - 1) /\ k \in i .. n
    BY <1>1, <2>1
  <2>5. Reached(fewer, i) <= Reached(hits, i)
    BY <1>3, <2>2, <2>3, <2>4
  <2>6. Reached(hits, i) <= Reached(fewer, i)
    <3>1. PICK k \in i .. n : Reached(hits, i) = Precision(hits, k)
      BY <2>2
    <3>2. CASE k \in i .. (n - 1)
      BY <1>3, <2>3, <2>4, <3>1, <3>2
    <3>3. CASE k = n
      <4>1. /\ Precision(hits, n) <= Precision(hits, n - 1)
            /\ Precision(hits, n) \in Nat /\ Precision(hits, n - 1) \in Nat
        <5>1. n \in Nat /\ n # 0 /\ n - 1 \in Nat /\ n - 1 # 0
          BY <1>1, <2>1
        <5> QED BY <2>1, <5>1, PrecisionIs
      <4>2. Precision(hits, n - 1) <= Reached(fewer, i)
        BY <1>3, <2>1, <2>3, <2>4
      <4> QED BY <2>3, <3>1, <3>3, <4>1, <4>2
    <3>4. k \in i .. (n - 1) \/ k = n
      BY <1>1, <2>1
    <3> QED BY <3>2, <3>3, <3>4
  <2> QED BY <2>2, <2>3, <2>5, <2>6
<1>5. ReachedEach(fewer) = ReachedEach(hits)
  BY <1>2, <1>4 DEF ReachedEach
<1> QED BY <1>2, <1>5

\* The average precision of a detector (metrics.py): it never exceeds the share
\* of the truths that is found, no more are found than there are, it is full
\* exactly when every hit comes before the first false alarm, and a false alarm
\* at the end changes nothing; for any predictions and truths.
THEOREM PrecisionsAreRanked ==
  ASSUME NEW B, NEW preds \in Seq(B), NEW truths \in Seq(B)
  PROVE  PrecisionIsRanked(preds, truths)
<1> DEFINE hits == Hits(preds, truths)
           D == Right(hits)
           found == Cardinality(D)
           n == Len(preds)
           ap == AveragePrecision(preds, truths)
<1>1. PICK run : HitRun(preds, truths, run)
  BY HitRuns
<1>2. n \in Nat /\ n \in 0 .. n
  OBVIOUS
<1>3. hits = run[n].hits
  BY <1>1 DEF HitRun
<1>4. hits \in Seq(BOOLEAN) /\ Len(hits) = n /\ Cardinality(run[n].taken) = Cardinality(Found(hits, n))
  <2>1. \A i \in 0 .. n : /\ run[i].hits \in Seq(BOOLEAN) /\ Len(run[i].hits) = i
                          /\ Cardinality(run[i].taken) = Cardinality(Found(run[i].hits, i))
    BY <1>1, HitsAre
  <2> HIDE DEF hits, n
  <2> QED BY <1>2, <1>3, <2>1
<1>5. D = Found(hits, n) /\ IsFiniteSet(D) /\ found \in Nat /\ D \subseteq 1 .. n
  <2>1. D = Found(hits, n) /\ D \subseteq 1 .. n
    BY <1>4 DEF Right, Found
  <2> HIDE DEF D
  <2> QED BY <1>2, <2>1, FoundGrows
<1>6. found <= Len(truths)
  <2>1. run[n].taken \in SUBSET (1 .. Len(truths)) /\ Len(truths) \in Nat
    BY <1>1, <1>2 DEF HitRun, Hitting
  <2>2. IsFiniteSet(1 .. Len(truths)) /\ Cardinality(1 .. Len(truths)) = Len(truths)
    <3> DEFINE m == Len(truths)
    <3>1. m \in Nat
      BY <2>1
    <3> HIDE DEF m
    <3>2. IsFiniteSet(1 .. m) /\ Cardinality(1 .. m) = m
      BY <3>1, FS_Interval
    <3> QED BY <3>2 DEF m
  <2>3. Cardinality(run[n].taken) <= Len(truths)
    <3> DEFINE J == 1 .. Len(truths)
               t == run[n].taken
    <3> HIDE DEF J, t
    <3>1. t \in SUBSET J /\ IsFiniteSet(J) /\ Cardinality(J) = Len(truths)
      BY <2>1, <2>2 DEF J, t
    <3>2. Cardinality(t) <= Len(truths)
      BY <3>1, FS_Subset
    <3> QED BY <3>2 DEF t
  <2> HIDE DEF hits, D
  <2> QED BY <1>4, <1>5, <2>3
<1> HIDE DEF hits
<1>7. PICK g : Sums(D, ReachedEach(hits), g) /\ ap = g[D]
  BY <1>4, AverageIs DEF hits
<1>8. /\ ReachedEach(hits) \in [D -> Nat] /\ \A i \in D : ReachedEach(hits)[i] <= 6
      /\ \A i \in D : ReachedEach(hits)[i] = Reached(hits, i)
  <2>1. \A i \in D : Reached(hits, i) \in Nat /\ Reached(hits, i) <= 6
    <3> HIDE DEF D
    <3> QED BY <1>4, <1>5, ReachedIs
  <2> QED BY <2>1 DEF ReachedEach
<1>9. /\ ap <= 6 * found
      /\ ap = 6 * found <=> \A i \in D : ReachedEach(hits)[i] = 6
  <2> HIDE DEF D
  <2> QED BY <1>5, <1>7, <1>8, SumsAtMost
<1>10. ap = 6 * found <=> \A i \in 1 .. found : hits[i]
  <2>1. (\A i \in D : Reached(hits, i) = 6) <=> \A i \in 1 .. found : hits[i]
    BY <1>4, FullWhenFirst
  <2> HIDE DEF D, ap
  <2> QED BY <1>8, <1>9, <2>1
<1>11. ASSUME n > 0, ~hits[n] PROVE AveragePrecision(Front(preds), truths) = ap
  <2> DEFINE fewer == Hits(Front(preds), truths)
  <2>1. /\ fewer \in Seq(BOOLEAN) /\ Len(fewer) = n - 1 /\ n # 0
        /\ \A k \in 1 .. (n - 1) : fewer[k] = hits[k]
    BY <1>11, FrontHits DEF hits
  <2>2. Right(fewer) = D /\ ReachedEach(fewer) = ReachedEach(hits)
    <3> HIDE DEF fewer
    <3> QED BY <1>4, <1>11, <2>1, WorthWithoutMiss
  <2>3. PICK k : Sums(D, ReachedEach(hits), k) /\ AveragePrecision(Front(preds), truths) = k[D]
    <3>1. \E k : Sums(Right(fewer), ReachedEach(fewer), k)
                   /\ AveragePrecision(Front(preds), truths) = k[Right(fewer)]
      BY <2>1, AverageIs
    <3> HIDE DEF fewer, D
    <3> QED BY <2>2, <3>1
  <2>4. k[D] = g[D]
    <3>1. D \in SUBSET D
      OBVIOUS
    <3> HIDE DEF D
    <3> QED BY <1>5, <1>7, <2>3, <3>1, SumsAgree
  <2> QED BY <1>7, <2>3, <2>4
<1>12. D = {i \in DOMAIN hits : hits[i]}
  BY DEF Right
<1> HIDE DEF D, ap
<1>13. /\ ap <= Sixth * found /\ found <= Len(truths)
       /\ ap = Sixth * found <=> \A i \in 1 .. found : hits[i]
       /\ n > 0 /\ ~hits[n] => AveragePrecision(Front(preds), truths) = ap
  BY <1>6, <1>9, <1>10, <1>11 DEF Sixth
<1> QED BY <1>12, <1>13 DEF PrecisionIsRanked, hits, ap

-----------------------------------------------------------------------------
\* A sum of zeros, and of one number.
LEMMA TotalOfZeros ==
  ASSUME NEW s \in Seq(Nat), \A i \in 1 .. Len(s) : s[i] = 0
  PROVE  Total(s) = 0
<1>1. PICK run \in [0 .. Len(s) -> Nat] :
           /\ run[0] = 0 /\ Total(s) = run[Len(s)]
           /\ \A i \in 1 .. Len(s) : run[i] = run[i - 1] + s[i]
  BY TotalRuns
<1> DEFINE N == Len(s)
           P == {n \in 0 .. N : run[n] = 0}
<1>2. N \in Nat
  OBVIOUS
<1>3. 0 \in P
  BY <1>1, <1>2
<1>4. ASSUME NEW n \in 0 .. N, n < N, n \in P PROVE n + 1 \in P
  <2>1. n + 1 \in 1 .. N /\ n + 1 \in 0 .. N /\ (n + 1) - 1 = n
    BY <1>2, <1>4
  <2>2. run[n + 1] = run[n] + s[n + 1] /\ s[n + 1] = 0 /\ run[n] = 0
    BY <1>1, <1>4, <2>1
  <2> QED BY <2>1, <2>2
<1>5. \A n \in 0 .. N : n \in P
  <2> HIDE DEF P, N
  <2> QED BY <1>2, <1>3, <1>4, Counting
<1> QED BY <1>1, <1>2, <1>5

\* A clean sanitizer report is earned (cuda_check.py), for any reports.
THEOREM CleanReportsAreEarned ==
  ASSUME NEW reports \in Seq([headers : Nat, summaries : Seq(Nat)])
  PROVE  CudaCleanIsEarned(reports)
<1> DEFINE R == [headers : Nat, summaries : Seq(Nat)]
           n == Len(reports)
           sum == [i \in DOMAIN reports |-> Total(reports[i].summaries) + reports[i].headers]
<1> SUFFICES ASSUME CudaClean(reports), \A r \in ToSet(reports) : Len(r.summaries) = 1
             PROVE  Total(sum) = 0
  BY DEF CudaCleanIsEarned
<1>0. reports \in Seq(R)
  OBVIOUS
<1>1. n \in Nat /\ DOMAIN reports = 1 .. n /\ \A i \in 1 .. n : reports[i] \in R /\ reports[i] \in ToSet(reports)
  <2> HIDE DEF R
  <2>1. n \in Nat /\ DOMAIN reports = 1 .. n /\ \A i \in 1 .. n : reports[i] \in R
    BY <1>0
  <2>2. \A i \in DOMAIN reports : reports[i] \in ToSet(reports)
    BY DEF ToSet
  <2> QED BY <2>1, <2>2
<1>2. ASSUME NEW i \in 1 .. n PROVE sum[i] = 0
  <2> DEFINE r == reports[i]
             c == r.summaries
  <2>1. r \in R /\ r \in ToSet(reports)
    BY <1>1
  <2> HIDE DEF r
  <2>2. c \in Seq(Nat) /\ Len(c) = 1 /\ r.headers = 0 /\ SummaryCount(r) = 0
    BY <2>1 DEF CudaClean
  <2>3. c[1] = 0
    BY <2>2 DEF SummaryCount
  <2>4. Total(c) = 0
    <3> HIDE DEF c
    <3>1. \A j \in 1 .. Len(c) : c[j] = 0
      BY <2>2, <2>3
    <3> QED BY <2>2, <3>1, TotalOfZeros
  <2>5. sum[i] = Total(c) + r.headers
    BY <1>1 DEF r
  <2> QED BY <2>2, <2>4, <2>5
<1>3. sum \in Seq(Nat) /\ Len(sum) = n
  <2>1. DOMAIN sum = 1 .. n
    BY <1>1
  <2>2. \A i \in 1 .. n : sum[i] \in Nat
    <3> HIDE DEF sum
    <3>1. \A i \in 1 .. n : sum[i] = 0
      BY <1>2
    <3> QED BY <3>1
  <2>3. sum = [i \in 1 .. n |-> sum[i]]
    BY <1>1
  <2> HIDE DEF sum
  <2> QED BY <1>1, <2>1, <2>2, <2>3
<1> HIDE DEF sum
<1> QED BY <1>2, <1>3, TotalOfZeros

-----------------------------------------------------------------------------
\* What a campaign keeps of its benches.
Benching == Rowed \cup {Lost, Unregistered}

LEMMA RowsAre ==
  ASSUME NEW benches \in Seq(Benching), NEW kind
  PROVE  LET r == Rows(kind, benches) IN
           /\ r.rows \in Seq(Rowed)
           /\ r.persisted => /\ Len(r.rows) = Len(benches)
                             /\ \A i \in 1 .. Len(benches) :
                                  r.rows[i] = IF Raised(benches[i]) THEN Failed ELSE benches[i]
           /\ ~r.persisted => r.rows = <<>>
           /\ \A i \in 1 .. Len(benches) : ~Raised(benches[i]) => benches[i] \in Rowed
<1> DEFINE n == Len(benches)
           kept == [i \in DOMAIN benches |-> IF Raised(benches[i]) THEN Failed ELSE benches[i]]
<1>1. n \in Nat /\ DOMAIN benches = 1 .. n /\ \A i \in 1 .. n : benches[i] \in Benching
  OBVIOUS
<1>2. Raised(Lost) /\ Raised(Unregistered)
  BY DEF Raised, Lost, Unregistered
<1>3. \A i \in 1 .. n : ~Raised(benches[i]) => benches[i] \in Rowed
  BY <1>1, <1>2 DEF Benching
<1>4. Failed \in Rowed
  BY DEF Failed, Bench, Rowed, NoFigure
<1>5. kept \in Seq(Rowed) /\ Len(kept) = n /\ \A i \in 1 .. n : kept[i] = IF Raised(benches[i]) THEN Failed ELSE benches[i]
  <2>1. kept = [i \in 1 .. n |-> IF Raised(benches[i]) THEN Failed ELSE benches[i]]
    BY <1>1
  <2>2. \A i \in 1 .. n : (IF Raised(benches[i]) THEN Failed ELSE benches[i]) \in Rowed
    BY <1>3, <1>4
  <2> HIDE DEF kept
  <2> QED BY <1>1, <2>1, <2>2
<1>6. CASE \E b \in ToSet(benches) : b = Unregistered \/ (b = Lost /\ kind # "fleet")
  <2>1. Rows(kind, benches) = [persisted |-> FALSE, rows |-> <<>>]
    BY <1>6 DEF Rows
  <2> QED BY <1>3, <2>1
<1>7. CASE ~\E b \in ToSet(benches) : b = Unregistered \/ (b = Lost /\ kind # "fleet")
  <2>1. Rows(kind, benches) = [persisted |-> TRUE, rows |-> kept]
    BY <1>7 DEF Rows
  <2> HIDE DEF kept
  <2> QED BY <1>3, <1>5, <2>1
<1> QED BY <1>6, <1>7

\* A campaign that leaves a result has a row for every item, and one that passed
\* is what the board gave (bench.py); for any number of boards and failures.
THEOREM CampaignsDropNothing ==
  ASSUME NEW benches \in Seq(Benching), NEW kind
  PROVE  NothingIsDropped(kind, benches)
<1> DEFINE r == Rows(kind, benches)
<1>1. /\ r.persisted => /\ Len(r.rows) = Len(benches)
                        /\ \A i \in 1 .. Len(benches) :
                             r.rows[i] = IF Raised(benches[i]) THEN Failed ELSE benches[i]
  BY RowsAre
<1>2. ~Failed.ok
  BY DEF Failed, Bench
<1>3. DOMAIN benches = 1 .. Len(benches)
  OBVIOUS
<1> HIDE DEF r
<1> QED BY <1>1, <1>2, <1>3 DEF NothingIsDropped, r

\* What a fleet run claims was measured (fleet.py, differential.py): a board
\* claimed to work ran to exit 0, the fleet is all right exactly when every
\* board works, and its winner and its fastest do; for any boards.
THEOREM FleetClaimsAreMeasured ==
  ASSUME NEW benches \in Seq(Benching), NEW stacks
  PROVE  ClaimsAreMeasured(benches, stacks)
<1> DEFINE r == Rows("fleet", benches)
           rows == r.rows
           n == Len(benches)
           claims == FleetClaims(rows, stacks)
           w == FleetWinner(rows)
           b == BestBy(rows, "latency")
<1> SUFFICES ASSUME r.persisted
             PROVE  /\ \A i \in DOMAIN claims : claims[i].works => ~Raised(benches[i]) /\ benches[i].ok
                    /\ claims # <<>> => (AllOk(rows) <=> \A i \in DOMAIN claims : claims[i].works)
                    /\ w # 0 => claims[w].works
                    /\ w # 0 => b = 0 \/ claims[b].works
  BY DEF ClaimsAreMeasured
<1>1. /\ rows \in Seq(Rowed) /\ Len(rows) = n /\ n \in Nat
      /\ \A i \in 1 .. n : rows[i] = IF Raised(benches[i]) THEN Failed ELSE benches[i]
  BY RowsAre
<1>2. DOMAIN rows = 1 .. n /\ \A i \in 1 .. n : rows[i] \in Rowed
  <2> HIDE DEF rows
  <2> QED BY <1>1
<1> HIDE DEF rows
<1>3. DOMAIN claims = 1 .. n /\ \A i \in 1 .. n : claims[i].works = rows[i].ok
  BY <1>2 DEF FleetClaims
<1>4. ~Failed.ok
  BY DEF Failed, Bench
<1>5. \A i \in DOMAIN claims : claims[i].works => ~Raised(benches[i]) /\ benches[i].ok
  <2> HIDE DEF claims, n
  <2> QED BY <1>1, <1>3, <1>4
<1>6. ASSUME claims # <<>> PROVE AllOk(rows) <=> \A i \in DOMAIN claims : claims[i].works
  <2>1. rows # <<>>
    <3>1. claims = [i \in 1 .. n |-> claims[i]]
      BY <1>2 DEF FleetClaims
    <3> HIDE DEF claims
    <3>2. n = 0 => claims = <<>>
      BY <3>1
    <3>3. n # 0
      BY <1>6, <3>2
    <3> QED BY <1>1, <3>3
  <2> HIDE DEF claims
  <2> QED BY <1>2, <1>3, <2>1 DEF AllOk
<1>7. ASSUME w # 0 PROVE w \in 1 .. n /\ rows[w].ok
  <2> DEFINE passing == {i \in DOMAIN rows : rows[i].ok /\ rows[i].fps # NoFigure}
             f == [i \in passing |-> rows[i].fps]
             best == {i \in passing : \A j \in passing : f[j] <= f[i]}
  <2>1. passing # {} /\ w = First(best)
    <3>1. w = IF passing = {} THEN 0 ELSE First({i \in passing : \A j \in passing : rows[j].fps <= rows[i].fps})
      BY DEF FleetWinner, Best
    <3>2. best = {i \in passing : \A j \in passing : rows[j].fps <= rows[i].fps}
      OBVIOUS
    <3> HIDE DEF passing, best, w
    <3> QED BY <1>7, <3>1, <3>2
  <2>2. passing \subseteq 1 .. n /\ \A i \in passing : f[i] \in Int /\ rows[i].ok
    BY <1>2 DEF Rowed
  <2> HIDE DEF passing, f, w
  <2>3. First(best) \in passing
    BY <1>1, <2>1, <2>2, FirstOfBest
  <2> QED BY <2>1, <2>2, <2>3
<1>8. ASSUME b # 0 PROVE b \in 1 .. n /\ rows[b].ok
  <2> DEFINE passing == {i \in DOMAIN rows : rows[i].ok /\ rows[i].latency # NoFigure}
             f == [i \in passing |-> 0 - rows[i].latency]
             best == {i \in passing : \A j \in passing : f[j] <= f[i]}
  <2>1. passing # {} /\ b = First(best)
    <3>1. b = IF passing = {} THEN 0
              ELSE First({i \in passing : \A j \in passing : 0 - rows[j].latency <= 0 - rows[i].latency})
      BY DEF BestBy, Best
    <3>2. best = {i \in passing : \A j \in passing : 0 - rows[j].latency <= 0 - rows[i].latency}
      OBVIOUS
    <3> HIDE DEF passing, best, b
    <3> QED BY <1>8, <3>1, <3>2
  <2>2. passing \subseteq 1 .. n /\ \A i \in passing : f[i] \in Int /\ rows[i].ok
    BY <1>2 DEF Rowed
  <2> HIDE DEF passing, f, b
  <2>3. First(best) \in passing
    BY <1>1, <2>1, <2>2, FirstOfBest
  <2> QED BY <2>1, <2>2, <2>3
<1> HIDE DEF w, b, claims
<1>9. w # 0 => claims[w].works
  BY <1>3, <1>7
<1>10. b # 0 => claims[b].works
  BY <1>3, <1>8
<1> QED BY <1>5, <1>6, <1>9, <1>10


-----------------------------------------------------------------------------
\* Of version numbers of one length, one is newer than another as in a dictionary.
LEMMA NewerIsAnOrder ==
  ASSUME NEW n \in Nat, NEW a \in [1 .. n -> Int], NEW b \in [1 .. n -> Int], NEW c \in [1 .. n -> Int]
  PROVE  /\ ~NewerThan(a, a)
         /\ NewerThan(a, b) /\ NewerThan(b, c) => NewerThan(a, c)
<1>1. ~NewerThan(a, a)
  BY DEF NewerThan
<1>2. ASSUME NewerThan(a, b), NewerThan(b, c) PROVE NewerThan(a, c)
  <2>1. PICK i \in 1 .. n : a[i] > b[i] /\ \A k \in 1 .. (i - 1) : a[k] = b[k]
    BY <1>2 DEF NewerThan
  <2>2. PICK j \in 1 .. n : b[j] > c[j] /\ \A k \in 1 .. (j - 1) : b[k] = c[k]
    BY <1>2 DEF NewerThan
  <2>3. CASE i < j
    <3>1. i \in 1 .. (j - 1) /\ \A k \in 1 .. (i - 1) : k \in 1 .. (j - 1)
      BY <2>3
    <3>2. a[i] > c[i] /\ \A k \in 1 .. (i - 1) : a[k] = c[k]
      BY <2>1, <2>2, <3>1
    <3> QED BY <3>2 DEF NewerThan
  <2>4. CASE i = j
    <3>1. a[i] > c[i]
      <4>1. a[i] \in Int /\ b[i] \in Int /\ c[i] \in Int
        OBVIOUS
      <4> QED BY <2>1, <2>2, <2>4, <4>1
    <3>2. \A k \in 1 .. (i - 1) : a[k] = c[k]
      BY <2>1, <2>2, <2>4
    <3> QED BY <3>1, <3>2 DEF NewerThan
  <2>5. CASE j < i
    <3>1. j \in 1 .. (i - 1) /\ \A k \in 1 .. (j - 1) : k \in 1 .. (i - 1)
      BY <2>5
    <3>2. a[j] > c[j] /\ \A k \in 1 .. (j - 1) : a[k] = c[k]
      BY <2>1, <2>2, <3>1
    <3> QED BY <3>2 DEF NewerThan
  <2> QED BY <2>3, <2>4, <2>5
<1> QED BY <1>1, <1>2

\* A finite set of them, as soon as it has one, has one none of it is newer than.
LEMMA SomeAreNewest ==
  ASSUME NEW n \in Nat, NEW D, IsFiniteSet(D), D \subseteq [1 .. n -> Int], D # {}
  PROVE  \E t \in D : \A u \in D : ~NewerThan(u, t)
<1> DEFINE S == [1 .. n -> Int]
           Topped(T) == T = {} \/ \E t \in T : \A u \in T : ~NewerThan(u, t)
           G == {T \in SUBSET D : Topped(T)}
<1>1. {} \in G
  OBVIOUS
<1>2. ASSUME NEW T \in SUBSET D, T # {}, \A x \in T : T \ {x} \in G PROVE T \in G
  <2>1. PICK x \in T : TRUE
    BY <1>2
  <2>2. T \ {x} = {} \/ \E t \in T \ {x} : \A u \in T \ {x} : ~NewerThan(u, t)
    BY <1>2, <2>1
  <2>3. CASE T \ {x} = {}
    <3>1. x \in S /\ \A u \in T : u = x
      BY <2>3
    <3>2. ~NewerThan(x, x)
      BY <3>1, NewerIsAnOrder
    <3> QED BY <2>1, <3>1, <3>2
  <2>4. ASSUME NEW t \in T \ {x}, \A u \in T \ {x} : ~NewerThan(u, t) PROVE T \in G
    <3>1. t \in S /\ x \in S /\ ~NewerThan(x, x)
      <4>1. t \in S /\ x \in S
        BY <2>4
      <4> QED BY <4>1, NewerIsAnOrder
    <3>2. CASE ~NewerThan(x, t)
      <4>1. \A u \in T : ~NewerThan(u, t)
        BY <2>4, <3>2
      <4> QED BY <2>4, <4>1
    <3>3. CASE NewerThan(x, t)
      <4>1. ASSUME NEW u \in T PROVE ~NewerThan(u, x)
        <5>1. CASE u = x
          BY <3>1, <5>1
        <5>2. CASE u # x
          <6>1. u \in S /\ ~NewerThan(u, t)
            BY <2>4, <4>1, <5>2
          <6> QED BY <3>1, <3>3, <6>1, NewerIsAnOrder
        <5> QED BY <5>1, <5>2
      <4> QED BY <2>1, <4>1
    <3> QED BY <3>2, <3>3
  <2> QED BY <2>2, <2>3, <2>4
<1> HIDE DEF G
<1>3. D \in G
  BY <1>1, <1>2, SubsetCounting
<1> QED BY <1>3 DEF G

\* The release watch names a tag exactly when one is newer than the pinned one
\* (release_watch.py); for any finite set of tags of one length.
THEOREM NewestIsFound ==
  ASSUME NEW n \in Nat, NEW pinned \in [1 .. n -> Int],
         NEW tags, IsFiniteSet(tags), tags \subseteq [1 .. n -> Int] \cup {NotATag}
  PROVE  NewestAbove(pinned, tags) = {} <=> \A t \in tags : t = NotATag \/ ~NewerThan(t, pinned)
<1> DEFINE newer == {t \in tags : t # NotATag /\ NewerThan(t, pinned)}
<1>1. IsFiniteSet(newer) /\ newer \subseteq [1 .. n -> Int]
  BY FS_Subset
<1>2. newer # {} => \E t \in newer : \A u \in newer : ~NewerThan(u, t)
  <2> HIDE DEF newer
  <2> QED BY <1>1, SomeAreNewest
<1>3. NewestAbove(pinned, tags) = {t \in newer : \A u \in newer : ~NewerThan(u, t)}
  BY DEF NewestAbove
<1>4. NewestAbove(pinned, tags) = {} <=> newer = {}
  <2> HIDE DEF newer
  <2> QED BY <1>2, <1>3
<1> QED BY <1>4

-----------------------------------------------------------------------------
\* What a request holds when its files, boards and records can be read: any
\* numbers of them, and any figures.
Read(q) ==
  /\ "way" \in DOMAIN q
  /\ q.cmd = "golden" =>
       /\ \A k \in DOMAIN q.criteria : q.criteria[k] \in Int
       /\ \A k \in DOMAIN q.metrics : q.metrics[k] \in Int
       /\ q.baseline # NoBaseline =>
            \A k \in DOMAIN q.baseline.metrics : q.baseline.metrics[k] \in Int
  /\ q.cmd = "soak" => q.survived \in BOOLEAN
  /\ q.cmd = "latency" => q.budget \in Int /\ \E Stages : q.lines \in Seq(Traced(Stages))
  /\ q.cmd = "accuracy" => q.measured \in Int /\ q.baseline \in Int /\ q.tolerance \in Int
  /\ q.cmd = "cuda" => q.reports \in Seq([headers : Nat, summaries : Seq(Nat)])
  /\ q.cmd = "fleet" => q.benches \in Seq(Benching)
  /\ q.cmd = "select" => q.benches \in Seq(Benching) /\ q.limit \in Limited
  /\ q.cmd = "facts" => /\ q.facts \in Seq(Asserting)
                        /\ \A x \in DOMAIN q.learned : q.learned[x] \in Nat
  /\ q.cmd = "hw" =>
       \E Pin, Text, Rails :
         q.config \in [parts : Seq([pins : Seq(Pin), addr : Text, rail : Text, ma : Nat]),
                       budgets : [Rails -> Int]]
  /\ q.cmd = "versions" =>
       \E n \in Nat : /\ q.pinned \in [1 .. n -> Int] /\ IsFiniteSet(q.tags)
                      /\ q.tags \subseteq [1 .. n -> Int] \cup {NotATag}
  /\ q.cmd = "upgrade" =>
       \E K, V : \E keys \in SUBSET K, moves \in SUBSET K :
         IsFiniteSet(moves) /\ q.current \in [keys -> V] /\ q.proposed \in [moves -> V]

\* What the two surfaces tell of a request.
Tells(q, c, m) ==
  /\ c.exit = 0 => c.shows = "report" /\ (Vouched(q) \/ Unjudged(q))
  /\ c.exit = 2 => q.cmd = "triage" /\ q.tuples = <<>>
  /\ c.exit = 3 => q.cmd = "versions" /\ ~Vouched(q)
  /\ m.good /\ c.shows = "report" => c.exit = 0 \/ ZeroLimits(q)

LEMMA EndedTells ==
  ASSUME NEW q, NEW caught, NEW good \in BOOLEAN, NEW m,
         q.way = "ok" /\ good => Vouched(q) \/ Unjudged(q),
         q.way = "ok" /\ m.good => good \/ ZeroLimits(q)
  PROVE  Tells(q, Ended(q, caught, Passing(good)), m)
<1> DEFINE c == Ended(q, caught, Passing(good))
<1> SUFFICES Tells(q, c, m)
  OBVIOUS
<1>1. CASE q.way = "ok"
  <2>1. c.shows = "report" /\ c.exit = Passing(good)
    BY <1>1 DEF Ended
  <2>2. Passing(good) = IF good THEN 0 ELSE 1
    BY DEF Passing
  <2> HIDE DEF c
  <2>3. CASE good
    BY <1>1, <2>1, <2>2, <2>3 DEF Tells
  <2>4. CASE ~good
    BY <1>1, <2>1, <2>2, <2>4 DEF Tells
  <2> QED BY <2>3, <2>4 DEF c
<1>2. CASE q.way # "ok"
  <2>1. c.exit = 1 /\ c.shows # "report"
    BY <1>2 DEF Ended
  <2> HIDE DEF c
  <2> QED BY <2>1 DEF Tells, c
<1> QED BY <1>1, <1>2

LEMMA GoodAnswers ==
  ASSUME NEW q, NEW good \in BOOLEAN
  PROVE  /\ Deterministic(q, good).good => good
         /\ OnTarget(q, good).good => good
         /\ Knowing(q, good).good => good
         /\ ~NoTool.good
BY DEF Deterministic, OnTarget, Knowing, NoTool, Answer

\* A command whose tool judges as it does.
LEMMA AsJudged ==
  ASSUME NEW q, NEW caught, NEW good \in BOOLEAN, NEW m,
         m \in {Deterministic(q, good), OnTarget(q, good), Knowing(q, good), NoTool},
         q.way = "ok" /\ good => Vouched(q) \/ Unjudged(q)
  PROVE  Tells(q, Ended(q, caught, Passing(good)), m)
<1>1. m.good => good
  <2>1. CASE m = Deterministic(q, good) BY <2>1, GoodAnswers
  <2>2. CASE m = OnTarget(q, good) BY <2>2, GoodAnswers
  <2>3. CASE m = Knowing(q, good) BY <2>3, GoodAnswers
  <2>4. CASE m = NoTool BY <2>4, GoodAnswers
  <2> QED BY <2>1, <2>2, <2>3, <2>4
<1> QED BY <1>1, EndedTells

\* A command that only reports passes whenever it ends.
LEMMA OnlyReports ==
  ASSUME NEW q, NEW caught, NEW m, Vouched(q)
  PROVE  Tells(q, Ended(q, caught, 0), m)
<1>1. Passing(TRUE) = 0
  BY DEF Passing
<1>2. Tells(q, Ended(q, caught, Passing(TRUE)), m)
  BY EndedTells
<1> QED BY <1>1, <1>2

\* One that was changed because it could not be answered fails.
LEMMA FailureTells ==
  ASSUME NEW q, NEW caught, NEW exit, NEW m, q.way # "ok"
  PROVE  Tells(q, Ended(q, caught, exit), m)
<1> DEFINE c == Ended(q, caught, exit)
<1>1. c.exit = 1 /\ c.shows # "report"
  BY DEF Ended
<1> HIDE DEF c
<1> QED BY <1>1 DEF Tells, c

LEMMA ChangedFails == ASSUME NEW q, "way" \in DOMAIN q PROVE [q EXCEPT !.way = "deepgent"].way # "ok"
OBVIOUS

-----------------------------------------------------------------------------
\* What is vouched for, command by command.
Vouching(q) ==
  /\ q.cmd \in {"task", "ci"} => ~q.is_error
  /\ q.cmd = "golden" =>
         /\ \A k \in DOMAIN q.criteria : k \in DOMAIN q.metrics /\ ~(q.metrics[k] > q.criteria[k])
         /\ q.diff => /\ q.baseline # NoBaseline
                      /\ \A k \in Costs \cap DOMAIN q.metrics \cap DOMAIN q.baseline.metrics :
                           q.baseline.metrics[k] > 0 =>
                             100 * q.metrics[k] <= 115 * q.baseline.metrics[k]
  /\ q.cmd = "replay" => q.status = 0
  /\ q.cmd = "soak" => q.survived
  /\ q.cmd = "latency" => (q.budget # None =>
         q.lines # <<>> /\ FewOver(FrameTotals(q.lines), q.budget))
  /\ q.cmd = "accuracy" => (q.baseline # None => q.measured + q.tolerance >= q.baseline)
  /\ q.cmd = "cuda" => \A r \in ToSet(q.reports) :
         r.headers = 0 /\ r.summaries # <<>> /\ \A k \in DOMAIN r.summaries : r.summaries[k] = 0
  /\ q.cmd = "fleet" => q.benches # <<>> /\ \A b \in ToSet(q.benches) : ~Raised(b) /\ b.ok
  /\ q.cmd = "select" => \E b \in ToSet(q.benches) : Meets(b, q.limit)
  /\ q.cmd = "analyze" => \A c, d \in ToSet(q.claims) :
         c.stack = d.stack /\ c.conf = Full /\ d.conf = Full => c.works = d.works
  /\ q.cmd = "facts" => \A f, g \in ToSet(q.facts) : f.value # g.value =>
         \E h \in {f, g} : h.source = "model_memory" \/ Confidence(h.source, q.learned) < 6
  /\ q.cmd = "hw" => CleanIsClean(q.config) /\ Clean(q.config)
  /\ q.cmd = "errata" => \A e \in q.errata, f \in q.root :
         e.chip \in q.chips /\ e.pattern \in f.shows => f.ignored
  /\ q.cmd = "validate" => \A p \in q.packs : p.status \in Done => p.golden \in q.goldens
  /\ q.cmd = "doctor" => /\ Preflight(q.host)
                         /\ {"python", "uv", "settings", "sdk", "api_key"} \subseteq q.host
  /\ q.cmd = "containers" => (q.smoke => q.binary = "aarch64" /\ "docker" \in q.host)
  /\ q.cmd = "versions" => \A t \in q.tags : t = NotATag \/ ~NewerThan(t, q.pinned)
  /\ q.cmd = "triage" => q.tuples # <<>>
  /\ q.cmd = "upgrade" => (Cardinality(Moved(q.current, q.proposed)) <= 1 =>
         LET target == Overlaid(q.current, q.proposed)
         IN  target = q.current \/ Status(q.matrix, target) = "verified_pass")

LEMMA VouchingIsEnough == ASSUME NEW q, Vouching(q) PROVE Vouched(q)
BY DEF Vouching, Vouched

Plain == {"thermal", "nsight", "shadow", "differential", "quant", "score", "query", "skills-eval",
          "ros2-node", "systemd", "bom", "premortem", "reflect", "search", "driver"}

LEMMA PlainIsVouched == ASSUME NEW q, q.cmd \in Plain PROVE Vouched(q)
<1>1. Vouching(q)
  BY DEF Plain, Vouching
<1> QED BY <1>1, VouchingIsEnough

LEMMA UpdatesAreNotVouched ==
  ASSUME NEW q, q.cmd = "versions", ~\A t \in q.tags : t = NotATag \/ ~NewerThan(t, q.pinned)
  PROVE  ~Vouched(q)
<1>1. /\ q.cmd \notin {"task", "ci"} /\ q.cmd # "golden" /\ q.cmd # "replay" /\ q.cmd # "soak"
      /\ q.cmd # "latency" /\ q.cmd # "accuracy" /\ q.cmd # "cuda" /\ q.cmd # "fleet"
      /\ q.cmd # "select" /\ q.cmd # "analyze" /\ q.cmd # "facts" /\ q.cmd # "hw" /\ q.cmd # "errata"
      /\ q.cmd # "validate" /\ q.cmd # "doctor" /\ q.cmd # "containers" /\ q.cmd # "triage"
      /\ q.cmd # "upgrade"
  OBVIOUS
<1>2. ASSUME Vouched(q) PROVE \A t \in q.tags : t = NotATag \/ ~NewerThan(t, q.pinned)
  BY <1>1, <1>2 DEF Vouched
<1> QED BY <1>2

-----------------------------------------------------------------------------
\* What the surfaces tell once a handler has replied.
Told == Tells(asked', cli', mcp')

LEMMA Replied == ASSUME NEW q, NEW c, NEW m, Reply(q, c, m), Tells(q, c, m) PROVE Told
BY DEF Reply, Told

\* A reply that judges: with the verdict of the command, and a tool that judges alike.
LEMMA JudgedReply ==
  ASSUME NEW q, NEW caught, NEW good \in BOOLEAN, NEW m,
         Reply(q, Ended(q, caught, Passing(good)), m),
         m \in {Deterministic(q, good), OnTarget(q, good), Knowing(q, good), NoTool},
         q.way = "ok" /\ good => Vouched(q) \/ Unjudged(q)
  PROVE  Told
BY AsJudged, Replied

LEMMA PlainReply ==
  ASSUME NEW q, NEW caught, NEW m, q.cmd \in Plain, Reply(q, Ended(q, caught, 0), m)
  PROVE  Told
BY PlainIsVouched, OnlyReports, Replied

LEMMA TasksTell == ASSUME NEW q, RunTask(q) \/ CiRun(q) PROVE Told
<1> DEFINE good == ~q.is_error
<1>1. /\ good \in BOOLEAN /\ q.cmd \in {"task", "ci"}
      /\ \/ Reply(q, Ended(q, Own, Passing(good)), Deterministic(q, good))
         \/ Reply(q, Ended(q, Own, Passing(good)), NoTool)
  BY DEF RunTask, CiRun
<1>2. ASSUME good PROVE Vouched(q)
  <2>1. Vouching(q)
    BY <1>1, <1>2 DEF Vouching
  <2> QED BY <2>1, VouchingIsEnough
<1> HIDE DEF good
<1> QED BY <1>1, <1>2, JudgedReply

LEMMA BoardsTell == ASSUME NEW q, Read(q), ReplayFixture(q) \/ Soak(q) PROVE Told
<1>1. ASSUME ReplayFixture(q) PROVE Told
  <2> DEFINE good == q.status = 0
  <2>1. /\ good \in BOOLEAN /\ q.cmd = "replay"
        /\ Reply(q, Ended(q, Own, Passing(good)), OnTarget(q, good))
    BY <1>1 DEF ReplayFixture
  <2>2. ASSUME good PROVE Vouched(q)
    <3>1. Vouching(q)
      BY <2>1, <2>2 DEF Vouching
    <3> QED BY <3>1, VouchingIsEnough
  <2> HIDE DEF good
  <2> QED BY <2>1, <2>2, JudgedReply
<1>2. ASSUME Soak(q) PROVE Told
  <2>1. q.cmd = "soak" /\ Reply(q, Ended(q, Own, Passing(q.survived)), OnTarget(q, q.survived))
    BY <1>2 DEF Soak
  <2>2. ASSUME q.survived PROVE Vouched(q)
    <3>1. Vouching(q)
      BY <2>1, <2>2 DEF Vouching
    <3> QED BY <3>1, VouchingIsEnough
  <2>3. q.survived \in BOOLEAN
    BY <2>1 DEF Read
  <2> QED BY <2>1, <2>2, <2>3, JudgedReply
<1> QED BY <1>1, <1>2

LEMMA GoldenTells == ASSUME NEW q, Read(q), EvalsRun(q) PROVE Told
<1> DEFINE passed == Scored(q.metrics, q.criteria)
           found == IF q.diff THEN DiffAgainst(q.baseline, passed, q.metrics) ELSE {}
           good == passed /\ found = {}
<1>1. good \in BOOLEAN /\ q.cmd = "golden" /\ Reply(q, Ended(q, Own, Passing(good)), NoTool)
  BY DEF EvalsRun
<1>2. /\ \A k \in DOMAIN q.criteria : q.criteria[k] \in Int
      /\ \A k \in DOMAIN q.metrics : q.metrics[k] \in Int
      /\ q.baseline # NoBaseline => \A k \in DOMAIN q.baseline.metrics : q.baseline.metrics[k] \in Int
  BY <1>1 DEF Read
<1>3. ASSUME good PROVE Vouched(q)
  <2>1. \A k \in DOMAIN q.criteria : k \in DOMAIN q.metrics /\ ~(q.metrics[k] > q.criteria[k])
    <3>1. ASSUME NEW k \in DOMAIN q.criteria PROVE k \in DOMAIN q.metrics /\ ~(q.metrics[k] > q.criteria[k])
      <4> DEFINE m == q.metrics[k]
                 c == q.criteria[k]
      <4>1. k \in DOMAIN q.metrics /\ m <= c
        BY <1>3, <3>1 DEF Scored
      <4>2. m \in Int /\ c \in Int
        BY <1>2, <4>1
      <4>3. ~(m > c)
        <5> HIDE DEF m, c
        <5> QED BY <4>1, <4>2
      <4> QED BY <4>1, <4>3
    <3> QED BY <3>1
  <2>2. ASSUME q.diff
        PROVE  /\ q.baseline # NoBaseline
               /\ \A k \in Costs \cap DOMAIN q.metrics \cap DOMAIN q.baseline.metrics :
                    q.baseline.metrics[k] > 0 => 100 * q.metrics[k] <= 115 * q.baseline.metrics[k]
    <3>1. DiffAgainst(q.baseline, passed, q.metrics) = {}
      BY <1>3, <2>2
    <3>2. q.baseline # NoBaseline
      BY <3>1 DEF DiffAgainst
    <3>3. ASSUME NEW k \in Costs \cap DOMAIN q.metrics \cap DOMAIN q.baseline.metrics,
                 q.baseline.metrics[k] > 0
          PROVE  100 * q.metrics[k] <= 115 * q.baseline.metrics[k]
      <4> DEFINE m == q.metrics[k]
                 b == q.baseline.metrics[k]
      <4>1. m \in Int /\ b \in Int /\ b > 0
        BY <1>2, <3>2, <3>3
      <4>2. ~(b > 0 /\ 100 * (m - b) > 15 * b)
        BY <3>1, <3>2, <3>3 DEF DiffAgainst
      <4> HIDE DEF m, b
      <4>3. 100 * m <= 115 * b
        BY <4>1, <4>2
      <4> QED BY <4>3 DEF m, b
    <3> QED BY <3>2, <3>3
  <2>3. Vouching(q)
    BY <1>1, <2>1, <2>2 DEF Vouching
  <2> QED BY <2>3, VouchingIsEnough
<1> HIDE DEF good
<1> QED BY <1>1, <1>3, JudgedReply

\* To the tool a budget of 0 is none.
LEMMA LatencyTells == ASSUME NEW q, Read(q), Latency(q) PROVE Told
<1> DEFINE good == LatencyPassed(q.lines, q.budget) # "fail"
           alike == LatencyPassed(q.lines, OrNone(q.budget)) # "fail"
           m == OnTarget(q, alike)
<1>1. good \in BOOLEAN /\ alike \in BOOLEAN /\ q.cmd = "latency" /\ Reply(q, Ended(q, Own, Passing(good)), m)
  BY DEF Latency
<1>2. ASSUME good PROVE Vouched(q) \/ Unjudged(q)
  <2>1. q.budget \in Int /\ \E Stages : q.lines \in Seq(Traced(Stages))
    BY <1>1 DEF Read
  <2>2. PICK Stages : q.lines \in Seq(Traced(Stages))
    BY <2>1
  <2>3. q.budget # None => FewOver(FrameTotals(q.lines), q.budget)
    BY <1>2, <2>1, <2>2, BudgetIsKept
  <2>4. CASE q.budget # None /\ q.lines = <<>>
    BY <1>1, <2>4 DEF Unjudged
  <2>5. CASE ~(q.budget # None /\ q.lines = <<>>)
    <3>1. Vouching(q)
      BY <1>1, <2>3, <2>5 DEF Vouching
    <3> QED BY <3>1, VouchingIsEnough
  <2> QED BY <2>4, <2>5
<1>3. alike => good \/ ZeroLimits(q)
  <2>1. CASE q.budget = 0
    BY <1>1, <2>1 DEF ZeroLimits
  <2>2. CASE q.budget # 0
    BY <2>2 DEF OrNone
  <2> QED BY <2>1, <2>2
<1>4. m.good => alike
  <2> HIDE DEF alike
  <2> QED BY <1>1, GoodAnswers
<1> HIDE DEF good, alike, m
<1> QED BY <1>1, <1>2, <1>3, <1>4, EndedTells, Replied

LEMMA GatesTell == ASSUME NEW q, Read(q), AccuracyGate(q) \/ CudaCheck(q) PROVE Told
<1>1. ASSUME AccuracyGate(q) PROVE Told
  <2> DEFINE good == AccuracyPassed(q.measured, q.baseline, q.tolerance)
  <2>1. good \in BOOLEAN /\ q.cmd = "accuracy" /\ Reply(q, Ended(q, Own, Passing(good)), OnTarget(q, good))
    BY <1>1 DEF AccuracyGate, AccuracyPassed
  <2>2. ASSUME good PROVE Vouched(q)
    <3> DEFINE x == q.measured
               b == q.baseline
               t == q.tolerance
    <3>1. x \in Int /\ b \in Int /\ t \in Int
      BY <2>1 DEF Read
    <3>2. b = None \/ x - b >= 0 - t
      BY <2>2 DEF AccuracyPassed
    <3>3. b # None => x + t >= b
      <4> HIDE DEF x, b, t
      <4> QED BY <3>1, <3>2
    <3>4. Vouching(q)
      BY <2>1, <3>3 DEF Vouching
    <3> QED BY <3>4, VouchingIsEnough
  <2> HIDE DEF good
  <2> QED BY <2>1, <2>2, JudgedReply
<1>2. ASSUME CudaCheck(q) PROVE Told
  <2> DEFINE good == CudaClean(q.reports)
  <2>1. good \in BOOLEAN /\ q.cmd = "cuda" /\ Reply(q, Ended(q, Own, Passing(good)), OnTarget(q, good))
    BY <1>2 DEF CudaCheck, CudaClean
  <2>2. ASSUME good PROVE Vouched(q) \/ Unjudged(q)
    <3> SUFFICES ASSUME ~Unjudged(q) PROVE Vouched(q)
      OBVIOUS
    <3> DEFINE R == [headers : Nat, summaries : Seq(Nat)]
    <3>1. q.reports \in Seq(R)
      BY <2>1 DEF Read
    <3>2. \A r \in ToSet(q.reports) : r.headers = 0 /\ SummaryCount(r) = 0 /\ Len(r.summaries) = 1
      BY <2>1, <2>2 DEF CudaClean, Unjudged
    <3>3. ASSUME NEW r \in ToSet(q.reports)
          PROVE  r.headers = 0 /\ r.summaries # <<>> /\ \A k \in DOMAIN r.summaries : r.summaries[k] = 0
      <4>1. r \in R
        <5> HIDE DEF R
        <5> QED BY <3>1, <3>3 DEF ToSet
      <4>2. r.summaries \in Seq(Nat) /\ Len(r.summaries) = 1
        BY <3>2, <3>3, <4>1
      <4>3. r.summaries # <<>> /\ DOMAIN r.summaries = {1}
        <5>1. ASSUME NEW t \in Seq(Nat), Len(t) = 1 PROVE t # <<>> /\ DOMAIN t = {1}
          <6>1. DOMAIN t = 1..1
            BY <5>1
          <6>2. QED
            BY <5>1, <6>1
        <5>2. QED
          BY <4>2, <5>1
      <4>4. r.summaries[1] = 0
        BY <3>2, <3>3, <4>3 DEF SummaryCount
      <4> QED BY <3>2, <3>3, <4>3, <4>4
    <3>4. Vouching(q)
      BY <2>1, <3>3 DEF Vouching
    <3> QED BY <3>4, VouchingIsEnough
  <2> HIDE DEF good
  <2> QED BY <2>1, <2>2, JudgedReply
<1> QED BY <1>1, <1>2

-----------------------------------------------------------------------------
\* A campaign that lost a run it cannot do without was asked the same, and fails.
LEMMA CampaignKept ==
  ASSUME NEW q, "way" \in DOMAIN q, NEW kind
  PROVE  \/ Rows(kind, q.benches).persisted /\ Campaign(q, kind) = q
         \/ Campaign(q, kind).way # "ok"
BY DEF Campaign

LEMMA SweepsTell == ASSUME NEW q, Read(q), Differential(q) \/ QuantSweep(q) PROVE Told
<1> DEFINE c == Campaign(q, q.cmd)
<1>1. q.cmd \in Plain /\ \E caught, m : Reply(c, Ended(c, caught, 0), m)
  <2>1. q.cmd \in Plain
    BY DEF Differential, QuantSweep, Plain
  <2>2. ASSUME Differential(q) PROVE Reply(c, Ended(c, Own, 0), OnTarget(c, TRUE))
    BY <2>2 DEF Differential
  <2>3. ASSUME QuantSweep(q) PROVE Reply(c, Ended(c, Own \cup {"value"}, 0), OnTarget(c, TRUE))
    BY <2>3 DEF QuantSweep
  <2> HIDE DEF c
  <2> QED BY <2>1, <2>2, <2>3
<1>2. c = q \/ c.way # "ok"
  BY CampaignKept DEF Read
<1> HIDE DEF c
<1>3. CASE c = q
  BY <1>1, <1>3, PlainReply
<1>4. CASE c.way # "ok"
  BY <1>1, <1>4, FailureTells, Replied
<1> QED BY <1>2, <1>3, <1>4

\* A fleet is all right when no board was lost and every one exited with 0.
LEMMA FleetTells == ASSUME NEW q, Read(q), Fleet(q) PROVE Told
<1> DEFINE c == Campaign(q, q.cmd)
           r == Rows(q.cmd, q.benches)
           good == AllOk(r.rows)
<1>1. q.cmd = "fleet" /\ Reply(c, Ended(c, Own, Passing(good)), OnTarget(c, good))
  BY DEF Fleet
<1>2. c.way # "ok" \/ (r.persisted /\ c = q)
  BY CampaignKept DEF Read
<1>3. q.benches \in Seq(Benching)
  BY <1>1 DEF Read
<1>4. good \in BOOLEAN
  BY DEF AllOk
<1>5. ASSUME r.persisted, good PROVE Vouched(q)
  <2>1. /\ r.rows \in Seq(Rowed) /\ Len(r.rows) = Len(q.benches)
        /\ \A i \in 1 .. Len(q.benches) :
             r.rows[i] = IF Raised(q.benches[i]) THEN Failed ELSE q.benches[i]
    BY <1>3, <1>5, RowsAre
  <2>2. r.rows # <<>> /\ \A i \in DOMAIN r.rows : r.rows[i].ok
    BY <1>5 DEF AllOk
  <2> HIDE DEF r
  <2>3. ~Failed.ok
    BY DEF Failed, Bench
  <2>4. \A i \in 1 .. Len(q.benches) : r.rows[i].ok
    BY <2>1, <2>2
  <2>5. ASSUME NEW b \in ToSet(q.benches) PROVE ~Raised(b) /\ b.ok
    <3>1. PICK i \in 1 .. Len(q.benches) : b = q.benches[i]
      BY <1>3, <2>5 DEF ToSet
    <3>2. CASE Raised(b)
      BY <2>1, <2>3, <2>4, <3>1, <3>2
    <3>3. CASE ~Raised(b)
      BY <2>1, <2>4, <3>1, <3>3
    <3> QED BY <3>2, <3>3
  <2>6. q.benches # <<>>
    BY <1>3, <2>1, <2>2
  <2>7. Vouching(q)
    BY <1>1, <2>5, <2>6 DEF Vouching
  <2> QED BY <2>7, VouchingIsEnough
<1> HIDE DEF c, r, good
<1>6. CASE c.way # "ok"
  BY <1>1, <1>6, FailureTells, Replied
<1>7. CASE r.persisted /\ c = q
  BY <1>1, <1>4, <1>5, <1>7, JudgedReply
<1> QED BY <1>2, <1>6, <1>7

\* A selection exits with 0 over a candidate that meets the limits; the tool takes
\* limits of 0 for none.
LEMMA SelectionTells == ASSUME NEW q, Read(q), SelectModel(q) PROVE Told
<1> DEFINE c == Campaign(q, q.cmd)
           r == Rows(q.cmd, q.benches)
           good == SelectWinner(r.rows, q.limit) # 0
           m == SelectTool(q, c, r.rows)
<1>1. q.cmd = "select" /\ good \in BOOLEAN /\ Reply(c, Ended(c, Own, Passing(good)), m)
  BY DEF SelectModel
<1>2. c.way # "ok" \/ (r.persisted /\ c = q)
  BY CampaignKept DEF Read
<1>3. q.benches \in Seq(Benching) /\ q.limit \in Limited
  BY <1>1 DEF Read
<1>4. ASSUME r.persisted, good PROVE Vouched(q)
  <2>1. /\ r.rows \in Seq(Rowed) /\ Len(r.rows) = Len(q.benches)
        /\ \A i \in 1 .. Len(q.benches) :
             r.rows[i] = IF Raised(q.benches[i]) THEN Failed ELSE q.benches[i]
    BY <1>3, <1>4, RowsAre
  <2>2. \E i \in DOMAIN r.rows : Meets(r.rows[i], q.limit)
    BY <1>4 DEF SelectWinner
  <2> HIDE DEF r
  <2>3. PICK i \in 1 .. Len(q.benches) : Meets(r.rows[i], q.limit)
    BY <2>1, <2>2
  <2>4. ~Raised(q.benches[i])
    <3>1. r.rows[i].ok
      BY <2>3 DEF Meets
    <3>2. ~Failed.ok
      BY DEF Failed, Bench
    <3> QED BY <2>1, <3>1, <3>2
  <2>5. Meets(q.benches[i], q.limit) /\ q.benches[i] \in ToSet(q.benches)
    <3>1. r.rows[i] = q.benches[i]
      BY <2>1, <2>4
    <3>2. i \in DOMAIN q.benches
      BY <1>3
    <3> QED BY <2>3, <3>1, <3>2 DEF ToSet
  <2>6. Vouching(q)
    BY <1>1, <2>5 DEF Vouching
  <2> QED BY <2>6, VouchingIsEnough
<1>5. m.good => good \/ ZeroLimits(q)
  <2> DEFINE limit == [k \in DOMAIN q.limit |-> OrNone(q.limit[k])]
             alike == SelectWinner(r.rows, limit) # 0
  <2>1. m.good => alike
    <3>1. m = IF q.inline THEN Answer("raised", FALSE) ELSE OnTarget(c, alike)
      BY DEF SelectTool
    <3>2. ~Answer("raised", FALSE).good
      BY DEF Answer
    <3>3. alike \in BOOLEAN
      OBVIOUS
    <3> HIDE DEF m, alike
    <3>4. OnTarget(c, alike).good => alike
      BY <3>3, GoodAnswers
    <3> QED BY <3>1, <3>2, <3>4
  <2>2. CASE \E k \in DOMAIN q.limit : q.limit[k] = 0
    BY <1>1, <2>2 DEF ZeroLimits
  <2>3. CASE ~\E k \in DOMAIN q.limit : q.limit[k] = 0
    <3>1. limit = [k \in DOMAIN q.limit |-> q.limit[k]]
      BY <2>3 DEF OrNone
    <3>2. q.limit = [k \in DOMAIN q.limit |-> q.limit[k]]
      BY <1>3 DEF Limited
    <3>3. limit = q.limit
      BY <3>1, <3>2
    <3> HIDE DEF limit
    <3> QED BY <2>1, <3>3
  <2> QED BY <2>2, <2>3
<1> HIDE DEF c, r, good, m
<1>6. CASE c.way # "ok"
  BY <1>1, <1>6, FailureTells, Replied
<1>7. CASE r.persisted /\ c = q
  BY <1>1, <1>4, <1>5, <1>7, EndedTells, Replied
<1> QED BY <1>2, <1>6, <1>7

-----------------------------------------------------------------------------
\* The commands that only report.
LEMMA ReportsTell ==
  ASSUME NEW q, Measure(q) \/ MatrixQuery(q) \/ Produce(q) \/ Premortems(q) \/ Reflect(q)
                  \/ RagSearch(q) \/ ScaffoldDriver(q)
  PROVE  Told
<1>1. q.cmd \in Plain
  BY DEF Measure, MatrixQuery, Produce, Premortems, Reflect, RagSearch, ScaffoldDriver, Plain
<1>2. \E caught, m : Reply(q, Ended(q, caught, 0), m)
  BY DEF Measure, MatrixQuery, Produce, Premortems, Reflect, RagSearch, ScaffoldDriver
<1> QED BY <1>1, <1>2, PlainReply

LEMMA ScoresTell == ASSUME NEW q, Read(q), AccuracyScore(q) PROVE Told
<1> DEFINE c == IF q.kind = "other" THEN [q EXCEPT !.way = "deepgent"] ELSE q
           m == Deterministic(q, TRUE)
<1>1. q.cmd = "score" /\ Reply(c, Ended(c, Files, 0), m)
  BY DEF AccuracyScore
<1>2. c = q \/ c.way # "ok"
  BY ChangedFails DEF Read
<1>3. q.cmd \in Plain
  BY <1>1 DEF Plain
<1> HIDE DEF c, m
<1>4. CASE c = q
  BY <1>1, <1>3, <1>4, PlainReply
<1>5. CASE c.way # "ok"
  BY <1>1, <1>5, FailureTells, Replied
<1> QED BY <1>2, <1>4, <1>5

\* Only the tool advises on a BOM.
LEMMA BomTells == ASSUME NEW q, BomTool(q) PROVE Told
<1> DEFINE m == Deterministic(q, BomAdvise(q.candidates, q.limits) # <<>>)
<1>1. Reply(q, NoCommand, m)
  BY DEF BomTool
<1>2. NoCommand.exit = -1 /\ NoCommand.shows # "report"
  BY DEF NoCommand, None
<1> HIDE DEF m
<1>3. Tells(q, NoCommand, m)
  BY <1>2 DEF Tells
<1> QED BY <1>1, <1>3, Replied

\* No two certain claims on one stack contradict each other.
LEMMA AnalysesTell == ASSUME NEW q, MatrixAnalyze(q) PROVE Told
<1> DEFINE good == Analyze(q.claims, q.universe, q.rules).contradictions = {}
<1>1. good \in BOOLEAN /\ q.cmd = "analyze" /\ Reply(q, Ended(q, Files, Passing(good)), Deterministic(q, good))
  BY DEF MatrixAnalyze
<1>2. ASSUME good PROVE Vouched(q)
  <2> DEFINE S == {i \in DOMAIN q.claims :
                     \E j \in DOMAIN q.claims : /\ q.claims[i].stack = q.claims[j].stack
                                                /\ q.claims[i].conf = Full /\ q.claims[j].conf = Full
                                                /\ q.claims[i].works # q.claims[j].works}
  <2>1. {q.claims[i].stack : i \in S} = {}
    BY <1>2 DEF Analyze, Contradictions
  <2>2. S = {}
    <3> HIDE DEF S
    <3> QED BY <2>1
  <2>3. \A c, d \in ToSet(q.claims) : c.stack = d.stack /\ c.conf = Full /\ d.conf = Full => c.works = d.works
    BY <2>2 DEF ToSet
  <2>4. Vouching(q)
    BY <1>1, <2>3 DEF Vouching
  <2> QED BY <2>4, VouchingIsEnough
<1> HIDE DEF good
<1> QED BY <1>1, <1>2, JudgedReply

\* Of two facts that differ one is not to be trusted.
LEMMA FactsTell == ASSUME NEW q, Read(q), Facts(q) PROVE Told
<1> DEFINE a == Arbitrate(q.facts, q.learned)
           good == ~a.conflict
<1>1. good \in BOOLEAN /\ q.cmd = "facts" /\ Reply(q, Ended(q, Files, Passing(good)), Deterministic(q, good))
  BY DEF Facts
<1>2. FactsAreArbitrated(q.facts, q.learned) /\ q.facts \in Seq(Asserting)
  BY <1>1, ArbitrationHolds DEF Read
<1>3. ASSUME good PROVE Vouched(q)
  <2> DEFINE Weak(h) == h.source = "model_memory" \/ Confidence(h.source, q.learned) < 6
  <2>1. /\ a.win = 0 => \A i \in DOMAIN q.facts : q.facts[i].source = "model_memory"
        /\ a.win # 0 => \A i \in DOMAIN q.facts :
             q.facts[i].value # q.facts[a.win].value => Confidence(q.facts[i].source, q.learned) < 6
    BY <1>2, <1>3 DEF FactsAreArbitrated
  <2> DEFINE w == q.facts[a.win].value
  <2>2. \A i \in DOMAIN q.facts : Weak(q.facts[i]) \/ (a.win # 0 /\ q.facts[i].value = w)
    BY <2>1
  <2> HIDE DEF Weak, w
  <2>3. \A f \in ToSet(q.facts) : Weak(f) \/ f.value = w
    BY <2>2 DEF ToSet
  <2>4. \A f, g \in ToSet(q.facts) : f.value # g.value => \E h \in {f, g} : Weak(h)
    BY <2>3
  <2>5. Vouching(q)
    BY <1>1, <2>4 DEF Vouching, Weak
  <2> QED BY <2>5, VouchingIsEnough
<1> HIDE DEF good
<1> QED BY <1>1, <1>3, JudgedReply

LEMMA ChecksTell == ASSUME NEW q, Read(q), HwCheck(q) \/ ErrataScan(q) \/ SkillsValidate(q) PROVE Told
<1>1. ASSUME HwCheck(q) PROVE Told
  <2> DEFINE good == Clean(q.config)
  <2>1. good \in BOOLEAN /\ q.cmd = "hw" /\ Reply(q, Ended(q, Files, Passing(good)), Deterministic(q, good))
    BY <1>1 DEF HwCheck, Clean
  <2>2. ASSUME good PROVE Vouched(q)
    <3>1. PICK Pin, Text, Rails :
            q.config \in [parts : Seq([pins : Seq(Pin), addr : Text, rail : Text, ma : Nat]),
                          budgets : [Rails -> Int]]
      BY <2>1 DEF Read
    <3>2. CleanIsClean(q.config)
      BY <3>1, CleanConfigsStayClean
    <3>3. Vouching(q)
      BY <2>1, <2>2, <3>2 DEF Vouching
    <3> QED BY <3>3, VouchingIsEnough
  <2> HIDE DEF good
  <2> QED BY <2>1, <2>2, JudgedReply
<1>2. ASSUME ErrataScan(q) PROVE Told
  <2> DEFINE good == Exposed(q.root, q.errata, q.chips) = {}
  <2>1. good \in BOOLEAN /\ q.cmd = "errata" /\ Reply(q, Ended(q, {}, Passing(good)), Deterministic(q, good))
    BY <1>2 DEF ErrataScan
  <2>2. ASSUME good PROVE Vouched(q)
    <3>1. ASSUME NEW e \in q.errata, NEW f \in q.root, e.chip \in q.chips, e.pattern \in f.shows
          PROVE  f.ignored
      <4>1. <<e, f>> \in q.errata \X q.root /\ <<e, f>>[1] = e /\ <<e, f>>[2] = f
        OBVIOUS
      <4> QED BY <2>2, <3>1, <4>1 DEF Exposed
    <3>2. Vouching(q)
      BY <2>1, <3>1 DEF Vouching
    <3> QED BY <3>2, VouchingIsEnough
  <2> HIDE DEF good
  <2> QED BY <2>1, <2>2, JudgedReply
<1>3. ASSUME SkillsValidate(q) PROVE Told
  <2> DEFINE good == ~\E p \in q.packs : Blocked(p, q.goldens)
  <2>1. good \in BOOLEAN /\ q.cmd = "validate" /\ Reply(q, Ended(q, Own, Passing(good)), NoTool)
    BY <1>3 DEF SkillsValidate
  <2>2. ASSUME good PROVE Vouched(q)
    <3>1. \A p \in q.packs : p.status \in Done => p.golden \in q.goldens
      BY <2>2 DEF Blocked
    <3>2. Vouching(q)
      BY <2>1, <3>1 DEF Vouching
    <3> QED BY <3>2, VouchingIsEnough
  <2> HIDE DEF good
  <2> QED BY <2>1, <2>2, JudgedReply
<1> QED BY <1>1, <1>2, <1>3

LEMMA HostsTell == ASSUME NEW q, Read(q), Doctor(q) \/ ContainersBuild(q) PROVE Told
<1>1. ASSUME Doctor(q) PROVE Told
  <2> DEFINE good == \A c \in DOMAIN RunChecks(q.host) : RunChecks(q.host)[c]
  <2>1. good \in BOOLEAN /\ q.cmd = "doctor" /\ Reply(q, Ended(q, {}, Passing(good)), Deterministic(q, good))
    BY <1>1 DEF Doctor
  <2>2. ASSUME good PROVE Vouched(q)
    <3>1. BuildsArm(q.host) /\ {"python", "uv", "docker", "settings", "sdk", "api_key"} \subseteq q.host
      BY <2>2 DEF RunChecks
    <3>2. Vouching(q)
      BY <2>1, <3>1 DEF Vouching, Preflight
    <3> QED BY <3>2, VouchingIsEnough
  <2> HIDE DEF good
  <2> QED BY <2>1, <2>2, JudgedReply
<1>2. ASSUME ContainersBuild(q) PROVE Told
  <2> DEFINE c == IF q.target = "jp6" /\ Built(q) THEN q ELSE [q EXCEPT !.way = "deepgent"]
  <2>1. q.cmd = "containers" /\ Reply(c, Ended(c, Own, 0), NoTool)
    BY <1>2 DEF ContainersBuild
  <2>2. (c = q /\ Built(q)) \/ c.way # "ok"
    BY ChangedFails DEF Read
  <2> HIDE DEF c
  <2>3. CASE c = q /\ Built(q)
    <3>1. q.smoke => q.binary = "aarch64" /\ "docker" \in q.host
      BY <2>3 DEF Built, Preflight
    <3>2. Vouching(q)
      BY <2>1, <3>1 DEF Vouching
    <3>3. Vouched(q)
      BY <3>2, VouchingIsEnough
    <3> QED BY <2>1, <2>3, <3>3, OnlyReports, Replied
  <2>4. CASE c.way # "ok"
    BY <2>1, <2>4, FailureTells, Replied
  <2> QED BY <2>2, <2>3, <2>4
<1> QED BY <1>1, <1>2

\* 3 is an update, 2 a miss.
LEMMA ReleasesTell == ASSUME NEW q, Read(q), VersionsCheck(q) PROVE Told
<1> DEFINE good == NewestAbove(q.pinned, q.tags) = {}
           c == Ended(q, Own, IF good THEN 0 ELSE 3)
<1>1. q.cmd = "versions" /\ Reply(q, c, NoTool)
  BY DEF VersionsCheck
<1>2. PICK n \in Nat : /\ q.pinned \in [1 .. n -> Int] /\ IsFiniteSet(q.tags)
                       /\ q.tags \subseteq [1 .. n -> Int] \cup {NotATag}
  BY <1>1 DEF Read
<1>3. good <=> \A t \in q.tags : t = NotATag \/ ~NewerThan(t, q.pinned)
  BY <1>2, NewestIsFound
<1>4. good => Vouched(q)
  <2>1. good => Vouching(q)
    BY <1>1, <1>3 DEF Vouching
  <2> QED BY <2>1, VouchingIsEnough
<1>5. ~good => ~Vouched(q)
  BY <1>1, <1>3, UpdatesAreNotVouched
<1>6. \/ c.exit = 1 /\ c.shows # "report"
      \/ good /\ c.exit = 0 /\ c.shows = "report"
      \/ ~good /\ c.exit = 3
  BY DEF Ended
<1>7. ~NoTool.good
  BY DEF NoTool, Answer
<1> HIDE DEF good, c
<1>8. Tells(q, c, NoTool)
  BY <1>1, <1>4, <1>5, <1>6, <1>7 DEF Tells
<1> QED BY <1>1, <1>8, Replied

LEMMA TriagesTell == ASSUME NEW q, Triage(q) PROVE Told
<1> DEFINE missed == Escalates(q.tuples)
           c == Ended(q, Own, IF missed THEN 2 ELSE 0)
           m == Knowing(q, ~missed)
<1>1. q.cmd = "triage" /\ Reply(q, c, m) /\ (missed <=> q.tuples = <<>>)
  BY DEF Triage, Escalates
<1>2. ~missed => Vouched(q)
  <2>1. ~missed => Vouching(q)
    BY <1>1 DEF Vouching
  <2> QED BY <2>1, VouchingIsEnough
<1>3. \/ c.exit = 1 /\ c.shows # "report"
      \/ ~missed /\ c.exit = 0 /\ c.shows = "report"
      \/ missed /\ c.exit = 2
  BY DEF Ended
<1>4. m.good => ~missed
  BY DEF Knowing, Answer
<1> HIDE DEF missed, c, m
<1>5. Tells(q, c, m)
  BY <1>1, <1>2, <1>3, <1>4 DEF Tells
<1> QED BY <1>1, <1>5, Replied

LEMMA UpgradesTell == ASSUME NEW q, Read(q), UpgradeCheck(q) PROVE Told
<1> DEFINE good == Safe(Impacts(q.matrix, q.current, q.proposed))
<1>1. good \in BOOLEAN /\ q.cmd = "upgrade" /\ Reply(q, Ended(q, Own, Passing(good)), Knowing(q, good))
  BY DEF UpgradeCheck, Safe
<1>2. PICK K, V : \E keys \in SUBSET K, moves \in SUBSET K :
        IsFiniteSet(moves) /\ q.current \in [keys -> V] /\ q.proposed \in [moves -> V]
  BY <1>1 DEF Read
<1>3. UpgradeIsVerified(q.matrix, q.current, q.proposed)
  BY <1>2, UpgradesAreVerified
<1>4. ASSUME good PROVE Vouched(q)
  <2> DEFINE target == Overlaid(q.current, q.proposed)
  <2>1. DOMAIN Impacts(q.matrix, q.current, q.proposed) = Moved(q.current, q.proposed)
    BY DEF Impacts
  <2>2. Cardinality(Moved(q.current, q.proposed)) <= 1 =>
          target = q.current \/ Status(q.matrix, target) = "verified_pass"
    BY <1>3, <1>4, <2>1 DEF UpgradeIsVerified
  <2>3. Vouching(q)
    BY <1>1, <2>2 DEF Vouching
  <2> QED BY <2>3, VouchingIsEnough
<1> HIDE DEF good
<1> QED BY <1>1, <1>4, JudgedReply

-----------------------------------------------------------------------------
\* Whatever is asked and measured, exit code 0 means a report was shown and its
\* verdict is a good one, unless it is about a latency trace without a stage or a
\* sanitizer without exactly one summary; 2 and 3 are a miss and an update, and
\* the tool calls nothing good that the command reports and fails, limits of 0
\* apart (cli/main.py, mcp_server.py); for requests of any size.
THEOREM ExitsTellVerdicts ==
  ASSUME NEW q, Read(q), Command(q)
  PROVE  ExitTellsVerdict'
<1>1. ASSUME RunTask(q) \/ CiRun(q) \/ EvalsRun(q) \/ ReplayFixture(q) \/ Soak(q) \/ Measure(q)
               \/ Latency(q) \/ AccuracyGate(q) \/ CudaCheck(q)
      PROVE  Told
  BY <1>1, TasksTell, GoldenTells, BoardsTell, ReportsTell, LatencyTells, GatesTell
<1>2. ASSUME Differential(q) \/ QuantSweep(q) \/ Fleet(q) \/ SelectModel(q) PROVE Told
  BY <1>2, SweepsTell, FleetTells, SelectionTells
<1>3. ASSUME AccuracyScore(q) \/ MatrixQuery(q) \/ MatrixAnalyze(q) \/ Produce(q) \/ Facts(q) \/ HwCheck(q)
               \/ ErrataScan(q) \/ BomTool(q) \/ SkillsValidate(q)
      PROVE  Told
  BY <1>3, ScoresTell, ReportsTell, AnalysesTell, FactsTell, ChecksTell, BomTells
<1>4. ASSUME VersionsCheck(q) \/ Doctor(q) \/ ContainersBuild(q) PROVE Told
  BY <1>4, ReleasesTell, HostsTell
<1>5. ASSUME Premortems(q) \/ Reflect(q) \/ Triage(q) \/ UpgradeCheck(q) \/ RagSearch(q) \/ ScaffoldDriver(q)
      PROVE  Told
  BY <1>5, ReportsTell, TriagesTell, UpgradesTell
<1>6. Told
  BY <1>1, <1>2, <1>3, <1>4, <1>5 DEF Command
<1> QED BY <1>6 DEF Told, Tells, ExitTellsVerdict
===============================================================================
