----------------------------- MODULE Runs_proofs -----------------------------
(***************************************************************************)
(* Induction, for provers that cannot instantiate an induction rule: the    *)
(* hypothesis is membership in a set.  With it, what a fold computes and    *)
(* what a function defined from place to place is are the values of a run,  *)
(* from a base, each a step from the one before.                            *)
(***************************************************************************)
EXTENDS Integers, Sequences, FiniteSets, FiniteSetsExt, FiniteSetTheorems, TLAPS

\* A set of numbers that is not empty has a least one.
LEMMA LeastOfNats ==
  ASSUME NEW T, T \subseteq Nat, T # {}
  PROVE  \E x \in T : \A y \in T : x <= y
<1> DEFINE R == {ss \in Nat \X Nat : ss[1] < ss[2]}
<1>1. IsWellFoundedOn(R, Nat)
  BY NatLessThanWellFounded, Zenon DEF OpToRel
<1>2. PICK x \in T : \A y \in T : ~ (<<y, x>> \in R)
  <2> HIDE DEF R
  <2> QED BY <1>1, WFMin
<1>3. ASSUME NEW y \in T, ~ (<<y, x>> \in R) PROVE x <= y
  BY <1>3
<1> QED BY <1>2, <1>3

\* Induction along the numbers up to N, for a set of them.
LEMMA Counting ==
  ASSUME NEW N \in Nat, NEW P, 0 \in P, \A n \in 0 .. N : n < N /\ n \in P => n + 1 \in P
  PROVE  \A n \in 0 .. N : n \in P
<1> DEFINE T == (0 .. N) \ P
<1>1. SUFFICES ASSUME T # {} PROVE FALSE
  OBVIOUS
<1>2. PICK x \in T : \A y \in T : x <= y
  <2>1. T \subseteq Nat
    OBVIOUS
  <2> HIDE DEF T
  <2> QED BY <1>1, <2>1, LeastOfNats
<1>3. x \in 0 .. N /\ x # 0 /\ x - 1 \in 0 .. N /\ x - 1 < N
  BY <1>2
<1>4. x - 1 \in P
  <2>1. ~(x <= x - 1)
    BY <1>3
  <2> QED BY <1>2, <1>3, <2>1
<1> QED BY <1>2, <1>3, <1>4

\* The greatest of the places up to n is n.
LEMMA LastPlace ==
  ASSUME NEW n \in Nat, n # 0
  PROVE  Max(1 .. n) = n /\ (1 .. n) \ {n} = 1 .. (n - 1) /\ 1 .. n # {}
<1>1. n \in 1 .. n /\ \A y \in 1 .. n : n >= y
  OBVIOUS
<1>2. \A x \in 1 .. n : (\A y \in 1 .. n : x >= y) => x = n
  OBVIOUS
<1> QED BY <1>1, <1>2 DEF Max

\* A fold over N places as a function of the sets of places, which takes the
\* greatest place last; step gives the next state from a place and a state.
Stepped(N, S, base, step) == base \in S /\ step \in [(1 .. N) \X S -> S]
IsFold(N, S, base, step, g) ==
  /\ g \in [SUBSET (1 .. N) -> S]
  /\ \A T \in SUBSET (1 .. N) :
       /\ T # {} => Max(T) \in T
       /\ g[T] = IF T = {} THEN base ELSE step[<<Max(T), g[T \ {Max(T)}]>>]

LEMMA FoldExists ==
  ASSUME NEW N \in Nat, NEW S, NEW base, NEW step, Stepped(N, S, base, step)
  PROVE  \E g : IsFold(N, S, base, step, g)
<1> USE DEF Stepped
<1> DEFINE Folds(n, g) ==
             \A T \in SUBSET (1 .. n) :
               /\ T # {} => Max(T) \in T
               /\ g[T] = IF T = {} THEN base ELSE step[<<Max(T), g[T \ {Max(T)}]>>]
           P == {n \in 0 .. N : \E g \in [SUBSET (1 .. n) -> S] : Folds(n, g)}
<1>1. 0 \in P
  <2>1. 1 .. 0 = {}
    OBVIOUS
  <2> DEFINE g == [T \in SUBSET (1 .. 0) |-> base]
  <2>2. g \in [SUBSET (1 .. 0) -> S] /\ Folds(0, g)
    BY <2>1
  <2>3. 0 \in 0 .. N
    OBVIOUS
  <2> HIDE DEF g
  <2> QED BY <2>2, <2>3
<1>2. ASSUME NEW n \in 0 .. N, n < N, n \in P PROVE n + 1 \in P
  <2>1. PICK g \in [SUBSET (1 .. n) -> S] : Folds(n, g)
    BY <1>2
  <2> DEFINE m == n + 1
             h == [T \in SUBSET (1 .. m) |->
                     IF m \in T THEN step[<<m, g[T \ {m}]>>] ELSE g[T]]
  <2>2. m \in 1 .. N /\ m \in Nat
    BY <1>2
  <2>3. ASSUME NEW T \in SUBSET (1 .. m)
        PROVE  /\ m \notin T => T \in SUBSET (1 .. n)
               /\ T \ {m} \in SUBSET (1 .. n)
               /\ m \in T => Max(T) = m
               /\ m \notin T /\ T # {} => m \notin T \ {Max(T)} /\ T \ {Max(T)} \in SUBSET (1 .. m)
    <3>1. m \in T => Max(T) = m
      <4>1. m \in T => \A x \in T : m >= x /\ (x >= m => x = m)
        BY <2>2
      <4> QED BY <4>1 DEF Max
    <3>2. \A x \in 1 .. m : x = m \/ x \in 1 .. n
      BY <1>2
    <3> HIDE DEF m
    <3> QED BY <3>1, <3>2
  <2>4. h \in [SUBSET (1 .. m) -> S]
    BY <2>1, <2>2, <2>3
  <2>5. ASSUME NEW T \in SUBSET (1 .. m)
        PROVE  /\ T # {} => Max(T) \in T
               /\ h[T] = IF T = {} THEN base ELSE step[<<Max(T), h[T \ {Max(T)}]>>]
    <3>1. CASE m \in T
      <4>1. Max(T) = m /\ T # {} /\ T \ {m} \in SUBSET (1 .. m) /\ m \notin T \ {m}
        BY <2>3, <3>1
      <4>2. h[T \ {m}] = g[T \ {m}]
        BY <4>1
      <4>3. h[T] = step[<<m, g[T \ {m}]>>]
        BY <3>1
      <4> HIDE DEF h
      <4> QED BY <3>1, <4>1, <4>2, <4>3
    <3>2. CASE m \notin T
      <4>1. T \in SUBSET (1 .. n) /\ h[T] = g[T]
        BY <2>3, <3>2
      <4>2. T # {} => h[T \ {Max(T)}] = g[T \ {Max(T)}]
        BY <2>3, <3>2
      <4> HIDE DEF h, m
      <4> QED BY <2>1, <4>1, <4>2
    <3> QED BY <3>1, <3>2
  <2>6. Folds(m, h)
    BY <2>5
  <2>7. m \in 0 .. N
    BY <2>2
  <2> HIDE DEF h
  <2> QED BY <2>4, <2>6, <2>7
<1>3. N \in P
  <2> HIDE DEF P
  <2> QED BY <1>1, <1>2, Counting
<1> QED BY <1>3 DEF IsFold

\* The places a fold has gone through after i of N, and the one it takes next.
LEMMA Places ==
  ASSUME NEW N \in Nat, NEW i \in 1 .. N
  PROVE  /\ 1 .. i \in SUBSET (1 .. N) /\ 1 .. i # {}
         /\ Max(1 .. i) = i /\ (1 .. i) \ {i} = 1 .. (i - 1)
<1>1. i \in Nat /\ i # 0 /\ 1 .. i \in SUBSET (1 .. N)
  OBVIOUS
<1> QED BY <1>1, LastPlace

\* What a fold computes is the last of the states it runs through.
RunsTo(N, S, base, step, result) ==
  \E run \in [0 .. N -> S] :
    /\ run[0] = base /\ run[N] = result
    /\ \A i \in 1 .. N : run[i] = step[<<i, run[i - 1]>>]

LEMMA FoldIsRun ==
  ASSUME NEW N \in Nat, NEW S, NEW base, NEW step, Stepped(N, S, base, step),
         NEW iter, iter[{}] = base,
         \A i \in 1 .. N : LET before == iter[(1 .. i) \ {Max(1 .. i)}] IN
           before \in S => iter[1 .. i] = step[<<Max(1 .. i), before>>]
  PROVE  RunsTo(N, S, base, step, iter[1 .. N])
<1> DEFINE run == [i \in 0 .. N |-> iter[1 .. i]]
           P == {i \in 0 .. N : run[i] \in S}
<1>1. base \in S /\ \A i \in 1 .. N : \A x \in S : step[<<i, x>>] \in S
  BY DEF Stepped
<1>2. run[0] = base /\ run[N] = iter[1 .. N]
  <2>1. 1 .. 0 = {} /\ 0 \in 0 .. N /\ N \in 0 .. N
    OBVIOUS
  <2> QED BY <2>1
<1>3. \A i \in 1 .. N : run[i - 1] \in S => run[i] = step[<<i, run[i - 1]>>]
  <2> TAKE i \in 1 .. N
  <2>1. Max(1 .. i) = i /\ (1 .. i) \ {i} = 1 .. (i - 1)
    BY Places
  <2>2. run[i] = iter[1 .. i] /\ run[i - 1] = iter[1 .. (i - 1)]
    OBVIOUS
  <2> HIDE DEF run
  <2> QED BY <2>1, <2>2
<1> HIDE DEF run
<1>4. 0 \in P /\ \A n \in 0 .. N : n < N /\ n \in P => n + 1 \in P
  <2>1. ASSUME NEW n \in 0 .. N, n < N, n \in P PROVE n + 1 \in P
    <3>1. n + 1 \in 1 .. N /\ n + 1 \in 0 .. N /\ (n + 1) - 1 = n
      BY <2>1
    <3>2. run[n + 1] = step[<<n + 1, run[n]>>]
      BY <1>3, <2>1, <3>1
    <3> QED BY <1>1, <2>1, <3>1, <3>2
  <2> QED BY <1>1, <1>2, <2>1
<1>5. \A n \in 0 .. N : n \in P
  <2> HIDE DEF P
  <2> QED BY <1>4, Counting
<1>6. run \in [0 .. N -> S]
  BY <1>5 DEF run
<1>7. \A i \in 1 .. N : run[i] = step[<<i, run[i - 1]>>]
  BY <1>3, <1>5
<1> QED BY <1>2, <1>6, <1>7 DEF RunsTo

\* What a function that is defined from place to place goes through.
Goes(N, S, base, step, run) ==
  run \in [0 .. N -> S] /\ run[0] = base /\ \A i \in 1 .. N : run[i] = step[<<i, run[i - 1]>>]
LEMMA RunExists ==
  ASSUME NEW N \in Nat, NEW S, NEW base, NEW step, Stepped(N, S, base, step)
  PROVE  \E run : Goes(N, S, base, step, run)
<1>1. PICK g : IsFold(N, S, base, step, g)
  BY FoldExists
<1> DEFINE w == [n \in 0 .. N |-> g[1 .. n]]
<1>2. /\ \A n \in 0 .. N : w[n] = g[1 .. n] /\ g[1 .. n] \in S
      /\ w[0] = base
  <2>1. 1 .. 0 = {} /\ 0 \in 0 .. N
    OBVIOUS
  <2>2. \A n \in 0 .. N : 1 .. n \in SUBSET (1 .. N)
    OBVIOUS
  <2>3. g[{}] = base /\ \A T \in SUBSET (1 .. N) : g[T] \in S
    BY <1>1 DEF IsFold
  <2> QED BY <2>1, <2>2, <2>3
<1>3. ASSUME NEW i \in 1 .. N PROVE w[i] = step[<<i, w[i - 1]>>]
  <2>1. /\ 1 .. i \in SUBSET (1 .. N) /\ 1 .. i # {}
        /\ Max(1 .. i) = i /\ (1 .. i) \ {i} = 1 .. (i - 1)
    BY Places
  <2>2. g[1 .. i] = step[<<i, g[1 .. (i - 1)]>>]
    BY <1>1, <2>1 DEF IsFold
  <2>3. i \in 0 .. N /\ i - 1 \in 0 .. N
    OBVIOUS
  <2>4. w[i] = g[1 .. i] /\ w[i - 1] = g[1 .. (i - 1)]
    BY <2>3
  <2> HIDE DEF w
  <2> QED BY <2>2, <2>4
<1>4. w \in [0 .. N -> S]
  BY <1>2
<1> HIDE DEF w
<1> QED BY <1>2, <1>3, <1>4 DEF Goes

\* Such a function is the one its definition chooses.
LEMMA DefinedRuns ==
  ASSUME NEW N \in Nat, NEW S, NEW base, NEW step, Stepped(N, S, base, step),
         NEW u, u = [n \in 0 .. N |-> IF n = 0 THEN base ELSE step[<<n, u[n - 1]>>]]
  PROVE  Goes(N, S, base, step, u)
<1> DEFINE P == {n \in 0 .. N : u[n] \in S}
<1>1. 0 \in 0 .. N /\ \A n \in 1 .. N : n \in 0 .. N /\ n - 1 \in 0 .. N /\ n # 0
  OBVIOUS
<1>2. u[0] = base /\ \A n \in 1 .. N : u[n] = step[<<n, u[n - 1]>>]
  BY <1>1
<1>3. 0 \in P
  BY <1>1, <1>2 DEF Stepped
<1>4. ASSUME NEW n \in 0 .. N, n < N, n \in P PROVE n + 1 \in P
  <2>1. n + 1 \in 1 .. N /\ n + 1 \in 0 .. N /\ (n + 1) - 1 = n
    BY <1>4
  <2>2. u[n + 1] = step[<<n + 1, u[n]>>]
    BY <1>2, <2>1
  <2> QED BY <1>4, <2>1, <2>2 DEF Stepped
<1>5. \A n \in 0 .. N : n \in P
  <2> HIDE DEF P
  <2> QED BY <1>3, <1>4, Counting
<1>6. u \in [0 .. N -> S]
  BY <1>5
<1> QED BY <1>2, <1>6 DEF Goes
=============================================================================
