---------------------------- MODULE CompatMatrix ----------------------------
(***************************************************************************)
(* knowledge/matrix.py: reasoning over compatibility claims about one       *)
(* target component (claims about others are passed over).  A stack maps    *)
(* some components to versions, a claim says that the target works on a     *)
(* stack or does not, the rules give each component groups of versions that *)
(* stand for one another.                                                   *)
(*                                                                          *)
(* Confidences are counted in 1/Full; with at most four hops the decay of   *)
(* 0.7 per hop is exact for multiples of Full/10.                           *)
(***************************************************************************)
EXTENDS Integers, Sequences, FiniteSets, FiniteSetsExt, SequencesExt

Full == 100000
Far == 99       \* no chain of rules leads there

Claim(stack, works, conf, source) ==
  [stack |-> stack, works |-> works, conf |-> conf, source |-> source]

\* hop_distance: breadth first over the groups, which are cliques.
Hops_DirectOnly(groups, a, b) ==
  IF a = b THEN 0 ELSE IF \E g \in groups : {a, b} \subseteq g THEN 1 ELSE Far
Hops(groups, a, b) ==
  LET within[n \in 0..Cardinality(UNION groups)] ==
        IF n = 0 THEN {a}
        ELSE within[n - 1] \cup UNION {g \in groups : g \cap within[n - 1] # {}}
      steps == {n \in DOMAIN within : b \in within[n]}
  IN  IF steps = {} THEN Far ELSE Min(steps)

\* _stack_applies: hops from the claim's stack to the cell, Far if some
\* component is missing from the cell or out of reach.
Applies(claim, cell, rules) ==
  LET keys == DOMAIN claim.stack
      hops(k) == Hops(rules[k], claim.stack[k], cell[k])
  IN  IF keys \subseteq DOMAIN cell /\ \A k \in keys : hops(k) # Far
      THEN MapThenSumSet(hops, keys) ELSE Far

Decayed(conf, hops) ==
  LET kept[h \in 0..hops] == IF h = 0 THEN conf ELSE (7 * kept[h - 1]) \div 10 IN kept[hops]

Unknown == [works |-> "unknown", conf |-> 0, basis |-> "no claim"]

\* query: the first of the most confident among the claims that apply.
Judge(best, claim, hops) ==
  LET new == [works |-> claim.works, conf |-> Decayed(claim.conf, hops),
              basis |-> IF hops # 0 THEN "inferred"
                        ELSE IF claim.conf = Full THEN "verified" ELSE claim.source]
  IN  IF hops = Far THEN best
      ELSE IF best = Unknown \/ new.conf > best.conf THEN new ELSE best
Query(claims, cell, rules) ==
  FoldLeft(LAMBDA best, c : Judge(best, c, Applies(c, cell, rules)), Unknown, claims)

\* detect_contradictions: stacks with certain claims both ways.
Contradictions(claims) ==
  {claims[i].stack : i \in {i \in DOMAIN claims :
     \E j \in DOMAIN claims : /\ claims[i].stack = claims[j].stack
                              /\ claims[i].conf = Full /\ claims[j].conf = Full
                              /\ claims[i].works # claims[j].works}}

\* next_to_verify: the cell of the universe (in the order of their strings)
\* with the most to learn, 0 when every one is settled.  An unsure claim settles
\* its cell too, if its source reads "verified", which is the default.
Value(claims, universe, i, rules) ==
  LET others == {j \in DOMAIN universe \ {i} :
                   Applies([stack |-> universe[i]], universe[j], rules) # Far}
  IN  (Full - Query(claims, universe[i], rules).conf) + (Full \div 10) * Cardinality(others)
NextToVerify(claims, universe, rules) ==
  LET open == {i \in DOMAIN universe : Query(claims, universe[i], rules).basis # "verified"}
      value(i) == Value(claims, universe, i, rules)
      best == {i \in open : \A j \in open : value(j) <= value(i)}
  IN  IF open = {} THEN 0 ELSE Min(best)

Analyze(claims, universe, rules) ==
  [contradictions |-> Contradictions(claims), next |-> NextToVerify(claims, universe, rules)]

-----------------------------------------------------------------------------
\* The chains the breadth-first search finds are those of the equivalence the
\* groups generate: b is out of reach exactly when some set of versions closed
\* under the groups holds a and not b; distance is symmetric.
HopsAreEquivalence(groups) ==
  LET versions == UNION groups
      closed(s) == \A g \in groups : g \cap s = {} \/ g \subseteq s
  IN  \A a, b \in versions :
        /\ Hops(groups, a, b) = Hops(groups, b, a)
        /\ (Hops(groups, a, b) = Far) <=>
             \E s \in SUBSET versions : closed(s) /\ a \in s /\ b \notin s

\* What an answer rests on: a certain claim on the very cell settles it, nothing
\* inferred is ever as sure as that, an unsure claim on the very cell gives way
\* only to an answer at least as sure, a claim that does not apply changes
\* nothing, and one more claim never makes an answer less sure.  It does give
\* way: the code ranks direct and inferred claims by confidence alone (176), the
\* first loaded before an equal, where its docstring says "direct claim if
\* present, else best inference" (160).
QueryIsGrounded(claims, cell, rules) ==
  LET v == Query(claims, cell, rules)
      direct == {i \in DOMAIN claims : Applies(claims[i], cell, rules) = 0}
  IN  /\ (\E i \in direct : claims[i].conf = Full) =>
           v.conf = Full /\ \E i \in direct : claims[i].conf = Full /\ claims[i].works = v.works
      /\ v.basis = "inferred" => v.conf < Full
      /\ \A i \in direct : claims[i].conf <= v.conf
      /\ \A i \in DOMAIN claims : LET fewer == Query(RemoveAt(claims, i), cell, rules) IN
           /\ fewer.conf <= v.conf
           /\ Applies(claims[i], cell, rules) = Far => fewer = v

\* The order in which claims were loaded shows in a certain answer only where a
\* contradiction is reported, provided every claim names the whole stack.
OrderShowsOnlyInConflict(claims, cell, rules) ==
  LET v == Query(claims, cell, rules) w == Query(Reverse(claims), cell, rules) IN
    /\ v.conf = w.conf
    /\ v.works # w.works /\ v.conf = Full
         /\ (\A i \in DOMAIN claims : DOMAIN claims[i].stack = DOMAIN cell)
       => cell \in Contradictions(claims)

\* The cell proposed for a test is one that a certain answer is missing for,
\* and none that is missing is worth more.
NextIsWorthIt(claims, universe, rules) ==
  LET next == NextToVerify(claims, universe, rules)
      unsure == {i \in DOMAIN universe :
                   \A c \in DOMAIN claims : Applies(claims[c], universe[i], rules) # 0}
  IN  /\ next = 0 => unsure = {}
      /\ next # 0 => Query(claims, universe[next], rules).conf < Full
      /\ next # 0 => \A i \in unsure :
           Value(claims, universe, i, rules) <= Value(claims, universe, next, rules)
=============================================================================
