--------------------------- MODULE KnowledgeRules ---------------------------
(***************************************************************************)
(* The other rules by which the knowledge layer turns records into advice:  *)
(* arbitration of facts, skill metrics and the skill gate, upgrade reports, *)
(* BOM advice, errata, hardware conflicts, release tags, and the replan     *)
(* after a failure.  Pure functions of their inputs, which come from files  *)
(* and from the knowledge API.  Fractions are counted in tenths or          *)
(* compared by cross-multiplication.                                        *)
(***************************************************************************)
EXTENDS CompatMatrix, Functions

\* confidence_for and arbitrate; learned maps the sources with enough recorded
\* outcomes to their reliability in tenths.  Confidences are in twentieths.
Base == [empirical |-> 10, datasheet_rag |-> 9, corpus |-> 7, matrix_inferred |-> 5,
         model_memory |-> 0, forum |-> 3]
Confidence(source, learned) ==
  IF source = "model_memory" THEN 0
  ELSE IF source \in DOMAIN learned THEN Base[source] + learned[source] ELSE 2 * Base[source]

\* The most confident assertion, the first of equals; a differing value of
\* confidence 0.3 or more is a conflict.
Arbitrate(facts, learned) ==
  LET heard == {i \in DOMAIN facts : facts[i].source # "model_memory"}
      conf(i) == Confidence(facts[i].source, learned)
      best == {i \in heard : \A j \in heard : conf(j) <= conf(i)}
      win == IF best = {} THEN 0 ELSE Min(best)
  IN  [win |-> win,
       conflict |-> win # 0 /\ \E i \in heard :
                      facts[i].value # facts[win].value /\ conf(i) >= 6]

\* Arbitration is by merit and not by order, memory never wins, and a silent
\* disagreement is one with sources nobody should trust.
FactsAreArbitrated(facts, learned) ==
  LET a == Arbitrate(facts, learned) b == Arbitrate(Reverse(facts), learned)
      conf(i) == Confidence(facts[i].source, learned)
  IN  /\ a.win # 0 => facts[a.win].source # "model_memory"
      /\ a.win = 0 => \A i \in DOMAIN facts : facts[i].source = "model_memory"
      /\ a.win # 0 /\ ~a.conflict => \A i \in DOMAIN facts :
           facts[i].value # facts[a.win].value => conf(i) < 6
      /\ a.win # 0 /\ conf(a.win) >= 6 => a.conflict = b.conflict

-----------------------------------------------------------------------------
\* skill_lifecycle: the ablation runs with and without a skill, as counts of
\* runs, passes and loops.
Cross(s, count) == s.with[count] * s.without.runs - s.without[count] * s.with.runs
Cells(s) == s.with.runs * s.without.runs
CutsLoops(s) == 2 * Cross(s, "loops") < 0 - Cells(s)
SkillVerdict(s) ==
  LET lift == Cross(s, "passed") IN
    IF s.with.runs < 4 \/ s.without.runs < 4 THEN "insufficient-data"
    ELSE IF 100 * lift >= 15 * Cells(s) \/ (lift >= 0 /\ CutsLoops(s)) THEN "promote"
    ELSE IF lift <= 0 /\ ~CutsLoops(s) THEN "retire" ELSE "keep"

\* One more pass never costs a skill its standing, one measured on one side
\* only is not decided on, and none that lowers the pass rate is promoted.
Standing == [retire |-> 0, keep |-> 1, promote |-> 2]
SkillsEarnTheirPlace(s) ==
  LET v == SkillVerdict(s) better == SkillVerdict([s EXCEPT !.with.passed = @ + 1]) IN
    /\ 0 \in {s.with.runs, s.without.runs} => v = "insufficient-data"
    /\ v = "promote" => Cross(s, "passed") >= 0
    /\ v \in DOMAIN Standing /\ s.with.passed < s.with.runs => Standing[better] >= Standing[v]

\* skill_gate: what stops a merge.
Done == {"done", "golden-gated"}
Blocked(pack, goldens) ==
  \/ pack.golden # "none" /\ pack.golden \notin goldens
  \/ pack.status \in Done /\ pack.golden = "none"

-----------------------------------------------------------------------------
\* products: each component that moves is asked for alone, on the current
\* stack; matrix is what the server has verified, by stack.
Moved(current, proposed) == {k \in DOMAIN proposed :
                               k \notin DOMAIN current \/ current[k] # proposed[k]}
Status(matrix, stack) == IF stack \in DOMAIN matrix THEN matrix[stack] ELSE "unknown"
Overlaid(stack, moves) ==
  [k \in DOMAIN stack \cup DOMAIN moves |-> IF k \in DOMAIN moves THEN moves[k] ELSE stack[k]]
Impacts(matrix, current, proposed) ==
  [k \in Moved(current, proposed) |-> Status(matrix, Overlaid(current, [m \in {k} |-> proposed[k]]))]
Safe(impacts) == \A k \in DOMAIN impacts : impacts[k] = "verified_pass"

\* An upgrade of one component called safe leads to a stack verified to pass,
\* or moves nothing.
UpgradeIsVerified(matrix, current, proposed) ==
  LET impacts == Impacts(matrix, current, proposed) target == Overlaid(current, proposed) IN
    Safe(impacts) /\ Cardinality(DOMAIN impacts) <= 1 =>
      target = current \/ Status(matrix, target) = "verified_pass"

\* bom_advise: measured candidates within the limits, cheapest first; -1 is
\* a figure or a limit not given, a candidate without a price goes last.
Satisfies(c, limits) ==
  /\ limits.fps # -1 => c.fps # -1 /\ c.fps >= limits.fps
  /\ \A k \in {"power", "cost"} : limits[k] # -1 => c[k] # -1 /\ c[k] <= limits[k]
BomAdvise(candidates, limits) ==
  LET price(c) == IF c.cost = -1 THEN 1000 ELSE c.cost
  IN  SortSeq(SelectSeq(candidates, LAMBDA c : Satisfies(c, limits)),
              LAMBDA a, b : price(a) < price(b))

\* triage: a corpus hit, or an escalation.
Escalates(tuples) == tuples = <<>>

-----------------------------------------------------------------------------
\* scan_errata: places where a pattern of an erratum of a chip on the BOM shows.
Exposed(root, errata, chips) ==
  {p \in errata \X root : p[1].chip \in chips /\ ~p[2].ignored /\ p[1].pattern \in p[2].shows}

\* release_watch: tags above the pinned one; a tag that is none is passed over.
NotATag == <<>>
NewerThan(a, b) == \E i \in DOMAIN a : a[i] > b[i] /\ \A j \in 1..(i - 1) : a[j] = b[j]
NewestAbove(pinned, tags) ==
  LET newer == {t \in tags : t # NotATag /\ NewerThan(t, pinned)}
  IN  {t \in newer : \A u \in newer : ~NewerThan(u, t)}

\* hardware_check: pins and bus addresses claimed more than once, rails with a
\* budget that draw more.
PinConflicts(config) ==
  LET listed == UNION {{i} \X DOMAIN config.parts[i].pins : i \in DOMAIN config.parts}
      pin(p) == config.parts[p[1]].pins[p[2]]
  IN  {pin(p) : p \in {p \in listed : \E q \in listed \ {p} : pin(p) = pin(q)}}
BusConflicts(config) ==
  {config.parts[i].addr : i \in {i \in DOMAIN config.parts :
     /\ config.parts[i].addr # "none"
     /\ \E j \in DOMAIN config.parts \ {i} : config.parts[i].addr = config.parts[j].addr}}
Draw(config, rail) ==
  FoldLeft(LAMBDA sum, p : IF p.rail = rail THEN sum + p.ma ELSE sum, 0, config.parts)
PowerConflicts(config) ==
  {rail \in DOMAIN config.budgets : Draw(config, rail) > config.budgets[rail]}
Clean(config) ==
  PinConflicts(config) = {} /\ BusConflicts(config) = {} /\ PowerConflicts(config) = {}

\* A clean configuration stays clean without any one part, and no two parts of
\* it share a pin or an address.
CleanIsClean(config) ==
  Clean(config) => \A i \in DOMAIN config.parts :
    /\ Clean([config EXCEPT !.parts = RemoveAt(@, i)])
    /\ \A j \in DOMAIN config.parts \ {i} :
         LET p == config.parts[i] q == config.parts[j]
         IN  ToSet(p.pins) \cap ToSet(q.pins) = {} /\ (p.addr = "none" \/ p.addr # q.addr)

-----------------------------------------------------------------------------
\* reflect: evidence first where the failure is grave, then the first verified
\* fix of the corpus, then the advice for the class.
Grave == {"runtime_crash", "accuracy_miss", "thermal", "flaky_hw", "harness_bug"}
Replan(tag, tuples) ==
  (IF tag \in Grave THEN <<"evidence">> ELSE <<>>)
    \o (IF tuples = <<>> THEN <<>> ELSE <<"corpus">>) \o <<"advice">>

\* assemble_premortem: the corpus' tuples, and the stack if it is known to fail.
Premortem(tuples, status) ==
  tuples \o (IF status = "verified_fail" THEN <<"matrix">> ELSE <<>>)

\* A failure that could burn the board is met with evidence before any fix, a fix
\* from the corpus only if it holds one, and a task is warned of a stack only if
\* that stack is verified to fail.
AdviceIsGrounded(tag, tuples, status) ==
  LET plan == Replan(tag, tuples) warned == ToSet(Premortem(tuples, status)) \ ToSet(tuples) IN
    /\ tag \in Grave <=> Head(plan) = "evidence"
    /\ tuples = <<>> => "corpus" \notin ToSet(plan)
    /\ status # "verified_fail" => warned = {}
    /\ Last(plan) = "advice"

\* fact_guard: chunks without provenance are taken out of a list of chunks; a
\* single chunk, or a result that is no object, passes.
Grounded(c) == c.provenance
Stripped(chunks) == FoldLeft(LAMBDA out, c : IF Grounded(c) THEN Append(out, c) ELSE out, <<>>, chunks)
Guarded(result) ==
  IF result.shape # "chunks" \/ \A c \in ToSet(result.chunks) : Grounded(c) THEN result
  ELSE LET kept == Stripped(result.chunks)
       IN  [result EXCEPT !.chunks = kept, !.unknown = kept = <<>>]

\* The agent is told "unknown" exactly when no chunk is left, and is shown no
\* chunk of a search without provenance.  A result that is no list of chunks,
\* get_chunk's among them, passes as it is (41), although "an unprovenanced
\* "fact" can never silently enter a session" (5-6).
GuardKeepsGrounds(result) ==
  LET r == Guarded(result) IN
    r.shape = "chunks" /\ (result.unknown <=> result.chunks = <<>>) =>
      /\ r.unknown <=> r.chunks = <<>>
      /\ \A c \in ToSet(r.chunks) : Grounded(c)
=============================================================================
