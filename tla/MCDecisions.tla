----------------------------- MODULE MCDecisions -----------------------------
(***************************************************************************)
(* Two scenes, which share no state and are not multiplied.  In one, one    *)
(* request after another from small sets of what files, boards and the      *)
(* knowledge layer can hold: the state is the request and its answers, so   *)
(* an invariant is a statement about every request.  In the other, the      *)
(* command that takes many steps: two bisects of one project, which are     *)
(* interchangeable.                                                         *)
(***************************************************************************)
EXTENDS CommandLine, GoldenBisect

CONSTANTS b1, b2

VARIABLE scene

decisions == <<surfaces, vars, scene>>

Interchangeable == Permutations(Bisects)

OnBoard == {"ok", "config", "deepgent", "os"}
OnFile == {"ok", "deepgent", "value", "os"}
OnLayer == {"ok", "config", "deepgent"}
UpTo(n, S) == UNION {[1..k -> S] : k \in 0..n}
PartOf(names, S) == UNION {[d -> S] : d \in SUBSET names}

\* Tasks, and the texts they are made of.
Classes == {Rules[i].class : i \in DOMAIN Rules}
Texts == {c \cup m : c \in {s \in SUBSET Classes : Cardinality(s) <= 2},
                     m \in SUBSET {"cpp", "hardware", "domain", "offtopic"}}
Setups == [enabled : {TRUE}, knowledge : {"up"}, risks : SUBSET {"domain", "offtopic"}]
            \cup [enabled : BOOLEAN, knowledge : {"down"}, risks : {{"offtopic"}}]
Asks ==
  [cmd : {"task"}, way : {"ok"}, is_error : {FALSE}, text : Texts, setup : Setups]
    \cup [cmd : {"task", "ci"}, way : OnLayer, is_error : BOOLEAN, text : {{}},
          setup : {[enabled |-> FALSE, knowledge |-> "down", risks |-> {}]}]

\* Goldens and measurements.
Metrics == PartOf(Costs, {0, 20, 23, 24}) \cup [{"err"} -> {0, 2}]
Baselines == {NoBaseline} \cup [passed : BOOLEAN, metrics : PartOf(Costs, {0, 20})]
Goldens ==
  [cmd : {"golden"}, way : {"ok"}, metrics : Metrics, diff : BOOLEAN, baseline : Baselines,
   criteria : {<<>>, [wall_s |-> 23], [err |-> 1]}]
Line(s, m, f) == [stage |-> s, ms |-> m, frame |-> f]
Lines == {Line(s, m, f) : s \in {"capture", "infer"}, m \in {1, 4}, f \in {None, 1}}
Boxes == {[lo |-> b[1], hi |-> b[2]] : b \in {<<0, 2>>, <<0, 4>>, <<1, 3>>, <<3, 4>>}}
Labelled == {[lo |-> b.lo, hi |-> b.hi, label |-> l] : b \in Boxes \ {[lo |-> 3, hi |-> 4]},
                                                        l \in {"car", "van"}}
Reports == [headers : 0..1, summaries : UpTo(2, 0..1)]
Measured ==
  [cmd : {"replay"}, way : OnBoard, status : 0..1]
    \cup [cmd : {"soak"}, way : OnBoard, survived : BOOLEAN]
    \cup [cmd : {"thermal"}, way : OnBoard]
    \cup [cmd : {"nsight"}, way : {"ok"}, ns : [1..4 -> 0..2]]
    \cup [cmd : {"shadow"}, way : {"ok"}, a : UpTo(2, Labelled), b : UpTo(2, Labelled)]
    \cup [cmd : {"latency"}, way : {"ok"}, lines : UpTo(4, Lines), budget : {None, 0, 4, 5}]
    \cup [cmd : {"accuracy"}, way : OnBoard, measured : 0..3, baseline : {None, 2}, tolerance : 0..1]
    \cup [cmd : {"cuda"}, way : {"ok"}, reports : UpTo(2, Reports) \ {<<>>}]
    \cup [cmd : {"score"}, way : OnFile, kind : {"classification", "other"}]
    \cup [cmd : {"score"}, way : {"ok"}, kind : {"detection"}, preds : UpTo(3, Boxes),
          truths : UpTo(2, Boxes)]

\* Campaigns.
Void == NoFigure
Gone == {Lost, Unregistered, Bench(FALSE, Void, Void, Void, Void, Void)}
Fast(l, f, p, a) == Bench(TRUE, l, f, Void, p, a)
Benched == {Fast(l, f, p, a) : l \in {1, 2}, f \in {5, 9}, p \in {Void, 3}, a \in {Void, 1}}
                \cup {Fast(Void, Void, 3, 1)} \cup Gone
Configs == {Bench(TRUE, l, 9, e, Void, a) : l \in {1, 2}, e \in {Void, 1, 2}, a \in {Void, 1, 2}}
             \cup {Bench(TRUE, 1, 5, 1, 2, 1)} \cup Gone
Stacks == {[l4t |-> 1], [l4t |-> 2]}
Campaigns ==
  [cmd : {"select"}, way : {"ok"}, inline : {FALSE}, benches : UpTo(2, Benched),
   limit : [power : {Void, 2, 3}, fps : {Void, 0, 5}, latency : {Void, 1}, accuracy : {Void, 1}]]
    \cup [cmd : {"select"}, way : OnBoard, inline : BOOLEAN, benches : {<<>>},
          limit : {Limit(Void, Void, Void, Void)}]
    \cup [cmd : {"quant"}, way : {"ok", "value"}, benches : UpTo(2, Configs)]
    \cup [cmd : {"quant"}, way : {"ok"}, benches : [1..3 -> Configs \ Gone]]
    \cup [cmd : {"fleet", "differential"}, way : {"ok", "os"}, benches : UpTo(2, Benched),
          stacks : [1..2 -> Stacks]]

\* Knowledge.
Claimed == {Claim(s, w, c[1], c[2]) :
              s \in {[l4t |-> v] : v \in 1..3} \cup [l4t : {1, 3}, trt : {1, 2}], w \in BOOLEAN,
              c \in {<<Full, "lab">>, <<9 * (Full \div 10), "verified">>, <<Full \div 2, "lab">>}}
RuleSets == {[l4t |-> g, trt |-> {}] : g \in {{}, {{1, 2}}, {{1, 2}, {2, 3}}}}
Asserted == [value : 1..2, source : {"empirical", "datasheet_rag", "model_memory", "forum"}]
Counted(runs, passed, loops) == [runs |-> runs, passed |-> passed, loops |-> loops]
Arms == {Counted(0, 0, 0)} \cup {Counted(4, p, l) : p \in 0..4, l \in {0, 2, 4}}
Moves == PartOf({"l4t", "trt"}, 1..2)
Parts == [pins : {<<>>, <<1>>, <<1, 2>>, <<2, 2>>}, addr : {"none", "0x10"}, rail : {"vdd"},
          ma : {0, 3}]
Judged ==
  [cmd : {"query"}, way : {"ok"}, claims : UpTo(2, Claimed), cell : {[l4t |-> 1, trt |-> 1]},
   rules : RuleSets]
    \cup [cmd : {"analyze"}, way : {"ok"}, claims : UpTo(2, Claimed),
          universe : {<<[l4t |-> 1, trt |-> 1], [l4t |-> 3, trt |-> 2], [l4t |-> 2, trt |-> 1]>>},
          rules : RuleSets]
    \cup [cmd : {"ros2-node"}, way : OnFile]
    \cup [cmd : {"skills-eval"}, way : {"ok"}, arms : [with : Arms, without : Arms]]
    \cup [cmd : {"facts"}, way : {"ok", "value"}, facts : UpTo(3, Asserted),
          learned : {<<>>, [forum |-> 9], [forum |-> 2, datasheet_rag |-> 3]}]
    \cup [cmd : {"hw"}, way : {"ok", "os"},
          config : [parts : UpTo(2, Parts), budgets : {<<>>, [vdd |-> 4]}]]

\* Releases, errata, packs, hosts.
Kept ==
  [cmd : {"errata"}, way : {"ok"}, chips : SUBSET {"orin"},
   errata : SUBSET [chip : {"orin", "tx2"}, pattern : {"p"}],
   root : SUBSET [ignored : BOOLEAN, shows : {{}, {"p"}}]]
    \cup [cmd : {"bom"}, way : {"ok", "value"}, limits : [fps : {-1, 5}, power : {-1, 3}, cost : {-1}],
          candidates : UpTo(2, [fps : {-1, 5}, power : {3, 4}, cost : {-1, 7}])]
    \cup [cmd : {"validate"}, way : {"ok", "deepgent"}, goldens : {{}, {"gt-0001"}},
          packs : SUBSET [golden : {"none", "gt-0001"}, status : {"draft", "done"}]]
    \cup [cmd : {"doctor"}, way : {"ok"}, host : SUBSET {"python", "uv", "docker", "settings", "sdk",
                                                          "api_key", "arm64", "binfmt"}]
    \cup [cmd : {"containers"}, way : {"ok"}, target : {"jp6", "jp7"}, host : SUBSET {"docker", "binfmt"},
          docker_build : 0..1, smoke : BOOLEAN, nvcc : 0..1, binary : {"none", "x86", "aarch64"}]
    \cup [cmd : {"versions"}, way : {"ok", "deepgent"}, pinned : {<<1, 2>>},
          tags : SUBSET {NotATag, <<1, 1>>, <<1, 2>>, <<1, 3>>, <<2, 0>>}]

\* The knowledge layer.
Chunk(p) == [provenance |-> p]
Answered ==
  [cmd : {"premortem", "reflect"}, way : OnLayer, tag : {"thermal", "unit_test"},
   tuples : {<<>>, <<"fan">>}, status : {"verified_fail", "verified_pass", "unknown"}]
    \cup [cmd : {"triage"}, way : OnLayer, tuples : {<<>>, <<"fan">>}]
    \cup [cmd : {"driver"}, way : OnLayer]
    \cup [cmd : {"search"}, way : OnLayer,
          result : [shape : {"chunks", "chunk"}, unknown : BOOLEAN, chunks : UpTo(2, {Chunk(TRUE), Chunk(FALSE)})]]
    \cup [cmd : {"upgrade"}, way : {"ok"}, current : [l4t : 1..2, trt : 1..2], proposed : Moves,
          matrix : UNION {[s -> {"verified_pass", "verified_fail"}] : s \in SUBSET [l4t : 1..2, trt : {1}]}]

Requested ==
  /\ scene = "requests" /\ asked = Idle /\ UNCHANGED <<vars, scene>>
  /\ \/ \E q \in Asks : Command(q)
     \/ \E q \in Goldens : Command(q)
     \/ \E q \in Measured : Command(q)
     \/ \E q \in Campaigns : Command(q)
     \/ \E q \in Judged : Command(q)
     \/ \E q \in Kept : Command(q)
     \/ \E q \in Answered : Command(q)

Bisected == scene = "bisects" /\ Next /\ UNCHANGED <<surfaces, scene>>

Over == scene = "requests" /\ asked # Idle /\ UNCHANGED decisions

DecisionsInit ==
  /\ CommandInit /\ Init
  /\ \/ scene = "bisects"
     \/ scene = "requests" /\ passes = [c \in Commits |-> TRUE]

DecisionsSpec == DecisionsInit /\ [][Requested \/ Bisected \/ Over]_decisions

-----------------------------------------------------------------------------
\* Escalation, grants and scope hold for every task, whatever it is about.
IntakeIsSafe ==
  asked.cmd = "task" =>
    /\ EscalationSurvives(asked.text, asked.setup)
    /\ GrantsMatchGate(asked.text, asked.setup)
    /\ ScopeFollowsTask(asked.text, asked.setup)

\* What the knowledge layer says rests on what it was given.
KnowledgeIsSound ==
  CASE asked.cmd = "query" ->
         /\ \A k \in DOMAIN asked.rules : HopsAreEquivalence(asked.rules[k])
         /\ QueryIsGrounded(asked.claims, asked.cell, asked.rules)
         /\ OrderShowsOnlyInConflict(asked.claims, asked.cell, asked.rules)
    [] asked.cmd = "analyze" -> NextIsWorthIt(asked.claims, asked.universe, asked.rules)
    [] asked.cmd = "facts" -> FactsAreArbitrated(asked.facts, asked.learned)
    [] asked.cmd = "skills-eval" -> SkillsEarnTheirPlace(asked.arms)
    [] asked.cmd = "upgrade" -> UpgradeIsVerified(asked.matrix, asked.current, asked.proposed)
    [] asked.cmd = "hw" -> CleanIsClean(asked.config)
    [] asked.cmd = "search" -> GuardKeepsGrounds(asked.result)
    [] asked.cmd \in {"premortem", "reflect"} ->
         AdviceIsGrounded(asked.tag, asked.tuples, asked.status)
    [] OTHER -> TRUE

\* What an evaluation reports follows from what the boards printed.
VerdictsAreEarned ==
  CASE asked.cmd = "latency" ->
         \A perFrame \in 0..2 : LatencyIsAccounted(asked.lines, asked.budget, perFrame)
    [] asked.cmd = "score" /\ asked.kind = "detection" -> PrecisionIsRanked(asked.preds, asked.truths)
    [] asked.cmd = "shadow" -> DiffIsAccounted(asked.a, asked.b)
    [] asked.cmd = "cuda" -> CudaCleanIsEarned(asked.reports)
    [] asked.cmd = "nsight" -> BlameIsFair(asked.ns)
    [] asked.cmd = "golden" ->
         ReviewIsHonest({[passed |-> Scored(asked.metrics, asked.criteria), metrics |-> asked.metrics,
                          baseline |-> asked.baseline]})
    [] asked.cmd = "select" ->
         /\ NothingIsDropped(asked.cmd, asked.benches)
         /\ WinnerMeetsLimits(Rows(asked.cmd, asked.benches).rows, asked.limit)
    [] asked.cmd = "quant" -> FrontierIsSound(Rows(asked.cmd, asked.benches).rows)
    [] asked.cmd = "fleet" -> ClaimsAreMeasured(asked.benches, asked.stacks)
    [] OTHER -> TRUE
=============================================================================
