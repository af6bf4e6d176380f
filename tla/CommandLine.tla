----------------------------- MODULE CommandLine -----------------------------
(***************************************************************************)
(* The two surfaces of deepgent: a command of the CLI (cli/main.py) and the *)
(* MCP tool of the same name (mcp_server.py), given the same request.  An   *)
(* action is one handler: what it calls, which failures it catches, how it  *)
(* ends.                                                                    *)
(*                                                                          *)
(* A request q carries what the handler reads and q.way, the way its calls  *)
(* end: "ok", or what they raise: a ConfigError, another DeepgentError, a   *)
(* ValueError or KeyError, or an OSError.  The task session, the soak and   *)
(* the thermal profile have modules of their own; their outcome is in q.    *)
(***************************************************************************)
EXTENDS Intake, KnowledgeRules, Verdicts, BenchSweep

VARIABLES
  asked,  \* the request
  cli,    \* what the command showed, and its exit code
  mcp     \* what the tool answered, and whether the report in it is a good one

surfaces == <<asked, cli, mcp>>

Own == {"config", "deepgent"}
Files == Own \cup {"value", "os"}
Idle == [cmd |-> "none", way |-> "ok"]

\* _fail, and what typer does with an exception nobody catches.
Ended(q, caught, exit) ==
  IF q.way = "ok" THEN [shows |-> "report", exit |-> exit]
  ELSE [shows |-> IF q.way \in caught THEN "error" ELSE "traceback", exit |-> 1]
Passing(good) == IF good THEN 0 ELSE 1

\* The tools by group: a deterministic one catches nothing, one that needs a
\* board answers a DeepgentError as text.  One that needs the knowledge layer
\* catches all of it but the ConfigError of a layer that is not set up.
Answer(shows, good) == [shows |-> shows, good |-> shows = "report" /\ good]
Deterministic(q, good) == Answer(IF q.way = "ok" THEN "report" ELSE "raised", good)
OnTarget(q, good) ==
  Answer(IF q.way = "ok" THEN "report" ELSE IF q.way \in Own THEN "error" ELSE "raised", good)
Knowing(q, good) ==
  Answer(IF q.way = "ok" THEN "report" ELSE IF q.way = "config" THEN "raised" ELSE "note", good)
NoTool == Answer("no such tool", FALSE)
NoCommand == [shows |-> "no such command", exit |-> None]

Reply(q, c, m) == asked = Idle /\ asked' = q /\ cli' = c /\ mcp' = m

CommandInit ==
  /\ asked = Idle
  /\ cli = [shows |-> "nothing", exit |-> 0] /\ mcp = Answer("nothing", FALSE)

-----------------------------------------------------------------------------
\* Tasks.
RunTask(q) ==
  /\ q.cmd = "task"
  /\ Reply(q, Ended(q, Own, Passing(~q.is_error)), Deterministic(q, ~q.is_error))
CiRun(q) ==
  /\ q.cmd = "ci"
  /\ Reply(q, Ended(q, Own, Passing(~q.is_error)), NoTool)

\* evals run: findings fail it only with --diff, a missing baseline is one.
EvalsRun(q) ==
  /\ q.cmd = "golden"
  /\ LET passed == Scored(q.metrics, q.criteria)
         found == IF q.diff THEN DiffAgainst(q.baseline, passed, q.metrics) ELSE {}
     IN  Reply(q, Ended(q, Own, Passing(passed /\ found = {})), NoTool)

\* Measurements on a board.  The run directory is made inside the try, but an
\* OSError is not caught.
ReplayFixture(q) ==
  /\ q.cmd = "replay"
  /\ Reply(q, Ended(q, Own, Passing(q.status = 0)), OnTarget(q, q.status = 0))
Soak(q) ==
  /\ q.cmd = "soak"
  /\ Reply(q, Ended(q, Own, Passing(q.survived)), OnTarget(q, q.survived))
\* What only reports: the thermal profile, the Nsight profile, shadow mode.
Measure(q) ==
  /\ q.cmd \in {"thermal", "nsight", "shadow"}
  /\ Reply(q, Ended(q, Own, 0), OnTarget(q, TRUE))

\* Only a budget that was exceeded fails it; to the tool 0 is no budget.
OrNone(limit) == IF limit = 0 THEN None ELSE limit
Latency_AnyTrace(q) ==
  /\ q.cmd = "latency"
  /\ Reply(q, Ended(q, Own, Passing(LatencyPassed(q.lines, q.budget) # "none")),
           OnTarget(q, LatencyPassed(q.lines, OrNone(q.budget)) # "fail"))
Latency(q) ==
  /\ q.cmd = "latency"
  /\ Reply(q, Ended(q, Own, Passing(LatencyPassed(q.lines, q.budget) # "fail")),
           OnTarget(q, LatencyPassed(q.lines, OrNone(q.budget)) # "fail"))

AccuracyGate(q) ==
  /\ q.cmd = "accuracy"
  /\ LET good == AccuracyPassed(q.measured, q.baseline, q.tolerance)
     IN  Reply(q, Ended(q, Own, Passing(good)), OnTarget(q, good))

CudaCheck(q) ==
  /\ q.cmd = "cuda"
  /\ Reply(q, Ended(q, Own, Passing(CudaClean(q.reports))), OnTarget(q, CudaClean(q.reports)))

\* Campaigns end in a BoardError when a run they cannot do without is lost.
Campaign(q, kind) == IF Rows(kind, q.benches).persisted THEN q ELSE [q EXCEPT !.way = "deepgent"]
Differential(q) ==
  /\ q.cmd = "differential"
  /\ LET c == Campaign(q, q.cmd) IN Reply(c, Ended(c, Own, 0), OnTarget(c, TRUE))
QuantSweep(q) ==
  /\ q.cmd = "quant"
  /\ LET c == Campaign(q, q.cmd)
     IN  Reply(c, Ended(c, Own \cup {"value"}, 0), OnTarget(c, TRUE))
Fleet(q) ==
  /\ q.cmd = "fleet"
  /\ LET c == Campaign(q, q.cmd) good == AllOk(Rows(q.cmd, q.benches).rows)
     IN  Reply(c, Ended(c, Own, Passing(good)), OnTarget(c, good))
\* The tool takes the candidates inline too: it then makes two run directories,
\* of one name within a second.
SelectTool(q, c, rows) ==
  LET limit == [k \in DOMAIN q.limit |-> OrNone(q.limit[k])]
  IN  IF q.inline THEN Answer("raised", FALSE) ELSE OnTarget(c, SelectWinner(rows, limit) # 0)
SelectModel(q) ==
  /\ q.cmd = "select"
  /\ LET c == Campaign(q, q.cmd)
         rows == Rows(q.cmd, q.benches).rows
     IN  Reply(c, Ended(c, Own, Passing(SelectWinner(rows, q.limit) # 0)), SelectTool(q, c, rows))

-----------------------------------------------------------------------------
\* Judgements on files.
\* A kind the CLI refuses is scored as a classification by the tool.
AccuracyScore(q) ==
  /\ q.cmd = "score"
  /\ LET c == IF q.kind = "other" THEN [q EXCEPT !.way = "deepgent"] ELSE q
     IN  Reply(c, Ended(c, Files, 0), Deterministic(q, TRUE))
MatrixQuery(q) ==
  /\ q.cmd = "query"
  /\ Reply(q, Ended(q, Files, 0), Deterministic(q, TRUE))
MatrixAnalyze(q) ==
  /\ q.cmd = "analyze"
  /\ LET good == Analyze(q.claims, q.universe, q.rules).contradictions = {}
     IN  Reply(q, Ended(q, Files, Passing(good)), Deterministic(q, good))
\* skills-eval, and the generators of ROS 2 nodes and systemd units.
Produce(q) ==
  /\ q.cmd \in {"skills-eval", "ros2-node", "systemd"}
  /\ Reply(q, Ended(q, Files, 0), Deterministic(q, TRUE))
Facts(q) ==
  /\ q.cmd = "facts"
  /\ LET good == ~Arbitrate(q.facts, q.learned).conflict
     IN  Reply(q, Ended(q, Files, Passing(good)), Deterministic(q, good))
HwCheck(q) ==
  /\ q.cmd = "hw"
  /\ Reply(q, Ended(q, Files, Passing(Clean(q.config))), Deterministic(q, Clean(q.config)))
\* The list of errata is read outside of any try.
ErrataScan(q) ==
  /\ q.cmd = "errata"
  /\ LET good == Exposed(q.root, q.errata, q.chips) = {}
     IN  Reply(q, Ended(q, {}, Passing(good)), Deterministic(q, good))
BomTool(q) ==
  /\ q.cmd = "bom"
  /\ Reply(q, NoCommand, Deterministic(q, BomAdvise(q.candidates, q.limits) # <<>>))
SkillsValidate(q) ==
  /\ q.cmd = "validate"
  /\ Reply(q, Ended(q, Own, Passing(~\E p \in q.packs : Blocked(p, q.goldens))), NoTool)
VersionsCheck(q) ==
  /\ q.cmd = "versions"
  /\ Reply(q, Ended(q, Own, IF NewestAbove(q.pinned, q.tags) = {} THEN 0 ELSE 3), NoTool)

-----------------------------------------------------------------------------
\* The machine deepgent runs on, as the set of what is found there.
BuildsArm(host) == host \cap {"arm64", "binfmt"} # {}
RunChecks(host) ==
  [k \in {"python", "uv", "docker", "binfmt", "settings", "sdk", "api_key"} |->
     IF k = "binfmt" THEN BuildsArm(host) ELSE k \in host]
Doctor(q) ==
  /\ q.cmd = "doctor"
  /\ LET good == \A c \in DOMAIN RunChecks(q.host) : RunChecks(q.host)[c]
     IN  Reply(q, Ended(q, {}, Passing(good)), Deterministic(q, good))

\* The toolchain image, and the smoke test: does nvcc in it leave a binary for
\* the board.
Preflight(host) == "docker" \in host /\ BuildsArm(host)
Built(q) == /\ Preflight(q.host) /\ q.docker_build = 0
            /\ q.smoke => q.nvcc = 0 /\ q.binary = "aarch64"
ContainersBuild(q) ==
  /\ q.cmd = "containers"
  /\ LET c == IF q.target = "jp6" /\ Built(q) THEN q ELSE [q EXCEPT !.way = "deepgent"]
     IN  Reply(c, Ended(c, Own, 0), NoTool)

-----------------------------------------------------------------------------
\* Questions to the knowledge layer.
Premortems(q) ==
  /\ q.cmd = "premortem"
  /\ Reply(q, Ended(q, Own, 0), Knowing(q, TRUE))
\* The tool replans without the corpus.
Reflect(q) ==
  /\ q.cmd = "reflect"
  /\ Reply(q, Ended(q, Own, 0), Answer("report", TRUE))
Triage(q) ==
  /\ q.cmd = "triage"
  /\ Reply(q, Ended(q, Own, IF Escalates(q.tuples) THEN 2 ELSE 0), Knowing(q, ~Escalates(q.tuples)))
\* The command moves one component of the pinned stack; the tool takes stacks.
UpgradeCheck(q) ==
  /\ q.cmd = "upgrade"
  /\ LET good == Safe(Impacts(q.matrix, q.current, q.proposed))
     IN  Reply(q, Ended(q, Own, Passing(good)), Knowing(q, good))
RagSearch(q) ==
  /\ q.cmd = "search"
  /\ Reply(q, Ended(q, Own, 0), NoTool)
\* The driver is written after the try.
ScaffoldDriver(q) ==
  /\ q.cmd = "driver"
  /\ Reply(q, Ended(q, Own, 0), Knowing(q, TRUE))

Command(q) ==
  \/ RunTask(q) \/ CiRun(q) \/ EvalsRun(q)
  \/ ReplayFixture(q) \/ Soak(q) \/ Measure(q) \/ Latency(q) \/ AccuracyGate(q) \/ CudaCheck(q)
  \/ Differential(q) \/ QuantSweep(q) \/ Fleet(q) \/ SelectModel(q)
  \/ AccuracyScore(q) \/ MatrixQuery(q) \/ MatrixAnalyze(q) \/ Produce(q) \/ Facts(q)
  \/ HwCheck(q) \/ ErrataScan(q) \/ BomTool(q) \/ SkillsValidate(q)
  \/ VersionsCheck(q) \/ Doctor(q) \/ ContainersBuild(q)
  \/ Premortems(q) \/ Reflect(q) \/ Triage(q) \/ UpgradeCheck(q) \/ RagSearch(q)
  \/ ScaffoldDriver(q)

-----------------------------------------------------------------------------
\* What a good verdict would have to rest on, judged from what was asked and
\* measured rather than the way the code judges it.
Vouched(q) ==
  CASE q.cmd \in {"task", "ci"} -> ~q.is_error
    [] q.cmd = "golden" ->
         /\ \A k \in DOMAIN q.criteria : k \in DOMAIN q.metrics /\ ~(q.metrics[k] > q.criteria[k])
         /\ q.diff => /\ q.baseline # NoBaseline
                      /\ \A k \in Costs \cap DOMAIN q.metrics \cap DOMAIN q.baseline.metrics :
                           q.baseline.metrics[k] > 0 =>
                             100 * q.metrics[k] <= 115 * q.baseline.metrics[k]
    [] q.cmd = "replay" -> q.status = 0
    [] q.cmd = "soak" -> q.survived
    [] q.cmd = "latency" -> q.budget # None =>
         q.lines # <<>> /\ FewOver(FrameTotals(q.lines), q.budget)
    [] q.cmd = "accuracy" -> q.baseline # None => q.measured + q.tolerance >= q.baseline
    [] q.cmd = "cuda" -> \A r \in ToSet(q.reports) :
         r.headers = 0 /\ r.summaries # <<>> /\ \A k \in DOMAIN r.summaries : r.summaries[k] = 0
    [] q.cmd = "fleet" -> q.benches # <<>> /\ \A b \in ToSet(q.benches) : ~Raised(b) /\ b.ok
    [] q.cmd = "select" -> \E b \in ToSet(q.benches) : Meets(b, q.limit)
    [] q.cmd = "analyze" -> \A c, d \in ToSet(q.claims) :
         c.stack = d.stack /\ c.conf = Full /\ d.conf = Full => c.works = d.works
    [] q.cmd = "facts" -> \A f, g \in ToSet(q.facts) : f.value # g.value =>
         \E h \in {f, g} : h.source = "model_memory" \/ Confidence(h.source, q.learned) < 6
    [] q.cmd = "hw" -> CleanIsClean(q.config) /\ Clean(q.config)
    [] q.cmd = "errata" -> \A e \in q.errata, f \in q.root :
         e.chip \in q.chips /\ e.pattern \in f.shows => f.ignored
    [] q.cmd = "validate" -> \A p \in q.packs : p.status \in Done => p.golden \in q.goldens
    [] q.cmd = "doctor" -> /\ Preflight(q.host)
                           /\ {"python", "uv", "settings", "sdk", "api_key"} \subseteq q.host
    [] q.cmd = "containers" -> q.smoke => q.binary = "aarch64" /\ "docker" \in q.host
    [] q.cmd = "versions" -> \A t \in q.tags : t = NotATag \/ ~NewerThan(t, q.pinned)
    [] q.cmd = "triage" -> q.tuples # <<>>
    [] q.cmd = "upgrade" -> Cardinality(Moved(q.current, q.proposed)) <= 1 =>
         LET target == Overlaid(q.current, q.proposed)
         IN  target = q.current \/ Status(q.matrix, target) = "verified_pass"
    [] OTHER -> TRUE
\* Two commands exit with 0 on what nobody judged.  A trace without a stage line
\* meets no budget: the report prints FAIL (latency_trace.py:139-141), the exit
\* code is that of no budget (main.py:559).  A sanitizer that never ran prints no
\* summary, and of several only the first is read (cuda_check.py:91): "failing
\* the gate on any" (5) holds of reports with one summary each.
Unjudged(q) ==
  \/ q.cmd = "latency" /\ q.budget # None /\ q.lines = <<>>
  \/ q.cmd = "cuda" /\ \E r \in ToSet(q.reports) : Len(r.summaries) # 1
ZeroLimits(q) ==
  \/ q.cmd = "latency" /\ q.budget = 0
  \/ q.cmd = "select" /\ \E k \in DOMAIN q.limit : q.limit[k] = 0
\* Exit code 0 means a report was shown and its verdict is a good one, the two
\* commands on what they did not judge apart; 2 and 3 are a miss and an update; a
\* failure never exits as a pass.  The tool never calls good what the command
\* reports and fails, but for limits of 0, which it takes for none.
ExitTellsVerdict ==
  /\ cli.exit = 0 /\ asked # Idle => cli.shows = "report" /\ (Vouched(asked) \/ Unjudged(asked))
  /\ cli.exit = 2 => asked.cmd = "triage" /\ asked.tuples = <<>>
  /\ cli.exit = 3 => asked.cmd = "versions" /\ ~Vouched(asked)
  /\ mcp.good /\ cli.shows = "report" => cli.exit = 0 \/ ZeroLimits(asked)
=============================================================================
