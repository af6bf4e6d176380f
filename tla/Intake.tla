------------------------------- MODULE Intake -------------------------------
(***************************************************************************)
(* What the orchestrator decides about a task before its session runs: its  *)
(* class, risk, specialists and model (core/classifier.py), the agents it   *)
(* loads with their tools (agents/definitions.py), the pre-mortem put in    *)
(* front of the prompt, and whether scope_lock lets the prompt in.          *)
(*                                                                          *)
(* A text is the set of things it matches: rules of the classifier, its     *)
(* markers for C/C++ and for hardware, and scope_lock's domain words and    *)
(* out-of-scope patterns.                                                   *)
(***************************************************************************)
EXTENDS Integers, Sequences, SequencesExt

MAX_SPECIALISTS == 3
SAFETY_AUDITOR == "safety-auditor"

Rule(class, specialists, risk) == [class |-> class, specialists |-> specialists, risk |-> risk]

\* Most specific first.
Rules == <<
  Rule("safety", <<SAFETY_AUDITOR>>, 3),
  Rule("driver", <<"driver-engineer">>, 3),
  Rule("training", <<"perception-engineer", "data-engineer">>, 2),
  Rule("quantization", <<"perception-engineer">>, 2),
  Rule("pipeline", <<"pipeline-engineer">>, 2),
  Rule("perf", <<"profiler">>, 2),
  Rule("debug", <<"triage">>, 2),
  Rule("labeling", <<"data-engineer">>, 2),
  Rule("release", <<"integrator">>, 2)>>

Generic == Rule("generic", <<>>, 1)

\* The first rule a text matches.
Matched(text) ==
  LET hits == {i \in DOMAIN Rules : Rules[i].class \in text}
  IN  IF hits = {} THEN Generic
      ELSE Rules[CHOOSE i \in hits : \A j \in hits : i <= j]

\* No rule names a specialist twice, so _dedupe shows in the auditor alone.
WithAuditor(s) == IF SAFETY_AUDITOR \in ToSet(s) THEN s ELSE Append(s, SAFETY_AUDITOR)
Cut(s) == SubSeq(s, 1, IF Len(s) <= MAX_SPECIALISTS THEN Len(s) ELSE MAX_SPECIALISTS)
AtLeast(a, b) == IF a >= b THEN a ELSE b

ModelTier(specialists) ==
  IF SAFETY_AUDITOR \in ToSet(specialists) \/ Len(specialists) >= 2 THEN "opus" ELSE "sonnet"

\* C and C++ bring in the safety auditor, hardware at least the critic.
Classification_Demotes(text) ==
  LET rule == Matched(text) cpp == "cpp" \in text
      agents == Cut(IF cpp THEN WithAuditor(rule.specialists) ELSE rule.specialists)
  IN  [class |-> rule.class, specialists |-> agents, tier |-> ModelTier(agents),
       risk |-> IF "hardware" \in text THEN 2 ELSE IF cpp THEN 3 ELSE rule.risk]
Classification(text) ==
  LET rule == Matched(text) cpp == "cpp" \in text
      agents == Cut(IF cpp THEN WithAuditor(rule.specialists) ELSE rule.specialists)
  IN  [class |-> rule.class, specialists |-> agents, tier |-> ModelTier(agents),
       risk |-> AtLeast(AtLeast(rule.risk, IF cpp THEN 3 ELSE 1),
                        IF "hardware" \in text THEN 2 ELSE 1)]

-----------------------------------------------------------------------------
\* What the agents are granted.
Coder == {"Read", "Write", "Edit", "Bash", "generators"}
Reviewer == {"Read", "Grep", "Bash"}

Coders == {"perception-engineer", "driver-engineer", "pipeline-engineer", "data-engineer",
           "integrator"}
Reviewers == {"profiler", "triage", SAFETY_AUDITOR}
Core == {"architect", "implementer", "verifier", "researcher", "hardware-runner"}

Granted(agent) ==
  CASE agent = "architect" -> {"Read", "Glob", "Grep", "knowledge"}
    [] agent \in Coders \cup {"implementer"} -> Coder
    [] agent \in Reviewers \cup {"critic"} -> Reviewer
    [] agent = "verifier" -> {"Bash", "Read"}
    [] agent = "researcher" -> {"knowledge", "WebSearch"}
    [] agent = "hardware-runner" -> {"board_farm"}

\* Unknown specialists are ignored; the critic joins from risk 2 on.
SelectAgents(c) ==
  [a \in Core \cup (ToSet(c.specialists) \cap (Coders \cup Reviewers))
           \cup (IF c.risk >= 2 THEN {"critic"} ELSE {}) |-> Granted(a)]

\* What exclusivity_gate lets nobody else use, the main thread excepted.
Owners == [knowledge |-> {"researcher", "architect"}, board_farm |-> {"hardware-runner"}]

-----------------------------------------------------------------------------
\* scope_lock: out of scope is what looks so and shows no word of the domain.
InScope(text) == "domain" \in text \/ "offtopic" \notin text

\* _with_premortem: the risks found, if any, go in front of the task; any
\* failure of the knowledge layer leaves the task as it was.
Prompt(text, setup) ==
  IF setup.enabled /\ setup.knowledge = "up" THEN text \cup setup.risks ELSE text

\* A task submitted: blocked, or run with these agents.
Intake(text, setup) ==
  LET c == Classification(text)
  IN  [c |-> c, agents |-> SelectAgents(c), runs |-> InScope(Prompt(text, setup))]

-----------------------------------------------------------------------------
\* Whatever else a task is about: C, C++ and firmware get the auditor, the
\* strongest model and the critic, hardware gets the critic, and no cut drops
\* them.  Every specialist asked for is loaded.
EscalationSurvives(text, setup) ==
  LET t == Intake(text, setup) IN
    /\ "cpp" \in text =>
         /\ SAFETY_AUDITOR \in DOMAIN t.agents /\ "critic" \in DOMAIN t.agents
         /\ t.c.risk = 3 /\ t.c.tier = "opus"
    /\ "hardware" \in text => "critic" \in DOMAIN t.agents
    /\ ToSet(t.c.specialists) \subseteq DOMAIN t.agents

\* The grants agree with the gate: no loaded agent is granted a tool it would
\* be denied, and whoever is denied one finds its owner loaded.
GrantsMatchGate(text, setup) ==
  LET agents == Intake(text, setup).agents IN
    \A tool \in DOMAIN Owners :
      /\ \A a \in DOMAIN agents : tool \in agents[a] => a \in Owners[tool]
      /\ \E a \in Owners[tool] : a \in DOMAIN agents /\ tool \in agents[a]

\* A task of the domain always runs, and the pre-mortem changes no verdict
\* unless the risks it found match a scope word themselves.
ScopeFollowsTask(text, setup) ==
  /\ "domain" \in text => Intake(text, setup).runs
  /\ setup.risks \cap {"domain", "offtopic"} = {} => Intake(text, setup).runs = InScope(text)
=============================================================================
