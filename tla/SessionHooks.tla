---------------------------- MODULE SessionHooks ----------------------------
(***************************************************************************)
(* hooks/: what build_hooks registers on a session, run against tool calls  *)
(* several agents make at once.  Before a call exclusivity_gate and         *)
(* safety_gate judge it, each on its own; after it misra_gate analyses what *)
(* a write left on disk and fact_guard, cuda_gate and budget_guard answer   *)
(* the agent; after a failed call reflexion_tap replans and telemetry_tap   *)
(* records.  The budget guard is in TaskSession.                            *)
(*                                                                          *)
(* One C source file stands for the gated files and one board for the       *)
(* boards; the order deny, ask, allow in which the SDK merges what the      *)
(* PreToolUse hooks return is external.                                     *)
(***************************************************************************)
EXTENDS TelemetryStore

CONSTANTS
  Tools,     \* tools the agents use
  Calls,     \* slots for tool calls in flight
  MaxWrites  \* bound: writes of the file

Agents == {"main", "researcher", "architect", "hardware-runner", "implementer"}
\* Tools, with what gated_op_tag makes of them: an exec is tagged by its command.
Tag == [exec |-> "none", restart |-> "daemon-restart", wipe |-> "fs-destructive",
        power |-> "power", retrieve |-> "none", write |-> "none", remove |-> "none"]
BoardTools == {"exec", "restart", "wipe", "power"}
OpTags == {"daemon-restart", "fs-destructive", "power"}

ASSUME HooksAssumption == Tools \subseteq DOMAIN Tag /\ MaxWrites \in Nat

VARIABLES
  ci,      \* settings.ci
  allow,   \* tags .deepgent/gates.toml allows for the board
  call,    \* the calls
  content, \* of the C file: clean, dirty (it breaks a rule) or gone
  writes,  \* times it was written
  answer   \* what misra_gate answered to each write

hooks == <<ci, allow, call, content, writes, answer>>
all == <<store, hooks>>

NoCall == [st |-> "idle", agent |-> "main", tool |-> "exec", ver |-> 0, saw |-> "none"]

-----------------------------------------------------------------------------
\* exclusivity_gate: the main thread is not held to it, nor anybody else to
\* tools without an owner.
Exclusive(agent, tool) ==
  \/ agent = "main"
  \/ /\ tool = "retrieve" => agent \in {"researcher", "architect"}
     /\ tool \in BoardTools => agent = "hardware-runner"

\* safety_gate: an untagged call passes, a whitelisted one is allowed, CI
\* denies the rest and a session with a user asks.
Safety(tool) ==
  IF Tag[tool] = "none" THEN "pass"
  ELSE IF Tag[tool] \in allow THEN "allow"
  ELSE IF ci THEN "deny" ELSE "ask"

Judged(agent, tool) == IF ~Exclusive(agent, tool) THEN "deny" ELSE Safety(tool)

HooksInit ==
  /\ StoreInit
  /\ ci \in BOOLEAN /\ allow = {}
  /\ call = [c \in Calls |-> NoCall]
  /\ content = "clean" /\ writes = 0 /\ answer = <<>>

\* PreToolUse.
Ask(c, agent, tool) ==
  /\ call[c].st = "idle"
  /\ LET judged == Judged(agent, tool) IN
       /\ judged # "deny"
       /\ call' = [call EXCEPT ![c] =
            [NoCall EXCEPT !.st = IF judged = "ask" THEN "asked" ELSE "go",
                           !.agent = agent, !.tool = tool]]
  /\ UNCHANGED <<store, ci, allow, content, writes, answer>>

Approve(c) ==
  /\ call[c].st = "asked"
  /\ call' = [call EXCEPT ![c].st = "go"]
  /\ UNCHANGED <<store, ci, allow, content, writes, answer>>
Reject(c) ==
  /\ call[c].st = "asked"
  /\ call' = [call EXCEPT ![c] = NoCall]
  /\ UNCHANGED <<store, ci, allow, content, writes, answer>>

\* The owner edits gates.toml, which every check reads anew.
EditGates ==
  /\ \E t \in OpTags : allow' \in {allow \cup {t}, allow \ {t}}
  /\ UNCHANGED <<store, ci, call, content, writes, answer>>

-----------------------------------------------------------------------------
\* The call runs and succeeds.
Execute(c) ==
  /\ call[c].st = "go"
  /\ IF call[c].tool = "write"
       THEN /\ writes < MaxWrites
            /\ content' \in {"clean", "dirty"}
            /\ writes' = writes + 1
            /\ answer' = Append(answer, "none")
            /\ call' = [call EXCEPT ![c].st = "post", ![c].ver = writes']
       ELSE /\ content' = IF call[c].tool = "remove" THEN "gone" ELSE content
            /\ call' = [call EXCEPT ![c] = NoCall]
            /\ UNCHANGED <<writes, answer>>
  /\ UNCHANGED <<store, ci, allow>>

\* PostToolUseFailure: reflexion_tap answers with a replan for the class of the
\* failure, telemetry_tap records it under that class.
Fail(c, id, matches, interrupt) ==
  /\ call[c].st = "go"
  /\ RecordFailure(id, matches, interrupt)
  /\ call' = [call EXCEPT ![c] = NoCall]
  /\ UNCHANGED <<ci, allow, content, writes, answer>>

\* misra_gate after a write: a file that is gone is not gated; otherwise the
\* analyzers read it at some moment of their run, and print no finding about a
\* file that went in the meantime.  Or the run fails, or one of the two in it,
\* and whatever is in the file prints no finding either.
Skip(c) ==
  /\ call[c].st = "post" /\ content = "gone"
  /\ call' = [call EXCEPT ![c] = NoCall]
  /\ UNCHANGED <<store, ci, allow, content, writes, answer>>
Analyse(c) ==
  /\ call[c].st = "post"
  /\ \E seen \in {content, "nothing"} :
       call' = [call EXCEPT ![c].st = "read", ![c].saw = seen]
  /\ UNCHANGED <<store, ci, allow, content, writes, answer>>

\* It blocks on findings, and when docker or the image is missing or the analysis
\* times out.  The return code is not looked at: without a finding the answer is
\* {}, "clean" when the file was analysed and "waved" when it was not.
Unblocked(saw) ==
  CASE saw \in {"clean", "gone"} -> {"clean"} [] saw = "nothing" -> {"waved"} [] OTHER -> {}
Verdict_FailOpen(c) ==
  /\ call[c].st \in {"post", "read"}
  /\ answer' = [answer EXCEPT ![call[c].ver] = IF call[c].saw = "dirty" THEN "blocked" ELSE "clean"]
  /\ call' = [call EXCEPT ![c] = NoCall]
  /\ UNCHANGED <<store, ci, allow, content, writes>>
Verdict(c) ==
  /\ call[c].st \in {"post", "read"}
  /\ \E v \in {"blocked"} \cup Unblocked(call[c].saw) :
       answer' = [answer EXCEPT ![call[c].ver] = v]
  /\ call' = [call EXCEPT ![c] = NoCall]
  /\ UNCHANGED <<store, ci, allow, content, writes>>

\* Stop, and the end of the task it belongs to.
Stop(id) == DraftCandidate(id) /\ UNCHANGED hooks
TaskEnds(id, n, audit, billed, outcome) ==
  RecordTask(id, n, audit, billed, outcome) /\ UNCHANGED hooks

Callback(c) ==
  \/ \E agent \in Agents, tool \in Tools : Ask(c, agent, tool)
  \/ Approve(c) \/ Reject(c) \/ Execute(c) \/ Skip(c) \/ Analyse(c) \/ Verdict(c)
  \/ \E id \in Sessions, matches \in SUBSET Tags, interrupt \in BOOLEAN :
       Fail(c, id, matches, interrupt)
AtTheEnd(id) ==
  \/ Stop(id)
  \/ \E n \in Spends, audit \in Audits, billed \in BOOLEAN :
       TaskEnds(id, n, audit, billed, "success") \/ TaskEnds(id, n, 0, billed, "error")
HooksNext == (\E c \in Calls : Callback(c)) \/ EditGates \/ (\E id \in Sessions : AtTheEnd(id))

HooksSpec == HooksInit /\ [][HooksNext]_all

-----------------------------------------------------------------------------
Quiet == \A c \in Calls : call[c].st \notin {"post", "read"}

\* Several agents write the file while others' analyses of it run: when the
\* newest write was answered clean after an analysis the file is clean, and when
\* no analysis runs any more the newest write has an answer or the file is gone.
VerdictIsCurrent ==
  writes > 0 =>
    /\ answer[writes] = "clean" => content \in {"clean", "gone"}
    /\ Quiet => answer[writes] # "none" \/ content = "gone"

\* "Fail-closed: if the analysis cannot run, the write is blocked with the
\* reason, never silently waved through" (misra_gate.py:6-7).
GateFailsClosed == \A i \in DOMAIN answer : answer[i] # "waved"
=============================================================================
