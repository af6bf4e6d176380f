---------------------------- MODULE GoldenBisect ----------------------------
(***************************************************************************)
(* evals/bisect.py as its callers run it (the command of cli/main.py and    *)
(* the tool of mcp_server.py): a binary search over the commits between a   *)
(* known good and a known bad one, with a golden as the predicate.  Every   *)
(* probe checks its commit out in the project's one working tree, and the   *)
(* golden then runs on whatever that tree holds, which a second bisect of   *)
(* the project may have changed.  Commits are numbered along the history;   *)
(* the branch is at the last of them.                                       *)
(***************************************************************************)
EXTENDS Integers, Sequences

CONSTANTS
  Bisects,  \* bisects of this project, each a process or a tool call
  Newest    \* the newest commit; the oldest is 0

ASSUME BisectAssumption == Newest \in Nat

VARIABLES
  tree,      \* what git checkout last put into the working tree
  passes,    \* the golden's verdict on each commit
  pc,        \* where each bisect is
  candidates,\* the commits it searches, the claimed good and bad ones at the ends
  good,      \* bisect()'s good, counted from 1
  bad,       \* bisect()'s bad, counted from 1
  steps,     \* result.steps
  original,  \* the branch it found, or HEAD
  answer,    \* the place of result.first_bad
  disturbed  \* the tree was changed under one of its goldens

vars == <<tree, passes, pc, candidates, good, bad, steps, original, answer, disturbed>>

Commits == 0 .. Newest
Active(b) == pc[b] \in {"search", "golden"}

\* What git has checked out: the branch, or a commit with a detached HEAD.
OnBranch == [commit |-> Newest, head |-> "branch"]
Detached(c) == [commit |-> c, head |-> "HEAD"]

\* The good end, git rev-list good..bad, and the bad end unless it is listed
\* last under the same name: an end given by a branch's name occurs twice, and
\* an end that is no descendant of the good one is appended too.
Candidates_NewestFirst(from, to, named) ==
  LET listed == IF from < to THEN to - from ELSE 0
  IN [i \in 1 .. 2 + listed |-> IF i = 1 THEN from ELSE IF i = 2 + listed THEN to ELSE to + 2 - i]
Candidates(from, to, named) ==
  LET listed == IF from < to THEN to - from ELSE 0
      extra == IF named \/ to < from THEN 1 ELSE 0
  IN [i \in 1 .. 1 + listed + extra |-> IF i <= 1 + listed THEN from + i - 1 ELSE to]

Init ==
  /\ tree = OnBranch /\ passes \in [Commits -> BOOLEAN]
  /\ pc = [b \in Bisects |-> "idle"]
  /\ candidates = [b \in Bisects |-> <<>>]
  /\ good = [b \in Bisects |-> 0] /\ bad = [b \in Bisects |-> 0]
  /\ steps = [b \in Bisects |-> <<>>]
  /\ original = [b \in Bisects |-> "unread"]
  /\ answer = [b \in Bisects |-> 0]
  /\ disturbed = [b \in Bisects |-> FALSE]

-----------------------------------------------------------------------------
\* The commits are listed, the current branch is noted and the search begins.
Begin(b, from, to, named) ==
  LET list == Candidates(from, to, named) IN
    /\ pc[b] = "idle" /\ Len(list) >= 2
    /\ candidates' = [candidates EXCEPT ![b] = list]
    /\ good' = [good EXCEPT ![b] = 1] /\ bad' = [bad EXCEPT ![b] = Len(list)]
    /\ original' = [original EXCEPT ![b] = tree.head]
    /\ pc' = [pc EXCEPT ![b] = "search"]
    /\ UNCHANGED <<tree, passes, steps, answer, disturbed>>

\* The commits cannot be listed, or there is one candidate only.
Refused(b) ==
  /\ pc[b] = "idle" /\ pc' = [pc EXCEPT ![b] = "error"]
  /\ UNCHANGED <<tree, passes, candidates, good, bad, steps, original, answer, disturbed>>

\* b changes the tree: goldens of others that are running notice.
TreeMoves(b, to) ==
  /\ tree' = to
  /\ disturbed' = [o \in Bisects |-> disturbed[o] \/ (o # b /\ pc[o] = "golden" /\ to.commit # tree.commit)]

Mid_Linear(b) == good[b] + 1
Mid(b) == (good[b] + bad[b]) \div 2

Checkout(b) ==
  /\ pc[b] = "search" /\ bad[b] - good[b] > 1
  /\ TreeMoves(b, Detached(candidates[b][Mid(b)]))
  /\ pc' = [pc EXCEPT ![b] = "golden"]
  /\ UNCHANGED <<passes, candidates, good, bad, steps, original, answer>>

\* The golden has run on the tree as it is: one side of the range is closed.
Probe_Beyond(b) ==
  LET passed == passes[tree.commit] IN
    /\ pc[b] = "golden"
    /\ steps' = [steps EXCEPT ![b] = Append(@, [at |-> Mid(b), passed |-> passed])]
    /\ good' = IF passed THEN [good EXCEPT ![b] = Mid(b) + 1] ELSE good
    /\ bad' = IF passed THEN bad ELSE [bad EXCEPT ![b] = Mid(b)]
    /\ pc' = [pc EXCEPT ![b] = "search"]
    /\ UNCHANGED <<tree, passes, candidates, original, answer, disturbed>>
Probe(b) ==
  LET passed == passes[tree.commit] IN
    /\ pc[b] = "golden"
    /\ steps' = [steps EXCEPT ![b] = Append(@, [at |-> Mid(b), passed |-> passed])]
    /\ good' = IF passed THEN [good EXCEPT ![b] = Mid(b)] ELSE good
    /\ bad' = IF passed THEN bad ELSE [bad EXCEPT ![b] = Mid(b)]
    /\ pc' = [pc EXCEPT ![b] = "search"]
    /\ UNCHANGED <<tree, passes, candidates, original, answer, disturbed>>

\* The finally block, on every way out; a branch that could be left can be
\* checked out again.
Leave_Done(b, how) ==
  /\ TreeMoves(b, IF original[b] = "HEAD" \/ how # "done" THEN tree ELSE OnBranch)
  /\ pc' = [pc EXCEPT ![b] = how]
  /\ UNCHANGED <<passes, candidates, good, bad, steps, original>>
Leave(b, how) ==
  /\ TreeMoves(b, IF original[b] = "HEAD" THEN tree ELSE OnBranch)
  /\ pc' = [pc EXCEPT ![b] = how]
  /\ UNCHANGED <<passes, candidates, good, bad, steps, original>>

Report(b) ==
  /\ pc[b] = "search" /\ bad[b] - good[b] <= 1
  /\ answer' = [answer EXCEPT ![b] = bad[b]]
  /\ Leave(b, "done")

\* git refuses a checkout (raised); the golden is missing at the commit or its
\* board fails (error), its run directory exists or the call is cancelled
\* (raised).
Aborts(b, how) ==
  /\ \/ pc[b] = "search" /\ bad[b] - good[b] > 1 /\ how = "raised"
     \/ pc[b] = "golden"
  /\ Leave(b, how) /\ UNCHANGED answer

\* The process is killed: no finally block runs.
Dies(b) ==
  /\ Active(b) /\ pc' = [pc EXCEPT ![b] = "dead"]
  /\ UNCHANGED <<tree, passes, candidates, good, bad, steps, original, answer, disturbed>>

BisectStep(b) ==
  \/ \E from, to \in Commits, named \in BOOLEAN : Begin(b, from, to, named)
  \/ Refused(b) \/ Checkout(b) \/ Probe(b) \/ Report(b) \/ Dies(b)
  \/ \E how \in {"error", "raised"} : Aborts(b, how)

AllEnded == \A b \in Bisects : pc[b] \notin {"idle", "search", "golden"}

Next ==
  \/ \E b \in Bisects : BisectStep(b)
  \/ AllEnded /\ UNCHANGED vars

Spec == Init /\ [][Next]_vars

-----------------------------------------------------------------------------
TypeOK ==
  /\ tree \in {OnBranch} \cup {Detached(c) : c \in Commits} /\ passes \in [Commits -> BOOLEAN]
  /\ pc \in [Bisects -> {"idle", "search", "golden", "done", "error", "raised", "dead"}]
  /\ candidates \in [Bisects -> Seq(Commits)]
  /\ good \in [Bisects -> Nat] /\ bad \in [Bisects -> Nat] /\ answer \in [Bisects -> Nat]
  /\ steps \in [Bisects -> Seq([at : Nat, passed : BOOLEAN])]
  /\ original \in [Bisects -> {"unread", "branch", "HEAD"}]
  /\ disturbed \in [Bisects -> BOOLEAN]

Recorded(b, i, verdict) == \E k \in 1 .. Len(steps[b]) : steps[b][k] = [at |-> i, passed |-> verdict]

\* The report names two neighbours: the breaking change failed its probe or is
\* the trusted bad end, and the one before it passed or is the trusted good
\* end, whatever other bisects did (bisect.py:10-12).
BoundaryIsProbed ==
  \A b \in Bisects : answer[b] # 0 =>
    /\ answer[b] = Len(candidates[b]) \/ Recorded(b, answer[b], FALSE)
    /\ answer[b] = 2 \/ Recorded(b, answer[b] - 1, TRUE)

\* Given a good commit and a bad descendant of it, a bisect whose goldens ran
\* on the commits it checked out names a commit that fails the golden next
\* after one that passes.
AnswerIsTrue ==
  \A b \in Bisects :
    LET list == candidates[b] first == answer[b] IN
      /\ first # 0 /\ ~disturbed[b] /\ list[1] < list[Len(list)]
      /\ passes[list[1]] /\ ~passes[list[Len(list)]]
      => list[first] = list[first - 1] + 1 /\ ~passes[list[first]] /\ passes[list[first - 1]]

\* "Find the first failing candidate in O(log n) predicate runs" (bisect.py:64):
\* no search probes more often than halving the range takes.
ProbesAreFew ==
  \A b \in Bisects : steps[b] # <<>> => 2 ^ (Len(steps[b]) - 1) < Len(candidates[b]) - 1

\* The working tree is away from its branch only while a bisect is under way,
\* or after one that was killed or that found it so (main.py:396).
BranchComesBack ==
  tree # OnBranch =>
    \E b \in Bisects : Active(b) \/ pc[b] = "dead" \/ original[b] = "HEAD"
=============================================================================
