------------------------------ MODULE Desktop ------------------------------
(***************************************************************************)
(* The desktop's Run Task cockpit (gui/panels/run_task.py) over the bridge  *)
(* from coroutines to Qt signals (gui/async_bridge.py): one event loop runs *)
(* the steps of the task and of the cockpit's looks at the workspace (diff, *)
(* review, tests), whose reading is done in threads; clicks, menu entries   *)
(* and the shortcut for Stop come in between.  Slots of a signal run inside *)
(* the step that emits it.                                                  *)
(***************************************************************************)
EXTENDS Naturals

CONSTANTS
  Looks,     \* what the cockpit can be looking at, "diff" among them
  MaxChange, \* bound: changes the agent makes to the workspace
  MaxDrops   \* bound: runs cancelled before they began

ASSUME DesktopAssumption == "diff" \in Looks /\ "run" \notin Looks /\ {MaxChange, MaxDrops} \subseteq Nat

VARIABLES
  task,    \* the state of each AsyncTask
  enabled, \* is the run button enabled (and the stop button not)
  spin,    \* starts the spinner has not been told the end of
  tree,    \* changes made to the workspace so far
  read,    \* the tree each look's thread has read
  view,    \* the tree each look's view shows
  drops,   \* history: runs cancelled before their first step
  landed,  \* history: the tree when a task last finished
  missed   \* history: looks whose view is not of a tree since then, with a reason

desktop == <<task, enabled, spin, tree, read, view, drops, landed, missed>>

Tasks     == Looks \cup {"run"}
Computing == MaxChange + 1  \* the placeholder of a view
Nothing   == MaxChange + 2  \* a thread that has not read

\* AsyncTask.running: from start until the wrapped task is over.
Running_Started(t) == task[t] = "running"
Running(t) == task[t] # "idle"

DesktopInit ==
  /\ task = [t \in Tasks |-> "idle"] /\ enabled = TRUE /\ spin = 0
  /\ tree = 0 /\ landed = 0 /\ drops = 0 /\ missed = {}
  /\ view = [l \in Looks |-> 0] /\ read = [l \in Looks |-> Nothing]

-----------------------------------------------------------------------------
\* _on_run, from the button (when it is enabled) or from the menu (always).
StartRun(fromMenu) ==
  /\ fromMenu \/ enabled
  /\ ~Running("run")
  /\ task' = [task EXCEPT !["run"] = "scheduled"] /\ spin' = spin + 1
  /\ enabled' = FALSE
  /\ UNCHANGED <<tree, read, view, drops, landed, missed>>

\* _on_stop: a task that has not taken its first step will never take one.
StopRun ==
  /\ task["run"] \in {"scheduled", "running"}
  /\ \/ task["run"] = "running" /\ UNCHANGED drops
     \/ task["run"] = "scheduled" /\ drops < MaxDrops /\ drops' = drops + 1
  /\ task' = [task EXCEPT !["run"] = IF @ = "running" THEN "cancelling" ELSE "dropped"]
  /\ UNCHANGED <<enabled, spin, tree, read, view, landed, missed>>

\* The loop takes the first step of a coroutine.
FirstStep(t) ==
  /\ task[t] = "scheduled"
  /\ task' = [task EXCEPT ![t] = "running"]
  /\ UNCHANGED <<enabled, spin, tree, read, view, drops, landed, missed>>

\* A cancelled task whose _runner never began: no signal is emitted.
Drop ==
  /\ task["run"] = "dropped"
  /\ task' = [task EXCEPT !["run"] = "idle"]
  /\ UNCHANGED <<enabled, spin, tree, read, view, drops, landed, missed>>

\* The agent edits files, also while its cancellation unwinds.
Change ==
  /\ task["run"] \in {"running", "cancelling"} /\ tree < MaxChange
  /\ tree' = tree + 1
  /\ UNCHANGED <<task, enabled, spin, read, view, drops, landed, missed>>

-----------------------------------------------------------------------------
\* A look starts: unless it is already running.
StartLook(t, l) == [t EXCEPT ![l] = "scheduled"]

Look(l) ==
  /\ ~Running(l)
  /\ task' = StartLook(task, l)
  /\ read' = [read EXCEPT ![l] = Nothing] /\ view' = [view EXCEPT ![l] = Computing]
  /\ UNCHANGED <<enabled, spin, tree, drops, landed, missed>>

\* git diff, or the command, in a thread.
ReadTree(l) ==
  /\ task[l] = "running" /\ read[l] = Nothing
  /\ read' = [read EXCEPT ![l] = tree]
  /\ UNCHANGED <<task, enabled, spin, tree, view, drops, landed, missed>>

\* A diff that times out raises, and its view keeps the placeholder.
Shown(l) ==
  /\ task[l] = "running" /\ read[l] # Nothing
  /\ task' = [task EXCEPT ![l] = "idle"]
  /\ \E raised \in BOOLEAN :
       view' = IF raised /\ l = "diff" THEN view ELSE [view EXCEPT ![l] = read[l]]
  /\ UNCHANGED <<enabled, spin, tree, read, drops, landed, missed>>

\* Mutant: done reaches the spinner, but not the panel.
Done_SpinnerOnly == spin' = spin - 1 /\ UNCHANGED enabled

\* done: _on_done and the spinner.
Done == enabled' = TRUE /\ spin' = spin - 1

\* finished, then done: _on_finished refreshes the diff, unless one is being computed.
TaskFinishes ==
  /\ task["run"] = "running"
  /\ landed' = tree
  /\ LET over == [task EXCEPT !["run"] = "idle"] IN
       IF Running("diff")
       THEN task' = over /\ missed' = Looks /\ UNCHANGED <<read, view>>
       ELSE /\ task' = StartLook(over, "diff") /\ missed' = Looks \ {"diff"}
            /\ read' = [read EXCEPT !["diff"] = Nothing]
            /\ view' = [view EXCEPT !["diff"] = Computing]
  /\ Done /\ UNCHANGED <<tree, drops>>

\* failed or cancelled, then done: no view is refreshed.
TaskFails ==
  /\ task["run"] \in {"running", "cancelling"}
  /\ task' = [task EXCEPT !["run"] = "idle"]
  /\ missed' = Looks
  /\ Done /\ UNCHANGED <<tree, read, view, drops, landed>>

LoopStep == Drop \/ \E t \in Tasks : FirstStep(t)
RunEnds  == TaskFinishes \/ TaskFails

DesktopNext ==
  \/ \E fromMenu \in BOOLEAN : StartRun(fromMenu)
  \/ StopRun \/ LoopStep \/ Change \/ RunEnds
  \/ \E l \in Looks : Look(l) \/ ReadTree(l) \/ Shown(l)

-----------------------------------------------------------------------------
\* The run button is never enabled beside a task that is still running, so no click
\* starts a second agent on the same workspace; and the spinner counts exactly the runs
\* nobody has told it the end of.
OneRunAtATime ==
  /\ enabled => ~Running("run")
  /\ spin = drops + (IF task["run"] \in {"idle", "dropped"} THEN 0 ELSE 1)

\* "Show what changed as soon as the task lands": the diff on screen is never older than
\* the last task that finished, except when a diff was already being computed then (it is
\* not started again) or when a later run failed or was stopped.
DiffIsFresh ==
  "diff" \notin missed /\ ~Running("run") /\ view["diff"] # Computing => view["diff"] >= landed

\* A task that has begun gives the panel back whichever way it ends.
PanelSettles == task["run"] \in {"running", "cancelling"} ~> enabled

\* Nothing stays on the loop's hands: also a task cancelled before it began goes away,
\* though the panel is told nothing and its run button stays disabled.
TasksEnd == \A t \in Tasks : Running(t) ~> ~Running(t)

DesktopFairness ==
  /\ \A t \in Tasks : WF_desktop(FirstStep(t))
  /\ WF_desktop(Drop) /\ WF_desktop(RunEnds)
  /\ \A l \in Looks : WF_desktop(ReadTree(l)) /\ WF_desktop(Shown(l))
=============================================================================
