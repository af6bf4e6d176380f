---------------------------- MODULE SharedFiles ----------------------------
(***************************************************************************)
(* The files every deepgent process of a user shares without a lock: the    *)
(* board registry, the golden baselines and the desktop's task history,     *)
(* each loaded, changed and rewritten in place, and the user's config.toml, *)
(* replaced whole by `deepgent setup`, which registers the machine itself   *)
(* in a last, separate step.  A file is small: it is empty from the moment  *)
(* it is opened for writing until it is closed.                             *)
(***************************************************************************)
EXTENDS Naturals, Sequences, HostDetect

CONSTANTS
  Procs,    \* deepgent processes: shells, the desktop, sessions
  Machine,  \* the machine they run on
  Keys,     \* board ids, golden ids or prompts, "local" among them
  Cap,      \* prompts the history keeps (30 in the code)
  MaxEdits  \* bound: edits started

ASSUME FilesAssumption == "local" \in Keys /\ Cap \in Nat \ {0} /\ MaxEdits \in Nat

VARIABLES
  disk,    \* what each rewritten file holds
  torn,    \* files truncated and not (yet) written again
  config,  \* what config.toml says
  job,     \* what each process is doing
  edits,   \* edits started, which also numbers them
  due,     \* history: what each file would hold had its edits run one by one
  clash,   \* history: files two edits overlapped on, or an edit died half-way in
  due_host \* history: how the host block stands with the operator

files == <<disk, torn, config, job, edits, due, clash, due_host>>

Rewritten == {"registry", "baselines", "history"}

\* add_board and register_local_target or update_baseline, remove_board, TaskHistory.add:
\* read, change and rewrite.
Edit(file, op, key) == [file |-> file, op |-> op, key |-> key]
Edits ==
  { Edit("registry", op, k) : op \in {"add", "remove"}, k \in Keys \ {"local"} }
    \cup { Edit("registry", "remove", "local") }
    \cup { Edit("baselines", "put", k) : k \in Keys }
    \cup { Edit("history", "recent", k) : k \in Keys }

Refused(content, e) ==
  \/ e.op = "add" /\ e.key \in DOMAIN content
  \/ e.op = "remove" /\ e.key \notin DOMAIN content

Apply(content, e, n) ==
  CASE e.op \in {"add", "put"} ->
         [k \in DOMAIN content \cup {e.key} |-> IF k = e.key THEN n ELSE content[k]]
    [] e.op = "remove" -> [k \in DOMAIN content \ {e.key} |-> content[k]]
    [] e.op = "recent" ->
         LET items == <<e.key>> \o SelectSeq(content, LAMBDA k : k # e.key)
         IN  SubSeq(items, 1, IF Len(items) > Cap THEN Cap ELSE Len(items))

\* An empty TOML file has no boards and an unreadable history no prompts, but
\* json.loads of an empty baselines file raises.
Unreadable(f) == f = "baselines" /\ f \in torn

NoJob == [step |-> "idle"]
Editing(f) == { p \in Procs : job[p].step \in {"loaded", "opened"} /\ job[p].edit.file = f }

-----------------------------------------------------------------------------
FilesInit ==
  /\ disk = [f \in Rewritten |-> <<>>] /\ due = disk /\ clash = {} /\ torn = {}
  /\ config = [host |-> "none", class |-> "none", default |-> FALSE]
  /\ due_host = [pin |-> "none", raced |-> FALSE, left |-> FALSE]
  /\ job = [p \in Procs |-> NoJob] /\ edits = 0

\* Process p reads the file and decides: it raises, it refuses, or it has an edit to write.
TakeUp(p, e) ==
  /\ edits' = edits + 1
  /\ IF Unreadable(e.file) \/ Refused(disk[e.file], e)
     THEN job' = [job EXCEPT ![p] = NoJob] /\ UNCHANGED clash
     ELSE /\ job' = [job EXCEPT ![p] = [step |-> "loaded", edit |-> e, n |-> edits + 1,
                                        copy |-> disk[e.file]]]
          /\ clash' = IF Editing(e.file) = {} THEN clash ELSE clash \cup {e.file}

Load(p, e) ==
  /\ job[p] = NoJob /\ edits < MaxEdits
  /\ TakeUp(p, e)
  /\ UNCHANGED <<disk, torn, config, due, due_host>>

\* open("wb") or write_text: the old contents are gone before the new are there.
Open(p) ==
  /\ job[p].step = "loaded"
  /\ disk' = [disk EXCEPT ![job[p].edit.file] = <<>>] /\ torn' = torn \cup {job[p].edit.file}
  /\ job' = [job EXCEPT ![p].step = "opened"]
  /\ UNCHANGED <<config, edits, due, clash, due_host>>

Write(p) ==
  /\ job[p].step = "opened"
  /\ LET j == job[p] f == job[p].edit.file IN
       /\ disk' = [disk EXCEPT ![f] = Apply(j.copy, j.edit, j.n)] /\ torn' = torn \ {f}
       /\ due' = [due EXCEPT ![f] = Apply(@, j.edit, j.n)]
       /\ due_host' = IF j.edit = Edit("registry", "remove", "local")
                      THEN [due_host EXCEPT !.left = TRUE] ELSE due_host
  /\ job' = [job EXCEPT ![p] = NoJob]
  /\ UNCHANGED <<config, edits, clash>>

\* TaskHistory.clear takes the file away; who has it open writes to a file without
\* a name.
Clear(p) ==
  /\ job[p] = NoJob /\ edits < MaxEdits /\ edits' = edits + 1
  /\ disk' = [disk EXCEPT !["history"] = <<>>] /\ due' = [due EXCEPT !["history"] = <<>>]
  /\ torn' = torn \ {"history"}
  /\ job' = [q \in Procs |-> IF q \in Editing("history") /\ job[q].step = "opened" THEN NoJob ELSE job[q]]
  /\ clash' = IF Editing("history") = {} THEN clash ELSE clash \cup {"history"}
  /\ UNCHANGED <<config, due_host>>

-----------------------------------------------------------------------------
\* `deepgent setup`: pin what the environment names, apply what was detected,
\* register the local target.
Setup(p, pin, force) ==
  /\ job[p] = NoJob /\ edits < MaxEdits /\ edits' = edits + 1
  /\ job' = [job EXCEPT ![p] = [step |-> IF pin = "none" THEN "apply" ELSE "pin",
                                pin |-> pin, force |-> force]]
  /\ UNCHANGED <<disk, torn, config, due, clash, due_host>>

ReadConfig(p, from, to) ==
  /\ job[p].step = from
  /\ job' = [job EXCEPT ![p] = [step |-> to, pin |-> @.pin, force |-> @.force, copy |-> config]]
  /\ UNCHANGED <<disk, torn, config, edits, due, clash, due_host>>

\* Both writers end in _atomic_write, on the copy they read.
Raced(p) == due_host.raced \/ job[p].copy # config

\* pin_host_override.
PinHost(p) ==
  /\ job[p].step = "pinning"
  /\ config' = [host |-> "pinned", class |-> job[p].pin, default |-> job[p].copy.default]
  /\ due_host' = [due_host EXCEPT !.pin = job[p].pin, !.raced = Raced(p)]
  /\ job' = [job EXCEPT ![p].step = "apply"]
  /\ UNCHANGED <<disk, torn, edits, due, clash>>

\* apply_config keeps a pinned block, and any block unless it is forced.
Keeps_Unforced(copy, force) == copy.host # "none" /\ ~force
Keeps(copy, force) == copy.host = "pinned" \/ (copy.host = "detected" /\ ~force)

ApplyConfig(p) ==
  /\ job[p].step = "applying"
  /\ LET j == job[p] found == DeriveConfig(DetectHost(Machine)) IN
       /\ IF Keeps(j.copy, j.force) THEN UNCHANGED <<config, due_host>>
          ELSE /\ config' = [host |-> "detected", class |-> found.class,
                             default |-> j.copy.default \/ found.local]
               /\ due_host' = [due_host EXCEPT !.raced = Raced(p)]
       /\ job' = [job EXCEPT ![p] = IF found.local THEN [step |-> "register"] ELSE NoJob]
  /\ UNCHANGED <<disk, torn, edits, due, clash>>

RegisterLocal(p) ==
  /\ job[p].step = "register"
  /\ TakeUp(p, Edit("registry", "put", "local"))
  /\ UNCHANGED <<disk, torn, config, due, due_host>>

\* A process dies: what it has truncated stays empty, what it had left to do is not done.
Kill(p) ==
  /\ job[p] # NoJob
  /\ job' = [job EXCEPT ![p] = NoJob]
  /\ clash' = IF job[p].step = "opened" THEN clash \cup {job[p].edit.file} ELSE clash
  /\ due_host' = [due_host EXCEPT !.left = TRUE]
  /\ UNCHANGED <<disk, torn, config, edits, due>>

FilesNext ==
  \E p \in Procs :
    \/ \E e \in Edits : Load(p, e)
    \/ \E pin \in {"none", "jetson"}, force \in BOOLEAN : Setup(p, pin, force)
    \/ Open(p) \/ Write(p) \/ Clear(p) \/ PinHost(p) \/ ApplyConfig(p) \/ RegisterLocal(p) \/ Kill(p)
    \/ ReadConfig(p, "pin", "pinning") \/ ReadConfig(p, "apply", "applying")

-----------------------------------------------------------------------------
\* Edits are lost only where two overlap on a file, or one dies half-way through
\* rewriting it: otherwise every add, remove, baseline and prompt that was written is in
\* the file, and a board is refused only when it is not registered.
EditsSurvive ==
  \A f \in Rewritten : f \notin clash /\ Editing(f) = {} => disk[f] = due[f]

\* The operator's pin outlives every later detection, forced or not, unless one that had
\* read the file before the pin was written replaces it.
PinSurvives ==
  due_host.pin # "none" /\ ~due_host.raced => config.host = "pinned" /\ config.class = due_host.pin

\* The default board the configuration names is registered, once the setup that wrote it
\* is through: not when it died before its last step, nor after `boards remove local`.
DefaultIsRegistered ==
  config.default /\ ~due_host.left /\ "registry" \notin clash
    /\ (\A p \in Procs : job[p] = NoJob) => "local" \in DOMAIN disk["registry"]
=============================================================================
