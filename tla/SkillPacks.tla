----------------------------- MODULE SkillPacks -----------------------------
(***************************************************************************)
(* Skill packs: drafted from themes of the failure corpus                   *)
(* (knowledge/skill_author.py), reviewed by a person, and copied by every   *)
(* session that starts into the project's .claude/skills                    *)
(* (knowledge/skills.py), pack by pack and with no lock, also when two      *)
(* sessions start in one project.                                           *)
(*                                                                          *)
(* Which themes `skills author` drafts is left open: its tuples are the     *)
(* approved ones or all of them (--include-unapproved), or come from a file *)
(* (--from), and --min-cluster says how many make a theme.                  *)
(***************************************************************************)
EXTENDS Naturals, Sequences, FiniteSets, SequencesExt

CONSTANTS
  Themes,   \* what the first salient word of a symptom can be
  Starting, \* sessions that start in the project
  Parts,    \* files of a reviewed pack
  MaxTurns  \* bound: changes to skills/

Main == "SKILL.md"

ASSUME PacksAssumption == Main \in Parts /\ MaxTurns \in Nat

VARIABLES
  source, \* skills/: directories and what their files hold
  copies, \* .claude/skills/: what was copied there
  author, \* the drafts `skills author` has left to write, and the one it writes
  turns,  \* changes to skills/ so far
  syncer, \* where each starting session stands
  broken  \* history: copies a session failed or died at, and none has made whole since

packs == <<source, copies, author, turns, syncer, broken>>

Reviewed(theme) == <<theme, "corpus">>        \* a directory a person made of a draft
Draft(theme)    == <<theme, "corpus", "draft">>
IsDraft(dir)    == Len(dir) = 3

Pack == [f \in Parts |-> "reviewed"]
Whole == [f \in {Main} |-> "draft"]
Cut == [f \in {Main} |-> "torn"]

NotSyncing == [step |-> "idle"]
NotWriting == [todo |-> {}, at |-> {}]

\* A checkout has some packs already.
PacksInit ==
  /\ \E had \in SUBSET Themes :
       IsFiniteSet(had) /\ source = [d \in {Reviewed(t) : t \in had} |-> Pack]
  /\ copies = <<>> /\ author = NotWriting /\ turns = 0
  /\ syncer = [s \in Starting |-> NotSyncing] /\ broken = {}

Held(dir, texts) == [d \in DOMAIN source \cup {dir} |-> IF d = dir THEN texts ELSE source[d]]

\* History: a session learns that another synced beside it, or that the packs
\* changed under it.
Disturbed(s) == IF syncer[s] = NotSyncing THEN NotSyncing ELSE [syncer[s] EXCEPT !.disturbed = TRUE]
Changes(new) ==
  /\ turns < MaxTurns /\ turns' = turns + 1 /\ source' = new
  /\ syncer' = [s \in Starting |-> Disturbed(s)] /\ UNCHANGED <<copies, broken>>

-----------------------------------------------------------------------------
\* skills author: draft_skill_candidates makes each draft's directory, empties
\* its SKILL.md by opening it, and writes it; it may die in between.
Author(themes) ==
  /\ author = NotWriting /\ themes # {}
  /\ author' = [todo |-> themes, at |-> {}] /\ UNCHANGED <<source, copies, turns, syncer, broken>>

OpenDraft(theme) ==
  /\ author.at = {} /\ theme \in author.todo
  /\ Changes(Held(Draft(theme), Cut))
  /\ author' = [todo |-> author.todo \ {theme}, at |-> {theme}]

WriteDraft(theme) ==
  /\ theme \in author.at
  /\ Changes(Held(Draft(theme), Whole)) /\ author' = [author EXCEPT !.at = {}]

AuthorDies == author' = NotWriting /\ UNCHANGED <<source, copies, turns, syncer, broken>>

\* A person reviews a draft into a pack.
Review(theme) ==
  /\ Draft(theme) \in DOMAIN source /\ source[Draft(theme)] = Whole
  /\ LET rest == DOMAIN source \ {Draft(theme)} IN
       Changes([d \in rest \cup {Reviewed(theme)} |-> IF d = Reviewed(theme) THEN Pack ELSE source[d]])
  /\ UNCHANGED author

-----------------------------------------------------------------------------
\* sync_skills: list_skills reads every SKILL.md, drafts and all, and raises on a
\* torn one; then the packs are replaced one by one.
Dir(s) == syncer[s].dirs[syncer[s].at]
AtWork(s) == syncer[s].step \in {"emptied", "removed", "copying"}
Syncing(s) == AtWork(s) \/ syncer[s].step = "next"

StartSync(s) ==
  /\ syncer[s] = NotSyncing
  /\ LET cut == \E d \in DOMAIN source : source[d] = Cut IN
       syncer' = [r \in Starting |->
         IF r # s THEN Disturbed(r)
         ELSE IF cut THEN [step |-> "refused", disturbed |-> FALSE]
         ELSE [step |-> "next", dirs |-> SetToSeq(DOMAIN source), at |-> 1, left |-> {},
               missed |-> FALSE, disturbed |-> \E o \in Starting : Syncing(o)]]
  /\ UNCHANGED <<source, copies, author, turns, broken>>

Reaches(s, step) == syncer' = [syncer EXCEPT ![s].step = step] /\ UNCHANGED broken
Ended(s, step) == [step |-> step, disturbed |-> syncer[s].disturbed]
Fails(s) == syncer' = [syncer EXCEPT ![s] = Ended(s, "failed")] /\ broken' = broken \cup {Dir(s)}

\* rmtree, if there is a copy: its files go, then the directory, unless it is
\* gone or something was put there again.
RmFiles_Skipped(s) ==
  /\ syncer[s].step = "next" /\ syncer[s].at <= Len(syncer[s].dirs)
  /\ Reaches(s, "removed") /\ UNCHANGED <<source, copies, author, turns>>
RmFiles(s) ==
  /\ syncer[s].step = "next" /\ syncer[s].at <= Len(syncer[s].dirs)
  /\ IF Dir(s) \in DOMAIN copies
     THEN copies' = [copies EXCEPT ![Dir(s)] = <<>>] /\ Reaches(s, "emptied")
     ELSE Reaches(s, "removed") /\ UNCHANGED copies
  /\ UNCHANGED <<source, author, turns>>

RmDir(s) ==
  /\ syncer[s].step = "emptied"
  /\ IF Dir(s) \in DOMAIN copies /\ copies[Dir(s)] = <<>>
     THEN copies' = [d \in DOMAIN copies \ {Dir(s)} |-> copies[d]] /\ Reaches(s, "removed")
     ELSE Fails(s) /\ UNCHANGED copies
  /\ UNCHANGED <<source, author, turns>>

\* copytree: it raises when its source is gone or the directory back, copies
\* file by file, and raises in the end if one could not be copied.
MakeDir(s) ==
  /\ syncer[s].step = "removed"
  /\ IF Dir(s) \in DOMAIN copies \/ Dir(s) \notin DOMAIN source
     THEN Fails(s) /\ UNCHANGED copies
     ELSE /\ copies' = [d \in DOMAIN copies \cup {Dir(s)} |-> IF d = Dir(s) THEN <<>> ELSE copies[d]]
          /\ syncer' = [syncer EXCEPT ![s].step = "copying", ![s].left = DOMAIN source[Dir(s)],
                                      ![s].missed = FALSE]
          /\ UNCHANGED broken
  /\ UNCHANGED <<source, author, turns>>

CopyFile(s) ==
  /\ syncer[s].step = "copying"
  /\ \E f \in syncer[s].left : LET d == Dir(s) IN
       IF d \in DOMAIN copies /\ d \in DOMAIN source
       THEN /\ copies' = [copies EXCEPT ![d] =
                            [g \in DOMAIN @ \cup {f} |-> IF g = f THEN source[d][f] ELSE @[g]]]
            /\ syncer' = [syncer EXCEPT ![s].left = @ \ {f}]
       ELSE syncer' = [syncer EXCEPT ![s].left = @ \ {f}, ![s].missed = TRUE] /\ UNCHANGED copies
  /\ UNCHANGED <<source, author, turns, broken>>

Copied(s) ==
  /\ syncer[s].step = "copying" /\ syncer[s].left = {}
  /\ IF syncer[s].missed THEN Fails(s)
     ELSE /\ syncer' = [syncer EXCEPT ![s].step = "next", ![s].at = @ + 1]
          /\ broken' = IF Dir(s) \in DOMAIN copies /\ copies[Dir(s)] = Pack
                       THEN broken \ {Dir(s)} ELSE broken
  /\ UNCHANGED <<source, copies, author, turns>>

EndSync(s) ==
  /\ syncer[s].step = "next" /\ syncer[s].at > Len(syncer[s].dirs)
  /\ Reaches(s, "synced") /\ UNCHANGED <<source, copies, author, turns>>

\* The session goes on, fails to start, or dies; another one starts in its place.
Leave(s) ==
  /\ syncer[s] # NotSyncing /\ syncer' = [syncer EXCEPT ![s] = NotSyncing]
  /\ broken' = IF AtWork(s) THEN broken \cup {Dir(s)} ELSE broken
  /\ UNCHANGED <<source, copies, author, turns>>

PacksNext ==
  \/ \E themes \in SUBSET Themes : Author(themes)
  \/ \E t \in Themes : OpenDraft(t) \/ WriteDraft(t) \/ Review(t)
  \/ AuthorDies
  \/ \E s \in Starting :
       \/ StartSync(s) \/ RmFiles(s) \/ RmDir(s) \/ MakeDir(s) \/ CopyFile(s) \/ Copied(s)
       \/ EndSync(s) \/ Leave(s)

-----------------------------------------------------------------------------
\* "Draft directories are suffixed so they never shadow reviewed packs"
\* (skill_author.py:102-103): whatever is drafted, and wherever the author dies, a
\* pack a person reviewed stays as it was.  That is said of directories: the
\* draft's frontmatter has the reviewed pack's name (85), and every session gets
\* the drafts too (orchestrator.py:229).
DraftsDoNotShadow == \A d \in DOMAIN source : ~IsDraft(d) => source[d] = Pack

\* A session beside which no other synced, and under which no pack changed, is
\* refused only over a torn draft, does not fail, and ends with a copy of every
\* pack as it is, whatever a session that died half-way had left in the project.
SyncIsWhole ==
  \A s \in Starting :
    syncer[s] # NotSyncing /\ ~syncer[s].disturbed =>
      /\ syncer[s].step # "failed"
      /\ syncer[s].step = "refused" => \E d \in DOMAIN source : source[d] = Cut
      /\ syncer[s].step = "synced" =>
           \A i \in DOMAIN syncer[s].dirs :
             LET d == syncer[s].dirs[i] IN d \in DOMAIN copies /\ copies[d] = source[d]

\* Sessions that sync side by side damage a copy only with a failure to show for
\* it: once a session is past a reviewed pack its copy is whole, unless another one
\* is replacing it, or has failed or died at it since it was last made whole.
DamageShows ==
  \A s \in Starting : Syncing(s) \/ syncer[s].step = "synced" =>
    \A i \in 1..(syncer[s].at - 1) :
      LET d == syncer[s].dirs[i] IN
        \/ IsDraft(d) \/ d \in broken
        \/ d \in DOMAIN copies /\ copies[d] = Pack
        \/ \E t \in Starting : AtWork(t) /\ Dir(t) = d
=============================================================================
