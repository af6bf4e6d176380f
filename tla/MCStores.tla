------------------------------ MODULE MCStores ------------------------------
(***************************************************************************)
(* Five scenes about what outlives a command or a click: the shared files,  *)
(* the replay fixtures, the skill packs, the knowledge server and the       *)
(* desktop.  They share no state and are not multiplied: a behaviour plays  *)
(* one of them.                                                             *)
(***************************************************************************)
EXTENDS SharedFiles, Fixtures, KnowledgeServer, SkillPacks, Desktop

VARIABLE scene

Plain == [system |-> "Linux", tegra |-> FALSE, pi |-> FALSE, wsl |-> FALSE, container |-> FALSE,
          arm64 |-> FALSE, hailo |-> FALSE, gpus |-> 0, ram |-> 8, runtime |-> TRUE,
          smi |-> <<"absent", "absent">>, rocm |-> "absent"]

\* Machines the detection is asked about.
Machines ==
  [system : {"Linux", "Darwin"}, tegra : BOOLEAN, pi : {FALSE}, wsl : {FALSE}, container : BOOLEAN,
   arm64 : {FALSE}, hailo : BOOLEAN, gpus : 0..2, ram : {8, 32}, runtime : {TRUE},
   smi : {<<"absent", "absent">>} \cup ((Outcomes \ {"absent"}) \X (Outcomes \ {"absent"})),
   rocm : Outcomes]

\* A datasheet with an untitled start, a long section, an empty one, and a word twice;
\* and one line of it as a sheet of its own.
Sheets ==
  [sheet |-> <<[text |-> "x"], [head |-> "clocks"], [text |-> "y"], [text |-> "x"],
               [text |-> "y"], [head |-> "errata"]>>,
   note  |-> <<[text |-> "x"]>>]

Lines == { [l4t |-> 1], [l4t |-> 1, cuda |-> 1], [l4t |-> 1, cuda |-> 1, trt |-> 2] }

stores == <<files, fixtures, server, packs, desktop, scene>>

Claiming == \E stack \in Lines :
              Seed(stack) \/ \E status \in {"verified_pass", "verified_fail"} : Verify(stack, status)

Ingesting ==
  \E c \in Clients :
    \/ \E doc \in DOMAIN Docs, chip \in Chips : StartIngest(c, doc, chip)
    \/ Send(c) \/ FinishIngest(c) \/ Abandon(c)

StoresNext ==
  /\ UNCHANGED scene
  /\ \/ scene = "files" /\ FilesNext /\ UNCHANGED <<fixtures, server, packs, desktop>>
     \/ scene = "fixtures" /\ FixturesNext /\ UNCHANGED <<files, server, packs, desktop>>
     \/ scene = "ingest" /\ Ingesting /\ UNCHANGED <<files, fixtures, packs, desktop>>
     \/ scene = "claims" /\ Claiming /\ UNCHANGED <<files, fixtures, packs, desktop>>
     \/ scene = "packs" /\ PacksNext /\ UNCHANGED <<files, fixtures, server, desktop>>
     \/ scene = "desktop" /\ DesktopNext /\ UNCHANGED <<files, fixtures, server, packs>>

StoresInit ==
  /\ scene \in {"files", "fixtures", "ingest", "claims", "packs", "desktop"}
  /\ FilesInit /\ FixturesInit /\ ServerInit /\ PacksInit /\ DesktopInit

StoresSpec == StoresInit /\ [][StoresNext]_stores /\ DesktopFairness

\* The shared files hold what was written to them, through overlaps and deaths.
FilesAreTrue == EditsSurvive /\ PinSurvives /\ DefaultIsRegistered

\* Every machine is taken for what it is, or its profile says why it may not be.
DetectionIsSound == scene = "files" /\ edits = 0 => \A m \in Machines : DetectionIsHonest(m)

\* A replay runs on the bytes it checked, a shadow run compares like with like.
ReplaysAreTrue == ReplayIsVerified /\ ShadowComparesLike

\* The server keeps the text it is sent, finds it once, and forgets no failure.
ServerIsTrue == SplitKeepsText /\ SearchIsExact /\ DocumentsAreWhole /\ FailureIsHeeded

\* A project's skills are copies of whole packs or a failure shows for it, and drafts
\* touch no reviewed pack.
PacksAreTrue == DraftsDoNotShadow /\ SyncIsWhole /\ DamageShows

\* The cockpit runs one task at a time and shows no diff older than the last one.
CockpitIsTrue == OneRunAtATime /\ DiffIsFresh

\* Whatever is started in the cockpit ends, and gives its panel back if it began.
DesktopSettles == PanelSettles /\ TasksEnd
=============================================================================
