-------------------------------- MODULE MCHost --------------------------------
(***************************************************************************)
(* Three scenes of a host, which share no state and are not multiplied: the *)
(* lease file of a board under its processes, the campaigns on a board, and *)
(* a command run locally.  In each the other two have nothing to do: no     *)
(* lease is asked for, and the campaigns and the command are over before it *)
(* begins.                                                                  *)
(***************************************************************************)
EXTENDS MCBoardLeases, MCCampaigns, LocalRunner

VARIABLE scene

host == <<vars, campaigns, runVars, scene>>

CampaignsAreOver ==
  /\ link = "up" /\ seen = {}
  /\ stage = "cancelled" /\ phase = 1 /\ left = 0 /\ window = 0 /\ workload = "none" /\ busy = FALSE
  /\ completed = 0 /\ anomaly = "none" /\ report = "none"
  /\ at = "raised" /\ plan = <<Current>> /\ turn = 1 /\ power = m0 /\ found = m0
  /\ original = NoMode /\ note = FALSE /\ entries = <<>> /\ restored = "no"

CommandIsOver ==
  /\ proc = [p \in Tree |-> "gone"] /\ stubborn = {} /\ quiet = {}
  /\ step = "returned" /\ timer = 0 /\ reason = "none" /\ sent = "none"

HostInit ==
  /\ Init
  /\ \/ scene = "leases" /\ CampaignsAreOver /\ CommandIsOver
     \/ scene = "campaigns" /\ CampaignsInit /\ CommandIsOver
     \/ scene = "command" /\ CampaignsAreOver /\ RunInit

HostNext ==
  /\ UNCHANGED scene
  /\ \/ scene = "leases" /\ Next /\ UNCHANGED <<campaigns, runVars>>
     \/ scene = "campaigns" /\ CampaignsNext /\ UNCHANGED <<vars, runVars>>
     \/ scene = "command" /\ RunNext /\ UNCHANGED <<vars, campaigns>>

\* A component that has nothing to do has no step its fairness could ask for:
\* the fairness of each is that of its own specification.
HostSpec == HostInit /\ [][HostNext]_host /\ Fairness /\ CampaignsFairness /\ RunFairness
=============================================================================
