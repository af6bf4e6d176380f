----------------------------- MODULE MCCampaigns -----------------------------
(***************************************************************************)
(* A soak and a thermal profile started on the same board: neither takes a  *)
(* lease, so nothing keeps them apart, and a wedge or a reboot of the board *)
(* hits both.                                                               *)
(***************************************************************************)
EXTENDS SoakRun, ThermalProfile

CONSTANTS m0, m1

OneOrTwoModes == {<<Current>>, <<m1, m0>>}

LoadAndCool == <<[load |-> TRUE, time |-> 4], [load |-> FALSE, time |-> 3]>>

campaigns == <<soakVars, profile>>

Stopped == Over /\ Ended /\ UNCHANGED campaigns

CampaignsInit == SoakInit /\ ProfileInit

CampaignsNext ==
  \/ (Run \/ Job \/ Watchdog \/ Cancelled) /\ UNCHANGED profile
  \/ Profile /\ UNCHANGED <<soak, seen>>
  \/ LinkChanges /\ UNCHANGED profile
  \/ Stopped

\* Every await of the soak ends: a capture and the workload's command have a
\* deadline on either side.
CampaignsFairness ==
  /\ WF_campaigns(Run /\ UNCHANGED profile)
  /\ WF_campaigns(Job /\ UNCHANGED profile)

CampaignsSpec == CampaignsInit /\ [][CampaignsNext]_campaigns /\ CampaignsFairness
=============================================================================
