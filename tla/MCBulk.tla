-------------------------------- MODULE MCBulk --------------------------------
(* Small instances of BulkCampaign for TLC. *)
EXTENDS BulkCampaign, TLC

CONSTANTS c1

CampaignJobs == Campaigns \X (1..Recipients)
SameName == [c \in Campaigns |-> "spring sale"]
=============================================================================
