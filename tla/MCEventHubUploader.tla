-------------------------- MODULE MCEventHubUploader --------------------------
(* The instance of EventHubUploader that TLC checks. *)
EXTENDS EventHubUploader
==============================================================================
