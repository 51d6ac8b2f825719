------------------------- MODULE DownloadLifecycle -------------------------
(***************************************************************************)
(* What one download promises whoever watches it (FileDownload.h:25-34 and *)
(* :183): it starts once, it gets through to the peer before anything is   *)
(* served, it may move between being served and being queued, and once it  *)
(* has finished or failed it stays that way.                               *)
(***************************************************************************)
VARIABLE state

Finished == {"FINISHED", "FAILED"}
Contact == {"REQUESTING", "QUEUED_REMOTELY", "TRANSFERRING"}
DownloadState == {"IDLE", "CONNECTING"} \cup Contact \cup Finished

Init == state = "IDLE"

Start == state = "IDLE" /\ state' = "CONNECTING"
GetThrough == state = "CONNECTING" /\ state' = "REQUESTING"
Serve == state \in Contact /\ state' \in {"QUEUED_REMOTELY", "TRANSFERRING"}
Finish == state \in Contact /\ state' = "FINISHED"
Fail == state \notin Finished /\ state' = "FAILED"

Next == Start \/ GetThrough \/ Serve \/ Finish \/ Fail

Spec == Init /\ [][Next]_state
=============================================================================
