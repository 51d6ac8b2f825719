--------------------------- MODULE MCUploadQueue ---------------------------
(* FileUploadServer with a history variable: the order in which the peers  *)
(* now waiting were told that they are queued.                             *)
EXTENDS FileUploadServer

VARIABLE turn

StillWaiting(p) == p \in Waiting(connected, peers)'

QInit == Init /\ turn = <<>>
QNext ==
  /\ Next
  /\ LET kept == SelectSeq(turn, StillWaiting)
         new == Waiting(connected, peers)' \ {turn[i] : i \in DOMAIN turn}
     IN  \E s \in [1..Cardinality(new) -> new] : turn' = kept \o s
QSpec == QInit /\ [][QNext]_<<vars, turn>>

(* PLAN.md:568 says "Our upload queue is FIFO": of two peers waiting, the  *)
(* one that was queued first gets a slot first.                            *)
FifoQueue ==
  [][\A i, j \in DOMAIN turn :
       i < j /\ turn[j] \in Active(connected, peers)'
         => turn[i] \notin Waiting(connected, peers)']_<<vars, turn>>
=============================================================================
