----------------------------- MODULE MCSharing -----------------------------
(* Sharing, with its servers, folders and names interchangeable.           *)
EXTENDS Sharing, TLC

Symmetry ==
  {c @@ n @@ d : c \in Permutations(Conn), n \in Permutations(Name), d \in Permutations(Folder)}
=============================================================================
