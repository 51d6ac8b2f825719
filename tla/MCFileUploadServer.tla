------------------------ MODULE MCFileUploadServer ------------------------
(* Small instances of FileUploadServer.                                    *)
EXTENDS FileUploadServer, TLC

Symmetry == Permutations(Peer) \cup Permutations(File)
=============================================================================
