--------------------------- MODULE MCQueryResults ---------------------------
(* The symmetry of QueryResults.  Names are interchangeable as long as no  *)
(* message brings two results, whose order would be the names': one other  *)
(* session, patterns of one name each, and every name in one.              *)
EXTENDS QueryResults, TLC

ASSUME NamesAreAlike == Cardinality(Session) = 1 /\ Pattern = {{n} : n \in Name}

Symmetry == Permutations(Conn) \cup Permutations(Name)
=============================================================================
