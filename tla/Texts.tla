------------------------------- MODULE Texts -------------------------------
(* The texts that settings hold and connections publish.                   *)
CONSTANTS
  Text,         \* names, addresses, folders, patterns, ...
  Empty,        \* the empty string, which no Text is
  Binky, Here   \* kDefaultUserName, kDefaultUserStatus

ASSUME TextsAssumption == {Binky, Here} \subseteq Text /\ Empty \notin Text
=============================================================================
