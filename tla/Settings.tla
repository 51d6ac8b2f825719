------------------------------ MODULE Settings ------------------------------
(***************************************************************************)
(* What the user has chosen: src/core/ApplicationSettings.{h,cpp}.         *)
(*                                                                         *)
(* The settings are one MUSCLE Message kept in memory, read from a file by *)
(* Load and written to it by Save; these are the getters and setters, as   *)
(* operators on that message.  A text is a member of Text; texts that      *)
(* differ in case only are one text, which is how addresses and names are  *)
(* compared in lists.  Window geometry and column layouts are left out.    *)
(***************************************************************************)
EXTENDS Texts, Subsequences

CONSTANTS
  Unset,       \* a field the message does not have
  Torn,        \* a settings file that was not written to its end
  Away, Tycom, Agmsmith, HomeFolder,   \* the other built-in defaults
  MaxServers,  \* kMaximumRememberedServers
  MaxNames     \* kMaximumRememberedNames

ASSUME SettingsAssumption ==
  /\ {Away, Tycom, Agmsmith, HomeFolder} \subseteq Text
  /\ Tycom # Agmsmith
  /\ Unset \notin Text \cup {Empty} /\ Unset \notin BOOLEAN /\ Unset \notin Int
  /\ {MaxServers, MaxNames} \subseteq Nat \ {0}
-----------------------------------------------------------------------------
(* Fields, by the type the message stores.                                 *)
PatternField == {"ignorepattern", "watchpattern", "autoprivpattern"}
TextField == {"username", "userstatus", "awaystatus", "server", "downloaddir",
              "sharedir", "logdir"} \cup PatternField
SwitchField == {"sharingenabled", "retainfilepaths", "firewalled", "autoclear",
                "connectonstartup", "notifications", "autoupdateservers", "chatlogging"}
NumberField == {"serverport", "maxdownloads", "maxuploads", "maxdownloadrate",
                "maxuploadrate", "chatfontsize"}
Field == TextField \cup SwitchField \cup NumberField
ListField == {"serverlist", "extraserver", "usernamelist", "userstatuslist"}

Value(f) ==
  IF f \in TextField THEN Text \cup {Empty} ELSE IF f \in SwitchField THEN BOOLEAN ELSE Int
IsMessage(m) ==
  /\ DOMAIN m = {"plain", "lists", "aliases", "installId"}
  /\ DOMAIN m.plain = Field
  /\ \A f \in Field : m.plain[f] = Unset \/ m.plain[f] \in Value(f)
  /\ DOMAIN m.lists = ListField
  /\ \A f \in ListField : m.lists[f] \in Seq(Text)
  /\ m.aliases \subseteq Text \X Text
  /\ m.installId \in Nat
EmptyMessage == [plain |-> [f \in Field |-> Unset], lists |-> [f \in ListField |-> <<>>],
                 aliases |-> {}, installId |-> 0]

(* Save opens the file with "wb", which empties it, and then writes: killed *)
(* in between, it leaves a file that Load does not read.                    *)
Load(file) == IF file = Torn THEN EmptyMessage ELSE file
-----------------------------------------------------------------------------
(* Getters. *)

DefaultText(f) ==
  CASE f = "username" -> Binky
    [] f = "userstatus" -> Here
    [] f = "awaystatus" -> Away
    [] f = "server" -> Tycom
    [] f \in {"downloaddir", "sharedir", "logdir"} -> HomeFolder
    [] f \in PatternField -> Empty

GetText(m, f) == IF m.plain[f] \in Text THEN m.plain[f] ELSE DefaultText(f)

GetSwitch(m, f) == IF m.plain[f] = Unset THEN f = "notifications" ELSE m.plain[f]

Between(low, n, high) == IF n < low THEN low ELSE IF n > high THEN high ELSE n

(* Session limits and the font are clamped on the way out as well, a number *)
(* that makes no sense is the default.                                      *)
SessionLimit == 32
LastPort == 65535
GetStoredNumber(m, f) ==
  LET n == m.plain[f] IN
  CASE f = "serverport" -> IF n \in 1..LastPort THEN n ELSE 2960
    [] f = "maxdownloads" -> IF n <= 0 THEN 3 ELSE Between(1, n, SessionLimit)
    [] f = "maxuploads" -> IF n <= 0 THEN 4 ELSE Between(1, n, SessionLimit)
    [] f \in {"maxdownloadrate", "maxuploadrate"} -> IF n < 0 THEN 0 ELSE n
    [] f = "chatfontsize" -> IF n <= 0 THEN 0 ELSE Between(6, n, 32)
DefaultNumber(f) ==
  CASE f = "serverport" -> 2960
    [] f = "maxdownloads" -> 3
    [] f = "maxuploads" -> 4
    [] f \in {"maxdownloadrate", "maxuploadrate", "chatfontsize"} -> 0
GetNumber(m, f) ==
  IF m.plain[f] = Unset THEN DefaultNumber(f) ELSE GetStoredNumber(m, f)

Get(m, f) ==
  IF f \in TextField THEN GetText(m, f)
  ELSE IF f \in SwitchField THEN GetSwitch(m, f)
  ELSE GetNumber(m, f)

GetServerList(m) ==
  IF m.lists["serverlist"] = <<>> THEN <<Tycom, Agmsmith>> ELSE m.lists["serverlist"]
-----------------------------------------------------------------------------
(* Setters. *)

Stored(f, v) ==
  IF f \in {"maxdownloads", "maxuploads"} THEN Between(1, v, SessionLimit) ELSE v
Set(m, f, v) == [m EXCEPT !.plain[f] = Stored(f, v)]

SetList(m, f, list) == [m EXCEPT !.lists[f] = list]

(* _RememberInList: to the front, once, and the oldest fall off the end.   *)
Without(list, v) == Picked(list, {i \in DOMAIN list : list[i] # v})
Trimmed(list, most) == IF Len(list) > most THEN SubSeq(list, 1, most) ELSE list
Duplicating(m, f, v, most) ==   \* mutant: the entry that is there stays
  IF v = Empty THEN m ELSE SetList(m, f, Trimmed(<<v>> \o m.lists[f], most))
RememberInList(m, f, v, most) ==
  IF v = Empty THEN m
  ELSE SetList(m, f, Trimmed(<<v>> \o Without(m.lists[f], v), most))

RememberServer(m, address) == RememberInList(m, "serverlist", address, MaxServers)
RememberUserName(m, name) == RememberInList(m, "usernamelist", name, MaxNames)
RememberStatus(m, status) == RememberInList(m, "userstatuslist", status, MaxNames)

SetAliases(m, aliases) == [m EXCEPT !.aliases = aliases]

(* GetInstallId generates an ID the first time, and stores it in memory.   *)
WithInstallId(m, fresh) == IF m.installId # 0 THEN m ELSE [m EXCEPT !.installId = fresh]
=============================================================================
