------------------------- MODULE Application_proofs -------------------------
(***************************************************************************)
(* Proofs about Application, for any texts, settings files, servers, and   *)
(* any number of connections, starts and steps.                            *)
(***************************************************************************)
EXTENDS Application, Subsequences_proofs

Entered == Text \cup {Empty}

(* What the settings file and the window's fields hold.                    *)
KeptOK ==
  /\ file = Torn \/ IsMessage(file)
  /\ box \in [server : Entered, name : Entered]
  /\ starts \in Nat

(* What a connection's server holds, also while we are not connected.      *)
Truthful(c) ==
  /\ IF IsConnected(c) THEN c.node = c.local ELSE c.files = "none"
  /\ c.files \in {"none", FilesNode(c)}
  /\ c.files # "none" => c.published
Healthy(cs) ==
  /\ cs \in Seq(Connection) /\ Len(cs) <= MaxConnections
  /\ \A i \in DOMAIN cs : Truthful(cs[i])
-----------------------------------------------------------------------------
(* Messages. *)

LEMMA FieldsDiffer ==
  /\ TextField \cap SwitchField = {} /\ TextField \cap NumberField = {}
  /\ SwitchField \cap NumberField = {} /\ PatternField \subseteq TextField
  /\ {"username", "userstatus", "server", "sharedir"} \subseteq TextField
  /\ TextField \subseteq Field /\ SwitchField \subseteq Field /\ NumberField \subseteq Field
  BY DEF TextField, SwitchField, NumberField, PatternField, Field

LEMMA GetType ==
  ASSUME NEW m, IsMessage(m), NEW f \in Field
  PROVE  Get(m, f) \in Value(f)
<1>1. m.plain[f] = Unset \/ m.plain[f] \in Value(f)
  BY DEF IsMessage
<1>2. CASE f \in TextField
  <2>1. DefaultText(f) \in Text \cup {Empty}
    BY <1>2, TextsAssumption, SettingsAssumption DEF DefaultText, TextField, PatternField
  <2>. QED
    BY <1>2, <2>1 DEF Get, GetText, Value
<1>3. CASE f \in SwitchField
  <2>1. f \notin TextField /\ Value(f) = BOOLEAN
    BY <1>3, FieldsDiffer DEF Value
  <2>2. Get(m, f) = IF m.plain[f] = Unset THEN f = "notifications" ELSE m.plain[f]
    BY <1>3, <2>1 DEF Get, GetSwitch
  <2>3. (f = "notifications") \in BOOLEAN
    OBVIOUS
  <2>. QED
    BY <1>1, <2>1, <2>2, <2>3
<1>4. CASE f \in NumberField
  <2>1. f \notin TextField /\ f \notin SwitchField /\ Value(f) = Int
    BY <1>4, FieldsDiffer DEF Value
  <2>2. DefaultNumber(f) \in Int
    BY <1>4 DEF DefaultNumber, NumberField
  <2>3. ASSUME m.plain[f] \in Int
        PROVE  GetStoredNumber(m, f) \in Int
    <3>0. PICK n \in Int : n = m.plain[f]
      BY <2>3
    <3>1. CASE f = "serverport"
      <4>1. GetStoredNumber(m, f) = IF n \in 1..LastPort THEN n ELSE 2960
        BY <3>0, <3>1 DEF GetStoredNumber
      <4>. QED
        BY <4>1
    <3>2. CASE f \in {"maxdownloads", "maxuploads"}
      <4>1. Between(1, n, SessionLimit) \in Int
        BY DEF Between, SessionLimit
      <4>2. CASE f = "maxdownloads"
        <5>1. GetStoredNumber(m, f) = IF n <= 0 THEN 3 ELSE Between(1, n, SessionLimit)
          BY <3>0, <4>2 DEF GetStoredNumber
        <5>. QED
          BY <4>1, <5>1
      <4>3. CASE f = "maxuploads"
        <5>1. GetStoredNumber(m, f) = IF n <= 0 THEN 4 ELSE Between(1, n, SessionLimit)
          BY <3>0, <4>3 DEF GetStoredNumber
        <5>. QED
          BY <4>1, <5>1
      <4>. QED
        BY <3>2, <4>2, <4>3
    <3>3. CASE f \in {"maxdownloadrate", "maxuploadrate"}
      <4>1. GetStoredNumber(m, f) = IF n < 0 THEN 0 ELSE n
        BY <3>0, <3>3 DEF GetStoredNumber
      <4>. QED
        BY <4>1
    <3>4. CASE f = "chatfontsize"
      <4>1. GetStoredNumber(m, f) = IF n <= 0 THEN 0 ELSE Between(6, n, 32)
        BY <3>0, <3>4 DEF GetStoredNumber
      <4>2. Between(6, n, 32) \in Int
        BY DEF Between
      <4>. QED
        BY <4>1, <4>2
    <3>. QED
      BY <1>4, <3>1, <3>2, <3>3, <3>4 DEF NumberField
  <2>. QED
    BY <1>1, <2>1, <2>2, <2>3 DEF Get, GetNumber
<1>. QED
  BY <1>2, <1>3, <1>4 DEF Field

LEMMA SetType ==
  ASSUME NEW m, IsMessage(m), NEW f \in Field, NEW v \in Value(f)
  PROVE  /\ IsMessage(Set(m, f, v))
         /\ Set(m, f, v).lists = m.lists /\ Set(m, f, v).aliases = m.aliases
         /\ \A g \in Field \ {f} : Get(Set(m, f, v), g) = Get(m, g)
<1>1. Stored(f, v) \in Value(f)
  <2>1. CASE f \in {"maxdownloads", "maxuploads"}
    <3>1. Value(f) = Int
      BY <2>1 DEF Value, TextField, SwitchField, PatternField
    <3>. QED
      BY <2>1, <3>1 DEF Stored, Between, SessionLimit
  <2>. QED
    BY <2>1 DEF Stored
<1>. DEFINE n == Set(m, f, v)
<1>2. /\ DOMAIN n = {"plain", "lists", "aliases", "installId"}
      /\ n.lists = m.lists /\ n.aliases = m.aliases /\ n.installId = m.installId
      /\ DOMAIN n.plain = Field
      /\ n.plain[f] = Stored(f, v) /\ \A g \in Field \ {f} : n.plain[g] = m.plain[g]
  BY DEF IsMessage, Set
<1>. HIDE DEF n
<1>3. \A g \in Field : n.plain[g] = Unset \/ n.plain[g] \in Value(g)
  BY <1>1, <1>2 DEF IsMessage
<1>4. IsMessage(n)
  BY <1>2, <1>3 DEF IsMessage
<1>5. ASSUME NEW g \in Field \ {f}
      PROVE  Get(n, g) = Get(m, g)
  <2>1. n.plain[g] = m.plain[g]
    BY <1>2
  <2>. QED
    BY <2>1 DEF Get, GetText, GetSwitch, GetNumber, GetStoredNumber
<1>. QED
  BY <1>2, <1>4, <1>5 DEF n

LEMMA SetListType ==
  ASSUME NEW m, IsMessage(m), NEW f \in ListField, NEW list \in Seq(Text)
  PROVE  /\ IsMessage(SetList(m, f, list))
         /\ SetList(m, f, list).plain = m.plain /\ SetList(m, f, list).aliases = m.aliases
         /\ SetList(m, f, list).installId = m.installId
         /\ SetList(m, f, list).lists = [m.lists EXCEPT ![f] = list]
         /\ \A g : Get(SetList(m, f, list), g) = Get(m, g)
<1>. DEFINE n == SetList(m, f, list)
<1>1. /\ DOMAIN n = {"plain", "lists", "aliases", "installId"}
      /\ n.plain = m.plain /\ n.aliases = m.aliases /\ n.installId = m.installId
      /\ n.lists = [m.lists EXCEPT ![f] = list]
  BY DEF IsMessage, SetList
<1>. HIDE DEF n
<1>2. IsMessage(n)
  BY <1>1 DEF IsMessage
<1>3. ASSUME NEW g
      PROVE  Get(n, g) = Get(m, g)
  BY <1>1 DEF Get, GetText, GetSwitch, GetNumber, GetStoredNumber
<1>. QED
  BY <1>1, <1>2, <1>3 DEF n
-----------------------------------------------------------------------------
(* Lists. *)

NoDuplicates(list) == \A i, j \in DOMAIN list : list[i] = list[j] => i = j
Fronted(list, v, most) == Trimmed(<<v>> \o Without(list, v), most)

LEMMA PickedType ==
  ASSUME NEW S, NEW list \in Seq(S), NEW K \in SUBSET DOMAIN list
  PROVE  /\ Picked(list, K) \in Seq(S)
         /\ \A v : v \in Listed(Picked(list, K)) <=> \E i \in K : list[i] = v
         /\ NoDuplicates(list) => NoDuplicates(Picked(list, K))
<1>1. /\ Picked(list, K) \in Seq(S)
      /\ DOMAIN Picked(list, K) = 1..Cardinality(K)
      /\ \A n \in 1..Cardinality(K) : \E i \in K : Rank(K, i) = n /\ Picked(list, K)[n] = list[i]
      /\ \A i \in K : Rank(K, i) \in 1..Cardinality(K) /\ Picked(list, K)[Rank(K, i)] = list[i]
  BY PickedEntries
<1>2. ASSUME NEW v
      PROVE  v \in Listed(Picked(list, K)) <=> \E i \in K : list[i] = v
  BY <1>1 DEF Listed
<1>3. ASSUME NoDuplicates(list)
      PROVE  NoDuplicates(Picked(list, K))
  <2>. SUFFICES ASSUME NEW m \in 1..Cardinality(K), NEW n \in 1..Cardinality(K),
                       Picked(list, K)[m] = Picked(list, K)[n]
       PROVE  m = n
    BY <1>1 DEF NoDuplicates
  <2>1. PICK i \in K : Rank(K, i) = m /\ Picked(list, K)[m] = list[i]
    BY <1>1
  <2>2. PICK j \in K : Rank(K, j) = n /\ Picked(list, K)[n] = list[j]
    BY <1>1
  <2>3. i = j
    BY <1>3, <2>1, <2>2 DEF NoDuplicates
  <2>. QED
    BY <2>1, <2>2, <2>3
<1>. QED
  BY <1>1, <1>2, <1>3

LEMMA FrontedList ==
  ASSUME NEW list \in Seq(Text), NEW v \in Text, NEW most \in Nat \ {0}
  PROVE  /\ Fronted(list, v, most) \in Seq(Text)
         /\ Fronted(list, v, most) # <<>>
         /\ NoDuplicates(list) => NoDuplicates(Fronted(list, v, most))
<1>. DEFINE rest == Without(list, v)
            long == <<v>> \o rest
            L == Fronted(list, v, most)
<1>1. /\ rest \in Seq(Text) /\ v \notin Listed(rest)
      /\ NoDuplicates(list) => NoDuplicates(rest)
  BY PickedType DEF Without
<1>. HIDE DEF rest
<1>2. <<v>> \in Seq(Text) /\ Len(<<v>>) = 1 /\ <<v>>[1] = v
  OBVIOUS
<1>3. /\ long \in Seq(Text) /\ Len(long) = 1 + Len(rest)
      /\ Len(rest) \in Nat /\ DOMAIN rest = 1..Len(rest)
      /\ \A i \in 1..(1 + Len(rest)) : long[i] = IF i <= 1 THEN v ELSE rest[i - 1]
  <2>1. /\ long \in Seq(Text) /\ Len(long) = Len(<<v>>) + Len(rest)
        /\ \A i \in 1..(Len(<<v>>) + Len(rest)) :
             long[i] = IF i <= Len(<<v>>) THEN <<v>>[i] ELSE rest[i - Len(<<v>>)]
    BY <1>1, <1>2, ConcatProperties
  <2>2. Len(rest) \in Nat /\ DOMAIN rest = 1..Len(rest)
    BY <1>1, LenProperties
  <2>. QED
    BY <1>2, <2>1, <2>2
<1>. HIDE DEF long
<1>4. /\ L \in Seq(Text) /\ Len(L) \in 1..Len(long)
      /\ \A i \in 1..Len(L) : L[i] = long[i]
  <2>1. CASE Len(long) > most
    <3>1. L = SubSeq(long, 1, most)
      BY <2>1 DEF L, Fronted, Trimmed, long, rest
    <3>2. \A i \in 1..most : long[i] \in Text
      BY <1>3, <2>1, ElementOfSeq
    <3>3. /\ SubSeq(long, 1, most) \in Seq(Text)
          /\ Len(SubSeq(long, 1, most)) = IF 1 <= most THEN most - 1 + 1 ELSE 0
          /\ \A i \in 1..(most - 1 + 1) : SubSeq(long, 1, most)[i] = long[1 + i - 1]
      BY <3>2, SubSeqProperties
    <3>. HIDE DEF L
    <3>4. Len(L) = most
      BY <3>1, <3>3
    <3>5. \A i \in 1..most : L[i] = long[i]
      BY <3>1, <3>3
    <3>. QED
      BY <1>3, <2>1, <3>1, <3>3, <3>4, <3>5
  <2>2. CASE ~(Len(long) > most)
    <3>1. L = long
      BY <2>2 DEF L, Fronted, Trimmed, long, rest
    <3>. QED
      BY <1>3, <3>1
  <2>. QED
    BY <2>1, <2>2
<1>. HIDE DEF L
<1>5. DOMAIN L = 1..Len(L)
  BY <1>4, LenProperties
<1>6. L # <<>>
  BY <1>4, EmptySeq
<1>7. ASSUME NoDuplicates(list), NEW i \in 1..Len(L), NEW j \in 1..Len(L), L[i] = L[j]
      PROVE  i = j
  <2>1. \A k \in 1..Len(L) : /\ k = 1 \/ k - 1 \in DOMAIN rest
                             /\ L[k] = IF k = 1 THEN v ELSE rest[k - 1]
    BY <1>3, <1>4
  <2>2. \A k \in DOMAIN rest : rest[k] # v
    BY <1>1 DEF Listed
  <2>3. CASE i # 1 /\ j # 1
    <3>1. rest[i - 1] = rest[j - 1] /\ i - 1 \in DOMAIN rest /\ j - 1 \in DOMAIN rest
      BY <1>7, <2>1, <2>3
    <3>2. i - 1 = j - 1
      BY <1>1, <1>7, <3>1 DEF NoDuplicates
    <3>. QED
      BY <3>2
  <2>. QED
    BY <1>7, <2>1, <2>2, <2>3
<1>. QED
  BY <1>4, <1>5, <1>6, <1>7 DEF L, NoDuplicates

LEMMA RememberedType ==
  ASSUME NEW m, IsMessage(m), NEW f \in ListField, NEW v \in Entered, NEW most \in Nat \ {0}
  PROVE  /\ IsMessage(RememberInList(m, f, v, most))
         /\ RememberInList(m, f, v, most).plain = m.plain
         /\ RememberInList(m, f, v, most).aliases = m.aliases
         /\ RememberInList(m, f, v, most).installId = m.installId
         /\ RememberInList(m, f, v, most).lists =
              IF v = Empty THEN m.lists
              ELSE [m.lists EXCEPT ![f] = Fronted(m.lists[f], v, most)]
         /\ \A g : Get(RememberInList(m, f, v, most), g) = Get(m, g)
<1>1. CASE v = Empty
  BY <1>1 DEF RememberInList
<1>2. CASE v # Empty
  <2>1. v \in Text /\ m.lists[f] \in Seq(Text)
    BY <1>2 DEF Entered, IsMessage
  <2>2. RememberInList(m, f, v, most) = SetList(m, f, Fronted(m.lists[f], v, most))
    BY <1>2 DEF RememberInList, Fronted
  <2>3. Fronted(m.lists[f], v, most) \in Seq(Text)
    BY <2>1, FrontedList
  <2>. QED
    BY <1>2, <2>2, <2>3, SetListType
<1>. QED
  BY <1>1, <1>2
-----------------------------------------------------------------------------
(* Connections. *)

(* What telling a connection something leaves alone.                       *)
ToldOne(d, c) ==
  d \in Connection /\ Truthful(d) /\ d.address = c.address /\ d.stage = c.stage

(* A connection that gets another identity, and tells it if it can.        *)
LEMMA IdentityTold ==
  ASSUME NEW c \in Connection, Truthful(c), NEW l \in Identity
  PROVE  /\ ~IsConnected(c) => ToldOne([c EXCEPT !.local = l], c)
         /\ IsConnected(c) => ToldOne([c EXCEPT !.local = l, !.node = l], c)
<1>. DEFINE d == [c EXCEPT !.local = l]
            e == [c EXCEPT !.local = l, !.node = l]
<1>1. /\ d \in Connection /\ e \in Connection /\ e.local = l /\ e.node = l
      /\ d.stage = c.stage /\ d.files = c.files /\ d.address = c.address
      /\ d.published = c.published /\ d.firewalled = c.firewalled
      /\ e.stage = c.stage /\ e.files = c.files /\ e.address = c.address
      /\ e.published = c.published /\ e.firewalled = c.firewalled
  BY DEF Connection
<1>. HIDE DEF d, e
<1>2. ~IsConnected(c) => ToldOne(d, c)
  BY <1>1 DEF ToldOne, Truthful, IsConnected, FilesNode
<1>3. IsConnected(c) => ToldOne(e, c)
  BY <1>1 DEF ToldOne, Truthful, IsConnected, FilesNode
<1>. QED
  BY <1>2, <1>3 DEF d, e

LEMMA OneConnection ==
  ASSUME NEW c \in Connection, Truthful(c)
  PROVE  /\ \A name \in Entered : ToldOne(SetLocalUserNameOn(c, name), c)
         /\ \A status \in Entered : ToldOne(SetLocalUserStatusOn(c, status), c)
         /\ \A port \in Nat : ToldOne(SetAdvertisedPortOn(c, port), c)
         /\ \A firewalled \in BOOLEAN : ToldOne(SetFirewalledOn(c, firewalled), c)
         /\ ToldOne(UnpublishFrom(c), c) /\ ToldOne(PublishSharedFilesOn(c), c)
<1>0. /\ c.local \in Identity /\ c.node \in Identity /\ ToldOne(c, c)
      /\ IsConnected(c) => c.node = c.local
  BY DEF Connection, ToldOne, Truthful
<1>1. ASSUME NEW name \in Entered
      PROVE  ToldOne(SetLocalUserNameOn(c, name), c)
  <2>. DEFINE l == [c.local EXCEPT !.name = name]
              d == [c EXCEPT !.local = l]
  <2>1. l \in Identity /\ l.status = c.local.status /\ [l EXCEPT !.status = l.status] = l
    BY <1>0 DEF Identity, Entered
  <2>2. CASE name \in {Empty, c.local.name}
    BY <1>0, <2>2 DEF SetLocalUserNameOn
  <2>3. CASE name \notin {Empty, c.local.name} /\ ~IsConnected(c)
    <3>1. SetLocalUserNameOn(c, name) = d
      BY <2>3 DEF SetLocalUserNameOn
    <3>. HIDE DEF l
    <3>. QED
      BY <2>1, <2>3, <3>1, IdentityTold
  <2>4. CASE name \notin {Empty, c.local.name} /\ IsConnected(c)
    <3>1. SetLocalUserNameOn(c, name) = PublishUserName(d)
      BY <2>4 DEF SetLocalUserNameOn
    <3>. HIDE DEF l
    <3>2. d.local = l /\ d.node = c.node
      BY DEF Connection
    <3>3. PublishUserName(d) = [d EXCEPT !.node = [l EXCEPT !.status = c.node.status]]
      BY <3>2 DEF PublishUserName
    <3>4. PublishUserName(d) = [d EXCEPT !.node = l]
      BY <1>0, <2>1, <2>4, <3>3
    <3>5. [d EXCEPT !.node = l] = [c EXCEPT !.local = l, !.node = l]
      OBVIOUS
    <3>6. ToldOne([c EXCEPT !.local = l, !.node = l], c)
      BY <2>1, <2>4, IdentityTold
    <3>. QED
      BY <3>1, <3>4, <3>5, <3>6
  <2>. QED
    BY <2>2, <2>3, <2>4
<1>2. ASSUME NEW status \in Entered
      PROVE  ToldOne(SetLocalUserStatusOn(c, status), c)
  <2>. DEFINE l == [c.local EXCEPT !.status = status]
              d == [c EXCEPT !.local = l]
  <2>1. l \in Identity /\ l.status = status
    BY <1>0 DEF Identity, Entered
  <2>2. CASE status = c.local.status
    BY <1>0, <2>2 DEF SetLocalUserStatusOn
  <2>3. CASE status # c.local.status /\ ~IsConnected(c)
    <3>1. SetLocalUserStatusOn(c, status) = d
      BY <2>3 DEF SetLocalUserStatusOn
    <3>. HIDE DEF l
    <3>. QED
      BY <2>1, <2>3, <3>1, IdentityTold
  <2>4. CASE status # c.local.status /\ IsConnected(c)
    <3>1. SetLocalUserStatusOn(c, status) = PublishUserStatus(d)
      BY <2>4 DEF SetLocalUserStatusOn
    <3>2. [c.node EXCEPT !.status = status] = l
      BY <1>0, <2>4
    <3>. HIDE DEF l
    <3>3. d.local = l /\ d.node = c.node
      BY DEF Connection
    <3>4. PublishUserStatus(d) = [d EXCEPT !.node = [c.node EXCEPT !.status = status]]
      BY <2>1, <3>3 DEF PublishUserStatus
    <3>5. [d EXCEPT !.node = l] = [c EXCEPT !.local = l, !.node = l]
      OBVIOUS
    <3>6. ToldOne([c EXCEPT !.local = l, !.node = l], c)
      BY <2>1, <2>4, IdentityTold
    <3>. QED
      BY <3>1, <3>2, <3>4, <3>5, <3>6
  <2>. QED
    BY <2>2, <2>3, <2>4
<1>3. ASSUME NEW port \in Nat
      PROVE  ToldOne(SetAdvertisedPortOn(c, port), c)
  <2>. DEFINE l == [c.local EXCEPT !.port = port]
              d == [c EXCEPT !.local = l]
  <2>1. l \in Identity /\ l.status = c.local.status /\ [l EXCEPT !.status = l.status] = l
    BY <1>0 DEF Identity
  <2>2. CASE port = c.local.port
    BY <1>0, <2>2 DEF SetAdvertisedPortOn
  <2>3. CASE port # c.local.port /\ ~IsConnected(c)
    <3>1. SetAdvertisedPortOn(c, port) = d
      BY <2>3 DEF SetAdvertisedPortOn
    <3>. HIDE DEF l
    <3>. QED
      BY <2>1, <2>3, <3>1, IdentityTold
  <2>4. CASE port # c.local.port /\ IsConnected(c)
    <3>1. SetAdvertisedPortOn(c, port) = PublishUserName(d)
      BY <2>4 DEF SetAdvertisedPortOn
    <3>. HIDE DEF l
    <3>2. d.local = l /\ d.node = c.node
      BY DEF Connection
    <3>3. PublishUserName(d) = [d EXCEPT !.node = [l EXCEPT !.status = c.node.status]]
      BY <3>2 DEF PublishUserName
    <3>4. PublishUserName(d) = [d EXCEPT !.node = l]
      BY <1>0, <2>1, <2>4, <3>3
    <3>5. [d EXCEPT !.node = l] = [c EXCEPT !.local = l, !.node = l]
      OBVIOUS
    <3>6. ToldOne([c EXCEPT !.local = l, !.node = l], c)
      BY <2>1, <2>4, IdentityTold
    <3>. QED
      BY <3>1, <3>4, <3>5, <3>6
  <2>. QED
    BY <2>2, <2>3, <2>4
<1>. USE DEF ToldOne, Connection, Truthful, IsConnected, FilesNode
<1>4. ASSUME NEW firewalled \in BOOLEAN
      PROVE  ToldOne(SetFirewalledOn(c, firewalled), c)
  BY DEF SetFirewalledOn, UnpublishFrom
<1>5. ToldOne(UnpublishFrom(c), c)
  BY DEF UnpublishFrom
<1>6. ToldOne(PublishSharedFilesOn(c), c)
  BY DEF PublishSharedFilesOn
<1>. QED
  BY <1>1, <1>2, <1>3, <1>4, <1>5, <1>6

LEMMA ConnectionEvents ==
  /\ \A address \in Text : LET d == NewConnection(address) IN
       d \in Connection /\ Truthful(d) /\ d.address = address /\ d.stage = "connecting"
  /\ \A c \in Connection : Truthful(c) =>
       LET d == PublishUserStatus(PublishUserName([c EXCEPT !.stage = "connected"])) IN
       d \in Connection /\ d.address = c.address /\ d.stage = "connected"
       /\ (c.stage = "connecting" => Truthful(d))
  /\ \A c \in Connection : Truthful(c) /\ c.stage = "connected" =>
       LET d == [c EXCEPT !.stage = "identified"] IN
       d \in Connection /\ Truthful(d) /\ d.address = c.address /\ d.stage = "identified"
  /\ \A c \in Connection :
       LET d == DisconnectOn(c) IN
       d \in Connection /\ Truthful(d) /\ d.address = c.address /\ d.stage = "off"
<1>. USE TextsAssumption
     DEF Connection, Identity, Truthful, IsConnected, FilesNode, Stage
<1>1. ASSUME NEW address \in Text
      PROVE  LET d == NewConnection(address) IN
             d \in Connection /\ Truthful(d) /\ d.address = address /\ d.stage = "connecting"
  BY DEF NewConnection, Nobody
<1>2. ASSUME NEW c \in Connection, Truthful(c)
      PROVE  LET d == PublishUserStatus(PublishUserName([c EXCEPT !.stage = "connected"])) IN
             d \in Connection /\ d.address = c.address /\ d.stage = "connected"
             /\ (c.stage = "connecting" => Truthful(d))
  BY <1>2 DEF PublishUserName, PublishUserStatus
<1>3. ASSUME NEW c \in Connection, Truthful(c), c.stage = "connected"
      PROVE  LET d == [c EXCEPT !.stage = "identified"] IN
             d \in Connection /\ Truthful(d) /\ d.address = c.address /\ d.stage = "identified"
  BY <1>3
<1>4. ASSUME NEW c \in Connection
      PROVE  LET d == DisconnectOn(c) IN
             d \in Connection /\ Truthful(d) /\ d.address = c.address /\ d.stage = "off"
  BY DEF DisconnectOn, Nobody
<1>. QED
  BY <1>1, <1>2, <1>3, <1>4

(* A list of connections made from another: none is lost or gets another   *)
(* address, none becomes identified, a new one has an address of its own.  *)
Follows(ds, cs) ==
  /\ Healthy(ds) /\ DOMAIN cs \subseteq DOMAIN ds
  /\ \A i \in DOMAIN cs : /\ ds[i].address = cs[i].address
                          /\ ds[i].stage = "identified" => cs[i].stage = "identified"
  /\ \A i \in DOMAIN ds \ DOMAIN cs :
       /\ ds[i].stage # "identified"
       /\ \A j \in DOMAIN ds : ds[i].address = ds[j].address => i = j

LEMMA FollowsFurther ==
  ASSUME NEW cs, NEW ds, NEW es, Follows(ds, cs), Follows(es, ds)
  PROVE  Follows(es, cs)
<1>1. Healthy(es) /\ DOMAIN cs \subseteq DOMAIN ds /\ DOMAIN ds \subseteq DOMAIN es
  BY DEF Follows
<1>2. ASSUME NEW i \in DOMAIN cs
      PROVE  /\ es[i].address = cs[i].address
             /\ es[i].stage = "identified" => cs[i].stage = "identified"
  BY <1>1 DEF Follows
<1>3. ASSUME NEW i \in DOMAIN es \ DOMAIN cs
      PROVE  /\ es[i].stage # "identified"
             /\ \A j \in DOMAIN es : es[i].address = es[j].address => i = j
  <2>1. CASE i \in DOMAIN ds
    <3>1. /\ es[i].address = ds[i].address /\ es[i].stage # "identified"
          /\ \A j \in DOMAIN ds : ds[i].address = ds[j].address => i = j
      BY <1>3, <2>1 DEF Follows
    <3>2. \A j \in DOMAIN ds : es[j].address = ds[j].address
      BY DEF Follows
    <3>3. \A j \in DOMAIN es \ DOMAIN ds : es[j].address = es[i].address => j = i
      BY <1>3 DEF Follows
    <3>. QED
      BY <3>1, <3>2, <3>3
  <2>2. CASE i \notin DOMAIN ds
    BY <1>3, <2>2 DEF Follows
  <2>. QED
    BY <2>1, <2>2
<1>. QED
  BY <1>1, <1>2, <1>3 DEF Follows

LEMMA HealthyList ==
  ASSUME NEW cs, Healthy(cs)
  PROVE  /\ DOMAIN cs = 1..Len(cs) /\ Len(cs) \in Nat /\ Len(cs) <= MaxConnections
         /\ \A i \in DOMAIN cs : cs[i] \in Connection /\ Truthful(cs[i])
         /\ Follows(cs, cs)
<1>1. DOMAIN cs = 1..Len(cs) /\ Len(cs) \in Nat /\ \A i \in DOMAIN cs : cs[i] \in Connection
  BY LenProperties, ElementOfSeq DEF Healthy
<1>. QED
  BY <1>1 DEF Healthy, Follows

LEMMA ToldEach ==
  ASSUME NEW cs, Healthy(cs), NEW ds, ds = [i \in DOMAIN cs |-> ds[i]],
         \A i \in DOMAIN cs : /\ ds[i] \in Connection /\ Truthful(ds[i])
                              /\ ds[i].address = cs[i].address
                              /\ ds[i].stage = "identified" => cs[i].stage = "identified"
  PROVE  Follows(ds, cs)
<1>1. DOMAIN cs = 1..Len(cs) /\ Len(cs) \in Nat /\ Len(cs) <= MaxConnections
  BY HealthyList
<1>2. ds \in [1..Len(cs) -> Connection]
  BY <1>1
<1>3. ds \in Seq(Connection) /\ Len(ds) = Len(cs) /\ DOMAIN ds = DOMAIN cs
  BY <1>1, <1>2, SeqDef, LenProperties
<1>. QED
  BY <1>1, <1>3 DEF Follows, Healthy

LEMMA Told ==
  ASSUME NEW cs, Healthy(cs)
  PROVE  /\ \A name \in Entered : Follows(SetLocalUserName(cs, name), cs)
         /\ \A status \in Entered : Follows(SetLocalUserStatus(cs, status), cs)
         /\ \A port \in Nat : Follows(SetAdvertisedPort(cs, port), cs)
         /\ \A firewalled \in BOOLEAN : Follows(SetFirewalled(cs, firewalled), cs)
         /\ Follows(UnpublishAllSharedFiles(cs), cs)
         /\ Follows(PublishSharedFilesOnAll(cs), cs)
         /\ Follows(DisconnectAll(cs), cs)
<1>1. \A i \in DOMAIN cs : cs[i] \in Connection /\ Truthful(cs[i])
  BY HealthyList
<1>2. ASSUME NEW name \in Entered
      PROVE  Follows(SetLocalUserName(cs, name), cs)
  <2>. DEFINE ds == SetLocalUserName(cs, name)
  <2>1. ds = [i \in DOMAIN cs |-> ds[i]] /\ \A i \in DOMAIN cs : ToldOne(ds[i], cs[i])
    BY <1>1, OneConnection DEF SetLocalUserName
  <2>. HIDE DEF ds
  <2>2. Follows(ds, cs)
    BY <2>1, ToldEach DEF ToldOne
  <2>. QED
    BY <2>2 DEF ds
<1>3. ASSUME NEW status \in Entered
      PROVE  Follows(SetLocalUserStatus(cs, status), cs)
  <2>. DEFINE ds == SetLocalUserStatus(cs, status)
  <2>1. ds = [i \in DOMAIN cs |-> ds[i]] /\ \A i \in DOMAIN cs : ToldOne(ds[i], cs[i])
    BY <1>1, OneConnection DEF SetLocalUserStatus
  <2>. HIDE DEF ds
  <2>2. Follows(ds, cs)
    BY <2>1, ToldEach DEF ToldOne
  <2>. QED
    BY <2>2 DEF ds
<1>4. ASSUME NEW port \in Nat
      PROVE  Follows(SetAdvertisedPort(cs, port), cs)
  <2>. DEFINE ds == SetAdvertisedPort(cs, port)
  <2>1. ds = [i \in DOMAIN cs |-> ds[i]] /\ \A i \in DOMAIN cs : ToldOne(ds[i], cs[i])
    BY <1>1, OneConnection DEF SetAdvertisedPort
  <2>. HIDE DEF ds
  <2>2. Follows(ds, cs)
    BY <2>1, ToldEach DEF ToldOne
  <2>. QED
    BY <2>2 DEF ds
<1>5. ASSUME NEW firewalled \in BOOLEAN
      PROVE  Follows(SetFirewalled(cs, firewalled), cs)
  <2>. DEFINE ds == SetFirewalled(cs, firewalled)
  <2>1. ds = [i \in DOMAIN cs |-> ds[i]] /\ \A i \in DOMAIN cs : ToldOne(ds[i], cs[i])
    BY <1>1, OneConnection DEF SetFirewalled
  <2>. HIDE DEF ds
  <2>2. Follows(ds, cs)
    BY <2>1, ToldEach DEF ToldOne
  <2>. QED
    BY <2>2 DEF ds
<1>6. Follows(UnpublishAllSharedFiles(cs), cs)
  <2>. DEFINE ds == UnpublishAllSharedFiles(cs)
  <2>1. ds = [i \in DOMAIN cs |-> ds[i]] /\ \A i \in DOMAIN cs : ToldOne(ds[i], cs[i])
    BY <1>1, OneConnection DEF UnpublishAllSharedFiles
  <2>. HIDE DEF ds
  <2>2. Follows(ds, cs)
    BY <2>1, ToldEach DEF ToldOne
  <2>. QED
    BY <2>2 DEF ds
<1>7. Follows(PublishSharedFilesOnAll(cs), cs)
  <2>. DEFINE ds == PublishSharedFilesOnAll(cs)
  <2>1. ds = [i \in DOMAIN cs |-> ds[i]] /\ \A i \in DOMAIN cs : ToldOne(ds[i], cs[i])
    BY <1>1, OneConnection DEF PublishSharedFilesOnAll
  <2>. HIDE DEF ds
  <2>2. Follows(ds, cs)
    BY <2>1, ToldEach DEF ToldOne
  <2>. QED
    BY <2>2 DEF ds
<1>8. Follows(DisconnectAll(cs), cs)
  <2>. DEFINE ds == DisconnectAll(cs)
  <2>1. /\ ds = [i \in DOMAIN cs |-> ds[i]]
        /\ \A i \in DOMAIN cs : /\ ds[i] \in Connection /\ Truthful(ds[i])
                                /\ ds[i].address = cs[i].address /\ ds[i].stage = "off"
    BY <1>1, ConnectionEvents DEF DisconnectAll
  <2>. HIDE DEF ds
  <2>2. Follows(ds, cs)
    BY <2>1, ToldEach
  <2>. QED
    BY <2>2 DEF ds
<1>. QED
  BY <1>2, <1>3, <1>4, <1>5, <1>6, <1>7, <1>8

LEMMA Added ==
  ASSUME NEW cs, Healthy(cs), NEW address \in Text
  PROVE  Follows(AddConnection(cs, address), cs)
<1>1. CASE HasAddress(cs, address) \/ Len(cs) >= MaxConnections
  BY <1>1, HealthyList DEF AddConnection
<1>2. CASE ~HasAddress(cs, address) /\ ~(Len(cs) >= MaxConnections)
  <2>. DEFINE c == NewConnection(address)
              ds == Append(cs, c)
  <2>1. c \in Connection /\ Truthful(c) /\ c.address = address /\ c.stage = "connecting"
    BY ConnectionEvents
  <2>2. /\ DOMAIN cs = 1..Len(cs) /\ Len(cs) \in Nat /\ cs \in Seq(Connection)
        /\ \A i \in DOMAIN cs : cs[i] \in Connection /\ Truthful(cs[i])
    BY HealthyList DEF Healthy
  <2>. HIDE DEF c
  <2>3. /\ ds \in Seq(Connection) /\ Len(ds) = Len(cs) + 1
        /\ \A i \in 1..Len(cs) : ds[i] = cs[i]
        /\ ds[Len(cs) + 1] = c
    BY <2>1, <2>2, AppendProperties
  <2>. HIDE DEF ds
  <2>4. DOMAIN ds = 1..(Len(cs) + 1)
    BY <2>3, LenProperties
  <2>5. Len(ds) <= MaxConnections
    BY <1>2, <2>2, <2>3, ConnectionsAssumption
  <2>6. \A i \in DOMAIN ds : i \in DOMAIN cs \/ (i = Len(cs) + 1 /\ i \notin DOMAIN cs)
    BY <2>2, <2>4
  <2>7. Healthy(ds)
    BY <2>1, <2>2, <2>3, <2>5, <2>6 DEF Healthy
  <2>8. \A i \in DOMAIN cs : cs[i].address # address
    BY <1>2 DEF HasAddress
  <2>9. \A i \in DOMAIN ds \ DOMAIN cs :
          ds[i] = c /\ \A j \in DOMAIN ds : ds[i].address = ds[j].address => i = j
    BY <2>1, <2>2, <2>3, <2>6, <2>8
  <2>10. Follows(ds, cs)
    BY <2>1, <2>2, <2>3, <2>4, <2>7, <2>9 DEF Follows
  <2>. QED
    BY <1>2, <2>10 DEF AddConnection, ds, c
<1>. QED
  BY <1>1, <1>2

LEMMA Applies ==
  ASSUME NEW cs, Healthy(cs), NEW m, IsMessage(m)
  PROVE  Follows(ApplyTo(cs, m), cs)
<1>. DEFINE a == SetLocalUserName(cs, Get(m, "username"))
            b == SetLocalUserStatus(a, Get(m, "userstatus"))
            c == SetFirewalled(b, Get(m, "firewalled"))
<1>1. /\ Get(m, "username") \in Entered /\ Get(m, "userstatus") \in Entered
      /\ Get(m, "firewalled") \in BOOLEAN
  <2>1. /\ "username" \in Field /\ "userstatus" \in Field /\ "firewalled" \in Field
        /\ Value("username") = Entered /\ Value("userstatus") = Entered
        /\ Value("firewalled") = BOOLEAN
    BY DEF Field, TextField, SwitchField, Value, Entered, PatternField
  <2>. QED
    BY <2>1, GetType
<1>2. Follows(a, cs)
  BY <1>1, Told
<1>3. Healthy(a)
  BY <1>2 DEF Follows
<1>. HIDE DEF a
<1>4. Follows(b, a)
  BY <1>1, <1>3, Told
<1>5. Healthy(b)
  BY <1>4 DEF Follows
<1>. HIDE DEF b
<1>6. Follows(c, b)
  BY <1>1, <1>5, Told
<1>. HIDE DEF c
<1>7. Follows(c, cs)
  BY <1>2, <1>4, <1>6, FollowsFurther
<1>. QED
  BY <1>7 DEF ApplyTo, a, b, c

LEMMA SharingTold ==
  ASSUME NEW cs, Healthy(cs)
  PROVE  /\ \A m : \A port \in Nat : Follows(StartSharing(cs, m, port), cs)
         /\ Follows(StopSharing(cs), cs)
<1>1. ASSUME NEW m, NEW port \in Nat
      PROVE  Follows(StartSharing(cs, m, port), cs)
  BY Told, HealthyList DEF StartSharing
<1>. DEFINE a == SetAdvertisedPort(cs, 0)
<1>2. Follows(a, cs)
  BY Told
<1>3. Healthy(a)
  BY <1>2 DEF Follows
<1>. HIDE DEF a
<1>4. Follows(UnpublishAllSharedFiles(a), a)
  BY <1>3, Told
<1>5. Follows(UnpublishAllSharedFiles(a), cs)
  BY <1>2, <1>4, FollowsFurther
<1>. QED
  BY <1>1, <1>5 DEF StopSharing, a

LEMMA ConnectsTo ==
  ASSUME NEW cs, Healthy(cs), NEW b \in [server : Entered, name : Entered]
  PROVE  Follows(ConnectTo(cs, b), cs)
<1>1. CASE ~CanConnect(b)
  BY <1>1, HealthyList DEF ConnectTo
<1>2. CASE CanConnect(b)
  <2>1. b.server \in Text /\ b.name \in Entered
    BY <1>2 DEF CanConnect, Entered
  <2>. DEFINE a == SetLocalUserName(cs, b.name)
  <2>2. Follows(a, cs)
    BY <2>1, Told
  <2>3. Healthy(a)
    BY <2>2 DEF Follows
  <2>. HIDE DEF a
  <2>4. Follows(AddConnection(a, b.server), a)
    BY <2>1, <2>3, Added
  <2>5. Follows(AddConnection(a, b.server), cs)
    BY <2>2, <2>4, FollowsFurther
  <2>. QED
    BY <1>2, <2>5 DEF ConnectTo, a
<1>. QED
  BY <1>1, <1>2

(* A message of one connection, i: its stage becomes new. *)
LEMMA OneChanges ==
  ASSUME NEW cs, Healthy(cs), NEW i \in DOMAIN cs,
         NEW c \in Connection, Truthful(c), c.address = cs[i].address
  PROVE  /\ Healthy([cs EXCEPT ![i] = c])
         /\ c.stage # "identified" => Follows([cs EXCEPT ![i] = c], cs)
<1>. DEFINE ds == [cs EXCEPT ![i] = c]
<1>1. /\ DOMAIN cs = 1..Len(cs) /\ Len(cs) \in Nat /\ cs \in Seq(Connection)
      /\ \A j \in DOMAIN cs : cs[j] \in Connection /\ Truthful(cs[j])
      /\ Len(cs) <= MaxConnections
  BY HealthyList DEF Healthy
<1>2. /\ ds \in Seq(Connection) /\ Len(ds) = Len(cs)
      /\ \A j \in 1..Len(cs) : ds[j] = IF j = i THEN c ELSE cs[j]
  BY <1>1, ExceptSeq
<1>3. DOMAIN ds = DOMAIN cs
  OBVIOUS
<1>. HIDE DEF ds
<1>4. Healthy(ds)
  BY <1>1, <1>2, <1>3 DEF Healthy
<1>5. c.stage # "identified" => Follows(ds, cs)
  BY <1>1, <1>2, <1>3, <1>4 DEF Follows
<1>. QED
  BY <1>4, <1>5 DEF ds
-----------------------------------------------------------------------------
(* What the handlers do to the settings. *)

Distinct(cs) == \A i, j \in DOMAIN cs : cs[i].address = cs[j].address => i = j
NoneTwice(m) == \A f \in ListField : NoDuplicates(m.lists[f])

(* Settings made from others while the connections are cs: the list of     *)
(* servers stays, and no list gets an entry twice.                         *)
Edited(n, m, cs) ==
  /\ IsMessage(n)
  /\ n.lists["serverlist"] = m.lists["serverlist"]
  /\ NoneTwice(m) /\ Distinct(cs) => NoneTwice(n)

LEMMA ListFields ==
  /\ {"serverlist", "extraserver", "usernamelist", "userstatuslist"} \subseteq ListField
  /\ "serverlist" \notin {"extraserver", "usernamelist", "userstatuslist"}
  BY DEF ListField

LEMMA EditedFurther ==
  ASSUME NEW cs, NEW m, NEW n, NEW o, Edited(n, m, cs), Edited(o, n, cs)
  PROVE  Edited(o, m, cs)
  BY DEF Edited

LEMMA SetEdits ==
  ASSUME NEW cs, NEW m, IsMessage(m), NEW f \in Field, NEW v \in Value(f)
  PROVE  Edited(Set(m, f, v), m, cs)
  BY SetType DEF Edited, NoneTwice

LEMMA SetListEdits ==
  ASSUME NEW cs, NEW m, IsMessage(m), NEW f \in ListField \ {"serverlist"},
         NEW list \in Seq(Text), NoneTwice(m) /\ Distinct(cs) => NoDuplicates(list)
  PROVE  Edited(SetList(m, f, list), m, cs)
<1>1. /\ IsMessage(SetList(m, f, list))
      /\ SetList(m, f, list).lists = [m.lists EXCEPT ![f] = list]
  BY SetListType
<1>2. DOMAIN m.lists = ListField
  BY DEF IsMessage
<1>. QED
  BY <1>1, <1>2, ListFields DEF Edited, NoneTwice

LEMMA RememberEdits ==
  ASSUME NEW cs, NEW m, IsMessage(m), NEW v \in Entered
  PROVE  /\ Edited(RememberUserName(m, v), m, cs)
         /\ Edited(RememberStatus(m, v), m, cs)
<1>1. MaxNames \in Nat \ {0}
  BY SettingsAssumption
<1>2. ASSUME NEW f \in ListField \ {"serverlist"}
      PROVE  Edited(RememberInList(m, f, v, MaxNames), m, cs)
  <2>1. CASE v = Empty
    BY <2>1 DEF RememberInList, Edited
  <2>2. CASE v # Empty
    <3>1. v \in Text /\ m.lists[f] \in Seq(Text)
      BY <2>2 DEF Entered, IsMessage
    <3>2. /\ Fronted(m.lists[f], v, MaxNames) \in Seq(Text)
          /\ NoDuplicates(m.lists[f]) => NoDuplicates(Fronted(m.lists[f], v, MaxNames))
      BY <1>1, <3>1, FrontedList
    <3>3. Edited(SetList(m, f, Fronted(m.lists[f], v, MaxNames)), m, cs)
      BY <3>2, SetListEdits DEF NoneTwice
    <3>. QED
      BY <2>2, <3>3 DEF RememberInList, Fronted
  <2>. QED
    BY <2>1, <2>2
<1>. QED
  BY <1>2, ListFields DEF RememberUserName, RememberStatus

LEMMA ConnectEdits ==
  ASSUME NEW cs, NEW m, IsMessage(m), NEW b \in [server : Entered, name : Entered]
  PROVE  Edited(RememberConnect(m, b), m, cs)
<1>1. b.name \in Entered
  OBVIOUS
<1>2. Edited(m, m, cs)
  BY DEF Edited
<1>. QED
  BY <1>1, <1>2, RememberEdits DEF RememberConnect

LEMMA AliasEdits ==
  ASSUME NEW cs, NEW m, IsMessage(m), NEW aliases \in SUBSET (Text \X Text)
  PROVE  /\ Edited(SetAliases(m, aliases), m, cs)
         /\ SetAliases(m, aliases).plain = m.plain /\ SetAliases(m, aliases).aliases = aliases
<1>. DEFINE n == SetAliases(m, aliases)
<1>1. /\ DOMAIN n = {"plain", "lists", "aliases", "installId"} /\ n.plain = m.plain
      /\ n.lists = m.lists /\ n.installId = m.installId /\ n.aliases = aliases
  BY DEF SetAliases, IsMessage
<1>. HIDE DEF n
<1>2. IsMessage(n)
  BY <1>1 DEF IsMessage
<1>3. Edited(n, m, cs) /\ n.plain = m.plain /\ n.aliases = aliases
  BY <1>1, <1>2 DEF Edited, NoneTwice
<1>. QED
  BY <1>3 DEF n

LEMMA ExtrasEdit ==
  ASSUME NEW cs, Healthy(cs), NEW m, IsMessage(m)
  PROVE  /\ Edited(SaveExtraServers(m, cs), m, cs)
         /\ SaveExtraServers(m, cs).plain = m.plain
         /\ SaveExtraServers(m, cs).aliases = m.aliases
         /\ \A g : Get(SaveExtraServers(m, cs), g) = Get(m, g)
<1>. DEFINE list == Extras(cs)
<1>1. /\ DOMAIN cs = 1..Len(cs) /\ Len(cs) \in Nat
      /\ \A i \in DOMAIN cs : cs[i] \in Connection
  BY HealthyList
<1>2. DOMAIN list = 1..(Len(cs) - 1) /\ \A i \in DOMAIN list : list[i] = cs[i + 1].address
  BY DEF Extras
<1>3. \A i \in DOMAIN list : i + 1 \in DOMAIN cs /\ i \in Int
  BY <1>1, <1>2
<1>4. \A i \in DOMAIN list : list[i] \in Text
  BY <1>1, <1>2, <1>3 DEF Connection
<1>5. list \in Seq(Text)
  <2>1. CASE Len(cs) = 0
    <3>1. list = <<>>
      BY <2>1 DEF Extras
    <3>. QED
      BY <3>1, EmptySeq
  <2>2. CASE Len(cs) # 0
    <3>1. Len(cs) - 1 \in Nat
      BY <1>1, <2>2
    <3>2. list \in [1..(Len(cs) - 1) -> Text]
      BY <1>2, <1>4 DEF Extras
    <3>. QED
      BY <3>1, <3>2, SeqDef
  <2>. QED
    BY <2>1, <2>2
<1>. HIDE DEF list
<1>6. ASSUME Distinct(cs)
      PROVE  NoDuplicates(list)
  <2>. SUFFICES ASSUME NEW i \in DOMAIN list, NEW j \in DOMAIN list, list[i] = list[j]
       PROVE  i = j
    BY DEF NoDuplicates
  <2>1. i + 1 = j + 1
    BY <1>2, <1>3, <1>6 DEF Distinct
  <2>. QED
    BY <1>3, <2>1
<1>7. "extraserver" \in ListField \ {"serverlist"}
  BY ListFields
<1>8. Edited(SetList(m, "extraserver", list), m, cs)
  BY <1>5, <1>6, <1>7, SetListEdits
<1>. QED
  BY <1>5, <1>7, <1>8, SetListType DEF SaveExtraServers, list

LEMMA DialogEdits ==
  ASSUME NEW cs, NEW m, IsMessage(m), NEW n,
         n = [m EXCEPT !.plain = [f \in Field |-> IF f \in DialogField THEN Get(m, f) ELSE @[f]]],
         NEW g \in Field, NEW v \in Value(g)
  PROVE  Edited(Set(n, g, v), m, cs)
<1>1. /\ DOMAIN n = {"plain", "lists", "aliases", "installId"} /\ DOMAIN n.plain = Field
      /\ n.lists = m.lists /\ n.installId = m.installId /\ n.aliases = m.aliases
      /\ \A f \in Field : n.plain[f] = IF f \in DialogField THEN Get(m, f) ELSE m.plain[f]
  BY DEF IsMessage
<1>2. \A f \in Field : n.plain[f] = Unset \/ n.plain[f] \in Value(f)
  BY <1>1, GetType DEF IsMessage
<1>3. IsMessage(n)
  BY <1>1, <1>2 DEF IsMessage
<1>4. Edited(n, m, cs)
  BY <1>1, <1>3 DEF Edited, NoneTwice
<1>. QED
  BY <1>3, <1>4, SetEdits, EditedFurther

LEMMA LoadedType ==
  ASSUME NEW saved, saved = Torn \/ IsMessage(saved)
  PROVE  IsMessage(Load(saved))
<1>1. IsMessage(EmptyMessage)
  <2>1. <<>> \in Seq(Text)
    BY EmptySeq
  <2>2. EmptyMessage.lists = [f \in ListField |-> <<>>]
    BY DEF EmptyMessage
  <2>3. EmptyMessage.plain = [f \in Field |-> Unset] /\ EmptyMessage.aliases = {}
        /\ EmptyMessage.installId = 0
        /\ DOMAIN EmptyMessage = {"plain", "lists", "aliases", "installId"}
    BY DEF EmptyMessage
  <2>. QED
    BY <2>1, <2>2, <2>3 DEF IsMessage
<1>. QED
  BY <1>1 DEF Load

LEMMA InstallIdEdits ==
  ASSUME NEW cs, NEW m, IsMessage(m), NEW fresh \in Nat
  PROVE  /\ Edited(WithInstallId(m, fresh), m, cs)
         /\ WithInstallId(m, fresh).plain = m.plain
         /\ WithInstallId(m, fresh).lists = m.lists
         /\ WithInstallId(m, fresh).aliases = m.aliases
         /\ m.installId # 0 => WithInstallId(m, fresh).installId = m.installId
<1>1. CASE m.installId # 0
  BY <1>1 DEF WithInstallId, Edited
<1>2. CASE m.installId = 0
  <2>. DEFINE n == [m EXCEPT !.installId = fresh]
  <2>1. /\ DOMAIN n = {"plain", "lists", "aliases", "installId"} /\ n.plain = m.plain
        /\ n.lists = m.lists /\ n.installId = fresh /\ n.aliases = m.aliases
    BY DEF IsMessage
  <2>. HIDE DEF n
  <2>2. IsMessage(n)
    BY <2>1 DEF IsMessage
  <2>3. Edited(n, m, cs)
    BY <2>1, <2>2 DEF Edited, NoneTwice
  <2>. QED
    BY <1>2, <2>1, <2>3 DEF WithInstallId, n
<1>. QED
  BY <1>1, <1>2

(* The server list that was fetched: what is not removable stays, in its   *)
(* order, and one entry is added at the end.                               *)
LEMMA UpdatedListIs ==
  ASSUME IsMessage(settings), NEW removed \in SUBSET Address, NEW added \in Entered
  PROVE  /\ UpdatedList(removed, added) \in Seq(Text)
         /\ NoDuplicates(GetServerList(settings)) => NoDuplicates(UpdatedList(removed, added))
<1>. DEFINE list == GetServerList(settings)
            kept == Picked(list, {i \in DOMAIN list : list[i] \notin Removable(removed)})
<1>1. list \in Seq(Text)
  <2>1. settings.lists["serverlist"] \in Seq(Text)
    BY ListFields DEF IsMessage
  <2>2. <<Tycom, Agmsmith>> \in Seq(Text)
    BY SettingsAssumption
  <2>. QED
    BY <2>1, <2>2 DEF GetServerList
<1>. HIDE DEF list
<1>2. kept \in Seq(Text) /\ (NoDuplicates(list) => NoDuplicates(kept))
  BY <1>1, PickedType
<1>3. UpdatedList(removed, added) = ListWith(kept, added)
  BY DEF UpdatedList, list
<1>. HIDE DEF kept
<1>4. CASE added = Empty \/ added \in Listed(kept)
  BY <1>2, <1>3, <1>4 DEF ListWith, list
<1>5. CASE ~(added = Empty \/ added \in Listed(kept))
  <2>1. UpdatedList(removed, added) = Append(kept, added) /\ added \in Text
    BY <1>3, <1>5 DEF ListWith, Entered
  <2>. DEFINE L == Append(kept, added)
  <2>2. /\ L \in Seq(Text) /\ Len(L) = Len(kept) + 1
        /\ \A i \in 1..Len(kept) : L[i] = kept[i]
        /\ L[Len(kept) + 1] = added
    BY <1>2, <2>1, AppendProperties
  <2>. HIDE DEF L
  <2>3. DOMAIN L = 1..(Len(kept) + 1) /\ DOMAIN kept = 1..Len(kept) /\ Len(kept) \in Nat
    BY <1>2, <2>2, LenProperties
  <2>4. \A i \in DOMAIN kept : kept[i] # added
    BY <1>5 DEF Listed
  <2>5. NoDuplicates(kept) => NoDuplicates(L)
    BY <2>2, <2>3, <2>4 DEF NoDuplicates
  <2>. QED
    BY <1>2, <2>1, <2>2, <2>5 DEF L, list
<1>. QED
  BY <1>4, <1>5

(* What connects again when the program starts. *)
LEMMA Restored ==
  ASSUME NEW m, IsMessage(m)
  PROVE  /\ Healthy(RestoreExtraServers(m))
         /\ NoneTwice(m) => Distinct(RestoreExtraServers(m))
         /\ \A i \in DOMAIN RestoreExtraServers(m) :
              RestoreExtraServers(m)[i].stage # "identified"
<1>. DEFINE list == m.lists["extraserver"]
            k == Between(0, Len(list), MaxConnections)
            cs == RestoreExtraServers(m)
<1>1. /\ list \in Seq(Text) /\ DOMAIN list = 1..Len(list) /\ Len(list) \in Nat
      /\ \A i \in DOMAIN list : list[i] \in Text
  <2>1. list \in Seq(Text)
    BY ListFields DEF IsMessage
  <2>. QED
    BY <2>1, LenProperties, ElementOfSeq
<1>2. cs = [i \in 1..k |-> NewConnection(list[i])]
  BY DEF RestoreExtraServers
<1>. HIDE DEF cs, list
<1>3. k \in Nat /\ k <= Len(list) /\ k <= MaxConnections
  BY <1>1, ConnectionsAssumption DEF Between
<1>. HIDE DEF k
<1>4. \A i \in 1..k : i \in DOMAIN list /\ list[i] \in Text
  BY <1>1, <1>3
<1>5. \A i \in 1..k : /\ cs[i] \in Connection /\ Truthful(cs[i])
                      /\ cs[i].address = list[i] /\ cs[i].stage = "connecting"
  BY <1>2, <1>4, ConnectionEvents
<1>6. cs \in Seq(Connection) /\ DOMAIN cs = 1..k /\ Len(cs) = k
  <2>1. cs \in [1..k -> Connection]
    BY <1>2, <1>5
  <2>. QED
    BY <1>3, <2>1, SeqDef, LenProperties
<1>7. Healthy(cs)
  BY <1>3, <1>5, <1>6 DEF Healthy
<1>8. NoneTwice(m) => Distinct(cs)
  BY <1>4, <1>5, <1>6, ListFields DEF NoneTwice, Distinct, NoDuplicates, list
<1>. QED
  BY <1>5, <1>6, <1>7, <1>8 DEF cs
-----------------------------------------------------------------------------
(* The steps of the program, by what they do to the connections, the       *)
(* settings and the file.                                                  *)

Goes ==
  /\ Follows(conns', conns)
  /\ Edited(settings', settings, conns')
  /\ file' = file \/ file' = settings'
Begins ==
  /\ IsMessage(settings') /\ Healthy(conns') /\ file' = file
  /\ \A i \in DOMAIN conns' : conns'[i].stage # "identified"
  /\ file = Torn \/ NoneTwice(file) => NoneTwice(settings') /\ Distinct(conns')
Ends ==
  /\ conns' = <<>>
  /\ \/ Edited(settings', settings, conns) /\ file' = settings'
     \/ settings' = EmptyMessage /\ file' \in {file, Torn}

LEMMA TextsAre ==
  /\ Address \subseteq Text /\ Name \subseteq Text /\ Status \subseteq Text
  /\ Folder \subseteq Text /\ Patterns \subseteq Text /\ Text \subseteq Entered
  /\ \A f \in TextField : Value(f) = Entered
  /\ \A f \in SwitchField : Value(f) = BOOLEAN
  BY ApplicationAssumption, FieldsDiffer DEF Value, Entered

LEMMA ChoicesType ==
  ASSUME NEW f \in Varied \cup Kept
  PROVE  f \in Field /\ Choices(f) \subseteq Value(f)
<1>1. f \in SwitchField \cup PatternField \cup {"username", "userstatus"}
  BY ApplicationAssumption
<1>2. CASE f \in SwitchField
  <2>1. f \notin PatternField /\ f # "username" /\ f # "userstatus"
    BY <1>2 DEF PatternField, SwitchField
  <2>2. Choices(f) = BOOLEAN
    BY <1>2, <2>1 DEF Choices
  <2>. QED
    BY <1>2, <2>2, TextsAre, FieldsDiffer
<1>3. CASE f = "username"
  <2>1. f \notin SwitchField /\ f \notin PatternField
    BY <1>3 DEF PatternField, SwitchField
  <2>2. Choices(f) = Name
    BY <1>3, <2>1 DEF Choices
  <2>. QED
    BY <1>3, <2>2, TextsAre, FieldsDiffer
<1>4. CASE f = "userstatus"
  <2>1. f \notin SwitchField /\ f \notin PatternField
    BY <1>4 DEF PatternField, SwitchField
  <2>2. Choices(f) = Status
    BY <1>4, <2>1 DEF Choices
  <2>. QED
    BY <1>4, <2>2, TextsAre, FieldsDiffer
<1>5. CASE f \in PatternField
  <2>1. f \notin SwitchField /\ f # "username" /\ f # "userstatus"
    BY <1>5 DEF PatternField, SwitchField
  <2>2. Choices(f) = Patterns \cup {Empty}
    BY <1>5, <2>1 DEF Choices
  <2>. QED
    BY <1>5, <2>2, TextsAre, FieldsDiffer DEF Entered
<1>. QED
  BY <1>1, <1>2, <1>3, <1>4, <1>5

LEMMA StartKind ==
  ASSUME TypeOK, KeptOK, Healthy(conns), Start
  PROVE  /\ Goes \/ Begins
         /\ up' \in {"up", "crashed"} /\ fetch' \in 0..2 /\ starts' \in Nat
         /\ box' \in [server : Entered, name : Entered]
<1>. DEFINE saved == Load(file)
            loaded == WithInstallId(saved, starts + 1)
            b == NameBox(ServerBox(EmptyBox, loaded), loaded)
            cs == RestoreExtraServers(loaded)
<1>1. IsMessage(saved)
  BY LoadedType DEF KeptOK
<1>2. /\ IsMessage(loaded) /\ loaded.lists = saved.lists
      /\ starts + 1 \in Nat
  BY <1>1, InstallIdEdits DEF Edited, KeptOK
<1>3. file = Torn \/ NoneTwice(file) => NoneTwice(loaded)
  <2>1. NoneTwice(EmptyMessage)
    BY DEF NoneTwice, NoDuplicates, EmptyMessage
  <2>2. file = Torn \/ NoneTwice(file) => NoneTwice(saved)
    BY <2>1 DEF Load
  <2>. QED
    BY <1>2, <2>2 DEF NoneTwice
<1>. HIDE DEF saved, loaded
<1>4. b \in [server : Entered, name : Entered]
  <2>1. /\ "server" \in Field /\ "username" \in Field
        /\ Value("server") = Entered /\ Value("username") = Entered
    BY FieldsDiffer, TextsAre
  <2>2. Get(loaded, "server") \in Entered /\ Get(loaded, "username") \in Entered
    BY <1>2, <2>1, GetType
  <2>. QED
    BY <2>2 DEF NameBox, ServerBox, EmptyBox, Entered
<1>. HIDE DEF b
<1>5. /\ Healthy(cs)
      /\ NoneTwice(loaded) => Distinct(cs)
      /\ \A i \in DOMAIN cs : cs[i].stage # "identified"
  BY <1>2, Restored
<1>. HIDE DEF cs
<1>6. CASE ~Get(loaded, "notifications")
  <2>1. up' = "crashed" /\ UNCHANGED <<settings, box, conns, fetch, file>> /\ starts' = starts + 1
    BY <1>6 DEF Start, loaded, saved
  <2>2. Goes
    BY <2>1, HealthyList DEF Goes, Edited, TypeOK
  <2>. QED
    BY <1>2, <2>1, <2>2 DEF TypeOK, KeptOK
<1>7. CASE Get(loaded, "notifications")
  <2>. DEFINE connects == Get(loaded, "connectonstartup")
  <2>1. /\ up' = "up" /\ box' = b /\ file' = file /\ starts' = starts + 1
        /\ settings' = IF connects THEN RememberConnect(loaded, b) ELSE loaded
        /\ conns' = IF connects THEN ConnectTo(cs, b) ELSE cs
        /\ fetch' = IF Get(loaded, "autoupdateservers") THEN 1 ELSE 0
    BY <1>7 DEF Start, b, cs, loaded, saved
  <2>. HIDE DEF connects
  <2>2. Follows(conns', cs)
    BY <1>4, <1>5, <2>1, ConnectsTo, HealthyList
  <2>3. Edited(settings', loaded, conns')
    BY <1>2, <1>4, <2>1, ConnectEdits DEF Edited
  <2>4. Distinct(cs) => Distinct(conns')
    BY <2>2 DEF Follows, Distinct
  <2>5. \A i \in DOMAIN conns' : conns'[i].stage # "identified"
    BY <1>5, <2>2 DEF Follows
  <2>6. IsMessage(settings') /\ Healthy(conns') /\ file' = file
    BY <2>1, <2>2, <2>3 DEF Follows, Edited
  <2>7. file = Torn \/ NoneTwice(file) => NoneTwice(settings') /\ Distinct(conns')
    BY <1>3, <1>5, <2>3, <2>4 DEF Edited
  <2>8. Begins
    BY <2>5, <2>6, <2>7 DEF Begins
  <2>. QED
    BY <1>2, <1>4, <2>1, <2>8
<1>. QED
  BY <1>6, <1>7

LEMMA UserKind ==
  ASSUME TypeOK, KeptOK, Healthy(conns), UserAction
  PROVE  Goes
<1>1. /\ IsMessage(settings) /\ box \in [server : Entered, name : Entered]
      /\ Follows(conns, conns) /\ \A cs : Edited(settings, settings, cs)
  BY HealthyList DEF TypeOK, KeptOK, Edited
<1>2. /\ \A f \in TextField : f \in Field /\ Value(f) = Entered
      /\ \A f \in SwitchField : f \in Field /\ Value(f) = BOOLEAN
      /\ \A port \in ListenPort : port \in Nat
      /\ {"username", "userstatus", "sharedir"} \subseteq TextField
      /\ {"sharingenabled", "notifications"} \subseteq SwitchField
  BY TextsAre, FieldsDiffer, ApplicationAssumption DEF SwitchField
<1>3. ASSUME NEW a \in Address, NEW n \in Name, TypeIntoBoxes(a, n)
      PROVE  Goes
  BY <1>1, <1>3 DEF TypeIntoBoxes, Goes
<1>4. ASSUME NEW b \in [server : Entered, name : Entered], Connect(b), file' = file
      PROVE  Goes
  BY <1>1, <1>4, ConnectsTo, ConnectEdits DEF Connect, Goes
<1>5. CASE ConnectButton
  BY <1>1, <1>4, <1>5 DEF ConnectButton
<1>6. ASSUME NEW a \in Address \cup {Empty}, ConnectCommand(a)
      PROVE  Goes
  <2>1. a \in Entered
    BY TextsAre DEF Entered
  <2>2. [box EXCEPT !.server = a] \in [server : Entered, name : Entered]
    BY <1>1, <2>1
  <2>. QED
    BY <1>1, <1>4, <1>6, <2>2 DEF ConnectCommand
<1>7. ASSUME NEW a \in Address, ConnectAdditionalServer(a)
      PROVE  Goes
  <2>. DEFINE cs == AddConnection(conns, a)
  <2>1. /\ conns' = ApplyTo(cs, settings) /\ file' = file
        /\ settings' = SaveExtraServers(settings, conns')
    BY <1>7 DEF ConnectAdditionalServer
  <2>2. Follows(cs, conns)
    BY TextsAre, Added
  <2>3. Healthy(cs)
    BY <2>2 DEF Follows
  <2>. HIDE DEF cs
  <2>4. Follows(conns', cs)
    BY <1>1, <2>1, <2>3, Applies
  <2>5. Follows(conns', conns) /\ Healthy(conns')
    BY <2>2, <2>4, FollowsFurther DEF Follows
  <2>6. Edited(settings', settings, conns')
    BY <1>1, <2>1, <2>5, ExtrasEdit
  <2>. QED
    BY <2>1, <2>5, <2>6 DEF Goes
<1>8. CASE DisconnectEverything
  BY <1>1, <1>8, Told DEF DisconnectEverything, Goes
<1>9. ASSUME NEW n \in Name, Nick(n)
      PROVE  Goes
  <2>. DEFINE m == Set(settings, "username", n)
  <2>1. n \in Entered
    BY TextsAre
  <2>2. Edited(m, settings, conns') /\ IsMessage(m)
    BY <1>1, <1>2, <2>1, SetEdits DEF Edited
  <2>3. /\ conns' = SetLocalUserName(conns, n) /\ settings' = RememberUserName(m, n)
        /\ file' = file
    BY <1>9 DEF Nick
  <2>. HIDE DEF m
  <2>4. Edited(settings', m, conns')
    BY <2>1, <2>2, <2>3, RememberEdits
  <2>5. Edited(settings', settings, conns') /\ Follows(conns', conns)
    BY <2>1, <2>2, <2>3, <2>4, EditedFurther, Told
  <2>. QED
    BY <2>3, <2>5 DEF Goes
<1>10. ASSUME NEW s \in Status, SetUserStatus(s)
       PROVE  Goes
  <2>. DEFINE m == Set(settings, "userstatus", s)
  <2>1. s \in Entered
    BY TextsAre
  <2>2. Edited(m, settings, conns') /\ IsMessage(m)
    BY <1>1, <1>2, <2>1, SetEdits DEF Edited
  <2>3. /\ conns' = SetLocalUserStatus(conns, s) /\ settings' = RememberStatus(m, s)
        /\ file' = file
    BY <1>10 DEF SetUserStatus
  <2>. HIDE DEF m
  <2>4. Edited(settings', m, conns')
    BY <2>1, <2>2, <2>3, RememberEdits
  <2>5. Edited(settings', settings, conns') /\ Follows(conns', conns)
    BY <2>1, <2>2, <2>3, <2>4, EditedFurther, Told
  <2>. QED
    BY <2>3, <2>5 DEF Goes
<1>11. ASSUME NEW f \in Varied \cap DialogField, NEW port \in ListenPort, NEW v \in Choices(f),
              ShowSettings(f, v, port)
       PROVE  Goes
  <2>. DEFINE m == ApplyToSettings(f, v)
              applied == ApplyTo(conns, m)
              restarts == CanShare(settings) \/ CanShare(m)
              starting == CanShare(m) /\ IsAnyConnected(conns)
              stopped == IF restarts THEN StopSharing(applied) ELSE applied
  <2>1. /\ settings' = m /\ file' = m
        /\ conns' = IF starting THEN StartSharing(stopped, m, port) ELSE stopped
    BY <1>11 DEF ShowSettings
  <2>2. Edited(m, settings, conns') /\ IsMessage(m)
    <3>1. f \in Field /\ v \in Value(f)
      BY ChoicesType
    <3>. QED
      BY <1>1, <3>1, DialogEdits DEF ApplyToSettings, Edited
  <2>. HIDE DEF m, restarts, starting
  <2>3. Follows(applied, conns)
    BY <2>2, Applies
  <2>4. Healthy(applied)
    BY <2>3 DEF Follows
  <2>. HIDE DEF applied
  <2>5. Follows(stopped, applied)
    BY <2>4, SharingTold, HealthyList
  <2>6. Healthy(stopped)
    BY <2>5 DEF Follows
  <2>. HIDE DEF stopped
  <2>7. Follows(conns', stopped)
    BY <1>2, <2>1, <2>6, SharingTold, HealthyList
  <2>8. Follows(conns', conns)
    BY <2>3, <2>5, <2>7, FollowsFurther
  <2>. QED
    BY <2>1, <2>2, <2>8 DEF Goes
<1>12. ASSUME NEW f \in Varied \cap PatternField, NEW p \in Choices(f), FilterCommand(f, p)
       PROVE  Goes
  <2>1. f \in Field /\ p \in Value(f)
    BY ChoicesType
  <2>. QED
    BY <1>1, <1>12, <2>1, SetEdits DEF FilterCommand, Goes
<1>13. ASSUME NEW aliases \in AliasSets, AliasCommand(aliases)
       PROVE  Goes
  <2>1. aliases \in SUBSET (Text \X Text)
    BY TextsAssumption DEF AliasSets
  <2>. QED
    BY <1>1, <1>13, <2>1, AliasEdits DEF AliasCommand, Goes
<1>14. ASSUME NEW enabled \in BOOLEAN, ToggleNotifications(enabled)
       PROVE  Goes
  BY <1>1, <1>2, <1>14, SetEdits DEF ToggleNotifications, Goes
<1>15. ASSUME NEW port \in ListenPort, ToggleFileSharing(port)
       PROVE  Goes
  <2>. DEFINE m == Set(settings, "sharingenabled", ~CanShare(settings))
  <2>1. Edited(m, settings, conns')
    BY <1>1, <1>2, SetEdits
  <2>2. /\ settings' = m /\ file' = file
        /\ \/ conns' = StartSharing(conns, m, port)
           \/ conns' = conns
           \/ conns' = StopSharing(conns)
    BY <1>15 DEF ToggleFileSharing
  <2>3. Follows(conns', conns)
    BY <1>1, <1>2, <2>2, SharingTold
  <2>. QED
    BY <2>1, <2>2, <2>3 DEF Goes
<1>16. ASSUME NEW folder \in Folder, NEW port \in ListenPort, ChooseShareFolder(folder, port)
       PROVE  Goes
  <2>. DEFINE m == Set(settings, "sharedir", folder)
              cs == StopSharing(conns)
  <2>1. folder \in Entered
    BY TextsAre
  <2>2. Edited(m, settings, conns')
    BY <1>1, <1>2, <2>1, SetEdits
  <2>3. /\ settings' = m /\ file' = file
        /\ conns' = StartSharing(cs, m, port) \/ conns' = conns
    BY <1>16 DEF ChooseShareFolder
  <2>4. Follows(cs, conns)
    BY SharingTold
  <2>5. Healthy(cs)
    BY <2>4 DEF Follows
  <2>. HIDE DEF cs
  <2>6. \A n : Follows(StartSharing(cs, n, port), cs)
    BY <1>2, <2>5, SharingTold
  <2>7. Follows(conns', conns)
    BY <1>1, <2>3, <2>4, <2>6, FollowsFurther
  <2>. QED
    BY <2>2, <2>3, <2>7 DEF Goes
<1>. QED
  BY <1>3, <1>5, <1>6, <1>7, <1>8, <1>9, <1>10, <1>11, <1>12, <1>13, <1>14, <1>15, <1>16
  DEF UserAction

ServersReceived ==
  \E removed \in SUBSET Address, added \in Address \cup {Empty} :
    ServerListReceived(removed, added)
SessionAssigned ==
  \E i \in DOMAIN conns, port \in ListenPort : LocalSessionIdAssigned(i, port)

LEMMA EventKind ==
  ASSUME TypeOK, KeptOK, Healthy(conns),
         \/ ServerListFails
         \/ \E i \in DOMAIN conns : ConnectionMade(i)
         \/ \E i \in DOMAIN conns : ConnectionLost(i)
         \/ ScannerFinds
         \/ DrainShareScanner
  PROVE  Goes
<1>1. /\ Follows(conns, conns) /\ \A cs : Edited(settings, settings, cs)
      /\ \A i \in DOMAIN conns : conns[i] \in Connection /\ Truthful(conns[i])
  BY HealthyList DEF TypeOK, Edited
<1>2. CASE ServerListFails \/ ScannerFinds
  BY <1>1, <1>2 DEF ServerListFails, ScannerFinds, Goes
<1>3. ASSUME NEW i \in DOMAIN conns, ConnectionMade(i)
      PROVE  Goes
  <2>. DEFINE c == PublishUserStatus(PublishUserName([conns[i] EXCEPT !.stage = "connected"]))
  <2>1. /\ c \in Connection /\ Truthful(c)
        /\ c.address = conns[i].address /\ c.stage # "identified"
    BY <1>1, <1>3, ConnectionEvents DEF ConnectionMade
  <2>2. /\ conns' = [conns EXCEPT ![i] = c]
        /\ UNCHANGED <<settings, file>>
    BY <1>3 DEF ConnectionMade, SessionConnected
  <2>. HIDE DEF c
  <2>3. Follows(conns', conns)
    BY <2>1, <2>2, OneChanges
  <2>. QED
    BY <1>1, <2>2, <2>3 DEF Goes
<1>4. ASSUME NEW i \in DOMAIN conns, ConnectionLost(i)
      PROVE  Goes
  <2>. DEFINE c == DisconnectOn(conns[i])
  <2>1. /\ c \in Connection /\ Truthful(c)
        /\ c.address = conns[i].address /\ c.stage # "identified"
    BY <1>1, ConnectionEvents
  <2>2. /\ conns' = [conns EXCEPT ![i] = c]
        /\ UNCHANGED <<settings, file>>
    BY <1>4 DEF ConnectionLost, SessionDisconnected
  <2>. HIDE DEF c
  <2>3. Follows(conns', conns)
    BY <2>1, <2>2, OneChanges
  <2>. QED
    BY <1>1, <2>2, <2>3 DEF Goes
<1>5. CASE DrainShareScanner
  BY <1>1, <1>5, Told DEF DrainShareScanner, Goes
<1>. QED
  BY <1>2, <1>3, <1>4, <1>5

LEMMA EndKind ==
  ASSUME TypeOK, KeptOK, Healthy(conns), Close \/ Crash \/ CrashWhileSaving
  PROVE  Ends
<1>1. CASE Crash \/ CrashWhileSaving
  BY <1>1 DEF Crash, CrashWhileSaving, Gone, Ends
<1>2. CASE Close
  <2>. DEFINE a == Set(settings, "server", box.server)
              b == Set(a, "username", box.name)
              c == Set(b, "userstatus", Get(settings, "userstatus"))
  <2>1. /\ {"server", "username", "userstatus"} \subseteq Field
        /\ Value("server") = Entered /\ Value("username") = Entered
        /\ Value("userstatus") = Entered
        /\ box.server \in Entered /\ box.name \in Entered
    BY FieldsDiffer, TextsAre DEF KeptOK
  <2>2. IsMessage(settings) /\ Get(settings, "userstatus") \in Entered
    BY <2>1, GetType DEF TypeOK
  <2>3. Edited(a, settings, conns) /\ IsMessage(a)
    BY <2>1, <2>2, SetEdits DEF Edited
  <2>4. settings' = SaveExtraServers(c, conns) /\ file' = settings' /\ conns' = <<>>
    BY <1>2 DEF Close, ClosingSettings, Gone
  <2>. HIDE DEF a
  <2>5. Edited(b, a, conns) /\ IsMessage(b)
    BY <2>1, <2>3, SetEdits DEF Edited
  <2>. HIDE DEF b
  <2>6. Edited(c, b, conns) /\ IsMessage(c)
    BY <2>1, <2>2, <2>5, SetEdits DEF Edited
  <2>. HIDE DEF c
  <2>7. Edited(settings', c, conns)
    BY <2>4, <2>6, ExtrasEdit
  <2>8. Edited(settings', settings, conns)
    BY <2>3, <2>5, <2>6, <2>7, EditedFurther
  <2>. QED
    BY <2>4, <2>8 DEF Ends
<1>. QED
  BY <1>1, <1>2

LEMMA Kinds ==
  ASSUME TypeOK, KeptOK, Healthy(conns), [Next]_vars
  PROVE  Goes \/ Begins \/ Ends \/ ServersReceived \/ SessionAssigned
<1>1. CASE UNCHANGED vars
  BY <1>1, HealthyList DEF vars, Goes, Edited, TypeOK
<1>2. CASE Start
  BY <1>2, StartKind
<1>3. CASE UserAction
  BY <1>3, UserKind
<1>. QED
  BY <1>1, <1>2, <1>3, EventKind, EndKind DEF Next, ServersReceived, SessionAssigned

LEMMA ReceivedList ==
  ASSUME TypeOK, ServersReceived
  PROVE  /\ conns' = conns /\ IsMessage(settings') /\ (file' = file \/ file' = settings')
         /\ NoneTwice(settings) => NoneTwice(settings')
<1>1. PICK removed \in SUBSET Address :
        \E a \in Address \cup {Empty} : ServerListReceived(removed, a)
  BY DEF ServersReceived
<1>2. PICK added \in Address \cup {Empty} : ServerListReceived(removed, added)
  BY <1>1
<1>3. IsMessage(settings) /\ conns' = conns /\ added \in Entered
  BY <1>2, TextsAre DEF TypeOK, ServerListReceived, Entered
<1>. DEFINE list == UpdatedList(removed, added)
            m == SetList(settings, "serverlist", list)
<1>4. \/ UNCHANGED <<settings, file>>
      \/ settings' = m /\ file' = m
  BY <1>2 DEF ServerListReceived
<1>5. /\ list \in Seq(Text)
      /\ NoDuplicates(GetServerList(settings)) => NoDuplicates(list)
  BY <1>3, UpdatedListIs
<1>. HIDE DEF list
<1>6. /\ IsMessage(m) /\ m.lists = [settings.lists EXCEPT !["serverlist"] = list]
      /\ DOMAIN settings.lists = ListField
  <2>1. "serverlist" \in ListField
    BY ListFields
  <2>2. /\ IsMessage(m) /\ m.lists = [settings.lists EXCEPT !["serverlist"] = list]
    BY <1>3, <1>5, <2>1, SetListType
  <2>. QED
    BY <1>3, <2>2 DEF IsMessage
<1>7. NoneTwice(settings) => NoDuplicates(GetServerList(settings))
  <2>1. NoDuplicates(<<Tycom, Agmsmith>>)
    BY SettingsAssumption DEF NoDuplicates
  <2>. QED
    BY <2>1, ListFields DEF GetServerList, NoneTwice
<1>. HIDE DEF m
<1>8. NoneTwice(settings) => NoneTwice(m)
  BY <1>5, <1>6, <1>7 DEF NoneTwice
<1>. QED
  BY <1>3, <1>4, <1>6, <1>8

LEMMA AssignedSession ==
  ASSUME TypeOK, KeptOK, Healthy(conns), NEW i \in DOMAIN conns, NEW port \in ListenPort,
         LocalSessionIdAssigned(i, port)
  PROVE  /\ Healthy(conns') /\ IsMessage(settings') /\ file' = file
         /\ NoneTwice(settings) => NoneTwice(settings')
         /\ DOMAIN conns' = DOMAIN conns
         /\ \A j \in DOMAIN conns :
              /\ conns'[j].address = conns[j].address
              /\ conns'[j].stage = "identified" => j = i \/ conns[j].stage = "identified"
<1>. DEFINE c == [conns[i] EXCEPT !.stage = "identified"]
            ds == HandleParameters(conns, i)
<1>1. /\ \A j \in DOMAIN conns : conns[j] \in Connection /\ Truthful(conns[j])
      /\ IsMessage(settings)
  BY HealthyList DEF TypeOK
<1>2. c \in Connection /\ Truthful(c) /\ c.address = conns[i].address
  BY <1>1, ConnectionEvents DEF LocalSessionIdAssigned
<1>3. ds = [conns EXCEPT ![i] = c]
  BY DEF HandleParameters
<1>. HIDE DEF c
<1>4. Healthy([conns EXCEPT ![i] = c])
  BY <1>2, OneChanges
<1>5. Healthy(ds) /\ DOMAIN ds = DOMAIN conns
      /\ \A j \in DOMAIN conns : ds[j].address = conns[j].address /\ (j # i => ds[j] = conns[j])
  BY <1>2, <1>3, <1>4
<1>6. conns' = StartSharing(ds, settings, port)
  BY DEF LocalSessionIdAssigned
<1>. HIDE DEF ds
<1>7. Follows(conns', ds)
  BY <1>5, <1>6, SharingTold, ApplicationAssumption
<1>8. DOMAIN conns' = DOMAIN ds
  BY <1>6 DEF StartSharing, SetAdvertisedPort
<1>9. conns[i].address \in Text
  BY <1>1 DEF Connection
<1>10. /\ settings' = RememberServer(settings, conns[i].address) /\ file' = file
  BY DEF LocalSessionIdAssigned
<1>11. IsMessage(settings') /\ (NoneTwice(settings) => NoneTwice(settings'))
  <2>1. MaxServers \in Nat \ {0} /\ "serverlist" \in ListField /\ conns[i].address # Empty
    BY <1>9, SettingsAssumption, ListFields, TextsAssumption
  <2>2. /\ IsMessage(settings')
        /\ settings'.lists = [settings.lists EXCEPT
             !["serverlist"] = Fronted(settings.lists["serverlist"], conns[i].address, MaxServers)]
    BY <1>1, <1>9, <1>10, <2>1, RememberedType DEF RememberServer, Entered
  <2>3. settings.lists["serverlist"] \in Seq(Text) /\ DOMAIN settings.lists = ListField
    BY <1>1, <2>1 DEF IsMessage
  <2>4. NoDuplicates(settings.lists["serverlist"]) =>
          NoDuplicates(Fronted(settings.lists["serverlist"], conns[i].address, MaxServers))
    BY <1>9, <2>1, <2>3, FrontedList
  <2>. QED
    BY <2>1, <2>2, <2>3, <2>4 DEF NoneTwice
<1>. QED
  BY <1>5, <1>7, <1>8, <1>10, <1>11 DEF Follows
-----------------------------------------------------------------------------
(* Types, and what the servers hold of us.                                 *)

(* The rest of the window. *)
WindowOK ==
  /\ up \in {"closed", "up", "crashed"}
  /\ scan \in [walking : BOOLEAN, pending : BOOLEAN]
  /\ fetch \in 0..2
  /\ box \in [server : Entered, name : Entered]
  /\ starts \in Nat

LEMMA BoxFilled ==
  ASSUME NEW b \in [server : Entered, name : Entered], NEW m, IsMessage(m)
  PROVE  /\ NameBox(b, m) \in [server : Entered, name : Entered]
         /\ ServerBox(b, m) \in [server : Entered, name : Entered]
<1>1. /\ "server" \in Field /\ "username" \in Field
      /\ Value("server") = Entered /\ Value("username") = Entered
  BY FieldsDiffer, TextsAre
<1>2. Get(m, "server") \in Entered /\ Get(m, "username") \in Entered
  BY <1>1, GetType
<1>. QED
  BY <1>2 DEF NameBox, ServerBox

LEMMA ScanFlags ==
  ASSUME NEW sc \in [walking : BOOLEAN, pending : BOOLEAN]
  PROVE  /\ StopScan(sc) \in [walking : BOOLEAN, pending : BOOLEAN]
         /\ \A m : StartScan(sc, m) \in [walking : BOOLEAN, pending : BOOLEAN]
  BY DEF StopScan, StartScan

LEMMA WindowStep ==
  ASSUME TypeOK, KeptOK, Healthy(conns), IsMessage(settings'), [Next]_vars
  PROVE  WindowOK'
<1>. DEFINE Boxes == [server : Entered, name : Entered]
            Scans == [walking : BOOLEAN, pending : BOOLEAN]
<1>1. /\ up \in {"closed", "up", "crashed"} /\ fetch \in 0..2
      /\ scan \in Scans /\ box \in Boxes /\ starts \in Nat
  BY DEF TypeOK, KeptOK
<1>2. /\ StopScan(scan) \in Scans /\ \A m : StartScan(scan, m) \in Scans
      /\ \A b \in Boxes : NameBox(b, settings') \in Boxes /\ ServerBox(b, settings') \in Boxes
  BY <1>1, BoxFilled, ScanFlags
<1>. SUFFICES /\ up' \in {"closed", "up", "crashed"} /\ fetch' \in 0..2
              /\ scan' \in Scans /\ box' \in Boxes /\ starts' \in Nat
  BY DEF WindowOK
<1>. HIDE DEF Scans, Boxes
<1>3. CASE UNCHANGED vars
  BY <1>1, <1>3 DEF vars
<1>4. CASE Start
  BY <1>1, <1>4, StartKind DEF Start, Boxes
<1>5. CASE UserAction
  <2>1. UNCHANGED <<up, fetch, starts>>
    BY <1>5 DEF UserAction, TypeIntoBoxes, ConnectButton, ConnectCommand, ConnectAdditionalServer,
         DisconnectEverything, Nick, SetUserStatus, ShowSettings, FilterCommand, AliasCommand,
         ToggleNotifications, ToggleFileSharing, ChooseShareFolder, Act, Stays
  <2>2. scan' \in {scan, StopScan(scan)} \/ \E m : scan' = StartScan(scan, m)
    BY <1>5 DEF UserAction, TypeIntoBoxes, ConnectButton, ConnectCommand, ConnectAdditionalServer,
         DisconnectEverything, Nick, SetUserStatus, ShowSettings, FilterCommand, AliasCommand,
         ToggleNotifications, ToggleFileSharing, ChooseShareFolder
  <2>3. box' \in Boxes
    <3>1. ASSUME NEW a \in Address, NEW n \in Name, TypeIntoBoxes(a, n)
          PROVE  box' \in Boxes
      BY <3>1, TextsAre DEF TypeIntoBoxes, Boxes
    <3>2. CASE ConnectButton
      BY <1>1, <3>2 DEF ConnectButton, Connect
    <3>3. ASSUME NEW a \in Address \cup {Empty}, ConnectCommand(a)
          PROVE  box' \in Boxes
      BY <1>1, <3>3, TextsAre DEF ConnectCommand, Connect, Boxes, Entered
    <3>4. ASSUME NEW n \in Name, Nick(n)
          PROVE  box' \in Boxes
      BY <1>1, <3>4, TextsAre DEF Nick, Boxes
    <3>5. ASSUME NEW f \in Varied \cap DialogField, NEW port \in ListenPort, NEW v \in Choices(f),
                 ShowSettings(f, v, port)
          PROVE  box' \in Boxes
      BY <1>1, <1>2, <3>5 DEF ShowSettings
    <3>6. CASE box' = box
      BY <1>1, <3>6
    <3>. QED
      BY <1>5, <3>1, <3>2, <3>3, <3>4, <3>5, <3>6 DEF UserAction, ConnectAdditionalServer,
         DisconnectEverything, SetUserStatus, FilterCommand, AliasCommand,
         ToggleNotifications, ToggleFileSharing, ChooseShareFolder
  <2>. QED
    BY <1>1, <1>2, <2>1, <2>2, <2>3
<1>6. CASE ServersReceived
  <2>1. UNCHANGED <<up, scan, starts>> /\ fetch' = 0
    BY <1>6 DEF ServersReceived, ServerListReceived, Act, Stays
  <2>2. box' = box \/ box' = ServerBox(box, settings')
    BY <1>6 DEF ServersReceived, ServerListReceived
  <2>. QED
    BY <1>1, <1>2, <2>1, <2>2
<1>7. CASE ServerListFails
  <2>1. UNCHANGED <<up, scan, starts, box>> /\ fetch' = (fetch + 1) % 3
    BY <1>7 DEF ServerListFails, Event, Stays
  <2>2. fetch' \in 0..2
    BY <1>1, <2>1
  <2>. QED
    BY <1>1, <2>1, <2>2
<1>8. CASE \/ \E i \in DOMAIN conns : ConnectionMade(i) \/ ConnectionLost(i)
           \/ DrainShareScanner \/ ScannerFinds
  <2>1. UNCHANGED <<up, starts, box, fetch>>
    BY <1>8 DEF ConnectionMade, ConnectionLost, DrainShareScanner, ScannerFinds, Event, Stays
  <2>2. \/ scan' = scan
        \/ scan' = [walking |-> FALSE, pending |-> TRUE]
        \/ scan' = [scan EXCEPT !.pending = FALSE]
    BY <1>8 DEF ConnectionMade, ConnectionLost, DrainShareScanner, ScannerFinds
  <2>3. [scan EXCEPT !.pending = FALSE] \in Scans /\ [walking |-> FALSE, pending |-> TRUE] \in Scans
    BY <1>1 DEF Scans
  <2>. QED
    BY <1>1, <2>1, <2>2, <2>3
<1>9. CASE SessionAssigned
  <2>1. UNCHANGED <<up, starts, fetch>>
    BY <1>9 DEF SessionAssigned, LocalSessionIdAssigned, Event, Stays
  <2>2. scan' = StartScan(scan, settings) /\ box' = ServerBox(box, settings')
    BY <1>9 DEF SessionAssigned, LocalSessionIdAssigned
  <2>. QED
    BY <1>1, <1>2, <2>1, <2>2
<1>10. CASE Close \/ Crash \/ CrashWhileSaving
  <2>1. /\ up' \in {"closed", "crashed"} /\ fetch' = 0 /\ starts' = starts
        /\ scan' = NotScanning /\ box' = EmptyBox
    BY <1>10 DEF Close, Crash, CrashWhileSaving, Gone
  <2>. QED
    BY <1>1, <2>1 DEF NotScanning, EmptyBox, Boxes, Scans, Entered
<1>. QED
  BY <1>3, <1>4, <1>5, <1>6, <1>7, <1>8, <1>9, <1>10
  DEF Next, ServersReceived, SessionAssigned

LEMMA MessagesStep ==
  ASSUME TypeOK, KeptOK, Healthy(conns), [Next]_vars
  PROVE  IsMessage(settings') /\ Healthy(conns') /\ (file' = Torn \/ IsMessage(file'))
<1>1. IsMessage(EmptyMessage)
  BY LoadedType DEF Load
<1>2. Healthy(<<>>)
  BY EmptySeq, ConnectionsAssumption DEF Healthy
<1>3. CASE Goes
  BY <1>3 DEF Goes, Follows, Edited, KeptOK
<1>4. CASE Begins
  BY <1>4 DEF Begins, KeptOK
<1>5. CASE Ends
  BY <1>1, <1>2, <1>5 DEF Ends, Edited, KeptOK
<1>6. CASE ServersReceived
  BY <1>6, ReceivedList DEF KeptOK
<1>7. CASE SessionAssigned
  BY <1>7, AssignedSession DEF KeptOK, SessionAssigned
<1>. QED
  BY <1>3, <1>4, <1>5, <1>6, <1>7, Kinds

(* The settings files that an earlier run may have left. *)
LEMMA EarlierType ==
  ASSUME NEW saved \in Earlier
  PROVE  IsMessage(saved) /\ saved.lists = EmptyMessage.lists
<1>1. IsMessage(EmptyMessage)
  BY LoadedType DEF Load
<1>2. ASSUME NEW f \in Kept, NEW v \in Choices(f)
      PROVE  /\ IsMessage(Set(EmptyMessage, f, v))
             /\ Set(EmptyMessage, f, v).lists = EmptyMessage.lists
  <2>1. f \in Field /\ v \in Value(f)
    BY ChoicesType
  <2>. QED
    BY <1>1, <2>1, SetType
<1>3. saved = EmptyMessage \/ \E f \in Kept : \E v \in Choices(f) : saved = Set(EmptyMessage, f, v)
  BY DEF Earlier
<1>. QED
  BY <1>1, <1>2, <1>3

(* The inductive invariant: the type invariant, what the file and the      *)
(* fields hold, and what every server holds of us.                         *)
Typed == TypeOK /\ KeptOK /\ Healthy(conns)

LEMMA TypedInit == Init => Typed
<1>. SUFFICES ASSUME Init
     PROVE  Typed
  OBVIOUS
<1>1. IsMessage(file) /\ IsMessage(settings)
  BY EarlierType DEF Init
<1>2. Healthy(conns)
  BY EmptySeq, ConnectionsAssumption DEF Healthy, Init
<1>3. WindowOK
  BY DEF WindowOK, Init, NotScanning, EmptyBox, Entered
<1>. QED
  BY <1>1, <1>2, <1>3 DEF Typed, TypeOK, KeptOK, WindowOK, Healthy

LEMMA TypedStep == Typed /\ [Next]_vars => Typed'
<1>. SUFFICES ASSUME Typed, [Next]_vars
     PROVE  Typed'
  OBVIOUS
<1>1. IsMessage(settings') /\ Healthy(conns)' /\ (file' = Torn \/ IsMessage(file'))
  BY MessagesStep DEF Typed, Healthy
<1>2. WindowOK'
  BY <1>1, WindowStep DEF Typed
<1>. QED
  BY <1>1, <1>2 DEF Typed, TypeOK, KeptOK, WindowOK, Healthy

LEMMA AlwaysTyped == Spec => []Typed
  BY TypedInit, TypedStep, PTL DEF Spec

(* Type correctness of the program: there are never more connections than  *)
(* ConnectionManager allows, and the settings are a message with fields of *)
(* their types, whatever the user, the servers and crashes do.             *)
THEOREM TypeCorrect == Spec => []TypeOK
<1>1. Typed => TypeOK
  BY DEF Typed
<1>. QED
  BY <1>1, AlwaysTyped, PTL

(* What a server holds of us is what its connection would send now: no     *)
(* setter of ServerConnection, in whatever stage of the connection and     *)
(* order it is called, leaves the server with an old name, status or port, *)
(* or our files under the node that says the wrong thing of the firewall.  *)
THEOREM PublishedStaysCurrent == Spec => []PublishedIsCurrent
<1>1. Typed => PublishedIsCurrent
  BY DEF Typed, Healthy, Truthful, PublishedIsCurrent, Current
<1>. QED
  BY <1>1, AlwaysTyped, PTL
-----------------------------------------------------------------------------
(* Lists. *)

(* The inductive invariant: no address is connected to twice, which is     *)
(* what makes a list of the extra servers, and no file has an entry twice. *)
NothingTwice ==
  /\ Distinct(conns) /\ NoneTwice(settings)
  /\ file = Torn \/ NoneTwice(file)

LEMMA NothingTwiceInit == Init => NothingTwice
<1>. SUFFICES ASSUME Init
     PROVE  NothingTwice
  OBVIOUS
<1>1. NoneTwice(file) /\ NoneTwice(settings)
  BY EarlierType DEF Init, NoneTwice, NoDuplicates, EmptyMessage
<1>. QED
  BY <1>1 DEF NothingTwice, Distinct, Init

LEMMA NothingTwiceStep == Typed /\ NothingTwice /\ [Next]_vars => NothingTwice'
<1>. SUFFICES ASSUME Typed, NothingTwice, [Next]_vars
     PROVE  /\ Distinct(conns') /\ NoneTwice(settings')
            /\ file' = Torn \/ NoneTwice(file')
  BY DEF NothingTwice, Distinct, NoneTwice, NoDuplicates
<1>1. CASE Goes
  <2>1. Distinct(conns')
    BY <1>1 DEF Goes, Follows, Distinct, NothingTwice
  <2>. QED
    BY <1>1, <2>1 DEF Goes, Edited, NothingTwice
<1>2. CASE Begins
  BY <1>2 DEF Begins, NothingTwice
<1>3. CASE Ends
  <2>1. NoneTwice(EmptyMessage)
    BY DEF NoneTwice, NoDuplicates, EmptyMessage
  <2>2. conns' = <<>>
    BY <1>3 DEF Ends
  <2>3. Distinct(conns')
    BY <2>2 DEF Distinct
  <2>. QED
    BY <1>3, <2>1, <2>3 DEF Ends, Edited, NothingTwice
<1>4. CASE ServersReceived
  BY <1>4, ReceivedList DEF Typed, NothingTwice
<1>5. CASE SessionAssigned
  <2>1. PICK i \in DOMAIN conns : \E port \in ListenPort : LocalSessionIdAssigned(i, port)
    BY <1>5 DEF SessionAssigned
  <2>2. /\ NoneTwice(settings') /\ file' = file /\ DOMAIN conns' = DOMAIN conns
        /\ \A j \in DOMAIN conns : conns'[j].address = conns[j].address
    BY <2>1, AssignedSession DEF Typed, NothingTwice
  <2>3. Distinct(conns')
    BY <2>2 DEF Distinct, NothingTwice
  <2>. QED
    BY <2>2, <2>3 DEF NothingTwice
<1>. QED
  BY <1>1, <1>2, <1>3, <1>4, <1>5, Kinds DEF Typed

LEMMA AlwaysNothingTwice == Spec => []NothingTwice
<1>. QED
  BY AlwaysTyped, NothingTwiceInit, NothingTwiceStep, PTL DEF Spec

(* Promoting a server, a name or a status that is known moves it, and what *)
(* is fetched or saved from the connections is not added twice: no list    *)
(* has an entry twice, in any order of the two.                            *)
THEOREM NothingListedTwice == Spec => []ListsHaveNoDuplicates
<1>1. NothingTwice => ListsHaveNoDuplicates
  BY DEF NothingTwice, NoneTwice, NoDuplicates, ListsHaveNoDuplicates
<1>. QED
  BY <1>1, AlwaysNothingTwice, PTL
-----------------------------------------------------------------------------
(* The servers that gave us a session ID are at the front of the list:     *)
(* whatever is before one of them is connected to as well.                 *)

LeadsIn(address, list, cs) ==
  \E p \in DOMAIN list :
    /\ list[p] = address
    /\ \A q \in 1..p : HasAddress(cs, list[q])
Leading(list, cs) ==
  \A i \in DOMAIN cs : cs[i].stage = "identified" => LeadsIn(cs[i].address, list, cs)
Known == Leading(settings.lists["serverlist"], conns)

(* A promoted address leads, and what led before still does.               *)
LEMMA PromotedLeads ==
  ASSUME NEW list \in Seq(Text), NoDuplicates(list), NEW cs, Healthy(cs),
         NEW i \in DOMAIN cs
  PROVE  LET fronted == Fronted(list, cs[i].address, MaxServers) IN
         /\ LeadsIn(cs[i].address, fronted, cs)
         /\ \A address \in Text : LeadsIn(address, list, cs) => LeadsIn(address, fronted, cs)
<1>. DEFINE a == cs[i].address
            rest == Without(list, a)
            long == <<a>> \o rest
            K == {j \in DOMAIN list : list[j] # a}
            L == Fronted(list, a, MaxServers)
<1>1. /\ a \in Text /\ DOMAIN cs = 1..Len(cs) /\ Len(cs) \in Nat /\ Len(cs) <= MaxConnections
      /\ MaxServers \in Nat \ {0} /\ MaxConnections \in Nat /\ MaxConnections <= MaxServers
  BY HealthyList, SettingsAssumption, ConnectionsAssumption, ApplicationAssumption DEF Connection
<1>2. HasAddress(cs, a)
  BY DEF HasAddress
<1>3. DOMAIN list = 1..Len(list) /\ Len(list) \in Nat
  BY LenProperties
<1>4. /\ rest \in Seq(Text) /\ DOMAIN rest = 1..Cardinality(K) /\ Len(rest) = Cardinality(K)
      /\ Cardinality(K) \in Nat
      /\ \A n \in 1..Cardinality(K) : \E j \in K : Rank(K, j) = n /\ rest[n] = list[j]
      /\ \A j \in K : Rank(K, j) \in 1..Cardinality(K) /\ rest[Rank(K, j)] = list[j]
  <2>1. rest = Picked(list, K) /\ K \in SUBSET DOMAIN list
    BY DEF Without
  <2>. HIDE DEF rest, K
  <2>. QED
    BY <2>1, PickedEntries
<1>5. IsFiniteSet(K) /\ K \in SUBSET Int
  <2>1. IsFiniteSet(1..Len(list))
    BY <1>3, FS_Interval
  <2>. QED
    BY <1>3, <2>1, FS_Subset
<1>6. \A j, k \in K : Rank(K, j) <= Rank(K, k) => j <= k
  <2>. SUFFICES ASSUME NEW j \in K, NEW k \in K, Rank(K, j) <= Rank(K, k), k < j
       PROVE  FALSE
    BY <1>5
  <2>1. Rank(K, k) < Rank(K, j) /\ Rank(K, k) \in Int /\ Rank(K, j) \in Int
    BY <1>4, <1>5, RankGrows
  <2>. QED
    BY <2>1
<1>7. NoDuplicates(rest) /\ a \notin Listed(rest)
  BY PickedType DEF Without
<1>8. /\ long \in Seq(Text) /\ Len(long) = 1 + Len(rest)
      /\ \A k \in 1..(1 + Len(rest)) : long[k] = IF k <= 1 THEN a ELSE rest[k - 1]
  <2>. HIDE DEF rest
  <2>1. /\ <<a>> \in Seq(Text) /\ Len(<<a>>) = 1 /\ <<a>>[1] = a
        /\ rest \in Seq(Text) /\ Len(rest) \in Nat
    BY <1>1, <1>4
  <2>. HIDE DEF a
  <2>2. /\ long \in Seq(Text) /\ Len(long) = Len(<<a>>) + Len(rest)
        /\ \A k \in 1..(Len(<<a>>) + Len(rest)) :
             long[k] = IF k <= Len(<<a>>) THEN <<a>>[k] ELSE rest[k - Len(<<a>>)]
    BY <2>1, ConcatProperties
  <2>. QED
    BY <2>1, <2>2
<1>9. L = Trimmed(long, MaxServers)
  BY DEF Fronted
<1>. HIDE DEF a, rest, K, L
<1>. HIDE DEF long
<1>10. /\ L \in Seq(Text) /\ DOMAIN L = 1..Len(L) /\ Len(L) \in 1..Len(long)
       /\ Len(L) = Len(long) \/ Len(L) = MaxServers
       /\ \A k \in 1..Len(L) : L[k] = long[k]
  <2>1. CASE Len(long) > MaxServers
    <3>1. L = SubSeq(long, 1, MaxServers)
      BY <1>9, <2>1 DEF Trimmed
    <3>2. \A k \in 1..MaxServers : long[k] \in Text
      BY <1>1, <1>4, <1>8, <2>1, ElementOfSeq
    <3>3. /\ SubSeq(long, 1, MaxServers) \in Seq(Text)
          /\ Len(SubSeq(long, 1, MaxServers)) = IF 1 <= MaxServers THEN MaxServers - 1 + 1 ELSE 0
          /\ \A k \in 1..(MaxServers - 1 + 1) : SubSeq(long, 1, MaxServers)[k] = long[1 + k - 1]
      BY <1>1, <3>2, SubSeqProperties
    <3>4. L \in Seq(Text) /\ Len(L) = MaxServers
      BY <1>1, <3>1, <3>3
    <3>5. \A k \in 1..MaxServers : L[k] = long[k]
      BY <1>1, <3>1, <3>3
    <3>6. DOMAIN L = 1..Len(L)
      BY <3>4, LenProperties
    <3>. QED
      BY <1>1, <1>4, <1>8, <2>1, <3>4, <3>5, <3>6
  <2>2. CASE ~(Len(long) > MaxServers)
    <3>1. L = long
      BY <1>9, <2>2 DEF Trimmed
    <3>. QED
      BY <1>4, <1>8, <3>1, LenProperties
  <2>. QED
    BY <2>1, <2>2
<1>11. 1 \in DOMAIN L /\ L[1] = a
  BY <1>4, <1>8, <1>10
<1>12. LeadsIn(a, L, cs)
  <2>1. \A q \in 1..1 : HasAddress(cs, L[q])
    BY <1>2, <1>11
  <2>. QED
    BY <1>11, <2>1 DEF LeadsIn
<1>13. ASSUME NEW address \in Text, LeadsIn(address, list, cs), address # a
       PROVE  LeadsIn(address, L, cs)
  <2>1. PICK p \in DOMAIN list : list[p] = address /\ \A q \in 1..p : HasAddress(cs, list[q])
    BY <1>13 DEF LeadsIn
  <2>2. p \in K
    BY <1>13, <2>1 DEF K
  <2>. DEFINE r == 1 + Rank(K, p)
  <2>3. /\ Rank(K, p) \in 1..Cardinality(K) /\ r \in 1..Len(long) /\ long[r] = address
        /\ \A q \in 2..r : q - 1 \in 1..Cardinality(K) /\ long[q] = rest[q - 1]
    BY <1>4, <1>8, <2>1, <2>2
  <2>4. \A q \in 1..r : HasAddress(cs, long[q])
    <3>. SUFFICES ASSUME NEW q \in 2..r
         PROVE  HasAddress(cs, long[q])
      BY <1>2, <1>4, <1>8, <2>3
    <3>1. PICK j \in K : Rank(K, j) = q - 1 /\ rest[q - 1] = list[j]
      BY <1>4, <2>3
    <3>2. j <= p
      BY <1>4, <1>6, <2>2, <2>3, <3>1
    <3>3. j \in 1..p
      BY <1>3, <3>1, <3>2 DEF K
    <3>. QED
      BY <2>1, <2>3, <3>1, <3>3
  <2>5. \A q, s \in 1..r : long[q] = long[s] => q = s
    <3>. SUFFICES ASSUME NEW q \in 1..r, NEW s \in 1..r, long[q] = long[s]
         PROVE  q = s
      OBVIOUS
    <3>1. \A k \in 1..r : k = 1 \/ (k - 1 \in DOMAIN rest /\ k - 1 \in Nat)
      BY <1>4, <2>3
    <3>2. \A k \in 1..r : long[k] = IF k = 1 THEN a ELSE rest[k - 1]
      BY <1>4, <1>8, <2>3
    <3>3. \A k \in DOMAIN rest : rest[k] # a
      BY <1>7 DEF Listed
    <3>4. CASE q # 1 /\ s # 1
      <4>1. rest[q - 1] = rest[s - 1] /\ q - 1 \in DOMAIN rest /\ s - 1 \in DOMAIN rest
        BY <3>1, <3>2, <3>4
      <4>2. q - 1 = s - 1
        BY <1>7, <4>1 DEF NoDuplicates
      <4>. QED
        BY <4>2
    <3>. QED
      BY <3>1, <3>2, <3>3, <3>4
  <2>6. r \in Nat /\ r <= Len(cs)
    <3>. DEFINE at == [q \in 1..r |-> CHOOSE k \in DOMAIN cs : cs[k].address = long[q]]
    <3>1. \A q \in 1..r : at[q] \in DOMAIN cs /\ cs[at[q]].address = long[q]
      BY <2>4 DEF HasAddress
    <3>2. at \in [1..r -> DOMAIN cs]
      BY <3>1
    <3>. HIDE DEF at
    <3>3. at \in Injection(1..r, DOMAIN cs)
      BY <2>5, <3>1, <3>2 DEF Injection, IsInjective
    <3>4. /\ IsFiniteSet(DOMAIN cs) /\ Cardinality(DOMAIN cs) = Len(cs)
          /\ r \in Nat \ {0} /\ Cardinality(1..r) = r
      <4>1. r \in Nat \ {0}
        BY <2>3
      <4>. HIDE DEF r
      <4>2. Cardinality(1..r) = IF 1 > r THEN 0 ELSE r - 1 + 1
        BY <4>1, FS_Interval
      <4>3. /\ IsFiniteSet(1..Len(cs))
            /\ Cardinality(1..Len(cs)) = IF 1 > Len(cs) THEN 0 ELSE Len(cs) - 1 + 1
        BY <1>1, FS_Interval
      <4>. QED
        BY <1>1, <4>1, <4>2, <4>3
    <3>5. Cardinality(1..r) <= Cardinality(DOMAIN cs)
      BY <3>3, <3>4, FS_Injection
    <3>. QED
      BY <3>4, <3>5
  <2>. HIDE DEF r
  <2>7. r \in 1..Len(L) /\ Len(L) \in Nat
    <3>1. r \in 1..Len(long) /\ Len(long) \in Nat /\ Len(L) \in Nat
      BY <1>4, <1>8, <1>10, <2>3
    <3>2. r <= MaxServers
      BY <1>1, <2>6
    <3>. QED
      BY <1>10, <3>1, <3>2
  <2>8. \A q \in 1..r : L[q] = long[q] /\ r \in 1..r
    BY <1>10, <2>7
  <2>9. r \in DOMAIN L /\ L[r] = address /\ \A q \in 1..r : HasAddress(cs, L[q])
    BY <1>10, <2>3, <2>4, <2>7, <2>8
  <2>. QED
    BY <2>9 DEF LeadsIn
<1>. QED
  BY <1>12, <1>13 DEF L, a

(* A list that was fetched takes nothing from the front. *)
LEMMA FetchedLeads ==
  ASSUME IsMessage(settings), NEW removed \in SUBSET Address, NEW added \in Entered,
         NEW address, LeadsIn(address, settings.lists["serverlist"], conns)
  PROVE  LeadsIn(address, UpdatedList(removed, added), conns)
<1>. DEFINE list == settings.lists["serverlist"]
            K == {i \in DOMAIN list : list[i] \notin Removable(removed)}
            kept == Picked(list, K)
<1>1. PICK p \in DOMAIN list :
        list[p] = address /\ \A q \in 1..p : HasAddress(conns, list[q])
  BY DEF LeadsIn
<1>2. list \in Seq(Text) /\ DOMAIN list = 1..Len(list) /\ Len(list) \in Nat
  <2>1. list \in Seq(Text)
    BY ListFields DEF IsMessage
  <2>. QED
    BY <2>1, LenProperties
<1>3. GetServerList(settings) = list
  <2>1. list # <<>>
    BY <1>1
  <2>. QED
    BY <2>1 DEF GetServerList
<1>4. UpdatedList(removed, added) = ListWith(kept, added)
  BY <1>3 DEF UpdatedList
<1>. HIDE DEF list
<1>5. 1..p \subseteq K /\ K \in SUBSET DOMAIN list
  <2>1. \A q \in 1..p : q \in DOMAIN list
    BY <1>2
  <2>2. \A q \in 1..p : list[q] \notin Removable(removed)
    BY <1>1 DEF Removable, InUse
  <2>. QED
    BY <2>1, <2>2
<1>. HIDE DEF K
<1>6. \A q \in 1..p : q \in DOMAIN kept /\ kept[q] = list[q]
  BY <1>2, <1>5, PickedFront
<1>7. kept \in Seq(Text)
  BY <1>2, <1>5, PickedEntries
<1>. HIDE DEF kept
<1>8. \A q \in 1..p : /\ q \in DOMAIN ListWith(kept, added)
                      /\ ListWith(kept, added)[q] = list[q]
  <2>1. CASE added = Empty \/ added \in Listed(kept)
    BY <1>6, <2>1 DEF ListWith
  <2>2. CASE ~(added = Empty \/ added \in Listed(kept))
    <3>1. added \in Text /\ ListWith(kept, added) = Append(kept, added)
      BY <2>2 DEF Entered, ListWith
    <3>2. /\ DOMAIN kept = 1..Len(kept) /\ Len(kept) \in Nat
          /\ Append(kept, added) \in Seq(Text) /\ Len(Append(kept, added)) = Len(kept) + 1
          /\ \A i \in 1..Len(kept) : Append(kept, added)[i] = kept[i]
      BY <1>7, <3>1, AppendProperties, LenProperties
    <3>3. DOMAIN Append(kept, added) = 1..(Len(kept) + 1)
      BY <3>2, LenProperties
    <3>. QED
      BY <1>6, <3>1, <3>2, <3>3
  <2>. QED
    BY <2>1, <2>2
<1>9. p \in 1..p
  BY <1>2
<1>. QED
  BY <1>1, <1>4, <1>8, <1>9 DEF LeadsIn

LEMMA KnownStep ==
  Typed /\ NothingTwice /\ Known /\ [Next]_vars =>
    Leading(settings'.lists["serverlist"], conns')
<1>. SUFFICES ASSUME Typed, NothingTwice, Known, [Next]_vars,
                     NEW i \in DOMAIN conns', conns'[i].stage = "identified"
     PROVE  LeadsIn(conns'[i].address, settings'.lists["serverlist"], conns')
  BY DEF Leading
<1>. DEFINE list == settings.lists["serverlist"]
<1>1. \A j \in DOMAIN conns : conns[j] \in Connection
  BY HealthyList DEF Typed
<1>2. CASE Goes
  <2>1. /\ settings'.lists["serverlist"] = list
        /\ i \in DOMAIN conns /\ conns[i].stage = "identified"
        /\ conns'[i].address = conns[i].address
        /\ \A j \in DOMAIN conns : j \in DOMAIN conns' /\ conns'[j].address = conns[j].address
    BY <1>2 DEF Goes, Follows, Edited
  <2>2. LeadsIn(conns[i].address, list, conns)
    BY <2>1 DEF Known, Leading
  <2>. QED
    BY <2>1, <2>2 DEF LeadsIn, HasAddress
<1>3. CASE Begins
  BY <1>3 DEF Begins
<1>4. CASE Ends
  BY <1>4 DEF Ends
<1>5. CASE ServersReceived
  <2>1. conns' = conns
    BY <1>5, ReceivedList DEF Typed
  <2>2. LeadsIn(conns[i].address, list, conns) /\ IsMessage(settings)
    BY <2>1 DEF Known, Leading, Typed, TypeOK
  <2>3. PICK removed \in SUBSET Address :
          \E a \in Address \cup {Empty} : ServerListReceived(removed, a)
    BY <1>5 DEF ServersReceived
  <2>4. PICK added \in Address \cup {Empty} : ServerListReceived(removed, added)
    BY <2>3
  <2>5. \/ settings' = settings
        \/ settings' = SetList(settings, "serverlist", UpdatedList(removed, added))
    BY <2>4 DEF ServerListReceived
  <2>6. SetList(settings, "serverlist", UpdatedList(removed, added)).lists["serverlist"]
          = UpdatedList(removed, added)
    BY <2>2, ListFields DEF SetList, IsMessage
  <2>7. added \in Entered
    BY <2>4, TextsAre DEF Entered
  <2>8. LeadsIn(conns[i].address, UpdatedList(removed, added), conns)
    BY <2>2, <2>7, FetchedLeads
  <2>. QED
    BY <2>1, <2>2, <2>5, <2>6, <2>8
<1>6. CASE SessionAssigned
  <2>1. PICK k \in DOMAIN conns : \E port \in ListenPort : LocalSessionIdAssigned(k, port)
    BY <1>6 DEF SessionAssigned
  <2>2. /\ DOMAIN conns' = DOMAIN conns
        /\ \A j \in DOMAIN conns :
             /\ conns'[j].address = conns[j].address
             /\ conns'[j].stage = "identified" => j = k \/ conns[j].stage = "identified"
    BY <2>1, AssignedSession DEF Typed
  <2>3. /\ conns[k].address \in Text /\ conns[k].address # Empty
        /\ IsMessage(settings) /\ list \in Seq(Text) /\ NoDuplicates(list)
        /\ settings' = RememberServer(settings, conns[k].address)
    BY <1>1, <2>1, TextsAssumption, ListFields
    DEF Connection, Typed, TypeOK, IsMessage, NothingTwice, NoneTwice, LocalSessionIdAssigned
  <2>4. settings'.lists["serverlist"] = Fronted(list, conns[k].address, MaxServers)
    BY <2>3, ListFields DEF RememberServer, RememberInList, Fronted, SetList, IsMessage
  <2>5. /\ LeadsIn(conns[k].address, Fronted(list, conns[k].address, MaxServers), conns)
        /\ \A address \in Text : LeadsIn(address, list, conns) =>
             LeadsIn(address, Fronted(list, conns[k].address, MaxServers), conns)
    BY <2>3, PromotedLeads DEF Typed
  <2>6. LeadsIn(conns[i].address, settings'.lists["serverlist"], conns)
    <3>1. CASE i = k
      BY <2>4, <2>5, <3>1
    <3>2. CASE i # k
      <4>1. LeadsIn(conns[i].address, list, conns) /\ conns[i].address \in Text
        BY <1>1, <2>2, <3>2 DEF Known, Leading, Connection
      <4>. QED
        BY <2>4, <2>5, <4>1
    <3>. QED
      BY <3>1, <3>2
  <2>. QED
    BY <2>2, <2>6 DEF LeadsIn, HasAddress
<1>. QED
  BY <1>2, <1>3, <1>4, <1>5, <1>6, Kinds DEF Typed

LEMMA AlwaysKnown == Spec => []Known
<1>1. Init => Known
  BY DEF Init, Known, Leading
<1>2. Typed /\ NothingTwice /\ Known /\ [Next]_vars => Known'
  BY KnownStep DEF Known, Leading, LeadsIn, HasAddress
<1>. QED
  BY <1>1, <1>2, AlwaysTyped, AlwaysNothingTwice, PTL DEF Spec

(* A server that gave us a session ID is in the list of servers: promoting *)
(* others pushes only servers over the end that are not connected to, for  *)
(* there are fewer connections than entries, and a list that was fetched   *)
(* removes none of them.                                                   *)
THEOREM ConnectedStaysListed == Spec => []ConnectedIsListed
<1>1. Known => ConnectedIsListed
  <2>. SUFFICES ASSUME Known, NEW i \in DOMAIN conns, conns[i].stage = "identified"
       PROVE  conns[i].address \in Listed(GetServerList(settings))
    BY DEF ConnectedIsListed
  <2>. DEFINE list == settings.lists["serverlist"]
  <2>1. PICK p \in DOMAIN list : list[p] = conns[i].address
    BY DEF Known, Leading, LeadsIn
  <2>2. list # <<>>
    BY <2>1
  <2>. QED
    BY <2>1, <2>2 DEF GetServerList, Listed
<1>. QED
  BY <1>1, AlwaysKnown, PTL
-----------------------------------------------------------------------------
(* What the components were told of the settings.                          *)

LEMMA AppliedFields ==
  /\ Applied \subseteq Field
  /\ \A f \in {"username", "userstatus", "sharingenabled", "sharedir"} :
       f \notin Applied /\ f \in Field
  /\ "notifications" \in Applied /\ PatternField \subseteq Applied
  BY DEF Applied, Field, TextField, SwitchField, NumberField, PatternField

LEMMA SameRunning ==
  ASSUME NEW m, NEW n, n.aliases = m.aliases, \A f \in Applied : Get(n, f) = Get(m, f)
  PROVE  Running(n) = Running(m)
  BY DEF Running

LEMMA RunningSet ==
  ASSUME NEW m, IsMessage(m), NEW f \in Field, NEW v \in Value(f)
  PROVE  /\ f \notin Applied => Running(Set(m, f, v)) = Running(m)
         /\ f \in Applied /\ Get(Set(m, f, v), f) = v =>
              Running(Set(m, f, v)) = [Running(m) EXCEPT !.plain[f] = v]
<1>. DEFINE n == Set(m, f, v)
<1>1. n.aliases = m.aliases /\ \A g \in Field \ {f} : Get(n, g) = Get(m, g)
  BY SetType
<1>. HIDE DEF n
<1>2. ASSUME f \notin Applied
      PROVE  Running(n) = Running(m)
  BY <1>1, <1>2, AppliedFields, SameRunning
<1>3. ASSUME f \in Applied, Get(n, f) = v
      PROVE  Running(n) = [Running(m) EXCEPT !.plain[f] = v]
  <2>. DEFINE p == [g \in Applied |-> Get(m, g)]
              q == [g \in Applied |-> Get(n, g)]
  <2>1. q = [p EXCEPT ![f] = v]
    BY <1>1, <1>3, AppliedFields
  <2>2. Running(m) = [plain |-> p, aliases |-> m.aliases]
        /\ Running(n) = [plain |-> q, aliases |-> n.aliases]
    BY DEF Running
  <2>. HIDE DEF p, q
  <2>. QED
    BY <1>1, <2>1, <2>2
<1>. QED
  BY <1>2, <1>3 DEF n

(* Patterns and the notifications switch are read back as they were set.   *)
LEMMA ReadBack ==
  ASSUME NEW m, IsMessage(m)
  PROVE  /\ \A f \in PatternField : \A p \in Entered : Get(Set(m, f, p), f) = p
         /\ \A enabled \in BOOLEAN :
              Get(Set(m, "notifications", enabled), "notifications") = enabled
<1>1. ASSUME NEW f \in Field, NEW v, f \notin {"maxdownloads", "maxuploads"}
      PROVE  Set(m, f, v).plain[f] = v
  BY <1>1 DEF Set, Stored, IsMessage
<1>2. ASSUME NEW f \in PatternField, NEW p \in Entered
      PROVE  Get(Set(m, f, p), f) = p
  <2>1. f \in TextField /\ f \in Field /\ f \notin {"maxdownloads", "maxuploads"}
    BY FieldsDiffer DEF PatternField
  <2>2. Set(m, f, p).plain[f] = p
    BY <1>1, <2>1
  <2>3. DefaultText(f) = Empty
    BY DEF DefaultText, PatternField
  <2>. QED
    BY <2>1, <2>2, <2>3 DEF Get, GetText, Entered
<1>3. ASSUME NEW enabled \in BOOLEAN
      PROVE  Get(Set(m, "notifications", enabled), "notifications") = enabled
  <2>1. "notifications" \in Field /\ "notifications" \notin TextField
        /\ "notifications" \in SwitchField
    BY DEF Field, TextField, SwitchField, NumberField, PatternField
  <2>2. Set(m, "notifications", enabled).plain["notifications"] = enabled
    BY <1>1, <2>1
  <2>3. enabled # Unset
    BY SettingsAssumption
  <2>. QED
    BY <2>1, <2>2, <2>3 DEF Get, GetSwitch
<1>. QED
  BY <1>2, <1>3

(* Remembering something changes no value. *)
LEMMA RunningLists ==
  ASSUME NEW m, IsMessage(m)
  PROVE  /\ \A v \in Entered : /\ Running(RememberServer(m, v)) = Running(m)
                               /\ Running(RememberUserName(m, v)) = Running(m)
                               /\ Running(RememberStatus(m, v)) = Running(m)
         /\ \A b \in [server : Entered, name : Entered] :
              Running(RememberConnect(m, b)) = Running(m)
<1>1. MaxServers \in Nat \ {0} /\ MaxNames \in Nat \ {0}
  BY SettingsAssumption
<1>2. ASSUME NEW v \in Entered, NEW f \in ListField, NEW most \in Nat \ {0}
      PROVE  Running(RememberInList(m, f, v, most)) = Running(m)
  <2>. DEFINE n == RememberInList(m, f, v, most)
  <2>1. n.aliases = m.aliases
    BY DEF RememberInList, SetList, IsMessage
  <2>2. \A g : Get(n, g) = Get(m, g)
    BY RememberedType, Zenon
  <2>. HIDE DEF n
  <2>3. Running(n) = Running(m)
    BY <2>1, <2>2, SameRunning
  <2>. QED
    BY <2>3 DEF n
<1>3. \A v \in Entered : /\ Running(RememberServer(m, v)) = Running(m)
                         /\ Running(RememberUserName(m, v)) = Running(m)
                         /\ Running(RememberStatus(m, v)) = Running(m)
  BY <1>1, <1>2, ListFields DEF RememberServer, RememberUserName, RememberStatus
<1>4. \A b \in [server : Entered, name : Entered] : Running(RememberConnect(m, b)) = Running(m)
  BY <1>3 DEF RememberConnect
<1>. QED
  BY <1>3, <1>4

LEMMA RunningUser ==
  ASSUME Typed, running = Running(settings), UserAction
  PROVE  running' = Running(settings')
<1>1. /\ IsMessage(settings) /\ box \in [server : Entered, name : Entered]
      /\ Healthy(conns)
  BY DEF Typed, TypeOK, KeptOK
<1>2. ASSUME NEW a \in Address, NEW n \in Name, TypeIntoBoxes(a, n)
      PROVE  running' = Running(settings')
  BY <1>2 DEF TypeIntoBoxes
<1>3. CASE ConnectButton
  <2>1. running' = running /\ settings' = RememberConnect(settings, box)
    BY <1>3 DEF ConnectButton, Connect
  <2>. QED
    BY <1>1, <2>1, RunningLists
<1>4. ASSUME NEW a \in Address \cup {Empty}, ConnectCommand(a)
      PROVE  running' = Running(settings')
  <2>1. \E b \in [server : Entered, name : Entered] :
          running' = running /\ settings' = RememberConnect(settings, b)
    <3>1. CASE a = Empty
      BY <1>1, <1>4, <3>1 DEF ConnectCommand, Connect
    <3>2. CASE a # Empty
      <4>1. [box EXCEPT !.server = a] \in [server : Entered, name : Entered]
        BY <1>1, TextsAre DEF Entered
      <4>2. running' = running /\ settings' = RememberConnect(settings, [box EXCEPT !.server = a])
        BY <1>4, <3>2 DEF ConnectCommand, Connect
      <4>. QED
        BY <4>1, <4>2
    <3>. QED
      BY <3>1, <3>2
  <2>. QED
    BY <1>1, <2>1, RunningLists
<1>5. ASSUME NEW a \in Address, ConnectAdditionalServer(a)
      PROVE  running' = Running(settings')
  <2>1. settings' = SaveExtraServers(settings, conns') /\ running' = Running(settings)
    BY <1>5 DEF ConnectAdditionalServer
  <2>2. Healthy(conns')
    BY MessagesStep DEF Typed, Next
  <2>3. settings'.aliases = settings.aliases
    BY <1>1, <2>1, <2>2, ExtrasEdit, Zenon
  <2>4. \A g : Get(settings', g) = Get(settings, g)
    BY <1>1, <2>1, <2>2, ExtrasEdit, Zenon
  <2>. QED
    BY <2>1, <2>3, <2>4, SameRunning
<1>6. CASE DisconnectEverything
  BY <1>6 DEF DisconnectEverything
<1>7. ASSUME NEW n \in Name, Nick(n)
      PROVE  running' = Running(settings')
  <2>. DEFINE m == Set(settings, "username", n)
  <2>1. running' = running /\ settings' = RememberUserName(m, n)
    BY <1>7 DEF Nick
  <2>2. n \in Entered /\ "username" \in Field /\ Value("username") = Entered
    BY TextsAre, FieldsDiffer
  <2>3. IsMessage(m) /\ Running(m) = Running(settings)
    BY <1>1, <2>2, AppliedFields, SetType, RunningSet
  <2>. HIDE DEF m
  <2>. QED
    BY <2>1, <2>2, <2>3, RunningLists
<1>8. ASSUME NEW st \in Status, SetUserStatus(st)
      PROVE  running' = Running(settings')
  <2>. DEFINE m == Set(settings, "userstatus", st)
  <2>1. running' = running /\ settings' = RememberStatus(m, st)
    BY <1>8 DEF SetUserStatus
  <2>2. st \in Entered /\ "userstatus" \in Field /\ Value("userstatus") = Entered
    BY TextsAre, FieldsDiffer
  <2>3. IsMessage(m) /\ Running(m) = Running(settings)
    BY <1>1, <2>2, AppliedFields, SetType, RunningSet
  <2>. HIDE DEF m
  <2>. QED
    BY <2>1, <2>2, <2>3, RunningLists
<1>9. ASSUME NEW f \in Varied \cap DialogField, NEW port \in ListenPort, NEW v \in Choices(f),
             ShowSettings(f, v, port)
      PROVE  running' = Running(settings')
  BY <1>9 DEF ShowSettings
<1>10. ASSUME NEW f \in Varied \cap PatternField, NEW p \in Choices(f), FilterCommand(f, p)
       PROVE  running' = Running(settings')
  <2>1. f \in Field /\ f \in Applied /\ p \in Value(f) /\ p \in Entered
    BY ChoicesType, AppliedFields, TextsAre, FieldsDiffer
  <2>2. Get(Set(settings, f, p), f) = p
    BY <1>1, <2>1, ReadBack
  <2>3. Running(Set(settings, f, p)) = [Running(settings) EXCEPT !.plain[f] = p]
    BY <1>1, <2>1, <2>2, RunningSet
  <2>4. settings' = Set(settings, f, p) /\ running' = [running EXCEPT !.plain[f] = p]
    BY <1>10 DEF FilterCommand
  <2>. QED
    BY <2>3, <2>4
<1>11. ASSUME NEW aliases \in AliasSets, AliasCommand(aliases)
       PROVE  running' = Running(settings')
  <2>1. aliases \in SUBSET (Text \X Text)
    BY TextsAssumption DEF AliasSets
  <2>2. settings' = SetAliases(settings, aliases) /\ running' = [running EXCEPT !.aliases = aliases]
    BY <1>11 DEF AliasCommand
  <2>3. settings'.plain = settings.plain /\ settings'.aliases = aliases
    BY <1>1, <2>1, <2>2, AliasEdits
  <2>4. \A f : Get(settings', f) = Get(settings, f)
    BY <2>3 DEF Get, GetText, GetSwitch, GetNumber, GetStoredNumber
  <2>. QED
    BY <2>2, <2>3, <2>4 DEF Running
<1>12. ASSUME NEW enabled \in BOOLEAN, ToggleNotifications(enabled)
       PROVE  running' = Running(settings')
  <2>1. "notifications" \in Field /\ "notifications" \in Applied
        /\ Value("notifications") = BOOLEAN
    BY AppliedFields, TextsAre DEF SwitchField
  <2>2. Get(Set(settings, "notifications", enabled), "notifications") = enabled
    BY <1>1, ReadBack
  <2>3. Running(Set(settings, "notifications", enabled))
          = [Running(settings) EXCEPT !.plain["notifications"] = enabled]
    BY <1>1, <2>1, <2>2, RunningSet
  <2>. QED
    BY <1>12, <2>3 DEF ToggleNotifications
<1>13. ASSUME NEW port \in ListenPort, ToggleFileSharing(port)
       PROVE  running' = Running(settings')
  <2>1. settings' = Set(settings, "sharingenabled", ~CanShare(settings)) /\ running' = running
    BY <1>13 DEF ToggleFileSharing
  <2>2. /\ "sharingenabled" \in Field /\ "sharingenabled" \notin Applied
        /\ (~CanShare(settings)) \in Value("sharingenabled")
    BY AppliedFields, TextsAre DEF SwitchField
  <2>. QED
    BY <1>1, <2>1, <2>2, RunningSet
<1>14. ASSUME NEW folder \in Folder, NEW port \in ListenPort, ChooseShareFolder(folder, port)
       PROVE  running' = Running(settings')
  <2>1. settings' = Set(settings, "sharedir", folder) /\ running' = running
    BY <1>14 DEF ChooseShareFolder
  <2>2. /\ "sharedir" \in Field /\ "sharedir" \notin Applied
        /\ folder \in Value("sharedir")
    BY AppliedFields, TextsAre, FieldsDiffer
  <2>. QED
    BY <1>1, <2>1, <2>2, RunningSet
<1>. QED
  BY <1>2, <1>3, <1>4, <1>5, <1>6, <1>7, <1>8, <1>9, <1>10, <1>11, <1>12, <1>13, <1>14
  DEF UserAction

LEMMA RunningStep ==
  Typed /\ StoredIsRunning /\ [Next]_vars => StoredIsRunning'
<1>. SUFFICES ASSUME Typed, StoredIsRunning, [Next]_vars, up' = "up"
     PROVE  running' = Running(settings')
  BY DEF StoredIsRunning, Running
<1>1. IsMessage(settings)
  BY DEF Typed, TypeOK
<1>2. CASE UNCHANGED vars
  BY <1>2 DEF vars, StoredIsRunning
<1>3. CASE Start
  <2>. DEFINE saved == Load(file)
              loaded == WithInstallId(saved, starts + 1)
              b == NameBox(ServerBox(EmptyBox, loaded), loaded)
  <2>1. IsMessage(loaded)
    BY LoadedType, InstallIdEdits DEF Typed, KeptOK, Edited
  <2>2. /\ settings' = RememberConnect(loaded, b) \/ settings' = loaded
        /\ running' = Running(loaded)
    BY <1>3 DEF Start
  <2>. HIDE DEF loaded
  <2>3. b \in [server : Entered, name : Entered]
    <3>1. EmptyBox \in [server : Entered, name : Entered]
      BY DEF EmptyBox, Entered
    <3>. QED
      BY <2>1, <3>1, BoxFilled
  <2>. HIDE DEF b
  <2>. QED
    BY <2>1, <2>2, <2>3, RunningLists
<1>4. CASE UserAction
  <2>1. up = "up"
    BY <1>4 DEF UserAction, TypeIntoBoxes, ConnectButton, ConnectCommand, ConnectAdditionalServer,
         DisconnectEverything, Nick, SetUserStatus, ShowSettings, FilterCommand, AliasCommand,
         ToggleNotifications, ToggleFileSharing, ChooseShareFolder, Act
  <2>. QED
    BY <1>4, <2>1, RunningUser DEF StoredIsRunning
<1>5. CASE ServersReceived
  <2>1. PICK removed \in SUBSET Address :
          \E a \in Address \cup {Empty} : ServerListReceived(removed, a)
    BY <1>5 DEF ServersReceived
  <2>2. PICK added \in Address \cup {Empty} : ServerListReceived(removed, added)
    BY <2>1
  <2>. DEFINE list == UpdatedList(removed, added)
  <2>3. /\ up = "up" /\ running' = running
        /\ settings' = settings \/ settings' = SetList(settings, "serverlist", list)
    BY <2>2 DEF ServerListReceived, Act
  <2>4. list \in Seq(Text)
    BY <1>1, TextsAre, UpdatedListIs DEF Entered
  <2>. HIDE DEF list
  <2>5. "serverlist" \in ListField
    BY ListFields
  <2>6. SetList(settings, "serverlist", list).aliases = settings.aliases
    BY <1>1, <2>4, <2>5, SetListType, Zenon
  <2>7. \A g : Get(SetList(settings, "serverlist", list), g) = Get(settings, g)
    BY <1>1, <2>4, <2>5, SetListType, Zenon
  <2>8. Running(SetList(settings, "serverlist", list)) = Running(settings)
    BY <2>6, <2>7, SameRunning
  <2>. QED
    BY <2>3, <2>8 DEF StoredIsRunning
<1>6. CASE SessionAssigned
  <2>1. PICK i \in DOMAIN conns : \E port \in ListenPort : LocalSessionIdAssigned(i, port)
    BY <1>6 DEF SessionAssigned
  <2>2. /\ up = "up" /\ running' = running
        /\ settings' = RememberServer(settings, conns[i].address)
    BY <2>1 DEF LocalSessionIdAssigned, Event
  <2>3. conns[i].address \in Entered
    BY HealthyList DEF Typed, Connection, Entered
  <2>. QED
    BY <1>1, <2>2, <2>3, RunningLists DEF StoredIsRunning
<1>7. CASE \/ ServerListFails \/ ScannerFinds \/ DrainShareScanner
           \/ \E i \in DOMAIN conns : ConnectionMade(i)
           \/ \E i \in DOMAIN conns : ConnectionLost(i)
  BY <1>7 DEF ServerListFails, ScannerFinds, DrainShareScanner, ConnectionMade, ConnectionLost,
       Event, StoredIsRunning
<1>8. CASE Close \/ Crash \/ CrashWhileSaving
  BY <1>8 DEF Close, Crash, CrashWhileSaving
<1>. QED
  BY <1>2, <1>3, <1>4, <1>5, <1>6, <1>7, <1>8 DEF Next, ServersReceived, SessionAssigned

(* What is stored is what the components run with, whichever of the menus, *)
(* commands and the dialog changed it: the setters that a handler calls    *)
(* without applying change nothing that a component keeps a copy of, and   *)
(* those it applies by hand are told the value that is read back.          *)
THEOREM StoredStaysRunning == Spec => []StoredIsRunning
<1>1. Init => StoredIsRunning
  BY DEF Init, StoredIsRunning
<1>. QED
  BY <1>1, RunningStep, AlwaysTyped, PTL DEF Spec
-----------------------------------------------------------------------------
(* What the program is closed with. *)

ClosedWith == up = "closed" => settings = file

LEMMA ClosedWithStep == ClosedWith /\ [Next]_vars => ClosedWith'
<1>. SUFFICES ASSUME ClosedWith, [Next]_vars, up' = "closed"
     PROVE  settings' = file'
  BY DEF ClosedWith
<1>1. CASE UNCHANGED vars
  BY <1>1 DEF vars, ClosedWith
<1>2. CASE Close
  BY <1>2 DEF Close
<1>3. CASE Start \/ Crash \/ CrashWhileSaving
  BY <1>3 DEF Start, Crash, CrashWhileSaving
<1>4. CASE UserAction
  BY <1>4 DEF UserAction, TypeIntoBoxes, ConnectButton, ConnectCommand, ConnectAdditionalServer,
       DisconnectEverything, Nick, SetUserStatus, ShowSettings, FilterCommand, AliasCommand,
       ToggleNotifications, ToggleFileSharing, ChooseShareFolder, Act, Stays
<1>5. CASE \/ ServersReceived \/ SessionAssigned
           \/ ServerListFails \/ ScannerFinds \/ DrainShareScanner
           \/ \E i \in DOMAIN conns : ConnectionMade(i)
           \/ \E i \in DOMAIN conns : ConnectionLost(i)
  BY <1>5 DEF ServersReceived, ServerListReceived, SessionAssigned, LocalSessionIdAssigned,
       ServerListFails, ScannerFinds, DrainShareScanner, ConnectionMade, ConnectionLost,
       Act, Event, Stays
<1>. QED
  BY <1>1, <1>2, <1>3, <1>4, <1>5 DEF Next, ServersReceived, SessionAssigned

LEMMA StartKeeps ==
  ASSUME Typed, ClosedWith, ~IsMessage(Torn), Start, up = "closed", up' = "up"
  PROVE  /\ settings'.plain = settings.plain
         /\ settings'.aliases = settings.aliases
         /\ \A f \in ListField \ {"usernamelist"} : settings'.lists[f] = settings.lists[f]
         /\ settings.installId # 0 => settings'.installId = settings.installId
<1>. DEFINE loaded == WithInstallId(Load(file), starts + 1)
            b == NameBox(ServerBox(EmptyBox, loaded), loaded)
<1>1. IsMessage(settings) /\ Load(file) = settings /\ starts + 1 \in Nat
  BY DEF Typed, TypeOK, KeptOK, ClosedWith, Load
<1>2. settings' = loaded \/ settings' = RememberUserName(loaded, b.name)
  BY DEF Start, RememberConnect
<1>3. /\ IsMessage(loaded)
      /\ loaded.plain = settings.plain /\ loaded.aliases = settings.aliases
      /\ loaded.lists = settings.lists
      /\ settings.installId # 0 => loaded.installId = settings.installId
  BY <1>1, InstallIdEdits DEF Edited
<1>. HIDE DEF loaded
<1>4. b.name \in Entered
  <2>1. EmptyBox \in [server : Entered, name : Entered]
    BY DEF EmptyBox, Entered
  <2>2. b \in [server : Entered, name : Entered]
    BY <1>3, <2>1, BoxFilled
  <2>. QED
    BY <2>2
<1>. HIDE DEF b
<1>. DEFINE n == RememberUserName(loaded, b.name)
<1>5. /\ n.plain = loaded.plain /\ n.aliases = loaded.aliases /\ n.installId = loaded.installId
      /\ n.lists = loaded.lists
           \/ \E list : n.lists = [loaded.lists EXCEPT !["usernamelist"] = list]
  <2>1. \E list : n = SetList(loaded, "usernamelist", list) \/ n = loaded
    BY DEF RememberUserName, RememberInList
  <2>. QED
    BY <1>3, <2>1 DEF SetList, IsMessage
<1>. HIDE DEF n
<1>6. \A f \in ListField \ {"usernamelist"} : n.lists[f] = loaded.lists[f]
  BY <1>3, <1>5 DEF IsMessage
<1>. QED
  BY <1>2, <1>3, <1>5, <1>6 DEF n

(* Starting the program again changes nothing that it was closed with: the *)
(* constructor's _ApplySettings, _ConnectToConfiguredServer and             *)
(* _RestoreExtraServers write no setting back but the name's list, and an  *)
(* install ID is made once.  Torn is what Load rejects: no message.        *)
THEOREM ClosedStaysKept ==
  ASSUME ~IsMessage(Torn)
  PROVE  Spec => ClosedIsKept
<1>1. Init => ClosedWith
  BY DEF Init, ClosedWith
<1>2. Typed /\ ClosedWith /\ [Next]_vars =>
        [up = "closed" /\ up' = "up" =>
           /\ settings'.plain = settings.plain
           /\ settings'.aliases = settings.aliases
           /\ \A f \in ListField \ {"usernamelist"} : settings'.lists[f] = settings.lists[f]
           /\ settings.installId # 0 => settings'.installId = settings.installId]_vars
  <2>. SUFFICES ASSUME Typed, ClosedWith, [Next]_vars, up = "closed", up' = "up"
       PROVE  /\ settings'.plain = settings.plain
              /\ settings'.aliases = settings.aliases
              /\ \A f \in ListField \ {"usernamelist"} : settings'.lists[f] = settings.lists[f]
              /\ settings.installId # 0 => settings'.installId = settings.installId
    OBVIOUS
  <2>1. Start
    BY DEF Next, vars, UserAction, TypeIntoBoxes, ConnectButton, ConnectCommand,
       ConnectAdditionalServer, DisconnectEverything, Nick, SetUserStatus, ShowSettings,
       FilterCommand, AliasCommand, ToggleNotifications, ToggleFileSharing, ChooseShareFolder,
       ServerListReceived, LocalSessionIdAssigned, ServerListFails, ScannerFinds,
       DrainShareScanner, ConnectionMade, ConnectionLost, Close, Crash, CrashWhileSaving,
       Act, Event
  <2>. QED
    BY <2>1, StartKeeps
<1>. QED
  BY <1>1, <1>2, ClosedWithStep, AlwaysTyped, PTL DEF Spec, ClosedIsKept
=============================================================================
