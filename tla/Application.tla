---------------------------- MODULE Application ----------------------------
(***************************************************************************)
(* The program around its connections: src/qt/MainWindow.cpp with the      *)
(* settings, the settings dialog and the fetch of the server list.         *)
(*                                                                         *)
(* It is started, used, closed and started again, and may be killed at any *)
(* moment, within a Save included.  What servers were told about us and    *)
(* what the components were told of the settings is compared with the      *)
(* settings.  The scan of the share is one flag here; Sharing has it all.  *)
(***************************************************************************)
EXTENDS Settings, Connections

CONSTANTS
  Address,     \* the servers there are
  Name,        \* the names the user takes
  Status,      \* the statuses the user takes
  Folder,      \* the folders the user shares
  ListenPort,  \* what StartListening may return: 0 is a failure
  Varied,      \* bound: the fields that the user changes
  Kept,        \* bound: the fields that an earlier settings file may have
  Patterns,    \* bound: the user lists (filters) the user sets
  MaxStarts,   \* bound: how often the program is started
  MaxSteps     \* bound: what the user does, and is sent by the updater

ASSUME ApplicationAssumption ==
  /\ Address \cup Name \cup Status \cup Folder \cup Patterns \subseteq Text
  /\ ListenPort \subseteq Nat
  /\ MaxConnections <= MaxServers   \* 8 and 16
  /\ Varied \cup Kept \subseteq SwitchField \cup PatternField \cup {"username", "userstatus"}

VARIABLES
  up,        \* "closed", "up" or "crashed"
  settings,  \* fSettings; once closed, what it was then
  file,      \* the settings file
  box,       \* the texts of fServerAddressBox and fUserNameBox
  conns,     \* fConnections
  running,   \* what the components were last told of the settings
  scan,      \* whether fShareScanner is scanning, has files to hand over
  fetch,     \* the server list: 0 no request, 1 the first URL, 2 the second
  starts, steps

vars == <<up, settings, file, box, conns, running, scan, fetch, starts, steps>>
-----------------------------------------------------------------------------
(* What _ApplySettings hands to components that keep a copy.               *)
Applied == {"downloaddir", "retainfilepaths", "maxdownloads", "maxdownloadrate",
            "autoclear", "maxuploads", "maxuploadrate", "notifications",
            "chatfontsize", "logdir", "server", "chatlogging"} \cup PatternField

Running(m) == [plain |-> [f \in Applied |-> Get(m, f)], aliases |-> m.aliases]

NotRunning == [plain |-> <<>>, aliases |-> {}]
NotScanning == [walking |-> FALSE, pending |-> FALSE]
EmptyBox == [server |-> Empty, name |-> Empty]

TypeOK ==
  /\ up \in {"closed", "up", "crashed"}
  /\ IsMessage(settings)
  /\ conns \in Seq(Connection) /\ Len(conns) <= MaxConnections
  /\ scan \in [walking: BOOLEAN, pending: BOOLEAN]
  /\ fetch \in 0..2

(* No settings file, or one that an earlier run wrote.                     *)
Choices(f) ==
  CASE f \in SwitchField -> BOOLEAN
    [] f = "username" -> Name
    [] f = "userstatus" -> Status
    [] f \in PatternField -> Patterns \cup {Empty}
Earlier == {EmptyMessage} \cup
  UNION {{Set(EmptyMessage, f, v) : v \in Choices(f) \ {Get(EmptyMessage, f)}} : f \in Kept}

Init ==
  /\ up = "closed"
  /\ file \in Earlier
  /\ settings = file
  /\ box = EmptyBox
  /\ conns = <<>>
  /\ running = NotRunning
  /\ scan = NotScanning
  /\ fetch = 0
  /\ starts = 0
  /\ steps = 0
-----------------------------------------------------------------------------
(* Parts that several handlers share. *)

(* _ApplySettings, of connections.  Of components: Running.                *)
ApplyTo(cs, m) ==
  SetFirewalled(SetLocalUserStatus(SetLocalUserName(cs, Get(m, "username")),
                                   Get(m, "userstatus")), Get(m, "firewalled"))

(* _StartSharing, with the port that listening gets, and _StopSharing.     *)
CanShare(m) == Get(m, "sharingenabled")
StartSharing(cs, m, port) ==
  IF CanShare(m) /\ port # 0 THEN SetAdvertisedPort(cs, port) ELSE cs
StartScan(sc, m) == IF CanShare(m) THEN [walking |-> TRUE, pending |-> FALSE] ELSE sc
StopSharing(cs) == UnpublishAllSharedFiles(SetAdvertisedPort(cs, 0))
StopScan(sc) == [sc EXCEPT !.walking = FALSE]

(* _PopulateServerList keeps what is in the box.                           *)
ServerBox(b, m) == [b EXCEPT !.server = IF @ = Empty THEN Get(m, "server") ELSE @]
NameBox(b, m) == [b EXCEPT !.name = IF @ = Empty THEN Get(m, "username") ELSE @]

(* _ConnectToConfiguredServer: the name goes to the connections there are, *)
(* then the server is connected to.                                        *)
CanConnect(b) == Empty \notin {b.server, b.name}
ConnectTo(cs, b) ==
  IF CanConnect(b) THEN AddConnection(SetLocalUserName(cs, b.name), b.server) ELSE cs
RememberConnect(m, b) == IF CanConnect(b) THEN RememberUserName(m, b.name) ELSE m

(* _SaveExtraServers: all connections but the first.                       *)
Extras(cs) == [i \in 1..(Len(cs) - 1) |-> cs[i + 1].address]
SaveExtraServers(m, cs) == SetList(m, "extraserver", Extras(cs))

(* _RestoreExtraServers: AddConnection for each, as many as there may be.  *)
(* The list was made from connections, so it has no address twice.         *)
RestoreExtraServers(m) ==
  LET addresses == m.lists["extraserver"]
  IN [i \in 1..Between(0, Len(addresses), MaxConnections) |-> NewConnection(addresses[i])]

Act == up = "up" /\ steps < MaxSteps /\ steps' = steps + 1
Event == up = "up" /\ UNCHANGED steps
Stays == UNCHANGED <<up, starts>>
-----------------------------------------------------------------------------
(* The constructor: load, fill the window, hand the settings out, connect. *)
(* Settings that turn notifications off are applied to fNotifier before    *)
(* there is one, which ends the program.                                   *)
Start ==
  /\ up # "up"
  /\ starts < MaxStarts
  /\ starts' = starts + 1
  /\ LET loaded == WithInstallId(Load(file), starts + 1)
         b == NameBox(ServerBox(EmptyBox, loaded), loaded)
         connects == Get(loaded, "connectonstartup")
     IN IF ~Get(loaded, "notifications")
          THEN up' = "crashed" /\ UNCHANGED <<settings, box, conns, running, fetch>>
          ELSE /\ up' = "up"
               /\ settings' = IF connects THEN RememberConnect(loaded, b) ELSE loaded
               /\ box' = b
               /\ running' = Running(loaded)
               /\ conns' = LET cs == RestoreExtraServers(loaded)
                           IN IF connects THEN ConnectTo(cs, b) ELSE cs
               /\ fetch' = IF Get(loaded, "autoupdateservers") THEN 1 ELSE 0
  /\ UNCHANGED <<file, scan, steps>>

(* The window's fields.  The server's is frozen while the first connection *)
(* that counts is connecting or up.                                        *)
IsPrimary(i) ==
  IF IsAnyConnected(conns)
    THEN IsConnected(conns[i]) /\ \A j \in 1..(i - 1) : ~IsConnected(conns[j])
    ELSE i = 1
PrimaryIsOff == \A i \in DOMAIN conns : IsPrimary(i) => conns[i].stage = "off"
TypeIntoBoxes(address, name) ==
  /\ Act
  /\ box # [server |-> address, name |-> name]
  /\ address # box.server => PrimaryIsOff
  /\ box' = [server |-> address, name |-> name]
  /\ Stays
  /\ UNCHANGED <<settings, file, conns, running, scan, fetch>>

(* The Connect button, and /connect with or without an address.            *)
Connect(b) ==
  /\ box' = b
  /\ conns' = ConnectTo(conns, b)
  /\ settings' = RememberConnect(settings, b)
ConnectButton ==
  /\ Act /\ ~IsAnyConnected(conns)
  /\ Connect(box)
  /\ Stays /\ UNCHANGED <<file, running, scan, fetch>>
ConnectCommand(address) ==
  /\ Act
  /\ Connect(IF address = Empty THEN box ELSE [box EXCEPT !.server = address])
  /\ Stays /\ UNCHANGED <<file, running, scan, fetch>>

(* _OnConnectAdditionalServer. *)
ConnectAdditionalServer(address) ==
  /\ Act
  /\ ~HasAddress(conns, address) /\ Len(conns) < MaxConnections
  /\ conns' = ApplyTo(AddConnection(conns, address), settings)
  /\ settings' = SaveExtraServers(settings, conns')
  /\ running' = Running(settings)
  /\ Stays /\ UNCHANGED <<file, box, scan, fetch>>

(* The Disconnect button and menu items, /disconnect.                      *)
DisconnectEverything ==
  /\ Act
  /\ conns' = DisconnectAll(conns)
  /\ Stays /\ UNCHANGED <<settings, file, box, running, scan, fetch>>

(* /nick. *)
Nick(name) ==
  /\ Act
  /\ conns' = SetLocalUserName(conns, name)
  /\ settings' = RememberUserName(Set(settings, "username", name), name)
  /\ box' = [box EXCEPT !.name = name]
  /\ Stays /\ UNCHANGED <<file, running, scan, fetch>>

(* _OnStatusChanged and _SetUserStatus, which /status and /away call.      *)
SetUserStatus(status) ==
  /\ Act
  /\ conns' = SetLocalUserStatus(conns, status)
  /\ settings' = RememberStatus(Set(settings, "userstatus", status), status)
  /\ Stays /\ UNCHANGED <<file, box, running, scan, fetch>>
-----------------------------------------------------------------------------
(* The settings dialog writes every field it shows back, what the user did *)
(* not touch included, and field g, which became v.                        *)
DialogField == Field \ (PatternField \cup {"server", "serverport"})
ApplyToSettings(g, v) ==
  Set([settings EXCEPT !.plain =
         [f \in Field |-> IF f \in DialogField THEN Get(settings, f) ELSE @[f]]], g, v)

(* _OnShowSettings: apply, restart sharing, save.  A share that was turned *)
(* on is started again by its menu item, with the same result.             *)
ShowSettings(f, v, port) ==
  /\ Act
  /\ LET m == ApplyToSettings(f, v)
         applied == ApplyTo(conns, m)
         restarts == CanShare(settings) \/ CanShare(m)
         starting == CanShare(m) /\ IsAnyConnected(conns)
         stopped == IF restarts THEN StopSharing(applied) ELSE applied
     IN /\ settings' = m
        /\ file' = m
        /\ conns' = IF starting THEN StartSharing(stopped, m, port) ELSE stopped
        /\ scan' = IF starting THEN StartScan(scan, m)
                   ELSE IF restarts THEN StopScan(scan) ELSE scan
        /\ running' = Running(m)
        /\ box' = NameBox(box, m)
  /\ Stays /\ UNCHANGED fetch

(* /ignore, /watch, /autopriv with a pattern, or with "-", which clears.   *)
FilterCommand(f, pattern) ==
  /\ Act
  /\ running' = [running EXCEPT !.plain[f] = pattern]
  /\ settings' = Set(settings, f, pattern)
  /\ file' = settings'
  /\ Stays /\ UNCHANGED <<box, conns, scan, fetch>>

(* /alias and /unalias. *)
AliasCommand(aliases) ==
  /\ Act
  /\ running' = [running EXCEPT !.aliases = aliases]
  /\ settings' = SetAliases(settings, aliases)
  /\ file' = settings'
  /\ Stays /\ UNCHANGED <<box, conns, scan, fetch>>

ToggleStored(enabled) ==   \* mutant: the notifier is not told
  /\ Act
  /\ settings' = Set(settings, "notifications", enabled)
  /\ Stays /\ UNCHANGED <<file, box, conns, running, scan, fetch>>
ToggleNotifications(enabled) ==
  /\ Act
  /\ settings' = Set(settings, "notifications", enabled)
  /\ running' = [running EXCEPT !.plain["notifications"] = enabled]
  /\ Stays /\ UNCHANGED <<file, box, conns, scan, fetch>>

ToggleFileSharing(port) ==
  /\ Act
  /\ LET m == Set(settings, "sharingenabled", ~CanShare(settings))
         starting == CanShare(m) /\ IsAnyConnected(conns)
     IN /\ settings' = m
        /\ conns' = IF starting THEN StartSharing(conns, m, port)
                    ELSE IF CanShare(m) THEN conns ELSE StopSharing(conns)
        /\ scan' = IF starting THEN StartScan(scan, m)
                   ELSE IF CanShare(m) THEN scan ELSE StopScan(scan)
  /\ Stays /\ UNCHANGED <<file, box, running, fetch>>

ChooseShareFolder(folder, port) ==
  /\ Act
  /\ LET m == Set(settings, "sharedir", folder)
         restarts == CanShare(m) /\ IsAnyConnected(conns)
     IN /\ settings' = m
        /\ conns' = IF restarts THEN StartSharing(StopSharing(conns), m, port) ELSE conns
        /\ scan' = IF restarts THEN StartScan(scan, m) ELSE scan
  /\ Stays /\ UNCHANGED <<file, box, running, fetch>>
-----------------------------------------------------------------------------
(* The server list that was fetched: additions and removals.  What is      *)
(* selected or connected to is not removed, and nothing is added twice.    *)
Listed(list) == {list[i] : i \in DOMAIN list}
InUse(address) == address = box.server \/ HasAddress(conns, address)
RemovableAlways(removed) == removed   \* mutant: whether it is in use is not looked at
Removable(removed) == {a \in removed : ~InUse(a)}
ListWith(list, added) ==
  IF added = Empty \/ added \in Listed(list) THEN list ELSE Append(list, added)
UpdatedList(removed, added) ==
  LET list == GetServerList(settings)
  IN ListWith(Picked(list, {i \in DOMAIN list : list[i] \notin Removable(removed)}), added)
NothingNew(removed, added) ==
  /\ Removable(removed) \cap Listed(GetServerList(settings)) = {}
  /\ added \in Listed(GetServerList(settings)) \cup {Empty}

ServerListReceived(removed, added) ==
  /\ Act /\ fetch > 0
  /\ fetch' = 0
  /\ LET m == SetList(settings, "serverlist", UpdatedList(removed, added))
     IN IF NothingNew(removed, added)
          THEN UNCHANGED <<settings, file, box>>
          ELSE settings' = m /\ file' = m /\ box' = ServerBox(box, m)
  /\ Stays /\ UNCHANGED <<conns, running, scan>>

(* The second URL is tried when the first one fails.                       *)
ServerListFails ==
  /\ Event /\ fetch > 0
  /\ fetch' = (fetch + 1) % 3
  /\ Stays /\ UNCHANGED <<settings, file, box, conns, running, scan>>

(* What happens on the connections. *)
ConnectionMade(i) ==
  /\ Event /\ conns[i].stage = "connecting"
  /\ conns' = SessionConnected(conns, i)
  /\ Stays /\ UNCHANGED <<settings, file, box, running, scan, fetch>>

ConnectionLost(i) ==
  /\ Event /\ conns[i].stage # "off"
  /\ conns' = SessionDisconnected(conns, i)
  /\ Stays /\ UNCHANGED <<settings, file, box, running, scan, fetch>>

LocalSessionIdAssigned(i, port) ==
  /\ Event /\ conns[i].stage = "connected"
  /\ settings' = RememberServer(settings, conns[i].address)
  /\ box' = ServerBox(box, settings')
  /\ conns' = StartSharing(HandleParameters(conns, i), settings, port)
  /\ scan' = StartScan(scan, settings)
  /\ Stays /\ UNCHANGED <<file, running, fetch>>

(* The scanning thread finds files; the idle timer hands them over.        *)
ScannerFinds ==
  /\ Event /\ scan.walking
  /\ scan' = [walking |-> FALSE, pending |-> TRUE]
  /\ Stays /\ UNCHANGED <<settings, file, box, conns, running, fetch>>

DrainShareScanner ==
  /\ Event /\ scan.pending
  /\ conns' = PublishSharedFilesOnAll(conns)
  /\ scan' = [scan EXCEPT !.pending = FALSE]
  /\ Stays /\ UNCHANGED <<settings, file, box, running, fetch>>
-----------------------------------------------------------------------------
(* Ends. *)

Gone ==
  /\ box' = EmptyBox
  /\ conns' = <<>>
  /\ running' = NotRunning
  /\ scan' = NotScanning
  /\ fetch' = 0
  /\ UNCHANGED <<starts, steps>>

(* closeEvent: _SaveSettings, then everything is shut down.                *)
ClosingSettings ==
  SaveExtraServers(
    Set(Set(Set(settings, "server", box.server), "username", box.name),
        "userstatus", Get(settings, "userstatus")), conns)
CloseSavedTooEarly ==   \* mutant: the file is written before the extra servers are set
  /\ up = "up"
  /\ up' = "closed"
  /\ settings' = ClosingSettings
  /\ file' = SetList(settings', "extraserver", settings.lists["extraserver"])
  /\ Gone
Close ==
  /\ up = "up"
  /\ up' = "closed"
  /\ settings' = ClosingSettings
  /\ file' = settings'
  /\ Gone

Crash ==
  /\ up = "up"
  /\ up' = "crashed"
  /\ settings' = EmptyMessage
  /\ UNCHANGED file
  /\ Gone

(* A Save may be under way at any time: /alias saves. *)
CrashWhileSaving ==
  /\ up = "up"
  /\ up' = "crashed"
  /\ settings' = EmptyMessage
  /\ file' = Torn
  /\ Gone

AliasSets == {{}, {<<Binky, Here>>}}

UserAction ==
  \/ \E a \in Address, n \in Name : TypeIntoBoxes(a, n)
  \/ ConnectButton
  \/ \E a \in Address \cup {Empty} : ConnectCommand(a)
  \/ \E a \in Address : ConnectAdditionalServer(a)
  \/ DisconnectEverything
  \/ \E n \in Name : Nick(n)
  \/ \E s \in Status : SetUserStatus(s)
  \/ \E f \in Varied \cap DialogField, port \in ListenPort :
       \E v \in Choices(f) \ {Get(settings, f)} : ShowSettings(f, v, port)
  \/ \E f \in Varied \cap PatternField : \E p \in Choices(f) : FilterCommand(f, p)
  \/ \E aliases \in AliasSets : AliasCommand(aliases)
  \/ \E enabled \in BOOLEAN : ToggleNotifications(enabled)
  \/ \E port \in ListenPort : ToggleFileSharing(port)
  \/ \E folder \in Folder, port \in ListenPort : ChooseShareFolder(folder, port)

Next ==
  \/ Start
  \/ UserAction
  \/ \E removed \in SUBSET Address, added \in Address \cup {Empty} :
       ServerListReceived(removed, added)
  \/ ServerListFails
  \/ \E i \in DOMAIN conns : ConnectionMade(i)
  \/ \E i \in DOMAIN conns : ConnectionLost(i)
  \/ \E i \in DOMAIN conns, port \in ListenPort : LocalSessionIdAssigned(i, port)
  \/ ScannerFinds
  \/ DrainShareScanner
  \/ Close
  \/ Crash
  \/ CrashWhileSaving

Spec == Init /\ [][Next]_vars
-----------------------------------------------------------------------------
(* Properties. *)

(* What a server holds of us is what its connection would send now: every  *)
(* change of the name, the status or the port reached it, and our files    *)
(* are under no node or the one that says whether we accept connections.   *)
Current(c) ==
  IsConnected(c) => c.node = c.local /\ c.files \in {"none", FilesNode(c)}
PublishedIsCurrent == \A i \in DOMAIN conns : Current(conns[i])

(* "Everything stored becomes running behaviour" (MainWindow.cpp:181): the *)
(* components that keep a copy of a setting have the stored value, however *)
(* it was changed.  (Connections do not: see EveryServerIsTold.)           *)
StoredIsRunning == up = "up" => running = Running(settings)

(* "A list fetched over the network should not be able to take away what   *)
(* is working right now" (MainWindow.cpp:1079): a server that gave us a    *)
(* session ID stays in the list, whatever is remembered or fetched.        *)
ConnectedIsListed ==
  \A i \in DOMAIN conns :
    conns[i].stage = "identified" => conns[i].address \in Listed(GetServerList(settings))

(* Promoting and adding move what is known instead of duplicating it.      *)
ListsHaveNoDuplicates ==
  \A f \in ListField : \A i, j \in DOMAIN settings.lists[f] :
    settings.lists[f][i] = settings.lists[f][j] => i = j

(* What the program was closed with is what it is started with again: no   *)
(* step of the constructor changes it.  (Connecting remembers a name.)     *)
ClosedIsKept ==
  [][up = "closed" /\ up' = "up" =>
       /\ settings'.plain = settings.plain
       /\ settings'.aliases = settings.aliases
       /\ \A f \in ListField \ {"usernamelist"} : settings'.lists[f] = settings.lists[f]
       /\ settings.installId # 0 => settings'.installId = settings.installId]_vars

(* What README.md:31 says works: connecting again to a server.             *)
ConnectDials ==
  [][ConnectButton /\ HasAddress(conns, box.server)
       => \E i \in DOMAIN conns' :
            conns'[i].address = box.server /\ conns'[i].stage # "off"]_vars

(* What _ApplySettings is for: every server is told the stored name, the   *)
(* stored status, and whether we accept connections.                       *)
EveryServerIsTold ==
  \A i \in DOMAIN conns : conns[i].stage = "identified" =>
    /\ conns[i].node.name = Get(settings, "username")
    /\ conns[i].node.status = Get(settings, "userstatus")
    /\ conns[i].firewalled = Get(settings, "firewalled")

(* What _SaveExtraServers says it keeps (MainWindow.cpp:1058): the servers  *)
(* that are connected when the program is closed, the first of them as the *)
(* one the Server field shows.                                             *)
EveryServerIsKept ==
  [][Close => \A i \in DOMAIN conns :
       conns[i].address \in {settings'.plain["server"]} \cup Listed(settings'.lists["extraserver"])]_vars

(* A program that was closed starts. *)
StartsAgain == [][up = "closed" => up' # "crashed"]_vars
=============================================================================
