-------------------------------- MODULE Chat --------------------------------
(***************************************************************************)
(* Chat: the user types lines, connections carry them to servers and bring *)
(* lines, names and pings back, and the window shows, logs and announces   *)
(* what came.  src/core/ServerConnection.cpp, src/core/ConnectionManager.- *)
(* cpp and src/qt/MainWindow.cpp.                                          *)
(*                                                                         *)
(* A connection has two channels in order, up to the server and down to    *)
(* us.  The server and the other clients are external: the server relays   *)
(* what is sent to everyone to us too, and our own name node, as comments  *)
(* in ServerConnection.cpp say.  It may be restarted, and then the session *)
(* IDs come again.                                                         *)
(***************************************************************************)
EXTENDS UserList, ChatLogger

CONSTANTS
  Server,     \* the servers we have a connection to: addresses
  Primary,    \* the first of them, which the settings name
  Session,    \* session IDs
  Person,     \* names of users
  Us,         \* our name
  Input,      \* bound: the lines the user types
  Stored,     \* the aliases that the settings hold
  LogDir,     \* bound: the folders for logs, "" for none
  MaxSteps    \* bound: what the user, the others and the network do

(* Servers and clients can tell their IDs and names apart from one another *)
(* and from "", which stands for none, and "*", which stands for everyone. *)
ASSUME ChatAssumption ==
  /\ IsFiniteSet(Server) /\ Primary \in Server
  /\ IsFiniteSet(Session) /\ "1" \in Session /\ Session \cap {"", "*"} = {}
  /\ Us \notin Person /\ "" \notin Person \cup {Us}

VARIABLES
  conns,    \* [stage, id, users] of each connection: id is fLocalSessionId
  up, down, \* the channels
  link,     \* the server's end: [id, named, subscribed]
  there,    \* the server: the names of the other sessions it has
  ever,     \* history: the names that each session had since the server started
  filters,  \* fIgnoreFilter, fWatchFilter, fAutoPrivFilter
  aliases,  \* fAliases
  table,    \* fUserListModel
  logger,   \* fChatLogger
  today,
  shown,    \* the chat lines that this step added to the window
  heard,    \* the whispers that this step brought to a client
  steps

client == <<conns, table>>
network == <<up, down, link>>
server == <<there, ever>>
user == <<filters, aliases>>
time == <<today, steps>>
vars == <<client, network, server, user, logger, time, shown, heard>>
-----------------------------------------------------------------------------
NoId == ""
NoLink == [id |-> NoId, named |-> FALSE, subscribed |-> FALSE]
Off == [stage |-> "off", id |-> NoId, users |-> NoUsers]
IsConnected(c) == conns[c].stage = "connected"
Names == Person \cup {Us}

TypeOK ==
  /\ \A c \in Server :
       /\ conns[c].stage \in {"off", "connecting", "connected"}
       /\ conns[c].id \in Session \cup {NoId}
       /\ DOMAIN conns[c].users \subseteq Session
       /\ DOMAIN there[c] \subseteq Session
       /\ link[c].id \in (Session \cup {NoId}) \ DOMAIN there[c]
  /\ Len(table.rows) <= Cardinality(Server \X Session)

(* Who is on a server when we come: a user with the first session ID.      *)
SomeUsers == [{"1"} -> Person]
EverOf(others) == [s \in Session |-> {others[t] : t \in DOMAIN others \cap {s}}]

(* The program has started and dials its first server; the others could    *)
(* not be reached.  Servers have users.                                    *)
Init ==
  /\ conns = [c \in Server |-> IF c = Primary THEN [Off EXCEPT !.stage = "connecting"] ELSE Off]
  /\ up = [c \in Server |-> <<>>]
  /\ down = [c \in Server |-> <<>>]
  /\ link = [c \in Server |-> NoLink]
  /\ there \in [Server -> SomeUsers]
  /\ ever = [c \in Server |-> EverOf(there[c])]
  /\ filters = [ignore |-> {}, watch |-> {}, autopriv |-> {}]
  /\ aliases = Stored
  /\ table = NoRows
  /\ logger \in {SetEnabled(SetServerName(SetLogDirectory(NewLogger, d), Primary), TRUE) :
                  d \in LogDir}
  /\ today = 1
  /\ shown = <<>>
  /\ heard = {}
  /\ steps = 0

Quiet == shown' = <<>> /\ heard' = {}
Step == steps < MaxSteps /\ steps' = steps + 1 /\ UNCHANGED today
-----------------------------------------------------------------------------
(* Connecting, and losing a connection. *)

Post(c, messages) == up' = [up EXCEPT ![c] = @ \o messages]
NoLongerConnected(c) ==
  /\ up' = [up EXCEPT ![c] = <<>>]
  /\ down' = [down EXCEPT ![c] = <<>>]
  /\ link' = [link EXCEPT ![c] = NoLink]

(* What is cleared when a connection ends: DisconnectFromServer,           *)
(* SessionDisconnected and SessionDetached, with ConnectionStateChanged.   *)
ClearKeepingUsers(c) ==   \* mutant: the registry is kept
  [conns EXCEPT ![c].stage = "off", ![c].id = NoId]
ClearConnection(c) == [conns EXCEPT ![c] = Off]

ConnectToServer(c) ==
  /\ Step
  /\ conns' = [ClearConnection(c) EXCEPT ![c].stage = "connecting"]
  /\ table' = RemoveRowsOf(table, c)
  /\ NoLongerConnected(c)
  /\ Quiet
  /\ UNCHANGED <<server, user, logger>>

(* The server gives no session ID twice.                                   *)
Unused(c) == {s \in Session : ever[c][s] = {}}

SessionConnected(c) ==
  /\ conns[c].stage = "connecting"
  /\ conns' = [conns EXCEPT ![c].stage = "connected"]
  /\ Post(c, <<[what |-> "name"], [what |-> "subscribe"], [what |-> "getparameters"]>>)
  /\ \E id \in Unused(c) :
       /\ link' = [link EXCEPT ![c].id = id]
       /\ ever' = [ever EXCEPT ![c][id] = {Us}]
  /\ Quiet
  /\ UNCHANGED <<table, down, there, user, logger, time>>

SessionDisconnected(c) ==
  /\ Step
  /\ conns[c].stage # "off"
  /\ conns' = ClearConnection(c)
  /\ table' = RemoveRowsOf(table, c)
  /\ NoLongerConnected(c)
  /\ \/ UNCHANGED server
     \/ \E others \in SomeUsers :   \* it was restarted
          /\ there' = [there EXCEPT ![c] = others]
          /\ ever' = [ever EXCEPT ![c] = EverOf(others)]
  /\ Quiet
  /\ UNCHANGED <<user, logger>>
-----------------------------------------------------------------------------
(* The server and the other clients (external).                            *)

Relay(c, messages) == down' = [down EXCEPT ![c] = @ \o messages]
Named(names) == [what |-> "names", names |-> names]
Chat(s, private, by, told) ==
  [what |-> "chat", session |-> s, private |-> private, by |-> by, told |-> told]

(* Names that we subscribed to come at once, our own among them, and then  *)
(* whenever they change.  A whisper reaches the client with that ID.       *)
ServerReceives(c) ==
  /\ up[c] # <<>>
  /\ up' = [up EXCEPT ![c] = Tail(@)]
  /\ LET m == Head(up[c])
         toUs == [what |-> "chat", session |-> m.session, private |-> m.to # "*",
                  by |-> Us, told |-> FALSE]
     IN \/ /\ m.what = "name"
           /\ link' = [link EXCEPT ![c].named = TRUE]
           /\ heard' = {}
           /\ UNCHANGED down
        \/ /\ m.what = "subscribe"
           /\ link' = [link EXCEPT ![c].subscribed = TRUE]
           /\ Relay(c, <<Named(With(there[c], link[c].id, Us))>>)
           /\ heard' = {}
        \/ /\ m.what = "getparameters"
           /\ Relay(c, <<[what |-> "parameters", session |-> link[c].id]>>)
           /\ heard' = {}
           /\ UNCHANGED link
        \/ /\ m.what = "chat"
           /\ IF m.to \in {"*", link[c].id} THEN Relay(c, <<toUs>>) ELSE UNCHANGED down
           /\ heard' = IF m.to \in DOMAIN there[c]
                         THEN {[server |-> c, session |-> m.to, typed |-> m.typed]} ELSE {}
           /\ UNCHANGED link
        \/ /\ m.what = "ping"
           /\ IF m.to \in DOMAIN there[c]
                THEN Relay(c, <<[what |-> "pong", session |-> m.to]>>) ELSE UNCHANGED down
           /\ heard' = {}
           /\ UNCHANGED link
        \/ /\ m.what = "pong"
           /\ heard' = {}
           /\ UNCHANGED <<link, down>>
  /\ shown' = <<>>
  /\ UNCHANGED <<client, server, user, logger, time>>

Tell(c, message) ==
  IF link[c].subscribed THEN Relay(c, <<message>>) ELSE UNCHANGED down

(* Another client takes a name, for the first time or a new one, or leaves.*)
OtherNamed(c) ==
  /\ Step
  /\ \E s \in DOMAIN there[c] \cup Unused(c), n \in Person :
       /\ s \in DOMAIN there[c] => there[c][s] # n
       /\ there' = [there EXCEPT ![c] = With(@, s, n)]
       /\ ever' = [ever EXCEPT ![c][s] = @ \cup {n}]
       /\ Tell(c, Named([t \in {s} |-> n]))
  /\ Quiet
  /\ UNCHANGED <<client, up, link, user, logger>>

OtherLeaves(c) ==
  /\ Step
  /\ \E s \in DOMAIN there[c] :
       /\ there' = [there EXCEPT ![c] = Without(@, s)]
       /\ Tell(c, [what |-> "removed", session |-> s])
  /\ Quiet
  /\ UNCHANGED <<client, up, link, ever, user, logger>>

(* Chat and pings reach us once the server has our name node.              *)
OtherSpeaks(c) ==
  /\ Step
  /\ link[c].named
  /\ \E s \in DOMAIN there[c] :
       \/ \E private \in BOOLEAN :
            Relay(c, <<Chat(s, private, there[c][s], link[c].subscribed)>>)
       \/ Relay(c, <<[what |-> "ping", session |-> s]>>)
  /\ Quiet
  /\ UNCHANGED <<client, up, link, server, user, logger>>
-----------------------------------------------------------------------------
(* Lines in the window. *)

(* What the log did of the lines is kept with them.  A file that must be   *)
(* opened may fail to.                                                     *)
Show(lines) ==
  \E opens \in IF logger.enabled /\ ~IsOpen(logger, today) THEN BOOLEAN ELSE {TRUE} :
    LET after == IF lines = <<>> THEN logger ELSE Log(logger, today, opens) IN
    /\ logger' = after
    /\ shown' = [i \in DOMAIN lines |->
                   [line |-> lines[i], opens |-> opens,
                    file |-> IF after.enabled THEN after.path ELSE NoFile]]

(* _MaybeNotifyAboutChat.  No line here mentions our name.                 *)
Notifies(message, looking) ==
  \/ Matches(filters.autopriv, message.name, message.session)
  \/ /\ ~looking
     /\ message.private \/ Matches(filters.watch, message.name, message.session)

(* What ChatMessageReceived shows when several servers are connected to.   *)
DisplayedName(c, name) == IF Cardinality(Server) > 1 THEN name \o "@" \o c ELSE name

IgnoredAsShown(c, message) ==   \* mutant: the name is looked up as it is shown
  Matches(filters.ignore, DisplayedName(c, message.name), message.session)
Ignored(c, message) == Matches(filters.ignore, message.name, message.session)

ChatMessageReceived(c, message) ==
  IF Ignored(c, message) THEN shown' = <<>> /\ UNCHANGED logger
  ELSE \E looking \in BOOLEAN :   \* _UserIsLookingAtUs
         Show(<<[from |-> c, message |-> message,
                 name |-> DisplayedName(c, message.name),
                 highlighted |-> Matches(filters.watch, message.name, message.session),
                 notified |-> Notifies(message, looking)]>>)

Echo(name) ==
  [from |-> "here", message |-> <<>>, name |-> name, highlighted |-> FALSE,
   notified |-> FALSE]
-----------------------------------------------------------------------------
(* What a connection receives. *)

NameNodes(c, m) ==
  LET others == Without(m.names, conns[c].id)
  IN /\ conns' = [conns EXCEPT ![c].users =
                    [s \in DOMAIN @ \cup DOMAIN others |->
                       IF s \in DOMAIN others THEN others[s] ELSE @[s]]]
     /\ table' = UpdateUsers(table, c, others)

(* A user is gone with the session node, or with the name node.            *)
NodeKept(c, m) ==   \* mutant: only the session node counts
  UNCHANGED client
NodeRemoved(c, m) ==
  IF m.session \notin DOMAIN conns[c].users THEN UNCHANGED client
  ELSE /\ conns' = [conns EXCEPT ![c].users = Without(@, m.session)]
       /\ table' = RemoveRow(table, c, m.session)

(* The copy of our own line is dropped, by its session ID.                 *)
DropsOnlyWhispers(c, m) ==   \* mutant: of lines to everyone it is not
  m.private /\ m.session = conns[c].id
DropsCopy(c, m) == m.session = conns[c].id

HandleChatText(c, m) ==
  IF DropsCopy(c, m) THEN shown' = <<>> /\ UNCHANGED logger
  ELSE ChatMessageReceived(c, [name |-> DisplayName(conns[c].users, m.session),
                               session |-> m.session, private |-> m.private,
                               by |-> m.by, told |-> m.told])

MessageReceived(c) ==
  /\ down[c] # <<>>
  /\ LET m == Head(down[c]) IN
     \/ /\ m.what = "names"
        /\ NameNodes(c, m)
        /\ shown' = <<>>
        /\ UNCHANGED <<up, logger>>
     \/ /\ m.what = "removed"
        /\ NodeRemoved(c, m)
        /\ shown' = <<>>
        /\ UNCHANGED <<up, logger>>
     \/ /\ m.what = "parameters"
        /\ conns' = [conns EXCEPT ![c].id = m.session]
        /\ shown' = <<>>
        /\ UNCHANGED <<up, table, logger>>
     \/ /\ m.what = "chat"
        /\ HandleChatText(c, m)
        /\ UNCHANGED <<client, up>>
     \/ /\ m.what = "ping"
        /\ Post(c, <<[what |-> "pong", to |-> m.session, session |-> conns[c].id]>>)
        /\ shown' = <<>>
        /\ UNCHANGED <<client, logger>>
     \/ /\ m.what = "pong"
        /\ shown' = <<>>
        /\ UNCHANGED <<client, up, logger>>
  /\ down' = [down EXCEPT ![c] = Tail(@)]
  /\ heard' = {}
  /\ UNCHANGED <<link, server, user, time>>
-----------------------------------------------------------------------------
(* What the user types.  SendChatText and SendPing carry our session ID, as*)
(* far as we know it; typed is kept to compare.                            *)

Connected == {c \in Server : IsConnected(c)}

SendChatToEveryone ==
  /\ IF Connected = {} THEN shown' = <<>> /\ UNCHANGED <<up, logger>>
     ELSE /\ up' = [c \in Server |-> IF c \notin Connected THEN up[c] ELSE
                     Append(up[c], [what |-> "chat", to |-> "*", typed |-> "*",
                                    session |-> conns[c].id])]
          /\ Show(<<Echo(Us)>>)
  /\ UNCHANGED <<conns, table, user>>

Resolved(c, typed) == SetToSeq(ResolveToSessionIds(conns[c].users, typed))
SendTo(what, typed) ==
  up' = [c \in Server |-> up[c] \o
          [i \in DOMAIN Resolved(c, typed) |->
             [what |-> what, to |-> Resolved(c, typed)[i], typed |-> typed,
              session |-> conns[c].id]]]
Targets(typed) ==
  {x \in Server \X Session : x[2] \in ResolveToSessionIds(conns[x[1]].users, typed)}

SendPrivateMessage(target, text) ==
  /\ IF target = <<>> \/ text = <<>> \/ Connected = {}
       THEN shown' = <<>> /\ UNCHANGED <<up, logger>>
       ELSE /\ SendTo("chat", target[1])
            /\ LET targets == SetToSeq(Targets(target[1])) IN
               Show([i \in DOMAIN targets |->
                       Echo(DisplayName(conns[targets[i][1]].users, targets[i][2]))])
  /\ UNCHANGED <<conns, table, user>>

PingUser(target) ==
  /\ IF target = <<>> \/ Connected = {} THEN UNCHANGED up ELSE SendTo("ping", target[1])
  /\ shown' = <<>>
  /\ UNCHANGED <<conns, table, user, logger>>

(* No words show the list; "-" clears it.                                  *)
HandleFilterCommand(filter, words) ==
  /\ filters' = IF words = <<>> THEN filters
                ELSE [filters EXCEPT ![filter] = IF words = <<"-">> THEN {} ELSE Range(words)]
  /\ shown' = <<>>
  /\ UNCHANGED <<conns, table, up, aliases, logger>>

(* The value is what was typed; here, always a command.                    *)
HandleAliasCommand(command) ==
  /\ aliases' =
       IF command.type = "unalias"
         THEN IF command.argument = <<>> THEN aliases
              ELSE RemoveAlias(aliases, command.argument[1])
       ELSE IF command.target = <<>> \/ command.argument = <<>> THEN aliases
       ELSE SetAlias(aliases, command.target[1], [lead |-> "/", words |-> command.argument])
  /\ shown' = <<>>
  /\ UNCHANGED <<conns, table, up, filters, logger>>

(* DisconnectAll. *)
Disconnect ==
  /\ conns' = [c \in Server |-> Off]
  /\ table' = NoRows
  /\ up' = [c \in Server |-> <<>>]
  /\ down' = [c \in Server |-> <<>>]
  /\ link' = [c \in Server |-> NoLink]
  /\ shown' = <<>>
  /\ UNCHANGED <<user, logger>>

(* Commands that touch nothing here are left to Application and            *)
(* QueryResults, or only show something.                                   *)
HandleUserInput ==
  /\ Step
  /\ \E line \in Input :
       LET command == Parse(Expand(aliases, line)) IN
       \/ /\ command.type \in {"none", "action"}
          /\ SendChatToEveryone
          /\ UNCHANGED <<down, link>>
       \/ /\ command.type = "msg"
          /\ SendPrivateMessage(command.target, command.argument)
          /\ UNCHANGED <<down, link>>
       \/ /\ command.type = "ping"
          /\ PingUser(command.target)
          /\ UNCHANGED <<down, link>>
       \/ /\ command.type \in DOMAIN filters
          /\ HandleFilterCommand(command.type, command.argument)
          /\ UNCHANGED <<down, link>>
       \/ /\ command.type \in {"alias", "unalias"}
          /\ HandleAliasCommand(command)
          /\ UNCHANGED <<down, link>>
       \/ /\ command.type = "disconnect"
          /\ Disconnect
  /\ heard' = {}
  /\ UNCHANGED server

(* _ApplySettings, of the log.                                             *)
ApplySettings ==
  /\ Step
  /\ \E d \in LogDir \cup {""}, c \in Server, enabled \in BOOLEAN :
       logger' = SetEnabled(SetServerName(SetLogDirectory(logger, d), c), enabled)
  /\ Quiet
  /\ UNCHANGED <<client, network, server, user>>

NewDay ==
  /\ steps < MaxSteps
  /\ steps' = steps + 1
  /\ today' = today + 1
  /\ Quiet
  /\ UNCHANGED <<client, network, server, user, logger>>

Next ==
  \/ HandleUserInput
  \/ ApplySettings
  \/ NewDay
  \/ \E c \in Server :
       \/ ConnectToServer(c)
       \/ SessionConnected(c)
       \/ SessionDisconnected(c)
       \/ ServerReceives(c)
       \/ OtherNamed(c)
       \/ OtherLeaves(c)
       \/ OtherSpeaks(c)
       \/ MessageReceived(c)

Spec == Init /\ [][Next]_vars
-----------------------------------------------------------------------------
(* A line of ours that went out with our session ID is not shown a second  *)
(* time when the server relays it to us: it was echoed when it was typed,  *)
(* and _HandleChatText drops the copy.                                     *)
OwnLinesOnce ==
  \A i \in DOMAIN shown :
    LET line == shown[i].line IN
    line.from # "here" /\ line.message.by = Us => line.message.session = NoId

(* Nothing of an ignored user is shown, and so logged or announced: not    *)
(* when several servers are connected to, nor after they changed their name*)
(* or we reconnected, once the server was asked for names.                 *)
IgnoredStaysOut ==
  \A i \in DOMAIN shown :
    LET line == shown[i].line IN
    line.from # "here" /\ line.message.told
      => ~Matches(filters.ignore, line.message.by, line.message.session)

(* A whisper that a client hears was meant for it: what was typed is its   *)
(* session ID or a name that it had on that server, never those of someone *)
(* with the same session ID elsewhere or earlier.                          *)
WhispersReachTheNamed ==
  \A h \in heard :
    \/ h.typed = h.session
    \/ \E n \in ever[h.server][h.session] :
         n = h.typed \/ (h.typed \in Wildcards /\ <<h.typed, n>> \in Matching)

(* A line that is shown is in the log file of this day, in the folder and  *)
(* under the server name of the settings, unless logs are off or the file  *)
(* cannot be opened; with logs off it is in none.                          *)
LogIsFaithful ==
  \A i \in DOMAIN shown :
    \/ logger.enabled /\ shown[i].file = PathOn(logger, today)
    \/ shown[i].file = NoFile /\ ~(logger.enabled /\ logger.directory # "" /\ shown[i].opens)

(* The rows of the user list are the users of all registries, each once,   *)
(* and the index finds the row of each.                                    *)
Listed == {[server |-> x[1], session |-> x[2], name |-> conns[x[1]].users[x[2]]] :
             x \in {y \in Server \X Session : y[2] \in DOMAIN conns[y[1]].users}}
ListShowsEveryone ==
  /\ Range(table.rows) = Listed
  /\ Len(table.rows) = Cardinality(Listed)
  /\ DOMAIN table.at = {Key(row) : row \in Listed}
  /\ \A key \in DOMAIN table.at :
       table.at[key] \in DOMAIN table.rows /\ Key(table.rows[table.at[key]]) = key

(* Once everything the server sent has been handled, the registry has the  *)
(* others that are there, under their names: nobody is missing, and nobody *)
(* who left piles up.                                                      *)
ListIsCurrent ==
  \A c \in Server : link[c].subscribed /\ down[c] = <<>> =>
    Without(conns[c].users, link[c].id) = there[c]

(* What the code does not do, checked by hand.                             *)

(* A line of ours is never shown a second time.  One that is typed before  *)
(* the session ID is known goes out without one, and its copy is shown.    *)
OwnLinesNeverTwice ==
  \A i \in DOMAIN shown :
    LET line == shown[i].line IN line.from # "here" => line.message.by # Us

(* A line that came from a server is logged under that server.  All go     *)
(* into the file of the server that the settings name.                     *)
OneFilePerServer ==
  \A i \in DOMAIN shown :
    shown[i].line.from # "here" /\ shown[i].file # NoFile
      => shown[i].file[2] = shown[i].line.from
=============================================================================
