---------------------------- MODULE Connections ----------------------------
(***************************************************************************)
(* Our connections, src/core/ConnectionManager.cpp, and what each of them  *)
(* tells its server about us, src/core/ServerConnection.cpp.               *)
(*                                                                         *)
(* Operators on the list of connections, fConnections.  A connection is    *)
(* paired with what its server holds of us: node, the name and status      *)
(* nodes, and files, the node our files are under.  Setters reach the      *)
(* connections that exist; nothing is remembered for a later one.          *)
(***************************************************************************)
EXTENDS Texts, Integers, Sequences

CONSTANT MaxConnections   \* kMaximumConnections

ASSUME ConnectionsAssumption == MaxConnections \in Nat \ {0}
-----------------------------------------------------------------------------
(* Disconnected, connecting, connected, and connected with a session ID.   *)
Stage == {"off", "connecting", "connected", "identified"}
IsConnected(c) == c.stage \in {"connected", "identified"}

(* The install ID stays zero: it is handed to the connections there are    *)
(* when the program starts, which is none.                                 *)
Identity == [name: Text \cup {Empty}, status: Text \cup {Empty}, port: Nat, installId: Nat]
Nobody == [name |-> Empty, status |-> Empty, port |-> 0, installId |-> 0]

Connection ==
  [address: Text, stage: Stage,
   local: Identity,      \* fLocalUserName, fLocalUserStatus, fAdvertisedPort, fInstallId
   firewalled: BOOLEAN,  \* fFirewalled
   published: BOOLEAN,   \* fPublishedFileCount > 0
   node: Identity,       \* the server: our name and status nodes
   files: {"none", "files", "fires"}]   \* the server: the node our files are under

NewConnection(address) ==
  [address |-> address, stage |-> "connecting",
   local |-> [name |-> Binky, status |-> Here, port |-> 0, installId |-> 0],
   firewalled |-> FALSE, published |-> FALSE, node |-> Nobody, files |-> "none"]

FilesNode(c) == IF c.firewalled THEN "fires" ELSE "files"

HasAddress(conns, address) == \E i \in DOMAIN conns : conns[i].address = address
IsAnyConnected(conns) == \E i \in DOMAIN conns : IsConnected(conns[i])

(* AddConnection: the connection there is, whatever its state, none when    *)
(* there are too many, or a new one, which is dialled.  (A dial that fails  *)
(* at once is one that is lost at once.)                                    *)
AddBeyondLimit(conns, address) ==   \* mutant: they are not counted
  IF HasAddress(conns, address) THEN conns ELSE Append(conns, NewConnection(address))
AddConnection(conns, address) ==
  IF HasAddress(conns, address) \/ Len(conns) >= MaxConnections
    THEN conns
    ELSE Append(conns, NewConnection(address))
-----------------------------------------------------------------------------
(* What one connection publishes. *)

PublishUserName(c) ==
  [c EXCEPT !.node = [c.local EXCEPT !.status = c.node.status]]
PublishUserStatus(c) == [c EXCEPT !.node.status = c.local.status]

SetLocalUserNameOn(c, name) ==
  LET changed == [c EXCEPT !.local.name = name] IN
  IF name \in {Empty, c.local.name} THEN c
  ELSE IF IsConnected(c) THEN PublishUserName(changed) ELSE changed

SetLocalUserStatusOn(c, status) ==
  LET changed == [c EXCEPT !.local.status = status] IN
  IF status = c.local.status THEN c
  ELSE IF IsConnected(c) THEN PublishUserStatus(changed) ELSE changed

SetAdvertisedPortOn(c, port) ==
  LET changed == [c EXCEPT !.local.port = port] IN
  IF port = c.local.port THEN c
  ELSE IF IsConnected(c) THEN PublishUserName(changed) ELSE changed

UnpublishFrom(c) ==
  [c EXCEPT !.published = FALSE, !.files = IF IsConnected(c) THEN "none" ELSE @]

(* The files move to another node with the flag, so they are taken down.   *)
SetFirewalledKeeping(c, firewalled) ==   \* mutant: they are left where they were
  [c EXCEPT !.firewalled = firewalled]
SetFirewalledOn(c, firewalled) ==
  LET changed == [c EXCEPT !.firewalled = firewalled] IN
  IF firewalled # c.firewalled /\ IsConnected(c) /\ c.published
    THEN UnpublishFrom(changed) ELSE changed

PublishSharedFilesOn(c) ==
  IF IsConnected(c) THEN [c EXCEPT !.published = TRUE, !.files = FilesNode(c)] ELSE c

(* The server forgets us, and a count of published files is not reset.     *)
DisconnectOn(c) == [c EXCEPT !.stage = "off", !.node = Nobody, !.files = "none"]
-----------------------------------------------------------------------------
(* The same on every connection. *)

SetLocalUserName(conns, name) ==
  [i \in DOMAIN conns |-> SetLocalUserNameOn(conns[i], name)]
SetLocalUserStatus(conns, status) ==
  [i \in DOMAIN conns |-> SetLocalUserStatusOn(conns[i], status)]
SetFirewalled(conns, firewalled) ==
  [i \in DOMAIN conns |-> SetFirewalledOn(conns[i], firewalled)]
SetAdvertisedPort(conns, port) ==
  [i \in DOMAIN conns |-> SetAdvertisedPortOn(conns[i], port)]
UnpublishAllSharedFiles(conns) == [i \in DOMAIN conns |-> UnpublishFrom(conns[i])]
PublishSharedFilesOnAll(conns) == [i \in DOMAIN conns |-> PublishSharedFilesOn(conns[i])]
DisconnectAll(conns) == [i \in DOMAIN conns |-> DisconnectOn(conns[i])]
-----------------------------------------------------------------------------
(* Events of one connection. *)

(* SessionConnected publishes the name and the status before anything else *)
SessionConnected(conns, i) ==
  [conns EXCEPT ![i] = PublishUserStatus(PublishUserName([@ EXCEPT !.stage = "connected"]))]

(* _HandleParameters: the session ID. *)
HandleParameters(conns, i) == [conns EXCEPT ![i].stage = "identified"]

(* SessionDisconnected, SessionDetached.                                   *)
SessionDisconnected(conns, i) == [conns EXCEPT ![i] = DisconnectOn(@)]
=============================================================================
