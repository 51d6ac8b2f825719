------------------------------ MODULE Sharing ------------------------------
(***************************************************************************)
(* How the window runs file sharing: src/qt/MainWindow.cpp drives the      *)
(* ShareScanner, tells every server what is shared, and gives the upload   *)
(* server the files it may serve.                                          *)
(*                                                                         *)
(* Handlers run on the GUI thread; where one waits for the scanning thread *)
(* to end, or takes from it twice, it is split there and the scanning      *)
(* thread runs in between.  The upload server is here its listening socket *)
(* and its table of files; its peers are module FileUploadServer's.        *)
(***************************************************************************)
EXTENDS ShareScanner

CONSTANTS
  NoFolder,            \* no share folder chosen yet
  Conn                 \* ServerConnections; one connects once

VARIABLES
  sharedCount,  \* fSharedFileCount
  enabled,      \* the "file sharing" setting
  folder,       \* the share folder setting
  stage,        \* how far each connection has come
  nodes,        \* what each server lists under beshare/files, by leaf name
  filecount,    \* beshare/filecount as each server has it
  port,         \* connections whose fAdvertisedPort is not zero
  listening,    \* the upload server's fListenPort # 0
  serving,      \* the upload server's fSharedFiles
  handler,      \* where the GUI thread is inside a handler
  restart       \* how many times it has _StartSharing to call after that

settings == <<enabled, folder>>
network == <<stage, nodes, filecount, port>>
uploads == <<listening, serving>>
control == <<handler, restart>>
sharingVars == <<vars, sharedCount, settings, network, uploads, control>>

ASSUME SharingAssumption == NoFolder \notin Folder

(* A connection is made (AddConnection), gets through, and is told its     *)
(* session ID.  Lost, it is not used again: AddConnection returns the one  *)
(* it has for an address and dials nothing.                                *)
Stage == {"none", "connecting", "connected", "ready", "lost"}
Live == {c \in Conn : stage[c] \in {"connecting", "connected", "ready"}}
Online == {c \in Conn : stage[c] \in {"connected", "ready"}}
Ready == {c \in Conn : stage[c] = "ready"}

SharingTypeOK ==
  /\ TypeOK
  /\ sharedCount \in Nat
  /\ enabled \in BOOLEAN
  /\ folder \in Folder \cup {NoFolder}
  /\ stage \in [Conn -> Stage]
  /\ nodes \in [Conn -> SUBSET Name]
  /\ filecount \in [Conn -> Nat]
  /\ port \subseteq Live
  /\ listening \in BOOLEAN
  /\ serving \subseteq SharedFile
  /\ handler \in {"none", "stopping", "starting", "draining"}
  /\ restart \in 0..2

SharingInit ==
  /\ Init
  /\ sharedCount = 0
  /\ enabled \in BOOLEAN
  /\ folder \in Folder \cup {NoFolder}
  /\ stage = [c \in Conn |-> "none"]
  /\ nodes = [c \in Conn |-> {}]
  /\ filecount = [c \in Conn |-> 0]
  /\ port = {}
  /\ listening = FALSE
  /\ serving = {}
  /\ handler = "none"
  /\ restart = 0

Idle == handler = "none" /\ call = "none"
-----------------------------------------------------------------------------
(* _StartSharing: listen on a port of the range, or fail to; tell every    *)
(* connection the port, but not that there is none; scan from scratch.     *)
StartSharing(on, d) ==
  IF ~on \/ d = NoFolder
    THEN UNCHANGED <<vars, sharedCount, port, listening>>
    ELSE /\ listening' \in BOOLEAN
         /\ port' = IF listening' THEN Live ELSE port
         /\ sharedCount' = 0
         /\ StartScan(d)

(* _StopSharing, as far as StopScan: the rest is StopSharingReturns.       *)
StopSharing(again) ==
  /\ StopScan
  /\ handler' = "stopping"
  /\ restart' = again
  /\ UNCHANGED <<sharedCount, network, uploads>>

(* SetAdvertisedPort reaches every connection, UnpublishAllSharedFiles and *)
(* PublishSharedFileCount the ones that are connected; fSharedFiles is     *)
(* cleared, the upload server's table and what the scanner still holds are *)
(* not.                                                                    *)
Unpublish ==
  /\ nodes' = [c \in Conn |-> IF c \in Online THEN {} ELSE nodes[c]]
  /\ filecount' = [c \in Conn |-> IF c \in Online THEN 0 ELSE filecount[c]]

StopSharingReturns ==
  /\ handler = "stopping" /\ call = "none"
  /\ listening' = FALSE
  /\ port' = {}
  /\ Unpublish
  /\ taken' = {}
  /\ sharedCount' = 0
  /\ handler' = IF restart > 0 THEN "starting" ELSE "none"
  /\ UNCHANGED <<directory, pending, claimed, duplicates, running, finished, abort, thread,
                 root, todo, current, call, contents, present, settings, stage, serving, restart>>

StartSharingAgain ==
  /\ handler = "starting" /\ call = "none"
  /\ StartSharing(enabled, folder)
  /\ restart' = restart - 1
  /\ handler' = IF restart > 1 THEN "starting" ELSE "none"
  /\ UNCHANGED <<settings, stage, nodes, filecount, serving>>
-----------------------------------------------------------------------------
(* Events. *)

(* AddConnection of an address that has no connection yet.  One just made  *)
(* advertises no port until it is told one.                                *)
AddConnection(c) ==
  /\ Idle /\ stage[c] = "none"
  /\ stage' = [stage EXCEPT ![c] = "connecting"]
  /\ UNCHANGED <<vars, sharedCount, settings, nodes, filecount, port, uploads, control>>

SessionConnected(c) ==
  /\ Idle /\ stage[c] = "connecting"
  /\ stage' = [stage EXCEPT ![c] = "connected"]
  /\ UNCHANGED <<vars, sharedCount, settings, nodes, filecount, port, uploads, control>>

(* LocalSessionIdAssigned.                                                 *)
SessionWithoutScan(c) ==   \* mutant: sharing that runs already is left alone
  /\ Idle /\ stage[c] = "connected"
  /\ stage' = [stage EXCEPT ![c] = "ready"]
  /\ IF listening
       THEN UNCHANGED <<vars, sharedCount, port, listening>>
       ELSE StartSharing(enabled, folder)
  /\ UNCHANGED <<settings, nodes, filecount, serving, control>>
LocalSessionIdAssigned(c) ==
  /\ Idle /\ stage[c] = "connected"
  /\ stage' = [stage EXCEPT ![c] = "ready"]
  /\ StartSharing(enabled, folder)
  /\ UNCHANGED <<settings, nodes, filecount, serving, control>>

(* SessionDisconnected, or the user disconnects.  The server forgets the   *)
(* session's nodes; sharing goes on.                                       *)
ConnectionLost(c) ==
  /\ Idle /\ c \in Live
  /\ stage' = [stage EXCEPT ![c] = "lost"]
  /\ nodes' = [nodes EXCEPT ![c] = {}]
  /\ filecount' = [filecount EXCEPT ![c] = 0]
  /\ port' = port \ {c}
  /\ UNCHANGED <<vars, sharedCount, settings, uploads, control>>

ToggleFileSharing ==
  /\ Idle
  /\ enabled' = ~enabled
  /\ IF enabled
       THEN StopSharing(0)
       ELSE /\ IF Online # {}
                 THEN StartSharing(TRUE, folder)
                 ELSE UNCHANGED <<vars, sharedCount, port, listening>>
            /\ UNCHANGED <<stage, nodes, filecount, serving, control>>
  /\ UNCHANGED folder

ChooseShareFolder(d) ==
  /\ Idle
  /\ folder' = d
  /\ IF enabled /\ Online # {}
       THEN StopSharing(1)
       ELSE UNCHANGED <<vars, sharedCount, network, uploads, control>>
  /\ UNCHANGED enabled

(* _OnShowSettings, when the dialog is accepted.  Where the switch changes *)
(* the menu's check mark follows, which calls _OnToggleFileSharing: it     *)
(* starts what was just started once more, or stops it to no effect.       *)
ApplySettings(on, d) ==
  /\ Idle
  /\ enabled' = on
  /\ folder' = d
  /\ IF enabled \/ on
       THEN StopSharing(IF ~on \/ Online = {} THEN 0 ELSE IF enabled THEN 1 ELSE 2)
       ELSE UNCHANGED <<vars, sharedCount, network, uploads, control>>

(* _DrainShareScanner at the idle timer: first what was found...           *)
Publish(files) ==
  nodes' = [c \in Conn |-> IF c \in Online THEN nodes[c] \cup NamesOf(files) ELSE nodes[c]]
ServeOnlyNew == serving' = taken' \ taken   \* mutant: each batch replaces the table
ServeAll == serving' = taken'

DrainDiscovered ==
  /\ Idle
  /\ handler' = "draining"
  /\ IF pending # <<>>
       THEN /\ TakeDiscoveredFiles
            /\ Publish({pending[i] : i \in DOMAIN pending})
            /\ ServeAll
            /\ sharedCount' = sharedCount + Len(pending)
       ELSE UNCHANGED <<vars, nodes, serving, sharedCount>>
  /\ UNCHANGED <<settings, stage, filecount, port, listening, restart>>

(* ... then whether that was all.                                          *)
DrainFinished ==
  /\ handler = "draining"
  /\ handler' = "none"
  /\ IF finished
       THEN /\ TakeScanFinished
            /\ filecount' = [c \in Conn |-> IF c \in Online THEN sharedCount ELSE filecount[c]]
       ELSE UNCHANGED <<vars, filecount>>
  /\ UNCHANGED <<sharedCount, settings, stage, nodes, port, uploads, restart>>

ScannerWalks ==
  /\ ScanThread
  /\ UNCHANGED <<sharedCount, settings, network, uploads, control>>

ScannerReturns ==
  /\ StopScanReturns \/ StartScanReturns
  /\ UNCHANGED <<sharedCount, settings, network, uploads, control>>

SharingNext ==
  \/ ScannerWalks
  \/ ScannerReturns
  \/ StopSharingReturns
  \/ StartSharingAgain
  \/ \E c \in Conn : AddConnection(c)
  \/ \E c \in Conn : SessionConnected(c)
  \/ \E c \in Conn : LocalSessionIdAssigned(c)
  \/ \E c \in Conn : ConnectionLost(c)
  \/ ToggleFileSharing
  \/ \E d \in Folder : ChooseShareFolder(d)
  \/ \E on \in BOOLEAN, d \in Folder : ApplySettings(on, d)
  \/ DrainDiscovered
  \/ DrainFinished

SharingSpec == SharingInit /\ [][SharingNext]_sharingVars
-----------------------------------------------------------------------------
(* Properties. *)

(* Nothing is left to do: the scan ended by itself, and the idle timer has *)
(* taken everything it found.                                              *)
Settled == Idle /\ enabled /\ Completed /\ pending = <<>> /\ ~finished

(* Whatever servers came and went and whatever was switched meanwhile, a   *)
(* scan that has settled was of the folder in the settings, and every      *)
(* server that gave us a session lists all of its leaf names.                   *)
EverythingPublished ==
  Settled /\ Ready # {} =>
    /\ directory = folder
    /\ \A c \in Ready : NamesOfEntries(contents[folder]) \subseteq nodes[c]

(* ... and the upload server serves just these, at their own paths (if     *)
(* there is any: see ServedIsShared).                                      *)
EverythingServed ==
  Settled /\ Ready # {} /\ contents[folder] # {} =>
    /\ NamesOf(serving) = NamesOfEntries(contents[folder])
    /\ \A f \in serving : f.folder = folder

(* ServerConnection.h:158 says of UnpublishAllSharedFiles that it removes  *)
(* every file when sharing is turned off: none is published after that.    *)
OffMeansUnpublished == Idle /\ ~enabled => \A c \in Online : nodes[c] = {}

(* ServerConnection.h:161 says of beshare/filecount that it is how many    *)
(* files we are sharing.                                                   *)
CountIsRight ==
  Settled => \A c \in Ready : filecount[c] = Cardinality(taken)

(* FileUploadServer.h:86 says that nothing outside the current share can   *)
(* be served.                                                              *)
ServedIsShared ==
  Settled /\ Ready # {} /\ listening => \A f \in serving : f.folder = folder

(* PROTOCOL.md:283 says that the port advertised is zero until a listening *)
(* socket exists.                                                          *)
PortMeansListening == Idle /\ port \cap Online # {} => listening
=============================================================================
