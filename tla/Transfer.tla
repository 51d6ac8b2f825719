------------------------------ MODULE Transfer ------------------------------
(***************************************************************************)
(* One HiTuxShare downloading from another: FileDownload at one end of a   *)
(* TCP connection, FileUploadServer at the other, with other peers of the  *)
(* server competing for its slots.                                         *)
(*                                                                         *)
(* The connection is FIFO.  The server's stamps of one request are sent in *)
(* lexicographic order, so the message to arrive next is the least stamp   *)
(* that was sent and not read.                                             *)
(***************************************************************************)
EXTENDS FileUploadServer

CONSTANTS
  Me,           \* the downloader's session at the server
  UserAborts    \* whether the user cancels the download

ASSUME TransferAssumption == Me \in Peer /\ UserAborts \in BOOLEAN

VARIABLES
  state, link, isOpen, path, size, done, completed, candidate, directory,
  asked,   \* fRequestedFiles of the download
  resolved,  \* what the server made of that list when it arrived
  noted,   \* a NOTIFY_QUEUED is on its way
  read     \* stamps the download has received

client == <<state, link, isOpen, path, size, done, completed, candidate, directory>>
wire == <<resolved, noted, read>>
transferVars == <<vars, client, asked, wire>>

Client == INSTANCE FileDownload WITH
  MaxAttempt <- MaxRequest, MaxDone <- MaxSize, MaxFiles <- MaxRequest,
  Requested <- MaxRequest, late <- FALSE, disk <- directory

TransferInit ==
  /\ Init
  /\ Client!Init
  /\ asked \in Requests
  /\ resolved = <<>>
  /\ noted = FALSE
  /\ read = {}
-----------------------------------------------------------------------------
(* Steps of one end. *)

ServerAlone == UNCHANGED <<client, asked, wire>>
ClientAlone == UNCHANGED <<vars, asked, wire>>

StartSharing ==
  /\ \/ StartListening
     \/ \E files \in SUBSET File : SetSharedFiles(files)
  /\ ServerAlone
StopSharing == listening /\ StopListening /\ ServerAlone

QueueDrains == (\E p \in Peer : OutputQueuesDrained(p)) /\ ServerAlone

OtherPeer(p) ==
  /\ \/ SessionAccepted(p)
     \/ \E names \in Requests : FileList(p, names)
     \/ SessionDetached(p)
  /\ ServerAlone

StartDownload == Client!Start /\ ClientAlone
CancelDownload == UserAborts /\ Client!Abort /\ ClientAlone
FileOpens == Client!OpenOutputFile /\ ClientAlone
-----------------------------------------------------------------------------
(* The connection. *)

Connect ==
  /\ Client!SessionConnected
  /\ SessionAccepted(Me)
  /\ UNCHANGED <<asked, wire>>

ConnectionRefused ==
  /\ link = "connecting"
  /\ Client!SessionDisconnected
  /\ ClientAlone

(* The FILE_LIST that SessionConnected sent arrives, unless the server has *)
(* dropped us.  It answers NOTIFY_QUEUED before it sends anything else.    *)
RequestArrives ==
  /\ FileList(Me, asked)
  /\ resolved' = peers'[Me].requestedFiles
  /\ noted' = peers'[Me].isQueued
  /\ UNCHANGED <<client, read, asked>>

QueuedArrives ==
  /\ noted
  /\ Client!NotifyQueued
  /\ noted' = FALSE
  /\ UNCHANGED <<vars, read, asked, resolved>>

Before(s, t) ==
  \/ s[2] < t[2]
  \/ s[2] = t[2] /\ s[3] <= t[3]

InFlight == stream[Me] \ read
NextMessage == CHOOSE s \in InFlight : \A t \in InFlight : Before(s, t)

(* A FILE_HEADER or a FILE_DATA.  The header carries the size that the     *)
(* scan found, which is the file's: no file changes here.                  *)
SizeOf(i) == disk[resolved[i]]
DataArrives ==
  /\ link = "up" /\ candidate = Client!NoPath /\ ~noted /\ InFlight # {}
  /\ LET i == NextMessage[2] IN
     IF NextMessage[3] = 0
       THEN Client!FileHeader(resolved[i], SizeOf(i))
       ELSE IF isOpen THEN Client!FileData(1) ELSE UNCHANGED client
  /\ read' = read \cup {NextMessage}
  /\ UNCHANGED <<vars, asked, resolved, noted>>

(* The server dropped us; what it had sent is delivered first, or lost.    *)
ServerHungUp ==
  /\ link = "up" /\ Me \notin connected
  /\ Client!SessionDisconnected
  /\ ClientAlone

(* The download shut its thread down, which closes the connection.         *)
ClientHungUp ==
  /\ link = "shut"
  /\ SessionDetached(Me)
  /\ ServerAlone

TransferNext ==
  \/ StartSharing
  \/ StopSharing
  \/ QueueDrains
  \/ \E p \in Peer \ {Me} : OtherPeer(p)
  \/ StartDownload
  \/ CancelDownload
  \/ FileOpens
  \/ Connect
  \/ ConnectionRefused
  \/ RequestArrives
  \/ QueuedArrives
  \/ DataArrives
  \/ ServerHungUp
  \/ ClientHungUp

TransferSpec == TransferInit /\ [][TransferNext]_transferVars

(* Neither event loop stops, the network delivers, and the other peers     *)
(* leave once they are no longer waiting.                                  *)
TransferFairSpec ==
  /\ TransferSpec
  /\ \A p \in Peer : WF_transferVars(OutputQueuesDrained(p) /\ ServerAlone)
  /\ \A p \in Peer \ {Me} :
       WF_transferVars(p \in connected /\ ~peers[p].isQueued /\ SessionDetached(p) /\ ServerAlone)
  /\ WF_transferVars(RequestArrives)
  /\ WF_transferVars(QueuedArrives)
  /\ WF_transferVars(DataArrives)
  /\ WF_transferVars(FileOpens)
  /\ WF_transferVars(ServerHungUp)
  /\ WF_transferVars(ClientHungUp)
-----------------------------------------------------------------------------
(* Properties. *)

Servable == {i \in DOMAIN resolved : SizeOf(i) >= 0}
Closed == {p \in Client!Path : directory[p].owner = "us" /\ ~Client!InProgress(p)}

(* Everything the server will ever send for the request has been read.     *)
AllRead == resolved # <<>> /\ \A i \in Servable, k \in 0..MaxSize :
                                 k <= SizeOf(i) => <<1, i, k>> \in read

(* ... and that was every file that was asked for.                         *)
AllArrived == AllRead /\ resolved = asked /\ Servable = DOMAIN asked

(* Whatever was asked for, twice the same name included, whatever the      *)
(* slots did and whenever anybody left: a file that the download keeps has *)
(* the length of the file the server shares.                               *)
ExactCopies == \A p \in Closed : directory[p].bytes = disk[p[1]]

(* When the server has nothing left to send and it all arrived, every file *)
(* it could open is in the directory and counted, except an empty one that *)
(* came last: nothing follows its header, so it is still open, or about to *)
(* be opened.                                                              *)
Holding == isOpen \/ candidate # Client!NoPath
AllServedAreKept ==
  AllRead /\ link = "up" =>
    /\ completed + (IF Holding THEN 1 ELSE 0) = Cardinality(Servable)
    /\ Holding => size = 0

(* A request that arrived is served to its end, or the download or the     *)
(* connection ends first, whatever other peers do, with a cap of two.      *)
RequestServed ==
  resolved # <<>> ~> AllRead \/ Client!IsFinished \/ Me \notin connected

(* What PROTOCOL.md:223 says of a sender at the end of its files: it moves *)
(* on or closes the connection.  So a download all of whose files are      *)
(* complete ends.                                                          *)
DownloadEnds == AllArrived /\ ~Holding ~> Client!IsFinished

(* What FileDownload.cpp:222 says of a peer that hangs up having sent      *)
(* everything that was asked for: the download has finished.               *)
HangUpAfterAllFinishes ==
  [][AllArrived /\ link = "up" /\ link' = "shut" => state' = "FINISHED"]_transferVars
=============================================================================
