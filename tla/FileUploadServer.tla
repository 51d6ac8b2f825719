------------------------- MODULE FileUploadServer -------------------------
(***************************************************************************)
(* The serving half of file sharing: src/core/FileUploadServer.{h,cpp}.    *)
(*                                                                         *)
(* Peers connect, say which files they want (TRANSFER_COMMAND_FILE_LIST),  *)
(* and are either served at once or told that they are queued.  A served   *)
(* peer is sent one chunk at a time: the next chunk leaves when MUSCLE     *)
(* reports that the peer's output queue has drained.  Every handler runs   *)
(* on the GUI thread, so a handler is one action; what interleaves is the  *)
(* order of the events MUSCLE delivers.                                    *)
(*                                                                         *)
(* Sizes are counted in chunks of kUploadChunkSize bytes.  Names, munging  *)
(* and the progress shown to the user are left out: no property here tells *)
(* them apart.                                                             *)
(***************************************************************************)
EXTENDS Integers, Sequences, FiniteSets

CONSTANTS
  Peer,        \* MUSCLE session IDs; one is never used for two connections
  File,        \* leaf names a peer may ask for
  MaxSize,     \* bound: chunks in the largest file
  MaxRequest,  \* bound: names in one FILE_LIST
  MaxLists,    \* bound: FILE_LISTs one peer sends over one connection
  MaxUploads,  \* fMaxSimultaneousUploads at startup
  Caps,        \* the caps the user may choose later
  DiskChurn    \* whether files appear, vanish and are replaced while we run

ASSUME UploadAssumption ==
  /\ IsFiniteSet(Peer)
  /\ MaxSize \in Nat
  /\ MaxRequest \in Nat
  /\ MaxLists \in Nat
  /\ MaxUploads \in Nat \ {0}
  /\ Caps \subseteq Nat
  /\ DiskChurn \in BOOLEAN

VARIABLES
  listening,   \* fListenPort # 0
  cap,         \* fMaxSimultaneousUploads
  shared,      \* the keys of fSharedFiles
  connected,   \* the keys of fPeers
  arrival,     \* fPeers keeps insertion order: the rank at which a key went in
  peers,       \* the values of fPeers
  drains,      \* drain notifications requested and not yet delivered
  stream,      \* what each peer has been sent, as stamps (see Stamp)
  disk         \* the file system: size of each file, or Gone

serverVars == <<listening, cap, shared>>
peerVars == <<connected, arrival, peers, drains, stream>>
vars == <<serverVars, peerVars, disk>>
-----------------------------------------------------------------------------
Gone == -1

(* An open FILE*: the request and the entry in it that it was opened for,  *)
(* how many chunks were read from it and how many are left.                *)
OpenFile == [list: Nat, index: Nat, sent: Nat, left: Nat]
NoFile == [list |-> 0, index |-> 0, sent |-> 0, left |-> 0]

(* struct PeerUpload.  list numbers the FILE_LISTs of the connection.      *)
PeerUpload == [list: Nat, requestedFiles: Seq(File), nextFileIndex: Nat,
               currentFile: OpenFile, isQueued: BOOLEAN]
NewPeer == [list |-> 0, requestedFiles |-> <<>>, nextFileIndex |-> 0,
            currentFile |-> NoFile, isQueued |-> FALSE]

(* <<l, i, k>>: of the l-th request, entry i: its header (k = 0) or its    *)
(* k-th chunk.  Within one request stamps leave in lexicographic order.    *)
Stamp == Nat \X Nat \X Nat

(* The lists a peer may ask for: fewer names than the bound, any names.    *)
Requests == UNION {[1..n -> File] : n \in 1..MaxRequest}

TypeOK ==
  /\ listening \in BOOLEAN
  /\ cap \in Nat \ {0}
  /\ shared \subseteq File
  /\ connected \subseteq Peer
  /\ arrival \in [Peer -> Nat]
  /\ peers \in [Peer -> PeerUpload]
  /\ drains \in [Peer -> Nat]
  /\ stream \in [Peer -> SUBSET Stamp]
  /\ disk \in [File -> Int]

Init ==
  /\ listening = FALSE
  /\ cap = MaxUploads
  /\ shared = {}
  /\ connected = {}
  /\ arrival = [p \in Peer |-> 0]
  /\ peers = [p \in Peer |-> NewPeer]
  /\ drains = [p \in Peer |-> 0]
  /\ stream = [p \in Peer |-> {}]
  /\ disk \in [File -> Gone..MaxSize]
-----------------------------------------------------------------------------
(* Reading ahead in one peer's request: _BeginNextFile and _SendNextChunk. *)

Sending(p) == peers[p].currentFile # NoFile

Least(S) == CHOOSE i \in S : \A j \in S : i <= j

UnreadButOne(r) == (r.nextFileIndex + 2) .. Len(r.requestedFiles)   \* mutant
Unread(r) == (r.nextFileIndex + 1) .. Len(r.requestedFiles)

Size(r, i) == disk[r.requestedFiles[i]]

(* Entries fopen() succeeds on, and those among them that hold any bytes.  *)
Openable(r) == {i \in Unread(r) : Size(r, i) >= 0}
Readable(r) == {i \in Unread(r) : Size(r, i) > 0}

(* _BeginNextFile followed by _SendNextChunk: files that cannot be opened  *)
(* are passed over, an empty file is opened, announced and closed again,   *)
(* and the first file with bytes in it is left open with one chunk sent.   *)
Advance(r) ==
  IF Readable(r) = {}
    THEN [r EXCEPT !.nextFileIndex = Len(r.requestedFiles),
                   !.currentFile = NoFile]
    ELSE LET i == Least(Readable(r))
         IN  [r EXCEPT !.nextFileIndex = i,
                       !.currentFile = [list |-> r.list, index |-> i,
                                        sent |-> 1, left |-> Size(r, i) - 1]]

(* ... what that sends: a header for every file opened, and the chunk.     *)
Emitted(r) ==
  {<<r.list, i, 0>> : i \in {j \in Openable(r) : j <= Advance(r).nextFileIndex}}
    \cup {<<r.list, i, 1>> : i \in {j \in Readable(r) : j = Least(Readable(r))}}

(* ... and how many drain notifications it asks for.                       *)
RequestedAlways(r) == 1   \* mutant: asks even when no chunk was sent
RequestedDrains(r) == IF Readable(r) = {} THEN 0 ELSE 1

(* A chunk of the file already open.                                       *)
NextChunk(r) ==
  [r EXCEPT !.currentFile = [list |-> @.list, index |-> @.index,
                             sent |-> @.sent + 1, left |-> @.left - 1]]
ChunkStamp(r) == <<r.currentFile.list, r.currentFile.index, r.currentFile.sent + 1>>
-----------------------------------------------------------------------------
(* Slots: _CountActiveUploads and _StartNextQueuedPeer.  C is the table's  *)
(* key set and P its values at the moment of the call.                     *)

Active(C, P) == {p \in C : ~P[p].isQueued /\ P[p].requestedFiles # <<>>}
CountActive(C, P) == Cardinality(Active(C, P))

Waiting(C, P) == {p \in C : P[p].isQueued /\ P[p].requestedFiles # <<>>}

Room(C, P) == IF CountActive(C, P) < cap THEN cap - CountActive(C, P) ELSE 0

Started(r) == [r EXCEPT !.isQueued = FALSE]

(* Started, p opens a file and runs out at once without a byte to send, so *)
(* _SendNextChunk calls _StartNextQueuedPeer again.  When p opens nothing  *)
(* _BeginNextFile is false and nobody else is tried.                       *)
PassesOn(r) == Readable(r) = {} /\ Openable(r) # {}

(* The peers one call starts, following the recursion to its end: waiting  *)
(* peers in table order, each but the last passing on, until the room is   *)
(* used up, the queue is, or a peer keeps what it got.                     *)
StartableInAnyOrder(C, P) ==   \* mutant: the table is not walked from its start
  {S \in SUBSET Waiting(C, P) :
     Cardinality(S) = IF Room(C, P) > 0 /\ Waiting(C, P) # {} THEN 1 ELSE 0}
Startable(C, P) ==
  {S \in SUBSET Waiting(C, P) :
     /\ \A p \in S, q \in Waiting(C, P) :
          arrival[q] < arrival[p] => q \in S /\ PassesOn(P[q])
     /\ Cardinality(S) <= Room(C, P)
     /\ \/ Cardinality(S) = Room(C, P)
        \/ S = Waiting(C, P)
        \/ \E p \in S : ~PassesOn(P[p])}

(* Leave the table with values P, sent stamps T and notifications D as the *)
(* current handler left them, and start nobody.                            *)
Settle(P, T, D) == peers' = P /\ stream' = T /\ drains' = D

StartNextQueuedPeer(C, P, T, D) ==
  \E S \in Startable(C, P) :
    Settle([p \in Peer |-> IF p \in S THEN Advance(Started(P[p])) ELSE P[p]],
           [p \in Peer |-> IF p \in S THEN T[p] \cup Emitted(P[p]) ELSE T[p]],
           [p \in Peer |-> IF p \in S THEN D[p] + RequestedDrains(P[p]) ELSE D[p]])

(* Peer p, whose record is now r, moves on to its next file; d is its      *)
(* count of outstanding notifications before that.  startOthers says       *)
(* whether running out of files ends in _StartNextQueuedPeer.              *)
BeginAndSend(p, r, d, startOthers) ==
  LET P == [peers EXCEPT ![p] = Advance(r)]
      T == [stream EXCEPT ![p] = @ \cup Emitted(r)]
      D == [drains EXCEPT ![p] = d + RequestedDrains(r)]
  IN  IF startOthers
        THEN StartNextQueuedPeer(connected, P, T, D)
        ELSE Settle(P, T, D)
-----------------------------------------------------------------------------
(* Actions. *)

(* StopListening: every session is dropped and every file closed.  MUSCLE's *)
(* Reset() discards the notifications in flight.  fSharedFiles stays.       *)
DropEverybody ==
  /\ connected' = {}
  /\ peers' = [p \in Peer |-> NewPeer]
  /\ drains' = [p \in Peer |-> 0]
  /\ UNCHANGED <<cap, shared, arrival, stream, disk>>

StopListening == listening' = FALSE /\ DropEverybody

(* StartListening stops first; binding a port in the range may fail.       *)
StartListening == listening' \in BOOLEAN /\ DropEverybody

(* Replaces fSharedFiles; requests already resolved keep their own copies. *)
SetSharedFiles(files) ==
  /\ shared' = files
  /\ UNCHANGED <<listening, cap, peerVars, disk>>

(* Takes effect when somebody asks next: nobody waiting is looked at.      *)
SetMaxUnclamped(n) ==   \* mutant
  cap' = n /\ UNCHANGED <<listening, shared, peerVars, disk>>
SetMaxSimultaneousUploads(n) ==
  /\ cap' = IF n < 1 THEN 1 ELSE n
  /\ UNCHANGED <<listening, shared, peerVars, disk>>

SessionAccepted(p) ==
  /\ listening
  /\ arrival[p] = 0
  /\ arrival' = [arrival EXCEPT ![p] = Cardinality({q \in Peer : arrival[q] > 0}) + 1]
  /\ connected' = connected \cup {p}
  /\ peers' = [peers EXCEPT ![p] = NewPeer]
  /\ UNCHANGED <<serverVars, drains, stream, disk>>

SessionDetachedQuietly(p) ==   \* mutant: the departure starts nobody
  /\ p \in connected
  /\ connected' = connected \ {p}
  /\ Settle([peers EXCEPT ![p] = NewPeer], stream, drains)
  /\ UNCHANGED <<serverVars, arrival, disk>>
SessionDetached(p) ==
  /\ p \in connected
  /\ connected' = connected \ {p}
  /\ StartNextQueuedPeer(connected', [peers EXCEPT ![p] = NewPeer], stream, drains)
  /\ UNCHANGED <<serverVars, arrival, disk>>

(* The one ascending enumeration of a set K of positions.                  *)
Ascending(K) ==
  {g \in [1..Cardinality(K) -> K] :
     \A a, b \in 1..Cardinality(K) : a < b => g[a] < g[b]}

(* _HandleFileList replaces the request with the names that are shared...  *)
Resolved(r, s) ==
  [list |-> r.list + 1, requestedFiles |-> s, nextFileIndex |-> 0,
   currentFile |-> r.currentFile, isQueued |-> r.isQueued]

(* ... and, when the peers holding slots (this one among them, unless it   *)
(* was queued before) are as many as the cap, queues it.  A file that was  *)
(* open for the previous request stays open.                               *)
AdmitsEverybody(p, r) == TRUE   \* mutant: nobody is held
AdmitsOneMore(p, r) ==   \* mutant: > for >= in _HandleFileList
  CountActive(connected, [peers EXCEPT ![p] = r]) <= cap
Admits(p, r) == CountActive(connected, [peers EXCEPT ![p] = r]) < cap

HandleFileList(p, s) ==
  LET r == Resolved(peers[p], s)
  IN  IF Admits(p, r)
        THEN BeginAndSend(p, Started(r), drains[p], PassesOn(r))
        ELSE Settle([peers EXCEPT ![p] = [r EXCEPT !.isQueued = TRUE]], stream, drains)

(* MessageReceived with a TRANSFER_COMMAND_FILE_LIST naming names.         *)
FileList(p, names) ==
  /\ p \in connected
  /\ peers[p].list < MaxLists
  /\ LET known == {i \in 1..Len(names) : names[i] \in shared}
     IN  \E g \in Ascending(known) :
           HandleFileList(p, [k \in 1..Cardinality(known) |-> names[g[k]]])
  /\ UNCHANGED <<serverVars, connected, arrival, disk>>

(* OutputQueuesDrained with a file open: send the next chunk of it, or,    *)
(* when it is at its end, turn to the next file and let somebody waiting   *)
(* start when there is none.                                               *)
DrainedWhileSending(p) ==
  LET r == peers[p] IN
  IF r.currentFile.left > 0
    THEN Settle([peers EXCEPT ![p] = NextChunk(r)],
                [stream EXCEPT ![p] = @ \cup {ChunkStamp(r)}],
                drains)
    ELSE BeginAndSend(p, r, drains[p] - 1, Readable(r) = {})

OutputQueuesDrained(p) ==
  /\ drains[p] > 0
  /\ \/ /\ p \notin connected   \* the peer left while this was under way
        /\ Settle(peers, stream, [drains EXCEPT ![p] = @ - 1])
     \/ p \in connected /\ Sending(p) /\ DrainedWhileSending(p)
     \/ /\ p \in connected
        /\ ~Sending(p)
        /\ BeginAndSend(p, peers[p], drains[p] - 1, PassesOn(peers[p]))
  /\ UNCHANGED <<serverVars, connected, arrival, disk>>

(* The user's other programs: a file is created, deleted or replaced.  An  *)
(* open FILE* goes on reading the file it was opened on.                   *)
DiskChange(f, n) ==
  /\ DiskChurn
  /\ disk' = [disk EXCEPT ![f] = n]
  /\ UNCHANGED <<serverVars, peerVars>>

Next ==
  \/ StartListening
  \/ StopListening
  \/ \E files \in SUBSET File : SetSharedFiles(files)
  \/ \E n \in Caps : SetMaxSimultaneousUploads(n)
  \/ \E p \in Peer : SessionAccepted(p)
  \/ \E p \in Peer : SessionDetached(p)
  \/ \E p \in Peer, names \in Requests : FileList(p, names)
  \/ \E p \in Peer : OutputQueuesDrained(p)
  \/ \E f \in File, n \in Gone..MaxSize : DiskChange(f, n)

Spec == Init /\ [][Next]_vars

(* MUSCLE always reports a drained queue, and a peer that is not waiting   *)
(* for us closes its connection some day (BeShare does when it has its     *)
(* files; any TCP connection ends).                                        *)
FairSpec ==
  /\ Spec
  /\ \A p \in Peer : WF_vars(OutputQueuesDrained(p))
  /\ \A p \in Peer : WF_vars(p \in connected /\ ~peers[p].isQueued /\ SessionDetached(p))
-----------------------------------------------------------------------------
(* Properties. *)

(* The cap is a cap on peers being sent files (FileUploadServer.h:69).     *)
(* Holds while the cap is not lowered and no peer asks twice.              *)
SendingWithinCap == Cardinality({p \in connected : Sending(p)}) <= cap

(* Whatever the user does to the cap and however often peers ask, no       *)
(* handler hands out a slot and leaves more slots in use than the cap.     *)
AdmissionRespectsCap ==
  [][\/ CountActive(connected, peers)' <= cap'
     \/ Active(connected, peers)' \subseteq Active(connected, peers)]_vars

(* A peer with a file open has exactly one drain notification under way:   *)
(* with none it would never be sent anything again, with two it would be   *)
(* sent files twice as fast as its connection takes them.                  *)
DrainPerSender ==
  \A p \in connected : drains[p] = IF Sending(p) THEN 1 ELSE 0

(* No wake-up is lost: a peer is left waiting only while all slots but one *)
(* are taken.  (All of them, would be the cap as documented: see           *)
(* LonePeerServed.)                                                        *)
WaitOnlyWhenNearlyFull ==
  Waiting(connected, peers) # {} => CountActive(connected, peers) >= cap - 1

(* A peer we have stopped sending to was sent, for every file it asked for *)
(* that can be opened, the header and every chunk.  (On a disk that does   *)
(* not change; the downloader counts bytes and would wait for ever.)       *)
ServedCompletely ==
  \A p \in Active(connected, peers) :
    LET r == peers[p] IN
    ~Sending(p) => \A i \in DOMAIN r.requestedFiles :
                     \A k \in 0..Size(r, i) : <<r.list, i, k>> \in stream[p]

(* Slots go to waiting peers in the order of the peer table: nobody who    *)
(* connected later leaves the queue for a slot before one who is ahead.    *)
NoOvertaking ==
  [][\A p, q \in Waiting(connected, peers) :
       arrival[p] < arrival[q] /\ q \in Active(connected, peers)'
         => p \notin Waiting(connected, peers)']_vars

(* A peer that waits gets a slot some day (or leaves), if the cap is at    *)
(* least two and peers that were served leave.                             *)
WaiterServed ==
  \A p \in Peer : p \in Waiting(connected, peers) ~> p \notin Waiting(connected, peers)

(* What FileUploadServer.h:69 promises of a server with nothing to do: the *)
(* only peer there is gets a slot.                                         *)
LonePeerServed ==
  \A p \in connected : connected = {p} => p \notin Waiting(connected, peers)

(* What FileUploadServer.cpp:396 promises: when a peer is done, somebody   *)
(* waiting starts.                                                         *)
DoneStartsSomebody ==
  [][\A p \in connected :
       Sending(p) /\ p \in connected' /\ ~Sending(p)' /\ Waiting(connected, peers) # {}
         => ~(Waiting(connected, peers) \subseteq Waiting(connected, peers)')]_vars
=============================================================================
