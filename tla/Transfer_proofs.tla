-------------------------- MODULE Transfer_proofs --------------------------
(***************************************************************************)
(* Proofs about FileUploadServer, and from "The downloader's half" on about *)
(* the transfer between it and a FileDownload, for any peers and files and *)
(* any bounds.                                                             *)
(***************************************************************************)
EXTENDS Transfer, FiniteSetTheorems, SequenceTheorems,
        WellFoundedInduction, TLAPS

(* What the handlers need to know of the state to keep its type.           *)
TablesOK(P, T, D) ==
  /\ P \in [Peer -> PeerUpload]
  /\ T \in [Peer -> SUBSET Stamp]
  /\ D \in [Peer -> Nat]

LEMMA LeastIsLeast ==
  ASSUME NEW S \in SUBSET Nat, S # {}
  PROVE  Least(S) \in S /\ \A j \in S : Least(S) <= j
<1>1. \E i \in S : \A j \in S : ~(<<j, i>> \in OpToRel(<, Nat))
  BY NatLessThanWellFounded, WFMin
<1>2. PICK i \in S : \A j \in S : ~(j < i)
  BY <1>1 DEF OpToRel
<1>3. \A j \in S : i <= j
  BY <1>2
<1>. QED
  BY <1>3 DEF Least

LEMMA ReadableInRequest ==
  ASSUME NEW r \in PeerUpload
  PROVE  /\ Openable(r) \subseteq 1..Len(r.requestedFiles)
         /\ Readable(r) \subseteq 1..Len(r.requestedFiles)
         /\ Len(r.requestedFiles) \in Nat
<1>1. Len(r.requestedFiles) \in Nat /\ r.nextFileIndex \in Nat
  BY LenProperties DEF PeerUpload
<1>. QED
  BY <1>1 DEF Openable, Readable, Unread

LEMMA AdvanceType ==
  ASSUME NEW r \in PeerUpload, disk \in [File -> Int]
  PROVE  Advance(r) \in PeerUpload
<1>1. CASE Readable(r) = {}
  BY <1>1, ReadableInRequest DEF Advance, PeerUpload, NoFile, OpenFile
<1>2. CASE Readable(r) # {}
  <2> DEFINE i == Least(Readable(r))
  <2>1. i \in Readable(r) /\ i \in 1..Len(r.requestedFiles)
    BY <1>2, ReadableInRequest, LeastIsLeast
  <2>2. r.requestedFiles[i] \in File
    BY <2>1, ElementOfSeq DEF PeerUpload
  <2>3. Size(r, i) - 1 \in Nat
    BY <2>1, <2>2 DEF Size, Readable
  <2>4. i \in Nat /\ r.list \in Nat
    BY <2>1, ReadableInRequest DEF PeerUpload
  <2>5. [list |-> r.list, index |-> i, sent |-> 1, left |-> Size(r, i) - 1] \in OpenFile
    BY <2>3, <2>4 DEF OpenFile
  <2>. HIDE DEF i
  <2>6. Advance(r) = [r EXCEPT !.nextFileIndex = i,
                        !.currentFile = [list |-> r.list, index |-> i,
                                         sent |-> 1, left |-> Size(r, i) - 1]]
    BY <1>2 DEF Advance, i
  <2>. QED
    BY <2>4, <2>5, <2>6 DEF PeerUpload
<1>. QED
  BY <1>1, <1>2

LEMMA EmittedType ==
  ASSUME NEW r \in PeerUpload
  PROVE  Emitted(r) \subseteq Stamp /\ RequestedDrains(r) \in Nat
<1>1. Openable(r) \subseteq Nat /\ Readable(r) \subseteq Nat /\ r.list \in Nat
  BY ReadableInRequest DEF PeerUpload
<1>2. RequestedDrains(r) \in Nat
  BY DEF RequestedDrains
<1>. QED
  BY <1>1, <1>2 DEF Emitted, Stamp

LEMMA StartNextType ==
  ASSUME disk \in [File -> Int],
         NEW C, NEW P, NEW T, NEW D,
         TablesOK(P, T, D), StartNextQueuedPeer(C, P, T, D)
  PROVE  TablesOK(peers, stream, drains)'
<1>1. PICK S \in Startable(C, P) :
        Settle([p \in Peer |-> IF p \in S THEN Advance(Started(P[p])) ELSE P[p]],
               [p \in Peer |-> IF p \in S THEN T[p] \cup Emitted(P[p]) ELSE T[p]],
               [p \in Peer |-> IF p \in S THEN D[p] + RequestedDrains(P[p]) ELSE D[p]])
  BY DEF StartNextQueuedPeer
<1>2. \A p \in Peer : P[p] \in PeerUpload /\ T[p] \subseteq Stamp /\ D[p] \in Nat
  BY DEF TablesOK
<1>3. \A p \in Peer : Started(P[p]) \in PeerUpload
  BY <1>2 DEF Started, PeerUpload
<1>4. \A p \in Peer : Advance(Started(P[p])) \in PeerUpload
  BY <1>3, AdvanceType
<1>5. \A p \in Peer : T[p] \cup Emitted(P[p]) \subseteq Stamp
  BY <1>2, EmittedType
<1>6. \A p \in Peer : D[p] + RequestedDrains(P[p]) \in Nat
  BY <1>2, EmittedType
<1>7. peers' \in [Peer -> PeerUpload]
  BY <1>1, <1>2, <1>4 DEF Settle
<1>8. stream' \in [Peer -> SUBSET Stamp]
  BY <1>1, <1>2, <1>5 DEF Settle
<1>9. drains' \in [Peer -> Nat]
  BY <1>1, <1>2, <1>6 DEF Settle
<1>. QED
  BY <1>7, <1>8, <1>9 DEF TablesOK

LEMMA BeginAndSendType ==
  ASSUME TypeOK, NEW p \in Peer, NEW r \in PeerUpload, NEW d \in Nat, NEW b,
         BeginAndSend(p, r, d, b)
  PROVE  TablesOK(peers, stream, drains)'
<1> DEFINE P == [peers EXCEPT ![p] = Advance(r)]
           T == [stream EXCEPT ![p] = @ \cup Emitted(r)]
           D == [drains EXCEPT ![p] = d + RequestedDrains(r)]
<1>1. Advance(r) \in PeerUpload /\ Emitted(r) \subseteq Stamp /\ RequestedDrains(r) \in Nat
  BY AdvanceType, EmittedType DEF TypeOK
<1>2. P \in [Peer -> PeerUpload]
  BY <1>1 DEF TypeOK
<1>3. T \in [Peer -> SUBSET Stamp]
  BY <1>1 DEF TypeOK
<1>4. D \in [Peer -> Nat]
  BY <1>1 DEF TypeOK
<1>5. TablesOK(P, T, D)
  BY <1>2, <1>3, <1>4 DEF TablesOK
<1>6. StartNextQueuedPeer(connected, P, T, D) \/ Settle(P, T, D)
  BY DEF BeginAndSend
<1>. HIDE DEF P, T, D
<1>7. CASE StartNextQueuedPeer(connected, P, T, D)
  BY <1>5, <1>7, StartNextType DEF TypeOK
<1>8. CASE Settle(P, T, D)
  BY <1>5, <1>8 DEF Settle, TablesOK
<1>. QED
  BY <1>6, <1>7, <1>8
-----------------------------------------------------------------------------
(* Types. *)

LEMMA NewPeerType == NewPeer \in PeerUpload
BY EmptySeq DEF NewPeer, PeerUpload, NoFile, OpenFile

LEMMA InitType == Init => TypeOK
<1> SUFFICES ASSUME Init PROVE TypeOK
  OBVIOUS
<1>1. disk \in [File -> Int]
  BY UploadAssumption DEF Init, Gone
<1>. QED
  BY <1>1, NewPeerType, UploadAssumption DEF Init, TypeOK

LEMMA DropType == ASSUME TypeOK, DropEverybody PROVE (listening' \in BOOLEAN) => TypeOK'
BY NewPeerType DEF TypeOK, DropEverybody

LEMMA AcceptedType == ASSUME TypeOK, NEW p \in Peer, SessionAccepted(p) PROVE TypeOK'
<1>1. Cardinality({q \in Peer : arrival[q] > 0}) \in Nat
  BY UploadAssumption, FS_Subset, FS_CardinalityType
<1>2. arrival' \in [Peer -> Nat]
  BY <1>1 DEF SessionAccepted, TypeOK
<1>3. peers' \in [Peer -> PeerUpload]
  BY NewPeerType DEF SessionAccepted, TypeOK
<1>. QED
  BY <1>2, <1>3 DEF SessionAccepted, serverVars, TypeOK

LEMMA DetachedType == ASSUME TypeOK, NEW p \in Peer, SessionDetached(p) PROVE TypeOK'
<1>1. TablesOK([peers EXCEPT ![p] = NewPeer], stream, drains)
  BY NewPeerType DEF TypeOK, TablesOK
<1>2. TablesOK(peers, stream, drains)'
  BY <1>1, StartNextType DEF SessionDetached, TypeOK
<1>. QED
  BY <1>2 DEF SessionDetached, serverVars, TypeOK, TablesOK

LEMMA ResolvedType ==
  ASSUME NEW r \in PeerUpload, NEW s \in Seq(File), NEW b \in BOOLEAN
  PROVE  [Resolved(r, s) EXCEPT !.isQueued = b] \in PeerUpload
<1>1. r.list + 1 \in Nat
  BY DEF PeerUpload
<1>2. Resolved(r, s) \in PeerUpload
  BY <1>1 DEF Resolved, PeerUpload
<1>. QED
  BY <1>2 DEF PeerUpload

LEMMA HandleFileListType ==
  ASSUME TypeOK, NEW p \in Peer, NEW s \in Seq(File), HandleFileList(p, s)
  PROVE  TablesOK(peers, stream, drains)'
<1> DEFINE r == Resolved(peers[p], s)
<1>1. peers[p] \in PeerUpload /\ drains[p] \in Nat
  BY DEF TypeOK
<1>2. Started(r) \in PeerUpload /\ [r EXCEPT !.isQueued = TRUE] \in PeerUpload
  BY <1>1, ResolvedType DEF Started
<1>. HIDE DEF r
<1>3. CASE BeginAndSend(p, Started(r), drains[p], PassesOn(r))
  BY <1>1, <1>2, <1>3, BeginAndSendType
<1>4. CASE Settle([peers EXCEPT ![p] = [r EXCEPT !.isQueued = TRUE]], stream, drains)
  BY <1>2, <1>4 DEF Settle, TypeOK, TablesOK
<1>. QED
  BY <1>3, <1>4 DEF HandleFileList, r

LEMMA RequestIsSeq ==
  ASSUME NEW names \in Requests, NEW K \in SUBSET (1..Len(names)), NEW g \in Ascending(K)
  PROVE  [k \in 1..Cardinality(K) |-> names[g[k]]] \in Seq(File)
<1>1. PICK n \in 1..MaxRequest : names \in [1..n -> File]
  BY DEF Requests
<1>2. n \in Nat /\ Len(names) = n
  BY <1>1, UploadAssumption, LenProperties
<1>3. Cardinality(K) \in Nat
  <2>1. IsFiniteSet(1..Len(names))
    BY <1>2, FS_Interval
  <2>. QED
    BY <2>1, FS_Subset, FS_CardinalityType
<1>4. \A k \in 1..Cardinality(K) : g[k] \in K
  BY DEF Ascending
<1>5. \A k \in 1..Cardinality(K) : names[g[k]] \in File
  BY <1>1, <1>2, <1>4
<1>. QED
  BY <1>3, <1>5

LEMMA FileListType ==
  ASSUME TypeOK, NEW p \in Peer, NEW names \in Requests, FileList(p, names)
  PROVE  TypeOK'
<1> DEFINE known == {i \in 1..Len(names) : names[i] \in shared}
<1>1. PICK g \in Ascending(known) :
        HandleFileList(p, [k \in 1..Cardinality(known) |-> names[g[k]]])
  BY DEF FileList
<1>2. known \in SUBSET (1..Len(names))
  OBVIOUS
<1>. HIDE DEF known
<1>3. [k \in 1..Cardinality(known) |-> names[g[k]]] \in Seq(File)
  BY <1>2, RequestIsSeq
<1>4. TablesOK(peers, stream, drains)'
  BY <1>1, <1>3, HandleFileListType
<1>. QED
  BY <1>4 DEF FileList, serverVars, TypeOK, TablesOK

LEMMA DrainedType ==
  ASSUME TypeOK, NEW p \in Peer, OutputQueuesDrained(p)
  PROVE  TypeOK'
<1> SUFFICES TablesOK(peers, stream, drains)'
  BY DEF OutputQueuesDrained, serverVars, TypeOK, TablesOK
<1>1. peers[p] \in PeerUpload /\ drains[p] - 1 \in Nat
  BY DEF TypeOK, OutputQueuesDrained
<1>2. CASE Settle(peers, stream, [drains EXCEPT ![p] = @ - 1])
  BY <1>1, <1>2 DEF Settle, TypeOK, TablesOK, OutputQueuesDrained
<1>3. CASE Sending(p) /\ DrainedWhileSending(p) /\ peers[p].currentFile.left > 0
  <2>1. NextChunk(peers[p]) \in PeerUpload /\ ChunkStamp(peers[p]) \in Stamp
    <3> DEFINE f == peers[p].currentFile
               g == [list |-> f.list, index |-> f.index,
                     sent |-> f.sent + 1, left |-> f.left - 1]
    <3>1. f \in OpenFile /\ f.left > 0
      BY <1>1, <1>3 DEF PeerUpload
    <3>2. g \in OpenFile /\ ChunkStamp(peers[p]) \in Stamp
      BY <3>1 DEF OpenFile, ChunkStamp, Stamp
    <3>3. NextChunk(peers[p]) = [peers[p] EXCEPT !.currentFile = g]
      BY DEF NextChunk
    <3>. HIDE DEF g
    <3>. QED
      BY <1>1, <3>2, <3>3 DEF PeerUpload
  <2>. QED
    BY <1>3, <2>1 DEF DrainedWhileSending, Settle, TypeOK, TablesOK
<1>4. CASE \E b : BeginAndSend(p, peers[p], drains[p] - 1, b)
  BY <1>1, <1>4, BeginAndSendType
<1>. QED
  BY <1>2, <1>3, <1>4 DEF OutputQueuesDrained, DrainedWhileSending

LEMMA NextType == TypeOK /\ [Next]_vars => TypeOK'
<1> SUFFICES ASSUME TypeOK, [Next]_vars PROVE TypeOK'
  OBVIOUS
<1>1. CASE StartListening \/ StopListening
  BY <1>1, DropType DEF StartListening, StopListening
<1>2. ASSUME NEW files \in SUBSET File, SetSharedFiles(files) PROVE TypeOK'
  BY <1>2 DEF SetSharedFiles, peerVars, TypeOK
<1>3. ASSUME NEW n \in Caps, SetMaxSimultaneousUploads(n) PROVE TypeOK'
  BY <1>3, UploadAssumption DEF SetMaxSimultaneousUploads, peerVars, TypeOK
<1>4. ASSUME NEW f \in File, NEW n \in Gone..MaxSize, DiskChange(f, n) PROVE TypeOK'
  <2>1. n \in Int
    BY UploadAssumption DEF Gone
  <2>. QED
    BY <1>4, <2>1 DEF DiskChange, serverVars, peerVars, TypeOK
<1>5. CASE UNCHANGED vars
  BY <1>5 DEF vars, serverVars, peerVars, TypeOK
<1>. QED
  BY <1>1, <1>2, <1>3, <1>4, <1>5, AcceptedType, DetachedType, FileListType,
     DrainedType DEF Next

(* The state always has its type.                                          *)
THEOREM TypeCorrect == Spec => []TypeOK
BY InitType, NextType, PTL DEF Spec
-----------------------------------------------------------------------------
(* Slots. *)

LEMMA ActiveFinite ==
  ASSUME NEW C \in SUBSET Peer, NEW P
  PROVE  /\ IsFiniteSet(Active(C, P)) /\ CountActive(C, P) \in Nat
         /\ \A S \in SUBSET Active(C, P) :
              IsFiniteSet(S) /\ Cardinality(S) <= CountActive(C, P)
<1>1. Active(C, P) \subseteq Peer
  BY DEF Active
<1>2. IsFiniteSet(Active(C, P))
  BY <1>1, UploadAssumption, FS_Subset
<1>. QED
  BY <1>2, FS_Subset, FS_CardinalityType DEF CountActive

(* Moving on within a request changes neither the request nor the queue.   *)
LEMMA AdvanceKeepsRequest ==
  ASSUME NEW r \in PeerUpload
  PROVE  /\ Advance(r).requestedFiles = r.requestedFiles
         /\ Advance(r).isQueued = r.isQueued
         /\ Advance(r).list = r.list
BY Zenon DEF Advance, PeerUpload

(* One call of _StartNextQueuedPeer adds S to the slots and nothing else,  *)
(* and S fits into the room there is.                                      *)
LEMMA StartNextSlots ==
  ASSUME TypeOK, NEW C \in SUBSET Peer, NEW P \in [Peer -> PeerUpload], NEW T, NEW D,
         StartNextQueuedPeer(C, P, T, D)
  PROVE  \/ Active(C, peers') \subseteq Active(C, P)
         \/ CountActive(C, peers') <= cap
<1>1. PICK S \in Startable(C, P) :
        peers' = [p \in Peer |-> IF p \in S THEN Advance(Started(P[p])) ELSE P[p]]
  BY DEF StartNextQueuedPeer, Settle
<1>2. S \subseteq Peer /\ Cardinality(S) <= Room(C, P)
  BY <1>1 DEF Startable, Waiting
<1>3. IsFiniteSet(S) /\ Cardinality(S) \in Nat
  BY <1>2, UploadAssumption, FS_Subset, FS_CardinalityType
<1>4. Active(C, peers') \subseteq Active(C, P) \cup S
  BY <1>1 DEF Active
<1>5. CASE CountActive(C, P) < cap
  <2>1. Cardinality(S) <= cap - CountActive(C, P)
    BY <1>2, <1>5 DEF Room
  <2>2. /\ IsFiniteSet(Active(C, P) \cup S)
        /\ Cardinality(Active(C, P) \cup S) <= CountActive(C, P) + Cardinality(S)
    <3>1. IsFiniteSet(Active(C, P)) /\ CountActive(C, P) \in Nat
      BY ActiveFinite
    <3>2. /\ IsFiniteSet(Active(C, P) \cup S)
          /\ Cardinality(Active(C, P) \cup S)
               = Cardinality(Active(C, P)) + Cardinality(S) - Cardinality(Active(C, P) \cap S)
      BY <1>3, <3>1, FS_Union
    <3>3. Cardinality(Active(C, P) \cap S) \in Nat
      BY <3>1, FS_Intersection, FS_CardinalityType
    <3>. QED
      BY <1>3, <3>1, <3>2, <3>3 DEF CountActive
  <2>3. CountActive(C, peers') <= Cardinality(Active(C, P) \cup S)
    BY <1>4, <2>2, FS_Subset DEF CountActive
  <2>4. Cardinality(Active(C, P) \cup S) \in Nat /\ CountActive(C, peers') \in Nat
    BY <2>2, FS_CardinalityType, ActiveFinite
  <2>5. CountActive(C, P) \in Nat /\ cap \in Nat
    BY ActiveFinite DEF TypeOK
  <2>. QED
    BY <1>3, <2>1, <2>2, <2>3, <2>4, <2>5
<1>6. CASE ~(CountActive(C, P) < cap)
  <2>1. Cardinality(S) = 0
    BY <1>2, <1>3, <1>6 DEF Room
  <2>2. S = {}
    BY <1>3, <2>1, FS_EmptySet
  <2>. QED
    BY <1>4, <2>2
<1>. QED
  BY <1>5, <1>6

(* The same of a peer that moves on with record r.                         *)
LEMMA BeginAndSendSlots ==
  ASSUME TypeOK, NEW p \in Peer, NEW r \in PeerUpload, NEW d, NEW b,
         BeginAndSend(p, r, d, b)
  PROVE  \/ Active(connected, peers') \subseteq Active(connected, [peers EXCEPT ![p] = r])
         \/ CountActive(connected, peers') <= cap
<1> DEFINE P == [peers EXCEPT ![p] = Advance(r)]
           T == [stream EXCEPT ![p] = @ \cup Emitted(r)]
           D == [drains EXCEPT ![p] = d + RequestedDrains(r)]
<1>1. Advance(r) \in PeerUpload /\ peers \in [Peer -> PeerUpload] /\ connected \subseteq Peer
  BY AdvanceType DEF TypeOK
<1>2. P \in [Peer -> PeerUpload]
  BY <1>1
<1>3. Active(connected, P) = Active(connected, [peers EXCEPT ![p] = r])
  BY <1>1, AdvanceKeepsRequest DEF Active
<1>4. StartNextQueuedPeer(connected, P, T, D) \/ peers' = P
  BY DEF BeginAndSend, Settle
<1>. HIDE DEF P, T, D
<1>. QED
  BY <1>1, <1>2, <1>3, <1>4, StartNextSlots

(* What one step may do to the slots, in terms of the state before it.     *)
SlotStep == \/ CountActive(connected', peers') <= cap'
            \/ Active(connected', peers') \subseteq Active(connected, peers)

LEMMA DetachedSlots ==
  ASSUME TypeOK, NEW p \in Peer, SessionDetached(p) PROVE SlotStep
<1> DEFINE P == [peers EXCEPT ![p] = NewPeer]
<1>1. P \in [Peer -> PeerUpload] /\ connected' \in SUBSET Peer
  BY NewPeerType DEF TypeOK, SessionDetached
<1>2. Active(connected', P) \subseteq Active(connected, peers)
  BY DEF Active, NewPeer, SessionDetached, TypeOK
<1>3. StartNextQueuedPeer(connected', P, stream, drains) /\ cap' = cap
  BY DEF SessionDetached, serverVars
<1>. HIDE DEF P
<1>4. \/ Active(connected', peers') \subseteq Active(connected', P)
      \/ CountActive(connected', peers') <= cap
  BY <1>1, <1>3, StartNextSlots
<1>. QED
  BY <1>2, <1>3, <1>4 DEF SlotStep

LEMMA HandleFileListSlots ==
  ASSUME TypeOK, NEW p \in Peer, NEW s \in Seq(File), HandleFileList(p, s)
  PROVE  \/ CountActive(connected, peers') <= cap
         \/ Active(connected, peers') \subseteq Active(connected, peers)
<1> DEFINE r == Resolved(peers[p], s)
<1>1. peers[p] \in PeerUpload /\ connected \subseteq Peer /\ peers \in [Peer -> PeerUpload]
  BY DEF TypeOK
<1>2. Started(r) \in PeerUpload /\ [r EXCEPT !.isQueued = TRUE] \in PeerUpload
      /\ [r EXCEPT !.isQueued = TRUE].isQueued
  BY <1>1, ResolvedType DEF Started, PeerUpload
<1>. HIDE DEF r
<1>3. CASE Admits(p, r) /\ BeginAndSend(p, Started(r), drains[p], PassesOn(r))
  <2> DEFINE A == Active(connected, [peers EXCEPT ![p] = r])
             B == Active(connected, [peers EXCEPT ![p] = Started(r)])
  <2>1. B \subseteq A \cup {p}
    BY <1>1 DEF Active
  <2>2. IsFiniteSet(A) /\ Cardinality(A) \in Nat /\ Cardinality(A) < cap
    BY <1>1, <1>3, ActiveFinite DEF Admits, CountActive
  <2>. HIDE DEF A
  <2>3. IsFiniteSet(A \cup {p}) /\ Cardinality(A \cup {p}) <= Cardinality(A) + 1
    <3>1. /\ IsFiniteSet(A \cup {p})
          /\ Cardinality(A \cup {p}) = IF p \in A THEN Cardinality(A) ELSE Cardinality(A) + 1
      BY <2>2, FS_AddElement
    <3>. QED
      BY <2>2, <3>1
  <2>4. cap \in Nat /\ Cardinality(A \cup {p}) \in Nat
    BY <2>3, FS_CardinalityType DEF TypeOK
  <2>5. CASE Active(connected, peers') \subseteq B
    <3>1. Active(connected, peers') \subseteq A \cup {p}
      BY <2>1, <2>5
    <3>2. CountActive(connected, peers') <= Cardinality(A \cup {p})
      BY <2>3, <3>1, FS_Subset DEF CountActive
    <3>3. CountActive(connected, peers') \in Nat
      BY <1>1, ActiveFinite
    <3>. QED
      BY <2>2, <2>3, <2>4, <3>2, <3>3
  <2>. QED
    BY <1>2, <1>3, <2>5, BeginAndSendSlots
<1>4. CASE peers' = [peers EXCEPT ![p] = [r EXCEPT !.isQueued = TRUE]]
  BY <1>1, <1>2, <1>4 DEF Active
<1>. QED
  BY <1>3, <1>4 DEF HandleFileList, Settle, r

LEMMA FileListSlots ==
  ASSUME TypeOK, NEW p \in Peer, NEW names \in Requests, FileList(p, names)
  PROVE  SlotStep
<1> DEFINE known == {i \in 1..Len(names) : names[i] \in shared}
<1>1. PICK g \in Ascending(known) :
        HandleFileList(p, [k \in 1..Cardinality(known) |-> names[g[k]]])
  BY DEF FileList
<1>2. known \in SUBSET (1..Len(names))
  OBVIOUS
<1>. HIDE DEF known
<1>3. [k \in 1..Cardinality(known) |-> names[g[k]]] \in Seq(File)
  BY <1>2, RequestIsSeq
<1>. QED
  BY <1>1, <1>3, HandleFileListSlots DEF FileList, serverVars, SlotStep

LEMMA DrainedSlots ==
  ASSUME TypeOK, NEW p \in Peer, OutputQueuesDrained(p) PROVE SlotStep
<1>1. peers[p] \in PeerUpload /\ connected' = connected /\ cap' = cap
  BY DEF TypeOK, OutputQueuesDrained, serverVars
<1>2. CASE peers' = peers
  BY <1>1, <1>2 DEF SlotStep
<1>3. CASE peers' = [peers EXCEPT ![p] = NextChunk(peers[p])]
  <2>1. /\ NextChunk(peers[p]).isQueued = peers[p].isQueued
        /\ NextChunk(peers[p]).requestedFiles = peers[p].requestedFiles
    BY <1>1, Zenon DEF NextChunk, PeerUpload
  <2>2. Active(connected, peers') \subseteq Active(connected, peers)
    BY <1>3, <2>1 DEF Active, TypeOK
  <2>. QED
    BY <1>1, <2>2 DEF SlotStep
<1>4. CASE \E b : BeginAndSend(p, peers[p], drains[p] - 1, b)
  <2>1. [peers EXCEPT ![p] = peers[p]] = peers
    BY DEF TypeOK
  <2>. QED
    BY <1>1, <1>4, <2>1, BeginAndSendSlots DEF SlotStep
<1>. QED
  BY <1>2, <1>3, <1>4 DEF OutputQueuesDrained, DrainedWhileSending, Settle

LEMMA NextSlots == ASSUME TypeOK, Next PROVE SlotStep
<1>1. CASE StartListening \/ StopListening
  BY <1>1 DEF StartListening, StopListening, DropEverybody, SlotStep, Active
<1>2. ASSUME connected' = connected, peers' = peers PROVE SlotStep
  BY <1>2 DEF SlotStep
<1>3. ASSUME NEW p \in Peer, SessionAccepted(p) PROVE SlotStep
  BY <1>3 DEF SessionAccepted, SlotStep, Active, NewPeer, TypeOK
<1>4. ASSUME NEW n \in Caps, SetMaxSimultaneousUploads(n) PROVE SlotStep
  BY <1>2, <1>4 DEF SetMaxSimultaneousUploads, peerVars
<1>5. ASSUME NEW files \in SUBSET File, SetSharedFiles(files) PROVE SlotStep
  BY <1>2, <1>5 DEF SetSharedFiles, peerVars
<1>6. ASSUME NEW f \in File, NEW n \in Gone..MaxSize, DiskChange(f, n) PROVE SlotStep
  BY <1>2, <1>6 DEF DiskChange, peerVars
<1>. QED
  BY <1>1, <1>3, <1>4, <1>5, <1>6, DetachedSlots, FileListSlots, DrainedSlots DEF Next

(* No handler hands out a slot beyond the cap, whatever the cap becomes    *)
(* and however often peers ask (FileUploadServer.cpp:282, :317).           *)
THEOREM AdmissionWithinCap == Spec => AdmissionRespectsCap
<1>1. TypeOK /\ [Next]_vars
        => [\/ CountActive(connected, peers)' <= cap'
            \/ Active(connected, peers)' \subseteq Active(connected, peers)]_vars
  BY NextSlots DEF SlotStep, CountActive, Active
<1>. QED
  BY <1>1, TypeCorrect, PTL DEF Spec, AdmissionRespectsCap
-----------------------------------------------------------------------------
(* Pacing, and sending within the cap, when every peer asks once.  The     *)
(* inductive invariant: a peer that has not asked is as new, one that is   *)
(* being sent a file holds a slot, and it has one drain under way; a peer  *)
(* that is not connected has no record, one that never was has no drains.  *)
RecordOK(r, d) ==
  /\ r.list = 0 => r = NewPeer
  /\ r.currentFile # NoFile => ~r.isQueued /\ r.requestedFiles # <<>>
  /\ d = IF r.currentFile # NoFile THEN 1 ELSE 0
Records(C, P, D) ==
  \A p \in Peer : IF p \in C THEN RecordOK(P[p], D[p]) ELSE P[p] = NewPeer
Pacing ==
  /\ Records(connected, peers, drains)
  /\ \A p \in Peer : arrival[p] = 0 => p \notin connected /\ drains[p] = 0

LEMMA AdvanceOK ==
  ASSUME NEW r \in PeerUpload, ~r.isQueued, r.list # 0
  PROVE  RecordOK(Advance(r), RequestedDrains(r))
<1>1. CASE Readable(r) = {}
  <2>1. Advance(r).currentFile = NoFile
    BY <1>1, Zenon DEF Advance, PeerUpload
  <2>. QED
    BY <1>1, <2>1, AdvanceKeepsRequest DEF RecordOK, RequestedDrains
<1>2. CASE Readable(r) # {}
  <2>1. r.requestedFiles # <<>>
    BY <1>2, ReadableInRequest, EmptySeq
  <2>2. Least(Readable(r)) # 0
    BY <1>2, ReadableInRequest, LeastIsLeast
  <2>3. Advance(r).currentFile.index = Least(Readable(r))
    BY <1>2, Zenon DEF Advance, PeerUpload
  <2>4. Advance(r).currentFile # NoFile
    BY <2>2, <2>3 DEF NoFile
  <2>. QED
    BY <1>2, <2>1, <2>4, AdvanceKeepsRequest DEF RecordOK, RequestedDrains
<1>. QED
  BY <1>1, <1>2

LEMMA StartedReads ==
  ASSUME NEW r \in PeerUpload PROVE RequestedDrains(Started(r)) = RequestedDrains(r)
<1>1. /\ Started(r).requestedFiles = r.requestedFiles
      /\ Started(r).nextFileIndex = r.nextFileIndex
  BY DEF Started, PeerUpload
<1>. QED
  BY <1>1 DEF RequestedDrains, Readable, Unread, Size

LEMMA StartNextOK ==
  ASSUME TypeOK, NEW C \in SUBSET Peer, NEW P, NEW T, NEW D, TablesOK(P, T, D),
         Records(C, P, D), StartNextQueuedPeer(C, P, T, D)
  PROVE  /\ Records(C, peers', drains')
         /\ \A p \in Peer \ C : drains'[p] = D[p]
<1>1. PICK S \in Startable(C, P) :
        /\ peers' = [p \in Peer |-> IF p \in S THEN Advance(Started(P[p])) ELSE P[p]]
        /\ drains' = [p \in Peer |-> IF p \in S THEN D[p] + RequestedDrains(P[p]) ELSE D[p]]
  BY DEF StartNextQueuedPeer, Settle
<1>2. S \subseteq Waiting(C, P)
  BY <1>1 DEF Startable
<1>3. ASSUME NEW p \in S
      PROVE  RecordOK(Advance(Started(P[p])), D[p] + RequestedDrains(P[p]))
  <2>1. p \in C /\ P[p].isQueued /\ P[p] \in PeerUpload /\ RecordOK(P[p], D[p])
    BY <1>2, <1>3 DEF Waiting, Records, TablesOK
  <2>2. P[p].list # 0 /\ D[p] = 0
    BY <2>1 DEF RecordOK, NewPeer
  <2>3. Started(P[p]) \in PeerUpload /\ ~Started(P[p]).isQueued /\ Started(P[p]).list # 0
    BY <2>1, <2>2 DEF Started, PeerUpload
  <2>4. RecordOK(Advance(Started(P[p])), RequestedDrains(Started(P[p])))
    BY <2>3, AdvanceOK
  <2>5. D[p] + RequestedDrains(P[p]) = RequestedDrains(Started(P[p]))
    BY <2>1, <2>2, StartedReads, EmittedType
  <2>. QED
    BY <2>4, <2>5
<1>4. S \subseteq C
  BY <1>2 DEF Waiting
<1>5. ASSUME NEW p \in Peer
      PROVE  IF p \in C THEN RecordOK(peers'[p], drains'[p]) ELSE peers'[p] = NewPeer
  <2>1. CASE p \in S
    BY <1>1, <1>3, <1>4, <2>1
  <2>2. CASE p \notin S
    BY <1>1, <2>2 DEF Records
  <2>. QED
    BY <2>1, <2>2
<1>. QED
  BY <1>1, <1>4, <1>5 DEF Records

(* Peer p has record r and no drain under way, and moves on.               *)
LEMMA BeginAndSendOK ==
  ASSUME TypeOK, Records(connected, peers, drains), NEW p \in connected,
         NEW r \in PeerUpload, NEW b, ~r.isQueued, r.list # 0,
         BeginAndSend(p, r, 0, b)
  PROVE  /\ Records(connected, peers', drains')
         /\ \A q \in Peer \ connected : drains'[q] = drains[q]
<1> DEFINE P == [peers EXCEPT ![p] = Advance(r)]
           T == [stream EXCEPT ![p] = @ \cup Emitted(r)]
           D == [drains EXCEPT ![p] = 0 + RequestedDrains(r)]
<1>1. /\ Advance(r) \in PeerUpload /\ RecordOK(Advance(r), RequestedDrains(r))
      /\ Emitted(r) \subseteq Stamp /\ RequestedDrains(r) \in Nat
  BY AdvanceType, AdvanceOK, EmittedType DEF TypeOK
<1>2. TablesOK(P, T, D)
  BY <1>1 DEF TypeOK, TablesOK
<1>3. Records(connected, P, D) /\ \A q \in Peer \ connected : D[q] = drains[q]
  BY <1>1 DEF Records, TypeOK
<1>4. \/ StartNextQueuedPeer(connected, P, T, D)
      \/ peers' = P /\ drains' = D
  BY DEF BeginAndSend, Settle
<1>. HIDE DEF P, T, D
<1>. QED
  BY <1>2, <1>3, <1>4, StartNextOK DEF TypeOK

LEMMA NewPeerOK == RecordOK(NewPeer, 0)
BY DEF RecordOK, NewPeer

LEMMA DetachedOK ==
  ASSUME TypeOK, Pacing, NEW p \in Peer, SessionDetached(p) PROVE Pacing'
<1> DEFINE P == [peers EXCEPT ![p] = NewPeer]
           C == connected'
<1>1. TablesOK(P, stream, drains) /\ C \in SUBSET Peer /\ arrival' = arrival
  BY NewPeerType DEF TypeOK, TablesOK, SessionDetached
<1>2. Records(C, P, drains)
  BY DEF Records, SessionDetached, TypeOK, Pacing
<1>3. StartNextQueuedPeer(C, P, stream, drains)
  BY DEF SessionDetached
<1>4. \A q \in Peer : arrival[q] = 0 => q \notin C /\ drains[q] = 0
  BY DEF Pacing, SessionDetached
<1>. HIDE DEF P, C
<1>5. Records(C, peers', drains')
  BY ONLY TypeOK, <1>1, <1>2, <1>3, StartNextOK
<1>6. \A q \in Peer \ C : drains'[q] = drains[q]
  BY ONLY TypeOK, <1>1, <1>2, <1>3, StartNextOK
<1>7. \A q \in Peer : arrival'[q] = 0 => q \notin C /\ drains'[q] = 0
  BY <1>1, <1>4, <1>6
<1>. QED
  BY <1>5, <1>7 DEF Pacing, C

LEMMA FileListOK ==
  ASSUME MaxLists = 1, TypeOK, Pacing,
         NEW p \in Peer, NEW names \in Requests, FileList(p, names)
  PROVE  Pacing'
<1> DEFINE known == {i \in 1..Len(names) : names[i] \in shared}
<1>1. PICK g \in Ascending(known) :
        HandleFileList(p, [k \in 1..Cardinality(known) |-> names[g[k]]])
  BY DEF FileList
<1> DEFINE s == [k \in 1..Cardinality(known) |-> names[g[k]]]
           r == Resolved(peers[p], s)
<1>2. s \in Seq(File)
  BY RequestIsSeq
<1>3. p \in connected /\ connected' = connected /\ arrival' = arrival
  BY DEF FileList
<1>4. peers[p] \in PeerUpload /\ peers[p].list = 0
  BY DEF FileList, TypeOK, PeerUpload
<1>. HIDE DEF r, s, known
<1>5. peers[p] = NewPeer /\ drains[p] = 0
  <2>1. RecordOK(peers[p], drains[p])
    BY <1>3 DEF Pacing, Records
  <2>. QED
    BY <1>4, <2>1 DEF RecordOK, NewPeer
<1>6. r = [list |-> 1, requestedFiles |-> s, nextFileIndex |-> 0,
           currentFile |-> NoFile, isQueued |-> FALSE]
  BY <1>5 DEF Resolved, NewPeer, r
<1>7. r \in PeerUpload
  BY <1>2, <1>6 DEF PeerUpload, NoFile, OpenFile
<1>8. Started(r) \in PeerUpload /\ ~Started(r).isQueued /\ Started(r).list # 0
  <2>1. r.list # 0
    BY <1>6
  <2>. QED
    BY <1>7, <2>1 DEF Started, PeerUpload
<1>9. RecordOK([r EXCEPT !.isQueued = TRUE], 0)
  BY <1>6 DEF RecordOK
<1>10. CASE BeginAndSend(p, Started(r), drains[p], PassesOn(r))
  BY <1>3, <1>5, <1>8, <1>10, BeginAndSendOK DEF Pacing
<1>11. CASE /\ peers' = [peers EXCEPT ![p] = [r EXCEPT !.isQueued = TRUE]]
            /\ drains' = drains
  BY <1>3, <1>5, <1>9, <1>11 DEF Pacing, Records, TypeOK
<1>. QED
  BY <1>1, <1>10, <1>11 DEF HandleFileList, Settle, r, s

LEMMA DrainedOK ==
  ASSUME TypeOK, Pacing, NEW p \in Peer, OutputQueuesDrained(p) PROVE Pacing'
<1>1. /\ peers[p] \in PeerUpload /\ drains[p] > 0 /\ drains[p] \in Nat
      /\ connected' = connected /\ arrival' = arrival
  BY DEF TypeOK, OutputQueuesDrained
<1>2. CASE p \notin connected
  <2>1. peers' = peers /\ drains' = [drains EXCEPT ![p] = @ - 1]
    BY <1>2 DEF OutputQueuesDrained, Settle
  <2>. QED
    BY <1>1, <1>2, <2>1 DEF Pacing, Records, TypeOK
<1>3. CASE p \in connected
  <2>1. RecordOK(peers[p], drains[p])
    BY <1>3 DEF Pacing, Records
  <2>2. Sending(p) /\ drains[p] = 1 /\ ~peers[p].isQueued /\ peers[p].list # 0
    BY <1>1, <2>1 DEF RecordOK, Sending, NewPeer
  <2>3. DrainedWhileSending(p)
    BY <1>3, <2>2 DEF OutputQueuesDrained
  <2>4. CASE peers[p].currentFile.left > 0
    <3>1. /\ peers' = [peers EXCEPT ![p] = NextChunk(peers[p])]
          /\ drains' = drains
      BY <2>3, <2>4 DEF DrainedWhileSending, Settle
    <3>2. /\ NextChunk(peers[p]).isQueued = peers[p].isQueued
          /\ NextChunk(peers[p]).requestedFiles = peers[p].requestedFiles
          /\ NextChunk(peers[p]).list = peers[p].list
      BY <1>1, Zenon DEF NextChunk, PeerUpload
    <3>3. NextChunk(peers[p]).currentFile.sent = peers[p].currentFile.sent + 1
          /\ peers[p].currentFile.sent \in Nat
      BY <1>1, Zenon DEF NextChunk, PeerUpload, OpenFile
    <3>4. NextChunk(peers[p]).currentFile # NoFile
      BY <3>3 DEF NoFile
    <3>5. RecordOK(NextChunk(peers[p]), drains[p])
      BY <2>1, <2>2, <3>2, <3>4 DEF RecordOK, Sending
    <3>. QED
      BY <1>1, <1>3, <3>1, <3>5 DEF Pacing, Records, TypeOK
  <2>5. CASE BeginAndSend(p, peers[p], 0, Readable(peers[p]) = {})
    BY <1>1, <1>3, <2>2, <2>5, BeginAndSendOK DEF Pacing
  <2>. QED
    BY <2>2, <2>3, <2>4, <2>5 DEF DrainedWhileSending
<1>. QED
  BY <1>2, <1>3

LEMMA NextPacing == ASSUME MaxLists = 1, TypeOK, Pacing, [Next]_vars PROVE Pacing'
<1>1. CASE StartListening \/ StopListening
  BY <1>1 DEF StartListening, StopListening, DropEverybody, Pacing, Records, TypeOK
<1>2. ASSUME UNCHANGED <<connected, arrival, peers, drains>> PROVE Pacing'
  BY <1>2 DEF Pacing, Records
<1>3. ASSUME NEW p \in Peer, SessionAccepted(p) PROVE Pacing'
  <2>1. drains[p] = 0 /\ drains' = drains
    BY <1>3 DEF SessionAccepted, Pacing
  <2>2. Cardinality({q \in Peer : arrival[q] > 0}) \in Nat
    BY UploadAssumption, FS_Subset, FS_CardinalityType
  <2>3. arrival'[p] # 0 /\ \A q \in Peer \ {p} : arrival'[q] = arrival[q]
    BY <1>3, <2>2 DEF SessionAccepted, TypeOK
  <2>4. \A q \in Peer : arrival'[q] = 0 => q \notin connected' /\ drains'[q] = 0
    BY <1>3, <2>1, <2>3 DEF SessionAccepted, Pacing
  <2>5. Records(connected', peers', drains')
    BY <1>3, <2>1, NewPeerOK DEF SessionAccepted, Pacing, Records, TypeOK
  <2>. QED
    BY <2>4, <2>5 DEF Pacing
<1>4. ASSUME NEW n \in Caps, SetMaxSimultaneousUploads(n) PROVE Pacing'
  BY <1>2, <1>4 DEF SetMaxSimultaneousUploads, peerVars
<1>5. ASSUME NEW files \in SUBSET File, SetSharedFiles(files) PROVE Pacing'
  BY <1>2, <1>5 DEF SetSharedFiles, peerVars
<1>6. ASSUME NEW f \in File, NEW n \in Gone..MaxSize, DiskChange(f, n) PROVE Pacing'
  BY <1>2, <1>6 DEF DiskChange, peerVars
<1>7. CASE UNCHANGED vars
  BY <1>2, <1>7 DEF vars, peerVars
<1>. QED
  BY <1>1, <1>3, <1>4, <1>5, <1>6, <1>7, DetachedOK, FileListOK, DrainedOK DEF Next

LEMMA PacingInvariant == ASSUME MaxLists = 1 PROVE Spec => [](TypeOK /\ Pacing)
<1>1. Init => Pacing
  BY DEF Init, Pacing, Records
<1>2. TypeOK /\ Pacing /\ [Next]_vars => Pacing'
  BY NextPacing
<1>. QED
  BY <1>1, <1>2, InitType, NextType, PTL DEF Spec

(* A peer being sent a file always has one drain notification under way    *)
(* and nobody else has any (FileUploadServer.cpp:425), when peers ask once.*)
THEOREM OneDrainPerSender == ASSUME MaxLists = 1 PROVE Spec => []DrainPerSender
<1>1. TypeOK /\ Pacing => DrainPerSender
  BY DEF TypeOK, Pacing, Records, RecordOK, DrainPerSender, Sending
<1>. QED
  BY <1>1, PacingInvariant, PTL

(* No more peers are being sent files than the cap, when the cap stays     *)
(* what it was and peers ask once (FileUploadServer.h:69).                 *)
THEOREM SendersWithinCap ==
  ASSUME MaxLists = 1, Caps = {} PROVE Spec => []SendingWithinCap
<1> DEFINE CapInv == TypeOK /\ Pacing /\ CountActive(connected, peers) <= cap
<1>1. Init => CountActive(connected, peers) <= cap
  <2> SUFFICES ASSUME Init PROVE CountActive(connected, peers) <= cap
    OBVIOUS
  <2>1. Active(connected, peers) = {}
    BY DEF Init, Active
  <2>. QED
    BY <2>1, FS_EmptySet, UploadAssumption DEF CountActive, Init
<1>2. CapInv /\ [Next]_vars => (CountActive(connected, peers) <= cap)'
  <2> SUFFICES ASSUME CapInv, [Next]_vars
               PROVE  CountActive(connected', peers') <= cap'
    BY DEF CountActive, Active
  <2>1. CASE UNCHANGED vars
    BY <2>1 DEF vars, serverVars, peerVars
  <2>2. CASE Next
    <3>1. SlotStep
      BY <2>2, NextSlots
    <3>2. CASE Active(connected', peers') \subseteq Active(connected, peers)
      <4>1. cap' = cap
        BY <2>2 DEF Next, StartListening, StopListening, DropEverybody, SetSharedFiles,
           SessionAccepted, SessionDetached, FileList, OutputQueuesDrained, DiskChange,
           serverVars
      <4>2. connected \in SUBSET Peer
        BY DEF TypeOK
      <4>3. /\ IsFiniteSet(Active(connected, peers))
            /\ Cardinality(Active(connected', peers')) <= CountActive(connected, peers)
        BY <3>2, <4>2, ActiveFinite
      <4>4. Cardinality(Active(connected', peers')) \in Nat /\ cap \in Nat
            /\ CountActive(connected, peers) \in Nat
        BY <3>2, <4>2, <4>3, ActiveFinite, FS_Subset, FS_CardinalityType DEF TypeOK
      <4>. QED
        BY <4>1, <4>3, <4>4 DEF CountActive
    <3>. QED
      BY <3>1, <3>2 DEF SlotStep
  <2>. QED
    BY <2>1, <2>2
<1>3. CapInv => SendingWithinCap
  <2> SUFFICES ASSUME CapInv PROVE SendingWithinCap
    OBVIOUS
  <2>1. {p \in connected : Sending(p)} \subseteq Active(connected, peers)
    BY DEF TypeOK, Pacing, Records, RecordOK, Sending, Active
  <2>2. /\ Cardinality({p \in connected : Sending(p)}) <= CountActive(connected, peers)
        /\ Cardinality({p \in connected : Sending(p)}) \in Nat
        /\ CountActive(connected, peers) \in Nat /\ cap \in Nat
    BY <2>1, ActiveFinite, FS_CardinalityType DEF TypeOK
  <2>. QED
    BY <2>2 DEF SendingWithinCap
<1>. QED
  BY <1>1, <1>2, <1>3, PacingInvariant, PTL DEF Spec
-----------------------------------------------------------------------------
(* Who waits and who starts, when every peer asks once.  A step either     *)
(* leaves nobody, or lets some waiting peers start after it took a peer    *)
(* away or added one that holds a slot, or starts nobody that waited:      *)
(* then the slots can only grow, or all are taken but one, for a peer that *)
(* was queued.                                                             *)
Begun(P, S) == [p \in Peer |-> IF p \in S THEN Advance(Started(P[p])) ELSE P[p]]

FewerWait ==
  /\ Active(connected, peers) \subseteq Active(connected', peers')
  /\ Waiting(connected', peers') \subseteq Waiting(connected, peers)
  /\ Waiting(connected, peers) \cap Active(connected', peers') = {}
OneIsHeld ==
  /\ CountActive(connected', peers') >= cap - 1
  /\ Waiting(connected, peers) \cap Active(connected', peers') = {}
SomeStart ==
  \E P \in [Peer -> PeerUpload] :
    /\ connected' \subseteq connected /\ arrival' = arrival
    /\ \E S \in Startable(connected', P) : peers' = Begun(P, S)
    /\ Waiting(connected', P) = Waiting(connected, peers) \cap connected'
    /\ \E p \in Peer : Active(connected, peers) \ {p} \subseteq Active(connected', P)
StartStep == connected' = {} \/ FewerWait \/ OneIsHeld \/ SomeStart

(* What one call of _StartNextQueuedPeer makes of slots and queue.         *)
LEMMA StartNextExactly ==
  ASSUME NEW C \in SUBSET Peer, NEW P \in [Peer -> PeerUpload], NEW S \in Startable(C, P)
  PROVE  /\ S \subseteq Waiting(C, P) /\ IsFiniteSet(S) /\ Cardinality(S) \in Nat
         /\ Active(C, Begun(P, S)) = Active(C, P) \cup S
         /\ Waiting(C, Begun(P, S)) = Waiting(C, P) \ S
         /\ CountActive(C, Begun(P, S)) = CountActive(C, P) + Cardinality(S)
<1>1. S \subseteq Waiting(C, P)
  BY DEF Startable
<1>2. S \subseteq C /\ S \subseteq Peer /\ S \cap Active(C, P) = {}
  BY <1>1 DEF Waiting, Active
<1>3. IsFiniteSet(S) /\ Cardinality(S) \in Nat
  BY <1>2, UploadAssumption, FS_Subset, FS_CardinalityType
<1>4. ASSUME NEW p \in S
      PROVE  ~Begun(P, S)[p].isQueued /\ Begun(P, S)[p].requestedFiles # <<>>
  <2>1. P[p] \in PeerUpload /\ P[p].requestedFiles # <<>> /\ p \in Peer
    BY <1>1, <1>2 DEF Waiting
  <2>2. /\ Started(P[p]) \in PeerUpload /\ ~Started(P[p]).isQueued
        /\ Started(P[p]).requestedFiles = P[p].requestedFiles
    BY <2>1 DEF Started, PeerUpload
  <2>3. Begun(P, S)[p] = Advance(Started(P[p]))
    BY <2>1 DEF Begun
  <2>. QED
    BY <2>1, <2>2, <2>3, AdvanceKeepsRequest
<1>5. \A p \in Peer \ S : Begun(P, S)[p] = P[p]
  BY DEF Begun
<1>6. Active(C, Begun(P, S)) = Active(C, P) \cup S
  BY <1>2, <1>4, <1>5 DEF Active
<1>7. Waiting(C, Begun(P, S)) = Waiting(C, P) \ S
  BY <1>2, <1>4, <1>5 DEF Waiting
<1>8. IsFiniteSet(Active(C, P)) /\ CountActive(C, P) \in Nat
  BY ActiveFinite
<1>9. Cardinality(Active(C, P) \cup S) = Cardinality(Active(C, P)) + Cardinality(S)
  <2>1. Cardinality(Active(C, P) \cap S) = 0
    BY <1>2, FS_EmptySet
  <2>2. Cardinality(Active(C, P) \cup S)
          = Cardinality(Active(C, P)) + Cardinality(S) - Cardinality(Active(C, P) \cap S)
    BY <1>3, <1>8, FS_Union
  <2>. QED
    BY <1>3, <1>8, <2>1, <2>2 DEF CountActive
<1>. QED
  BY <1>1, <1>3, <1>6, <1>7, <1>9 DEF CountActive

(* A peer that does not wait, and keeps or gets a slot, moves on.          *)
LEMMA BeginAndSendStarts ==
  ASSUME TypeOK, NEW p \in connected, NEW r \in PeerUpload, NEW d, NEW b,
         ~r.isQueued, p \notin Waiting(connected, peers),
         p \in Active(connected, peers) => r.requestedFiles # <<>>,
         connected' = connected, arrival' = arrival, BeginAndSend(p, r, d, b)
  PROVE  FewerWait \/ SomeStart
<1> DEFINE P == [peers EXCEPT ![p] = Advance(r)]
           T == [stream EXCEPT ![p] = @ \cup Emitted(r)]
           D == [drains EXCEPT ![p] = d + RequestedDrains(r)]
<1>1. /\ Advance(r) \in PeerUpload /\ peers \in [Peer -> PeerUpload] /\ connected \subseteq Peer
      /\ Advance(r).requestedFiles = r.requestedFiles /\ ~Advance(r).isQueued
  BY AdvanceType, AdvanceKeepsRequest DEF TypeOK
<1>2. /\ P \in [Peer -> PeerUpload] /\ P[p] = Advance(r)
      /\ \A q \in Peer \ {p} : P[q] = peers[q]
  BY <1>1
<1>3. StartNextQueuedPeer(connected, P, T, D) \/ peers' = P
  BY DEF BeginAndSend, Settle
<1>. HIDE DEF P, T, D
<1>4. Active(connected, peers) \subseteq Active(connected, P)
  BY <1>1, <1>2 DEF Active
<1>5. Waiting(connected, P) = Waiting(connected, peers)
  BY <1>1, <1>2 DEF Waiting
<1>6. CASE peers' = P
  <2>1. Waiting(connected, peers) \cap Active(connected, P) = {}
    BY <1>5 DEF Waiting, Active
  <2>. QED
    BY <1>4, <1>5, <1>6, <2>1 DEF FewerWait
<1>7. CASE StartNextQueuedPeer(connected, P, T, D)
  <2>1. PICK S \in Startable(connected, P) : peers' = Begun(P, S)
    BY <1>7 DEF StartNextQueuedPeer, Settle, Begun
  <2>2. \E q \in Peer : Active(connected, peers) \ {q} \subseteq Active(connected', P)
    BY <1>1, <1>4
  <2>3. Waiting(connected', P) = Waiting(connected, peers) \cap connected'
    BY <1>5 DEF Waiting
  <2>4. \E Q \in Startable(connected', P) : peers' = Begun(P, Q)
    BY <2>1
  <2>. QED
    BY <1>2, <2>2, <2>3, <2>4 DEF SomeStart
<1>. QED
  BY <1>3, <1>6, <1>7

LEMMA DetachedStarts ==
  ASSUME TypeOK, NEW p \in Peer, SessionDetached(p) PROVE SomeStart
<1> DEFINE P == [peers EXCEPT ![p] = NewPeer]
<1>1. /\ P \in [Peer -> PeerUpload]
      /\ \A q \in Peer \ {p} : P[q] = peers[q]
  BY NewPeerType DEF TypeOK
<1>2. connected' = connected \ {p} /\ p \in connected /\ arrival' = arrival
      /\ connected \subseteq Peer
  BY DEF SessionDetached, TypeOK
<1>3. StartNextQueuedPeer(connected', P, stream, drains)
  BY DEF SessionDetached
<1>. HIDE DEF P
<1>4. PICK S \in Startable(connected', P) : peers' = Begun(P, S)
  BY <1>3 DEF StartNextQueuedPeer, Settle, Begun
<1>5. Waiting(connected', P) = Waiting(connected, peers) \cap connected'
  BY <1>1, <1>2 DEF Waiting
<1>6. Active(connected, peers) \ {p} \subseteq Active(connected', P)
  BY <1>1, <1>2 DEF Active
<1>7. connected' \subseteq connected /\ connected' # connected
  BY <1>2
<1>. QED
  BY <1>1, <1>2, <1>4, <1>5, <1>6, <1>7 DEF SomeStart

(* The peer p, which is as new, has asked for s.                           *)
LEMMA HandleFileListStarts ==
  ASSUME TypeOK, NEW p \in connected, NEW s \in Seq(File), peers[p] = NewPeer,
         connected' = connected, arrival' = arrival, HandleFileList(p, s)
  PROVE  FewerWait \/ OneIsHeld \/ SomeStart
<1> DEFINE r == Resolved(peers[p], s)
           held == [r EXCEPT !.isQueued = TRUE]
           A == Active(connected, [peers EXCEPT ![p] = r])
<1>1. r = [list |-> 1, requestedFiles |-> s, nextFileIndex |-> 0,
           currentFile |-> NoFile, isQueued |-> FALSE]
  BY DEF Resolved, NewPeer
<1>2. \/ Admits(p, r) /\ BeginAndSend(p, Started(r), drains[p], PassesOn(r))
      \/ ~Admits(p, r) /\ peers' = [peers EXCEPT ![p] = held]
  BY DEF HandleFileList, Settle
<1>3. held.isQueued
  BY <1>1
<1>. HIDE DEF r, held
<1>4. /\ p \in Peer /\ peers \in [Peer -> PeerUpload] /\ connected \in SUBSET Peer
      /\ p \notin Waiting(connected, peers) /\ p \notin Active(connected, peers)
  BY DEF TypeOK, Waiting, Active, NewPeer
<1>5. CASE Admits(p, r) /\ BeginAndSend(p, Started(r), drains[p], PassesOn(r))
  <2>1. Started(r) \in PeerUpload /\ ~Started(r).isQueued
    BY <1>1 DEF Started, PeerUpload, NoFile, OpenFile
  <2>. QED
    BY <1>4, <1>5, <2>1, BeginAndSendStarts
<1>6. CASE ~Admits(p, r) /\ peers' = [peers EXCEPT ![p] = held]
  <2>1. /\ \A q \in Peer \ {p} : peers'[q] = peers[q]
        /\ peers'[p] = held
    BY <1>4, <1>6
  <2>2. A \ {p} \subseteq Active(connected, peers')
    BY <1>4, <2>1 DEF Active
  <2>3. Waiting(connected, peers) \cap Active(connected, peers') = {}
    BY <1>4, <2>1 DEF Active, Waiting
  <2>4. /\ IsFiniteSet(A) /\ Cardinality(A) \in Nat /\ ~(Cardinality(A) < cap) /\ cap \in Nat
        /\ IsFiniteSet(Active(connected, peers'))
        /\ CountActive(connected, peers') \in Nat
    BY <1>4, <1>6, ActiveFinite DEF Admits, CountActive, TypeOK
  <2>. HIDE DEF A
  <2>5. Cardinality(A \ {p}) \in Nat /\ Cardinality(A \ {p}) >= Cardinality(A) - 1
    <3>1. /\ IsFiniteSet(A \ {p})
          /\ Cardinality(A \ {p}) = IF p \in A THEN Cardinality(A) - 1 ELSE Cardinality(A)
      BY <2>4, FS_RemoveElement
    <3>. QED
      BY <2>4, <3>1, FS_CardinalityType
  <2>6. Cardinality(A \ {p}) <= CountActive(connected, peers')
    BY <2>2, <2>4, FS_Subset DEF CountActive
  <2>7. CountActive(connected, peers') >= cap - 1
    BY <2>4, <2>5, <2>6
  <2>. QED
    BY <2>3, <2>7 DEF OneIsHeld
<1>. QED
  BY <1>2, <1>5, <1>6

LEMMA DrainedStarts ==
  ASSUME TypeOK, Pacing, NEW p \in Peer, OutputQueuesDrained(p) PROVE FewerWait \/ SomeStart
<1>1. /\ peers[p] \in PeerUpload /\ drains[p] > 0 /\ drains[p] \in Nat
      /\ connected' = connected /\ arrival' = arrival
  BY DEF TypeOK, OutputQueuesDrained
<1>2. Waiting(connected, peers) \cap Active(connected, peers) = {}
  BY DEF Waiting, Active
<1>3. CASE peers' = peers
  BY <1>1, <1>2, <1>3 DEF FewerWait
<1>4. CASE peers' # peers
  <2>1. p \in connected
    BY <1>4 DEF OutputQueuesDrained, Settle
  <2>2. RecordOK(peers[p], drains[p])
    BY <2>1 DEF Pacing, Records
  <2>3. Sending(p) /\ ~peers[p].isQueued /\ peers[p].requestedFiles # <<>>
    BY <1>1, <2>2 DEF RecordOK, Sending
  <2>4. DrainedWhileSending(p)
    BY <2>1, <2>3 DEF OutputQueuesDrained
  <2>5. CASE peers' = [peers EXCEPT ![p] = NextChunk(peers[p])]
    <3>1. /\ NextChunk(peers[p]).isQueued = peers[p].isQueued
          /\ NextChunk(peers[p]).requestedFiles = peers[p].requestedFiles
      BY <1>1, Zenon DEF NextChunk, PeerUpload
    <3>2. /\ Active(connected, peers') = Active(connected, peers)
          /\ Waiting(connected, peers') = Waiting(connected, peers)
      BY <2>5, <3>1 DEF Active, Waiting, TypeOK
    <3>. QED
      BY <1>1, <1>2, <3>2 DEF FewerWait
  <2>6. CASE BeginAndSend(p, peers[p], drains[p] - 1, Readable(peers[p]) = {})
    <3>1. p \notin Waiting(connected, peers)
      BY <2>3 DEF Waiting
    <3>. QED
      BY <1>1, <2>1, <2>3, <2>6, <3>1, BeginAndSendStarts
  <2>. QED
    BY <2>4, <2>5, <2>6 DEF DrainedWhileSending, Settle
<1>. QED
  BY <1>3, <1>4

LEMMA NextStarts == ASSUME MaxLists = 1, TypeOK, Pacing, [Next]_vars PROVE StartStep
<1>1. CASE StartListening \/ StopListening
  BY <1>1 DEF StartListening, StopListening, DropEverybody, StartStep
<1>2. ASSUME connected' = connected, peers' = peers PROVE FewerWait
  <2>1. Waiting(connected, peers) \cap Active(connected, peers) = {}
    BY DEF Waiting, Active
  <2>. QED
    BY <1>2, <2>1 DEF FewerWait
<1>3. ASSUME NEW p \in Peer, SessionAccepted(p) PROVE FewerWait
  <2>1. /\ p \notin connected /\ connected' = connected \cup {p} /\ connected \subseteq Peer
        /\ peers' = [peers EXCEPT ![p] = NewPeer] /\ peers \in [Peer -> PeerUpload]
    BY <1>3 DEF SessionAccepted, Pacing, TypeOK
  <2>2. /\ Active(connected', peers') = Active(connected, peers)
        /\ Waiting(connected', peers') = Waiting(connected, peers)
    BY <2>1 DEF Active, Waiting, NewPeer
  <2>3. Waiting(connected, peers) \cap Active(connected, peers) = {}
    BY DEF Waiting, Active
  <2>. QED
    BY <2>2, <2>3 DEF FewerWait
<1>4. ASSUME NEW n \in Caps, SetMaxSimultaneousUploads(n) PROVE FewerWait
  BY <1>2, <1>4 DEF SetMaxSimultaneousUploads, peerVars
<1>5. ASSUME NEW files \in SUBSET File, SetSharedFiles(files) PROVE FewerWait
  BY <1>2, <1>5 DEF SetSharedFiles, peerVars
<1>6. ASSUME NEW f \in File, NEW n \in Gone..MaxSize, DiskChange(f, n) PROVE FewerWait
  BY <1>2, <1>6 DEF DiskChange, peerVars
<1>7. CASE UNCHANGED vars
  BY <1>2, <1>7 DEF vars, peerVars, StartStep
<1>8. ASSUME NEW p \in Peer, NEW names \in Requests, FileList(p, names) PROVE StartStep
  <2> DEFINE known == {i \in 1..Len(names) : names[i] \in shared}
  <2>1. PICK g \in Ascending(known) :
          HandleFileList(p, [k \in 1..Cardinality(known) |-> names[g[k]]])
    BY <1>8 DEF FileList
  <2>2. known \in SUBSET (1..Len(names))
    OBVIOUS
  <2>. HIDE DEF known
  <2>3. [k \in 1..Cardinality(known) |-> names[g[k]]] \in Seq(File)
    BY <2>2, RequestIsSeq
  <2>4. p \in connected /\ connected' = connected /\ arrival' = arrival
    BY <1>8 DEF FileList
  <2>5. peers[p].list = 0
    BY <1>8 DEF FileList, TypeOK, PeerUpload
  <2>6. peers[p] = NewPeer
    BY <2>4, <2>5 DEF Pacing, Records, RecordOK
  <2>. QED
    BY <2>1, <2>3, <2>4, <2>6, HandleFileListStarts DEF StartStep
<1>. QED
  BY <1>1, <1>3, <1>4, <1>5, <1>6, <1>7, <1>8, DetachedStarts, DrainedStarts DEF Next, StartStep

(* Slots go to waiting peers in the order of the peer table, whatever the  *)
(* sizes on disk make _SendNextChunk pass on and wherever the call came    *)
(* from (FileUploadServer.cpp:321), when peers ask once.                   *)
THEOREM NobodyOvertakes == ASSUME MaxLists = 1 PROVE Spec => NoOvertaking
<1>1. ASSUME TypeOK, StartStep,
             NEW p \in Waiting(connected, peers), NEW q \in Waiting(connected, peers),
             arrival[p] < arrival[q], q \in Active(connected', peers')
      PROVE  p \notin Waiting(connected', peers')
  <2>1. SomeStart
    BY <1>1 DEF StartStep, FewerWait, OneIsHeld, Active
  <2>2. PICK P \in [Peer -> PeerUpload] :
          /\ connected' \subseteq connected
          /\ \E S \in Startable(connected', P) : peers' = Begun(P, S)
          /\ Waiting(connected', P) = Waiting(connected, peers) \cap connected'
    BY <2>1 DEF SomeStart
  <2>2a. PICK S \in Startable(connected', P) : peers' = Begun(P, S)
    BY <2>2
  <2>3. connected' \in SUBSET Peer
    BY <1>1, <2>2 DEF TypeOK
  <2>4. Waiting(connected', peers') = Waiting(connected', P) \ S
    <3>1. Waiting(connected', Begun(P, S)) = Waiting(connected', P) \ S
      BY <2>2, <2>2a, <2>3, StartNextExactly
    <3>. QED
      BY <2>2a, <3>1
  <2>5. q \in Waiting(connected', P)
    BY <1>1, <2>2 DEF Active
  <2>6. q \in S
    <3>1. q \notin Waiting(connected', peers')
      BY <1>1 DEF Active, Waiting
    <3>. QED
      BY <2>4, <2>5, <3>1
  <2>7. p \in Waiting(connected', P) => p \in S
    BY <1>1, <2>2a, <2>6 DEF Startable
  <2>. QED
    BY <2>4, <2>7
<1>2. TypeOK /\ Pacing /\ [Next]_vars
        => [\A p, q \in Waiting(connected, peers) :
              arrival[p] < arrival[q] /\ q \in Active(connected, peers)'
                => p \notin Waiting(connected, peers)']_vars
  <2>. SUFFICES ASSUME TypeOK, Pacing, [Next]_vars,
                       NEW p \in Waiting(connected, peers), NEW q \in Waiting(connected, peers),
                       arrival[p] < arrival[q], q \in Active(connected, peers)'
                PROVE  p \notin Waiting(connected, peers)'
    OBVIOUS
  <2>1. q \in Active(connected', peers')
    BY DEF Active
  <2>2. p \notin Waiting(connected', peers')
    BY <1>1, <2>1, NextStarts
  <2>. QED
    BY <2>2 DEF Waiting
<1>. QED
  BY <1>2, PacingInvariant, PTL DEF Spec, NoOvertaking

(* No wake-up is lost: while a peer waits, all slots but one are taken,    *)
(* whoever leaves, runs out of files or is passed over                     *)
(* (FileUploadServer.cpp:317), when the cap stays and peers ask once.      *)
THEOREM WaitersAreWoken ==
  ASSUME MaxLists = 1, Caps = {} PROVE Spec => []WaitOnlyWhenNearlyFull
<1>1. Init => WaitOnlyWhenNearlyFull
  BY DEF Init, WaitOnlyWhenNearlyFull, Waiting
<1>2. TypeOK /\ Pacing /\ WaitOnlyWhenNearlyFull /\ [Next]_vars => WaitOnlyWhenNearlyFull'
  <2>. SUFFICES ASSUME TypeOK, Pacing, WaitOnlyWhenNearlyFull, [Next]_vars,
                       Waiting(connected', peers') # {}
                PROVE  CountActive(connected', peers') >= cap' - 1
    BY DEF WaitOnlyWhenNearlyFull, Waiting, CountActive, Active
  <2>1. cap' = cap
    BY DEF Next, StartListening, StopListening, DropEverybody, SetSharedFiles,
       SessionAccepted, SessionDetached, FileList, OutputQueuesDrained, DiskChange,
       serverVars, vars
  <2>2. /\ TypeOK' /\ cap \in Nat
        /\ connected \in SUBSET Peer /\ connected' \in SUBSET Peer
    BY NextType DEF TypeOK
  <2>3. /\ IsFiniteSet(Active(connected, peers)) /\ CountActive(connected, peers) \in Nat
        /\ IsFiniteSet(Active(connected', peers')) /\ CountActive(connected', peers') \in Nat
    BY <2>2, ActiveFinite
  <2>4. StartStep
    BY NextStarts
  <2>5. CASE connected' = {}
    BY <2>5 DEF Waiting
  <2>6. CASE OneIsHeld
    BY <2>1, <2>6 DEF OneIsHeld
  <2>7. CASE FewerWait
    <3>1. CountActive(connected, peers) <= CountActive(connected', peers')
      BY <2>3, <2>7, FS_Subset DEF FewerWait, CountActive
    <3>2. CountActive(connected, peers) >= cap - 1
      BY <2>7 DEF FewerWait, WaitOnlyWhenNearlyFull
    <3>. QED
      BY <2>1, <2>2, <2>3, <3>1, <3>2
  <2>8. CASE SomeStart
    <3>0. PICK P \in [Peer -> PeerUpload] :
            /\ \E S \in Startable(connected', P) : peers' = Begun(P, S)
            /\ Waiting(connected', P) = Waiting(connected, peers) \cap connected'
            /\ \E p \in Peer : Active(connected, peers) \ {p} \subseteq Active(connected', P)
      BY <2>8 DEF SomeStart
    <3>1. PICK S \in Startable(connected', P), p \in Peer :
            /\ peers' = Begun(P, S)
            /\ Active(connected, peers) \ {p} \subseteq Active(connected', P)
      BY <3>0
    <3>2. /\ S \subseteq Waiting(connected', P) /\ IsFiniteSet(S) /\ Cardinality(S) \in Nat
          /\ Waiting(connected', peers') = Waiting(connected', P) \ S
          /\ CountActive(connected', peers') = CountActive(connected', P) + Cardinality(S)
      <4>1. /\ S \subseteq Waiting(connected', P) /\ IsFiniteSet(S) /\ Cardinality(S) \in Nat
            /\ Waiting(connected', Begun(P, S)) = Waiting(connected', P) \ S
            /\ CountActive(connected', Begun(P, S)) = CountActive(connected', P) + Cardinality(S)
        BY <2>2, <3>0, <3>1, StartNextExactly
      <4>. QED
        BY <3>1, <4>1
    <3>3. IsFiniteSet(Active(connected', P)) /\ CountActive(connected', P) \in Nat
      BY <2>2, ActiveFinite
    <3>4. CountActive(connected, peers) >= cap - 1
      BY <3>0, <3>2 DEF WaitOnlyWhenNearlyFull
    <3>5. CountActive(connected', P) >= cap - 2
      <4>1. /\ IsFiniteSet(Active(connected, peers) \ {p})
            /\ Cardinality(Active(connected, peers) \ {p}) \in Nat
            /\ Cardinality(Active(connected, peers) \ {p}) >= CountActive(connected, peers) - 1
        <5>1. /\ IsFiniteSet(Active(connected, peers) \ {p})
              /\ Cardinality(Active(connected, peers) \ {p})
                   = IF p \in Active(connected, peers)
                       THEN Cardinality(Active(connected, peers)) - 1
                       ELSE Cardinality(Active(connected, peers))
          BY <2>3, FS_RemoveElement
        <5>2. Cardinality(Active(connected, peers) \ {p}) \in Nat
          BY <5>1, FS_CardinalityType
        <5>. QED
          BY <2>3, <5>1, <5>2 DEF CountActive
      <4>2. Cardinality(Active(connected, peers) \ {p}) <= CountActive(connected', P)
        BY <3>1, <3>3, FS_Subset DEF CountActive
      <4>. QED
        BY <2>2, <2>3, <3>3, <3>4, <4>1, <4>2
    <3>6. S # Waiting(connected', P)
      BY <3>2
    <3>7. Cardinality(S) = Room(connected', P) \/ S # {}
      BY <3>1, <3>6 DEF Startable
    <3>8. CASE Cardinality(S) = Room(connected', P)
      BY <2>1, <2>2, <3>2, <3>3, <3>8 DEF Room
    <3>9. CASE S # {}
      <4>1. Cardinality(S) >= 1
        BY <3>2, <3>9, FS_EmptySet
      <4>. QED
        BY <2>1, <2>2, <3>2, <3>3, <3>5, <4>1
    <3>. QED
      BY <3>7, <3>8, <3>9
  <2>. QED
    BY <2>4, <2>5, <2>6, <2>7, <2>8 DEF StartStep
<1>. QED
  BY <1>1, <1>2, PacingInvariant, PTL DEF Spec
-----------------------------------------------------------------------------
(* What a peer was sent, on a disk that does not change: of its request,   *)
(* all entries up to the present one, and of that one as much as was read. *)
SentOK(r, T) ==
  /\ r.currentFile = NoFile /\ ~r.isQueued /\ r.requestedFiles # <<>>
       => r.nextFileIndex = Len(r.requestedFiles)
  /\ r.currentFile # NoFile
       => /\ r.currentFile.list = r.list /\ r.currentFile.index = r.nextFileIndex
          /\ r.nextFileIndex # 0
          /\ r.currentFile.sent + r.currentFile.left = Size(r, r.nextFileIndex)
  /\ \A i \in 1..r.nextFileIndex : \A k \in 0..Size(r, i) :
       \/ <<r.list, i, k>> \in T
       \/ r.currentFile # NoFile /\ i = r.nextFileIndex /\ k > r.currentFile.sent
SentAll(r, T) ==
  \A i \in 1..r.nextFileIndex : \A k \in 0..Size(r, i) : <<r.list, i, k>> \in T
Sent == \A p \in Peer : SentOK(peers[p], stream[p])

(* A peer that was sent all up to its present entry moves on.              *)
LEMMA AdvanceSent ==
  ASSUME TypeOK, NEW r \in PeerUpload, NEW T, SentAll(r, T)
  PROVE  SentOK(Advance(r), T \cup Emitted(r))
<1> DEFINE a == Advance(r)
           n == Len(r.requestedFiles)
<1>1. /\ Readable(r) \subseteq 1..n /\ n \in Nat /\ r.nextFileIndex \in Nat
      /\ \A i \in 1..n : Size(r, i) \in Int
  <2>1. \A i \in 1..n : r.requestedFiles[i] \in File
    BY ElementOfSeq DEF PeerUpload
  <2>. QED
    BY <2>1, ReadableInRequest DEF PeerUpload, TypeOK, Size
<1>2. a.requestedFiles = r.requestedFiles /\ a.list = r.list
  BY AdvanceKeepsRequest
<1>3. \A i : Size(a, i) = Size(r, i)
  BY <1>2 DEF Size
<1>4. ASSUME NEW i \in 1..a.nextFileIndex, a.nextFileIndex \in 1..n, i \notin Readable(r),
             NEW k \in 0..Size(r, i)
      PROVE  <<r.list, i, k>> \in T \cup Emitted(r)
  <2>1. CASE i <= r.nextFileIndex
    BY <1>1, <1>4, <2>1 DEF SentAll
  <2>2. CASE ~(i <= r.nextFileIndex)
    <3>1. i \in Unread(r) /\ Size(r, i) \in Int
      BY <1>1, <1>4, <2>2 DEF Unread
    <3>2. k = 0 /\ i \in Openable(r)
      BY <1>4, <3>1 DEF Readable, Openable
    <3>. QED
      BY <3>2, <1>4 DEF Emitted
  <2>. QED
    BY <2>1, <2>2
<1>5. CASE Readable(r) = {}
  <2>1. a.nextFileIndex = n /\ a.currentFile = NoFile
    BY <1>5, Zenon DEF Advance, PeerUpload
  <2>2. ASSUME NEW i \in 1..n, NEW k \in 0..Size(r, i)
        PROVE  <<r.list, i, k>> \in T \cup Emitted(r)
    BY <1>1, <1>4, <1>5, <2>1
  <2>. HIDE DEF a
  <2>3. SentOK(a, T \cup Emitted(r))
    BY <1>2, <1>3, <2>1, <2>2 DEF SentOK
  <2>. QED
    BY <2>3 DEF a
<1>6. CASE Readable(r) # {}
  <2> DEFINE l == Least(Readable(r))
  <2>1. l \in Readable(r) /\ \A j \in Readable(r) : l <= j
    BY <1>1, <1>6, LeastIsLeast
  <2>2. l \in 1..n /\ l \in Nat /\ l # 0 /\ l > r.nextFileIndex
    BY <1>1, <2>1 DEF Readable, Unread
  <2>3. /\ a.nextFileIndex = l
        /\ a.currentFile = [list |-> r.list, index |-> l, sent |-> 1, left |-> Size(r, l) - 1]
    BY <1>6, Zenon DEF Advance, PeerUpload
  <2>4. a.currentFile # NoFile
    BY <2>2, <2>3 DEF NoFile
  <2>5. ASSUME NEW i \in 1..l, NEW k \in 0..Size(r, i), i # l
        PROVE  <<r.list, i, k>> \in T \cup Emitted(r)
    <3>1. i \notin Readable(r)
      BY <1>1, <2>1, <2>2, <2>5
    <3>. QED
      BY <1>4, <2>2, <2>3, <2>5, <3>1
  <2>6. ASSUME NEW k \in 0..Size(r, l), ~(k > 1)
        PROVE  <<r.list, l, k>> \in T \cup Emitted(r)
    <3>1. k = 0 \/ k = 1
      BY <2>6
    <3>2. l \in Openable(r) /\ l <= a.nextFileIndex
      <4>1. l \in Unread(r) /\ Size(r, l) > 0 /\ Size(r, l) \in Int
        BY <1>1, <2>1, <2>2 DEF Readable
      <4>2. Size(r, l) >= 0
        BY <4>1
      <4>. HIDE DEF a, l
      <4>. QED
        BY <2>2, <2>3, <4>1, <4>2 DEF Openable
    <3>. QED
      BY <2>1, <3>1, <3>2 DEF Emitted
  <2>7. Size(r, l) \in Int
    BY <1>1, <2>2
  <2>. HIDE DEF a, l
  <2>8. a.currentFile.list = a.list /\ a.currentFile.index = a.nextFileIndex
        /\ a.currentFile.sent = 1
        /\ a.currentFile.sent + a.currentFile.left = Size(a, a.nextFileIndex)
    BY <1>2, <1>3, <2>3, <2>7
  <2>9. ASSUME NEW i \in 1..a.nextFileIndex, NEW k \in 0..Size(a, i)
        PROVE  \/ <<a.list, i, k>> \in T \cup Emitted(r)
               \/ i = a.nextFileIndex /\ k > a.currentFile.sent
    <3>1. i \in 1..l /\ k \in 0..Size(r, i)
      BY <1>3, <2>3
    <3>. QED
      BY <1>2, <2>3, <2>5, <2>6, <2>8, <3>1
  <2>10. SentOK(a, T \cup Emitted(r))
    BY <2>2, <2>3, <2>4, <2>8, <2>9 DEF SentOK
  <2>. QED
    BY <2>10 DEF a
<1>. QED
  BY <1>5, <1>6

(* One that was stopped at is sent the next chunk of its file.             *)
LEMMA NextChunkSent ==
  ASSUME NEW r \in PeerUpload, NEW T, SentOK(r, T), r.currentFile # NoFile
  PROVE  SentOK(NextChunk(r), T \cup {ChunkStamp(r)})
<1> DEFINE a == NextChunk(r)
           f == r.currentFile
<1>1. /\ a.requestedFiles = r.requestedFiles /\ a.list = r.list
      /\ a.nextFileIndex = r.nextFileIndex
      /\ a.currentFile = [list |-> f.list, index |-> f.index,
                          sent |-> f.sent + 1, left |-> f.left - 1]
  BY Zenon DEF NextChunk, PeerUpload
<1>2. f.sent \in Nat /\ f.left \in Nat /\ f.list = r.list /\ f.index = r.nextFileIndex
      /\ r.nextFileIndex # 0 /\ f.sent + f.left = Size(r, r.nextFileIndex)
  BY DEF PeerUpload, OpenFile, SentOK
<1>3. \A i : Size(a, i) = Size(r, i)
  BY <1>1 DEF Size
<1>4. ChunkStamp(r) = <<r.list, r.nextFileIndex, f.sent + 1>>
  BY <1>2 DEF ChunkStamp
<1>. HIDE DEF a, f
<1>5. a.currentFile # NoFile
  BY <1>1, <1>2 DEF NoFile
<1>6. ASSUME NEW i \in 1..r.nextFileIndex, NEW k \in 0..Size(r, i)
      PROVE  \/ <<r.list, i, k>> \in T \cup {ChunkStamp(r)}
             \/ i = r.nextFileIndex /\ k > f.sent + 1
  <2>1. CASE <<r.list, i, k>> \in T
    BY <2>1
  <2>2. CASE i = r.nextFileIndex /\ k > f.sent
    <3>1. k = f.sent + 1 \/ k > f.sent + 1
      BY <1>2, <2>2
    <3>. QED
      BY <1>4, <2>2, <3>1
  <2>. QED
    BY <2>1, <2>2 DEF SentOK, f
<1>7. /\ a.currentFile.list = a.list /\ a.currentFile.index = a.nextFileIndex
      /\ a.nextFileIndex # 0 /\ a.currentFile.sent = f.sent + 1
      /\ a.currentFile.sent + a.currentFile.left = Size(a, a.nextFileIndex)
  BY <1>1, <1>2, <1>3
<1>8. SentOK(a, T \cup {ChunkStamp(r)})
  BY <1>1, <1>3, <1>5, <1>6, <1>7 DEF SentOK
<1>. QED
  BY <1>8 DEF a

(* Being let start sends what moving on does.                              *)
LEMMA StartedSent ==
  ASSUME NEW r \in PeerUpload
  PROVE  /\ Started(r) \in PeerUpload /\ Emitted(Started(r)) = Emitted(r)
         /\ \A T : SentAll(Started(r), T) <=> SentAll(r, T)
<1> DEFINE s == Started(r)
<1>1. /\ s.requestedFiles = r.requestedFiles /\ s.nextFileIndex = r.nextFileIndex
      /\ s.list = r.list /\ s \in PeerUpload
  BY DEF Started, PeerUpload
<1>2. Advance(s).nextFileIndex = Advance(r).nextFileIndex
  <2>1. Readable(s) = Readable(r)
    BY <1>1 DEF Readable, Unread, Size
  <2>. HIDE DEF s
  <2>2. \A x \in PeerUpload : Advance(x).nextFileIndex = 
          IF Readable(x) = {} THEN Len(x.requestedFiles) ELSE Least(Readable(x))
    BY Zenon DEF Advance, PeerUpload
  <2>. QED
    BY <1>1, <2>1, <2>2
<1>. HIDE DEF s
<1>3. Readable(s) = Readable(r) /\ Openable(s) = Openable(r)
  BY <1>1 DEF Readable, Openable, Unread, Size
<1>4. Emitted(s) = Emitted(r)
  BY <1>1, <1>2, <1>3 DEF Emitted
<1>5. \A T : SentAll(s, T) <=> SentAll(r, T)
  BY <1>1 DEF SentAll, Size
<1>. QED
  BY <1>1, <1>4, <1>5 DEF s

(* One call of _StartNextQueuedPeer.  Who waits is as a peer that has been *)
(* sent all up to where its request begins.                                *)
LEMMA StartNextSent ==
  ASSUME TypeOK, NEW C \in SUBSET Peer, NEW P \in [Peer -> PeerUpload], NEW T \in [Peer -> SUBSET Stamp],
         NEW D, \A p \in Peer : SentOK(P[p], T[p]),
         \A p \in C : P[p].isQueued => P[p].currentFile = NoFile,
         StartNextQueuedPeer(C, P, T, D)
  PROVE  \A p \in Peer : SentOK(peers'[p], stream'[p])
<1>1. PICK S \in Startable(C, P) :
        /\ peers' = [p \in Peer |-> IF p \in S THEN Advance(Started(P[p])) ELSE P[p]]
        /\ stream' = [p \in Peer |-> IF p \in S THEN T[p] \cup Emitted(P[p]) ELSE T[p]]
  BY DEF StartNextQueuedPeer, Settle
<1>2. S \subseteq Waiting(C, P)
  BY DEF Startable
<1>. SUFFICES ASSUME NEW p \in Peer PROVE SentOK(peers'[p], stream'[p])
  OBVIOUS
<1>3. CASE p \in S
  <2>1. P[p] \in PeerUpload /\ P[p].currentFile = NoFile
    BY <1>2, <1>3 DEF Waiting
  <2>2. SentAll(P[p], T[p])
    BY <2>1 DEF SentOK, SentAll
  <2>3. /\ Started(P[p]) \in PeerUpload /\ SentAll(Started(P[p]), T[p])
        /\ Emitted(Started(P[p])) = Emitted(P[p])
    BY <2>1, <2>2, StartedSent
  <2>4. SentOK(Advance(Started(P[p])), T[p] \cup Emitted(P[p]))
    BY <2>3, AdvanceSent
  <2>. QED
    BY <1>1, <1>3, <2>4
<1>4. CASE p \notin S
  BY <1>1, <1>4
<1>. QED
  BY <1>3, <1>4

LEMMA BeginAndSendSent ==
  ASSUME TypeOK, Sent, NEW p \in Peer, NEW r \in PeerUpload, NEW d, NEW b,
         SentAll(r, stream[p]), ~r.isQueued,
         \A q \in connected : peers[q].isQueued => peers[q].currentFile = NoFile,
         BeginAndSend(p, r, d, b)
  PROVE  \A q \in Peer : SentOK(peers'[q], stream'[q])
<1> DEFINE P == [peers EXCEPT ![p] = Advance(r)]
           T == [stream EXCEPT ![p] = @ \cup Emitted(r)]
           D == [drains EXCEPT ![p] = d + RequestedDrains(r)]
<1>1. /\ Advance(r) \in PeerUpload /\ ~Advance(r).isQueued /\ Emitted(r) \subseteq Stamp
      /\ peers \in [Peer -> PeerUpload] /\ stream \in [Peer -> SUBSET Stamp]
      /\ connected \in SUBSET Peer
  BY AdvanceType, AdvanceKeepsRequest, EmittedType DEF TypeOK
<1>2. SentOK(Advance(r), stream[p] \cup Emitted(r))
  BY AdvanceSent
<1>3. /\ P \in [Peer -> PeerUpload] /\ T \in [Peer -> SUBSET Stamp]
      /\ P[p] = Advance(r) /\ T[p] = stream[p] \cup Emitted(r)
      /\ \A q \in Peer \ {p} : P[q] = peers[q] /\ T[q] = stream[q]
  BY <1>1
<1>4. \/ StartNextQueuedPeer(connected, P, T, D)
      \/ peers' = P /\ stream' = T
  BY DEF BeginAndSend, Settle
<1>. HIDE DEF P, T, D
<1>5. \A q \in Peer : SentOK(P[q], T[q])
  BY <1>2, <1>3 DEF Sent
<1>6. \A q \in connected : P[q].isQueued => P[q].currentFile = NoFile
  BY <1>1, <1>3
<1>. QED
  BY <1>1, <1>3, <1>4, <1>5, <1>6, StartNextSent

LEMMA NewPeerSent == \A T : SentOK(NewPeer, T)
BY DEF SentOK, NewPeer

LEMMA NextSent ==
  ASSUME MaxLists = 1, TypeOK, Pacing, Sent, [Next]_vars, disk' = disk
  PROVE  Sent'
<1>. SUFFICES \A p \in Peer : SentOK(peers'[p], stream'[p])
  BY DEF Sent, SentOK, Size
<1>2. \A q \in connected : peers[q].isQueued => peers[q].currentFile = NoFile
  BY DEF Pacing, Records, RecordOK, TypeOK
<1>3. CASE StartListening \/ StopListening
  BY <1>3, NewPeerSent DEF StartListening, StopListening, DropEverybody
<1>4. CASE peers' = peers /\ stream' = stream
  BY <1>4 DEF Sent
<1>5. ASSUME NEW p \in Peer, SessionAccepted(p)
      PROVE  \A q \in Peer : SentOK(peers'[q], stream'[q])
  BY <1>5, NewPeerSent DEF SessionAccepted, Sent, TypeOK
<1>6. ASSUME NEW p \in Peer, SessionDetached(p)
      PROVE  \A q \in Peer : SentOK(peers'[q], stream'[q])
  <2> DEFINE P == [peers EXCEPT ![p] = NewPeer]
  <2>1. /\ P \in [Peer -> PeerUpload] /\ connected' \in SUBSET Peer
        /\ stream \in [Peer -> SUBSET Stamp]
        /\ StartNextQueuedPeer(connected', P, stream, drains)
    BY <1>6, NewPeerType DEF SessionDetached, TypeOK
  <2>2. \A q \in Peer : SentOK(P[q], stream[q])
    BY NewPeerSent DEF Sent, TypeOK
  <2>3. \A q \in connected' : P[q].isQueued => P[q].currentFile = NoFile
    BY <1>2, <1>6 DEF SessionDetached, NewPeer, TypeOK
  <2>. HIDE DEF P
  <2>. QED
    BY <2>1, <2>2, <2>3, StartNextSent
<1>7. ASSUME NEW p \in Peer, NEW names \in Requests, FileList(p, names)
      PROVE  \A q \in Peer : SentOK(peers'[q], stream'[q])
  <2> DEFINE known == {i \in 1..Len(names) : names[i] \in shared}
  <2>1. PICK g \in Ascending(known) :
          HandleFileList(p, [k \in 1..Cardinality(known) |-> names[g[k]]])
    BY <1>7 DEF FileList
  <2> DEFINE s == [k \in 1..Cardinality(known) |-> names[g[k]]]
             r == Resolved(peers[p], s)
             held == [r EXCEPT !.isQueued = TRUE]
  <2>2. s \in Seq(File)
    BY RequestIsSeq
  <2>. HIDE DEF known, s
  <2>3. peers[p] = NewPeer
    <3>1. p \in connected /\ peers[p].list = 0
      BY <1>7 DEF FileList, TypeOK, PeerUpload
    <3>. QED
      BY <3>1 DEF Pacing, Records, RecordOK
  <2>4. r = [list |-> 1, requestedFiles |-> s, nextFileIndex |-> 0,
             currentFile |-> NoFile, isQueued |-> FALSE]
    BY <2>3 DEF Resolved, NewPeer
  <2>6. \/ BeginAndSend(p, Started(r), drains[p], PassesOn(r))
        \/ peers' = [peers EXCEPT ![p] = held] /\ stream' = stream
    BY <2>1 DEF HandleFileList, Settle, s
  <2>. HIDE DEF r, held
  <2>7. r \in PeerUpload
    BY <2>2, <2>4 DEF PeerUpload, NoFile, OpenFile
  <2>8. SentAll(r, stream[p])
    BY <2>4 DEF SentAll
  <2>9. CASE BeginAndSend(p, Started(r), drains[p], PassesOn(r))
    <3>1. Started(r) \in PeerUpload /\ SentAll(Started(r), stream[p]) /\ ~Started(r).isQueued
      <4>1. Started(r) \in PeerUpload /\ SentAll(Started(r), stream[p])
        BY <2>7, <2>8, StartedSent
      <4>. QED
        BY <2>4, <4>1 DEF Started
    <3>. QED
      BY <1>2, <2>9, <3>1, BeginAndSendSent
  <2>10. CASE peers' = [peers EXCEPT ![p] = held] /\ stream' = stream
    <3>1. /\ held.isQueued /\ held.nextFileIndex = r.nextFileIndex
          /\ held.currentFile = r.currentFile
      BY <2>7 DEF held, PeerUpload
    <3>2. SentOK(held, stream[p])
      BY <2>4, <3>1 DEF SentOK
    <3>. QED
      BY <2>10, <3>2 DEF Sent, TypeOK
  <2>. QED
    BY <2>6, <2>9, <2>10
<1>8. ASSUME NEW p \in Peer, OutputQueuesDrained(p)
      PROVE  \A q \in Peer : SentOK(peers'[q], stream'[q])
  <2>. SUFFICES ASSUME ~(peers' = peers /\ stream' = stream)
                PROVE  \A q \in Peer : SentOK(peers'[q], stream'[q])
    BY <1>4
  <2>1. p \in connected /\ drains[p] > 0 /\ drains[p] \in Nat
    BY <1>8 DEF OutputQueuesDrained, Settle, TypeOK
  <2>2. /\ peers[p] \in PeerUpload /\ ~peers[p].isQueued
        /\ peers[p].currentFile # NoFile /\ SentOK(peers[p], stream[p])
    BY <2>1 DEF Pacing, Records, RecordOK, TypeOK, Sent
  <2>3. DrainedWhileSending(p)
    BY <1>8, <2>1, <2>2 DEF OutputQueuesDrained, Sending
  <2>4. CASE /\ peers' = [peers EXCEPT ![p] = NextChunk(peers[p])]
             /\ stream' = [stream EXCEPT ![p] = @ \cup {ChunkStamp(peers[p])}]
    <3>1. SentOK(NextChunk(peers[p]), stream[p] \cup {ChunkStamp(peers[p])})
      BY <2>2, NextChunkSent
    <3>. QED
      BY <2>4, <3>1 DEF Sent, TypeOK
  <2>5. CASE /\ ~(peers[p].currentFile.left > 0)
             /\ BeginAndSend(p, peers[p], drains[p] - 1, Readable(peers[p]) = {})
    <3>1. peers[p].currentFile.left = 0 /\ peers[p].currentFile.sent \in Nat
      BY <2>2, <2>5 DEF PeerUpload, OpenFile
    <3>2. peers[p].currentFile.sent = Size(peers[p], peers[p].nextFileIndex)
      BY <2>2, <3>1 DEF SentOK
    <3>3. SentAll(peers[p], stream[p])
      BY <2>2, <3>1, <3>2 DEF SentOK, SentAll
    <3>. QED
      BY <1>2, <2>2, <2>5, <3>3, BeginAndSendSent
  <2>. QED
    BY <2>3, <2>4, <2>5 DEF DrainedWhileSending, Settle
<1>9. CASE Next
  BY <1>3, <1>4, <1>5, <1>6, <1>7, <1>8, <1>9
  DEF Next, SetSharedFiles, SetMaxSimultaneousUploads, DiskChange, peerVars
<1>10. CASE UNCHANGED vars
  BY <1>4, <1>10 DEF vars, peerVars
<1>. QED
  BY <1>9, <1>10

(* A peer that holds a slot and is sent nothing was sent every file it     *)
(* asked for that can be opened, to the last chunk, through any number of  *)
(* files passed over, empty ones and waits (FileUploadServer.cpp:338),     *)
(* when peers ask once and the disk does not change.                       *)
THEOREM ServedToTheEnd ==
  ASSUME MaxLists = 1, DiskChurn = FALSE PROVE Spec => []ServedCompletely
<1>1. Init => Sent
  BY NewPeerSent DEF Init, Sent
<1>2. ASSUME TypeOK, Pacing, Sent, [Next]_vars
      PROVE  Sent'
  <2>1. disk' = disk
    BY <1>2 DEF Next, StartListening, StopListening, DropEverybody, SetSharedFiles,
       SetMaxSimultaneousUploads, SessionAccepted, SessionDetached, FileList,
       OutputQueuesDrained, DiskChange, vars
  <2>. QED
    BY <1>2, <2>1, NextSent
<1>3. TypeOK /\ Sent => ServedCompletely
  <2>. SUFFICES ASSUME TypeOK, Sent, NEW p \in Active(connected, peers), ~Sending(p),
                       NEW i \in DOMAIN peers[p].requestedFiles,
                       NEW k \in 0..Size(peers[p], i)
                PROVE  <<peers[p].list, i, k>> \in stream[p]
    BY DEF ServedCompletely
  <2>1. p \in Peer /\ peers[p] \in PeerUpload
    BY DEF TypeOK, Active
  <2>2. peers[p].nextFileIndex = Len(peers[p].requestedFiles) /\ SentOK(peers[p], stream[p])
    BY <2>1 DEF Sent, SentOK, Active, Sending
  <2>3. i \in 1..peers[p].nextFileIndex
    BY <2>1, <2>2, LenProperties DEF PeerUpload
  <2>. QED
    BY <2>2, <2>3 DEF SentOK, Sending
<1>. QED
  BY <1>1, <1>2, <1>3, PacingInvariant, PTL DEF Spec
-----------------------------------------------------------------------------
(* What a peer was sent is no more than its record says: all of it belongs *)
(* to the entries up to the present one and, of that, to the chunks that   *)
(* were read.  With Sent, the stream is known exactly.                     *)
Within(r, T) ==
  /\ r.nextFileIndex <= Len(r.requestedFiles)
  /\ \A s \in T : s[1] = r.list /\ s[2] \in 1..r.nextFileIndex /\ s[3] <= Size(r, s[2])
BoundOK(r, T) ==
  /\ Within(r, T)
  /\ r.currentFile # NoFile
       => \A s \in T : s[2] = r.nextFileIndex => s[3] <= r.currentFile.sent
Bounded ==
  \A p \in Peer : /\ p \in connected => BoundOK(peers[p], stream[p])
                  /\ arrival[p] = 0 => stream[p] = {}

LEMMA AdvanceBound ==
  ASSUME TypeOK, NEW r \in PeerUpload, NEW T, Within(r, T)
  PROVE  BoundOK(Advance(r), T \cup Emitted(r))
<1> DEFINE a == Advance(r)
           n == Len(r.requestedFiles)
<1>1. /\ Readable(r) \subseteq 1..n /\ n \in Nat /\ r.nextFileIndex \in Nat
      /\ \A i \in 1..n : Size(r, i) \in Int
  <2>1. \A i \in 1..n : r.requestedFiles[i] \in File
    BY ElementOfSeq DEF PeerUpload
  <2>. QED
    BY <2>1, ReadableInRequest DEF PeerUpload, TypeOK, Size
<1>2. a.requestedFiles = r.requestedFiles /\ a.list = r.list
  BY AdvanceKeepsRequest
<1>3. \A i : Size(a, i) = Size(r, i)
  BY <1>2 DEF Size
<1>4. \A s \in T : s[1] = r.list /\ s[2] \in 1..r.nextFileIndex /\ s[3] <= Size(r, s[2])
  BY DEF Within
<1>5. ASSUME NEW i \in Openable(r)
      PROVE  i \in 1..n /\ i > r.nextFileIndex /\ 0 <= Size(r, i)
  <2>1. i \in 1..n
    BY <1>1 DEF Openable, Unread
  <2>. QED
    BY <1>1, <2>1 DEF Openable, Unread
<1>6. CASE Readable(r) = {}
  <2>1. a.nextFileIndex = n /\ a.currentFile = NoFile
    BY <1>6, Zenon DEF Advance, PeerUpload
  <2>2. ASSUME NEW s \in Emitted(r)
        PROVE  s[1] = r.list /\ s[2] \in 1..n /\ s[3] <= Size(r, s[2])
    <3>1. PICK i \in Openable(r) : s = <<r.list, i, 0>>
      BY <1>6 DEF Emitted
    <3>. QED
      BY <1>5, <3>1
  <2>3. \A s \in T : s[2] \in 1..n
    BY <1>1, <1>4 DEF Within
  <2>. HIDE DEF a
  <2>4. BoundOK(a, T \cup Emitted(r))
    BY <1>1, <1>2, <1>3, <1>4, <2>1, <2>2, <2>3 DEF BoundOK, Within
  <2>. QED
    BY <2>4 DEF a
<1>7. CASE Readable(r) # {}
  <2> DEFINE l == Least(Readable(r))
  <2>1. l \in Readable(r)
    BY <1>1, <1>7, LeastIsLeast
  <2>2. l \in 1..n /\ l \in Nat /\ l > r.nextFileIndex /\ Size(r, l) > 0 /\ Size(r, l) \in Int
    BY <1>1, <2>1 DEF Readable, Unread
  <2>3. /\ a.nextFileIndex = l
        /\ a.currentFile = [list |-> r.list, index |-> l, sent |-> 1, left |-> Size(r, l) - 1]
    BY <1>7, Zenon DEF Advance, PeerUpload
  <2>4. ASSUME NEW s \in Emitted(r)
        PROVE  s[1] = r.list /\ s[2] \in 1..l /\ s[3] <= Size(r, s[2]) /\ s[3] <= 1
    <3>1. CASE \E i \in Openable(r) : i <= l /\ s = <<r.list, i, 0>>
      BY <1>5, <2>2, <3>1
    <3>2. CASE s = <<r.list, l, 1>>
      BY <2>2, <3>2
    <3>. QED
      BY <2>3, <3>1, <3>2 DEF Emitted
  <2>5. \A s \in T : s[2] \in 1..l /\ s[2] # l
    BY <1>1, <1>4, <2>2
  <2>. HIDE DEF a, l
  <2>6. Within(a, T \cup Emitted(r))
    BY <1>1, <1>2, <1>3, <1>4, <2>2, <2>3, <2>4, <2>5 DEF Within
  <2>7. BoundOK(a, T \cup Emitted(r))
    BY <2>3, <2>4, <2>5, <2>6 DEF BoundOK
  <2>. QED
    BY <2>7 DEF a
<1>. QED
  BY <1>6, <1>7

LEMMA NextChunkBound ==
  ASSUME NEW r \in PeerUpload, NEW T \in SUBSET Stamp, SentOK(r, T), BoundOK(r, T),
         r.currentFile # NoFile, r.currentFile.left > 0
  PROVE  BoundOK(NextChunk(r), T \cup {ChunkStamp(r)})
<1> DEFINE a == NextChunk(r)
           f == r.currentFile
<1>1. /\ a.requestedFiles = r.requestedFiles /\ a.list = r.list
      /\ a.nextFileIndex = r.nextFileIndex
      /\ a.currentFile = [list |-> f.list, index |-> f.index,
                          sent |-> f.sent + 1, left |-> f.left - 1]
  BY Zenon DEF NextChunk, PeerUpload
<1>2. f.sent \in Nat /\ f.left \in Nat /\ f.list = r.list /\ f.index = r.nextFileIndex
      /\ r.nextFileIndex # 0 /\ f.sent + f.left = Size(r, r.nextFileIndex)
      /\ r.nextFileIndex \in Nat
  BY DEF PeerUpload, OpenFile, SentOK
<1>3. \A i : Size(a, i) = Size(r, i)
  BY <1>1 DEF Size
<1>4. ChunkStamp(r) = <<r.list, r.nextFileIndex, f.sent + 1>>
  BY <1>2 DEF ChunkStamp
<1>5. f.sent + 1 <= Size(r, r.nextFileIndex)
  BY <1>2
<1>6. /\ \A s \in T : s[1] = r.list /\ s[2] \in 1..r.nextFileIndex /\ s[3] <= Size(r, s[2])
      /\ \A s \in T : s[2] = r.nextFileIndex => s[3] <= f.sent
      /\ r.nextFileIndex <= Len(r.requestedFiles)
  BY DEF BoundOK, Within
<1>. HIDE DEF a, f
<1>7. Within(a, T \cup {ChunkStamp(r)})
  BY <1>1, <1>2, <1>3, <1>4, <1>5, <1>6 DEF Within
<1>8. ASSUME NEW s \in T \cup {ChunkStamp(r)}, s[2] = r.nextFileIndex
      PROVE  s[3] <= f.sent + 1
  <2>1. s \in T => s[3] <= f.sent /\ s[3] \in Nat
    BY <1>6, <1>8 DEF Stamp
  <2>. QED
    BY <1>2, <1>4, <2>1, <1>8
<1>9. BoundOK(a, T \cup {ChunkStamp(r)})
  BY <1>1, <1>7, <1>8 DEF BoundOK
<1>. QED
  BY <1>9 DEF a

LEMMA StartedBound ==
  ASSUME TypeOK, NEW r \in PeerUpload, NEW T \in SUBSET Stamp, BoundOK(r, T)
  PROVE  BoundOK(Advance(Started(r)), T \cup Emitted(r))
<1>1. Started(r) \in PeerUpload /\ Emitted(Started(r)) = Emitted(r)
  BY StartedSent
<1>2. /\ Started(r).requestedFiles = r.requestedFiles
      /\ Started(r).nextFileIndex = r.nextFileIndex /\ Started(r).list = r.list
  BY DEF Started, PeerUpload
<1>3. Within(Started(r), T)
  BY <1>2 DEF BoundOK, Within, Size
<1>. QED
  BY <1>1, <1>3, AdvanceBound

(* One call of _StartNextQueuedPeer sends something only to peers that are *)
(* there, and leaves each its request.                                     *)
SameRequest(r, q) == q.list = r.list /\ q.requestedFiles = r.requestedFiles

LEMMA StartNextBound ==
  ASSUME TypeOK, NEW C \in SUBSET Peer, NEW P \in [Peer -> PeerUpload],
         NEW T \in [Peer -> SUBSET Stamp], NEW D, \A p \in C : BoundOK(P[p], T[p]),
         StartNextQueuedPeer(C, P, T, D), NEW p \in Peer
  PROVE  /\ p \in C => BoundOK(peers'[p], stream'[p])
         /\ p \notin C => stream'[p] = T[p]
         /\ SameRequest(P[p], peers'[p]) /\ T[p] \subseteq stream'[p]
<1>1. PICK S \in Startable(C, P) :
        /\ peers' = [q \in Peer |-> IF q \in S THEN Advance(Started(P[q])) ELSE P[q]]
        /\ stream' = [q \in Peer |-> IF q \in S THEN T[q] \cup Emitted(P[q]) ELSE T[q]]
  BY DEF StartNextQueuedPeer, Settle
<1>2. S \subseteq C
  BY DEF Startable, Waiting
<1>3. CASE p \in S
  <2>1. Started(P[p]) \in PeerUpload /\ SameRequest(P[p], Started(P[p]))
    BY DEF Started, PeerUpload, SameRequest
  <2>2. SameRequest(P[p], Advance(Started(P[p])))
    BY <2>1, AdvanceKeepsRequest DEF SameRequest
  <2>3. BoundOK(Advance(Started(P[p])), T[p] \cup Emitted(P[p]))
    BY <1>2, <1>3, StartedBound
  <2>. QED
    BY <1>1, <1>2, <1>3, <2>2, <2>3
<1>4. CASE p \notin S
  BY <1>1, <1>4 DEF SameRequest
<1>. QED
  BY <1>3, <1>4

LEMMA BeginAndSendBound ==
  ASSUME TypeOK, \A q \in connected : BoundOK(peers[q], stream[q]),
         NEW p \in connected, NEW r \in PeerUpload, NEW d, NEW b,
         Within(r, stream[p]), BeginAndSend(p, r, d, b), NEW q \in Peer
  PROVE  /\ q \in connected => BoundOK(peers'[q], stream'[q])
         /\ q \notin connected => stream'[q] = stream[q]
         /\ SameRequest(IF q = p THEN r ELSE peers[q], peers'[q])
         /\ stream[q] \subseteq stream'[q]
<1> DEFINE P == [peers EXCEPT ![p] = Advance(r)]
           T == [stream EXCEPT ![p] = @ \cup Emitted(r)]
           D == [drains EXCEPT ![p] = d + RequestedDrains(r)]
<1>1. /\ Advance(r) \in PeerUpload /\ Emitted(r) \subseteq Stamp
      /\ peers \in [Peer -> PeerUpload] /\ stream \in [Peer -> SUBSET Stamp]
      /\ connected \in SUBSET Peer /\ p \in Peer /\ SameRequest(r, Advance(r))
  BY AdvanceType, AdvanceKeepsRequest, EmittedType DEF TypeOK, SameRequest
<1>2. BoundOK(Advance(r), stream[p] \cup Emitted(r))
  BY AdvanceBound
<1>3. /\ P \in [Peer -> PeerUpload] /\ T \in [Peer -> SUBSET Stamp]
      /\ P[p] = Advance(r) /\ T[p] = stream[p] \cup Emitted(r)
      /\ \A x \in Peer \ {p} : P[x] = peers[x] /\ T[x] = stream[x]
  BY <1>1
<1>4. \/ StartNextQueuedPeer(connected, P, T, D)
      \/ peers' = P /\ stream' = T
  BY DEF BeginAndSend, Settle
<1>. HIDE DEF P, T, D
<1>5. \A x \in connected : BoundOK(P[x], T[x])
  BY <1>1, <1>2, <1>3
<1>6. /\ q \notin connected => T[q] = stream[q]
      /\ SameRequest(IF q = p THEN r ELSE peers[q], P[q]) /\ stream[q] \subseteq T[q]
  BY <1>1, <1>3 DEF SameRequest
<1>7. CASE StartNextQueuedPeer(connected, P, T, D)
  <2>1. /\ q \in connected => BoundOK(peers'[q], stream'[q])
        /\ q \notin connected => stream'[q] = T[q]
        /\ SameRequest(P[q], peers'[q]) /\ T[q] \subseteq stream'[q]
    BY <1>1, <1>3, <1>5, <1>7, StartNextBound
  <2>. QED
    BY <1>6, <2>1 DEF SameRequest
<1>8. CASE peers' = P /\ stream' = T
  BY <1>5, <1>6, <1>8
<1>. QED
  BY <1>4, <1>7, <1>8

(* What any step does to the stream of peer p, and to its request unless p *)
(* asks: it leaves, has just come, or has the request it had.              *)
StreamStep(p) ==
  /\ p \in connected' => BoundOK(peers'[p], stream'[p])
  /\ p \notin connected' => stream'[p] = stream[p]
  /\ stream[p] \subseteq stream'[p]
KeepsRequest(p) ==
  \/ p \notin connected'
  \/ p \notin connected /\ peers'[p] = NewPeer
  \/ p \in connected /\ SameRequest(peers[p], peers'[p])

LEMMA NewPeerBound == BoundOK(NewPeer, {})
  BY DEF BoundOK, Within, NewPeer

LEMMA QuietBound ==
  ASSUME TypeOK, Bounded, disk' = disk, connected' \subseteq connected,
         NEW p \in Peer, stream'[p] = stream[p], p \in connected' => peers'[p] = peers[p]
  PROVE  StreamStep(p) /\ KeepsRequest(p)
  BY DEF Bounded, StreamStep, KeepsRequest, SameRequest

LEMMA AcceptedBound ==
  ASSUME TypeOK, Bounded, NEW q \in Peer, SessionAccepted(q), NEW p \in Peer,
         arrival[p] = 0 => p \notin connected
  PROVE  StreamStep(p) /\ KeepsRequest(p)
<1>1. /\ stream' = stream /\ connected' = connected \cup {q} /\ arrival[q] = 0
      /\ peers'[q] = NewPeer /\ \A x \in Peer \ {q} : peers'[x] = peers[x]
  BY DEF SessionAccepted, TypeOK
<1>2. CASE p = q
  BY <1>1, <1>2, NewPeerBound DEF Bounded, StreamStep, KeepsRequest
<1>3. CASE p # q
  BY <1>1, <1>3 DEF Bounded, StreamStep, KeepsRequest, SameRequest
<1>. QED
  BY <1>2, <1>3

LEMMA DetachedBound ==
  ASSUME TypeOK, Bounded, NEW q \in Peer, SessionDetached(q), NEW p \in Peer
  PROVE  StreamStep(p) /\ KeepsRequest(p)
<1> DEFINE P == [peers EXCEPT ![q] = NewPeer]
<1>1. /\ P \in [Peer -> PeerUpload] /\ connected' \in SUBSET Peer
      /\ stream \in [Peer -> SUBSET Stamp] /\ connected' = connected \ {q}
      /\ StartNextQueuedPeer(connected', P, stream, drains)
      /\ \A x \in Peer \ {q} : P[x] = peers[x]
  BY NewPeerType DEF SessionDetached, TypeOK
<1>2. \A x \in connected' : BoundOK(P[x], stream[x]) /\ P[x] = peers[x]
  BY <1>1 DEF Bounded
<1>. HIDE DEF P
<1>3. /\ p \in connected' => BoundOK(peers'[p], stream'[p])
      /\ p \notin connected' => stream'[p] = stream[p]
      /\ SameRequest(P[p], peers'[p]) /\ stream[p] \subseteq stream'[p]
  BY <1>1, <1>2, StartNextBound
<1>. QED
  BY <1>1, <1>2, <1>3 DEF StreamStep, KeepsRequest

LEMMA RequestLength ==
  ASSUME NEW names \in Requests, NEW K \in SUBSET (1..Len(names)), NEW g \in Ascending(K)
  PROVE  Len([k \in 1..Cardinality(K) |-> names[g[k]]]) <= MaxRequest
<1>1. PICK n \in 1..MaxRequest : names \in [1..n -> File]
  BY DEF Requests
<1>2. n \in Nat /\ Len(names) = n /\ n <= MaxRequest
  BY <1>1, UploadAssumption, LenProperties
<1>3. Cardinality(K) \in Nat /\ Cardinality(K) <= n
  <2>1. IsFiniteSet(1..n) /\ Cardinality(1..n) = n
    BY <1>2, FS_Interval
  <2>2. K \in SUBSET (1..n)
    BY <1>2
  <2>3. IsFiniteSet(K) /\ Cardinality(K) <= Cardinality(1..n)
    BY <2>1, <2>2, FS_Subset
  <2>. QED
    BY <2>1, <2>3, FS_CardinalityType
<1>. DEFINE s == [k \in 1..Cardinality(K) |-> names[g[k]]]
<1>4. s \in Seq(File) /\ DOMAIN s = 1..Cardinality(K)
  BY RequestIsSeq
<1>. HIDE DEF s
<1>5. Len(s) = Cardinality(K)
  BY <1>3, <1>4, LenProperties
<1>. QED
  BY <1>2, <1>3, <1>5, UploadAssumption DEF s

(* A peer that asks was sent nothing before, and is sent what belongs to   *)
(* the request it has now.                                                 *)
FileListEffect(q) ==
  /\ q \in connected /\ q \in connected'
  /\ stream[q] = {} /\ peers'[q].list = 1
  /\ peers'[q].requestedFiles \in Seq(File)
  /\ Len(peers'[q].requestedFiles) <= MaxRequest

LEMMA FileListBound ==
  ASSUME MaxLists = 1, TypeOK, Pacing, Bounded,
         NEW q \in Peer, NEW names \in Requests, FileList(q, names), NEW p \in Peer
  PROVE  /\ StreamStep(p)
         /\ p # q => KeepsRequest(p)
         /\ FileListEffect(q)
<1> DEFINE known == {i \in 1..Len(names) : names[i] \in shared}
<1>1. PICK g \in Ascending(known) :
        HandleFileList(q, [k \in 1..Cardinality(known) |-> names[g[k]]])
  BY DEF FileList
<1> DEFINE s == [k \in 1..Cardinality(known) |-> names[g[k]]]
           r == Resolved(peers[q], s)
           held == [r EXCEPT !.isQueued = TRUE]
<1>2. s \in Seq(File) /\ Len(s) <= MaxRequest
  BY RequestIsSeq, RequestLength
<1>3. q \in connected /\ connected' = connected /\ connected \in SUBSET Peer
      /\ peers \in [Peer -> PeerUpload] /\ stream \in [Peer -> SUBSET Stamp]
  BY DEF FileList, TypeOK
<1>. HIDE DEF known, s
<1>4. peers[q] = NewPeer
  <2>1. peers[q].list = 0
    BY DEF FileList, TypeOK, PeerUpload
  <2>. QED
    BY <1>3, <2>1 DEF Pacing, Records, RecordOK
<1>5. stream[q] = {}
  <2>1. \A x \in stream[q] : x[2] \in 1..0
    BY <1>3, <1>4 DEF Bounded, BoundOK, Within, NewPeer
  <2>. QED
    BY <2>1
<1>6. r = [list |-> 1, requestedFiles |-> s, nextFileIndex |-> 0,
           currentFile |-> NoFile, isQueued |-> FALSE]
  BY <1>4 DEF Resolved, NewPeer
<1>7. \/ BeginAndSend(q, Started(r), drains[q], PassesOn(r))
      \/ peers' = [peers EXCEPT ![q] = held] /\ stream' = stream
  BY <1>1 DEF HandleFileList, Settle, s
<1>. HIDE DEF r, held
<1>8. r \in PeerUpload
  BY <1>2, <1>6 DEF PeerUpload, NoFile, OpenFile
<1>9. Len(s) \in Nat
  BY <1>2, LenProperties
<1>10. CASE BeginAndSend(q, Started(r), drains[q], PassesOn(r))
  <2>1. Started(r) \in PeerUpload /\ SameRequest(r, Started(r)) /\ Started(r).nextFileIndex = 0
    BY <1>6, <1>8 DEF Started, PeerUpload, SameRequest
  <2>2. Within(Started(r), stream[q])
    BY <1>5, <1>6, <1>9, <2>1 DEF Within, SameRequest
  <2>3. ASSUME NEW x \in Peer
        PROVE  /\ x \in connected => BoundOK(peers'[x], stream'[x])
               /\ x \notin connected => stream'[x] = stream[x]
               /\ SameRequest(IF x = q THEN Started(r) ELSE peers[x], peers'[x])
               /\ stream[x] \subseteq stream'[x]
    BY <1>3, <1>10, <2>1, <2>2, BeginAndSendBound DEF Bounded
  <2>4. SameRequest(Started(r), peers'[q])
    BY <2>3
  <2>5. peers'[q].list = 1 /\ peers'[q].requestedFiles = s
    BY <1>6, <2>1, <2>4 DEF SameRequest
  <2>6. StreamStep(p)
    BY <1>3, <2>3 DEF StreamStep
  <2>7. p # q => KeepsRequest(p)
    BY <1>3, <2>3 DEF KeepsRequest
  <2>. QED
    BY <1>2, <1>3, <1>5, <2>5, <2>6, <2>7 DEF FileListEffect
<1>11. CASE peers' = [peers EXCEPT ![q] = held] /\ stream' = stream
  <2>1. /\ peers'[q] = held /\ stream' = stream
        /\ \A x \in Peer \ {q} : peers'[x] = peers[x]
    BY <1>3, <1>11
  <2>2. /\ held.list = 1 /\ held.requestedFiles = s /\ held.nextFileIndex = 0
        /\ held.currentFile = NoFile
    BY <1>6 DEF held
  <2>3. BoundOK(held, {})
    BY <1>9, <2>2 DEF BoundOK, Within
  <2>4. StreamStep(p)
    BY <1>3, <1>5, <2>1, <2>3 DEF StreamStep, Bounded
  <2>5. p # q => KeepsRequest(p)
    BY <1>3, <2>1 DEF KeepsRequest, SameRequest
  <2>. QED
    BY <1>2, <1>3, <1>5, <2>1, <2>2, <2>4, <2>5 DEF FileListEffect
<1>. QED
  BY <1>7, <1>10, <1>11

LEMMA DrainedBound ==
  ASSUME TypeOK, Pacing, Sent, Bounded,
         NEW q \in Peer, OutputQueuesDrained(q), NEW p \in Peer
  PROVE  StreamStep(p) /\ KeepsRequest(p)
<1>1. connected' = connected /\ connected \in SUBSET Peer /\ drains[q] > 0
      /\ peers \in [Peer -> PeerUpload] /\ stream \in [Peer -> SUBSET Stamp]
  BY DEF OutputQueuesDrained, TypeOK
<1>2. CASE peers' = peers /\ stream' = stream
  BY <1>1, <1>2 DEF StreamStep, KeepsRequest, SameRequest, Bounded
<1>3. CASE ~(peers' = peers /\ stream' = stream)
  <2>1. q \in connected
    BY <1>3 DEF OutputQueuesDrained, Settle
  <2>2. /\ peers[q] \in PeerUpload /\ peers[q].currentFile # NoFile
        /\ SentOK(peers[q], stream[q]) /\ BoundOK(peers[q], stream[q])
    BY <1>1, <2>1 DEF Pacing, Records, RecordOK, Sent, Bounded
  <2>3. DrainedWhileSending(q)
    BY <2>1, <2>2 DEF OutputQueuesDrained, Sending
  <2>4. CASE /\ peers' = [peers EXCEPT ![q] = NextChunk(peers[q])]
             /\ stream' = [stream EXCEPT ![q] = @ \cup {ChunkStamp(peers[q])}]
             /\ peers[q].currentFile.left > 0
    <3>1. BoundOK(NextChunk(peers[q]), stream[q] \cup {ChunkStamp(peers[q])})
      BY <1>1, <2>2, <2>4, NextChunkBound
    <3>2. SameRequest(peers[q], NextChunk(peers[q]))
      BY <2>2, Zenon DEF NextChunk, PeerUpload, SameRequest
    <3>3. /\ peers'[q] = NextChunk(peers[q]) /\ stream'[q] = stream[q] \cup {ChunkStamp(peers[q])}
          /\ \A x \in Peer \ {q} : peers'[x] = peers[x] /\ stream'[x] = stream[x]
      BY <1>1, <2>4
    <3>4. CASE p = q
      BY <1>1, <2>1, <3>1, <3>2, <3>3, <3>4 DEF StreamStep, KeepsRequest
    <3>5. CASE p # q
      BY <1>1, <3>3, <3>5 DEF StreamStep, KeepsRequest, SameRequest, Bounded
    <3>. QED
      BY <3>4, <3>5
  <2>5. CASE BeginAndSend(q, peers[q], drains[q] - 1, Readable(peers[q]) = {})
    <3>1. Within(peers[q], stream[q])
      BY <2>2 DEF BoundOK
    <3>2. \A x \in connected : BoundOK(peers[x], stream[x])
      BY <1>1 DEF Bounded
    <3>3. /\ p \in connected => BoundOK(peers'[p], stream'[p])
          /\ p \notin connected => stream'[p] = stream[p]
          /\ SameRequest(IF p = q THEN peers[q] ELSE peers[p], peers'[p])
          /\ stream[p] \subseteq stream'[p]
      BY <2>1, <2>2, <2>5, <3>1, <3>2, BeginAndSendBound
    <3>. QED
      BY <1>1, <3>3 DEF StreamStep, KeepsRequest
  <2>. QED
    BY <2>3, <2>4, <2>5 DEF DrainedWhileSending, Settle
<1>. QED
  BY <1>2, <1>3
-----------------------------------------------------------------------------
(* The server's half in full, and what any of its steps does to it.        *)
ServerInv ==
  /\ TypeOK /\ Pacing /\ Sent /\ Bounded
  /\ disk \in [File -> Gone..MaxSize]

LEMMA ServerInit == Init => ServerInv
<1>1. Init => Pacing
  BY DEF Init, Pacing, Records
<1>2. Init => Sent /\ Bounded
  BY NewPeerSent, NewPeerBound DEF Init, Sent, Bounded
<1>. QED
  BY <1>1, <1>2, InitType DEF Init, ServerInv

LEMMA StreamsStep ==
  ASSUME MaxLists = 1, ServerInv, [Next]_vars, disk' = disk, NEW p \in Peer
  PROVE  /\ StreamStep(p)
         /\ arrival[p] # 0 => arrival'[p] # 0
<1>. USE DEF ServerInv
<1>0. arrival[p] = 0 => p \notin connected
  BY DEF Pacing
<1>1. ASSUME arrival' = arrival, StreamStep(p)
      PROVE  /\ StreamStep(p)
             /\ arrival[p] # 0 => arrival'[p] # 0
  BY <1>1
<1>2. CASE StartListening \/ StopListening
  <2>1. connected' = {} /\ stream' = stream /\ arrival' = arrival
    BY <1>2 DEF StartListening, StopListening, DropEverybody
  <2>. QED
    BY <2>1, QuietBound
<1>3. CASE UNCHANGED <<connected, arrival, peers, stream>>
  BY <1>3, QuietBound
<1>4. ASSUME NEW q \in Peer, SessionAccepted(q)
      PROVE  /\ StreamStep(p)
             /\ arrival[p] # 0 => arrival'[p] # 0
  <2>1. arrival[q] = 0 /\ \A x \in Peer \ {q} : arrival'[x] = arrival[x]
    BY <1>4 DEF SessionAccepted, TypeOK
  <2>2. arrival[p] # 0 => arrival'[p] # 0
    BY <2>1
  <2>. QED
    BY <1>0, <1>4, <2>2, AcceptedBound
<1>5. ASSUME NEW q \in Peer, SessionDetached(q)
      PROVE  StreamStep(p) /\ arrival' = arrival
  BY <1>5, DetachedBound DEF SessionDetached
<1>6. ASSUME NEW q \in Peer, NEW names \in Requests, FileList(q, names)
      PROVE  StreamStep(p) /\ arrival' = arrival
  <2>1. StreamStep(p)
    BY <1>6, FileListBound
  <2>2. arrival' = arrival
    BY <1>6 DEF FileList
  <2>. QED
    BY <1>6, <2>1, <2>2
<1>7. ASSUME NEW q \in Peer, OutputQueuesDrained(q)
      PROVE  StreamStep(p) /\ arrival' = arrival
  <2>1. arrival' = arrival
    BY <1>7 DEF OutputQueuesDrained
  <2>. QED
    BY <1>7, <2>1, DrainedBound
<1>8. CASE Next
  BY <1>2, <1>3, <1>4, <1>5, <1>6, <1>7, <1>8
  DEF Next, SetSharedFiles, SetMaxSimultaneousUploads, DiskChange, peerVars
<1>9. CASE UNCHANGED vars
  BY <1>3, <1>9 DEF vars, peerVars
<1>. QED
  BY <1>8, <1>9

LEMMA ServerStep ==
  ASSUME MaxLists = 1, ServerInv, [Next]_vars, disk' = disk
  PROVE  ServerInv'
<1>1. TypeOK' /\ Pacing' /\ Sent' /\ disk' \in [File -> Gone..MaxSize]
  BY NextType, NextPacing, NextSent DEF ServerInv
<1>2. ASSUME NEW p \in Peer
      PROVE  /\ p \in connected' => BoundOK(peers'[p], stream'[p])
             /\ arrival'[p] = 0 => stream'[p] = {}
  <2>1. StreamStep(p) /\ (arrival[p] # 0 => arrival'[p] # 0)
    BY StreamsStep
  <2>2. arrival'[p] = 0 => p \notin connected'
    BY <1>1 DEF Pacing
  <2>. QED
    BY <2>1, <2>2 DEF StreamStep, ServerInv, Bounded
<1>3. Bounded'
  BY <1>2 DEF Bounded, BoundOK, Within, Size
<1>. QED
  BY <1>1, <1>3 DEF ServerInv
-----------------------------------------------------------------------------
(* The downloader's half: what is proved of FileDownload holds of it, once *)
(* its handlers are recognised.                                            *)
Download == INSTANCE FileDownload_proofs WITH
  MaxAttempt <- MaxRequest, MaxDone <- MaxSize, MaxFiles <- MaxRequest,
  Requested <- MaxRequest, late <- FALSE, disk <- directory

LEMMA SameFinish ==
  /\ Client!IsFinished <=> Download!IsFinished
  /\ Client!NoPath = Download!NoPath /\ Client!Path = Download!Path
  /\ Client!PathAfterFinish = Download!PathAfterFinish
  /\ Client!CompletedAfterFinish = Download!CompletedAfterFinish
  /\ Client!Delivers <=> Download!Delivers
  /\ \A p : Client!InProgress(p) <=> Download!InProgress(p)
  BY DEF Client!IsFinished, Client!Finished, Client!NoPath, Client!Path, Client!Nothing,
         Client!PathAfterFinish, Client!CompletedAfterFinish, Client!CurrentCounts,
         Client!CurrentIsComplete, Client!Delivers, Client!Late, Client!InProgress,
         Download!IsFinished, Download!Finished, Download!NoPath, Download!Path,
         Download!PathAfterFinish, Download!CompletedAfterFinish, Download!CurrentCounts,
         Download!CurrentIsComplete, Download!Delivers, Download!Late, Download!InProgress

LEMMA SameDirectory ==
  /\ \A d, p : Client!Removed(d, p) = Download!Removed(d, p)
  /\ \A d : Client!AfterFinish(d) = Download!AfterFinish(d)
  /\ \A d, f : Client!FreeAttempts(d, f) = Download!FreeAttempts(d, f)
  BY DEF Client!Removed, Client!NoPath, Client!Nothing, Client!AfterFinish,
         Client!CurrentIsComplete, Client!FreeAttempts,
         Download!Removed, Download!NoPath, Download!Nothing, Download!AfterFinish,
         Download!CurrentIsComplete, Download!FreeAttempts

LEMMA SameOpenedPath == ASSUME NEW d, NEW f PROVE Client!OpenedPath(d, f) = Download!OpenedPath(d, f)
<1>1. Client!FreeAttempts(d, f) = Download!FreeAttempts(d, f)
  BY SameDirectory
<1>. QED
  BY <1>1, Zenon DEF Client!OpenedPath, Download!OpenedPath

LEMMA SameAbort == ASSUME NEW d, NEW p PROVE Client!AbortWith(d, p) <=> Download!AbortWith(d, p)
  BY SameFinish, SameDirectory DEF Client!AbortWith, Download!AbortWith

LEMMA SameCalls ==
  /\ Client!Init <=> Download!Init
  /\ Client!Start <=> Download!Start
  /\ Client!Abort <=> Download!Abort
  /\ Client!SessionConnected <=> Download!SessionConnected
  /\ Client!SessionDisconnected <=> Download!SessionDisconnected
  /\ Client!NotifyQueued <=> Download!NotifyQueued
  /\ Client!OpenOutputFile <=> Download!OpenOutputFile
<1>1. /\ Client!Init <=> Download!Init
      /\ Client!Start <=> Download!Start
  BY DEF Client!Init, Client!NoPath, Client!Path, Client!Nothing, Client!Foreign, Client!Start,
     Download!Init, Download!NoPath, Download!Path, Download!Nothing, Download!Foreign,
     Download!Start
<1>2. Client!Abort <=> Download!Abort
  BY SameFinish, SameAbort DEF Client!Abort, Download!Abort
<1>3. /\ Client!SessionConnected <=> Download!SessionConnected
      /\ Client!NotifyQueued <=> Download!NotifyQueued
  BY SameFinish DEF Client!SessionConnected, Download!SessionConnected,
     Client!Late, Download!Late, Client!NotifyQueued, Download!NotifyQueued
<1>4. Client!SessionDisconnected <=> Download!SessionDisconnected
  BY SameFinish, SameAbort DEF Client!SessionDisconnected, Download!SessionDisconnected,
     Client!Late, Download!Late, Client!HangUp, Download!HangUp
<1>5. Client!OpenOutputFile <=> Download!OpenOutputFile
  BY SameFinish, SameAbort DEF Client!OpenOutputFile, Download!OpenOutputFile,
     Client!Ours, Download!Ours
<1>. QED
  BY <1>1, <1>2, <1>3, <1>4, <1>5

LEMMA SameMessages ==
  /\ \A f, s : Client!FileHeader(f, s) <=> Download!FileHeader(f, s)
  /\ \A n : Client!FileData(n) <=> Download!FileData(n)
<1>1. ASSUME NEW n
      PROVE  Client!FileData(n) <=> Download!FileData(n)
  BY SameFinish DEF Client!FileData, Download!FileData, Client!ReachesSize, Download!ReachesSize
<1>2. ASSUME NEW f, NEW s
      PROVE  Client!FileHeader(f, s) <=> Download!FileHeader(f, s)
  <2> DEFINE d == Client!AfterFinish(directory)
  <2>1. d = Download!AfterFinish(directory)
    BY SameDirectory
  <2>2. Client!CannotOpen(d) <=> Download!CannotOpen(d)
    BY SameFinish, SameAbort DEF Client!CannotOpen, Download!CannotOpen
  <2>3. Client!PathFound(d, f) <=> Download!PathFound(d, f)
    BY SameOpenedPath, SameDirectory DEF Client!PathFound, Download!PathFound
  <2>. HIDE DEF d
  <2>. QED
    BY <2>1, <2>2, <2>3, SameFinish DEF Client!FileHeader, Download!FileHeader, d
<1>. QED
  BY <1>1, <1>2
-----------------------------------------------------------------------------
(* The connection.  Of the request that arrived, the messages there will   *)
(* ever be; what was sent, and what was read, is a beginning of them.      *)
Whole == {s \in Stamp : s[1] = 1 /\ s[2] \in DOMAIN resolved /\ s[3] <= SizeOf(s[2])}
Beginning(S) == S \subseteq Whole /\ \A s \in S, t \in Whole : Before(t, s) => t \in S

WireOK ==
  /\ resolved \in Seq(File) /\ Len(resolved) <= MaxRequest
  /\ Me \in connected /\ peers[Me].list # 0
       => peers[Me].list = 1 /\ resolved = peers[Me].requestedFiles
  /\ read \subseteq stream[Me]
  /\ Beginning(stream[Me]) /\ Beginning(read)

LEMMA BeforeIsOrder ==
  ASSUME NEW s \in Stamp, NEW t \in Stamp
  PROVE  /\ Before(s, t) \/ Before(t, s)
         /\ s[1] = t[1] /\ Before(s, t) /\ Before(t, s) => s = t
<1>1. /\ s = <<s[1], s[2], s[3]>> /\ t = <<t[1], t[2], t[3]>>
      /\ s[2] \in Nat /\ s[3] \in Nat /\ t[2] \in Nat /\ t[3] \in Nat
  BY DEF Stamp
<1>2. Before(s, t) \/ Before(t, s)
  BY <1>1 DEF Before
<1>3. Before(s, t) /\ Before(t, s) => s[2] = t[2] /\ s[3] = t[3]
  BY <1>1 DEF Before
<1>. QED
  BY <1>1, <1>2, <1>3

(* The message to arrive next is the first of those on their way.          *)
LEMMA NextIsFirst ==
  ASSUME InFlight \subseteq Stamp, InFlight # {}
  PROVE  NextMessage \in InFlight /\ \A t \in InFlight : Before(NextMessage, t)
<1> DEFINE S == InFlight
           I == {s[2] : s \in S}
           K == {s[3] : s \in {x \in S : x[2] = Least(I)}}
<1>1. \A s \in S : s[2] \in Nat /\ s[3] \in Nat
  BY DEF Stamp
<1>. HIDE DEF S
<1>2. I \in SUBSET Nat /\ I # {}
  BY <1>1 DEF S
<1>3. Least(I) \in I /\ \A j \in I : Least(I) <= j
  BY <1>2, LeastIsLeast
<1>. DEFINE i == Least(I)
<1>. HIDE DEF I, i
<1>4. K \in SUBSET Nat /\ K # {}
  BY <1>1, <1>3 DEF I
<1>5. Least(K) \in K /\ \A j \in K : Least(K) <= j
  BY <1>4, LeastIsLeast
<1>6. PICK m \in S : m[2] = Least(I) /\ m[3] = Least(K)
  BY <1>5
<1>7. ASSUME NEW t \in S
      PROVE  Before(m, t)
  <2>1. Least(I) <= t[2] /\ Least(I) \in Nat /\ t[2] \in Nat
    BY <1>1, <1>2, <1>3 DEF I
  <2>2. t[2] = Least(I) => t[3] \in K
    OBVIOUS
  <2>3. t[2] = Least(I) => Least(K) <= t[3]
    BY <1>5, <2>2
  <2>. QED
    BY <1>6, <2>1, <2>3 DEF Before
<1>. QED
  BY <1>6, <1>7, Zenon DEF NextMessage, S

(* Of the peer's own request: what it was sent is a beginning of it.       *)
LEMMA SentBeginning ==
  ASSUME NEW r \in PeerUpload, NEW T \in SUBSET Stamp, SentOK(r, T), BoundOK(r, T),
         disk \in [File -> Gone..MaxSize], NEW s \in T, NEW t \in Stamp,
         t[1] = r.list, t[2] \in DOMAIN r.requestedFiles, t[3] <= Size(r, t[2]),
         Before(t, s)
  PROVE  t \in T
<1>1. /\ s[2] \in 1..r.nextFileIndex /\ r.nextFileIndex \in Nat
      /\ r.currentFile # NoFile /\ s[2] = r.nextFileIndex => s[3] <= r.currentFile.sent
      /\ r.currentFile.sent \in Nat /\ s[3] \in Nat /\ s[2] \in Nat
  BY DEF BoundOK, Within, PeerUpload, OpenFile, Stamp
<1>2. t[2] \in Nat /\ t[3] \in Nat /\ t = <<r.list, t[2], t[3]>>
  BY DEF Stamp
<1>3. t[2] \in 1..Len(r.requestedFiles)
  BY LenProperties DEF PeerUpload
<1>4. Size(r, t[2]) \in Int
  <2>1. r.requestedFiles[t[2]] \in File
    BY <1>3, ElementOfSeq DEF PeerUpload
  <2>. QED
    BY <2>1, UploadAssumption DEF Size, Gone
<1>5. t[2] \in 1..r.nextFileIndex /\ t[3] \in 0..Size(r, t[2])
  BY <1>1, <1>2, <1>3, <1>4 DEF Before
<1>6. CASE <<r.list, t[2], t[3]>> \in T
  BY <1>2, <1>6
<1>7. CASE r.currentFile # NoFile /\ t[2] = r.nextFileIndex /\ t[3] > r.currentFile.sent
  <2>1. s[2] = r.nextFileIndex /\ t[3] <= s[3]
    BY <1>1, <1>2, <1>7 DEF Before
  <2>. QED
    BY <1>1, <1>2, <1>7, <2>1
<1>. QED
  BY <1>5, <1>6, <1>7 DEF SentOK

LEMMA StreamIsBeginning ==
  ASSUME ServerInv, ServerInv', disk' = disk, StreamStep(Me),
         Me \in connected', peers'[Me].list = 1, resolved' = peers'[Me].requestedFiles
  PROVE  Beginning(stream[Me])'
<1> DEFINE r == peers'[Me]
           T == stream'[Me]
<1>1. r \in PeerUpload /\ T \in SUBSET Stamp
  BY TransferAssumption DEF ServerInv, TypeOK
<1>2. BoundOK(r, T)
  BY DEF StreamStep
<1>3. SentOK(r, T)
  BY TransferAssumption DEF ServerInv, Sent, SentOK, Size
<1>4. \A s : s \in Whole' <=> /\ s \in Stamp /\ s[1] = r.list /\ s[2] \in DOMAIN r.requestedFiles
                              /\ s[3] <= Size(r, s[2])
  BY DEF Whole, SizeOf, Size
<1>. HIDE DEF r, T
<1>5. ASSUME NEW s \in T
      PROVE  s \in Whole'
  <2>1. s \in Stamp /\ s[1] = r.list /\ s[2] \in 1..r.nextFileIndex /\ s[3] <= Size(r, s[2])
        /\ r.nextFileIndex <= Len(r.requestedFiles)
    BY <1>1, <1>2 DEF BoundOK, Within
  <2>2. r.nextFileIndex \in Nat /\ Len(r.requestedFiles) \in Nat
        /\ DOMAIN r.requestedFiles = 1..Len(r.requestedFiles)
    BY <1>1, LenProperties DEF PeerUpload
  <2>3. s[2] \in DOMAIN r.requestedFiles
    BY <2>1, <2>2
  <2>. QED
    BY <1>4, <2>1, <2>3
<1>6. ASSUME NEW s \in T, NEW t \in Whole', Before(t, s)
      PROVE  t \in T
  BY <1>1, <1>2, <1>3, <1>4, <1>6, SentBeginning DEF ServerInv
<1>. QED
  BY <1>5, <1>6 DEF Beginning, Before, T

LEMMA SameBeginning ==
  ASSUME resolved' = resolved, disk' = disk, NEW S, Beginning(S)
  PROVE  S \subseteq Whole' /\ \A s \in S, t \in Whole' : Before(t, s) => t \in S
<1>1. Whole' = Whole
  BY DEF Whole, SizeOf
<1>. QED
  BY <1>1 DEF Beginning

(* The server moves, and the downloader's request has not arrived or stays *)
(* what it is.                                                             *)
LEMMA WireKept ==
  ASSUME MaxLists = 1, ServerInv, WireOK, [Next]_vars, disk' = disk,
         KeepsRequest(Me), resolved' = resolved, read' = read
  PROVE  WireOK'
<1>1. ServerInv' /\ StreamStep(Me) /\ Me \in Peer
  BY ServerStep, StreamsStep, TransferAssumption
<1>2. resolved' \in Seq(File) /\ Len(resolved') <= MaxRequest
  BY DEF WireOK
<1>3. /\ peers \in [Peer -> PeerUpload] /\ peers' \in [Peer -> PeerUpload]
  BY <1>1 DEF ServerInv, TypeOK
<1>4. read' \subseteq stream'[Me]
  BY <1>1 DEF WireOK, StreamStep
<1>5. Beginning(read)'
  BY SameBeginning DEF WireOK, Beginning, Before
<1>6. CASE Me \notin connected'
  <2>1. stream'[Me] = stream[Me]
    BY <1>1, <1>6 DEF StreamStep
  <2>2. Beginning(stream[Me])'
    BY <2>1, SameBeginning DEF WireOK, Beginning, Before
  <2>. QED
    BY <1>2, <1>4, <1>5, <1>6, <2>2 DEF WireOK
<1>7. CASE Me \in connected' /\ peers'[Me].list = 0
  <2>1. peers'[Me] = NewPeer
    BY <1>1, <1>7 DEF ServerInv, Pacing, Records, RecordOK
  <2>2. stream'[Me] = {}
    <3>1. \A s \in stream'[Me] : s[2] \in 1..0
      BY <1>1, <1>7, <2>1 DEF StreamStep, BoundOK, Within, NewPeer
    <3>. QED
      BY <3>1
  <2>3. Beginning(stream[Me])'
    BY <2>2 DEF Beginning
  <2>. QED
    BY <1>2, <1>4, <1>5, <1>7, <2>3 DEF WireOK
<1>8. CASE Me \in connected' /\ peers'[Me].list # 0
  <2>1. Me \in connected /\ SameRequest(peers[Me], peers'[Me])
    BY <1>8 DEF KeepsRequest, NewPeer
  <2>2. peers'[Me].list = 1 /\ resolved' = peers'[Me].requestedFiles
    BY <1>8, <2>1 DEF SameRequest, WireOK
  <2>3. Beginning(stream[Me])'
    BY <1>1, <1>8, <2>2, StreamIsBeginning
  <2>. QED
    BY <1>2, <1>4, <1>5, <2>2, <2>3 DEF WireOK
<1>. QED
  BY <1>6, <1>7, <1>8

(* The downloader's request arrives.                                       *)
LEMMA WireAsked ==
  ASSUME MaxLists = 1, ServerInv, WireOK, asked \in Requests, RequestArrives
  PROVE  WireOK' /\ stream[Me] = {} /\ read' = {}
<1>0. Me \in Peer /\ FileList(Me, asked) /\ disk' = disk
  BY TransferAssumption DEF RequestArrives, FileList
<1>1. StreamStep(Me) /\ FileListEffect(Me)
  BY <1>0, FileListBound DEF ServerInv
<1>2. ServerInv'
  <2>1. Next
    BY <1>0 DEF Next
  <2>. QED
    BY <1>0, <2>1, ServerStep
<1>3. /\ resolved' = peers'[Me].requestedFiles /\ read' = read
      /\ stream[Me] = {} /\ read = {}
  BY <1>1 DEF RequestArrives, FileListEffect, WireOK
<1>4. Beginning(stream[Me])'
  BY <1>0, <1>1, <1>2, <1>3, StreamIsBeginning DEF FileListEffect
<1>5. Beginning(read)'
  BY <1>3 DEF Beginning
<1>. QED
  BY <1>1, <1>3, <1>4, <1>5 DEF WireOK, FileListEffect

(* A message arrives.                                                      *)
LEMMA FirstUnread ==
  ASSUME ServerInv, WireOK, InFlight # {}
  PROVE  /\ NextMessage \in Whole /\ NextMessage \in stream[Me] /\ NextMessage \notin read
         /\ \A t \in Whole : Before(t, NextMessage) => t \in read \cup {NextMessage}
         /\ \A t \in read : ~Before(NextMessage, t)
<1> DEFINE m == NextMessage
<1>1. stream[Me] \subseteq Stamp /\ InFlight \subseteq Stamp
  BY TransferAssumption DEF ServerInv, TypeOK, InFlight
<1>2. m \in InFlight /\ \A t \in InFlight : Before(m, t)
  BY <1>1, NextIsFirst
<1>. HIDE DEF m
<1>3. m \in stream[Me] /\ m \notin read /\ m \in Whole /\ m \in Stamp /\ m[1] = 1
  BY <1>1, <1>2 DEF InFlight, WireOK, Beginning, Whole
<1>4. ASSUME NEW t \in Whole, Before(t, m), t \notin read
      PROVE  t = m
  <2>1. t \in InFlight
    BY <1>3, <1>4 DEF WireOK, Beginning, InFlight
  <2>2. t \in Stamp /\ t[1] = 1
    BY DEF Whole
  <2>. QED
    BY <1>2, <1>3, <1>4, <2>1, <2>2, BeforeIsOrder
<1>5. ASSUME NEW t \in read, Before(m, t)
      PROVE  FALSE
  BY <1>3, <1>5 DEF WireOK, Beginning
<1>. QED
  BY <1>3, <1>4, <1>5 DEF m

LEMMA WireRead ==
  ASSUME ServerInv, WireOK, DataArrives
  PROVE  WireOK'
<1> DEFINE m == NextMessage
<1>1. /\ UNCHANGED <<connected, peers, stream, disk, resolved>>
      /\ read' = read \cup {m} /\ InFlight # {}
  BY DEF DataArrives, vars, peerVars
<1>2. /\ m \in Whole /\ m \in stream[Me]
      /\ \A t \in Whole : Before(t, m) => t \in read \cup {m}
  BY <1>1, FirstUnread
<1>. HIDE DEF m
<1>3. Beginning(read \cup {m})
  BY <1>2 DEF WireOK, Beginning
<1>4. Beginning(stream[Me])' /\ Beginning(read)'
  BY <1>1, <1>3, SameBeginning DEF WireOK, Beginning, Before
<1>. QED
  BY <1>1, <1>2, <1>4 DEF WireOK
-----------------------------------------------------------------------------
(* Where the download is in what it has read: it has counted, opened or    *)
(* found a path for a file of every header, the one it holds is the last,  *)
(* and of that it has written what was read; the others are whole.         *)
Headers == {i \in DOMAIN resolved : <<1, i, 0>> \in read}
Writing(i) ==
  /\ \A j \in Headers : j <= i
  /\ size = SizeOf(i) /\ done <= size /\ (size > 0 => done < size)
  /\ <<1, i, done>> \in read /\ <<1, i, done + 1>> \notin read
PositionOK ==
  link = "up" =>
    /\ completed + (IF Holding THEN 1 ELSE 0) = Cardinality(Headers)
    /\ Holding => \E i \in Headers : Writing(i)
    /\ ~Holding => \A s \in Whole : s[2] \in Headers => s \in read

(* A file of ours was announced with the length of the file the server     *)
(* shares under its name, and holds no more; so was the one to be opened.  *)
CopyOK(p) ==
  directory[p].owner = "us" =>
    /\ directory[p].size = disk[p[1]] /\ directory[p].size >= 0
    /\ directory[p].bytes <= directory[p].size
CopiesOK ==
  /\ \A p \in Download!Path : CopyOK(p)
  /\ candidate # Download!NoPath => size = disk[candidate[1]] /\ size >= 0

LEMMA HoldingMeans == Holding <=> isOpen \/ candidate # Download!NoPath
  BY DEF Holding, Client!NoPath, Download!NoPath

LEMMA HeadersInRequest ==
  ASSUME WireOK
  PROVE  /\ Headers \subseteq 1..Len(resolved) /\ Len(resolved) \in Nat
         /\ DOMAIN resolved = 1..Len(resolved)
         /\ IsFiniteSet(Headers) /\ Cardinality(Headers) \in Nat
<1>1. DOMAIN resolved = 1..Len(resolved) /\ Len(resolved) \in Nat
  BY LenProperties DEF WireOK
<1>2. Headers \subseteq 1..Len(resolved)
  BY <1>1 DEF Headers
<1>3. IsFiniteSet(1..Len(resolved))
  BY <1>1, FS_Interval
<1>4. IsFiniteSet(Headers)
  BY <1>2, <1>3, FS_Subset
<1>. QED
  BY <1>1, <1>2, <1>4, FS_CardinalityType

LEMMA WholeHasSize ==
  ASSUME ServerInv, WireOK
  PROVE  /\ \A i \in DOMAIN resolved : SizeOf(i) \in -1..MaxSize /\ SizeOf(i) \in Int
         /\ \A s \in Whole : /\ s = <<1, s[2], s[3]>> /\ s[3] \in Nat
                             /\ s[2] \in DOMAIN resolved /\ s[3] <= SizeOf(s[2])
                             /\ s[2] \in Nat
         /\ \A i \in DOMAIN resolved : \A k \in Nat : k <= SizeOf(i) => <<1, i, k>> \in Whole
<1>1. \A i \in DOMAIN resolved : resolved[i] \in File /\ i \in Nat
  BY HeadersInRequest, ElementOfSeq DEF WireOK
<1>2. \A i \in DOMAIN resolved : SizeOf(i) \in -1..MaxSize
  BY <1>1 DEF ServerInv, SizeOf, Gone
<1>. QED
  BY <1>1, <1>2, UploadAssumption DEF Whole, Stamp

(* A header arrives: the file open so far, if any, is empty or has all it  *)
(* announced, and no file was announced before at this place.              *)
LEMMA HeaderIsNext ==
  ASSUME ServerInv, WireOK, InFlight # {}, NextMessage[3] = 0
  PROVE  /\ NextMessage[2] \in (DOMAIN resolved) \ Headers
         /\ NextMessage = <<1, NextMessage[2], 0>> /\ SizeOf(NextMessage[2]) >= 0
         /\ \A j \in Headers : j < NextMessage[2]
         /\ \A s \in Whole : s[2] \in Headers => s \in read
         /\ <<1, NextMessage[2], 1>> \notin read
<1> DEFINE m == NextMessage
           i == NextMessage[2]
<1>1. /\ m \in Whole /\ m \notin read
      /\ \A t \in Whole : Before(t, m) => t \in read \cup {m}
      /\ \A t \in read : ~Before(m, t)
  BY FirstUnread
<1>2. m = <<1, i, 0>> /\ i \in DOMAIN resolved /\ i \in Nat /\ SizeOf(i) >= 0
  BY <1>1, WholeHasSize
<1>. HIDE DEF m, i
<1>3. i \notin Headers
  BY <1>1, <1>2 DEF Headers
<1>4. ASSUME NEW j \in Headers
      PROVE  j < i
  <2>1. j \in Nat /\ j # i /\ <<1, j, 0>> \in read
    BY <1>3, HeadersInRequest DEF Headers
  <2>2. ~Before(m, <<1, j, 0>>)
    BY <1>1, <2>1
  <2>. QED
    BY <1>2, <2>1, <2>2 DEF Before
<1>5. ASSUME NEW s \in Whole, s[2] \in Headers
      PROVE  s \in read
  <2>1. s[2] < i /\ s # m
    BY <1>2, <1>4, <1>5
  <2>2. Before(s, m)
    BY <1>2, <2>1 DEF Before
  <2>. QED
    BY <1>1, <2>1, <2>2
<1>6. <<1, i, 1>> \notin read
  BY <1>1, <1>2 DEF Before
<1>. QED
  BY <1>2, <1>3, <1>4, <1>5, <1>6 DEF m, i

(* A chunk arrives: it is the next one of the file that is open.           *)
LEMMA ChunkIsNext ==
  ASSUME ServerInv, WireOK, PositionOK, link = "up", done \in Nat,
         candidate = Download!NoPath, InFlight # {}, NextMessage[3] # 0
  PROVE  /\ isOpen /\ NextMessage[2] \in Headers /\ Writing(NextMessage[2])
         /\ NextMessage = <<1, NextMessage[2], done + 1>> /\ done + 1 <= size
         /\ \A s \in Whole : s[2] \in Headers /\ ~Before(NextMessage, s) => s \in read
         /\ <<1, NextMessage[2], done + 2>> \notin read
<1> DEFINE m == NextMessage
           i == NextMessage[2]
           k == NextMessage[3]
<1>1. /\ m \in Whole /\ m \notin read
      /\ \A t \in Whole : Before(t, m) => t \in read \cup {m}
      /\ \A t \in read : ~Before(m, t)
  BY FirstUnread
<1>2. /\ m = <<1, i, k>> /\ i \in DOMAIN resolved /\ i \in Nat /\ k \in Nat /\ k # 0
      /\ k <= SizeOf(i) /\ SizeOf(i) \in Int
  BY <1>1, WholeHasSize
<1>. HIDE DEF m, i, k
<1>3. i \in Headers
  <2>1. <<1, i, 0>> \in Whole /\ Before(<<1, i, 0>>, m) /\ <<1, i, 0>> # m
    BY <1>2, WholeHasSize DEF Before
  <2>. QED
    BY <1>1, <1>2, <2>1 DEF Headers
<1>4. isOpen
  BY <1>1, <1>2, <1>3, HoldingMeans DEF PositionOK
<1>5. PICK j \in Headers : Writing(j)
  BY <1>4, HoldingMeans DEF PositionOK
<1>6. i = j
  <2>1. j \in Nat /\ i <= j /\ <<1, j, 0>> \in read
    BY <1>3, <1>5, HeadersInRequest DEF Headers, Writing
  <2>2. ~Before(m, <<1, j, 0>>)
    BY <1>1, <2>1
  <2>. QED
    BY <1>2, <2>1, <2>2 DEF Before
<1>7. size = SizeOf(i) /\ <<1, i, done>> \in read /\ <<1, i, done + 1>> \notin read
  BY <1>5, <1>6 DEF Writing
<1>8. k = done + 1
  <2>1. k > done
    BY <1>1, <1>2, <1>7 DEF Before
  <2>2. <<1, i, done + 1>> \in Whole
    BY <1>2, <2>1, WholeHasSize
  <2>3. Before(<<1, i, done + 1>>, m)
    BY <1>2, <2>1 DEF Before
  <2>. QED
    BY <1>1, <1>2, <1>7, <2>2, <2>3
<1>9. ASSUME NEW s \in Whole, s[2] \in Headers, ~Before(m, s)
      PROVE  s \in read
  <2>1. m \in Stamp /\ s \in Stamp
    BY <1>1 DEF Whole
  <2>2. Before(s, m)
    BY <1>9, <2>1, BeforeIsOrder
  <2>3. s # m
    BY <1>2, <1>9 DEF Before
  <2>. QED
    BY <1>1, <2>2, <2>3
<1>10. <<1, i, done + 2>> \notin read
  BY <1>1, <1>2, <1>8 DEF Before
<1>. QED
  BY <1>2, <1>3, <1>4, <1>5, <1>6, <1>7, <1>8, <1>9, <1>10 DEF m, i, k

LEMMA BoundsOK == ASSUME asked \in Requests PROVE Download!DownloadAssumption
<1>1. PICK n \in 1..MaxRequest : asked \in [1..n -> File]
  BY DEF Requests
<1>2. MaxRequest \in Nat \ {0}
  BY <1>1, UploadAssumption
<1>. QED
  BY <1>2, UploadAssumption DEF Download!DownloadAssumption

(* Files are only taken away.                                              *)
LEMMA CopiesKept ==
  ASSUME CopiesOK, disk' = disk,
         candidate' = Download!NoPath \/ UNCHANGED <<candidate, size>>,
         \A p \in Download!Path : directory'[p] = directory[p] \/ directory'[p].owner # "us"
  PROVE  CopiesOK'
  BY DEF CopiesOK, CopyOK, Download!Path, Download!NoPath

LEMMA RemovedCopies ==
  ASSUME Download!TypeOK, CopiesOK, disk' = disk, NEW q,
         candidate' = Download!NoPath \/ UNCHANGED <<candidate, size>>,
         directory' = Download!Removed(directory, q)
  PROVE  CopiesOK'
<1>1. \A p \in Download!Path : directory'[p] = directory[p] \/ directory'[p].owner # "us"
  BY DEF Download!TypeOK, Download!Removed, Download!Nothing
<1>. QED
  BY <1>1, CopiesKept

LEMMA HeaderStep ==
  ASSUME ServerInv, asked \in Requests, Download!IInv, WireOK, PositionOK, CopiesOK,
         DataArrives, NextMessage[3] = 0
  PROVE  /\ resolved[NextMessage[2]] \in File /\ SizeOf(NextMessage[2]) \in -1..MaxSize
         /\ completed < MaxRequest
         /\ Download!Next /\ PositionOK' /\ CopiesOK'
<1>0. PICK i, f, s : i = NextMessage[2] /\ f = resolved[i] /\ s = SizeOf(i)
  OBVIOUS
<1>1. /\ link = "up" /\ InFlight # {} /\ read' = read \cup {NextMessage}
      /\ UNCHANGED <<disk, resolved>>
      /\ Download!FileHeader(f, s)
      /\ candidate = Download!NoPath /\ (Holding <=> isOpen)
  BY <1>0, SameMessages, SameFinish, HoldingMeans DEF DataArrives, vars
<1>2. /\ i \in (DOMAIN resolved) \ Headers /\ NextMessage = <<1, i, 0>> /\ s >= 0
      /\ \A j \in Headers : j < i
      /\ \A t \in Whole : t[2] \in Headers => t \in read
      /\ <<1, i, 1>> \notin read
  BY <1>0, <1>1, HeaderIsNext
<1>3. s \in -1..MaxSize /\ s \in Int /\ s = disk[f] /\ i \in Nat
  BY <1>0, <1>2, WholeHasSize, HeadersInRequest DEF SizeOf
<1>4. f \in File
  BY <1>0, <1>2, HeadersInRequest, ElementOfSeq DEF WireOK
<1>5. /\ Download!TypeOK /\ Download!OpenFileOK /\ Download!StagesOK
      /\ completed \in Nat /\ done \in Nat /\ size \in Int /\ isOpen \in BOOLEAN
  <2>1. -1..MaxSize \subseteq Int
    BY UploadAssumption
  <2>. QED
    BY <2>1 DEF Download!IInv, Download!TypeOK
<1>6. isOpen => size = 0 /\ done = 0
  <2>. SUFFICES ASSUME isOpen PROVE size = 0 /\ done = 0
    OBVIOUS
  <2>1. PICK j \in Headers : Writing(j)
    BY <1>1 DEF PositionOK
  <2>2. /\ size = SizeOf(j) /\ done <= size /\ (size > 0 => done < size)
        /\ <<1, j, done + 1>> \notin read
    BY <2>1 DEF Writing
  <2>3. ~(done + 1 <= size)
    <3>1. j \in DOMAIN resolved
      BY <2>1 DEF Headers
    <3>2. done + 1 <= size => <<1, j, done + 1>> \in Whole
      BY <1>5, <2>2, <3>1, WholeHasSize
    <3>3. <<1, j, done + 1>>[2] = j
      OBVIOUS
    <3>. QED
      BY <1>2, <2>1, <2>2, <3>2, <3>3
  <2>. QED
    BY <1>5, <2>2, <2>3
<1>7. Download!AfterFinish(directory) = directory
  BY <1>6 DEF Download!AfterFinish, Download!CurrentIsComplete
<1>8. Download!CompletedAfterFinish = Cardinality(Headers)
  <2>1. completed + (IF isOpen THEN 1 ELSE 0) = Cardinality(Headers)
    BY <1>1 DEF PositionOK
  <2>2. isOpen => Download!CompletedAfterFinish = completed + 1
    BY <1>6 DEF Download!CompletedAfterFinish, Download!CurrentCounts, Download!CurrentIsComplete
  <2>3. ~isOpen => Download!CompletedAfterFinish = completed
    BY DEF Download!CompletedAfterFinish, Download!CurrentCounts
  <2>. QED
    BY <1>5, <2>1, <2>2, <2>3
<1>9. Cardinality(Headers \cup {i}) = Cardinality(Headers) + 1
  BY <1>2, HeadersInRequest, FS_AddElement
<1>10. completed < MaxRequest
  <2>1. Headers \cup {i} \subseteq 1..Len(resolved) /\ Len(resolved) \in Nat
    BY <1>2, HeadersInRequest
  <2>2. ASSUME NEW n \in Nat
        PROVE  IsFiniteSet(1..n) /\ Cardinality(1..n) = n
    BY FS_Interval
  <2>3. Cardinality(Headers \cup {i}) <= Len(resolved)
    BY <2>1, <2>2, FS_Subset
  <2>4. completed <= Cardinality(Headers) /\ Cardinality(Headers) \in Nat
    BY <1>1, <1>5, HeadersInRequest DEF PositionOK
  <2>. QED
    BY <1>5, <1>9, <2>1, <2>3, <2>4, UploadAssumption DEF WireOK
<1>11. Download!Next
  BY <1>1, <1>3, <1>4, <1>10 DEF Download!Next, Download!MessageReceived
<1>12. CASE Download!CannotOpen(directory)
  <2>1. ~Download!IsFinished
    BY <1>1, <1>5 DEF Download!StagesOK, Download!IsFinished, Download!Finished
  <2>2. link' = "shut" /\ directory' = Download!Removed(directory, Download!PathAfterFinish)
    BY <1>1, <1>12, <2>1 DEF Download!CannotOpen, Download!AbortWith
  <2>3. CopiesOK'
    <3>1. candidate' = Download!NoPath
      BY <1>1, <1>12 DEF Download!CannotOpen
    <3>. QED
      BY <1>1, <1>5, <2>2, <3>1, RemovedCopies
  <2>. QED
    BY <1>0, <1>3, <1>4, <1>10, <1>11, <2>2, <2>3 DEF PositionOK
<1>13. CASE Download!PathFound(directory, f)
  <2>1. /\ directory' = directory /\ link' = link
        /\ candidate' = Download!OpenedPath(directory, f)
    BY <1>13 DEF Download!PathFound
  <2>2. candidate'[1] = f /\ candidate' # Download!NoPath
    BY <2>1 DEF Download!OpenedPath, Download!NoPath
  <2>3. CopiesOK'
    BY <1>1, <1>2, <1>3, <2>1, <2>2 DEF CopiesOK, CopyOK, Download!FileHeader, Download!Path
  <2>4. Headers' = Headers \cup {i}
    BY <1>1, <1>2 DEF Headers
  <2>5. size' = s /\ done' = 0 /\ completed' = Cardinality(Headers)
    BY <1>1, <1>8 DEF Download!FileHeader
  <2>6. Writing(i)'
    <3>1. \A j \in Headers' : j <= i
      BY <1>2, <1>3, <2>4, HeadersInRequest
    <3>2. SizeOf(i)' = s
      BY <1>0, <1>1 DEF SizeOf
    <3>3. <<1, i, 0>> \in read' /\ <<1, i, 1>> \notin read'
      BY <1>1, <1>2
    <3>. QED
      BY <1>2, <1>3, <2>5, <3>1, <3>2, <3>3 DEF Writing
  <2>7. PositionOK'
    <3>1. i \in Headers'
      BY <2>4
    <3>2. completed' + 1 = Cardinality(Headers')
      BY <1>9, <2>4, <2>5
    <3>3. Holding'
      BY <2>2 DEF Holding, Client!NoPath, Download!NoPath
    <3>. QED
      BY <2>1, <2>6, <3>1, <3>2, <3>3 DEF PositionOK
  <2>. QED
    BY <1>0, <1>3, <1>4, <1>10, <1>11, <2>3, <2>7
<1>. QED
  BY <1>0, <1>1, <1>3, <1>4, <1>7, <1>10, <1>12, <1>13 DEF Download!FileHeader

LEMMA ChunkStep ==
  ASSUME ServerInv, asked \in Requests, Download!IInv, WireOK, PositionOK, CopiesOK,
         DataArrives, NextMessage[3] # 0
  PROVE  /\ isOpen /\ 1 \in 1..MaxSize
         /\ Download!Next /\ PositionOK' /\ CopiesOK'
<1>0. PICK i, m : i = NextMessage[2] /\ m = NextMessage
  OBVIOUS
<1>1. /\ Download!TypeOK /\ Download!OpenFileOK
      /\ completed \in Nat /\ done \in Nat /\ size \in Int /\ size <= MaxSize
      /\ isOpen \in BOOLEAN
  <2>1. -1..MaxSize \subseteq Int
    BY UploadAssumption
  <2>. QED
    BY <2>1, UploadAssumption DEF Download!IInv, Download!TypeOK
<1>2. /\ link = "up" /\ InFlight # {} /\ read' = read \cup {m}
      /\ UNCHANGED <<disk, resolved>>
      /\ candidate = Download!NoPath
  BY <1>0, SameFinish DEF DataArrives, vars
<1>3. /\ isOpen /\ i \in Headers /\ Writing(i) /\ m = <<1, i, done + 1>> /\ done + 1 <= size
      /\ \A t \in Whole : t[2] \in Headers /\ ~Before(m, t) => t \in read
      /\ <<1, i, done + 2>> \notin read
  BY <1>0, <1>1, <1>2, ChunkIsNext
<1>4. Download!FileData(1) /\ candidate' = Download!NoPath
  BY <1>2, <1>3, SameMessages DEF DataArrives, Download!FileData
<1>5. Download!Next /\ 1 \in 1..MaxSize
  <2>1. 1 \in 1..MaxSize
    BY <1>1, <1>3, UploadAssumption
  <2>. QED
    BY <1>4, <2>1 DEF Download!Next, Download!MessageReceived
<1>6. Headers' = Headers
  <2>1. \A j : <<1, j, 0>> # m
    BY <1>1, <1>3
  <2>. QED
    BY <1>2, <2>1 DEF Headers
<1>7. CopiesOK'
  <2>1. /\ path \in Download!Path
        /\ \A p \in Download!Path \ {path} : directory'[p] = directory[p]
        /\ directory'[path].size = size /\ directory'[path].bytes = done + 1
    <3>1. directory' = [directory EXCEPT ![path].bytes = @ + 1]
      BY <1>4 DEF Download!FileData
    <3>. QED
      BY <1>1, <1>3, <3>1, BoundsOK, Download!WrittenEffect
  <2>2. size = disk[path[1]] /\ size >= 0
    BY <1>1, <1>3, <2>1 DEF CopiesOK, CopyOK, Download!OpenFileOK
  <2>3. ASSUME NEW p \in Download!Path, directory'[p].owner = "us"
        PROVE  /\ directory'[p].size = disk'[p[1]] /\ directory'[p].size >= 0
               /\ directory'[p].bytes <= directory'[p].size
    <3>1. CASE p = path
      BY <1>2, <1>3, <2>1, <2>2, <3>1
    <3>2. CASE p # path
      BY <1>2, <2>1, <2>3, <3>2 DEF CopiesOK, CopyOK
    <3>. QED
      BY <3>1, <3>2
  <2>. QED
    BY <1>4, <2>3 DEF CopiesOK, CopyOK, Download!Path, Download!NoPath
<1>8. completed + 1 = Cardinality(Headers) /\ (Holding' <=> isOpen')
  BY <1>2, <1>3, <1>4, HoldingMeans DEF PositionOK, Holding, Client!NoPath, Download!NoPath
<1>9. CASE done + 1 >= size
  <2>1. isOpen' = FALSE /\ completed' = completed + 1 /\ link' = link
    <3>1. Download!ReachesSize(1)
      BY <1>1, <1>3, <1>9 DEF Download!ReachesSize
    <3>. QED
      BY <1>4, <3>1 DEF Download!FileData
  <2>2. size = SizeOf(i) /\ \A j \in Headers : j <= i /\ i \in Nat /\ j \in Nat
    BY <1>3, HeadersInRequest DEF Writing
  <2>3. ASSUME NEW t \in Whole, t[2] \in Headers, Before(m, t)
        PROVE  t = m
    <3>1. t = <<1, t[2], t[3]>> /\ t[3] \in Nat /\ t[3] <= SizeOf(t[2]) /\ t[2] \in Nat
      BY WholeHasSize
    <3>2. t[2] <= i
      BY <2>2, <2>3
    <3>3. t[2] = i /\ done + 1 <= t[3]
      BY <1>1, <1>3, <2>2, <2>3, <3>1, <3>2 DEF Before
    <3>4. t[3] = done + 1
      BY <1>1, <1>9, <2>2, <3>1, <3>3
    <3>. QED
      BY <1>3, <3>1, <3>3, <3>4
  <2>4. Whole' = Whole
    BY <1>2 DEF Whole, SizeOf
  <2>5. \A t \in Whole' : t[2] \in Headers' => t \in read'
    BY <1>2, <1>3, <1>6, <2>3, <2>4
  <2>6. PositionOK'
    BY <1>1, <1>6, <1>8, <2>1, <2>5 DEF PositionOK
  <2>. QED
    BY <1>3, <1>5, <1>7, <2>6
<1>10. CASE done + 1 < size
  <2>1. isOpen' = isOpen /\ completed' = completed /\ link' = link /\ size' = size
        /\ done' = done + 1
    <3>1. ~Download!ReachesSize(1)
      BY <1>1, <1>10 DEF Download!ReachesSize
    <3>. QED
      BY <1>4, <3>1 DEF Download!FileData
  <2>2. /\ <<1, i, done'>> \in read' /\ done' + 1 = done + 2
        /\ <<1, i, done + 2>> # m
    BY <1>1, <1>2, <1>3, <2>1
  <2>3. SizeOf(i)' = SizeOf(i)
    BY <1>2 DEF SizeOf
  <2>4. Writing(i)'
    BY <1>1, <1>2, <1>3, <1>6, <1>10, <2>1, <2>2, <2>3 DEF Writing
  <2>5. PositionOK'
    BY <1>1, <1>3, <1>6, <1>8, <2>1, <2>4 DEF PositionOK
  <2>. QED
    BY <1>3, <1>5, <1>7, <2>5
<1>. QED
  BY <1>1, <1>3, <1>5, <1>9, <1>10

(* Nothing is read and nothing written.                                    *)
LEMMA PositionKept ==
  ASSUME PositionOK, CopiesOK, link' = "up" => link = "up",
         UNCHANGED <<isOpen, size, done, completed, candidate, directory, resolved, read, disk>>
  PROVE  PositionOK' /\ CopiesOK'
<1>1. Headers' = Headers /\ Whole' = Whole /\ \A i : SizeOf(i)' = SizeOf(i)
  BY DEF Headers, Whole, SizeOf
<1>2. \A i : Writing(i)' <=> Writing(i)
  BY <1>1 DEF Writing
<1>3. PositionOK'
  BY <1>1, <1>2 DEF PositionOK, Holding, Client!NoPath
<1>. QED
  BY <1>3, CopiesKept

(* Nothing has been read yet, and no file is open.                         *)
LEMMA PositionAtStart ==
  ASSUME read' = {}, completed' = 0, isOpen' = FALSE, candidate' = Download!NoPath
  PROVE  PositionOK'
<1>1. Headers' = {}
  BY DEF Headers
<1>. QED
  BY <1>1, FS_EmptySet DEF PositionOK, Holding, Client!NoPath, Download!NoPath
-----------------------------------------------------------------------------
(* The inductive invariant of a transfer.                                  *)
TransferInv ==
  /\ ServerInv /\ Download!IInv
  /\ asked \in Requests
  /\ WireOK /\ PositionOK /\ CopiesOK

LEMMA TransferStart == TransferInit => TransferInv
<1>. SUFFICES ASSUME TransferInit PROVE TransferInv
  OBVIOUS
<1>1. Init /\ Download!Init /\ asked \in Requests
  BY SameCalls DEF TransferInit
<1>2. ServerInv
  BY <1>1, ServerInit
<1>3. Download!IInv
  BY <1>1, BoundsOK, Download!InitInv
<1>4. resolved = <<>> /\ read = {} /\ connected = {} /\ stream[Me] = {}
  BY TransferAssumption DEF TransferInit, Init
<1>5. resolved \in Seq(File) /\ Len(resolved) <= MaxRequest
  BY <1>4, UploadAssumption
<1>6. WireOK
  BY <1>4, <1>5 DEF WireOK, Beginning
<1>7. PositionOK /\ CopiesOK
  BY <1>1 DEF Download!Init, PositionOK, CopiesOK, CopyOK, Download!Nothing, Download!Foreign
<1>. QED
  BY <1>1, <1>2, <1>3, <1>6, <1>7 DEF TransferInv

(* The server moves, and the downloader notices nothing of it yet.         *)
LEMMA ServerMoves ==
  ASSUME MaxLists = 1, TransferInv, [Next]_vars, disk' = disk, KeepsRequest(Me), ServerAlone
  PROVE  TransferInv'
<1>1. UNCHANGED Download!vars /\ resolved' = resolved /\ read' = read /\ asked' = asked
      /\ UNCHANGED <<link, isOpen, size, done, completed, candidate, directory>>
  BY DEF ServerAlone, client, wire, Download!vars
<1>2. ServerInv' /\ WireOK'
  BY <1>1, ServerStep, WireKept DEF TransferInv
<1>3. Download!IInv'
  BY <1>1, BoundsOK, Download!InvStep DEF TransferInv
<1>4. PositionOK' /\ CopiesOK'
  BY <1>1, PositionKept DEF TransferInv
<1>. QED
  BY <1>1, <1>2, <1>3, <1>4 DEF TransferInv

(* The downloader moves, having read nothing.                              *)
LEMMA ClientMoves ==
  ASSUME MaxLists = 1, TransferInv, Download!Next \/ UNCHANGED Download!vars,
         UNCHANGED <<vars, asked, resolved, read>>, PositionOK', CopiesOK'
  PROVE  TransferInv'
<1>1. KeepsRequest(Me) /\ disk' = disk /\ [Next]_vars
  BY TransferAssumption DEF vars, peerVars, KeepsRequest, SameRequest
<1>2. ServerInv' /\ WireOK'
  BY <1>1, ServerStep, WireKept DEF TransferInv
<1>3. Download!IInv'
  BY BoundsOK, Download!InvStep DEF TransferInv
<1>. QED
  BY <1>2, <1>3 DEF TransferInv

(* The session ends.                                                       *)
LEMMA DownloadStops ==
  ASSUME MaxLists = 1, TransferInv, UNCHANGED <<vars, asked, resolved, read>>,
         \/ Download!Abort
         \/ link \in {"connecting", "up"} /\ Download!SessionDisconnected
  PROVE  TransferInv'
<1>1. Download!Next
  BY DEF Download!Next, Download!Abort, Download!SessionDisconnected
<1>2. link' = "shut"
  <2>1. CASE Download!Abort
    BY <2>1 DEF Download!Abort, Download!AbortWith
  <2>2. CASE link \in {"connecting", "up"} /\ Download!SessionDisconnected
    BY <2>2 DEF Download!SessionDisconnected, Download!HangUp, Download!AbortWith
  <2>. QED
    BY <2>1, <2>2
<1>3. /\ directory' = directory \/ directory' = Download!Removed(directory, path)
      /\ UNCHANGED <<candidate, size>>
  BY DEF Download!Abort, Download!SessionDisconnected, Download!HangUp, Download!AbortWith
<1>4. CopiesOK /\ Download!TypeOK /\ disk' = disk
  BY DEF TransferInv, Download!IInv, vars
<1>5. CopiesOK'
  BY <1>3, <1>4, CopiesKept, RemovedCopies
<1>. QED
  BY <1>1, <1>2, <1>5, ClientMoves DEF PositionOK

LEMMA ConnectStep == ASSUME MaxLists = 1, TransferInv, Connect PROVE TransferInv'
<1>1. /\ Download!SessionConnected /\ SessionAccepted(Me) /\ Me \in Peer
      /\ UNCHANGED <<asked, resolved, read>>
  BY SameCalls, TransferAssumption DEF Connect, wire
<1>2. arrival[Me] = 0 /\ disk' = disk /\ Next
  BY <1>1 DEF SessionAccepted, Next
<1>3. KeepsRequest(Me)
  BY <1>1, <1>2, AcceptedBound DEF TransferInv, ServerInv, Pacing
<1>4. ServerInv' /\ WireOK'
  BY <1>1, <1>2, <1>3, ServerStep, WireKept DEF TransferInv
<1>5. Download!Next
  BY <1>1 DEF Download!Next, Download!SessionConnected
<1>6. Download!IInv'
  BY <1>5, BoundsOK, Download!InvStep DEF TransferInv
<1>7. read' = {}
  BY <1>1, <1>2 DEF TransferInv, ServerInv, Bounded, WireOK
<1>8. /\ link = "connecting" /\ UNCHANGED <<isOpen, completed, candidate, directory>>
      /\ candidate = Download!NoPath
  BY <1>1 DEF Download!SessionConnected, Download!Late
<1>9. completed' = 0 /\ isOpen' = FALSE
  BY <1>8 DEF TransferInv, Download!IInv, Download!StagesOK, Download!OpenFileOK, Download!TypeOK
<1>10. PositionOK' /\ CopiesOK'
  BY <1>2, <1>7, <1>8, <1>9, PositionAtStart, CopiesKept DEF TransferInv
<1>. QED
  BY <1>1, <1>4, <1>6, <1>10 DEF TransferInv

(* The file is opened, or it is not and the session ends.                  *)
LEMMA OpenStep == ASSUME MaxLists = 1, TransferInv, FileOpens PROVE TransferInv'
<1>1. /\ Download!OpenOutputFile /\ UNCHANGED <<vars, asked, resolved, read>>
      /\ disk' = disk
  BY SameCalls DEF FileOpens, ClientAlone, wire, vars
<1>2. Download!Next
  BY <1>1 DEF Download!Next, Download!OpenOutputFile
<1>3. /\ candidate # Download!NoPath /\ candidate' = Download!NoPath
      /\ UNCHANGED <<size, done, completed>>
  BY <1>1 DEF Download!OpenOutputFile
<1>4. Download!TypeOK /\ Download!StagesOK /\ PositionOK /\ CopiesOK
  BY DEF TransferInv, Download!IInv
<1>5. link = "up" /\ ~Download!IsFinished
  BY <1>3, <1>4
  DEF TransferInv, Download!IInv, Download!CandidateOK, Download!StagesOK,
      Download!IsFinished, Download!Finished
<1>6. CASE Download!AbortWith(directory, path)
  <2>1. link' = "shut" /\ directory' = Download!Removed(directory, path)
    BY <1>5, <1>6 DEF Download!AbortWith
  <2>2. CopiesOK'
    BY <1>1, <1>3, <1>4, <2>1, RemovedCopies
  <2>. QED
    BY <1>1, <1>2, <2>1, <2>2, ClientMoves DEF PositionOK
<1>7. CASE /\ directory' = [directory EXCEPT ![candidate] = Download!Ours(size, 0)]
           /\ isOpen' = TRUE /\ link' = link
  <2>1. candidate \in Download!Path
    BY <1>3, <1>4 DEF Download!TypeOK
  <2>2. /\ \A p \in Download!Path \ {candidate} : directory'[p] = directory[p]
        /\ directory'[candidate].size = size /\ directory'[candidate].bytes = 0
    BY <1>4, <1>7, <2>1 DEF Download!TypeOK, Download!Ours
  <2>3. size = disk[candidate[1]] /\ size >= 0
    BY <1>3, <1>4 DEF CopiesOK
  <2>4. ASSUME NEW p \in Download!Path
        PROVE  CopyOK(p)'
    <3>1. CASE p = candidate
      BY <1>1, <2>2, <2>3, <3>1 DEF CopyOK
    <3>2. CASE p # candidate
      BY <1>1, <1>4, <2>2, <3>2 DEF CopiesOK, CopyOK
    <3>. QED
      BY <3>1, <3>2
  <2>5. CopiesOK'
    BY <1>3, <2>4 DEF CopiesOK, Download!Path, Download!NoPath
  <2>6. Headers' = Headers /\ Whole' = Whole /\ \A i : SizeOf(i)' = SizeOf(i)
    BY <1>1 DEF Headers, Whole, SizeOf
  <2>7. \A i : Writing(i)' <=> Writing(i)
    BY <1>1, <1>3, <2>6 DEF Writing
  <2>8. Holding /\ Holding'
    BY <1>3, <1>7, HoldingMeans DEF Holding
  <2>9. PositionOK'
    BY <1>3, <1>4, <1>5, <1>7, <2>6, <2>7, <2>8 DEF PositionOK
  <2>. QED
    BY <1>1, <1>2, <2>5, <2>9, ClientMoves
<1>. QED
  BY <1>1, <1>6, <1>7 DEF Download!OpenOutputFile

LEMMA RequestStep == ASSUME MaxLists = 1, TransferInv, RequestArrives PROVE TransferInv'
<1>1. /\ FileList(Me, asked) /\ Me \in Peer /\ asked \in Requests
      /\ UNCHANGED <<client, read, asked>>
  BY TransferAssumption DEF RequestArrives, TransferInv
<1>2. Next /\ disk' = disk
  BY <1>1 DEF Next, FileList
<1>3. ServerInv'
  BY <1>2, ServerStep DEF TransferInv
<1>4. WireOK' /\ read = {} /\ read' = {}
  BY <1>1, WireAsked DEF TransferInv
<1>5. /\ UNCHANGED Download!vars
      /\ UNCHANGED <<link, isOpen, size, completed, candidate, directory>>
  BY <1>1 DEF client, Download!vars
<1>6. Download!IInv'
  BY <1>5, BoundsOK, Download!InvStep DEF TransferInv
<1>7. PositionOK'
  <2>1. CASE link = "up"
    <3>1. Headers = {}
      BY <1>4 DEF Headers
    <3>2. ~isOpen /\ candidate = Download!NoPath /\ completed + 0 = 0
      BY <2>1, <3>1, FS_EmptySet, HoldingMeans DEF TransferInv, PositionOK
    <3>3. completed \in Nat /\ isOpen \in BOOLEAN
      BY DEF TransferInv, Download!IInv, Download!TypeOK
    <3>4. completed' = 0 /\ isOpen' = FALSE /\ candidate' = Download!NoPath
      BY <1>5, <3>2, <3>3
    <3>. QED
      BY <1>4, <3>4, PositionAtStart
  <2>2. CASE link # "up"
    BY <1>5, <2>2 DEF PositionOK
  <2>. QED
    BY <2>1, <2>2
<1>8. CopiesOK'
  BY <1>2, <1>5, CopiesKept DEF TransferInv
<1>. QED
  BY <1>1, <1>3, <1>4, <1>6, <1>7, <1>8 DEF TransferInv

LEMMA DataStep == ASSUME MaxLists = 1, TransferInv, DataArrives PROVE TransferInv'
<1>1. UNCHANGED vars /\ asked' = asked /\ disk' = disk
  BY DEF DataArrives, vars
<1>2. Download!Next /\ PositionOK' /\ CopiesOK'
  BY HeaderStep, ChunkStep DEF TransferInv
<1>3. ServerInv' /\ WireOK'
  BY <1>1, ServerStep, WireRead DEF TransferInv
<1>4. Download!IInv'
  BY <1>2, BoundsOK, Download!InvStep DEF TransferInv
<1>. QED
  BY <1>1, <1>2, <1>3, <1>4 DEF TransferInv

(* Every step of a transfer is a step of the server, or none of it.        *)
LEMMA ServerSide ==
  ASSUME asked \in Requests, TransferNext
  PROVE  [Next]_vars /\ disk' = disk
<1>. USE DEF ServerAlone, ClientAlone
<1>1. CASE StartSharing \/ StopSharing
  BY <1>1 DEF StartSharing, StopSharing, StartListening, StopListening, DropEverybody,
     SetSharedFiles, Next
<1>2. CASE QueueDrains
  BY <1>2 DEF QueueDrains, OutputQueuesDrained, Next
<1>3. ASSUME NEW p \in Peer, OtherPeer(p)
      PROVE  [Next]_vars /\ disk' = disk
  <2>1. disk' = disk
    BY <1>3 DEF OtherPeer, SessionAccepted, FileList, SessionDetached
  <2>2. Next
    BY <1>3 DEF OtherPeer, Next
  <2>. QED
    BY <2>1, <2>2
<1>4. CASE StartDownload \/ CancelDownload \/ FileOpens \/ ConnectionRefused
           \/ QueuedArrives \/ DataArrives \/ ServerHungUp
  BY <1>4 DEF StartDownload, CancelDownload, FileOpens, ConnectionRefused, QueuedArrives, DataArrives,
     ServerHungUp, vars
<1>5. CASE Connect \/ ClientHungUp
  <2>1. SessionAccepted(Me) \/ SessionDetached(Me)
    BY <1>5 DEF Connect, ClientHungUp
  <2>. QED
    BY <2>1, TransferAssumption DEF SessionAccepted, SessionDetached, Next
<1>6. CASE RequestArrives
  BY <1>6, TransferAssumption DEF RequestArrives, FileList, Next
<1>. QED
  BY <1>1, <1>2, <1>3, <1>4, <1>5, <1>6 DEF TransferNext

LEMMA TransferStep ==
  ASSUME MaxLists = 1, TransferInv, TransferNext
  PROVE  TransferInv'
<1>0. [Next]_vars /\ disk' = disk /\ Me \in Peer
  BY ServerSide, TransferAssumption DEF TransferInv
<1>. USE DEF ServerAlone, ClientAlone, wire
<1>1. CASE StartSharing \/ StopSharing
  <2>1. ServerAlone /\ stream' = stream /\ connected' \subseteq connected
        /\ (Me \in connected' => peers'[Me] = peers[Me])
    BY <1>1 DEF StartSharing, StopSharing, StartListening, StopListening, DropEverybody,
       SetSharedFiles, peerVars
  <2>2. KeepsRequest(Me)
    BY <1>0, <2>1, QuietBound DEF TransferInv, ServerInv
  <2>. QED
    BY <1>0, <2>1, <2>2, ServerMoves
<1>2. CASE QueueDrains
  <2>1. PICK q \in Peer : OutputQueuesDrained(q)
    BY <1>2 DEF QueueDrains
  <2>2. KeepsRequest(Me)
    BY <1>0, <2>1, DrainedBound DEF TransferInv, ServerInv
  <2>3. ServerAlone
    BY <1>2 DEF QueueDrains
  <2>. QED
    BY <1>0, <2>2, <2>3, ServerMoves
<1>3. ASSUME NEW q \in Peer \ {Me}, OtherPeer(q)
      PROVE  TransferInv'
  <2>1. TypeOK /\ Pacing /\ Bounded /\ (arrival[Me] = 0 => Me \notin connected)
    BY <1>0 DEF TransferInv, ServerInv, Pacing
  <2>2. ASSUME SessionAccepted(q) PROVE KeepsRequest(Me)
    BY <1>0, <2>1, <2>2, AcceptedBound
  <2>3. ASSUME \E names \in Requests : FileList(q, names) PROVE KeepsRequest(Me)
    BY <1>0, <2>1, <2>3, FileListBound
  <2>4. ASSUME SessionDetached(q) PROVE KeepsRequest(Me)
    BY <1>0, <2>1, <2>4, DetachedBound
  <2>5. KeepsRequest(Me) /\ ServerAlone
    BY <1>3, <2>2, <2>3, <2>4 DEF OtherPeer
  <2>. QED
    BY <1>0, <2>5, ServerMoves
<1>4. CASE StartDownload
  <2>1. Download!Start /\ UNCHANGED <<vars, asked, resolved, read>>
    BY <1>4, SameCalls DEF StartDownload
  <2>2. Download!Next
    BY <2>1 DEF Download!Next, Download!Start
  <2>3. link' # "up" /\ UNCHANGED <<directory, candidate, size>>
    BY <2>1 DEF Download!Start
  <2>4. CopiesOK'
    BY <1>0, <2>3, CopiesKept DEF TransferInv
  <2>. QED
    BY <2>1, <2>2, <2>3, <2>4, ClientMoves DEF PositionOK
<1>5. CASE CancelDownload
  BY <1>5, SameCalls, DownloadStops DEF CancelDownload
<1>6. CASE ConnectionRefused \/ ServerHungUp
  BY <1>6, SameCalls, DownloadStops DEF ConnectionRefused, ServerHungUp
<1>7. CASE QueuedArrives
  <2>1. Download!NotifyQueued /\ UNCHANGED <<vars, asked, resolved, read>>
    BY <1>7, SameCalls DEF QueuedArrives
  <2>2. Download!Next
    BY <2>1 DEF Download!Next, Download!MessageReceived, Download!NotifyQueued
  <2>3. PositionOK' /\ CopiesOK'
    BY <1>0, <2>1, PositionKept DEF Download!NotifyQueued, TransferInv
  <2>. QED
    BY <2>1, <2>2, <2>3, ClientMoves
<1>8. CASE ClientHungUp
  <2>1. KeepsRequest(Me) /\ ServerAlone
    BY <1>0, <1>8, DetachedBound DEF ClientHungUp, TransferInv, ServerInv
  <2>. QED
    BY <1>0, <2>1, ServerMoves
<1>. QED
  BY <1>1, <1>2, <1>3, <1>4, <1>5, <1>6, <1>7, <1>8, ConnectStep, OpenStep, RequestStep, DataStep
  DEF TransferNext

LEMMA TransferInvariant == ASSUME MaxLists = 1 PROVE TransferSpec => []TransferInv
<1>1. TransferInv /\ [TransferNext]_transferVars => TransferInv'
  <2>1. ASSUME TransferInv, UNCHANGED transferVars
        PROVE  TransferInv'
    <3>1. UNCHANGED <<vars, asked, resolved, read>> /\ UNCHANGED client
      BY <2>1 DEF transferVars, wire
    <3>2. UNCHANGED Download!vars /\ disk' = disk
      BY <3>1 DEF client, Download!vars, vars
    <3>3. PositionOK' /\ CopiesOK'
      BY <2>1, <3>1, <3>2, PositionKept DEF TransferInv, client
    <3>. QED
      BY <2>1, <3>1, <3>2, <3>3, ClientMoves
  <2>. QED
    BY <2>1, TransferStep
<1>. QED
  BY <1>1, TransferStart, PTL DEF TransferSpec

(* Whatever was asked for, whatever the slots did and whoever left, a file *)
(* that the download keeps has the length of the file the server shares    *)
(* (_SendNextChunk of FileUploadServer.cpp, _HandleFileData and Abort of   *)
(* FileDownload.cpp), for any number of peers, files and chunks, when each *)
(* peer asks once.                                                         *)
THEOREM CopiesAreExact == ASSUME MaxLists = 1 PROVE TransferSpec => []ExactCopies
<1>1. TransferInv => ExactCopies
  <2>. SUFFICES ASSUME TransferInv, NEW p \in Closed
                PROVE  directory[p].bytes = disk[p[1]]
    BY DEF ExactCopies
  <2>1. p \in Download!Path /\ directory[p].owner = "us" /\ ~Download!InProgress(p)
    BY SameFinish DEF Closed
  <2>2. Download!Complete(directory[p]) /\ directory[p] \in Download!Entry
    BY <2>1 DEF TransferInv, Download!IInv, Download!NoPartialFiles, Download!TypeOK
  <2>3. /\ directory[p].size = disk[p[1]] /\ directory[p].size >= 0
        /\ directory[p].bytes <= directory[p].size
    BY <2>1 DEF TransferInv, CopiesOK, CopyOK
  <2>4. directory[p].bytes \in Nat /\ directory[p].size \in Int
    BY <2>2 DEF Download!Entry
  <2>. QED
    BY <2>2, <2>3, <2>4 DEF Download!Complete
<1>. QED
  BY <1>1, TransferInvariant, PTL

(* When all the server will send has been read, every file it could open   *)
(* is kept and counted, except an empty one that came last: no wake-up was *)
(* lost, no chunk left out and none counted twice on the way.              *)
THEOREM AllServedAreCounted == ASSUME MaxLists = 1 PROVE TransferSpec => []AllServedAreKept
<1>1. TransferInv => AllServedAreKept
  <2>. SUFFICES ASSUME TransferInv, AllRead, link = "up"
                PROVE  /\ completed + (IF Holding THEN 1 ELSE 0) = Cardinality(Servable)
                       /\ Holding => size = 0
    BY DEF AllServedAreKept
  <2>1. ServerInv /\ WireOK /\ PositionOK
    BY DEF TransferInv
  <2>2. /\ \A i \in DOMAIN resolved : SizeOf(i) \in -1..MaxSize /\ SizeOf(i) \in Int
        /\ \A s \in Whole : s[2] \in DOMAIN resolved /\ s[3] <= SizeOf(s[2])
    BY <2>1, WholeHasSize
  <2>3. \A i \in DOMAIN resolved : i \in Headers <=> SizeOf(i) >= 0
    <3>1. ASSUME NEW i \in Headers
          PROVE  SizeOf(i) >= 0
      <4>1. <<1, i, 0>> \in Whole
        BY <2>1 DEF Headers, WireOK, Beginning
      <4>. QED
        BY <2>2, <4>1
    <3>2. ASSUME NEW i \in DOMAIN resolved, SizeOf(i) >= 0
          PROVE  i \in Headers
      <4>1. i \in Servable /\ 0 \in 0..MaxSize /\ 0 <= SizeOf(i)
        BY <2>2, <3>2, UploadAssumption DEF Servable
      <4>. QED
        BY <4>1 DEF AllRead, Headers
    <3>. QED
      BY <3>1, <3>2
  <2>4. Servable = Headers
    BY <2>3 DEF Servable, Headers
  <2>5. Holding => size = 0
    <3>. SUFFICES ASSUME Holding PROVE size = 0
      OBVIOUS
    <3>1. PICK i \in Headers : Writing(i)
      BY <2>1 DEF PositionOK
    <3>2. /\ size = SizeOf(i) /\ (size > 0 => done < size)
          /\ <<1, i, done + 1>> \notin read /\ i \in DOMAIN resolved
      BY <3>1 DEF Writing, Headers
    <3>3. size \in -1..MaxSize /\ size >= 0 /\ done \in Nat
      BY <2>2, <2>3, <3>1, <3>2 DEF TransferInv, Download!IInv, Download!TypeOK
    <3>4. size > 0 => done + 1 \in 0..MaxSize /\ done + 1 <= SizeOf(i)
      BY <3>2, <3>3, UploadAssumption
    <3>5. size > 0 => <<1, i, done + 1>> \in read
      BY <2>4, <3>1, <3>4 DEF AllRead
    <3>. QED
      BY <3>2, <3>3, <3>5
  <2>. QED
    BY <2>1, <2>4, <2>5 DEF PositionOK
<1>. QED
  BY <1>1, TransferInvariant, PTL
-----------------------------------------------------------------------------
(* Each end, seen alone, is the component it is: the other end and the     *)
(* network only choose among the steps the component's own module allows,  *)
(* so that what is proved of the component holds of every transfer.        *)

LEMMA ClientSide ==
  ASSUME TransferInv, TransferNext
  PROVE  Client!Next \/ UNCHANGED client
<1>. USE DEF ServerAlone, ClientAlone
<1>1. CASE StartSharing \/ StopSharing \/ QueueDrains \/ RequestArrives \/ ClientHungUp
           \/ \E p \in Peer \ {Me} : OtherPeer(p)
  BY <1>1 DEF StartSharing, StopSharing, QueueDrains, RequestArrives, ClientHungUp, OtherPeer
<1>2. CASE StartDownload \/ CancelDownload \/ FileOpens \/ Connect \/ ConnectionRefused
           \/ ServerHungUp
  BY <1>2 DEF StartDownload, CancelDownload, FileOpens, Connect, ConnectionRefused,
     ServerHungUp, Client!Next
<1>3. CASE QueuedArrives
  BY <1>3 DEF QueuedArrives, Client!Next, Client!MessageReceived
<1>4. CASE DataArrives /\ NextMessage[3] = 0
  <2>1. /\ resolved[NextMessage[2]] \in File /\ SizeOf(NextMessage[2]) \in -1..MaxSize
        /\ completed < MaxRequest
    BY <1>4, HeaderStep DEF TransferInv
  <2>2. Client!FileHeader(resolved[NextMessage[2]], SizeOf(NextMessage[2]))
    BY <1>4 DEF DataArrives
  <2>. QED
    BY <2>1, <2>2 DEF Client!Next, Client!MessageReceived
<1>5. CASE DataArrives /\ NextMessage[3] # 0
  <2>1. isOpen /\ 1 \in 1..MaxSize
    BY <1>5, ChunkStep DEF TransferInv
  <2>2. Client!FileData(1)
    BY <1>5, <2>1 DEF DataArrives
  <2>. QED
    BY <2>1, <2>2 DEF Client!Next, Client!MessageReceived
<1>. QED
  BY <1>1, <1>2, <1>3, <1>4, <1>5 DEF TransferNext

(* A transfer is a behaviour of the server (FileUploadServer.cpp), with    *)
(* one peer among the others that happens to be a HiTuxShare.              *)
THEOREM ServesAsAlways == TransferSpec => Spec
<1>1. TransferInit => Init /\ asked \in Requests
  BY DEF TransferInit
<1>2. [TransferNext]_transferVars => asked' = asked
  BY DEF TransferNext, transferVars, StartSharing, StopSharing, QueueDrains, OtherPeer,
     StartDownload, CancelDownload, FileOpens, Connect, ConnectionRefused, RequestArrives,
     QueuedArrives, DataArrives, ServerHungUp, ClientHungUp, ServerAlone, ClientAlone
<1>3. asked \in Requests /\ [TransferNext]_transferVars => (asked \in Requests)' /\ [Next]_vars
  BY <1>2, ServerSide DEF transferVars
<1>. QED
  BY <1>1, <1>3, PTL DEF TransferSpec, Spec

(* A transfer is a behaviour of a download (FileDownload.cpp), with a peer *)
(* that happens to be a HiTuxShare.                                        *)
THEOREM DownloadsAsAlways == ASSUME MaxLists = 1 PROVE TransferSpec => Client!Spec
<1>1. TransferInit => Client!Init
  BY DEF TransferInit
<1>2. TransferInv /\ [TransferNext]_transferVars => [Client!Next]_(Client!vars)
  BY ClientSide DEF TransferInv, transferVars, client, Client!vars
<1>. QED
  BY <1>1, <1>2, TransferInvariant, PTL DEF TransferSpec, Client!Spec
=============================================================================
