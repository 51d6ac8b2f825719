------------------------ MODULE FileDownload_proofs ------------------------
(***************************************************************************)
(* Proofs about FileDownload, for any set of names and any bounds.         *)
(***************************************************************************)
EXTENDS FileDownload, FiniteSetTheorems, WellFoundedInduction, TLAPS

(* The file being written is ours, and what the directory says of it is    *)
(* what the session counts; a session that is over has none open.          *)
OpenFileOK ==
  isOpen => /\ ~IsFinished
            /\ link \in {"up", "shut"}
            /\ disk[path].owner = "us"
            /\ disk[path].size = size
            /\ disk[path].bytes = done

(* fOutputPath outlives the file that an abort has removed, but never      *)
(* names a file of ours that was kept.                                     *)
StalePathOK == path # NoPath /\ ~isOpen => disk[path].owner # "us"

Kept == {p \in Path : disk[p].owner = "us" /\ ~InProgress(p)}
KeptOK == IsFiniteSet(Kept) /\ completed = Cardinality(Kept)

(* The session's stages, without late events.                              *)
StagesOK ==
  ~late =>
    /\ link = "none" => state = "IDLE"
    /\ link = "connecting" => state = "CONNECTING"
    /\ link = "up" => state \in {"REQUESTING", "QUEUED_REMOTELY", "TRANSFERRING"}
    /\ link \in {"refused", "shut"} => IsFinished
    /\ link \in {"none", "connecting"} => completed = 0
    /\ path # NoPath /\ ~isOpen => IsFinished

(* Between the look at a path and its fopen nothing is open, the session   *)
(* goes on, and what another program may put there is not ours.            *)
CandidateOK ==
  candidate # NoPath =>
    /\ ~isOpen
    /\ done = 0
    /\ link \in {"up", "shut"} /\ (late \/ link = "up")
    /\ disk[candidate].owner # "us"

IInv ==
  TypeOK /\ OpenFileOK /\ StalePathOK /\ NoPartialFiles /\ KeptOK /\ StagesOK /\ CandidateOK
-----------------------------------------------------------------------------
(* The parts that the handlers are built from keep the types.              *)

LEMMA NoPathIsNoPath == NoPath \notin Path
  BY DEF NoPath, Path

LEMMA RemovedType ==
  ASSUME NEW d \in [Path -> Entry], NEW p \in Path \cup {NoPath}
  PROVE  Removed(d, p) \in [Path -> Entry]
  BY DEF Removed, Nothing, Entry

LEMMA FinishType ==
  ASSUME TypeOK
  PROVE  /\ AfterFinish(disk) \in [Path -> Entry]
         /\ PathAfterFinish \in Path \cup {NoPath}
         /\ CompletedAfterFinish \in Nat
<1>1. AfterFinish(disk) \in [Path -> Entry]
  BY RemovedType DEF AfterFinish, TypeOK
<1>. QED
  BY <1>1 DEF PathAfterFinish, CompletedAfterFinish, TypeOK

LEMMA AbortType ==
  ASSUME NEW d \in [Path -> Entry], NEW p \in Path \cup {NoPath}, TypeOK,
         AbortWith(d, p)
  PROVE  /\ disk' \in [Path -> Entry]
         /\ isOpen' = FALSE
         /\ state' \in DownloadState
         /\ link' \in {"none", "refused", "connecting", "up", "shut"}
  BY RemovedType DEF AbortWith, TypeOK, DownloadState, Finished

(* The path that is opened is one at which there is nothing.               *)
LEMMA OpenedPathIsFree ==
  ASSUME NEW d \in [Path -> Entry], NEW f \in File, FreeAttempts(d, f) # {}
  PROVE  OpenedPath(d, f) \in Path /\ d[OpenedPath(d, f)].owner = "nobody"
<1> DEFINE F == FreeAttempts(d, f)
<1>1. F \subseteq 1..MaxAttempt /\ \A n \in F : d[<<f, n>>].owner = "nobody"
  BY DEF FreeAttempts
<1>2. F \in SUBSET Nat
  BY <1>1, DownloadAssumption
<1>. HIDE DEF F
<1>3. \E n \in F : \A m \in F : ~(<<m, n>> \in OpToRel(<, Nat))
  BY <1>2, FreeAttempts(d, f) # {}, NatLessThanWellFounded, WFMin DEF F
<1>4. PICK n \in F : \A m \in F : ~(m < n)
  BY <1>2, <1>3 DEF OpToRel
<1>5. \A m \in F : n <= m
  BY <1>2, <1>4
<1>. DEFINE least == CHOOSE m \in F : \A k \in F : m <= k
<1>6. least \in F
  BY <1>5
<1>7. OpenedPath(d, f) = <<f, least>>
  BY DEF OpenedPath, F
<1>8. least \in 1..MaxAttempt /\ d[<<f, least>>].owner = "nobody"
  BY <1>1, <1>6
<1>. QED
  BY <1>7, <1>8 DEF Path
-----------------------------------------------------------------------------
LEMMA EntryType ==
  /\ Nothing \in Entry /\ Foreign \in Entry
  /\ \A s \in Int : Ours(s, 0) \in Entry
  BY DEF Entry, Nothing, Foreign, Ours

LEMMA InitType == Init => TypeOK
<1>1. 0 \in -1..MaxSize
  BY DownloadAssumption
<1>2. [Path -> {Nothing, Foreign}] \subseteq [Path -> Entry]
  BY EntryType
<1>3. Init => disk \in [Path -> Entry]
  BY <1>2 DEF Init
<1>4. Init => size \in -1..MaxSize /\ done \in Nat /\ completed \in Nat
  BY <1>1 DEF Init
<1>. QED
  BY <1>3, <1>4 DEF Init, TypeOK, DownloadState

LEMMA TypeStep ==
  ASSUME TypeOK, [Next]_vars
  PROVE  TypeOK'
<1>0. 0 \in -1..MaxSize /\ -1..MaxSize \subseteq Int
  BY DownloadAssumption
<1>. USE DEF TypeOK, DownloadState, Finished
<1>1. CASE UNCHANGED vars
  BY <1>1 DEF vars, Path, Entry
<1>2. CASE Next
  <2>0. late' = late
    BY <1>2 DEF Next
  <2>1. CASE Start
    BY <2>0, <2>1 DEF Start
  <2>2. CASE Abort
    BY <2>0, <2>2, AbortType DEF Abort
  <2>3. CASE SessionConnected
    BY <2>0, <2>3 DEF SessionConnected
  <2>4. CASE SessionDisconnected
    <3>1. CASE isOpen /\ ~IsFinished
      BY <2>0, <2>4, <3>1, AbortType DEF SessionDisconnected, HangUp
    <3>. QED
      BY <2>0, <2>4, <3>1 DEF SessionDisconnected, HangUp
  <2>5. CASE MessageReceived
    <3>1. CASE MalformedHeader
      BY <1>0, <2>0, <3>1, AbortType, FinishType DEF MalformedHeader
    <3>2. ASSUME NEW f \in File, NEW s \in -1..MaxSize, FileHeader(f, s)
          PROVE  TypeOK'
      <4>1. CASE CannotOpen(AfterFinish(disk))
        BY <1>0, <2>0, <3>2, <4>1, AbortType, FinishType DEF FileHeader, CannotOpen
      <4>2. CASE PathFound(AfterFinish(disk), f)
        <5>1. OpenedPath(AfterFinish(disk), f) \in Path
          BY <4>2, FinishType, OpenedPathIsFree DEF PathFound
        <5>. QED
          BY <1>0, <2>0, <3>2, <4>2, <5>1, FinishType DEF FileHeader, PathFound
      <4>. QED
        BY <3>2, <4>1, <4>2 DEF FileHeader
    <3>3. CASE EmptyData
      BY <1>0, <2>0, <3>3, FinishType DEF EmptyData, FinishCurrentFile
    <3>4. CASE UnusableData
      BY <2>0, <3>4, AbortType DEF UnusableData
    <3>5. ASSUME NEW n \in 1..MaxDone, FileData(n)
          PROVE  TypeOK'
      <4>1. n \in Nat
        BY DownloadAssumption
      <4>2. path \in Path
        BY <3>5 DEF FileData
      <4>3. disk' \in [Path -> Entry]
        BY <3>5, <4>1, <4>2 DEF FileData, Entry
      <4>4. /\ done' \in {0, done + n}
             /\ completed' \in {completed, completed + 1}
        BY <3>5 DEF FileData
      <4>5. done' \in Nat /\ completed' \in Nat
        <5>1. done \in Nat /\ completed \in Nat
          OBVIOUS
        <5>. QED
          BY <4>1, <4>4, <5>1
      <4>6. size' \in {0, size}
        BY <3>5 DEF FileData
      <4>7. path' \in Path \cup {NoPath} /\ (isOpen' => path' # NoPath)
        BY <3>5 DEF FileData
      <4>8. isOpen' \in BOOLEAN
        BY <3>5 DEF FileData
      <4>. QED
        BY <1>0, <2>0, <3>5, <4>3, <4>5, <4>6, <4>7, <4>8 DEF FileData
    <3>6. CASE NotifyQueued
      BY <2>0, <3>6 DEF NotifyQueued
    <3>7. CASE Rejected
      BY <2>0, <3>7, AbortType DEF Rejected
    <3>. QED
      BY <2>5, <3>1, <3>2, <3>3, <3>4, <3>5, <3>6, <3>7 DEF MessageReceived
  <2>6. ASSUME NEW p \in Path, ForeignFile(p)
        PROVE  TypeOK'
    BY <2>0, <2>6, EntryType DEF ForeignFile
  <2>7. CASE OpenOutputFile
    <3>1. CASE AbortWith(disk, path) /\ UNCHANGED path
      BY <2>0, <2>7, <3>1, AbortType DEF OpenOutputFile
    <3>2. CASE /\ disk' = [disk EXCEPT ![candidate] = Ours(size, 0)]
               /\ path' = candidate /\ isOpen' = TRUE /\ state' = "TRANSFERRING"
               /\ UNCHANGED link
      <4>1. candidate \in Path /\ candidate # NoPath /\ size \in Int
        BY <1>0, <2>7 DEF OpenOutputFile
      <4>2. disk' \in [Path -> Entry]
        BY <3>2, <4>1, EntryType
      <4>. QED
        BY <2>0, <2>7, <3>2, <4>1, <4>2 DEF OpenOutputFile
    <3>. QED
      BY <2>7, <3>1, <3>2 DEF OpenOutputFile
  <2>. QED
    BY <1>2, <2>1, <2>2, <2>3, <2>4, <2>5, <2>6, <2>7 DEF Next
<1>. QED
  BY <1>1, <1>2
-----------------------------------------------------------------------------
(* What a step does to the files, whichever handler takes it.              *)

Untouched ==
  /\ UNCHANGED <<isOpen, path, completed, disk>>
  /\ isOpen => UNCHANGED <<size, done>>

Dropped ==
  /\ ~IsFinished
  /\ isOpen' = FALSE /\ path' = path /\ completed' = completed
  /\ disk' = Removed(disk, path)

Closed ==
  /\ isOpen
  /\ isOpen' = FALSE /\ path' = NoPath /\ completed' = CompletedAfterFinish
  /\ disk' = AfterFinish(disk)

Opened ==
  /\ candidate # NoPath
  /\ disk' = [disk EXCEPT ![candidate] = Ours(size, 0)]
  /\ isOpen' = TRUE /\ path' = candidate
  /\ UNCHANGED <<size, done, completed>>

Written ==
  \E n \in Nat :
    /\ isOpen
    /\ disk' = [disk EXCEPT ![path].bytes = @ + n]
    /\ \/ /\ size >= 0 /\ done + n >= size
          /\ isOpen' = FALSE /\ path' = NoPath /\ completed' = completed + 1
       \/ done' = done + n /\ UNCHANGED <<isOpen, path, size, completed>>

Disturbed ==
  \E p \in Path :
    /\ disk[p].owner = "nobody"
    /\ disk' = [disk EXCEPT ![p] = Foreign]
    /\ UNCHANGED <<isOpen, path, size, done, completed>>

LEMMA AbortTouches ==
  ASSUME TypeOK, OpenFileOK, AbortWith(disk, path), UNCHANGED <<path, size, done, completed>>
  PROVE  Untouched \/ Dropped
<1>1. CASE IsFinished
  <2>1. isOpen = FALSE
    BY <1>1 DEF OpenFileOK, TypeOK
  <2>. QED
    BY <1>1, <2>1 DEF AbortWith, Untouched
<1>2. CASE ~IsFinished
  BY <1>2 DEF AbortWith, Dropped
<1>. QED
  BY <1>1, <1>2

(* A header that opens no file, MalformedHeader or CannotOpen.             *)
LEMMA HeaderTouches ==
  ASSUME TypeOK, OpenFileOK, AbortWith(AfterFinish(disk), PathAfterFinish),
         path' = PathAfterFinish, completed' = CompletedAfterFinish
  PROVE  Closed \/ Dropped \/ Untouched
<1>1. CASE isOpen
  <2>1. PathAfterFinish = NoPath /\ ~IsFinished
    BY <1>1 DEF PathAfterFinish, OpenFileOK
  <2>2. isOpen' = FALSE /\ disk' = AfterFinish(disk)
    BY <2>1 DEF AbortWith, Removed
  <2>. QED
    BY <1>1, <2>1, <2>2 DEF Closed
<1>2. CASE ~isOpen
  <2>1. AfterFinish(disk) = disk /\ PathAfterFinish = path /\ CompletedAfterFinish = completed
    BY <1>2 DEF AfterFinish, PathAfterFinish, CompletedAfterFinish, CurrentCounts
  <2>2. isOpen = FALSE /\ isOpen' = FALSE
    BY <1>2 DEF TypeOK, AbortWith
  <2>. QED
    BY <1>2, <2>1, <2>2 DEF AbortWith, Dropped, Untouched
<1>. QED
  BY <1>1, <1>2

LEMMA FilesStep ==
  ASSUME TypeOK, OpenFileOK, [Next]_vars
  PROVE  Untouched \/ Dropped \/ Closed \/ Opened \/ Written \/ Disturbed
<1>1. CASE UNCHANGED vars
  BY <1>1 DEF vars, Untouched
<1>2. CASE Start \/ SessionConnected \/ NotifyQueued
  BY <1>2 DEF Start, SessionConnected, NotifyQueued, Untouched
<1>3. CASE Abort \/ UnusableData \/ Rejected
  BY <1>3, AbortTouches DEF Abort, UnusableData, Rejected
<1>4. CASE SessionDisconnected
  <2>1. CASE ~IsFinished /\ isOpen
    BY <1>4, <2>1, AbortTouches DEF SessionDisconnected, HangUp
  <2>. QED
    BY <1>4, <2>1 DEF SessionDisconnected, HangUp, Untouched
<1>5. CASE MalformedHeader
  BY <1>5, HeaderTouches DEF MalformedHeader
<1>6. ASSUME NEW f \in File, NEW s \in -1..MaxSize, FileHeader(f, s)
      PROVE  Closed \/ Dropped \/ Untouched
  <2>1. CASE CannotOpen(AfterFinish(disk))
    BY <1>6, <2>1, HeaderTouches DEF FileHeader, CannotOpen
  <2>2. CASE PathFound(AfterFinish(disk), f)
    <3>1. CASE isOpen
      BY <1>6, <2>2, <3>1 DEF FileHeader, PathFound, PathAfterFinish, Closed
    <3>2. CASE ~isOpen
      <4>1. /\ AfterFinish(disk) = disk /\ PathAfterFinish = path
            /\ CompletedAfterFinish = completed /\ isOpen = FALSE
        BY <3>2 DEF AfterFinish, PathAfterFinish, CompletedAfterFinish, CurrentCounts, TypeOK
      <4>. QED
        BY <1>6, <2>2, <4>1 DEF FileHeader, PathFound, Untouched
    <3>. QED
      BY <3>1, <3>2
  <2>. QED
    BY <1>6, <2>1, <2>2 DEF FileHeader
<1>7. CASE EmptyData
  BY <1>7 DEF EmptyData, FinishCurrentFile, PathAfterFinish, Closed
<1>8. ASSUME NEW n \in 1..MaxDone, FileData(n)
      PROVE  Written
  <2>1. n \in Nat
    BY DownloadAssumption
  <2>2. CASE ReachesSize(n)
    BY <1>8, <2>1, <2>2 DEF FileData, ReachesSize, Written
  <2>3. CASE ~ReachesSize(n)
    BY <1>8, <2>1, <2>3 DEF FileData, Written
  <2>. QED
    BY <2>2, <2>3
<1>9. ASSUME NEW p \in Path, ForeignFile(p)
      PROVE  Disturbed
  BY <1>9 DEF ForeignFile, Disturbed
<1>10. CASE OpenOutputFile
  <2>1. CASE AbortWith(disk, path) /\ UNCHANGED path
    BY <1>10, <2>1, AbortTouches DEF OpenOutputFile
  <2>. QED
    BY <1>10, <2>1 DEF OpenOutputFile, Opened
<1>. QED
  BY <1>1, <1>2, <1>3, <1>4, <1>5, <1>6, <1>7, <1>8, <1>9, <1>10 DEF Next, MessageReceived
-----------------------------------------------------------------------------
(* The path that is about to be opened.                                    *)

(* A path is chosen where there is nothing, after the finished file was    *)
(* removed if it was short.                                                *)
Chosen ==
  /\ candidate' \in Path
  /\ AfterFinish(disk)[candidate'].owner = "nobody"
  /\ disk' = AfterFinish(disk)
  /\ isOpen' = FALSE /\ done' = 0
  /\ Delivers /\ UNCHANGED link

LEMMA CandidateMoves ==
  ASSUME TypeOK, CandidateOK, [Next]_vars
  PROVE  \/ candidate' = NoPath
         \/ UNCHANGED <<candidate, link, isOpen, done, disk>>
         \/ candidate' = candidate /\ Disturbed /\ UNCHANGED link
         \/ Chosen
<1>1. CASE candidate = NoPath
  <2>1. ASSUME NEW f \in File, NEW s \in -1..MaxSize, FileHeader(f, s)
        PROVE  candidate' = NoPath \/ Chosen
    <3>1. CASE CannotOpen(AfterFinish(disk))
      BY <1>1, <3>1 DEF CannotOpen
    <3>2. CASE PathFound(AfterFinish(disk), f)
      <4>1. /\ OpenedPath(AfterFinish(disk), f) \in Path
            /\ AfterFinish(disk)[OpenedPath(AfterFinish(disk), f)].owner = "nobody"
        BY <3>2, FinishType, OpenedPathIsFree DEF PathFound
      <4>. QED
        BY <2>1, <3>2, <4>1 DEF FileHeader, PathFound, Chosen
    <3>. QED
      BY <2>1, <3>1, <3>2 DEF FileHeader
  <2>2. CASE UNCHANGED vars \/ Start \/ Abort \/ SessionConnected \/ SessionDisconnected
    BY <1>1, <2>2 DEF vars, Start, Abort, SessionConnected, SessionDisconnected
  <2>3. CASE MalformedHeader \/ EmptyData \/ UnusableData \/ NotifyQueued \/ Rejected
    BY <1>1, <2>3 DEF MalformedHeader, EmptyData, UnusableData, NotifyQueued, Rejected
  <2>4. ASSUME NEW n \in 1..MaxDone, FileData(n)
        PROVE  candidate' = NoPath
    BY <1>1, <2>4 DEF FileData
  <2>5. ASSUME NEW p \in Path, ForeignFile(p)
        PROVE  candidate' = NoPath
    BY <1>1, <2>5 DEF ForeignFile
  <2>6. ~OpenOutputFile
    BY <1>1 DEF OpenOutputFile
  <2>. QED
    BY <2>1, <2>2, <2>3, <2>4, <2>5, <2>6 DEF Next, MessageReceived
<1>2. CASE candidate # NoPath
  <2>1. CASE UNCHANGED vars
    BY <2>1 DEF vars
  <2>2. ~Start
    BY <1>2 DEF Start, CandidateOK
  <2>3. CASE OpenOutputFile
    BY <2>3 DEF OpenOutputFile
  <2>4. ASSUME NEW p \in Path, ForeignFile(p)
        PROVE  candidate' = candidate /\ Disturbed /\ UNCHANGED link
    BY <2>4 DEF ForeignFile, Disturbed
  <2>5. ~(Abort \/ SessionConnected \/ SessionDisconnected)
    BY <1>2 DEF Abort, SessionConnected, SessionDisconnected
  <2>6. ~MessageReceived
    BY <1>2 DEF MessageReceived, MalformedHeader, FileHeader, EmptyData, UnusableData, FileData,
                NotifyQueued, Rejected, Delivers
  <2>. QED
    BY <2>1, <2>2, <2>3, <2>4, <2>5, <2>6 DEF Next
<1>. QED
  BY <1>1, <1>2

LEMMA CandidateStep ==
  ASSUME TypeOK, CandidateOK, [Next]_vars
  PROVE  CandidateOK'
<1>. SUFFICES ASSUME candidate' # NoPath
     PROVE  CandidateOK'
  BY DEF CandidateOK
<1>0. late' = late
  BY DEF Next, vars
<1>1. CASE UNCHANGED <<candidate, link, isOpen, done, disk>>
  BY <1>0, <1>1 DEF CandidateOK
<1>2. CASE candidate' = candidate /\ Disturbed /\ UNCHANGED link
  <2>1. PICK p \in Path : /\ disk' = [disk EXCEPT ![p] = Foreign]
                          /\ UNCHANGED <<isOpen, done>>
    BY <1>2 DEF Disturbed
  <2>2. candidate \in Path
    BY <1>2 DEF TypeOK
  <2>3. disk'[candidate].owner # "us"
    BY <1>2, <2>1, <2>2 DEF CandidateOK, Foreign, TypeOK
  <2>. QED
    BY <1>0, <1>2, <2>1, <2>3 DEF CandidateOK
<1>3. CASE Chosen
  BY <1>0, <1>3 DEF Chosen, CandidateOK, Delivers, Late
<1>. QED
  BY <1>1, <1>2, <1>3, CandidateMoves
-----------------------------------------------------------------------------
(* Stages: what a step does to the state and to MUSCLE's side.             *)

LEMMA StateStep ==
  ASSUME TypeOK, OpenFileOK, CandidateOK, [Next]_vars, isOpen'
  PROVE  ~IsFinished' /\ link' \in {"up", "shut"}
<1>. USE DEF IsFinished, Finished, OpenFileOK
<1>1. CASE UNCHANGED vars
  BY <1>1 DEF vars
<1>2. CASE Start \/ SessionConnected \/ NotifyQueued
  BY <1>2 DEF Start, SessionConnected, NotifyQueued, Delivers, Late
<1>3. CASE Abort \/ UnusableData \/ Rejected
  BY <1>3 DEF Abort, UnusableData, Rejected, AbortWith
<1>4. CASE SessionDisconnected
  BY <1>4 DEF SessionDisconnected, HangUp, AbortWith
<1>5. CASE MalformedHeader
  BY <1>5 DEF MalformedHeader, AbortWith
<1>6. ASSUME NEW f \in File, NEW s \in -1..MaxSize, FileHeader(f, s)
      PROVE  ~IsFinished' /\ link' \in {"up", "shut"}
  BY <1>6 DEF FileHeader, CannotOpen, AbortWith, PathFound
<1>7. CASE EmptyData
  BY <1>7 DEF EmptyData, FinishCurrentFile
<1>8. ASSUME NEW n \in 1..MaxDone, FileData(n)
      PROVE  ~IsFinished' /\ link' \in {"up", "shut"}
  BY <1>8 DEF FileData
<1>9. ASSUME NEW p \in Path, ForeignFile(p)
      PROVE  ~IsFinished' /\ link' \in {"up", "shut"}
  BY <1>9 DEF ForeignFile
<1>10. CASE OpenOutputFile
  BY <1>10 DEF OpenOutputFile, AbortWith, CandidateOK
<1>. QED
  BY <1>1, <1>2, <1>3, <1>4, <1>5, <1>6, <1>7, <1>8, <1>9, <1>10 DEF Next, MessageReceived
-----------------------------------------------------------------------------
(* What the finished file leaves behind: itself, or nothing at its path.   *)

LEMMA FinishEffect ==
  ASSUME TypeOK, OpenFileOK
  PROVE  /\ isOpen => path \in Path
         /\ isOpen /\ Complete(disk[path]) =>
              AfterFinish(disk) = disk /\ CompletedAfterFinish = completed + 1
         /\ isOpen /\ ~Complete(disk[path]) =>
              /\ AfterFinish(disk) = [disk EXCEPT ![path] = Nothing]
              /\ CompletedAfterFinish = completed
         /\ ~isOpen => AfterFinish(disk) = disk /\ CompletedAfterFinish = completed
<1>1. isOpen => path \in Path /\ path # NoPath
  BY DEF TypeOK
<1>2. isOpen => (CurrentIsComplete <=> Complete(disk[path]))
  BY DEF CurrentIsComplete, Complete, OpenFileOK
<1>. QED
  BY <1>1, <1>2 DEF AfterFinish, CompletedAfterFinish, CurrentCounts, Removed

(* Writing a unit to the open file leaves every other file as it is.       *)
LEMMA WrittenEffect ==
  ASSUME TypeOK, OpenFileOK, NEW n \in Nat, isOpen,
         disk' = [disk EXCEPT ![path].bytes = @ + n]
  PROVE  /\ path \in Path
         /\ \A p \in Path \ {path} : disk'[p] = disk[p]
         /\ disk'[path].owner = "us" /\ disk'[path].size = size
         /\ disk'[path].bytes = done + n
<1>1. path \in Path /\ disk[path] \in Entry
  BY DEF TypeOK
<1>2. disk'[path] = [disk[path] EXCEPT !.bytes = @ + n]
  BY <1>1 DEF TypeOK
<1>3. disk'[path].owner = disk[path].owner /\ disk'[path].size = disk[path].size
      /\ disk'[path].bytes = disk[path].bytes + n
  BY <1>1, <1>2 DEF Entry
<1>. QED
  BY <1>1, <1>3 DEF TypeOK, OpenFileOK

LEMMA OpenFileStep ==
  ASSUME TypeOK, OpenFileOK, CandidateOK, [Next]_vars
  PROVE  OpenFileOK'
<1>. SUFFICES ASSUME isOpen'
     PROVE  /\ disk'[path'].owner = "us" /\ disk'[path'].size = size'
            /\ disk'[path'].bytes = done'
  BY StateStep DEF OpenFileOK
<1>1. CASE Untouched
  BY <1>1 DEF Untouched, OpenFileOK
<1>2. CASE Dropped \/ Closed
  BY <1>2 DEF Dropped, Closed
<1>3. CASE Opened
  <2>1. candidate \in Path
    BY <1>3 DEF Opened, TypeOK
  <2>2. disk'[path'] = Ours(size, 0)
    BY <1>3, <2>1 DEF Opened, TypeOK
  <2>. QED
    BY <1>3, <2>2 DEF Opened, Ours, CandidateOK
<1>4. CASE Written
  BY <1>4, WrittenEffect DEF Written
<1>5. CASE Disturbed
  <2>1. PICK p \in Path : /\ disk[p].owner = "nobody"
                          /\ disk' = [disk EXCEPT ![p] = Foreign]
                          /\ UNCHANGED <<isOpen, path, size, done, completed>>
    BY <1>5 DEF Disturbed
  <2>2. isOpen /\ p # path
    BY <2>1 DEF OpenFileOK
  <2>. QED
    BY <2>1, <2>2 DEF OpenFileOK, TypeOK
<1>. QED
  BY <1>1, <1>2, <1>3, <1>4, <1>5, FilesStep

LEMMA StalePathStep ==
  ASSUME TypeOK, OpenFileOK, StalePathOK, [Next]_vars
  PROVE  StalePathOK'
<1>. SUFFICES ASSUME path' # NoPath, ~isOpen'
     PROVE  disk'[path'].owner # "us"
  BY DEF StalePathOK
<1>1. CASE Untouched
  BY <1>1 DEF Untouched, StalePathOK
<1>2. CASE Dropped
  <2>1. path \in Path
    BY <1>2 DEF Dropped, TypeOK
  <2>2. disk'[path] = Nothing
    BY <1>2, <2>1 DEF Dropped, Removed, TypeOK
  <2>. QED
    BY <1>2, <2>2 DEF Dropped, Nothing
<1>3. CASE Closed \/ Opened \/ Written
  BY <1>3 DEF Closed, Opened, Written
<1>4. CASE Disturbed
  <2>1. PICK p \in Path : /\ disk' = [disk EXCEPT ![p] = Foreign]
                          /\ UNCHANGED <<isOpen, path>>
    BY <1>4 DEF Disturbed
  <2>2. path \in Path
    BY <2>1 DEF TypeOK
  <2>3. CASE p = path
    BY <2>1, <2>2, <2>3 DEF Foreign, TypeOK
  <2>4. CASE p # path
    BY <2>1, <2>2, <2>4 DEF StalePathOK, TypeOK
  <2>. QED
    BY <2>3, <2>4
<1>. QED
  BY <1>1, <1>2, <1>3, <1>4, FilesStep

LEMMA NoPartialStep ==
  ASSUME TypeOK, OpenFileOK, CandidateOK, NoPartialFiles, [Next]_vars
  PROVE  NoPartialFiles'
<1>. SUFFICES ASSUME NEW q \in Path, disk'[q].owner = "us", ~InProgress(q)'
     PROVE  Complete(disk'[q])
  BY DEF NoPartialFiles, Complete
<1>1. CASE Untouched
  BY <1>1 DEF Untouched, NoPartialFiles, InProgress, Complete
<1>2. CASE Dropped
  <2>1. q # path
    BY <1>2, NoPathIsNoPath DEF Dropped, Removed, Nothing, TypeOK
  <2>2. disk'[q] = disk[q]
    BY <1>2, <2>1 DEF Dropped, Removed, TypeOK
  <2>. QED
    BY <2>1, <2>2 DEF NoPartialFiles, InProgress
<1>3. CASE Closed
  <2>1. q = path => Complete(disk[q])
    BY <1>3, FinishEffect DEF Closed, Nothing, TypeOK
  <2>2. disk'[q] = disk[q]
    BY <1>3, <2>1, FinishEffect DEF Closed, Nothing, TypeOK
  <2>. QED
    BY <2>1, <2>2 DEF NoPartialFiles, InProgress
<1>4. CASE Opened
  <2>1. q # candidate /\ disk'[q] = disk[q]
    BY <1>4 DEF Opened, InProgress, TypeOK
  <2>. QED
    BY <1>4, <2>1 DEF Opened, CandidateOK, NoPartialFiles, InProgress
<1>5. CASE Written
  <2>1. PICK n \in Nat :
          /\ disk' = [disk EXCEPT ![path].bytes = @ + n]
          /\ \/ size >= 0 /\ done + n >= size /\ isOpen' = FALSE
             \/ UNCHANGED <<isOpen, path>>
    BY <1>5 DEF Written
  <2>2. isOpen
    BY <1>5 DEF Written
  <2>3. CASE q = path
    <3>1. done + n >= size
      BY <2>1, <2>2, <2>3 DEF InProgress
    <3>2. disk'[q].size = size /\ disk'[q].bytes = done + n
      BY <2>1, <2>2, <2>3, WrittenEffect
    <3>. QED
      BY <3>1, <3>2 DEF Complete
  <2>4. CASE q # path
    BY <2>1, <2>2, <2>4, WrittenEffect DEF NoPartialFiles, InProgress
  <2>. QED
    BY <2>3, <2>4
<1>6. CASE Disturbed
  <2>1. PICK p \in Path : /\ disk' = [disk EXCEPT ![p] = Foreign]
                          /\ UNCHANGED <<isOpen, path>>
    BY <1>6 DEF Disturbed
  <2>2. disk'[q] = disk[q]
    BY <2>1 DEF Foreign, TypeOK
  <2>. QED
    BY <2>1, <2>2 DEF NoPartialFiles, InProgress
<1>. QED
  BY <1>1, <1>2, <1>3, <1>4, <1>5, <1>6, FilesStep

LEMMA KeptAsBefore ==
  ASSUME KeptOK, Kept' = Kept, completed' = completed
  PROVE  KeptOK'
  BY DEF KeptOK

LEMMA KeptOneMore ==
  ASSUME KeptOK, completed \in Nat, NEW q, q \notin Kept, Kept' = Kept \cup {q},
         completed' = completed + 1
  PROVE  KeptOK'
  BY FS_AddElement DEF KeptOK

LEMMA KeptStep ==
  ASSUME TypeOK, OpenFileOK, StalePathOK, CandidateOK, KeptOK, [Next]_vars
  PROVE  KeptOK'
<1>1. CASE Untouched
  <2>1. Kept' = Kept
    BY <1>1 DEF Untouched, Kept, InProgress
  <2>. QED
    BY <1>1, <2>1, KeptAsBefore DEF Untouched
<1>2. CASE Dropped
  <2>1. path \notin Kept
    BY NoPathIsNoPath DEF Kept, InProgress, StalePathOK
  <2>2. \A p \in Path \ {path} : disk'[p] = disk[p]
    BY <1>2 DEF Dropped, Removed, TypeOK
  <2>3. path \in Path => disk'[path].owner # "us"
    BY <1>2, NoPathIsNoPath DEF Dropped, Removed, Nothing, TypeOK
  <2>4. Kept' = Kept
    BY <1>2, <2>1, <2>2, <2>3 DEF Dropped, Kept, InProgress
  <2>. QED
    BY <1>2, <2>4, KeptAsBefore DEF Dropped
<1>3. CASE Closed
  <2>1. path \in Path /\ path \notin Kept
    BY <1>3, FinishEffect DEF Closed, Kept, InProgress
  <2>2. CASE Complete(disk[path])
    <3>1. disk' = disk /\ completed' = completed + 1 /\ isOpen' = FALSE
      BY <1>3, <2>2, FinishEffect DEF Closed
    <3>2. Kept' = Kept \cup {path}
      BY <1>3, <2>1, <3>1 DEF Closed, Kept, InProgress, OpenFileOK
    <3>. QED
      BY <2>1, <3>1, <3>2, KeptOneMore DEF TypeOK
  <2>3. CASE ~Complete(disk[path])
    <3>1. /\ disk' = [disk EXCEPT ![path] = Nothing]
          /\ completed' = completed /\ isOpen' = FALSE
      BY <1>3, <2>3, FinishEffect DEF Closed
    <3>2. disk'[path].owner # "us" /\ \A p \in Path \ {path} : disk'[p] = disk[p]
      BY <2>1, <3>1 DEF Nothing, TypeOK
    <3>3. Kept' = Kept
      BY <2>1, <3>1, <3>2 DEF Kept, InProgress
    <3>. QED
      BY <3>1, <3>3, KeptAsBefore
  <2>. QED
    BY <2>2, <2>3
<1>4. CASE Opened
  <2>1. candidate \in Path /\ ~isOpen /\ disk[candidate].owner # "us"
    BY <1>4 DEF Opened, CandidateOK, TypeOK
  <2>2. \A q \in Path \ {candidate} : disk'[q] = disk[q]
    BY <1>4 DEF Opened, TypeOK
  <2>3. Kept' = Kept
    BY <1>4, <2>1, <2>2 DEF Opened, Kept, InProgress
  <2>. QED
    BY <1>4, <2>3, KeptAsBefore DEF Opened
<1>5. CASE Written
  <2>1. PICK n \in Nat :
          /\ disk' = [disk EXCEPT ![path].bytes = @ + n]
          /\ \/ isOpen' = FALSE /\ path' = NoPath /\ completed' = completed + 1
             \/ UNCHANGED <<isOpen, path, completed>>
    BY <1>5 DEF Written
  <2>2. isOpen
    BY <1>5 DEF Written
  <2>3. /\ path \in Path /\ disk'[path].owner = "us" /\ path \notin Kept
        /\ \A p \in Path \ {path} : disk'[p] = disk[p]
    BY <2>1, <2>2, WrittenEffect DEF Kept, InProgress
  <2>4. CASE isOpen' = FALSE /\ path' = NoPath /\ completed' = completed + 1
    <3>1. Kept' = Kept \cup {path}
      BY <2>2, <2>3, <2>4 DEF Kept, InProgress
    <3>. QED
      BY <2>3, <2>4, <3>1, KeptOneMore DEF TypeOK
  <2>5. CASE UNCHANGED <<isOpen, path, completed>>
    <3>1. Kept' = Kept
      BY <2>2, <2>3, <2>5 DEF Kept, InProgress
    <3>. QED
      BY <2>5, <3>1, KeptAsBefore
  <2>. QED
    BY <2>1, <2>4, <2>5
<1>6. CASE Disturbed
  <2>1. PICK p \in Path : /\ disk[p].owner = "nobody"
                          /\ disk' = [disk EXCEPT ![p] = Foreign]
                          /\ UNCHANGED <<isOpen, path, completed>>
    BY <1>6 DEF Disturbed
  <2>2. p \notin Kept /\ p \notin Kept' /\ \A q \in Path \ {p} : disk'[q] = disk[q]
    BY <2>1 DEF Kept, Foreign, TypeOK
  <2>3. Kept' = Kept
    BY <2>1, <2>2 DEF Kept, InProgress
  <2>. QED
    BY <2>1, <2>3, KeptAsBefore
<1>. QED
  BY <1>1, <1>2, <1>3, <1>4, <1>5, <1>6, FilesStep
-----------------------------------------------------------------------------
(* Without late events a message finds the link up, hence in contact.      *)
LEMMA StagesStep ==
  ASSUME TypeOK, OpenFileOK, CandidateOK, StagesOK, [Next]_vars
  PROVE  StagesOK'
<1>. SUFFICES ASSUME ~late'
     PROVE  StagesOK'
  BY DEF StagesOK
<1>0. late' = late /\ ~late
  BY DEF Next, vars
<1>. USE <1>0 DEF IsFinished, Finished, StagesOK
<1>1. CASE UNCHANGED vars
  BY <1>1 DEF vars
<1>2. CASE Start
  BY <1>2 DEF Start, OpenFileOK
<1>3. CASE Abort
  BY <1>3 DEF Abort, AbortWith
<1>4. CASE SessionConnected
  BY <1>4 DEF SessionConnected, Late, OpenFileOK
<1>5. CASE SessionDisconnected
  BY <1>5 DEF SessionDisconnected, HangUp, AbortWith, Late
<1>6. CASE MalformedHeader
  BY <1>6 DEF MalformedHeader, AbortWith, Delivers, Late
<1>7. ASSUME NEW f \in File, NEW s \in -1..MaxSize, FileHeader(f, s)
      PROVE  StagesOK'
  BY <1>7 DEF FileHeader, CannotOpen, AbortWith, PathFound, PathAfterFinish, Delivers, Late
<1>8. CASE EmptyData
  BY <1>8 DEF EmptyData, FinishCurrentFile, PathAfterFinish, Delivers, Late
<1>9. CASE UnusableData \/ Rejected
  BY <1>9 DEF UnusableData, Rejected, AbortWith, Delivers, Late
<1>10. ASSUME NEW n \in 1..MaxDone, FileData(n)
       PROVE  StagesOK'
  BY <1>10 DEF FileData, Delivers, Late
<1>11. CASE NotifyQueued
  BY <1>11 DEF NotifyQueued, Delivers, Late
<1>12. ASSUME NEW p \in Path, ForeignFile(p)
       PROVE  StagesOK'
  BY <1>12 DEF ForeignFile
<1>13. CASE OpenOutputFile
  BY <1>13 DEF OpenOutputFile, AbortWith, CandidateOK
<1>. QED
  BY <1>1, <1>2, <1>3, <1>4, <1>5, <1>6, <1>7, <1>8, <1>9, <1>10, <1>11, <1>12, <1>13
     DEF Next, MessageReceived

LEMMA InitInv == Init => IInv
<1>. SUFFICES ASSUME Init
     PROVE  IInv
  OBVIOUS
<1>1. \A p \in Path : disk[p].owner # "us"
  BY DEF Init, Nothing, Foreign
<1>2. Kept = {}
  BY <1>1 DEF Kept
<1>3. KeptOK
  BY <1>2, FS_EmptySet DEF KeptOK, Init
<1>. QED
  BY <1>1, <1>3, InitType
     DEF IInv, Init, OpenFileOK, StalePathOK, NoPartialFiles, StagesOK, CandidateOK

LEMMA InvStep == IInv /\ [Next]_vars => IInv'
  BY TypeStep, OpenFileStep, StalePathStep, NoPartialStep, KeptStep, StagesStep, CandidateStep
     DEF IInv

LEMMA Invariant == Spec => []IInv
  BY InitInv, InvStep, PTL DEF Spec
-----------------------------------------------------------------------------
(* The state always has its type.                                          *)
THEOREM TypeCorrect == Spec => []TypeOK
  BY InitType, TypeStep, PTL DEF Spec

(* Whatever the peer sends and whenever it hangs up, a file of ours that is *)
(* shorter than its header said is the one being written, or it is gone    *)
(* (_FinishCurrentFile and Abort of FileDownload.cpp).                     *)
THEOREM PartialFilesGo == Spec => []NoPartialFiles
<1>1. IInv => NoPartialFiles
  BY DEF IInv
<1>. QED
  BY <1>1, Invariant, PTL

(* The session's count is the number of closed files of ours on disk, for  *)
(* any number of files and late events too.                                *)
THEOREM CountIsTrue == Spec => []CountIsOnDisk
<1>1. IInv => CountIsOnDisk
  BY DEF IInv, KeptOK, Kept, CountIsOnDisk
<1>. QED
  BY <1>1, Invariant, PTL

(* A step leaves such a file alone and does not choose its path, unless    *)
(* the path was chosen before another program created the file.            *)
FileSafe(q) ==
  /\ candidate' = q => candidate = q
  /\ disk'[q] = disk[q] \/ ChosenMeanwhile(q)

LEMMA FilesKeptStep ==
  ASSUME IInv, [Next]_vars, NEW q \in Path,
         ~late, disk[q].owner # "nobody", ~InProgress(q)
  PROVE  FileSafe(q)
<1>0. TypeOK /\ OpenFileOK /\ StagesOK /\ CandidateOK
  BY DEF IInv
<1>2. AfterFinish(disk)[q] = disk[q]
  BY <1>0, FinishEffect DEF InProgress, TypeOK
<1>3. candidate' = q => candidate = q
  BY <1>0, <1>2, CandidateMoves, NoPathIsNoPath DEF Chosen
<1>4. disk'[q] = disk[q] \/ ChosenMeanwhile(q)
  <2>1. CASE Untouched
    BY <2>1 DEF Untouched
  <2>2. CASE Dropped
    <3>1. q # path
      BY <1>0, <2>2, NoPathIsNoPath DEF Dropped, StagesOK, InProgress
    <3>. QED
      BY <1>0, <2>2, <3>1 DEF Dropped, Removed, TypeOK
  <2>3. CASE Closed
    BY <1>2, <2>3 DEF Closed
  <2>4. CASE Opened
    <3>1. disk[q].owner \in {"nobody", "other", "us"}
      BY <1>0 DEF TypeOK, Entry
    <3>2. q = candidate => ChosenMeanwhile(q)
      BY <1>0, <2>4, <3>1 DEF Opened, CandidateOK, ChosenMeanwhile
    <3>. QED
      BY <1>0, <2>4, <3>2 DEF Opened, TypeOK
  <2>5. CASE Written
    BY <1>0, <2>5, WrittenEffect DEF Written, InProgress
  <2>6. CASE Disturbed
    BY <1>0, <2>6 DEF Disturbed, TypeOK
  <2>. QED
    BY <1>0, <2>1, <2>2, <2>3, <2>4, <2>5, <2>6, FilesStep
<1>. QED
  BY <1>3, <1>4 DEF FileSafe

(* No path is chosen at which there is a file, and a file the user had or  *)
(* one completed earlier is neither overwritten nor removed by anything    *)
(* the peer sends, unless another program created it between the look and  *)
(* the fopen (FileDownload.cpp: _OpenOutputFile, Abort), without late      *)
(* events.                                                                 *)
THEOREM FilesAreSafe == Spec => NoFileLost
<1>1. IInv /\ [Next]_vars
        => [\A p \in Path : ~late /\ disk[p].owner # "nobody" /\ ~InProgress(p)
              => /\ candidate' = p => candidate = p
                 /\ disk'[p] = disk[p] \/ ChosenMeanwhile(p)]_vars
  BY FilesKeptStep DEF FileSafe
<1>. QED
  BY <1>1, Invariant, PTL DEF Spec, NoFileLost
-----------------------------------------------------------------------------
(* A step of the session is a step of its lifecycle, or none at all.       *)
LEMMA LifecycleStep ==
  ASSUME IInv, [Next]_vars
  PROVE  [Lifecycle!Next]_(IF late THEN "IDLE" ELSE state)
<1>0. late' = late
  BY DEF Next, vars
<1>1. CASE late
  BY <1>0, <1>1
<1>2. CASE ~late
  <2>1. state' = state \/ Lifecycle!Next
    <3>. USE <1>0, <1>2 DEF IInv, IsFinished, Finished, Delivers, Late, AbortWith, Lifecycle!Next,
             Lifecycle!Start, Lifecycle!GetThrough, Lifecycle!Serve, Lifecycle!Finish,
             Lifecycle!Fail, Lifecycle!Contact, Lifecycle!Finished, StagesOK
    <3>1. CASE UNCHANGED vars
      BY <3>1 DEF vars
    <3>2. CASE Start
      BY <3>2 DEF Start
    <3>3. CASE Abort
      BY <3>3 DEF Abort
    <3>4. CASE SessionConnected
      BY <3>4 DEF SessionConnected
    <3>5. CASE SessionDisconnected
      BY <3>5 DEF SessionDisconnected, HangUp, TypeOK
    <3>6. CASE MalformedHeader
      BY <3>6 DEF MalformedHeader
    <3>7. ASSUME NEW f \in File, NEW s \in -1..MaxSize, FileHeader(f, s)
          PROVE  state' = state \/ Lifecycle!Next
      BY <3>7 DEF FileHeader, CannotOpen, PathFound
    <3>8. CASE EmptyData
      BY <3>8 DEF EmptyData
    <3>9. CASE UnusableData \/ Rejected
      BY <3>9 DEF UnusableData, Rejected
    <3>10. ASSUME NEW n \in 1..MaxDone, FileData(n)
           PROVE  state' = state
      BY <3>10 DEF FileData
    <3>11. CASE NotifyQueued
      BY <3>11 DEF NotifyQueued
    <3>12. ASSUME NEW p \in Path, ForeignFile(p)
           PROVE  state' = state
      BY <3>12 DEF ForeignFile
    <3>13. CASE OpenOutputFile
      BY <3>13 DEF OpenOutputFile, CandidateOK
    <3>. QED
      BY <3>1, <3>2, <3>3, <3>4, <3>5, <3>6, <3>7, <3>8, <3>9, <3>10, <3>11, <3>12, <3>13
         DEF Next, MessageReceived
  <2>. QED
    BY <1>0, <1>2, <2>1
<1>. QED
  BY <1>1, <1>2

(* What a watcher sees of a session is the lifecycle that FileDownload.h   *)
(* promises, whatever the peer does, without late events.                  *)
THEOREM ImplementsLifecycle == Spec => LifecycleSpec
<1>1. Init => Lifecycle!Init
  BY DEF Init, Lifecycle!Init
<1>2. IInv /\ [Next]_vars => [Lifecycle!Next]_(IF late THEN "IDLE" ELSE state)
  BY LifecycleStep
<1>. QED
  BY <1>1, <1>2, Invariant, PTL DEF Spec, LifecycleSpec, Lifecycle!Spec
=============================================================================
