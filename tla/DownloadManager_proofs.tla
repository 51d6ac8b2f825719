----------------------- MODULE DownloadManager_proofs -----------------------
(***************************************************************************)
(* Proofs about DownloadManager, for any number of downloads and sharers.  *)
(***************************************************************************)
EXTENDS DownloadManager, FiniteSetTheorems, SequenceTheorems, TLAPS

(* What a step does to the lists, whoever takes it.                        *)

Untouched == UNCHANGED <<downloads, queue, state, contact, reused>>

Ended ==
  /\ \E d \in Listed, s \in Finished : state' = [state EXCEPT ![d] = s]
  /\ UNCHANGED <<downloads, queue, contact, reused>>

HeadStarted ==
  /\ queue # <<>>
  /\ queue' = Tail(queue)
  /\ \/ Head(queue).download \notin Listed /\ UNCHANGED <<state, contact>>
     \/ /\ Head(queue).download \in Listed
        /\ \E result \in {"RUNNING", "FAILED"} :
             state' = [state EXCEPT ![Head(queue).download] = result]
        /\ contact' = [contact EXCEPT ![Head(queue).download] = Head(queue).sharer]
  /\ UNCHANGED <<downloads, starting, reused>>

(* No start is queued for the downloads ds, and either none is queued at   *)
(* all or the queue was in order.                                          *)
NewToQueue(n, ds) ==
  /\ \A k \in 1..n : ds[k] \notin QueuedDownloads
  /\ reused => queue = <<>>

Added ==
  \E n \in Nat : \E ds \in [1..n -> Download], qs \in [1..n -> QueuedStart] :
    /\ IsInjective(ds)
    /\ \A k \in 1..n : ds[k] \notin Listed /\ qs[k].download = ds[k]
    /\ ~reused' => NewToQueue(n, ds)
    /\ downloads' = downloads \o ds
    /\ queue' = queue \o qs
    /\ state' = [d \in Download |-> IF d \in Range(ds) THEN "IDLE" ELSE state[d]]
    /\ starting' = TRUE /\ UNCHANGED contact

Cleared ==
  /\ \E n \in Nat : \E f \in [1..n -> Remaining] :
       /\ Range(f) = Remaining
       /\ \A i, j \in 1..n : i < j => f[i] < f[j]
       /\ downloads' = [i \in 1..n |-> downloads[f[i]]]
  /\ state' = [d \in Download |-> IF state[d] \in Finished THEN "NONE" ELSE state[d]]
  /\ UNCHANGED <<queue, contact, starting, reused>>

(* The window's list holds the downloads there are.                        *)
ListedOK == \A d \in Download : d \in Listed <=> \E i \in 1..Len(downloads) : downloads[i] = d
-----------------------------------------------------------------------------
LEMMA RunningIsFinite ==
  /\ IsFiniteSet(Running) /\ CountRunningDownloads \in Nat
  /\ Running = {} <=> CountRunningDownloads = 0
<1>1. IsFiniteSet(Running)
  BY DownloadsAssumption, FS_Subset DEF Running
<1>. QED
  BY <1>1, FS_CardinalityType, FS_EmptySet DEF CountRunningDownloads

LEMMA ListsStep ==
  ASSUME TypeOK, ListedOK, [Next]_vars
  PROVE  Untouched \/ Ended \/ HeadStarted \/ Added \/ Cleared
<1>1. CASE UNCHANGED vars
  BY <1>1 DEF vars, Untouched
<1>2. CASE StartNextQueuedDownload
  <2>1. CASE StartHead
    BY <2>1 DEF StartHead, MaySlotStart, HeadStarted
  <2>. QED
    BY <1>2, <2>1 DEF StartNextQueuedDownload, StartedEnough, Untouched
<1>3. CASE AbortAllStep
  <2>1. aborting \in 1..Len(downloads) => downloads[aborting] \in Listed
    BY ElementOfSeq DEF TypeOK, ListedOK
  <2>2. aborting > Len(downloads) \/ aborting \in 1..Len(downloads)
    BY <1>3, LenProperties DEF AbortAllStep, TypeOK
  <2>. QED
    BY <1>3, <2>1, <2>2 DEF AbortAllStep, Ends, Finished, Ended, Untouched
<1>4. ASSUME NEW who \in SUBSET Sharer, StartDownloads(who)
      PROVE  Added
  <2>1. Cardinality(who) \in Nat
    BY DownloadsAssumption, FS_Subset, FS_CardinalityType
  <2>2. PICK ds \in [1..Cardinality(who) -> Allocatable] :
          /\ IsInjective(ds)
          /\ sharer' \in [Download -> Sharer]
          /\ downloads' = downloads \o ds
          /\ queue' = queue \o QueuedStarts(ds)
          /\ state' = [d \in Download |-> IF d \in Range(ds) THEN "IDLE" ELSE state[d]]
          /\ reused' = \/ queue # <<>> /\ reused
                       \/ Range(ds) \cap QueuedDownloads # {}
    BY <1>4 DEF StartDownloads
  <2>3. /\ ds \in [1..Cardinality(who) -> Download]
        /\ \A k \in 1..Cardinality(who) : ds[k] \notin Listed
    BY <2>2 DEF Allocatable
  <2>4. /\ QueuedStarts(ds) \in [1..Cardinality(who) -> QueuedStart]
        /\ \A k \in 1..Cardinality(who) : QueuedStarts(ds)[k].download = ds[k]
    BY <2>2, <2>3 DEF QueuedStarts, QueuedStart
  <2>5. ~reused' => NewToQueue(Cardinality(who), ds)
    BY <2>2, <2>3 DEF NewToQueue, Range
  <2>. QED
    BY <1>4, <2>1, <2>2, <2>3, <2>4, <2>5 DEF StartDownloads, Added
<1>5. ASSUME NEW d \in Download, AbortDownload(d) \/ SessionEnds(d)
      PROVE  Ended
  BY <1>5 DEF AbortDownload, SessionEnds, Ends, Ended, Listed, Finished
<1>6. CASE ClearFinishedDownloads
  <2>1. Remaining \subseteq 1..Len(downloads)
    BY LenProperties DEF Remaining, TypeOK
  <2>2. IsFiniteSet(1..Len(downloads))
    BY LenProperties, FS_Interval DEF TypeOK
  <2>3. Cardinality(Remaining) \in Nat
    BY <2>1, <2>2, FS_Subset, FS_CardinalityType
  <2>. QED
    BY <1>6, <2>3 DEF ClearFinishedDownloads, Cleared
<1>7. ASSUME NEW n \in 0..MaxCap, SetMaxSimultaneousDownloads(n)
      PROVE  Untouched
  BY <1>7 DEF SetMaxSimultaneousDownloads, Untouched
<1>8. CASE AbortAll
  BY <1>8 DEF AbortAll, Untouched
<1>. QED
  BY <1>1, <1>2, <1>3, <1>4, <1>5, <1>6, <1>7, <1>8 DEF Next
-----------------------------------------------------------------------------
(* Lists that grow, shrink at the head, or lose what is over.              *)

LEMMA HeadEffect ==
  ASSUME TypeOK, HeadStarted
  PROVE  /\ Len(queue) \in Nat \ {0} /\ queue' \in Seq(QueuedStart)
         /\ Len(queue') = Len(queue) - 1
         /\ \A a \in 1..Len(queue') : queue'[a] = queue[a + 1]
         /\ Head(queue) = queue[1] /\ Head(queue) \in QueuedStart
         /\ QueuedDownloads' \subseteq QueuedDownloads
         /\ QueuedDownloads \subseteq QueuedDownloads' \cup {Head(queue).download}
<1>1. queue \in Seq(QueuedStart) /\ queue # <<>> /\ queue' = Tail(queue)
  BY DEF TypeOK, HeadStarted
<1>2. /\ Len(queue) \in Nat \ {0} /\ queue' \in Seq(QueuedStart)
      /\ Len(queue') = Len(queue) - 1
      /\ \A a \in 1..Len(queue') : queue'[a] = queue[a + 1]
      /\ Head(queue) = queue[1] /\ Head(queue) \in QueuedStart
  BY <1>1, HeadTailProperties, EmptySeq, LenProperties
<1>3. \A a \in 1..Len(queue') : a + 1 \in 1..Len(queue)
  BY <1>2
<1>4. \A a \in 1..Len(queue) : a = 1 \/ (a - 1 \in 1..Len(queue') /\ queue'[a - 1] = queue[a])
  BY <1>2
<1>5. QueuedDownloads' \subseteq QueuedDownloads
  BY <1>2, <1>3 DEF QueuedDownloads
<1>6. QueuedDownloads \subseteq QueuedDownloads' \cup {Head(queue).download}
  BY <1>2, <1>4 DEF QueuedDownloads
<1>. QED
  BY <1>2, <1>5, <1>6

(* m is the list s followed by t's n entries.                              *)
Appended(s, n, t, m) ==
  /\ Len(s) \in Nat /\ Len(m) = Len(s) + n
  /\ \A i \in 1..Len(s) : m[i] = s[i]
  /\ \A k \in 1..n : m[Len(s) + k] = t[k]
  /\ \A i \in 1..Len(m) : i \in 1..Len(s) \/ \E k \in 1..n : i = Len(s) + k

LEMMA AppendEffect ==
  ASSUME NEW S, NEW s \in Seq(S), NEW n \in Nat, NEW t \in [1..n -> S]
  PROVE  s \o t \in Seq(S) /\ Appended(s, n, t, s \o t)
<1>1. t \in Seq(S) /\ Len(t) = n /\ Len(s) \in Nat
  BY SeqDef, LenProperties
<1>2. s \o t \in Seq(S) /\ Len(s \o t) = Len(s) + n
  BY <1>1, ConcatProperties
<1>3. \A i \in 1..Len(s) : (s \o t)[i] = s[i]
  <2>. TAKE i \in 1..Len(s)
  <2>1. i \in 1..Len(s) + Len(t) /\ i <= Len(s)
    BY <1>1
  <2>. QED
    BY <1>1, <2>1, ConcatProperties
<1>4. \A i \in 1..n : (s \o t)[Len(s) + i] = t[i]
  <2>. TAKE i \in 1..n
  <2>1. Len(s) + i \in 1..Len(s) + Len(t) /\ Len(s) + i > Len(s) /\ Len(s) + i - Len(s) = i
    BY <1>1
  <2>. QED
    BY <1>1, <2>1, ConcatProperties
<1>5. \A i \in 1..Len(s) + n : i \in 1..Len(s) \/ \E k \in 1..n : i = Len(s) + k
  <2>. TAKE i \in 1..Len(s) + n
  <2>1. CASE i > Len(s)
    <3>1. i - Len(s) \in 1..n /\ i = Len(s) + (i - Len(s))
      BY <1>1, <2>1
    <3>. QED
      BY <3>1
  <2>. QED
    BY <1>1, <2>1
<1>. QED
  BY <1>1, <1>2, <1>3, <1>4, <1>5 DEF Appended

(* The downloads ds are added to both lists.                               *)
AddedAs(n, ds, qs) ==
  /\ IsInjective(ds)
  /\ \A k \in 1..n : ds[k] \notin Listed /\ qs[k].download = ds[k]
  /\ ~reused' => NewToQueue(n, ds)
  /\ downloads' \in Seq(Download) /\ Appended(downloads, n, ds, downloads')
  /\ queue' \in Seq(QueuedStart) /\ Appended(queue, n, qs, queue')
  /\ QueuedDownloads' = QueuedDownloads \cup Range(ds)
  /\ state' = [d \in Download |-> IF d \in Range(ds) THEN "IDLE" ELSE state[d]]
  /\ starting' = TRUE /\ UNCHANGED contact

LEMMA AddedEffect ==
  ASSUME TypeOK, Added
  PROVE  \E n \in Nat : \E ds \in [1..n -> Download], qs \in [1..n -> QueuedStart] :
           AddedAs(n, ds, qs)
<1>0. PICK n \in Nat : \E ds \in [1..n -> Download], qs \in [1..n -> QueuedStart] :
        /\ IsInjective(ds)
        /\ \A k \in 1..n : ds[k] \notin Listed /\ qs[k].download = ds[k]
        /\ ~reused' => NewToQueue(n, ds)
        /\ downloads' = downloads \o ds
        /\ queue' = queue \o qs
        /\ state' = [d \in Download |-> IF d \in Range(ds) THEN "IDLE" ELSE state[d]]
  BY DEF Added
<1>1. PICK ds \in [1..n -> Download], qs \in [1..n -> QueuedStart] :
        /\ IsInjective(ds)
        /\ \A k \in 1..n : ds[k] \notin Listed /\ qs[k].download = ds[k]
        /\ ~reused' => NewToQueue(n, ds)
        /\ downloads' = downloads \o ds
        /\ queue' = queue \o qs
        /\ state' = [d \in Download |-> IF d \in Range(ds) THEN "IDLE" ELSE state[d]]
  BY <1>0
<1>2. downloads \in Seq(Download) /\ queue \in Seq(QueuedStart)
  BY DEF TypeOK
<1>3. downloads' \in Seq(Download) /\ Appended(downloads, n, ds, downloads')
  BY <1>1, <1>2, AppendEffect
<1>4. queue' \in Seq(QueuedStart) /\ Appended(queue, n, qs, queue')
  BY <1>1, <1>2, AppendEffect
<1>5. QueuedDownloads' = QueuedDownloads \cup Range(ds)
  <2>1. Range(ds) = {ds[k] : k \in 1..n}
    BY DEF Range
  <2>2. \A k \in 1..n : /\ Len(queue) + k \in 1..Len(queue')
                       /\ queue'[Len(queue) + k].download = ds[k]
    BY <1>1, <1>4 DEF Appended
  <2>3. \A a \in 1..Len(queue) : a \in 1..Len(queue') /\ queue'[a] = queue[a]
    BY <1>4 DEF Appended
  <2>4. QueuedDownloads \cup Range(ds) \subseteq QueuedDownloads'
    BY <2>1, <2>2, <2>3 DEF QueuedDownloads
  <2>5. ASSUME NEW a \in 1..Len(queue')
        PROVE  queue'[a].download \in QueuedDownloads \cup Range(ds)
    <3>1. CASE a \in 1..Len(queue)
      BY <2>3, <3>1 DEF QueuedDownloads
    <3>2. ASSUME NEW k \in 1..n, a = Len(queue) + k
          PROVE  queue'[a].download \in Range(ds)
      BY <2>1, <2>2, <3>2
    <3>. QED
      BY <1>4, <3>1, <3>2 DEF Appended
  <2>. QED
    BY <2>4, <2>5 DEF QueuedDownloads
<1>6. starting' = TRUE /\ UNCHANGED contact
  BY DEF Added
<1>7. AddedAs(n, ds, qs)
  BY <1>1, <1>3, <1>4, <1>5, <1>6 DEF AddedAs
<1>. QED
  BY <1>7

(* What remains of downloads is what f picks from it, in order.            *)
ClearedAs(n, f) ==
  /\ \A i \in 1..n : f[i] \in 1..Len(downloads) /\ state[downloads[f[i]]] \notin Finished
  /\ \A i \in 1..Len(downloads) :
       state[downloads[i]] \notin Finished => \E k \in 1..n : f[k] = i
  /\ \A i, j \in 1..n : i < j <=> f[i] < f[j]
  /\ downloads' \in Seq(Download) /\ Len(downloads') = n
  /\ \A i \in 1..n : downloads'[i] = downloads[f[i]]

LEMMA ClearedEffect ==
  ASSUME TypeOK, Cleared
  PROVE  \E n \in Nat : \E f \in [1..n -> Nat] : ClearedAs(n, f)
<1>0. PICK n \in Nat : \E f \in [1..n -> Remaining] :
        /\ Range(f) = Remaining
        /\ \A i, j \in 1..n : i < j => f[i] < f[j]
        /\ downloads' = [i \in 1..n |-> downloads[f[i]]]
  BY DEF Cleared
<1>1. PICK f \in [1..n -> Remaining] :
        /\ Range(f) = Remaining
        /\ \A i, j \in 1..n : i < j => f[i] < f[j]
        /\ downloads' = [i \in 1..n |-> downloads[f[i]]]
  BY <1>0
<1>2. downloads \in Seq(Download) /\ DOMAIN downloads = 1..Len(downloads) /\ Len(downloads) \in Nat
  BY LenProperties DEF TypeOK
<1>3. /\ \A i \in 1..n : f[i] \in 1..Len(downloads) /\ state[downloads[f[i]]] \notin Finished
      /\ \A i \in 1..Len(downloads) :
           state[downloads[i]] \notin Finished => \E k \in 1..n : f[k] = i
  BY <1>1, <1>2 DEF Remaining, Range
<1>4. f \in [1..n -> Nat]
  BY <1>2, <1>3
<1>5. \A i, j \in 1..n : i < j <=> f[i] < f[j]
  <2>. TAKE i, j \in 1..n
  <2>1. f[i] \in Nat /\ f[j] \in Nat
    BY <1>4
  <2>2. i < j \/ i = j \/ j < i
    OBVIOUS
  <2>. QED
    BY <1>1, <2>1, <2>2
<1>6. downloads' \in [1..n -> Download]
  BY <1>1, <1>2, <1>3, ElementOfSeq
<1>7. downloads' \in Seq(Download) /\ Len(downloads') = n
  BY <1>6, SeqDef, LenProperties
<1>8. ClearedAs(n, f)
  BY <1>1, <1>3, <1>5, <1>7 DEF ClearedAs
<1>. QED
  BY <1>4, <1>8
-----------------------------------------------------------------------------
(* Types.                                                                  *)

ListTypes == downloads \in Seq(Download) /\ queue \in Seq(QueuedStart)
EntriesDiffer == IsInjective(downloads)
StateTypes ==
  /\ state \in [Download -> {"NONE", "IDLE", "RUNNING"} \cup Finished]
  /\ contact \in [Download -> Sharer]
OtherTypes ==
  /\ sharer \in [Download -> Sharer]
  /\ max \in 1..MaxCap
  /\ starting \in BOOLEAN
  /\ aborting \in Nat
  /\ reused \in BOOLEAN

LEMMA ListTypesStep ==
  ASSUME TypeOK, ListedOK, [Next]_vars
  PROVE  ListTypes'
<1>1. CASE Untouched \/ Ended
  BY <1>1 DEF Untouched, Ended, TypeOK, ListTypes, QueuedStart
<1>2. CASE HeadStarted
  BY <1>2, HeadEffect DEF HeadStarted, TypeOK, ListTypes, QueuedStart
<1>3. CASE Added
  BY <1>3, AddedEffect DEF AddedAs, ListTypes, QueuedStart
<1>4. CASE Cleared
  BY <1>4, ClearedEffect DEF Cleared, ClearedAs, TypeOK, ListTypes, QueuedStart
<1>. QED
  BY <1>1, <1>2, <1>3, <1>4, ListsStep

LEMMA StateTypesStep ==
  ASSUME TypeOK, ListedOK, [Next]_vars
  PROVE  StateTypes'
<1>. USE DEF TypeOK, StateTypes, Finished
<1>1. CASE Untouched \/ Ended
  BY <1>1 DEF Untouched, Ended
<1>2. CASE HeadStarted
  BY <1>2, HeadEffect DEF HeadStarted, QueuedStart, Listed
<1>3. CASE Added
  BY <1>3 DEF Added
<1>4. CASE Cleared
  BY <1>4 DEF Cleared
<1>. QED
  BY <1>1, <1>2, <1>3, <1>4, ListsStep

LEMMA OtherTypesStep ==
  ASSUME TypeOK, [Next]_vars
  PROVE  OtherTypes'
<1>. USE DEF TypeOK, OtherTypes
<1>1. CASE UNCHANGED vars
  BY <1>1 DEF vars
<1>2. CASE StartNextQueuedDownload
  BY <1>2 DEF StartNextQueuedDownload, StartHead, StartedEnough
<1>3. CASE AbortAllStep
  <2>1. aborting' \in {0, aborting + 1}
    BY <1>3 DEF AbortAllStep
  <2>2. aborting' \in Nat
    BY <2>1
  <2>. QED
    BY <1>3, <2>2 DEF AbortAllStep, Ends
<1>4. ASSUME NEW who \in SUBSET Sharer, StartDownloads(who)
      PROVE  OtherTypes'
  BY <1>4 DEF StartDownloads
<1>5. ASSUME NEW d \in Download, AbortDownload(d) \/ SessionEnds(d)
      PROVE  OtherTypes'
  BY <1>5 DEF AbortDownload, SessionEnds, Ends
<1>6. CASE ClearFinishedDownloads
  BY <1>6 DEF ClearFinishedDownloads
<1>7. ASSUME NEW n \in 0..MaxCap, SetMaxSimultaneousDownloads(n)
      PROVE  OtherTypes'
  BY <1>7, DownloadsAssumption DEF SetMaxSimultaneousDownloads
<1>8. CASE AbortAll
  BY <1>8 DEF AbortAll
<1>. QED
  BY <1>1, <1>2, <1>3, <1>4, <1>5, <1>6, <1>7, <1>8 DEF Next

LEMMA EntriesAsIndices ==
  ASSUME ListTypes
  PROVE  EntriesDiffer <=>
           \A i, j \in 1..Len(downloads) : downloads[i] = downloads[j] => i = j
  BY LenProperties DEF EntriesDiffer, IsInjective, ListTypes

LEMMA EntriesStep ==
  ASSUME TypeOK, ListedOK, [Next]_vars
  PROVE  EntriesDiffer'
<1>0. ListTypes /\ ListTypes'
  BY ListTypesStep DEF TypeOK, ListTypes
<1>1. \A i, j \in 1..Len(downloads) : downloads[i] = downloads[j] => i = j
  BY <1>0, EntriesAsIndices DEF TypeOK, EntriesDiffer
<1>. SUFFICES ASSUME NEW i \in 1..Len(downloads'), NEW j \in 1..Len(downloads'),
                     downloads'[i] = downloads'[j]
     PROVE  i = j
  BY <1>0, LenProperties DEF EntriesDiffer, IsInjective, ListTypes
<1>2. CASE Untouched \/ Ended \/ HeadStarted
  BY <1>1, <1>2 DEF Untouched, Ended, HeadStarted
<1>3. CASE Added
  <2>1. PICK n \in Nat : \E ds \in [1..n -> Download], qs \in [1..n -> QueuedStart] :
          AddedAs(n, ds, qs)
    BY <1>3, AddedEffect
  <2>2. PICK ds \in [1..n -> Download] : \E qs \in [1..n -> QueuedStart] : AddedAs(n, ds, qs)
    BY <2>1
  <2>3. /\ Appended(downloads, n, ds, downloads')
        /\ \A k, l \in 1..n : ds[k] = ds[l] => k = l
    BY <2>2 DEF AddedAs, IsInjective
  <2>4. \A k \in 1..n, l \in 1..Len(downloads) : ds[k] # downloads[l]
    BY <2>2 DEF AddedAs, ListedOK
  <2>5. \A l \in 1..Len(downloads) : downloads'[l] = downloads[l]
    BY <2>3 DEF Appended
  <2>6. \A k \in 1..n : downloads'[Len(downloads) + k] = ds[k]
    BY <2>3 DEF Appended
  <2>7. i \in 1..Len(downloads) \/ \E k \in 1..n : i = Len(downloads) + k
    BY <2>3 DEF Appended
  <2>8. j \in 1..Len(downloads) \/ \E k \in 1..n : j = Len(downloads) + k
    BY <2>3 DEF Appended
  <2>9. CASE i \in 1..Len(downloads)
    <3>1. CASE j \in 1..Len(downloads)
      BY <1>1, <2>5, <2>9, <3>1
    <3>2. ASSUME NEW k \in 1..n, j = Len(downloads) + k
          PROVE  FALSE
      <4>1. downloads'[i] = downloads[i] /\ downloads'[j] = ds[k]
        BY <2>5, <2>6, <2>9, <3>2
      <4>. QED
        BY <2>4, <2>9, <4>1
    <3>. QED
      BY <2>8, <3>1, <3>2
  <2>10. ASSUME NEW k \in 1..n, i = Len(downloads) + k
         PROVE  i = j
    <3>1. downloads'[i] = ds[k]
      BY <2>6, <2>10
    <3>2. j \notin 1..Len(downloads)
      BY <2>4, <2>5, <3>1
    <3>3. PICK l \in 1..n : j = Len(downloads) + l
      BY <2>8, <3>2
    <3>4. downloads'[j] = ds[l]
      BY <2>6, <3>3
    <3>. QED
      BY <2>3, <2>10, <3>1, <3>3, <3>4
  <2>. QED
    BY <2>7, <2>9, <2>10
<1>4. CASE Cleared
  <2>1. PICK n \in Nat : \E f \in [1..n -> Nat] : ClearedAs(n, f)
    BY <1>4, ClearedEffect
  <2>2. PICK f \in [1..n -> Nat] : ClearedAs(n, f)
    BY <2>1
  <2>3. i \in 1..n /\ j \in 1..n /\ f[i] = f[j]
    BY <1>1, <2>2 DEF ClearedAs
  <2>. QED
    BY <2>2, <2>3 DEF ClearedAs
<1>. QED
  BY <1>2, <1>3, <1>4, ListsStep

LEMMA ListedStep ==
  ASSUME TypeOK, ListedOK, [Next]_vars
  PROVE  ListedOK'
<1>. USE DEF Listed
<1>0. ListTypes
  BY DEF TypeOK, ListTypes
<1>1. CASE Untouched
  BY <1>1 DEF Untouched, ListedOK
<1>2. CASE Ended
  BY <1>2 DEF Ended, ListedOK, TypeOK, Finished
<1>3. CASE HeadStarted
  <2>1. \A d \in Download : state'[d] = "NONE" <=> state[d] = "NONE"
    BY <1>3, HeadEffect DEF HeadStarted, TypeOK, QueuedStart
  <2>. QED
    BY <1>3, <2>1 DEF HeadStarted, ListedOK
<1>4. CASE Added
  <2>1. PICK n \in Nat : \E ds \in [1..n -> Download], qs \in [1..n -> QueuedStart] :
          AddedAs(n, ds, qs)
    BY <1>4, AddedEffect
  <2>2. PICK ds \in [1..n -> Download] : \E qs \in [1..n -> QueuedStart] : AddedAs(n, ds, qs)
    BY <2>1
  <2>. SUFFICES ASSUME NEW d \in Download
       PROVE  state'[d] # "NONE" <=> \E i \in 1..Len(downloads') : downloads'[i] = d
    BY DEF ListedOK
  <2>3. state'[d] # "NONE" <=> state[d] # "NONE" \/ \E k \in 1..n : ds[k] = d
    BY <2>2 DEF AddedAs, Range
  <2>4. Appended(downloads, n, ds, downloads')
    BY <2>2 DEF AddedAs
  <2>5. \A i \in 1..Len(downloads) : i \in 1..Len(downloads') /\ downloads'[i] = downloads[i]
    BY <2>4 DEF Appended
  <2>6. \A k \in 1..n : /\ Len(downloads) + k \in 1..Len(downloads')
                       /\ downloads'[Len(downloads) + k] = ds[k]
    BY <2>4 DEF Appended
  <2>7. (\E i \in 1..Len(downloads') : downloads'[i] = d)
           <=> \/ \E i \in 1..Len(downloads) : downloads[i] = d
               \/ \E k \in 1..n : ds[k] = d
    <3>1. ASSUME NEW i \in 1..Len(downloads'), downloads'[i] = d
          PROVE  \/ \E l \in 1..Len(downloads) : downloads[l] = d
                 \/ \E k \in 1..n : ds[k] = d
      <4>1. i \in 1..Len(downloads) \/ \E k \in 1..n : i = Len(downloads) + k
        BY <2>4 DEF Appended
      <4>. QED
        BY <2>5, <2>6, <3>1, <4>1
    <3>2. ASSUME NEW i \in 1..Len(downloads), downloads[i] = d
          PROVE  \E l \in 1..Len(downloads') : downloads'[l] = d
      BY <2>5, <3>2
    <3>3. ASSUME NEW k \in 1..n, ds[k] = d
          PROVE  \E l \in 1..Len(downloads') : downloads'[l] = d
      BY <2>6, <3>3
    <3>. QED
      BY <3>1, <3>2, <3>3
  <2>8. state[d] # "NONE" <=> \E i \in 1..Len(downloads) : downloads[i] = d
    BY DEF ListedOK
  <2>. QED
    BY <2>3, <2>7, <2>8
<1>5. CASE Cleared
  <2>1. PICK n \in Nat : \E f \in [1..n -> Nat] : ClearedAs(n, f)
    BY <1>5, ClearedEffect
  <2>2. PICK f \in [1..n -> Nat] : ClearedAs(n, f)
    BY <2>1
  <2>. SUFFICES ASSUME NEW d \in Download
       PROVE  state'[d] # "NONE" <=> \E i \in 1..Len(downloads') : downloads'[i] = d
    BY DEF ListedOK
  <2>3. state'[d] # "NONE" <=> state[d] # "NONE" /\ state[d] \notin Finished
    BY <1>5 DEF Cleared
  <2>4. (\E i \in 1..Len(downloads') : downloads'[i] = d)
           <=> \E i \in 1..Len(downloads) : downloads[i] = d /\ state[d] \notin Finished
    <3>1. ASSUME NEW i \in 1..Len(downloads'), downloads'[i] = d
          PROVE  \E l \in 1..Len(downloads) : downloads[l] = d /\ state[d] \notin Finished
      <4>1. f[i] \in 1..Len(downloads) /\ downloads[f[i]] = d /\ state[d] \notin Finished
        BY <2>2, <3>1 DEF ClearedAs
      <4>. QED
        BY <4>1
    <3>2. ASSUME NEW i \in 1..Len(downloads), downloads[i] = d, state[d] \notin Finished
          PROVE  \E l \in 1..Len(downloads') : downloads'[l] = d
      <4>1. PICK k \in 1..n : f[k] = i
        BY <2>2, <3>2 DEF ClearedAs
      <4>2. k \in 1..Len(downloads') /\ downloads'[k] = d
        BY <2>2, <3>2, <4>1 DEF ClearedAs
      <4>. QED
        BY <4>2
    <3>. QED
      BY <3>1, <3>2
  <2>5. state[d] # "NONE" <=> \E i \in 1..Len(downloads) : downloads[i] = d
    BY DEF ListedOK
  <2>6. CASE state[d] \in Finished
    BY <2>3, <2>4, <2>6
  <2>7. CASE state[d] \notin Finished
    BY <2>3, <2>4, <2>5, <2>7
  <2>. QED
    BY <2>6, <2>7
<1>. QED
  BY <1>1, <1>2, <1>3, <1>4, <1>5, ListsStep

LEMMA InitTypes == Init => TypeOK /\ ListedOK
<1>. SUFFICES ASSUME Init
     PROVE  TypeOK /\ ListedOK
  OBVIOUS
<1>1. downloads \in Seq(Download) /\ queue \in Seq(QueuedStart)
      /\ Len(downloads) = 0 /\ DOMAIN downloads = {}
  BY EmptySeq, LenProperties DEF Init
<1>2. ListTypes /\ EntriesDiffer
  BY <1>1 DEF ListTypes, EntriesDiffer, IsInjective
<1>3. StateTypes /\ OtherTypes
  BY DEF Init, StateTypes, OtherTypes
<1>4. ListedOK
  BY <1>1 DEF Init, ListedOK, Listed
<1>. QED
  BY <1>2, <1>3, <1>4 DEF TypeOK, ListTypes, EntriesDiffer, StateTypes, OtherTypes

LEMMA TypesStep == TypeOK /\ ListedOK /\ [Next]_vars => TypeOK' /\ ListedOK'
<1>. SUFFICES ASSUME TypeOK, ListedOK, [Next]_vars
     PROVE  TypeOK' /\ ListedOK'
  OBVIOUS
<1>1. ListTypes' /\ EntriesDiffer' /\ StateTypes' /\ OtherTypes'
  BY ListTypesStep, EntriesStep, StateTypesStep, OtherTypesStep
<1>2. TypeOK'
  BY <1>1 DEF TypeOK, ListTypes, EntriesDiffer, StateTypes, OtherTypes
<1>. QED
  BY <1>2, ListedStep

LEMMA Types == Spec => [](TypeOK /\ ListedOK)
  BY InitTypes, TypesStep, PTL DEF Spec

(* The state always has its type.                                          *)
THEOREM TypeCorrect == Spec => []TypeOK
  BY Types, PTL
-----------------------------------------------------------------------------
(* The slots.                                                              *)

LEMMA SlotsStep ==
  ASSUME TypeOK, [Next]_vars, IdleSlot'
  PROVE  IdleSlot \/ max' > max
<1>. USE DEF IdleSlot, CountRunningDownloads, Running
<1>1. CASE UNCHANGED vars
  BY <1>1 DEF vars
<1>2. CASE StartNextQueuedDownload
  BY <1>2 DEF StartNextQueuedDownload, StartHead, StartedEnough, MaySlotStart
<1>3. CASE AbortAllStep
  BY <1>3 DEF AbortAllStep, Ends
<1>4. ASSUME NEW who \in SUBSET Sharer, StartDownloads(who)
      PROVE  FALSE
  BY <1>4 DEF StartDownloads
<1>5. ASSUME NEW d \in Download, AbortDownload(d) \/ SessionEnds(d)
      PROVE  FALSE
  BY <1>5 DEF AbortDownload, SessionEnds, Ends
<1>6. CASE ClearFinishedDownloads
  <2>1. Running' = Running
    BY <1>6 DEF ClearFinishedDownloads, Finished
  <2>. QED
    BY <1>6, <2>1 DEF ClearFinishedDownloads
<1>7. ASSUME NEW n \in 0..MaxCap, SetMaxSimultaneousDownloads(n)
      PROVE  IdleSlot \/ max' > max
  <2>1. CountRunningDownloads \in Nat /\ UNCHANGED <<queue, state, starting>>
    BY <1>7, RunningIsFinite DEF SetMaxSimultaneousDownloads
  <2>2. max \in Nat /\ max' \in Nat
    BY <1>7, DownloadsAssumption DEF SetMaxSimultaneousDownloads, TypeOK
  <2>3. CountRunningDownloads' = CountRunningDownloads
    BY <2>1
  <2>. HIDE DEF CountRunningDownloads, Running
  <2>. QED
    BY <2>1, <2>2, <2>3
<1>8. CASE AbortAll
  BY <1>8 DEF AbortAll
<1>. QED
  BY <1>1, <1>2, <1>3, <1>4, <1>5, <1>6, <1>7, <1>8 DEF Next

(* A slot is never left unused while a start is queued, but for a cap that *)
(* is raised: a start, an end, a cancel and each iteration of AbortAll     *)
(* have _StartNextQueuedDownload run until slots or starts are used up     *)
(* (DownloadManager.cpp).                                                  *)
THEOREM SlotsAreNotWasted == Spec => SlotsAreUsed
<1>1. TypeOK /\ [Next]_vars => [IdleSlot' => IdleSlot \/ max' > max]_vars
  BY SlotsStep
<1>. QED
  BY <1>1, Types, PTL DEF Spec, SlotsAreUsed
-----------------------------------------------------------------------------
(* Nobody waits for nobody.                                                *)

LEMMA WaitersQueued ==
  ASSUME TypeOK, ListedOK, WaitersWillBeStarted, [Next]_vars
  PROVE  (Waiting \subseteq QueuedDownloads)'
<1>0. Waiting \subseteq QueuedDownloads
  BY DEF WaitersWillBeStarted
<1>1. CASE Untouched
  BY <1>0, <1>1 DEF Untouched, Waiting, QueuedDownloads
<1>2. CASE Ended
  BY <1>0, <1>2 DEF Ended, Waiting, QueuedDownloads, Finished, Listed, TypeOK
<1>3. CASE HeadStarted
  <2>1. Waiting' \subseteq Waiting \ {Head(queue).download}
    BY <1>3, HeadEffect DEF HeadStarted, Waiting, Listed, TypeOK, QueuedStart
  <2>. QED
    BY <1>0, <1>3, <2>1, HeadEffect
<1>4. CASE Added
  <2>1. PICK n \in Nat : \E ds \in [1..n -> Download], qs \in [1..n -> QueuedStart] :
          AddedAs(n, ds, qs)
    BY <1>4, AddedEffect
  <2>. QED
    BY <1>0, <2>1 DEF AddedAs, Waiting
<1>5. CASE Cleared
  BY <1>0, <1>5 DEF Cleared, Waiting, QueuedDownloads
<1>. QED
  BY <1>1, <1>2, <1>3, <1>4, <1>5, ListsStep

LEMMA SomebodyRuns ==
  ASSUME TypeOK, ListedOK, WaitersWillBeStarted, [Next]_vars, queue' # <<>>, ~starting'
  PROVE  Running' # {}
<1>. USE DEF Running
<1>0. queue # <<>> /\ ~starting => Running # {}
  BY DEF WaitersWillBeStarted
<1>1. CASE UNCHANGED vars
  BY <1>0, <1>1 DEF vars
<1>2. CASE StartHead
  BY <1>2 DEF StartHead
<1>3. CASE StartedEnough
  <2>1. queue # <<>> /\ ~(CountRunningDownloads < max)
    BY <1>3 DEF StartedEnough, MaySlotStart
  <2>2. max \in Nat /\ max > 0
    BY DownloadsAssumption DEF TypeOK
  <2>3. Running # {}
    BY <2>1, <2>2, RunningIsFinite
  <2>. QED
    BY <1>3, <2>3 DEF StartedEnough
<1>4. CASE AbortAllStep
  BY <1>0, <1>4 DEF AbortAllStep, Ends
<1>5. ASSUME NEW who \in SUBSET Sharer, StartDownloads(who)
      PROVE  FALSE
  BY <1>5 DEF StartDownloads
<1>6. ASSUME NEW d \in Download, AbortDownload(d) \/ SessionEnds(d)
      PROVE  FALSE
  BY <1>6 DEF AbortDownload, SessionEnds, Ends
<1>7. CASE ClearFinishedDownloads
  BY <1>0, <1>7 DEF ClearFinishedDownloads, Finished
<1>8. ASSUME NEW n \in 0..MaxCap, SetMaxSimultaneousDownloads(n)
      PROVE  Running' # {}
  BY <1>0, <1>8 DEF SetMaxSimultaneousDownloads
<1>9. CASE AbortAll
  BY <1>0, <1>9 DEF AbortAll
<1>. QED
  BY <1>1, <1>2, <1>3, <1>4, <1>5, <1>6, <1>7, <1>8, <1>9 DEF Next, StartNextQueuedDownload

LEMMA InitWaiters == Init => WaitersWillBeStarted
  BY DEF Init, WaitersWillBeStarted, Waiting

(* A download that waits has its start queued, and whenever starts are     *)
(* queued and the loop does not run, some download runs whose end will run *)
(* it (DownloadManager.cpp: _StartNextQueuedDownload and its callers).     *)
THEOREM WaitersAreNotForgotten == Spec => []WaitersWillBeStarted
<1>1. TypeOK /\ ListedOK /\ WaitersWillBeStarted /\ [Next]_vars => WaitersWillBeStarted'
  BY WaitersQueued, SomebodyRuns DEF WaitersWillBeStarted
<1>. QED
  BY <1>1, Types, InitWaiters, PTL DEF Spec
-----------------------------------------------------------------------------
(* The order of the queue, while no address that a start is queued for has *)
(* been allocated again: one start per download, in the order of the       *)
(* window's list, for the last downloads of the list and none of those     *)
(* that run.                                                               *)
OnceQueued ==
  \A a, b \in 1..Len(queue) : queue[a].download = queue[b].download => a = b
QueueInOrder ==
  \A a, b \in 1..Len(queue), i, j \in 1..Len(downloads) :
    a < b /\ downloads[i] = queue[a].download /\ downloads[j] = queue[b].download => i < j
LastOnesQueued ==
  \A i, j \in 1..Len(downloads) :
    i < j /\ downloads[i] \in QueuedDownloads => downloads[j] \in QueuedDownloads
RunningNotQueued == Running \cap QueuedDownloads = {}
OrderOK == OnceQueued /\ QueueInOrder /\ LastOnesQueued /\ RunningNotQueued
OrderKept == ~reused => OrderOK

LEMMA EmptyQueueInOrder == ASSUME TypeOK, queue = <<>> PROVE OrderOK
<1>1. Len(queue) = 0 /\ QueuedDownloads = {}
  BY EmptySeq DEF QueuedDownloads
<1>. QED
  BY <1>1 DEF OrderOK, OnceQueued, QueueInOrder, LastOnesQueued, RunningNotQueued

LEMMA OrderSame ==
  ASSUME OrderOK, UNCHANGED <<downloads, queue>>, Running' \subseteq Running
  PROVE  OrderOK'
<1>1. QueuedDownloads' = QueuedDownloads
  BY DEF QueuedDownloads
<1>2. OnceQueued' /\ QueueInOrder'
  BY DEF OrderOK, OnceQueued, QueueInOrder
<1>3. LastOnesQueued' /\ RunningNotQueued'
  BY <1>1 DEF OrderOK, LastOnesQueued, RunningNotQueued
<1>. QED
  BY <1>2, <1>3 DEF OrderOK

LEMMA OrderHead ==
  ASSUME TypeOK, ListedOK, OrderOK, HeadStarted
  PROVE  OrderOK'
<1>. DEFINE h == Head(queue).download
<1>0. /\ Len(queue) \in Nat \ {0} /\ Len(queue') = Len(queue) - 1
      /\ \A a \in 1..Len(queue') : queue'[a] = queue[a + 1]
      /\ h = queue[1].download
      /\ QueuedDownloads' \subseteq QueuedDownloads
      /\ QueuedDownloads \subseteq QueuedDownloads' \cup {h}
      /\ downloads' = downloads
  BY HeadEffect DEF HeadStarted
<1>. HIDE DEF h
<1>1. \A a \in 1..Len(queue') : a + 1 \in 1..Len(queue) /\ 1 < a + 1
  BY <1>0
<1>2. OnceQueued'
  <2>. SUFFICES ASSUME NEW a \in 1..Len(queue'), NEW b \in 1..Len(queue'),
                       queue'[a].download = queue'[b].download
       PROVE  a = b
    BY DEF OnceQueued
  <2>1. a + 1 = b + 1
    BY <1>0, <1>1 DEF OrderOK, OnceQueued
  <2>. QED
    BY <1>0, <2>1
<1>3. QueueInOrder'
  <2>. SUFFICES ASSUME NEW a \in 1..Len(queue'), NEW b \in 1..Len(queue'),
                       NEW i \in 1..Len(downloads), NEW j \in 1..Len(downloads),
                       a < b, downloads[i] = queue'[a].download, downloads[j] = queue'[b].download
       PROVE  i < j
    BY <1>0 DEF QueueInOrder
  <2>1. a + 1 < b + 1
    BY <1>0
  <2>. QED
    BY <1>0, <1>1, <2>1 DEF OrderOK, QueueInOrder
<1>4. h \notin QueuedDownloads'
  <2>. SUFFICES ASSUME NEW a \in 1..Len(queue'), queue'[a].download = h
       PROVE  FALSE
    BY DEF QueuedDownloads
  <2>1. 1 \in 1..Len(queue)
    BY <1>0
  <2>. QED
    BY <1>0, <1>1, <2>1 DEF OrderOK, OnceQueued
<1>5. LastOnesQueued'
  <2>. SUFFICES ASSUME NEW i \in 1..Len(downloads), NEW j \in 1..Len(downloads),
                       i < j, downloads[i] \in QueuedDownloads'
       PROVE  downloads[j] \in QueuedDownloads'
    BY <1>0 DEF LastOnesQueued
  <2>1. downloads[j] \in QueuedDownloads
    BY <1>0 DEF OrderOK, LastOnesQueued
  <2>2. PICK a \in 1..Len(queue') : queue'[a].download = downloads[i]
    BY DEF QueuedDownloads
  <2>3. downloads[j] = h => j < i
    <3>1. 1 \in 1..Len(queue)
      BY <1>0
    <3>. QED
      BY <1>0, <1>1, <2>2, <3>1 DEF OrderOK, QueueInOrder
  <2>. QED
    BY <1>0, <2>1, <2>3, LenProperties DEF TypeOK
<1>6. RunningNotQueued'
  <2>1. Running' \subseteq Running \cup {h}
    BY HeadEffect DEF HeadStarted, Running, TypeOK, h
  <2>. QED
    BY <1>0, <1>4, <2>1 DEF OrderOK, RunningNotQueued
<1>. QED
  BY <1>2, <1>3, <1>5, <1>6 DEF OrderOK

LEMMA OrderAdded ==
  ASSUME TypeOK, ListedOK, OrderKept, Added, ~reused'
  PROVE  OrderOK'
<1>1. PICK n \in Nat : \E ds \in [1..n -> Download], qs \in [1..n -> QueuedStart] :
        AddedAs(n, ds, qs)
  BY AddedEffect
<1>2. PICK ds \in [1..n -> Download], qs \in [1..n -> QueuedStart] : AddedAs(n, ds, qs)
  BY <1>1
<1>0. OrderOK
  BY <1>2, EmptyQueueInOrder DEF AddedAs, NewToQueue, OrderKept
<1>. DEFINE old == 1..Len(downloads)
            waiting == 1..Len(queue)
<1>3. /\ Len(downloads) \in Nat /\ Len(queue) \in Nat
      /\ Len(downloads') = Len(downloads) + n /\ Len(queue') = Len(queue) + n
  BY <1>2 DEF AddedAs, Appended
<1>4. /\ \A i \in old : downloads'[i] = downloads[i]
      /\ \A k \in 1..n : downloads'[Len(downloads) + k] = ds[k]
      /\ \A i \in 1..Len(downloads') : i \in old \/ \E k \in 1..n : i = Len(downloads) + k
  BY <1>2 DEF AddedAs, Appended
<1>5. /\ \A a \in waiting : queue'[a].download = queue[a].download
      /\ \A k \in 1..n : queue'[Len(queue) + k].download = ds[k]
      /\ \A a \in 1..Len(queue') : a \in waiting \/ \E k \in 1..n : a = Len(queue) + k
  BY <1>2 DEF AddedAs, Appended
<1>6. /\ \A k, l \in 1..n : ds[k] = ds[l] => k = l
      /\ \A k \in 1..n, i \in old : ds[k] # downloads[i]
      /\ \A k \in 1..n, a \in waiting : ds[k] # queue[a].download
  <2>1. \A k, l \in 1..n : ds[k] = ds[l] => k = l
    BY <1>2 DEF AddedAs, IsInjective
  <2>2. \A k \in 1..n : ds[k] \notin Listed /\ ds[k] \notin QueuedDownloads
    BY <1>2 DEF AddedAs, NewToQueue
  <2>. QED
    BY <2>1, <2>2 DEF ListedOK, QueuedDownloads
<1>. HIDE DEF old, waiting
<1>7. \A k \in 1..n, a \in 1..Len(queue') :
        queue'[a].download = ds[k] => a = Len(queue) + k
  <2>. SUFFICES ASSUME NEW k \in 1..n, NEW a \in 1..Len(queue'), queue'[a].download = ds[k]
       PROVE  a = Len(queue) + k
    OBVIOUS
  <2>1. a \notin waiting
    BY <1>5, <1>6
  <2>2. PICK l \in 1..n : a = Len(queue) + l
    BY <1>5, <2>1
  <2>3. ds[l] = ds[k]
    BY <1>5, <2>2
  <2>. QED
    BY <1>6, <2>2, <2>3
<1>8. \A k \in 1..n, i \in 1..Len(downloads') :
        downloads'[i] = ds[k] => i = Len(downloads) + k
  <2>. SUFFICES ASSUME NEW k \in 1..n, NEW i \in 1..Len(downloads'), downloads'[i] = ds[k]
       PROVE  i = Len(downloads) + k
    OBVIOUS
  <2>1. i \notin old
    BY <1>4, <1>6
  <2>2. PICK l \in 1..n : i = Len(downloads) + l
    BY <1>4, <2>1
  <2>3. ds[l] = ds[k]
    BY <1>4, <2>2
  <2>. QED
    BY <1>6, <2>2, <2>3
<1>9. \A a \in waiting, i \in 1..Len(downloads') :
        downloads'[i] = queue[a].download => i \in old
  <2>. SUFFICES ASSUME NEW a \in waiting, NEW i \in 1..Len(downloads'), i \notin old
       PROVE  downloads'[i] # queue[a].download
    OBVIOUS
  <2>1. PICK l \in 1..n : i = Len(downloads) + l
    BY <1>4
  <2>2. downloads'[i] = ds[l]
    BY <1>4, <2>1
  <2>. QED
    BY <1>6, <2>2
<1>10. OnceQueued'
  <2>. SUFFICES ASSUME NEW a \in 1..Len(queue'), NEW b \in 1..Len(queue'),
                       queue'[a].download = queue'[b].download
       PROVE  a = b
    BY DEF OnceQueued
  <2>1. CASE a \in waiting /\ b \in waiting
    BY <1>0, <1>5, <2>1 DEF OrderOK, OnceQueued, waiting
  <2>2. ASSUME NEW k \in 1..n, a = Len(queue) + k
        PROVE  a = b
    <3>1. queue'[b].download = ds[k]
      BY <1>5, <2>2
    <3>. QED
      BY <1>7, <2>2, <3>1
  <2>3. ASSUME NEW k \in 1..n, b = Len(queue) + k
        PROVE  a = b
    <3>1. queue'[a].download = ds[k]
      BY <1>5, <2>3
    <3>. QED
      BY <1>7, <2>3, <3>1
  <2>. QED
    BY <1>5, <2>1, <2>2, <2>3
<1>11. QueueInOrder'
  <2>. SUFFICES ASSUME NEW a \in 1..Len(queue'), NEW b \in 1..Len(queue'),
                       NEW i \in 1..Len(downloads'), NEW j \in 1..Len(downloads'), a < b,
                       downloads'[i] = queue'[a].download, downloads'[j] = queue'[b].download
       PROVE  i < j
    BY DEF QueueInOrder
  <2>1. CASE b \in waiting
    <3>1. a \in waiting
      BY <1>3, <2>1 DEF waiting
    <3>2. i \in old /\ j \in old
      BY <1>5, <1>9, <2>1, <3>1
    <3>3. downloads[i] = queue[a].download /\ downloads[j] = queue[b].download
      BY <1>4, <1>5, <2>1, <3>1, <3>2
    <3>. QED
      BY <1>0, <2>1, <3>1, <3>2, <3>3 DEF OrderOK, QueueInOrder, waiting, old
  <2>2. ASSUME NEW k \in 1..n, b = Len(queue) + k
        PROVE  i < j
    <3>1. downloads'[j] = ds[k]
      BY <1>5, <2>2
    <3>2. j = Len(downloads) + k
      BY <1>8, <3>1
    <3>3. CASE i \in old
      BY <1>3, <3>2, <3>3 DEF old
    <3>4. ASSUME NEW m \in 1..n, i = Len(downloads) + m
          PROVE  i < j
      <4>1. queue'[a].download = ds[m]
        BY <1>4, <3>4
      <4>2. a = Len(queue) + m
        BY <1>7, <4>1
      <4>. QED
        BY <1>3, <2>2, <3>2, <3>4, <4>2
    <3>. QED
      BY <1>4, <3>3, <3>4
  <2>. QED
    BY <1>5, <2>1, <2>2
<1>12. QueuedDownloads' = QueuedDownloads \cup Range(ds)
  BY <1>2 DEF AddedAs
<1>13. LastOnesQueued'
  <2>. SUFFICES ASSUME NEW i \in 1..Len(downloads'), NEW j \in 1..Len(downloads'),
                       i < j, downloads'[i] \in QueuedDownloads'
       PROVE  downloads'[j] \in QueuedDownloads'
    BY DEF LastOnesQueued
  <2>1. ASSUME NEW k \in 1..n, j = Len(downloads) + k
        PROVE  downloads'[j] \in QueuedDownloads'
    BY <1>4, <1>12, <2>1 DEF Range
  <2>2. CASE j \in old
    <3>1. i \in old
      BY <1>3, <2>2 DEF old
    <3>2. downloads[i] \in QueuedDownloads
      BY <1>4, <1>6, <1>12, <3>1 DEF Range
    <3>. QED
      BY <1>0, <1>4, <1>12, <2>2, <3>1, <3>2 DEF OrderOK, LastOnesQueued, old
  <2>. QED
    BY <1>4, <2>1, <2>2
<1>14. RunningNotQueued'
  BY <1>0, <1>2, <1>12 DEF AddedAs, OrderOK, RunningNotQueued, Running
<1>. QED
  BY <1>10, <1>11, <1>13, <1>14 DEF OrderOK

LEMMA OrderCleared ==
  ASSUME TypeOK, ListedOK, OrderOK, Cleared
  PROVE  OrderOK'
<1>1. PICK n \in Nat : \E f \in [1..n -> Nat] : ClearedAs(n, f)
  BY ClearedEffect
<1>2. PICK f \in [1..n -> Nat] : ClearedAs(n, f)
  BY <1>1
<1>3. /\ \A i, j \in 1..n : i < j <=> f[i] < f[j]
      /\ Len(downloads') = n
      /\ \A i \in 1..n : f[i] \in 1..Len(downloads) /\ downloads'[i] = downloads[f[i]]
  BY <1>2 DEF ClearedAs
<1>4. queue' = queue /\ QueuedDownloads' = QueuedDownloads /\ Running' \subseteq Running
  BY DEF Cleared, QueuedDownloads, Running
<1>5. QueueInOrder'
  <2>. SUFFICES ASSUME NEW a \in 1..Len(queue), NEW b \in 1..Len(queue),
                       NEW i \in 1..n, NEW j \in 1..n, a < b,
                       downloads'[i] = queue[a].download, downloads'[j] = queue[b].download
       PROVE  i < j
    BY <1>3, <1>4 DEF QueueInOrder
  <2>1. f[i] < f[j]
    BY <1>3 DEF OrderOK, QueueInOrder
  <2>. QED
    BY <1>3, <2>1
<1>6. LastOnesQueued'
  BY <1>3, <1>4 DEF OrderOK, LastOnesQueued
<1>. QED
  BY <1>4, <1>5, <1>6 DEF OrderOK, OnceQueued, RunningNotQueued

LEMMA OrderStep ==
  ASSUME TypeOK, ListedOK, OrderKept, [Next]_vars
  PROVE  OrderKept'
<1>. SUFFICES ASSUME ~reused'
     PROVE  OrderOK'
  BY DEF OrderKept
<1>1. CASE Untouched
  BY <1>1, OrderSame DEF Untouched, Running, OrderKept
<1>2. CASE Ended
  <2>1. Running' \subseteq Running
    BY <1>2 DEF Ended, Running, Finished, TypeOK
  <2>. QED
    BY <1>2, <2>1, OrderSame DEF Ended, OrderKept
<1>3. CASE HeadStarted
  BY <1>3, OrderHead DEF HeadStarted, OrderKept
<1>4. CASE Cleared
  BY <1>4, OrderCleared DEF Cleared, OrderKept
<1>. QED
  BY <1>1, <1>2, <1>3, <1>4, OrderAdded, ListsStep
-----------------------------------------------------------------------------
(* What AbortAll has passed is over, and no start is queued for it, while  *)
(* the queue is in order.                                                  *)
PassedAreOver ==
  \A i \in 1..Len(downloads) :
    i < aborting => state[downloads[i]] \in Finished /\ downloads[i] \notin QueuedDownloads

PassedOK == ~reused => PassedAreOver

AbortInv == TypeOK /\ ListedOK /\ WaitersWillBeStarted /\ OrderKept /\ PassedOK

(* While the loop rests, a start can be queued only behind a running       *)
(* download, and AbortAll has not come to that one yet.                    *)
LEMMA NextIsNotQueued ==
  ASSUME AbortInv, ~reused, ~starting, aborting \in 1..Len(downloads)
  PROVE  downloads[aborting] \notin QueuedDownloads
<1>. SUFFICES ASSUME downloads[aborting] \in QueuedDownloads
     PROVE  FALSE
  OBVIOUS
<1>1. queue # <<>>
  BY EmptySeq DEF QueuedDownloads
<1>2. PICK r \in Download : r \in Running /\ r \notin QueuedDownloads
  BY <1>1 DEF AbortInv, WaitersWillBeStarted, OrderKept, OrderOK, RunningNotQueued, Running
<1>3. PICK j \in 1..Len(downloads) : downloads[j] = r
  BY <1>2 DEF AbortInv, ListedOK, Listed, Running
<1>4. ~(j < aborting)
  BY <1>2, <1>3 DEF AbortInv, PassedOK, PassedAreOver, Running, Finished
<1>5. j # aborting
  BY <1>2, <1>3
<1>6. aborting < j
  BY <1>4, <1>5, LenProperties DEF AbortInv, TypeOK
<1>. QED
  BY <1>2, <1>3, <1>6 DEF AbortInv, OrderKept, OrderOK, LastOnesQueued

LEMMA PassedStep ==
  ASSUME AbortInv, [Next]_vars
  PROVE  PassedOK'
<1>. SUFFICES ASSUME ~reused'
     PROVE  PassedAreOver'
  BY DEF PassedOK
<1>0. TypeOK /\ (~reused => PassedAreOver)
  BY DEF AbortInv, PassedOK
<1>1. CASE UNCHANGED vars
  BY <1>0, <1>1 DEF vars, PassedAreOver, QueuedDownloads
<1>2. CASE StartHead
  <2>1. HeadStarted
    BY <1>2 DEF StartHead, MaySlotStart, HeadStarted
  <2>2. /\ QueuedDownloads' \subseteq QueuedDownloads /\ Head(queue) = queue[1]
        /\ 1 \in 1..Len(queue)
    BY <1>0, <2>1, HeadEffect
  <2>3. Head(queue).download \in QueuedDownloads
    BY <2>2 DEF QueuedDownloads
  <2>4. \A d \in Download : d \notin QueuedDownloads => state'[d] = state[d]
    BY <1>0, <2>1, <2>3 DEF HeadStarted, TypeOK
  <2>5. downloads' = downloads /\ aborting' = aborting /\ ~reused
    BY <1>2 DEF StartHead
  <2>6. \A i \in 1..Len(downloads) : downloads[i] \in Download
    BY <1>0, ElementOfSeq DEF TypeOK
  <2>. QED
    BY <1>0, <2>2, <2>4, <2>5, <2>6 DEF PassedAreOver
<1>3. CASE StartedEnough
  BY <1>0, <1>3 DEF StartedEnough, PassedAreOver, QueuedDownloads
<1>4. CASE AbortAllStep
  <2>0. ~reused
    BY <1>4 DEF AbortAllStep, Ends
  <2>1. CASE aborting > Len(downloads)
    BY <1>4, <2>1, LenProperties DEF AbortAllStep, PassedAreOver
  <2>2. CASE ~(aborting > Len(downloads))
    <3>1. aborting \in 1..Len(downloads) /\ aborting' = aborting + 1
      BY <1>0, <1>4, <2>2, LenProperties DEF AbortAllStep, TypeOK
    <3>2. downloads[aborting] \notin QueuedDownloads
      BY <1>4, <2>0, <3>1, NextIsNotQueued DEF AbortAllStep
    <3>3. /\ UNCHANGED <<downloads, queue>>
          /\ state'[downloads[aborting]] \in Finished
          /\ \A d \in Download : state[d] \in Finished => state'[d] \in Finished
      BY <1>0, <1>4, <2>2, <3>1, ElementOfSeq DEF AbortAllStep, Ends, Finished, TypeOK
    <3>4. \A i \in 1..Len(downloads) : downloads[i] \in Download
      BY <1>0, ElementOfSeq DEF TypeOK
    <3>5. \A i \in 1..Len(downloads) : i < aborting' => i < aborting \/ i = aborting
      BY <1>0, <3>1, LenProperties DEF TypeOK
    <3>. QED
      BY <1>0, <2>0, <3>2, <3>3, <3>4, <3>5 DEF PassedAreOver, QueuedDownloads
  <2>. QED
    BY <2>1, <2>2
<1>5. CASE aborting' \in {0, 1}
  BY <1>5 DEF PassedAreOver
<1>6. ASSUME NEW who \in SUBSET Sharer, StartDownloads(who)
      PROVE  aborting' = 0
  BY <1>6 DEF StartDownloads, AtRest
<1>7. ASSUME NEW d \in Download, AbortDownload(d) \/ SessionEnds(d)
      PROVE  aborting' = 0
  BY <1>7 DEF AbortDownload, SessionEnds, AtRest
<1>8. ASSUME NEW n \in 0..MaxCap, SetMaxSimultaneousDownloads(n)
      PROVE  aborting' = 0
  BY <1>8 DEF SetMaxSimultaneousDownloads, AtRest
<1>9. ClearFinishedDownloads \/ AbortAll => aborting' \in {0, 1}
  BY DEF ClearFinishedDownloads, AbortAll, AtRest
<1>. QED
  BY <1>1, <1>2, <1>3, <1>4, <1>5, <1>6, <1>7, <1>8, <1>9 DEF Next, StartNextQueuedDownload

LEMMA InitAbort == Init => AbortInv
<1>. SUFFICES ASSUME Init
     PROVE  AbortInv
  OBVIOUS
<1>1. Len(downloads) = 0 /\ Len(queue) = 0
  BY EmptySeq DEF Init
<1>2. Running = {}
  BY DEF Init, Running
<1>3. OrderKept /\ PassedOK
  BY <1>1, <1>2
     DEF OrderKept, OrderOK, OnceQueued, QueueInOrder, LastOnesQueued, RunningNotQueued,
         PassedOK, PassedAreOver
<1>. QED
  BY <1>3, InitTypes, InitWaiters DEF AbortInv

LEMMA AbortInvariant == Spec => []AbortInv
<1>1. AbortInv /\ [Next]_vars => AbortInv'
  BY TypesStep, WaitersQueued, SomebodyRuns, OrderStep, PassedStep
     DEF AbortInv, WaitersWillBeStarted
<1>. QED
  BY <1>1, InitAbort, PTL DEF Spec

(* AbortAll leaves nothing running and nothing waiting, though every abort *)
(* frees a slot that the loop gives to another download in the middle of   *)
(* it (DownloadManager.cpp: AbortAll, DownloadStateChanged), for any       *)
(* number of downloads, unless an address that a start was queued for has  *)
(* been allocated again since the queue was last empty.                    *)
THEOREM AbortAllIsComplete == Spec => AbortAllStops
<1>1. ASSUME AbortInv, [Next]_vars, aborting > 0, aborting' = 0, ~reused
      PROVE  Stopped
  <2>0. TypeOK /\ aborting # 0
    BY <1>1 DEF AbortInv, TypeOK
  <2>1. AbortAllStep
    <3>1. ASSUME NEW who \in SUBSET Sharer, StartDownloads(who)
          PROVE  FALSE
      BY <2>0, <3>1 DEF StartDownloads, AtRest
    <3>2. ASSUME NEW d \in Download, AbortDownload(d) \/ SessionEnds(d)
          PROVE  FALSE
      BY <2>0, <3>2 DEF AbortDownload, SessionEnds, AtRest
    <3>3. ASSUME NEW n \in 0..MaxCap, SetMaxSimultaneousDownloads(n)
          PROVE  FALSE
      BY <2>0, <3>3 DEF SetMaxSimultaneousDownloads, AtRest
    <3>4. ~(ClearFinishedDownloads \/ AbortAll)
      BY <2>0 DEF ClearFinishedDownloads, AbortAll, AtRest
    <3>5. ~(UNCHANGED vars \/ StartHead \/ StartedEnough)
      BY <1>1, <2>0 DEF vars, StartHead, StartedEnough
    <3>. QED
      BY <1>1, <3>1, <3>2, <3>3, <3>4, <3>5 DEF Next, StartNextQueuedDownload
  <2>2. aborting > Len(downloads)
    BY <1>1, <2>0, <2>1 DEF AbortAllStep, TypeOK
  <2>3. \A i \in 1..Len(downloads) : i < aborting
    BY <2>0, <2>2, LenProperties DEF TypeOK
  <2>4. \A d \in Listed : state[d] \in Finished
    BY <1>1, <2>3 DEF AbortInv, ListedOK, PassedOK, PassedAreOver, Listed
  <2>. QED
    BY <2>4 DEF Stopped, Running, Waiting, Listed, Finished
<1>2. AbortInv /\ [Next]_vars => [aborting > 0 /\ aborting' = 0 /\ ~reused => Stopped]_vars
  BY <1>1
<1>. QED
  BY <1>2, AbortInvariant, PTL DEF Spec, AbortAllStops
=============================================================================
