-------------------------- MODULE DownloadManager --------------------------
(***************************************************************************)
(* The downloads of one window and the cap on how many run at once:        *)
(* src/core/DownloadManager.{h,cpp}.                                       *)
(*                                                                         *)
(* Everything runs on the GUI thread.  A call that loops over downloads,   *)
(* _StartNextQueuedDownload or AbortAll, is one action per iteration, and  *)
(* until its loop has ended nothing but the loop takes a step: that is how *)
(* the reentrant callback DownloadStateChanged is seen between iterations. *)
(*                                                                         *)
(* A download is the address of its FileDownload; what goes on inside it   *)
(* (module FileDownload) is here "RUNNING" from Start to its end.          *)
(***************************************************************************)
EXTENDS Naturals, FiniteSets, SequencesExt

CONSTANTS
  Download,    \* addresses a FileDownload can be allocated at
  Sharer,      \* peers that files are downloaded from
  MaxCap,      \* bound: the largest cap the user sets
  CapChanges,  \* whether the cap changes while the program runs
  MaxQueued    \* bound: how many starts are queued

ASSUME DownloadsAssumption ==
  /\ IsFiniteSet(Download) /\ IsFiniteSet(Sharer)
  /\ MaxCap \in Nat \ {0}
  /\ CapChanges \in BOOLEAN
  /\ MaxQueued \in Nat

VARIABLES
  downloads,  \* fDownloads
  queue,      \* fQueuedStarts: a download and the sharer whose address it has
  state,      \* what each download is doing, "NONE" where there is none
  sharer,     \* whose files each download was made for
  contact,    \* whom it was last told to connect to
  max,        \* fMaxSimultaneousDownloads
  starting,   \* _StartNextQueuedDownload is looping
  aborting,   \* AbortAll's index, 0 when it is not looping
  reused      \* history: since the queue was last empty, an address that a
              \* start was queued for was allocated for another download

vars == <<downloads, queue, state, sharer, contact, max, starting, aborting, reused>>
-----------------------------------------------------------------------------
Finished == {"FINISHED", "FAILED"}
QueuedStart == [download: Download, sharer: Sharer]

TypeOK ==
  /\ downloads \in Seq(Download) /\ IsInjective(downloads)
  /\ queue \in Seq(QueuedStart)
  /\ state \in [Download -> {"NONE", "IDLE", "RUNNING"} \cup Finished]
  /\ sharer \in [Download -> Sharer]
  /\ contact \in [Download -> Sharer]
  /\ max \in 1..MaxCap
  /\ starting \in BOOLEAN
  /\ aborting \in Nat
  /\ reused \in BOOLEAN

Listed == {d \in Download : state[d] # "NONE"}
QueuedDownloads == {queue[i].download : i \in 1..Len(queue)}
Running == {d \in Download : state[d] = "RUNNING"}
CountRunningDownloads == Cardinality(Running)

Init ==
  /\ downloads = <<>>
  /\ queue = <<>>
  /\ state = [d \in Download |-> "NONE"]
  /\ sharer \in [Download -> Sharer]
  /\ contact = sharer
  /\ max \in 1..MaxCap
  /\ starting = FALSE
  /\ aborting = 0
  /\ reused = FALSE
-----------------------------------------------------------------------------
(* The loop of _StartNextQueuedDownload.  A download that is no longer     *)
(* listed is skipped; any other is started, whatever its state, and Start  *)
(* may fail.  Failing calls back into this same loop, which goes on.       *)
MaySlotStart == queue # <<>> /\ CountRunningDownloads < max

StartHeadOnly ==   \* mutant: one start at a time, `if` where the code loops
  /\ starting /\ MaySlotStart
  /\ queue' = Tail(queue)
  /\ state' = [state EXCEPT ![Head(queue).download] = IF @ = "NONE" THEN @ ELSE "RUNNING"]
  /\ starting' = FALSE
  /\ UNCHANGED <<downloads, sharer, contact, max, aborting, reused>>
StartHead ==
  /\ starting /\ MaySlotStart
  /\ queue' = Tail(queue)
  /\ LET d == Head(queue).download IN
     IF d \notin Listed
       THEN UNCHANGED <<state, contact>>
       ELSE /\ \E result \in {"RUNNING", "FAILED"} : state' = [state EXCEPT ![d] = result]
            /\ contact' = [contact EXCEPT ![d] = Head(queue).sharer]
  /\ UNCHANGED <<downloads, sharer, max, starting, aborting, reused>>

StartedEnough ==
  /\ starting /\ ~MaySlotStart
  /\ starting' = FALSE
  /\ UNCHANGED <<downloads, queue, state, sharer, contact, max, aborting, reused>>

StartNextQueuedDownload == StartHead \/ StartedEnough

(* DownloadStateChanged when download d ends in state s: the listed        *)
(* download frees its slot, and the loop runs.                             *)
EndsQuietly(d, s) ==   \* mutant: the freed slot is not offered
  /\ state' = [state EXCEPT ![d] = s]
  /\ UNCHANGED <<downloads, queue, sharer, contact, max, starting, reused>>
Ends(d, s) ==
  /\ state' = [state EXCEPT ![d] = s]
  /\ starting' = TRUE
  /\ UNCHANGED <<downloads, queue, sharer, contact, max, reused>>

(* AbortAll, one download per iteration; ended ones are left as they are.  *)
AbortAllStepBackwards ==   \* mutant: from the newest download to the oldest
  /\ aborting > 0 /\ ~starting
  /\ IF aborting > Len(downloads)
       THEN aborting' = 0 /\ UNCHANGED <<downloads, queue, state, sharer, contact, max, starting, reused>>
       ELSE /\ aborting' = aborting + 1
            /\ IF state[Reverse(downloads)[aborting]] \in Finished
                 THEN UNCHANGED <<downloads, queue, state, sharer, contact, max, starting, reused>>
                 ELSE Ends(Reverse(downloads)[aborting], "FAILED")
AbortAllStep ==
  /\ aborting > 0 /\ ~starting
  /\ IF aborting > Len(downloads)
       THEN aborting' = 0 /\ UNCHANGED <<downloads, queue, state, sharer, contact, max, starting, reused>>
       ELSE /\ aborting' = aborting + 1
            /\ IF state[downloads[aborting]] \in Finished
                 THEN UNCHANGED <<downloads, queue, state, sharer, contact, max, starting, reused>>
                 ELSE Ends(downloads[aborting], "FAILED")

AtRest == ~starting /\ aborting = 0
-----------------------------------------------------------------------------
(* Calls from the window. *)

(* StartDownloads makes one download per sharer that can be reached, none  *)
(* when every sharer has left or is behind a firewall.  A download is made *)
(* at any address that is free, also at one a start is still queued for.   *)
Allocatable == Download \ Listed
QueuedStartsToOne(ds) ==   \* mutant: every start has the last sharer's address
  [i \in DOMAIN ds |-> [download |-> ds[i], sharer |-> sharer'[Last(ds)]]]
QueuedStarts(ds) ==
  [i \in DOMAIN ds |-> [download |-> ds[i], sharer |-> sharer'[ds[i]]]]
StartDownloads(who) ==
  /\ AtRest
  /\ Len(queue) + Cardinality(who) <= MaxQueued
  /\ \E ds \in [1..Cardinality(who) -> Allocatable] :
       /\ IsInjective(ds)
       /\ sharer' \in [Download -> Sharer]
       /\ \A d \in Download \ Range(ds) : sharer'[d] = sharer[d]
       /\ {sharer'[d] : d \in Range(ds)} = who
       /\ downloads' = downloads \o ds
       /\ queue' = queue \o QueuedStarts(ds)
       /\ state' = [d \in Download |-> IF d \in Range(ds) THEN "IDLE" ELSE state[d]]
       /\ reused' = \/ queue # <<>> /\ reused
                    \/ Range(ds) \cap QueuedDownloads # {}
  /\ starting' = TRUE
  /\ UNCHANGED <<contact, max, aborting>>

AbortDownload(d) ==
  /\ AtRest
  /\ state[d] \in {"IDLE", "RUNNING"}
  /\ Ends(d, "FAILED")
  /\ UNCHANGED aborting

(* From the menu, or from the idle tick when auto-clear is on.             *)
(* What remains stays in its order.                                        *)
Remaining == {i \in DOMAIN downloads : state[downloads[i]] \notin Finished}
ClearFinishedDownloads ==
  /\ AtRest
  /\ Remaining # DOMAIN downloads
  /\ \E f \in [1..Cardinality(Remaining) -> Remaining] :
       /\ Range(f) = Remaining
       /\ \A i, j \in DOMAIN f : i < j => f[i] < f[j]
       /\ downloads' = [i \in DOMAIN f |-> downloads[f[i]]]
  /\ state' = [d \in Download |-> IF state[d] \in Finished THEN "NONE" ELSE state[d]]
  /\ UNCHANGED <<queue, sharer, contact, max, starting, aborting, reused>>

SetMaxUnclamped(n) ==   \* mutant: a cap of zero is taken
  /\ CapChanges /\ AtRest
  /\ max' = n
  /\ UNCHANGED <<downloads, queue, state, sharer, contact, starting, aborting, reused>>
SetMaxSimultaneousDownloads(n) ==
  /\ CapChanges /\ AtRest
  /\ max' = IF n = 0 THEN 1 ELSE n
  /\ UNCHANGED <<downloads, queue, state, sharer, contact, starting, aborting, reused>>

AbortAll ==
  /\ AtRest
  /\ aborting' = 1
  /\ UNCHANGED <<downloads, queue, state, sharer, contact, max, starting, reused>>

(* A running download ends by itself: its peer hung up or refused.         *)
SessionEnds(d) ==
  /\ AtRest
  /\ state[d] = "RUNNING"
  /\ \E s \in Finished : Ends(d, s)
  /\ UNCHANGED aborting

Next ==
  \/ StartNextQueuedDownload
  \/ AbortAllStep
  \/ \E who \in SUBSET Sharer : StartDownloads(who)
  \/ \E d \in Download : AbortDownload(d) \/ SessionEnds(d)
  \/ ClearFinishedDownloads
  \/ \E n \in 0..MaxCap : SetMaxSimultaneousDownloads(n)
  \/ AbortAll

Spec == Init /\ [][Next]_vars

(* A loop of the GUI thread goes on.  Nothing makes a session end: the     *)
(* code has no timeout and a peer need not hang up.                        *)
FairSpec ==
  /\ Spec
  /\ WF_vars(StartNextQueuedDownload)
  /\ WF_vars(AbortAllStep)
-----------------------------------------------------------------------------
(* Properties. *)

(* No slot is left unused while a start is queued: whatever frees a slot   *)
(* or queues a start has the loop run until the slots or the starts are    *)
(* used up, in the middle of AbortAll too.  Only a cap that is raised      *)
(* leaves slots to the next one who runs the loop.                         *)
IdleSlot == ~starting /\ queue # <<>> /\ CountRunningDownloads < max
SlotsAreUsed == [][IdleSlot' => IdleSlot \/ max' > max]_vars

(* A download that waits has its start queued, and somebody to wait for    *)
(* whose end will run the loop: raising the cap, a cancel or a failed      *)
(* start never leaves the waiting ones with nobody to wake them.           *)
Waiting == {d \in Download : state[d] = "IDLE"}
WaitersWillBeStarted ==
  /\ Waiting \subseteq QueuedDownloads
  /\ queue # <<>> /\ ~starting => Running # {}

(* AbortAll stops everything: though every abort frees a slot that the     *)
(* reentrant loop gives to a waiting download, none is left when it ends.  *)
(* That rests on the order of the queue, and so on no address having been  *)
(* allocated again while a start was queued for it.                        *)
Stopped == Running = {} /\ Waiting = {}
AbortAllStops == [][aborting > 0 /\ aborting' = 0 /\ ~reused => Stopped]_vars

(* DownloadManager.h says of AbortAll that it aborts everything, at quit,  *)
(* whatever addresses the downloads have.                                  *)
AbortsEverything == [][aborting > 0 /\ aborting' = 0 => Stopped]_vars

(* A download connects to the peer it was made for.                        *)
ContactsItsSharer == \A d \in Running : contact[d] = sharer[d]

(* A download waits for ever only behind sessions that never end: from    *)
(* some time on the same downloads run, and some do.                       *)
WaitingEnds ==
  \A d \in Download :
    <>[](state[d] = "IDLE") => \E holding \in SUBSET Download \ {{}} : <>[](Running = holding)

(* FileDownload.h says of a finished or failed download that its session   *)
(* is over: it is cleared some day but never runs again.                   *)
OverStaysOver ==
  [][\A d \in Download : state[d] \in Finished => state'[d] # "RUNNING"]_vars
=============================================================================
