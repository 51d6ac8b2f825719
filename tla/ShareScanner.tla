---------------------------- MODULE ShareScanner ----------------------------
(***************************************************************************)
(* The background walk of the share folder: src/core/ShareScanner.{h,cpp}. *)
(*                                                                         *)
(* Two threads.  The scanning thread takes one step per section it holds   *)
(* fLock for; the GUI thread calls StartScan and StopScan, which wait for  *)
(* the thread to end, and takes what was found.  fThreadRunning and        *)
(* fShareDirectory are the GUI thread's and are not guarded by fLock, yet  *)
(* the scanning thread reads the latter.                                   *)
(*                                                                         *)
(* A folder is a set of entries, <<sub-folder, leaf name>>, that the walk  *)
(* meets in no particular order.  What it skips (dot files, sockets) is    *)
(* not among them, nor what it cannot reach: the entries of a directory    *)
(* below kMaximumScanDepth, or of one that opendir() refuses.              *)
(***************************************************************************)
EXTENDS Naturals, FiniteSets, Sequences

CONSTANTS
  Folder,  \* directories the user may share
  Sub,     \* sub-folders of one
  Name,    \* leaf names
  MaxRepeats  \* bound: names met again while the walk can meet new entries

ASSUME ScannerAssumption ==
  /\ IsFiniteSet(Sub) /\ IsFiniteSet(Name)
  /\ MaxRepeats \in Nat

VARIABLES
  directory,  \* fShareDirectory
  pending,    \* fPendingFiles
  claimed,    \* the keys of fClaimedNames
  duplicates, \* fDuplicateNameCount
  running,    \* fThreadRunning
  finished,   \* fScanFinished
  abort,      \* fShouldAbort
  thread,     \* where the scanning thread is
  root,       \* the folder it opened
  todo,       \* entries it has not come to
  current,    \* the entry it is at
  call,       \* what the GUI thread waits for the thread to end for
  taken,      \* files the owner took since it last started a scan
  contents,   \* what the walk can reach of each folder
  present     \* history: entries of root that were there ever since it was opened

guarded == <<pending, claimed, duplicates, finished, abort>>
walk == <<root, todo, current>>
gui == <<directory, running, call, taken>>
disk == <<contents, present>>
vars == <<guarded, thread, walk, gui, disk>>
-----------------------------------------------------------------------------
Entry == Sub \X Name
SharedFile == [folder: Folder, sub: Sub, name: Name]
File(d, e) == [folder |-> d, sub |-> e[1], name |-> e[2]]

TypeOK ==
  /\ directory \in Folder
  /\ pending \in Seq(SharedFile)
  /\ claimed \subseteq Name
  /\ duplicates \in Nat
  /\ {running, finished, abort} \subseteq BOOLEAN
  /\ thread \in {"none", "open", "read", "claim", "append", "finish", "done"}
  /\ root \in Folder
  /\ todo \subseteq Entry
  /\ current \in SharedFile
  /\ call \in {"none", "stop", "start"}
  /\ taken \subseteq SharedFile
  /\ contents \in [Folder -> SUBSET Entry]
  /\ present \subseteq Entry
  /\ running <=> thread # "none"

Init ==
  /\ directory \in Folder
  /\ pending = <<>>
  /\ claimed = {}
  /\ duplicates = 0
  /\ running = FALSE
  /\ finished = FALSE
  /\ abort = FALSE
  /\ thread = "none"
  /\ root = directory
  /\ todo = {}
  /\ current \in SharedFile
  /\ call = "none"
  /\ taken = {}
  /\ contents \in [Folder -> SUBSET Entry]
  /\ present = {}
-----------------------------------------------------------------------------
(* The scanning thread. *)

OpenDirectory ==
  /\ thread = "open"
  /\ root' = directory
  /\ todo' = contents[directory]
  /\ present' = contents[directory]
  /\ thread' = "read"
  /\ UNCHANGED <<guarded, current, gui, contents>>

(* readdir() comes to its end, or fShouldAbort is seen set.                *)
StopReading ==
  /\ thread = "read"
  /\ todo = {} \/ abort
  /\ thread' = "finish"
  /\ UNCHANGED <<guarded, walk, gui, disk>>

(* The next entry.  Its path is built from a reference to fShareDirectory, *)
(* so the folder is the one opened or, if the GUI thread has assigned      *)
(* another meanwhile, that one; stat() fails where there is no such file.  *)
ReadEntry ==
  /\ thread = "read"
  /\ ~abort
  /\ \E e \in todo, d \in {root, directory} :
       /\ todo' = todo \ {e}
       /\ current' = File(d, e)
       /\ thread' = IF e \in contents[d] THEN "claim" ELSE "read"
  /\ UNCHANGED <<guarded, root, gui, disk>>

ClaimAnyName ==   \* mutant: the name is not looked up
  /\ thread = "claim"
  /\ claimed' = claimed \cup {current.name}
  /\ thread' = "append"
  /\ UNCHANGED <<pending, duplicates, finished, abort, walk, gui, disk>>
ClaimName ==
  /\ thread = "claim"
  /\ IF current.name \in claimed
       THEN /\ duplicates' = duplicates + 1
            /\ thread' = "read"
            /\ UNCHANGED claimed
       ELSE /\ claimed' = claimed \cup {current.name}
            /\ thread' = "append"
            /\ UNCHANGED duplicates
  /\ UNCHANGED <<pending, finished, abort, walk, gui, disk>>

AppendFile ==
  /\ thread = "append"
  /\ pending' = Append(pending, current)
  /\ thread' = "read"
  /\ UNCHANGED <<claimed, duplicates, finished, abort, walk, gui, disk>>

(* Also of a scan that was aborted.                                        *)
Finish ==
  /\ thread = "finish"
  /\ finished' = TRUE
  /\ thread' = "done"
  /\ UNCHANGED <<pending, claimed, duplicates, abort, walk, gui, disk>>

ScanThread ==
  OpenDirectory \/ StopReading \/ ReadEntry \/ ClaimName \/ AppendFile \/ Finish
-----------------------------------------------------------------------------
(* The GUI thread. *)

(* StopScan, and StartScan which begins with it: with a thread running,    *)
(* ask it to end and wait; with none there is nothing to wait for.         *)
AskToStop(c) ==
  /\ call' = c
  /\ abort' = (abort \/ running)
  /\ UNCHANGED <<pending, claimed, duplicates, finished, thread, walk, running, disk>>

StopScan ==
  /\ call = "none"
  /\ AskToStop("stop")
  /\ UNCHANGED <<directory, taken>>

(* SetShareDirectory and StartScan: the owner calls the one before the     *)
(* other, and forgets what it took of the scan before.                     *)
StartScan(d) ==
  /\ call = "none"
  /\ directory' = d
  /\ taken' = {}
  /\ AskToStop("start")

(* With the scan stopped the owner forgets what it took.                   *)
ForgetTaken ==
  /\ call = "none" /\ ~running
  /\ taken' = {}
  /\ UNCHANGED <<guarded, thread, walk, directory, running, call, disk>>

JoinedFlag == running => thread = "done" /\ finished   \* mutant: waits for fScanFinished
JoinedThread == running => thread = "done"

StopScanLeavesRunning ==   \* mutant: fThreadRunning is not reset
  /\ call = "stop" /\ JoinedThread
  /\ call' = "none"
  /\ thread' = "none"
  /\ UNCHANGED <<guarded, walk, running, directory, taken, disk>>
StopScanReturns ==
  /\ call = "stop" /\ JoinedThread
  /\ call' = "none"
  /\ running' = FALSE
  /\ thread' = "none"
  /\ UNCHANGED <<guarded, walk, directory, taken, disk>>

ClearPendingNot == claimed' = {} /\ duplicates' = 0 /\ UNCHANGED pending   \* mutant
ClearAllButNames == pending' = <<>> /\ duplicates' = 0 /\ UNCHANGED claimed   \* mutant
ClearPending == claimed' = {} /\ duplicates' = 0 /\ pending' = <<>>

(* The rest of StartScan; pthread_create may fail.                         *)
StartScanReturns ==
  /\ call = "start" /\ JoinedThread
  /\ call' = "none"
  /\ ClearPending
  /\ finished' = FALSE
  /\ abort' = FALSE
  /\ \/ running' = TRUE /\ thread' = "open"
     \/ running' = FALSE /\ thread' = "none"
  /\ UNCHANGED <<walk, directory, taken, disk>>

TakeDiscoveredFiles ==
  /\ call = "none" /\ pending # <<>>
  /\ taken' = taken \cup {pending[i] : i \in DOMAIN pending}
  /\ pending' = <<>>
  /\ UNCHANGED <<claimed, duplicates, finished, abort, thread, walk, directory, running, call, disk>>

TakeScanFinished ==
  /\ call = "none" /\ finished
  /\ finished' = FALSE
  /\ UNCHANGED <<pending, claimed, duplicates, abort, thread, walk, gui, disk>>

GuiThread ==
  \/ StopScan
  \/ \E d \in Folder : StartScan(d)
  \/ ForgetTaken
  \/ StopScanReturns
  \/ StartScanReturns
  \/ TakeDiscoveredFiles
  \/ TakeScanFinished

(* The user's other programs write to the folders.  Of an entry that was  *)
(* created under readdir() it is open whether it returns it.               *)
FolderChanges(d, e) ==
  /\ contents' = [contents EXCEPT ![d] = IF e \in @ THEN @ \ {e} ELSE @ \cup {e}]
  /\ present' = IF d = root THEN present \ {e} ELSE present
  /\ todo' \in IF d = root /\ thread = "read" /\ e \notin contents[d] /\ duplicates < MaxRepeats
                  THEN {todo, todo \cup {e}}
                  ELSE {todo}
  /\ UNCHANGED <<guarded, thread, root, current, gui>>

Next ==
  \/ ScanThread
  \/ GuiThread
  \/ \E d \in Folder, e \in Entry : FolderChanges(d, e)

Spec == Init /\ [][Next]_vars

(* Neither thread is starved; a call of the GUI thread that can return     *)
(* does.                                                                   *)
FairSpec == Spec /\ WF_vars(ScanThread) /\ WF_vars(StopScanReturns \/ StartScanReturns)
-----------------------------------------------------------------------------
(* Properties. *)

Found == {pending[i] : i \in DOMAIN pending} \cup taken
NamesOf(S) == {f.name : f \in S}
NamesOfEntries(E) == {e[2] : e \in E}
Completed == thread = "done" /\ ~abort

(* However the calls interleave with the walk, no file is delivered twice, *)
(* and no name with it: what was found so far has each claimed name once,  *)
(* less the one between its claim and its append.                          *)
EachNameOnce ==
  call = "none" /\ running =>
    /\ Cardinality(Found) = Len(pending) + Cardinality(taken)
    /\ Cardinality(Found) = Cardinality(NamesOf(Found))
    /\ claimed = NamesOf(Found) \cup (IF thread = "append" THEN {current.name} ELSE {})

(* Though fShareDirectory is changed under a running scan, what was found  *)
(* belongs to the folder shared now: the next scan discards the rest.      *)
FoundInFolder == call = "none" /\ running => \A f \in Found : f.folder = directory

(* A scan that ends by itself has delivered every leaf name that was in    *)
(* the folder all the while, and delivered or counted every such file,     *)
(* whatever was created, deleted or renamed meanwhile.                     *)
ScanIsComplete ==
  Completed /\ call = "none" =>
    /\ NamesOfEntries(present) \subseteq NamesOf(Found)
    /\ Cardinality(present) <= duplicates + Cardinality(Found)

(* StopScan and StartScan return: the GUI thread never waits for ever.     *)
CallsReturn == call # "none" ~> call = "none"

(* ShareScanner.h says of TakeScanFinished that it is true after a scan    *)
(* completes; of one that was cut short, entries left, it must not say so. *)
FinishedMeansComplete == finished => todo = {}
=============================================================================
