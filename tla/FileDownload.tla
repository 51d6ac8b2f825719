--------------------------- MODULE FileDownload ---------------------------
(***************************************************************************)
(* One connection to one peer, downloading files from it:                  *)
(* src/core/FileDownload.{h,cpp}.                                          *)
(*                                                                         *)
(* The peer is a stranger: it may send any message in any order and hang   *)
(* up at any time.  Handlers run on the GUI thread, one at a time, so each *)
(* is one action, but for the one that looks for a free name and opens it: *)
(* other programs write to the download directory in between.  Sizes are   *)
(* counted in units; sanitising of names, rates and texts are left out, a  *)
(* file name is a member of File.                                          *)
(***************************************************************************)
EXTENDS Integers, FiniteSets

CONSTANTS
  File,        \* sanitised leaf names a header may carry
  MaxAttempt,  \* kMaximumRenameAttempts - 1: the last "name (n).ext" tried
  MaxSize,     \* bound: the largest size a header announces
  MaxDone,     \* bound: the most a peer sends for one file
  MaxFiles,    \* bound: files completed in one session
  Requested    \* how many files were asked for

ASSUME DownloadAssumption ==
  /\ MaxAttempt \in Nat \ {0}
  /\ MaxSize \in Nat
  /\ MaxDone \in Nat
  /\ MaxFiles \in Nat
  /\ Requested \in Nat \ {0}

VARIABLES
  state,      \* fState
  link,       \* MUSCLE's side: not started, refused, connecting, up, or shut down
  isOpen,     \* fOutputFile # NULL
  path,       \* fOutputPath, NoPath when empty
  size,       \* fCurrentFileSize
  done,       \* fCurrentFileBytesDone
  completed,  \* fCompletedFileCount
  candidate,  \* the path _OpenOutputFile has found free and is about to open,
              \* NoPath when the GUI thread is not in between
  disk,       \* the download directory
  late        \* whether the user may cancel before Start, and MUSCLE delivers
              \* what it had queued when it was shut down: chosen at the start

vars == <<state, link, isOpen, path, size, done, completed, candidate, disk, late>>
-----------------------------------------------------------------------------
Finished == {"FINISHED", "FAILED"}
DownloadState == {"IDLE", "CONNECTING", "REQUESTING", "QUEUED_REMOTELY",
                  "TRANSFERRING"} \cup Finished
IsFinished == state \in Finished

(* <<f, 1>> is f itself, <<f, n>> is f with " (n)" before the extension.   *)
Path == File \X (1..MaxAttempt)
NoPath == <<>>

(* What a path holds.  Of our own files, the size their header announced   *)
(* and how much was written.                                               *)
Entry == [owner: {"nobody", "other", "us"}, size: Int, bytes: Nat]
Nothing == [owner |-> "nobody", size |-> 0, bytes |-> 0]
Foreign == [owner |-> "other", size |-> 0, bytes |-> 0]
Ours(s, b) == [owner |-> "us", size |-> s, bytes |-> b]

TypeOK ==
  /\ state \in DownloadState
  /\ link \in {"none", "refused", "connecting", "up", "shut"}
  /\ isOpen \in BOOLEAN
  /\ path \in Path \cup {NoPath}
  /\ isOpen => path # NoPath
  /\ size \in -1..MaxSize
  /\ done \in Nat
  /\ completed \in Nat
  /\ candidate \in Path \cup {NoPath}
  /\ disk \in [Path -> Entry]
  /\ late \in BOOLEAN

Init ==
  /\ state = "IDLE"
  /\ link = "none"
  /\ isOpen = FALSE
  /\ path = NoPath
  /\ size = 0
  /\ done = 0
  /\ completed = 0
  /\ candidate = NoPath
  /\ disk \in [Path -> {Nothing, Foreign}]
  /\ late \in BOOLEAN
-----------------------------------------------------------------------------
(* remove() of a path; the empty path is not removed.                      *)
Removed(d, p) == IF p = NoPath THEN d ELSE [d EXCEPT ![p] = Nothing]

(* _FinishCurrentFile: a file that is short is removed, any other counts.  *)
CurrentIsComplete == size <= 0 \/ done >= size
CurrentCounts == isOpen /\ CurrentIsComplete
AfterFinish(d) == IF isOpen /\ ~CurrentIsComplete THEN Removed(d, path) ELSE d
PathAfterFinish == IF isOpen THEN NoPath ELSE path
CompletedAlways == IF isOpen THEN completed + 1 ELSE completed   \* mutant: a short file counts
CompletedAfterFinish == IF CurrentCounts THEN completed + 1 ELSE completed

FinishLeavesOpen(d) ==   \* mutant: fOutputFile is not reset
  /\ disk' = AfterFinish(d)
  /\ completed' = CompletedAfterFinish
  /\ path' = PathAfterFinish
  /\ UNCHANGED <<isOpen, size, done>>
FinishCurrentFile(d) ==
  /\ disk' = AfterFinish(d)
  /\ completed' = CompletedAfterFinish
  /\ path' = PathAfterFinish
  /\ isOpen' = FALSE
  /\ size' = IF isOpen THEN 0 ELSE size
  /\ done' = IF isOpen THEN 0 ELSE done

(* Abort, with the directory and fOutputPath as they are when it is called.*)
(* It shuts the thread down, removes the part-written file and fails; of a *)
(* session that is over it changes nothing.  fOutputPath keeps its value.  *)
AbortKeepingFile(d, p) ==   \* mutant: the part-written file stays
  /\ disk' = d /\ isOpen' = FALSE
  /\ state' = "FAILED"
  /\ link' = IF IsFinished \/ link = "none" THEN link ELSE "shut"
AbortWith(d, p) ==
  IF IsFinished
    THEN disk' = d /\ isOpen' = FALSE /\ UNCHANGED <<state, link>>
    ELSE /\ disk' = Removed(d, p)
         /\ isOpen' = FALSE
         /\ state' = "FAILED"
         /\ link' = IF link = "none" THEN "none" ELSE "shut"

(* Attempts _OpenOutputFile makes, in order, until a path is free.         *)
FreeAttempts(d, f) == {n \in 1..MaxAttempt : d[<<f, n>>].owner = "nobody"}
OpenedPathPlain(d, f) == <<f, 1>>   \* mutant: an existing file is overwritten
OpenedPath(d, f) ==
  <<f, CHOOSE n \in FreeAttempts(d, f) : \A m \in FreeAttempts(d, f) : n <= m>>
-----------------------------------------------------------------------------
(* Calls. *)

(* Start, which the manager calls once: it fails on a bad address, a thread *)
(* that does not start or a connect session that is refused.  Nothing in it *)
(* looks at fState.                                                         *)
Start ==
  /\ link = "none"
  /\ \/ state' = "FAILED" /\ link' = "refused"
     \/ state' = "CONNECTING" /\ link' = "connecting"
  /\ UNCHANGED <<isOpen, path, size, done, completed, candidate, disk>>

Abort ==
  /\ ~IsFinished /\ candidate = NoPath
  /\ link # "none" \/ late
  /\ AbortWith(disk, path)
  /\ UNCHANGED <<path, size, done, completed, candidate>>

(* Callbacks.  Once shut down, MUSCLE is silent or delivers what is left.  *)
Late == late /\ link = "shut"
Delivers == candidate = NoPath /\ (link = "up" \/ Late)

SessionConnected ==
  /\ candidate = NoPath
  /\ link = "connecting" \/ Late
  /\ link' = IF link = "connecting" THEN "up" ELSE link
  /\ state' = "REQUESTING"
  /\ UNCHANGED <<isOpen, path, size, done, completed, candidate, disk>>

HangUpFinishes ==   \* mutant: whether anything came is not looked at
  /\ state' = "FINISHED"
  /\ link' = "shut"
  /\ UNCHANGED <<isOpen, disk>>
HangUp ==
  IF isOpen
    THEN AbortWith(disk, path)
    ELSE /\ state' = IF completed > 0 THEN "FINISHED" ELSE "FAILED"
         /\ link' = "shut"
         /\ UNCHANGED <<isOpen, disk>>

SessionDisconnected ==
  /\ candidate = NoPath
  /\ link \in {"connecting", "up"} \/ Late
  /\ IF IsFinished THEN link' = "shut" /\ UNCHANGED <<state, isOpen, disk>> ELSE HangUp
  /\ UNCHANGED <<path, size, done, completed, candidate>>

(* _HandleFileHeader without a name or a size.                             *)
MalformedHeader ==
  /\ Delivers
  /\ AbortWith(AfterFinish(disk), PathAfterFinish)
  /\ path' = PathAfterFinish
  /\ completed' = CompletedAfterFinish
  /\ size' = IF isOpen THEN 0 ELSE size
  /\ done' = IF isOpen THEN 0 ELSE done
  /\ UNCHANGED candidate

(* _HandleFileHeader for file f of size s, up to the last look at the      *)
(* directory: the file open so far is finished first, and then no name is  *)
(* left or no directory made, or a path with nothing in the way is found.  *)
CannotOpen(d) ==
  /\ AbortWith(d, PathAfterFinish)
  /\ UNCHANGED candidate
PathFound(d, f) ==
  /\ FreeAttempts(d, f) # {}
  /\ candidate' = OpenedPath(d, f)
  /\ disk' = d
  /\ isOpen' = FALSE
  /\ UNCHANGED <<state, link>>
FileHeader(f, s) ==
  /\ Delivers
  /\ completed' = CompletedAfterFinish
  /\ path' = PathAfterFinish
  /\ size' = s
  /\ done' = 0
  /\ CannotOpen(AfterFinish(disk)) \/ PathFound(AfterFinish(disk), f)

(* The rest of it: fopen for writing, which empties whatever is at the     *)
(* path by now, or fails.                                                  *)
OpenOutputFile ==
  /\ candidate # NoPath
  /\ candidate' = NoPath
  /\ \/ AbortWith(disk, path) /\ UNCHANGED path
     \/ /\ disk' = [disk EXCEPT ![candidate] = Ours(size, 0)]
        /\ path' = candidate
        /\ isOpen' = TRUE
        /\ state' = "TRANSFERRING"
        /\ UNCHANGED link
  /\ UNCHANGED <<size, done, completed>>

(* _HandleFileData, with a file open (without one it returns at once):     *)
(* no data at all,                                                         *)
EmptyData ==
  /\ Delivers /\ isOpen
  /\ FinishCurrentFile(disk)
  /\ UNCHANGED <<state, link, candidate>>

(* data that is corrupt, in an unknown encoding, or that does not fit,     *)
UnusableData ==
  /\ Delivers /\ isOpen
  /\ AbortWith(disk, path)
  /\ UNCHANGED <<path, size, done, completed, candidate>>

(* and n good units: the file is finished when the header's size is reached*)
ExceedsSize(n) == size >= 0 /\ done + n > size   \* mutant: > for >=
ReachesSize(n) == size >= 0 /\ done + n >= size
FileData(n) ==
  /\ Delivers /\ isOpen
  /\ done + n <= MaxDone
  /\ disk' = [disk EXCEPT ![path].bytes = @ + n]
  /\ IF ReachesSize(n)
       THEN /\ isOpen' = FALSE
            /\ path' = NoPath
            /\ completed' = completed + 1
            /\ size' = 0
            /\ done' = 0
       ELSE /\ done' = done + n
            /\ UNCHANGED <<isOpen, path, size, completed>>
  /\ UNCHANGED <<state, link, candidate>>

NotifyQueued ==
  /\ Delivers
  /\ state' = "QUEUED_REMOTELY"
  /\ UNCHANGED <<link, isOpen, path, size, done, completed, candidate, disk>>

Rejected ==
  /\ Delivers
  /\ AbortWith(disk, path)
  /\ UNCHANGED <<path, size, done, completed, candidate>>

(* Another program creates a file in the download directory, at any time.  *)
ForeignFile(p) ==
  /\ disk[p].owner = "nobody"
  /\ disk' = [disk EXCEPT ![p] = Foreign]
  /\ UNCHANGED <<state, link, isOpen, path, size, done, completed, candidate>>

MessageReceived ==
  \/ MalformedHeader
  \/ \E f \in File, s \in -1..MaxSize : completed < MaxFiles /\ FileHeader(f, s)
  \/ EmptyData
  \/ UnusableData
  \/ \E n \in 1..MaxDone : FileData(n)
  \/ NotifyQueued
  \/ Rejected

Next ==
  /\ \/ Start
     \/ Abort
     \/ SessionConnected
     \/ SessionDisconnected
     \/ MessageReceived
     \/ OpenOutputFile
     \/ \E p \in Path : ForeignFile(p)
  /\ UNCHANGED late

Spec == Init /\ [][Next]_vars
-----------------------------------------------------------------------------
(* Properties. *)

Complete(e) == e.size <= 0 \/ e.bytes >= e.size
InProgress(p) == isOpen /\ path = p

(* Nothing of ours that is shorter than its header said stays behind: the  *)
(* only part-written file is the one being written.                        *)
NoPartialFiles ==
  \A p \in Path : disk[p].owner = "us" /\ ~Complete(disk[p]) => InProgress(p)

(* fCompletedFileCount counts exactly the files of ours that are on disk   *)
(* and closed, so "finished" is never said of a session that left nothing. *)
CountIsOnDisk ==
  completed = Cardinality({p \in Path : disk[p].owner = "us" /\ ~InProgress(p)})

(* A file that is there, the user's or one completed earlier, is never the *)
(* path chosen for a download, and nothing the peer sends overwrites or    *)
(* removes it: only a file that another program creates at the path chosen *)
(* already, before it is opened, is not safe.  (With late events none is:  *)
(* fOutputPath outlives the abort that removed its file.)                  *)
ChosenMeanwhile(p) == candidate = p /\ disk[p].owner = "other"
NoFileLost ==
  [][\A p \in Path : ~late /\ disk[p].owner # "nobody" /\ ~InProgress(p)
       => /\ candidate' = p => candidate = p
          /\ disk'[p] = disk[p] \/ ChosenMeanwhile(p)]_vars

(* _OpenOutputFile says "Never overwrite.": no file of another program's   *)
(* is ever emptied or removed, whenever it was created.                    *)
NeverOverwritten ==
  [][\A p \in Path : ~late /\ disk[p].owner = "other" => disk'[p] = disk[p]]_vars

(* What its watchers may rely on, without late events.                     *)
Lifecycle == INSTANCE DownloadLifecycle WITH state <- IF late THEN "IDLE" ELSE state
LifecycleSpec == Lifecycle!Spec

(* "A peer that hangs up having sent everything we asked for has simply    *)
(* finished": a session that finished completed every requested file.      *)
FinishedMeansEverything == state = "FINISHED" => completed >= Requested

(* What FileDownload.h promises of every header: a size that disagrees     *)
(* with it aborts the session, so no file kept differs from it.            *)
KeptFilesHaveTheirSize ==
  \A p \in Path : disk[p].owner = "us" /\ ~InProgress(p) /\ disk[p].size >= 0
                    => disk[p].bytes = disk[p].size
=============================================================================
