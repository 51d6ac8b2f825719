--------------------------- MODULE Sharing_proofs ---------------------------
(***************************************************************************)
(* Proofs about ShareScanner, whose specification is Spec, and, from       *)
(* SharingImplementsScanner on, about Sharing, whose specification is      *)
(* SharingSpec: for any folders, sub-folders, names and connections.       *)
(***************************************************************************)
EXTENDS Sharing, FiniteSetTheorems, SequenceTheorems, TLAPS

(* A scan is under way or has just ended, and the GUI thread waits for     *)
(* nothing.                                                                *)
Scanning == call = "none" /\ running
Handed == {pending[i] : i \in DOMAIN pending}

(* No file and no name was found twice; the name being handed over is      *)
(* claimed and not yet found.                                              *)
PendingOnce ==
  /\ \A i, j \in DOMAIN pending : pending[i] = pending[j] => i = j
  /\ Handed \cap taken = {}
NamesOnce == \A f, g \in Found : f.name = g.name => f = g
ClaimsOK ==
  /\ claimed = NamesOf(Found) \cup (IF thread = "append" THEN {current.name} ELSE {})
  /\ thread = "append" => current.name \notin NamesOf(Found)
OnceOK ==
  /\ IsFiniteSet(taken)
  /\ call = "start" => taken = {}
  /\ Scanning => PendingOnce /\ NamesOnce /\ ClaimsOK

(* A scan sees one folder, though fShareDirectory is read again and again. *)
FolderOK ==
  Scanning =>
    /\ thread # "open" => root = directory
    /\ thread \in {"claim", "append"} => current.folder = directory
    /\ \A f \in Found : f.folder = directory

(* What was there all the while and is not ahead of the walk was handed    *)
(* over or counted as a name met before, or is the entry the walk is at.   *)
AtEntry == IF thread \in {"claim", "append"} THEN 1 ELSE 0
Passed == present \ todo
WalkOK ==
  /\ present \subseteq contents[root]
  /\ thread \in {"finish", "done"} /\ ~abort => todo = {}
NamesPassed ==
  Scanning /\ ~abort /\ thread # "open" =>
    \A e \in Passed : e[2] \in claimed \/ (thread = "claim" /\ e[2] = current.name)
CountPassed ==
  Scanning /\ ~abort /\ thread # "open" =>
    Cardinality(Passed) <= duplicates + Cardinality(Found) + AtEntry

Files == <<pending, claimed, duplicates, taken>>
-----------------------------------------------------------------------------
LEMMA EntriesAreFinite ==
  ASSUME NEW S \in SUBSET Entry
  PROVE  IsFiniteSet(S) /\ Cardinality(S) \in Nat
  BY ScannerAssumption, FS_Product, FS_Subset, FS_CardinalityType DEF Entry

LEMMA FileType ==
  ASSUME NEW d \in Folder, NEW e \in Entry
  PROVE  File(d, e) \in SharedFile /\ File(d, e).name = e[2] /\ File(d, e).folder = d
  BY DEF File, SharedFile, Entry

LEMMA AppendedFile ==
  ASSUME TypeOK, AppendFile
  PROVE  /\ pending' \in Seq(SharedFile)
         /\ DOMAIN pending' = 1..Len(pending) + 1 /\ DOMAIN pending = 1..Len(pending)
         /\ Len(pending) \in Nat /\ Len(pending') = Len(pending) + 1
         /\ \A i \in DOMAIN pending : pending'[i] = pending[i]
         /\ pending'[Len(pending) + 1] = current
         /\ Handed' = Handed \cup {current}
         /\ Found' = Found \cup {current}
<1>1. pending \in Seq(SharedFile) /\ current \in SharedFile /\ pending' = Append(pending, current)
      /\ taken' = taken
  BY DEF TypeOK, AppendFile, gui
<1>2. /\ pending' \in Seq(SharedFile) /\ Len(pending) \in Nat
      /\ Len(pending') = Len(pending) + 1
      /\ \A i \in 1..Len(pending) : pending'[i] = pending[i]
      /\ pending'[Len(pending) + 1] = current
  BY <1>1, AppendProperties, LenProperties
<1>3. DOMAIN pending' = 1..Len(pending) + 1 /\ DOMAIN pending = 1..Len(pending)
  BY <1>1, <1>2, LenProperties
<1>4. \A i \in DOMAIN pending' : i \in DOMAIN pending \/ i = Len(pending) + 1
  BY <1>2, <1>3
<1>5. DOMAIN pending \subseteq DOMAIN pending' /\ Len(pending) + 1 \in DOMAIN pending'
  BY <1>2, <1>3
<1>6. Handed' = Handed \cup {current}
  BY <1>2, <1>3, <1>4, <1>5 DEF Handed
<1>7. Found' = Found \cup {current}
  BY <1>1, <1>6 DEF Found, Handed
<1>. QED
  BY <1>2, <1>3, <1>6, <1>7

LEMMA TakenFiles ==
  ASSUME TypeOK, TakeDiscoveredFiles
  PROVE  /\ taken' = taken \cup Handed /\ Handed' = {} /\ Found' = Found
         /\ Handed \subseteq SharedFile /\ IsFiniteSet(Handed)
<1>1. pending' = <<>> /\ taken' = taken \cup Handed
  BY DEF TakeDiscoveredFiles, Handed
<1>2. Handed' = {}
  BY <1>1 DEF Handed
<1>3. DOMAIN pending = 1..Len(pending) /\ Len(pending) \in Nat
      /\ \A i \in DOMAIN pending : pending[i] \in SharedFile
  BY LenProperties, ElementOfSeq DEF TypeOK
<1>4. [i \in DOMAIN pending |-> pending[i]] \in Surjection(DOMAIN pending, Handed)
  BY DEF Surjection, Handed
<1>5. IsFiniteSet(Handed)
  BY <1>3, <1>4, FS_Interval, FS_Surjection
<1>. QED
  BY <1>1, <1>2, <1>3, <1>5 DEF Found, Handed
-----------------------------------------------------------------------------
(* Types.                                                                  *)

LEMMA InitType == Init => TypeOK
<1>1. Init => pending \in Seq(SharedFile)
  BY EmptySeq DEF Init
<1>2. Init => (running <=> thread # "none")
  BY DEF Init
<1>3. Init => /\ claimed \subseteq Name /\ todo \subseteq Entry
              /\ taken \subseteq SharedFile /\ present \subseteq Entry
  BY DEF Init
<1>4. Init => {running, finished, abort} \subseteq BOOLEAN
  BY DEF Init
<1>. QED
  BY <1>1, <1>2, <1>3, <1>4 DEF Init, TypeOK

LEMMA TypeStep ==
  ASSUME TypeOK, [Next]_vars
  PROVE  TypeOK'
<1>. USE DEF TypeOK, guarded, walk, gui, disk
<1>1. CASE UNCHANGED vars
  BY <1>1 DEF vars, SharedFile, Entry
<1>2. CASE ScanThread
  <2>1. CASE OpenDirectory
    BY <2>1 DEF OpenDirectory
  <2>2. CASE StopReading \/ Finish
    BY <2>2 DEF StopReading, Finish
  <2>3. CASE ReadEntry
    BY <2>3, FileType DEF ReadEntry
  <2>4. CASE ClaimName
    BY <2>4 DEF ClaimName, SharedFile
  <2>5. CASE AppendFile
    BY <2>5, AppendedFile DEF AppendFile
  <2>. QED
    BY <1>2, <2>1, <2>2, <2>3, <2>4, <2>5 DEF ScanThread
<1>3. CASE GuiThread
  <2>1. CASE StopScan
    BY <2>1 DEF StopScan, AskToStop
  <2>2. ASSUME NEW d \in Folder, StartScan(d)
        PROVE  TypeOK'
    BY <2>2 DEF StartScan, AskToStop
  <2>7. CASE ForgetTaken
    BY <2>7 DEF ForgetTaken
  <2>3. CASE StopScanReturns
    BY <2>3 DEF StopScanReturns
  <2>4. CASE StartScanReturns
    <3>1. pending' \in Seq(SharedFile)
      BY <2>4, EmptySeq DEF StartScanReturns, ClearPending
    <3>2. \/ running' = TRUE /\ thread' = "open"
          \/ running' = FALSE /\ thread' = "none"
      BY <2>4 DEF StartScanReturns
    <3>. QED
      BY <2>4, <3>1, <3>2 DEF StartScanReturns, ClearPending
  <2>5. CASE TakeDiscoveredFiles
    BY <2>5, TakenFiles DEF TakeDiscoveredFiles
  <2>6. CASE TakeScanFinished
    BY <2>6 DEF TakeScanFinished
  <2>. QED
    BY <1>3, <2>1, <2>2, <2>3, <2>4, <2>5, <2>6, <2>7 DEF GuiThread
<1>4. ASSUME NEW d \in Folder, NEW e \in Entry, FolderChanges(d, e)
      PROVE  TypeOK'
  BY <1>4 DEF FolderChanges
<1>. QED
  BY <1>1, <1>2, <1>3, <1>4 DEF Next

(* The state of both threads always has its type.                          *)
THEOREM TypeCorrect == Spec => []TypeOK
  BY InitType, TypeStep, PTL DEF Spec
-----------------------------------------------------------------------------
(* What a step of a scan does to what was found.                           *)

Fresh ==
  /\ call = "start" /\ thread' = "open"
  /\ pending' = <<>> /\ claimed' = {} /\ duplicates' = 0 /\ taken' = taken

(* Nothing is found, and no name is at hand that was not.                  *)
Quiet ==
  /\ UNCHANGED Files
  /\ \/ thread # "append" /\ thread' # "append"
     \/ UNCHANGED <<thread, current>>

Claimed ==
  /\ thread = "claim" /\ thread' = "append" /\ current' = current
  /\ current.name \notin claimed /\ claimed' = claimed \cup {current.name}
  /\ UNCHANGED <<pending, taken, duplicates>>
Repeated ==
  /\ thread = "claim" /\ thread' = "read" /\ duplicates' = duplicates + 1
  /\ current.name \in claimed /\ UNCHANGED <<pending, taken, claimed>>

LEMMA ScanStep ==
  ASSUME TypeOK, [Next]_vars, Scanning'
  PROVE  \/ Fresh
         \/ Scanning /\ (Quiet \/ Claimed \/ Repeated \/ AppendFile \/ TakeDiscoveredFiles)
<1>. USE DEF guarded, walk, gui, disk, Files, Scanning
<1>1. CASE UNCHANGED vars
  BY <1>1 DEF vars, Quiet
<1>2. CASE ScanThread
  <2>1. CASE OpenDirectory \/ StopReading \/ Finish
    BY <2>1 DEF OpenDirectory, StopReading, Finish, Quiet
  <2>2. CASE ReadEntry
    <3>1. thread = "read" /\ thread' \in {"claim", "read"}
      BY <2>2 DEF ReadEntry
    <3>2. UNCHANGED Files
      BY <2>2 DEF ReadEntry
    <3>3. Quiet
      BY <3>1, <3>2 DEF Quiet
    <3>4. Scanning
      BY <2>2 DEF ReadEntry
    <3>. QED
      BY <3>3, <3>4
  <2>3. CASE ClaimName
    BY <2>3 DEF ClaimName, Claimed, Repeated
  <2>4. CASE AppendFile
    BY <2>4 DEF AppendFile
  <2>. QED
    BY <1>2, <2>1, <2>2, <2>3, <2>4 DEF ScanThread
<1>3. CASE GuiThread
  <2>1. ~StopScan /\ ~StopScanReturns /\ ~ForgetTaken
    BY DEF StopScan, AskToStop, StopScanReturns, ForgetTaken
  <2>2. ASSUME NEW d \in Folder, StartScan(d)
        PROVE  FALSE
    BY <2>2 DEF StartScan, AskToStop
  <2>3. CASE StartScanReturns
    BY <2>3 DEF StartScanReturns, ClearPending, Fresh
  <2>4. CASE TakeDiscoveredFiles \/ TakeScanFinished
    BY <2>4 DEF TakeDiscoveredFiles, TakeScanFinished, Quiet
  <2>. QED
    BY <1>3, <2>1, <2>2, <2>3, <2>4 DEF GuiThread
<1>4. ASSUME NEW d \in Folder, NEW e \in Entry, FolderChanges(d, e)
      PROVE  Scanning /\ Quiet
  BY <1>4 DEF FolderChanges, Quiet
<1>. QED
  BY <1>1, <1>2, <1>3, <1>4 DEF Next

LEMMA TakenStep ==
  ASSUME TypeOK, OnceOK, [Next]_vars
  PROVE  IsFiniteSet(taken') /\ (call' = "start" => taken' = {})
<1>. USE DEF guarded, walk, gui, disk
<1>1. IsFiniteSet(taken) /\ (call = "start" => taken = {})
  BY DEF OnceOK
<1>2. CASE UNCHANGED vars
  BY <1>1, <1>2 DEF vars
<1>3. CASE ScanThread
  BY <1>1, <1>3
     DEF ScanThread, OpenDirectory, StopReading, Finish, ReadEntry, ClaimName, AppendFile
<1>4. CASE StopScan \/ StopScanReturns \/ StartScanReturns \/ TakeScanFinished
  BY <1>1, <1>4 DEF StopScan, AskToStop, StopScanReturns, StartScanReturns, TakeScanFinished
<1>5. ASSUME NEW d \in Folder, StartScan(d)
      PROVE  taken' = {}
  BY <1>5 DEF StartScan
<1>8. CASE ForgetTaken
  BY <1>8, FS_EmptySet DEF ForgetTaken
<1>6. CASE TakeDiscoveredFiles
  <2>1. IsFiniteSet(taken')
    BY <1>1, <1>6, TakenFiles, FS_Union
  <2>. QED
    BY <1>6, <2>1 DEF TakeDiscoveredFiles
<1>7. ASSUME NEW d \in Folder, NEW e \in Entry, FolderChanges(d, e)
      PROVE  taken' = taken /\ call' = call
  BY <1>7 DEF FolderChanges
<1>. QED
  BY <1>1, <1>2, <1>3, <1>4, <1>5, <1>6, <1>7, <1>8, FS_EmptySet DEF Next, GuiThread

LEMMA OnceStep ==
  ASSUME TypeOK, OnceOK, [Next]_vars
  PROVE  OnceOK'
<1>. SUFFICES ASSUME Scanning'
     PROVE  PendingOnce' /\ NamesOnce' /\ ClaimsOK'
  BY TakenStep DEF OnceOK
<1>1. CASE Fresh
  <2>1. Found' = {} /\ Handed' = {} /\ DOMAIN pending' = {}
    BY <1>1 DEF Fresh, OnceOK, Found, Handed
  <2>. QED
    BY <1>1, <2>1 DEF Fresh, PendingOnce, NamesOnce, ClaimsOK, NamesOf
<1>. SUFFICES ASSUME Scanning
     PROVE  PendingOnce' /\ NamesOnce' /\ ClaimsOK'
  BY <1>1, ScanStep
<1>2. PendingOnce /\ NamesOnce /\ ClaimsOK
  BY DEF OnceOK
<1>3. CASE Quiet
  BY <1>2, <1>3
     DEF Quiet, Files, PendingOnce, NamesOnce, ClaimsOK, Handed, Found, NamesOf
<1>4. CASE Claimed
  BY <1>2, <1>4 DEF Claimed, PendingOnce, NamesOnce, ClaimsOK, Handed, Found, NamesOf
<1>5. CASE Repeated
  BY <1>2, <1>5 DEF Repeated, PendingOnce, NamesOnce, ClaimsOK, Handed, Found, NamesOf
<1>6. CASE AppendFile
  <2>1. /\ thread = "append" /\ thread' = "read" /\ claimed' = claimed /\ taken' = taken
        /\ current.name \notin NamesOf(Found) /\ current \notin Found
    BY <1>2, <1>6 DEF AppendFile, gui, ClaimsOK, NamesOf
  <2>2. PendingOnce'
    <3>1. \A i, j \in DOMAIN pending' : pending'[i] = pending'[j] => i = j
      <4>1. \A i \in DOMAIN pending : pending[i] # current
        BY <2>1 DEF Found
      <4>2. \A i \in DOMAIN pending' : i \in DOMAIN pending \/ i = Len(pending) + 1
        BY <1>6, AppendedFile
      <4>. QED
        BY <1>2, <1>6, <4>1, <4>2, AppendedFile DEF PendingOnce
    <3>. QED
      BY <1>2, <1>6, <2>1, <3>1, AppendedFile DEF PendingOnce, Found
  <2>3. NamesOnce'
    BY <1>2, <1>6, <2>1, AppendedFile DEF NamesOnce, NamesOf
  <2>4. ClaimsOK'
    BY <1>2, <1>6, <2>1, AppendedFile DEF ClaimsOK, NamesOf
  <2>. QED
    BY <2>2, <2>3, <2>4
<1>7. CASE TakeDiscoveredFiles
  <2>1. /\ Handed' = {} /\ Found' = Found /\ DOMAIN pending' = {}
        /\ UNCHANGED <<claimed, thread, current>>
    BY <1>7, TakenFiles DEF TakeDiscoveredFiles, walk
  <2>. QED
    BY <1>2, <2>1 DEF PendingOnce, NamesOnce, ClaimsOK, NamesOf
<1>. QED
  BY <1>1, <1>3, <1>4, <1>5, <1>6, <1>7, ScanStep
-----------------------------------------------------------------------------
(* Cardinalities. *)

LEMMA FoundIsFinite ==
  ASSUME TypeOK, OnceOK
  PROVE  /\ IsFiniteSet(Handed) /\ IsFiniteSet(Found) /\ Cardinality(Found) \in Nat
         /\ Found \subseteq SharedFile
         /\ Scanning => Cardinality(Found) = Len(pending) + Cardinality(taken)
<1>1. /\ DOMAIN pending = 1..Len(pending) /\ Len(pending) \in Nat
      /\ \A i \in DOMAIN pending : pending[i] \in SharedFile
  BY LenProperties, ElementOfSeq DEF TypeOK
<1>. DEFINE f == [i \in DOMAIN pending |-> pending[i]]
<1>2. f \in Surjection(DOMAIN pending, Handed)
  BY DEF Surjection, Handed
<1>3. /\ IsFiniteSet(DOMAIN pending) /\ Cardinality(DOMAIN pending) = Len(pending)
  BY <1>1, FS_Interval
<1>4. IsFiniteSet(Handed) /\ IsFiniteSet(taken)
  BY <1>2, <1>3, FS_Surjection DEF OnceOK
<1>5. Found = Handed \cup taken /\ Found \subseteq SharedFile
  BY <1>1 DEF Found, Handed, TypeOK
<1>6. IsFiniteSet(Found) /\ Cardinality(Found) \in Nat
  BY <1>4, <1>5, FS_Union, FS_CardinalityType
<1>7. ASSUME Scanning
      PROVE  Cardinality(Found) = Len(pending) + Cardinality(taken)
  <2>0. f \in [DOMAIN pending -> Handed]
        /\ \A i, j \in DOMAIN pending : f[i] = f[j] => i = j
    BY <1>7, <1>2 DEF OnceOK, PendingOnce, Surjection
  <2>. HIDE DEF f
  <2>1. f \in Injection(DOMAIN pending, Handed)
    BY <2>0 DEF Injection, IsInjective
  <2>2. Cardinality(Handed) = Len(pending)
    BY <1>2, <1>3, <2>1, FS_Surjection
  <2>3. Cardinality(Handed \cap taken) = 0
    BY <1>7, FS_EmptySet DEF OnceOK, PendingOnce
  <2>4. Cardinality(taken) \in Nat
    BY <1>4, FS_CardinalityType
  <2>5. Cardinality(Found)
          = Cardinality(Handed) + Cardinality(taken) - Cardinality(Handed \cap taken)
    BY <1>4, <1>5, FS_Union
  <2>. QED
    BY <1>1, <2>2, <2>3, <2>4, <2>5
<1>. QED
  BY <1>4, <1>5, <1>6, <1>7

LEMMA NamesAreAsMany ==
  ASSUME TypeOK, OnceOK, Scanning
  PROVE  Cardinality(Found) = Cardinality(NamesOf(Found))
<1>. DEFINE f == [g \in Found |-> g.name]
<1>1. f \in Surjection(Found, NamesOf(Found))
  BY DEF Surjection, NamesOf
<1>2. f \in [Found -> NamesOf(Found)] /\ \A g, h \in Found : f[g] = f[h] => g = h
  BY <1>1 DEF Surjection, OnceOK, NamesOnce
<1>. HIDE DEF f
<1>3. f \in Injection(Found, NamesOf(Found))
  BY <1>2 DEF Injection, IsInjective
<1>. QED
  BY <1>1, <1>3, FoundIsFinite, FS_Surjection

(* However StartScan, StopScan and the taking of files fall between the    *)
(* steps of the walk, no file and no name is delivered twice               *)
(* (ShareScanner.cpp: _ScanDirectory, TakeDiscoveredFiles).                *)
THEOREM NamesAreUnique == Spec => []EachNameOnce
<1>1. Init => OnceOK
  BY FS_EmptySet DEF Init, OnceOK, Scanning
<1>2. TypeOK /\ OnceOK => EachNameOnce
  BY FoundIsFinite, NamesAreAsMany DEF EachNameOnce, OnceOK, ClaimsOK, Scanning
<1>. QED
  BY <1>1, <1>2, OnceStep, TypeCorrect, PTL DEF Spec
-----------------------------------------------------------------------------
(* The folder.                                                             *)

LEMMA FolderStep ==
  ASSUME TypeOK, OnceOK, FolderOK, [Next]_vars
  PROVE  FolderOK'
<1>. USE DEF guarded, walk, gui, disk
<1>. SUFFICES ASSUME Scanning'
     PROVE  /\ thread' # "open" => root' = directory'
            /\ thread' \in {"claim", "append"} => current'.folder = directory'
            /\ \A f \in Found' : f.folder = directory'
  BY DEF FolderOK
<1>1. CASE Fresh
  BY <1>1 DEF Fresh, OnceOK, Found
<1>2. CASE ~Fresh
  <2>1. Scanning /\ FolderOK
    BY <1>2, ScanStep
  <2>2. directory' = directory
    <3>1. ASSUME NEW d \in Folder, StartScan(d)
          PROVE  FALSE
      BY <3>1 DEF StartScan, AskToStop, Scanning
    <3>. QED
      BY <3>1 DEF Next, vars, ScanThread, OpenDirectory, StopReading, Finish, ReadEntry,
         ClaimName, AppendFile, GuiThread, StopScan, AskToStop, StopScanReturns,
         StartScanReturns, ForgetTaken, TakeDiscoveredFiles, TakeScanFinished, FolderChanges
  <2>3. \A f \in Found' : f.folder = directory
    <3>1. CASE Quiet \/ Claimed \/ Repeated
      BY <2>1, <3>1 DEF Quiet, Claimed, Repeated, Files, Found, FolderOK
    <3>2. CASE AppendFile
      BY <2>1, <3>2, AppendedFile DEF FolderOK, AppendFile
    <3>3. CASE TakeDiscoveredFiles
      BY <2>1, <3>3, TakenFiles DEF FolderOK
    <3>. QED
      BY <1>2, <3>1, <3>2, <3>3, ScanStep
  <2>4. thread' # "open" => root' = directory
    <3>1. CASE OpenDirectory
      BY <3>1 DEF OpenDirectory
    <3>2. CASE ScanThread /\ ~OpenDirectory
      BY <2>1, <3>2 DEF FolderOK, ScanThread, StopReading, Finish, ReadEntry, ClaimName,
         AppendFile
    <3>3. CASE StartScanReturns
      BY <2>1, <3>3 DEF StartScanReturns, Scanning
    <3>4. ASSUME NEW d \in Folder, StartScan(d)
          PROVE  FALSE
      BY <3>4 DEF StartScan, AskToStop, Scanning
    <3>. QED
      BY <2>1, <3>1, <3>2, <3>3, <3>4 DEF FolderOK, Next, vars, GuiThread, StopScan, AskToStop,
         StopScanReturns, ForgetTaken, TakeDiscoveredFiles, TakeScanFinished, FolderChanges,
         Scanning
  <2>5. thread' \in {"claim", "append"} => current'.folder = directory
    <3>1. CASE ReadEntry
      <4>1. root = directory
        BY <2>1, <3>1 DEF ReadEntry, FolderOK
      <4>2. PICK e \in todo : current' = File(directory, e)
        BY <3>1, <4>1 DEF ReadEntry
      <4>. QED
        BY <4>2 DEF File
    <3>2. CASE ScanThread /\ ~ReadEntry
      BY <2>1, <3>2 DEF FolderOK, ScanThread, OpenDirectory, StopReading, Finish, ClaimName,
         AppendFile
    <3>3. CASE StartScanReturns
      BY <2>1, <3>3 DEF StartScanReturns, Scanning
    <3>4. ASSUME NEW d \in Folder, StartScan(d)
          PROVE  FALSE
      BY <3>4 DEF StartScan, AskToStop, Scanning
    <3>. QED
      BY <2>1, <3>1, <3>2, <3>3, <3>4 DEF FolderOK, Next, vars, GuiThread, StopScan, AskToStop,
         StopScanReturns, ForgetTaken, TakeDiscoveredFiles, TakeScanFinished, FolderChanges,
         Scanning
  <2>. QED
    BY <2>2, <2>3, <2>4, <2>5
<1>. QED
  BY <1>1, <1>2

LEMMA Scans == Spec => [](TypeOK /\ OnceOK /\ FolderOK)
<1>1. Init => OnceOK /\ FolderOK
  BY FS_EmptySet DEF Init, OnceOK, FolderOK, Scanning
<1>. QED
  BY <1>1, InitType, TypeStep, OnceStep, FolderStep, PTL DEF Spec

(* Though fShareDirectory is assigned while the scanning thread reads it,  *)
(* everything delivered is of the folder that is shared now                *)
(* (ShareScanner.cpp: StartScan, _ScanDirectory).                          *)
THEOREM FoundIsShared == Spec => []FoundInFolder
<1>1. FolderOK => FoundInFolder
  BY DEF FolderOK, FoundInFolder, Scanning
<1>. QED
  BY <1>1, Scans, PTL
-----------------------------------------------------------------------------
(* Completeness.                                                           *)

LEMMA WalkStep ==
  ASSUME TypeOK, WalkOK, [Next]_vars
  PROVE  WalkOK'
<1>. USE DEF WalkOK, guarded, walk, gui, disk
<1>1. CASE UNCHANGED vars
  BY <1>1 DEF vars
<1>2. CASE ScanThread
  <2>1. CASE OpenDirectory
    BY <2>1 DEF OpenDirectory
  <2>2. CASE StopReading \/ Finish
    BY <2>2 DEF StopReading, Finish
  <2>3. CASE ReadEntry
    <3>1. thread' \in {"claim", "read"}
      BY <2>3 DEF ReadEntry
    <3>. QED
      BY <2>3, <3>1 DEF ReadEntry
  <2>4. CASE ClaimName \/ AppendFile
    BY <2>4 DEF ClaimName, AppendFile
  <2>. QED
    BY <1>2, <2>1, <2>2, <2>3, <2>4 DEF ScanThread
<1>3. CASE GuiThread
  <2>1. ASSUME NEW d \in Folder, StartScan(d)
        PROVE  WalkOK'
    BY <2>1 DEF StartScan, AskToStop
  <2>2. CASE StopScan
    BY <2>2 DEF StopScan, AskToStop
  <2>3. CASE StopScanReturns \/ StartScanReturns
    BY <2>3 DEF StopScanReturns, StartScanReturns
  <2>4. CASE TakeDiscoveredFiles \/ TakeScanFinished \/ ForgetTaken
    BY <2>4 DEF TakeDiscoveredFiles, TakeScanFinished, ForgetTaken
  <2>. QED
    BY <1>3, <2>1, <2>2, <2>3, <2>4 DEF GuiThread
<1>4. ASSUME NEW d \in Folder, NEW e \in Entry, FolderChanges(d, e)
      PROVE  WalkOK'
  <2>1. present' \subseteq contents'[root]
    <3>1. CASE d = root
      BY <1>4, <3>1 DEF FolderChanges, TypeOK
    <3>2. CASE d # root
      BY <1>4, <3>2 DEF FolderChanges, TypeOK
    <3>. QED
      BY <3>1, <3>2
  <2>2. thread' \in {"finish", "done"} /\ ~abort' => todo' = {}
    BY <1>4 DEF FolderChanges
  <2>. QED
    BY <1>4, <2>1, <2>2 DEF FolderChanges
<1>. QED
  BY <1>1, <1>2, <1>3, <1>4 DEF Next

(* The walk comes to entry e.                                              *)
CameTo(e) ==
  /\ thread = "read" /\ thread' = "claim" /\ current'.name = e[2]
  /\ Passed' \subseteq Passed \cup {e} /\ UNCHANGED Files
Still ==
  /\ UNCHANGED Files
  /\ \/ UNCHANGED <<thread, current>>
     \/ {thread, thread'} \cap {"claim", "append"} = {}

LEMMA PassedStep ==
  ASSUME TypeOK, FolderOK, WalkOK, [Next]_vars, Scanning', ~abort', thread' # "open"
  PROVE  \/ Passed' = {} /\ thread' = "read"
         \/ /\ Scanning /\ ~abort /\ thread # "open"
            /\ \/ \E e \in Entry : CameTo(e)
               \/ /\ Passed' \subseteq Passed
                  /\ Still \/ Claimed \/ Repeated \/ AppendFile \/ TakeDiscoveredFiles
<1>. USE DEF guarded, walk, gui, disk, Files, Scanning, Passed
<1>1. CASE UNCHANGED vars
  BY <1>1 DEF vars, Still
<1>2. CASE ScanThread
  <2>1. CASE OpenDirectory
    BY <2>1 DEF OpenDirectory
  <2>2. CASE StopReading \/ Finish
    BY <2>2 DEF StopReading, Finish, Still
  <2>3. CASE ReadEntry
    <3>1. /\ Scanning /\ ~abort /\ thread = "read" /\ root = directory
          /\ UNCHANGED Files /\ present' = present
      BY <2>3 DEF ReadEntry, FolderOK
    <3>2. PICK e \in todo : /\ todo' = todo \ {e}
                            /\ current' = File(root, e)
                            /\ thread' = IF e \in contents[root] THEN "claim" ELSE "read"
      BY <2>3, <3>1 DEF ReadEntry
    <3>3. Passed' \subseteq Passed \cup {e}
      BY <3>1, <3>2
    <3>4. CASE e \in contents[root]
      <4>1. CameTo(e)
        BY <3>1, <3>2, <3>3, <3>4 DEF CameTo, File
      <4>2. e \in Entry
        BY DEF TypeOK
      <4>. QED
        BY <3>1, <4>1, <4>2
    <3>5. CASE e \notin contents[root]
      <4>1. Passed' \subseteq Passed
        BY <3>1, <3>2, <3>5 DEF WalkOK
      <4>2. Still
        BY <3>1, <3>2, <3>5 DEF Still
      <4>. QED
        BY <3>1, <4>1, <4>2
    <3>. QED
      BY <3>4, <3>5
  <2>4. CASE ClaimName
    BY <2>4 DEF ClaimName, Claimed, Repeated
  <2>5. CASE AppendFile
    BY <2>5 DEF AppendFile
  <2>. QED
    BY <1>2, <2>1, <2>2, <2>3, <2>4, <2>5 DEF ScanThread
<1>3. CASE GuiThread
  <2>1. ~StopScan /\ ~StopScanReturns /\ ~StartScanReturns /\ ~ForgetTaken
    BY DEF StopScan, AskToStop, StopScanReturns, StartScanReturns, ForgetTaken
  <2>2. ASSUME NEW d \in Folder, StartScan(d)
        PROVE  FALSE
    BY <2>2 DEF StartScan, AskToStop
  <2>3. CASE TakeDiscoveredFiles \/ TakeScanFinished
    BY <2>3 DEF TakeDiscoveredFiles, TakeScanFinished, Still
  <2>. QED
    BY <1>3, <2>1, <2>2, <2>3 DEF GuiThread
<1>4. ASSUME NEW d \in Folder, NEW e \in Entry, FolderChanges(d, e)
      PROVE  /\ Scanning /\ ~abort /\ thread # "open"
             /\ Passed' \subseteq Passed /\ Still
  BY <1>4 DEF FolderChanges, Still
<1>. QED
  BY <1>1, <1>2, <1>3, <1>4 DEF Next

LEMMA NamesPassedStep ==
  ASSUME TypeOK, FolderOK, WalkOK, NamesPassed, [Next]_vars
  PROVE  NamesPassed'
<1>. SUFFICES ASSUME Scanning', ~abort', thread' # "open", NEW p \in Passed'
     PROVE  p[2] \in claimed' \/ (thread' = "claim" /\ p[2] = current'.name)
  BY DEF NamesPassed
<1>1. /\ Scanning /\ ~abort /\ thread # "open"
      /\ \/ \E e \in Entry : CameTo(e)
         \/ /\ Passed' \subseteq Passed
            /\ Still \/ Claimed \/ Repeated \/ AppendFile \/ TakeDiscoveredFiles
  BY PassedStep
<1>2. \A e \in Passed : e[2] \in claimed \/ (thread = "claim" /\ e[2] = current.name)
  BY <1>1 DEF NamesPassed
<1>3. ASSUME NEW e \in Entry, CameTo(e)
      PROVE  p[2] \in claimed' \/ (thread' = "claim" /\ p[2] = current'.name)
  BY <1>2, <1>3 DEF CameTo, Files
<1>4. CASE Passed' \subseteq Passed /\ Still
  BY <1>2, <1>4 DEF Still, Files
<1>5. CASE Passed' \subseteq Passed /\ (Claimed \/ Repeated)
  BY <1>2, <1>5 DEF Claimed, Repeated
<1>6. CASE Passed' \subseteq Passed /\ (AppendFile \/ TakeDiscoveredFiles)
  BY <1>2, <1>6 DEF AppendFile, TakeDiscoveredFiles, walk
<1>. QED
  BY <1>1, <1>3, <1>4, <1>5, <1>6

LEMMA FoundIsCounted == TypeOK /\ OnceOK => Cardinality(Found) \in Nat
  BY FoundIsFinite

LEMMA WithOneMore ==
  ASSUME NEW S, IsFiniteSet(S), NEW e
  PROVE  Cardinality(S \cup {e}) <= Cardinality(S) + 1 /\ IsFiniteSet(S \cup {e})
<1>1. Cardinality(S) \in Nat
  BY FS_CardinalityType
<1>2. CASE e \in S
  <2>1. S \cup {e} = S
    BY <1>2
  <2>. QED
    BY <1>1, <2>1
<1>3. CASE e \notin S
  BY <1>1, <1>3, FS_AddElement
<1>. QED
  BY <1>2, <1>3

LEMMA CountPassedStep ==
  ASSUME TypeOK, OnceOK, FolderOK, WalkOK, CountPassed, [Next]_vars
  PROVE  CountPassed'
<1>. SUFFICES ASSUME Scanning', ~abort', thread' # "open"
     PROVE  Cardinality(Passed') <= duplicates' + Cardinality(Found') + AtEntry'
  BY DEF CountPassed
<1>0. /\ TypeOK' /\ OnceOK' /\ AtEntry' \in Nat /\ AtEntry \in Nat
      /\ duplicates \in Nat /\ duplicates' \in Nat
  BY TypeStep, OnceStep DEF TypeOK, AtEntry
<1>1. Cardinality(Found) \in Nat /\ Cardinality(Found') \in Nat
  <2>1. (TypeOK /\ OnceOK => Cardinality(Found) \in Nat)'
    BY FoundIsCounted, PTL
  <2>. QED
    BY <1>0, <2>1, FoundIsCounted
<1>2. /\ IsFiniteSet(Passed) /\ Cardinality(Passed) \in Nat
      /\ IsFiniteSet(Passed') /\ Cardinality(Passed') \in Nat
  BY <1>0, EntriesAreFinite DEF TypeOK, Passed
<1>3. CASE Passed' = {}
  BY <1>0, <1>1, <1>3, FS_EmptySet
<1>. SUFFICES ASSUME Scanning, ~abort, thread # "open",
                     \/ \E e \in Entry : CameTo(e)
                     \/ /\ Passed' \subseteq Passed
                        /\ Still \/ Claimed \/ Repeated \/ AppendFile \/ TakeDiscoveredFiles
     PROVE  Cardinality(Passed') <= duplicates' + Cardinality(Found') + AtEntry'
  BY <1>3, PassedStep
<1>4. Cardinality(Passed) <= duplicates + Cardinality(Found) + AtEntry
  BY DEF CountPassed
<1>5. ASSUME NEW e \in Entry, CameTo(e)
      PROVE  Cardinality(Passed') <= duplicates' + Cardinality(Found') + AtEntry'
  <2>1. /\ Cardinality(Passed \cup {e}) <= Cardinality(Passed) + 1
        /\ IsFiniteSet(Passed \cup {e})
    BY <1>2, WithOneMore
  <2>2. Cardinality(Passed') <= Cardinality(Passed \cup {e})
    BY <1>5, <2>1, FS_Subset DEF CameTo
  <2>3. AtEntry = 0 /\ AtEntry' = 1 /\ duplicates' = duplicates /\ Found' = Found
    BY <1>5 DEF CameTo, AtEntry, Files, Found
  <2>4. Cardinality(Passed \cup {e}) \in Nat
    BY <2>1, FS_CardinalityType
  <2>. QED
    BY <1>0, <1>1, <1>2, <1>4, <2>1, <2>2, <2>3, <2>4
<1>6. ASSUME Passed' \subseteq Passed
      PROVE  Cardinality(Passed') <= Cardinality(Passed)
  BY <1>2, <1>6, FS_Subset
<1>7. CASE Still
  <2>1. AtEntry' = AtEntry /\ duplicates' = duplicates /\ Found' = Found
    BY <1>7 DEF Still, AtEntry, Files, Found
  <2>. QED
    BY <1>0, <1>1, <1>2, <1>4, <1>5, <1>6, <2>1
<1>8. CASE Claimed \/ Repeated
  <2>1. duplicates' + AtEntry' = duplicates + AtEntry
    <3>1. CASE Claimed
      <4>1. duplicates' = duplicates /\ AtEntry' = 1 /\ AtEntry = 1
        BY <3>1 DEF Claimed, AtEntry
      <4>. QED
        BY <4>1
    <3>2. CASE Repeated
      <4>1. duplicates' = duplicates + 1 /\ AtEntry' = 0 /\ AtEntry = 1
        BY <3>2 DEF Repeated, AtEntry
      <4>. QED
        BY <1>0, <4>1
    <3>. QED
      BY <1>8, <3>1, <3>2
  <2>2. Found' = Found
    BY <1>8 DEF Claimed, Repeated, Found
  <2>3. Passed' \subseteq Passed
    BY <1>8 DEF Claimed, Repeated, CameTo
  <2>4. Cardinality(Passed') <= Cardinality(Passed)
    BY <1>6, <2>3
  <2>5. Cardinality(Passed') <= (duplicates + AtEntry) + Cardinality(Found)
    BY <1>0, <1>1, <1>2, <1>4, <2>4
  <2>6. Cardinality(Passed') <= (duplicates' + AtEntry') + Cardinality(Found')
    BY <2>1, <2>2, <2>5
  <2>. QED
    BY <1>0, <1>1, <1>2, <2>6
<1>9. CASE AppendFile
  <2>1. AtEntry = 1 /\ AtEntry' = 0 /\ duplicates' = duplicates /\ current \notin Found
    BY <1>9 DEF AppendFile, AtEntry, OnceOK, ClaimsOK, NamesOf
  <2>2. Cardinality(Found') = Cardinality(Found) + 1
    BY <1>9, <2>1, AppendedFile, FoundIsFinite, FS_AddElement
  <2>. QED
    BY <1>0, <1>1, <1>2, <1>4, <1>5, <1>6, <2>1, <2>2
<1>10. CASE TakeDiscoveredFiles
  <2>1. AtEntry' = AtEntry /\ duplicates' = duplicates /\ Found' = Found
    BY <1>10, TakenFiles DEF TakeDiscoveredFiles, AtEntry
  <2>. QED
    BY <1>0, <1>1, <1>2, <1>4, <1>5, <1>6, <2>1
<1>. QED
  BY <1>5, <1>7, <1>8, <1>9, <1>10

LEMMA Walks == Spec => [](WalkOK /\ NamesPassed /\ CountPassed)
<1>1. Init => WalkOK /\ NamesPassed /\ CountPassed
  BY DEF Init, WalkOK, NamesPassed, CountPassed, Scanning
<1>. QED
  BY <1>1, Scans, WalkStep, NamesPassedStep, CountPassedStep, PTL DEF Spec

(* A scan that ends by itself has delivered every name that was in the     *)
(* folder all the while, and delivered or counted every such file,         *)
(* whatever other programs create and delete meanwhile (ShareScanner.cpp:  *)
(* _ScanDirectory).                                                        *)
THEOREM CompleteScans == Spec => []ScanIsComplete
<1>2. ASSUME TypeOK, OnceOK, WalkOK, NamesPassed, CountPassed, Completed, call = "none"
      PROVE  /\ NamesOfEntries(present) \subseteq NamesOf(Found)
             /\ Cardinality(present) <= duplicates + Cardinality(Found)
  <2>1. Scanning /\ thread = "done" /\ ~abort
    BY <1>2 DEF Completed, Scanning, TypeOK
  <2>2. Passed = present
    BY <1>2, <2>1 DEF WalkOK, Passed
  <2>3. claimed = NamesOf(Found)
    BY <1>2, <2>1 DEF OnceOK, ClaimsOK
  <2>4. NamesOfEntries(present) \subseteq NamesOf(Found)
    BY <1>2, <2>1, <2>2, <2>3 DEF NamesPassed, NamesOfEntries
  <2>5. Cardinality(present) <= duplicates + Cardinality(Found) + 0
    BY <1>2, <2>1, <2>2 DEF CountPassed, AtEntry
  <2>6. duplicates \in Nat /\ Cardinality(Found) \in Nat
    BY <1>2, FoundIsFinite DEF TypeOK
  <2>. QED
    BY <2>4, <2>5, <2>6
<1>3. TypeOK /\ OnceOK /\ WalkOK /\ NamesPassed /\ CountPassed => ScanIsComplete
  BY <1>2 DEF ScanIsComplete
<1>. QED
  BY <1>3, Scans, Walks, PTL
-----------------------------------------------------------------------------
(* The window.                                                             *)

(* What a handler that is split leaves to be done, and what it waits for.  *)
HandlerOK ==
  /\ handler = "stopping" => call \in {"none", "stop"}
  /\ handler = "stopping" /\ call = "none" => ~running
  /\ handler = "draining" => call = "none"
  /\ handler = "starting" => restart \in {1, 2}
  /\ restart \in 0..2

(* No file changes while the window is all there is.                       *)
There(f) == <<f.sub, f.name>> \in contents[f.folder]
WalkedOK ==
  /\ thread \notin {"none", "open"} => present = contents[root]
  /\ thread \in {"claim", "append"} => There(current)
  /\ \A f \in Found : There(f)

(* What is scanned is what is to be shared, as soon as somebody could be   *)
(* told of it: unless a handler is on its way to start the scan over.      *)
NoScan == folder = NoFolder => ~running /\ call # "start"
Wanted == enabled /\ folder # NoFolder /\ Ready # {}
StopsForGood == handler = "stopping" /\ restart = 0
DirectoryOK ==
  /\ handler \in {"none", "draining"} /\ Wanted => directory = folder
  /\ StopsForGood => ~Wanted

(* Whatever was taken of this scan, every server with a session lists.     *)
PublishedOK ==
  handler \in {"none", "draining"} /\ Wanted => \A c \in Ready : NamesOf(taken) \subseteq nodes[c]

(* ... and the upload server has, and nothing else.                        *)
ServingOK == taken # {} => serving = taken

SharingInv == WalkedOK /\ NoScan /\ DirectoryOK /\ PublishedOK /\ ServingOK

(* Every step of the window's is a step of the scanner and its owner, or   *)
(* leaves both alone; none of them changes a file.                         *)
ScannerMoves == ScanThread \/ GuiThread \/ UNCHANGED vars

(* What _StartSharing does, its switch on and a folder chosen or not.      *)
LEMMA Starts ==
  ASSUME SharingTypeOK, NEW on \in BOOLEAN, StartSharing(on, folder)
  PROVE  /\ ScannerMoves
         /\ sharedCount' \in Nat /\ listening' \in BOOLEAN /\ port' \subseteq Live
         /\ ~on \/ folder = NoFolder => UNCHANGED vars
         /\ on /\ folder # NoFolder => folder \in Folder /\ StartScan(folder)
<1>1. CASE ~on \/ folder = NoFolder
  BY <1>1 DEF StartSharing, SharingTypeOK, ScannerMoves
<1>2. CASE on /\ folder # NoFolder
  <2>1. folder \in Folder /\ StartScan(folder)
    BY <1>2 DEF StartSharing, SharingTypeOK
  <2>2. ScannerMoves
    BY <2>1 DEF ScannerMoves, GuiThread
  <2>. QED
    BY <1>2, <2>1, <2>2 DEF StartSharing, SharingTypeOK
<1>. QED
  BY <1>1, <1>2

LEMMA ScannerStep ==
  ASSUME SharingTypeOK, HandlerOK, [SharingNext]_sharingVars
  PROVE  ScannerMoves
<1>. USE DEF ScannerMoves, GuiThread
<1>0. enabled \in BOOLEAN
  BY DEF SharingTypeOK
<1>1. CASE UNCHANGED sharingVars
  BY <1>1 DEF sharingVars
<1>2. CASE ScannerWalks \/ ScannerReturns
  BY <1>2 DEF ScannerWalks, ScannerReturns
<1>3. CASE StopSharingReturns
  <2>1. ForgetTaken
    BY <1>3 DEF StopSharingReturns, ForgetTaken, HandlerOK, guarded, walk, disk
  <2>. QED
    BY <2>1
<1>4. CASE StartSharingAgain
  BY <1>0, <1>4, Starts DEF StartSharingAgain
<1>5. ASSUME NEW c \in Conn, AddConnection(c) \/ SessionConnected(c) \/ ConnectionLost(c)
      PROVE  ScannerMoves
  BY <1>5 DEF AddConnection, SessionConnected, ConnectionLost
<1>6. ASSUME NEW c \in Conn, LocalSessionIdAssigned(c)
      PROVE  ScannerMoves
  BY <1>0, <1>6, Starts DEF LocalSessionIdAssigned
<1>7. CASE ToggleFileSharing
  BY <1>7, Starts DEF ToggleFileSharing, StopSharing
<1>8. ASSUME NEW d \in Folder, ChooseShareFolder(d)
      PROVE  ScannerMoves
  BY <1>8 DEF ChooseShareFolder, StopSharing
<1>9. ASSUME NEW on \in BOOLEAN, NEW d \in Folder, ApplySettings(on, d)
      PROVE  ScannerMoves
  BY <1>9 DEF ApplySettings, StopSharing
<1>10. CASE DrainDiscovered \/ DrainFinished
  BY <1>10 DEF DrainDiscovered, DrainFinished
<1>. QED
  BY <1>1, <1>2, <1>3, <1>4, <1>5, <1>6, <1>7, <1>8, <1>9, <1>10 DEF SharingNext

LEMMA HandlerStep ==
  ASSUME SharingTypeOK, HandlerOK, [SharingNext]_sharingVars
  PROVE  HandlerOK'
<1>. USE DEF HandlerOK, control
<1>0. enabled \in BOOLEAN
  BY DEF SharingTypeOK
<1>1. CASE UNCHANGED sharingVars
  BY <1>1 DEF sharingVars, vars, gui
<1>2. CASE ScannerWalks
  <2>1. UNCHANGED <<handler, restart, call, running>>
    BY <1>2 DEF ScannerWalks, ScanThread, OpenDirectory, StopReading, ReadEntry, ClaimName,
       AppendFile, Finish, gui
  <2>. QED
    BY <2>1
<1>3. CASE ScannerReturns
  BY <1>3 DEF ScannerReturns, StopScanReturns, StartScanReturns
<1>4. CASE StopSharingReturns
  BY <1>4 DEF StopSharingReturns
<1>5. CASE StartSharingAgain
  BY <1>5 DEF StartSharingAgain
<1>6. ASSUME NEW c \in Conn, AddConnection(c) \/ SessionConnected(c) \/ ConnectionLost(c)
      PROVE  HandlerOK'
  BY <1>6 DEF AddConnection, SessionConnected, ConnectionLost, vars, gui
<1>7. ASSUME NEW c \in Conn, LocalSessionIdAssigned(c)
      PROVE  HandlerOK'
  BY <1>7 DEF LocalSessionIdAssigned, Idle
<1>8. ASSUME NEW again \in 0..2, StopSharing(again)
      PROVE  HandlerOK'
  BY <1>8 DEF StopSharing, StopScan, AskToStop
<1>9. CASE ToggleFileSharing
  <2>1. CASE enabled
    BY <1>8, <1>9, <2>1 DEF ToggleFileSharing
  <2>2. CASE ~enabled
    <3>1. UNCHANGED <<handler, restart>> /\ handler = "none"
      BY <1>9, <2>2 DEF ToggleFileSharing, Idle
    <3>. QED
      BY <3>1
  <2>. QED
    BY <2>1, <2>2
<1>10. ASSUME NEW d \in Folder, ChooseShareFolder(d)
       PROVE  HandlerOK'
  BY <1>8, <1>10 DEF ChooseShareFolder, vars, gui
<1>11. ASSUME NEW on \in BOOLEAN, NEW d \in Folder, ApplySettings(on, d)
       PROVE  HandlerOK'
  BY <1>8, <1>11 DEF ApplySettings, vars, gui
<1>12. CASE DrainDiscovered
  BY <1>12 DEF DrainDiscovered, Idle, TakeDiscoveredFiles, vars, gui
<1>13. CASE DrainFinished
  BY <1>13 DEF DrainFinished, TakeScanFinished, vars, gui
<1>. QED
  BY <1>1, <1>2, <1>3, <1>4, <1>5, <1>6, <1>7, <1>9, <1>10, <1>11, <1>12, <1>13
     DEF SharingNext

LEMMA StatesStep ==
  ASSUME SharingTypeOK, HandlerOK, [SharingNext]_sharingVars
  PROVE  enabled' \in BOOLEAN /\ folder' \in Folder \cup {NoFolder} /\ stage' \in [Conn -> Stage]
<1>. USE DEF settings, network
<1>0. enabled \in BOOLEAN /\ folder \in Folder \cup {NoFolder} /\ stage \in [Conn -> Stage]
  BY DEF SharingTypeOK
<1>1. CASE UNCHANGED sharingVars
  BY <1>0, <1>1 DEF sharingVars
<1>2. CASE ScannerWalks \/ ScannerReturns \/ DrainDiscovered \/ DrainFinished
  BY <1>0, <1>2 DEF ScannerWalks, ScannerReturns, DrainDiscovered, DrainFinished
<1>3. CASE StopSharingReturns \/ StartSharingAgain
  BY <1>0, <1>3 DEF StopSharingReturns, StartSharingAgain
<1>4. ASSUME NEW c \in Conn,
             \/ AddConnection(c) \/ SessionConnected(c) \/ LocalSessionIdAssigned(c)
             \/ ConnectionLost(c)
      PROVE  UNCHANGED settings /\ stage' \in [Conn -> Stage]
  BY <1>0, <1>4 DEF AddConnection, SessionConnected, LocalSessionIdAssigned, ConnectionLost, Stage
<1>5. CASE ToggleFileSharing
  BY <1>0, <1>5 DEF ToggleFileSharing, StopSharing
<1>6. ASSUME NEW d \in Folder, ChooseShareFolder(d)
      PROVE  enabled' = enabled /\ folder' = d /\ stage' = stage
  BY <1>6 DEF ChooseShareFolder, StopSharing
<1>7. ASSUME NEW on \in BOOLEAN, NEW d \in Folder, ApplySettings(on, d)
      PROVE  enabled' = on /\ folder' = d /\ stage' = stage
  BY <1>7 DEF ApplySettings, StopSharing
<1>. QED
  BY <1>0, <1>1, <1>2, <1>3, <1>4, <1>5, <1>6, <1>7 DEF SharingNext

(* A port is advertised over connections that are still there.             *)
LEMMA PortStep ==
  ASSUME SharingTypeOK, HandlerOK, [SharingNext]_sharingVars
  PROVE  port' \subseteq Live' /\ listening' \in BOOLEAN
<1>. USE DEF network, uploads
<1>0. /\ enabled \in BOOLEAN /\ listening \in BOOLEAN /\ port \subseteq Live
      /\ stage \in [Conn -> Stage]
  BY DEF SharingTypeOK
<1>1. ASSUME stage' = stage, port' \subseteq Live
      PROVE  port' \subseteq Live'
  BY <1>1 DEF Live
<1>2. CASE UNCHANGED sharingVars
  BY <1>0, <1>1, <1>2 DEF sharingVars
<1>3. CASE ScannerWalks \/ ScannerReturns \/ DrainDiscovered \/ DrainFinished
  BY <1>0, <1>1, <1>3 DEF ScannerWalks, ScannerReturns, DrainDiscovered, DrainFinished
<1>4. CASE StopSharingReturns
  BY <1>4 DEF StopSharingReturns
<1>5. CASE StartSharingAgain
  BY <1>0, <1>1, <1>5, Starts DEF StartSharingAgain
<1>6. ASSUME NEW c \in Conn, AddConnection(c) \/ SessionConnected(c)
      PROVE  port' \subseteq Live' /\ listening' = listening
  BY <1>0, <1>6 DEF AddConnection, SessionConnected, Live
<1>7. ASSUME NEW c \in Conn, LocalSessionIdAssigned(c)
      PROVE  port' \subseteq Live' /\ listening' \in BOOLEAN
  <2>1. port' \subseteq Live /\ listening' \in BOOLEAN
    BY <1>0, <1>7, Starts DEF LocalSessionIdAssigned
  <2>2. Live \subseteq Live'
    BY <1>0, <1>7 DEF LocalSessionIdAssigned, Live
  <2>. QED
    BY <2>1, <2>2
<1>8. ASSUME NEW c \in Conn, ConnectionLost(c)
      PROVE  port' \subseteq Live' /\ listening' = listening
  BY <1>0, <1>8 DEF ConnectionLost, Live
<1>9. CASE ToggleFileSharing
  <2>1. CASE enabled
    BY <1>0, <1>1, <1>9, <2>1 DEF ToggleFileSharing, StopSharing
  <2>2. CASE ~enabled
    <3>1. stage' = stage
      BY <1>9, <2>2 DEF ToggleFileSharing
    <3>2. CASE StartSharing(TRUE, folder)
      BY <1>1, <3>1, <3>2, Starts
    <3>3. CASE UNCHANGED <<vars, sharedCount, port, listening>>
      BY <1>0, <1>1, <3>1, <3>3
    <3>. QED
      BY <1>9, <2>2, <3>2, <3>3 DEF ToggleFileSharing
  <2>. QED
    BY <1>0, <2>1, <2>2
<1>10. ASSUME NEW d \in Folder, ChooseShareFolder(d)
       PROVE  port' \subseteq Live' /\ listening' = listening
  BY <1>0, <1>1, <1>10 DEF ChooseShareFolder, StopSharing
<1>11. ASSUME NEW on \in BOOLEAN, NEW d \in Folder, ApplySettings(on, d)
       PROVE  port' \subseteq Live' /\ listening' = listening
  BY <1>0, <1>1, <1>11 DEF ApplySettings, StopSharing
<1>. QED
  BY <1>0, <1>2, <1>3, <1>4, <1>5, <1>6, <1>7, <1>8, <1>9, <1>10, <1>11 DEF SharingNext

(* What the servers list and count, and what the upload server may serve.  *)
LEMMA PublishedType ==
  ASSUME SharingTypeOK, HandlerOK, [SharingNext]_sharingVars
  PROVE  /\ sharedCount' \in Nat
         /\ nodes' \in [Conn -> SUBSET Name] /\ filecount' \in [Conn -> Nat]
         /\ serving' \subseteq SharedFile
<1>. USE DEF network, uploads
<1>0. /\ enabled \in BOOLEAN /\ sharedCount \in Nat
      /\ nodes \in [Conn -> SUBSET Name] /\ filecount \in [Conn -> Nat]
      /\ serving \subseteq SharedFile /\ taken \subseteq SharedFile /\ TypeOK
  BY DEF SharingTypeOK, TypeOK
<1>1. CASE UNCHANGED sharingVars
  BY <1>0, <1>1 DEF sharingVars
<1>2. CASE ScannerWalks \/ ScannerReturns
  BY <1>0, <1>2 DEF ScannerWalks, ScannerReturns
<1>3. CASE StopSharingReturns
  BY <1>0, <1>3 DEF StopSharingReturns, Unpublish
<1>4. CASE StartSharingAgain
  BY <1>0, <1>4, Starts DEF StartSharingAgain
<1>5. ASSUME NEW c \in Conn, AddConnection(c) \/ SessionConnected(c)
      PROVE  UNCHANGED <<sharedCount, nodes, filecount, serving>>
  BY <1>5 DEF AddConnection, SessionConnected
<1>6. ASSUME NEW c \in Conn, LocalSessionIdAssigned(c)
      PROVE  sharedCount' \in Nat /\ UNCHANGED <<nodes, filecount, serving>>
  BY <1>0, <1>6, Starts DEF LocalSessionIdAssigned
<1>7. ASSUME NEW c \in Conn, ConnectionLost(c)
      PROVE  /\ UNCHANGED <<sharedCount, serving>>
             /\ nodes' \in [Conn -> SUBSET Name] /\ filecount' \in [Conn -> Nat]
  BY <1>0, <1>7 DEF ConnectionLost
<1>8. CASE ToggleFileSharing
  <2>1. CASE enabled
    BY <1>0, <1>8, <2>1 DEF ToggleFileSharing, StopSharing
  <2>2. CASE ~enabled
    BY <1>0, <1>8, <2>2, Starts DEF ToggleFileSharing
  <2>. QED
    BY <2>1, <2>2
<1>9. ASSUME NEW d \in Folder, ChooseShareFolder(d)
      PROVE  UNCHANGED <<sharedCount, nodes, filecount, serving>>
  BY <1>9 DEF ChooseShareFolder, StopSharing
<1>10. ASSUME NEW on \in BOOLEAN, NEW d \in Folder, ApplySettings(on, d)
       PROVE  UNCHANGED <<sharedCount, nodes, filecount, serving>>
  BY <1>10 DEF ApplySettings, StopSharing
<1>11. CASE DrainDiscovered
  <2>1. filecount' = filecount
    BY <1>11 DEF DrainDiscovered
  <2>2. CASE pending = <<>>
    BY <1>0, <1>11, <2>2 DEF DrainDiscovered
  <2>3. CASE pending # <<>>
    <3>1. /\ TakeDiscoveredFiles /\ serving' = taken' /\ sharedCount' = sharedCount + Len(pending)
          /\ nodes' = [c \in Conn |-> IF c \in Online THEN nodes[c] \cup NamesOf(Handed)
                                                      ELSE nodes[c]]
      BY <1>11, <2>3 DEF DrainDiscovered, Publish, ServeAll, Handed
    <3>2. taken' = taken \cup Handed /\ Handed \subseteq SharedFile
      BY <1>0, <3>1, TakenFiles
    <3>3. NamesOf(Handed) \subseteq Name
      BY <3>2 DEF NamesOf, SharedFile
    <3>4. Len(pending) \in Nat
      BY <1>0, LenProperties DEF TypeOK
    <3>. QED
      BY <1>0, <2>1, <3>1, <3>2, <3>3, <3>4
  <2>. QED
    BY <2>2, <2>3
<1>12. CASE DrainFinished
  BY <1>0, <1>12 DEF DrainFinished
<1>. QED
  BY <1>0, <1>1, <1>2, <1>3, <1>4, <1>5, <1>6, <1>7, <1>8, <1>9, <1>10, <1>11, <1>12
     DEF SharingNext

LEMMA ControlType ==
  ASSUME SharingTypeOK, HandlerOK, [SharingNext]_sharingVars
  PROVE  handler' \in {"none", "stopping", "starting", "draining"}
<1>. USE DEF control
<1>0. handler \in {"none", "stopping", "starting", "draining"}
  BY DEF SharingTypeOK
<1>1. CASE UNCHANGED sharingVars
  BY <1>0, <1>1 DEF sharingVars
<1>2. CASE ScannerWalks \/ ScannerReturns \/ StopSharingReturns \/ StartSharingAgain
  BY <1>0, <1>2 DEF ScannerWalks, ScannerReturns, StopSharingReturns, StartSharingAgain
<1>3. ASSUME NEW c \in Conn,
             \/ AddConnection(c) \/ SessionConnected(c) \/ LocalSessionIdAssigned(c)
             \/ ConnectionLost(c)
      PROVE  handler' = handler
  BY <1>3 DEF AddConnection, SessionConnected, LocalSessionIdAssigned, ConnectionLost
<1>4. CASE ToggleFileSharing
  BY <1>0, <1>4 DEF ToggleFileSharing, StopSharing
<1>5. ASSUME NEW d \in Folder, ChooseShareFolder(d)
      PROVE  handler' \in {handler, "stopping"}
  BY <1>5 DEF ChooseShareFolder, StopSharing
<1>6. ASSUME NEW on \in BOOLEAN, NEW d \in Folder, ApplySettings(on, d)
      PROVE  handler' \in {handler, "stopping"}
  BY <1>6 DEF ApplySettings, StopSharing
<1>7. CASE DrainDiscovered \/ DrainFinished
  BY <1>7 DEF DrainDiscovered, DrainFinished
<1>. QED
  BY <1>0, <1>1, <1>2, <1>3, <1>4, <1>5, <1>6, <1>7 DEF SharingNext

LEMMA SharingTypeStep ==
  ASSUME SharingTypeOK, HandlerOK, [SharingNext]_sharingVars
  PROVE  SharingTypeOK'
<1>1. [Next]_vars
  BY ScannerStep DEF ScannerMoves, Next
<1>2. TypeOK'
  BY <1>1, TypeStep DEF SharingTypeOK
<1>3. restart' \in 0..2
  BY HandlerStep DEF HandlerOK
<1>. QED
  BY <1>2, <1>3, StatesStep, PortStep, PublishedType, ControlType DEF SharingTypeOK

LEMMA SharingInitType == SharingInit => SharingTypeOK /\ HandlerOK
<1>. SUFFICES ASSUME SharingInit
     PROVE  SharingTypeOK /\ HandlerOK
  OBVIOUS
<1>1. TypeOK
  BY InitType DEF SharingInit
<1>2. /\ stage \in [Conn -> Stage] /\ nodes \in [Conn -> SUBSET Name]
      /\ filecount \in [Conn -> Nat]
  BY DEF SharingInit, Stage
<1>3. port \subseteq Live /\ serving \subseteq SharedFile
  BY DEF SharingInit
<1>4. enabled \in BOOLEAN /\ listening \in BOOLEAN
  BY DEF SharingInit
<1>5. HandlerOK /\ handler \in {"none", "stopping", "starting", "draining"}
  BY DEF SharingInit, HandlerOK
<1>6. sharedCount \in Nat /\ folder \in Folder \cup {NoFolder} /\ restart \in 0..2
  BY DEF SharingInit
<1>. QED
  BY <1>1, <1>2, <1>3, <1>4, <1>5, <1>6 DEF SharingTypeOK

(* The window's and the scanner's state always has its type, and a handler *)
(* that is split finds on its return what it left.                         *)
THEOREM SharingTypeCorrect == SharingSpec => [](SharingTypeOK /\ HandlerOK)
  BY SharingInitType, SharingTypeStep, HandlerStep, PTL DEF SharingSpec

(* However the window drives it, the scanner does what its module says and *)
(* its owner no more than that module lets him do: what is proved of the   *)
(* scanner alone is so within the window.                                  *)
THEOREM SharingImplementsScanner == SharingSpec => Spec
<1>1. SharingInit => Init
  BY DEF SharingInit
<1>2. ASSUME SharingTypeOK, HandlerOK, [SharingNext]_sharingVars
      PROVE  [Next]_vars
  BY <1>2, ScannerStep DEF ScannerMoves, Next
<1>. QED
  BY <1>1, <1>2, SharingTypeCorrect, PTL DEF SharingSpec, Spec
-----------------------------------------------------------------------------
(* What is shared.                                                         *)

LEMMA WalkedStep ==
  ASSUME TypeOK, WalkedOK, ScannerMoves
  PROVE  WalkedOK'
<1>. USE DEF WalkedOK, There, guarded, walk, gui, disk
<1>1. CASE UNCHANGED vars
  BY <1>1 DEF vars, Found
<1>2. CASE ScanThread
  <2>1. CASE OpenDirectory
    BY <2>1 DEF OpenDirectory, Found
  <2>2. CASE StopReading \/ Finish
    BY <2>2 DEF StopReading, Finish, Found
  <2>3. CASE ReadEntry
    <3>1. PICK e \in todo, d \in {root, directory} :
            /\ current' = File(d, e)
            /\ thread' = IF e \in contents[d] THEN "claim" ELSE "read"
      BY <2>3 DEF ReadEntry
    <3>2. e \in Entry /\ d \in Folder
      BY <3>1 DEF TypeOK
    <3>3. current'.folder = d /\ <<current'.sub, current'.name>> = e
      BY <3>1, <3>2 DEF File, Entry
    <3>4. /\ UNCHANGED <<root, pending, taken, contents, present>> /\ thread = "read"
      BY <2>3 DEF ReadEntry
    <3>. QED
      BY <3>1, <3>3, <3>4 DEF Found
  <2>4. CASE ClaimName
    BY <2>4 DEF ClaimName, Found
  <2>5. CASE AppendFile
    BY <2>5, AppendedFile DEF AppendFile
  <2>. QED
    BY <1>2, <2>1, <2>2, <2>3, <2>4, <2>5 DEF ScanThread
<1>3. CASE GuiThread
  <2>1. CASE StopScan \/ TakeScanFinished \/ StopScanReturns
    BY <2>1 DEF StopScan, AskToStop, TakeScanFinished, StopScanReturns, Found
  <2>2. ASSUME NEW d \in Folder, StartScan(d)
        PROVE  WalkedOK'
    BY <2>2 DEF StartScan, AskToStop, Found
  <2>3. CASE ForgetTaken
    BY <2>3 DEF ForgetTaken, Found
  <2>4. CASE StartScanReturns
    <3>1. Found' = taken /\ taken \subseteq Found
      BY <2>4 DEF StartScanReturns, ClearPending, Found
    <3>2. thread' \in {"none", "open"} /\ contents' = contents
      BY <2>4 DEF StartScanReturns
    <3>. QED
      BY <3>1, <3>2
  <2>5. CASE TakeDiscoveredFiles
    BY <2>5, TakenFiles DEF TakeDiscoveredFiles
  <2>. QED
    BY <1>3, <2>1, <2>2, <2>3, <2>4, <2>5 DEF GuiThread
<1>. QED
  BY <1>1, <1>2, <1>3 DEF ScannerMoves

(* The scanning thread, and the end of a call that waited for it, change   *)
(* neither the folder nor what was taken; a scan starts only where asked.  *)
LEMMA OwnerKeeps ==
  ASSUME ScanThread \/ StopScanReturns \/ StartScanReturns \/ StopScan \/ TakeScanFinished
  PROVE  /\ UNCHANGED <<directory, taken>>
         /\ running' => running \/ call = "start"
         /\ call' = "start" => call = "start"
<1>1. CASE ScanThread
  BY <1>1 DEF ScanThread, OpenDirectory, StopReading, ReadEntry, ClaimName, AppendFile, Finish, gui
<1>2. CASE StopScanReturns \/ StartScanReturns
  BY <1>2 DEF StopScanReturns, StartScanReturns
<1>3. CASE StopScan \/ TakeScanFinished
  BY <1>3 DEF StopScan, AskToStop, TakeScanFinished, gui
<1>. QED
  BY <1>1, <1>2, <1>3

LEMMA StartScanForgets ==
  ASSUME NEW d \in Folder, StartScan(d)
  PROVE  directory' = d /\ taken' = {} /\ running' = running
  BY DEF StartScan, AskToStop

LEMMA NoScanStep ==
  ASSUME SharingTypeOK, HandlerOK, NoScan, [SharingNext]_sharingVars
  PROVE  NoScan'
<1>. USE DEF NoScan, settings
<1>0. enabled \in BOOLEAN
  BY DEF SharingTypeOK
<1>1. CASE UNCHANGED vars /\ folder' = folder
  BY <1>1 DEF vars, gui
<1>2. CASE ScannerWalks \/ ScannerReturns
  BY <1>2, OwnerKeeps DEF ScannerWalks, ScannerReturns
<1>3. CASE StopSharingReturns
  BY <1>3 DEF StopSharingReturns
<1>4. ASSUME NEW on \in BOOLEAN, StartSharing(on, folder), folder' = folder
      PROVE  NoScan'
  <2>1. CASE folder = NoFolder
    BY <1>1, <1>4, <2>1, Starts
  <2>2. CASE folder # NoFolder
    BY <1>4, <2>2
  <2>. QED
    BY <2>1, <2>2
<1>5. CASE StartSharingAgain
  BY <1>0, <1>4, <1>5 DEF StartSharingAgain
<1>6. ASSUME NEW c \in Conn, AddConnection(c) \/ SessionConnected(c) \/ ConnectionLost(c)
      PROVE  NoScan'
  BY <1>1, <1>6 DEF AddConnection, SessionConnected, ConnectionLost
<1>7. ASSUME NEW c \in Conn, LocalSessionIdAssigned(c)
      PROVE  NoScan'
  BY <1>0, <1>4, <1>7 DEF LocalSessionIdAssigned
<1>8. CASE ToggleFileSharing
  <2>1. folder' = folder
    BY <1>8 DEF ToggleFileSharing
  <2>2. CASE enabled
    BY <1>8, <2>1, <2>2, OwnerKeeps DEF ToggleFileSharing, StopSharing
  <2>3. CASE ~enabled
    BY <1>1, <1>4, <1>8, <2>1, <2>3 DEF ToggleFileSharing
  <2>. QED
    BY <2>2, <2>3
<1>9. ASSUME NEW d \in Folder, folder' = d
      PROVE  NoScan'
  BY <1>9, SharingAssumption
<1>10. ASSUME NEW d \in Folder, ChooseShareFolder(d)
       PROVE  NoScan'
  BY <1>9, <1>10 DEF ChooseShareFolder
<1>11. ASSUME NEW on \in BOOLEAN, NEW d \in Folder, ApplySettings(on, d)
       PROVE  NoScan'
  BY <1>9, <1>11 DEF ApplySettings
<1>12. CASE DrainDiscovered
  BY <1>1, <1>12 DEF DrainDiscovered, TakeDiscoveredFiles
<1>13. CASE DrainFinished
  BY <1>1, <1>13, OwnerKeeps DEF DrainFinished
<1>. QED
  BY <1>1, <1>2, <1>3, <1>5, <1>6, <1>7, <1>8, <1>10, <1>11, <1>12, <1>13
     DEF SharingNext, sharingVars

(* A server more, or less, is told what there is to tell.                  *)
PromisesOK == DirectoryOK /\ PublishedOK

LEMMA StillPromised ==
  ASSUME PromisesOK, UNCHANGED <<settings, control, stage, nodes, directory, taken>>
  PROVE  PromisesOK'
  BY DEF PromisesOK, DirectoryOK, PublishedOK, Wanted, StopsForGood, Ready, settings, control

(* A scan that is started is of the folder in the settings, and nothing of *)
(* it was taken yet.                                                       *)
LEMMA StartPromises ==
  ASSUME SharingTypeOK, NEW on \in BOOLEAN, StartSharing(on, folder),
         folder' = folder, enabled' => on, handler' # "stopping"
  PROVE  PromisesOK'
<1>1. CASE on /\ folder # NoFolder
  <2>1. directory' = folder' /\ taken' = {}
    BY <1>1, Starts, StartScanForgets
  <2>. QED
    BY <2>1 DEF PromisesOK, DirectoryOK, PublishedOK, StopsForGood, NamesOf
<1>2. CASE ~(on /\ folder # NoFolder)
  BY <1>2 DEF PromisesOK, DirectoryOK, PublishedOK, Wanted, StopsForGood
<1>. QED
  BY <1>1, <1>2

(* Nothing is promised while sharing is off or nobody is there to be told. *)
LEMMA NothingPromised ==
  ASSUME ~Wanted'
  PROVE  PromisesOK'
  BY DEF PromisesOK, DirectoryOK, PublishedOK

LEMMA PromisesStep ==
  ASSUME SharingTypeOK, HandlerOK, PromisesOK, [SharingNext]_sharingVars
  PROVE  PromisesOK'
<1>0. /\ enabled \in BOOLEAN /\ stage \in [Conn -> Stage] /\ nodes \in [Conn -> SUBSET Name]
  BY DEF SharingTypeOK
<1>1. CASE UNCHANGED sharingVars
  BY <1>1, StillPromised DEF sharingVars, vars, gui, network
<1>2. CASE ScannerWalks \/ ScannerReturns
  BY <1>2, OwnerKeeps, StillPromised DEF ScannerWalks, ScannerReturns, network
<1>3. CASE StopSharingReturns
  <2>1. UNCHANGED <<settings, stage>> /\ taken' = {} /\ handler = "stopping"
        /\ handler' = IF restart > 0 THEN "starting" ELSE "none"
    BY <1>3 DEF StopSharingReturns
  <2>2. CASE restart > 0
    BY <2>1, <2>2 DEF PromisesOK, DirectoryOK, PublishedOK, StopsForGood
  <2>3. CASE ~(restart > 0)
    <3>1. restart = 0
      BY <2>3 DEF HandlerOK
    <3>2. ~Wanted'
      BY <2>1, <3>1 DEF PromisesOK, DirectoryOK, StopsForGood, Wanted, Ready, settings
    <3>. QED
      BY <3>2, NothingPromised
  <2>. QED
    BY <2>2, <2>3
<1>4. CASE StartSharingAgain
  BY <1>0, <1>4, StartPromises DEF StartSharingAgain, settings
<1>5. ASSUME NEW c \in Conn, AddConnection(c) \/ SessionConnected(c)
      PROVE  PromisesOK'
  <2>1. Ready' = Ready
    BY <1>0, <1>5 DEF AddConnection, SessionConnected, Ready
  <2>2. UNCHANGED <<settings, control, nodes, directory, taken>>
    BY <1>5 DEF AddConnection, SessionConnected, vars, gui
  <2>. QED
    BY <2>1, <2>2
       DEF PromisesOK, DirectoryOK, PublishedOK, Wanted, StopsForGood, settings, control
<1>6. ASSUME NEW c \in Conn, ConnectionLost(c)
      PROVE  PromisesOK'
  <2>1. /\ Ready' \subseteq Ready
        /\ \A k \in Ready' : nodes'[k] = nodes[k]
    BY <1>0, <1>6 DEF ConnectionLost, Ready
  <2>2. UNCHANGED <<settings, control, directory, taken>>
    BY <1>6 DEF ConnectionLost, vars, gui
  <2>. QED
    BY <2>1, <2>2
       DEF PromisesOK, DirectoryOK, PublishedOK, Wanted, StopsForGood, settings, control
<1>7. ASSUME NEW c \in Conn, LocalSessionIdAssigned(c)
      PROVE  PromisesOK'
  BY <1>0, <1>7, StartPromises DEF LocalSessionIdAssigned, settings, control, Idle
<1>8. ASSUME NEW again \in 0..2, StopSharing(again), again = 0 => ~Wanted'
      PROVE  PromisesOK'
  BY <1>8 DEF StopSharing, PromisesOK, DirectoryOK, PublishedOK, StopsForGood
<1>9. Ready \subseteq Online
  BY DEF Ready, Online
<1>10. CASE ToggleFileSharing
  <2>1. CASE enabled
    <3>1. StopSharing(0) /\ ~Wanted'
      BY <1>10, <2>1 DEF ToggleFileSharing, Wanted
    <3>. QED
      BY <1>8, <3>1
  <2>2. CASE ~enabled /\ Online # {}
    BY <1>10, <2>2, StartPromises DEF ToggleFileSharing, control, Idle
  <2>3. CASE ~enabled /\ Online = {}
    <3>1. stage' = stage
      BY <1>10, <2>3 DEF ToggleFileSharing
    <3>. QED
      BY <1>9, <2>3, <3>1, NothingPromised DEF Wanted, Ready
  <2>. QED
    BY <2>1, <2>2, <2>3
<1>11. ASSUME NEW d \in Folder, ChooseShareFolder(d)
       PROVE  PromisesOK'
  <2>1. CASE enabled /\ Online # {}
    BY <1>8, <1>11, <2>1 DEF ChooseShareFolder
  <2>2. CASE ~(enabled /\ Online # {})
    <3>1. UNCHANGED <<enabled, stage>>
      BY <1>11, <2>2 DEF ChooseShareFolder, network
    <3>. QED
      BY <1>9, <2>2, <3>1, NothingPromised DEF Wanted, Ready
  <2>. QED
    BY <2>1, <2>2
<1>12. ASSUME NEW on \in BOOLEAN, NEW d \in Folder, ApplySettings(on, d)
       PROVE  PromisesOK'
  <2>1. enabled' = on /\ stage' = stage
    BY <1>12 DEF ApplySettings, StopSharing, network
  <2>2. ~on \/ Online = {} => ~Wanted'
    BY <1>9, <2>1 DEF Wanted, Ready
  <2>3. CASE enabled \/ on
    BY <1>8, <1>12, <2>2, <2>3 DEF ApplySettings
  <2>4. CASE ~(enabled \/ on)
    BY <2>2, <2>4, NothingPromised
  <2>. QED
    BY <2>3, <2>4
<1>13. CASE DrainDiscovered
  <2>1. /\ handler = "none" /\ handler' = "draining" /\ UNCHANGED <<settings, stage>>
    BY <1>13 DEF DrainDiscovered, Idle
  <2>2. CASE pending = <<>>
    <3>1. UNCHANGED <<directory, taken, nodes>>
      BY <1>13, <2>2 DEF DrainDiscovered, vars, gui
    <3>. QED
      BY <2>1, <3>1
         DEF PromisesOK, DirectoryOK, PublishedOK, Wanted, StopsForGood, Ready, settings
  <2>3. CASE pending # <<>>
    <3>1. TakeDiscoveredFiles
          /\ nodes' = [c \in Conn |-> IF c \in Online THEN nodes[c] \cup NamesOf(Handed)
                                                      ELSE nodes[c]]
      BY <1>13, <2>3 DEF DrainDiscovered, Publish, Handed
    <3>2. taken' = taken \cup Handed /\ directory' = directory
      BY <3>1, TakenFiles DEF SharingTypeOK, TakeDiscoveredFiles
    <3>3. NamesOf(taken') = NamesOf(taken) \cup NamesOf(Handed)
      BY <3>2 DEF NamesOf
    <3>4. Ready' = Ready /\ Ready \subseteq Conn
      BY <2>1 DEF Ready
    <3>5. ASSUME Wanted', NEW c \in Ready'
          PROVE  NamesOf(taken') \subseteq nodes'[c]
      <4>1. NamesOf(taken) \subseteq nodes[c]
        BY <2>1, <3>4, <3>5 DEF PromisesOK, PublishedOK, Wanted, settings
      <4>. QED
        BY <1>9, <3>1, <3>3, <3>4, <3>5, <4>1
    <3>6. PublishedOK'
      BY <3>5 DEF PublishedOK
    <3>7. DirectoryOK'
      BY <2>1, <3>2, <3>4 DEF PromisesOK, DirectoryOK, Wanted, StopsForGood, settings
    <3>. QED
      BY <3>6, <3>7 DEF PromisesOK
  <2>. QED
    BY <2>2, <2>3
<1>14. CASE DrainFinished
  <2>1. /\ handler = "draining" /\ handler' = "none" /\ UNCHANGED <<settings, stage, nodes>>
        /\ UNCHANGED <<directory, taken>>
    BY <1>14, OwnerKeeps DEF DrainFinished, vars, gui
  <2>. QED
    BY <2>1 DEF PromisesOK, DirectoryOK, PublishedOK, Wanted, StopsForGood, Ready, settings
<1>. QED
  BY <1>1, <1>2, <1>3, <1>4, <1>5, <1>6, <1>7, <1>10, <1>11, <1>12, <1>13, <1>14
     DEF SharingNext

LEMMA ServingStep ==
  ASSUME SharingTypeOK, HandlerOK, ServingOK, [SharingNext]_sharingVars
  PROVE  ServingOK'
<1>. USE DEF ServingOK, uploads
<1>0. enabled \in BOOLEAN
  BY DEF SharingTypeOK
<1>1. CASE UNCHANGED sharingVars
  BY <1>1 DEF sharingVars, vars, gui
<1>2. CASE ScannerWalks \/ ScannerReturns
  BY <1>2, OwnerKeeps DEF ScannerWalks, ScannerReturns
<1>3. CASE StopSharingReturns
  BY <1>3 DEF StopSharingReturns
<1>4. ASSUME NEW on \in BOOLEAN, StartSharing(on, folder), serving' = serving
      PROVE  ServingOK'
  BY <1>4, Starts, StartScanForgets DEF vars, gui
<1>5. CASE StartSharingAgain
  BY <1>0, <1>4, <1>5 DEF StartSharingAgain
<1>6. ASSUME NEW c \in Conn, AddConnection(c) \/ SessionConnected(c) \/ ConnectionLost(c)
      PROVE  ServingOK'
  BY <1>6 DEF AddConnection, SessionConnected, ConnectionLost, vars, gui
<1>7. ASSUME NEW c \in Conn, LocalSessionIdAssigned(c)
      PROVE  ServingOK'
  BY <1>0, <1>4, <1>7 DEF LocalSessionIdAssigned
<1>8. ASSUME NEW again \in 0..2, StopSharing(again)
      PROVE  ServingOK'
  BY <1>8, OwnerKeeps DEF StopSharing
<1>9. CASE UNCHANGED <<vars, serving>>
  BY <1>9 DEF vars, gui
<1>10. CASE ToggleFileSharing
  <2>1. CASE enabled
    BY <1>8, <1>10, <2>1 DEF ToggleFileSharing
  <2>2. CASE ~enabled /\ Online # {}
    BY <1>4, <1>10, <2>2 DEF ToggleFileSharing
  <2>3. CASE ~enabled /\ Online = {}
    <3>1. UNCHANGED <<vars, serving>>
      BY <1>10, <2>3 DEF ToggleFileSharing
    <3>. QED
      BY <1>9, <3>1
  <2>. QED
    BY <2>1, <2>2, <2>3
<1>11. ASSUME NEW d \in Folder, ChooseShareFolder(d)
       PROVE  ServingOK'
  BY <1>8, <1>9, <1>11 DEF ChooseShareFolder
<1>12. ASSUME NEW on \in BOOLEAN, NEW d \in Folder, ApplySettings(on, d)
       PROVE  ServingOK'
  BY <1>8, <1>9, <1>12 DEF ApplySettings
<1>13. CASE DrainDiscovered
  BY <1>9, <1>13 DEF DrainDiscovered, ServeAll
<1>14. CASE DrainFinished
  BY <1>9, <1>14, OwnerKeeps DEF DrainFinished
<1>. QED
  BY <1>1, <1>2, <1>3, <1>5, <1>6, <1>7, <1>10, <1>11, <1>12, <1>13, <1>14 DEF SharingNext

LEMMA WindowInv == SharingSpec => []SharingInv
<1>1. SharingInit => SharingInv
  BY DEF SharingInit, Init, SharingInv, WalkedOK, There, Found, NoScan, DirectoryOK, PublishedOK,
     ServingOK, Wanted, Ready, StopsForGood
<1>2. ASSUME SharingTypeOK, HandlerOK, SharingInv, [SharingNext]_sharingVars
      PROVE  SharingInv'
  <2>1. WalkedOK'
    BY <1>2, ScannerStep, WalkedStep DEF SharingInv, SharingTypeOK
  <2>2. NoScan' /\ ServingOK'
    BY <1>2, NoScanStep, ServingStep DEF SharingInv
  <2>3. DirectoryOK' /\ PublishedOK'
    BY <1>2, PromisesStep DEF SharingInv, PromisesOK
  <2>. QED
    BY <2>1, <2>2, <2>3 DEF SharingInv
<1>. QED
  BY <1>1, <1>2, SharingTypeCorrect, PTL DEF SharingSpec

(* What has settled: a scan of the folder in the settings that took its    *)
(* every leaf name, and of nothing else.                                   *)
LEMMA SettledScan ==
  ASSUME SharingTypeOK, FolderOK, ScanIsComplete, SharingInv, Settled, Ready # {}
  PROVE  /\ directory = folder /\ folder \in Folder
         /\ NamesOf(taken) = NamesOfEntries(contents[folder])
         /\ \A f \in taken : f.folder = folder
         /\ \A c \in Ready : NamesOf(taken) \subseteq nodes[c]
<1>1. /\ Scanning /\ thread = "done" /\ call = "none" /\ handler = "none" /\ enabled
      /\ Found = taken
  BY DEF Settled, Completed, Idle, Scanning, SharingTypeOK, TypeOK, Found
<1>2. folder \in Folder /\ Wanted /\ directory = folder
  BY <1>1 DEF SharingInv, NoScan, Scanning, DirectoryOK, Wanted, SharingTypeOK
<1>3. root = folder /\ \A f \in taken : f.folder = folder
  BY <1>1, <1>2 DEF FolderOK
<1>4. present = contents[folder]
  BY <1>1, <1>3 DEF SharingInv, WalkedOK
<1>5. NamesOfEntries(contents[folder]) \subseteq NamesOf(taken)
  BY <1>1, <1>4 DEF ScanIsComplete, Settled
<1>6. NamesOf(taken) \subseteq NamesOfEntries(contents[folder])
  <2>1. ASSUME NEW f \in taken
        PROVE  \E e \in contents[folder] : e[2] = f.name
    <3>1. <<f.sub, f.name>> \in contents[folder]
      BY <1>1, <1>3, <2>1 DEF SharingInv, WalkedOK, There
    <3>2. <<f.sub, f.name>>[2] = f.name
      OBVIOUS
    <3>. QED
      BY <3>1, <3>2
  <2>. QED
    BY <2>1 DEF NamesOf, NamesOfEntries
<1>7. \A c \in Ready : NamesOf(taken) \subseteq nodes[c]
  BY <1>1, <1>2 DEF SharingInv, PublishedOK
<1>. QED
  BY <1>2, <1>3, <1>5, <1>6, <1>7

(* Whatever servers came and went and whatever was switched meanwhile, a   *)
(* scan that has settled was of the folder in the settings, and every      *)
(* server that gave us a session lists all of its leaf names               *)
(* (MainWindow.cpp: _StartSharing, _StopSharing, _DrainShareScanner).      *)
THEOREM AllIsPublished == SharingSpec => []EverythingPublished
<1>1. SharingTypeOK /\ FolderOK /\ ScanIsComplete /\ SharingInv => EverythingPublished
  BY SettledScan DEF EverythingPublished
<1>. QED
  BY <1>1, SharingImplementsScanner, Scans, CompleteScans, SharingTypeCorrect, WindowInv, PTL

(* ... and the upload server serves just these, at their own paths         *)
(* (MainWindow.cpp: _DrainShareScanner, SetSharedFiles).                   *)
THEOREM AllIsServed == SharingSpec => []EverythingServed
<1>1. ASSUME SharingTypeOK, FolderOK, ScanIsComplete, SharingInv,
             Settled, Ready # {}, contents[folder] # {}
      PROVE  /\ NamesOf(serving) = NamesOfEntries(contents[folder])
             /\ \A f \in serving : f.folder = folder
  <2>1. NamesOf(taken) # {}
    BY <1>1, SettledScan DEF NamesOfEntries
  <2>2. serving = taken
    BY <1>1, <2>1 DEF SharingInv, ServingOK, NamesOf
  <2>. QED
    BY <1>1, <2>2, SettledScan
<1>2. SharingTypeOK /\ FolderOK /\ ScanIsComplete /\ SharingInv => EverythingServed
  BY <1>1 DEF EverythingServed
<1>. QED
  BY <1>2, SharingImplementsScanner, Scans, CompleteScans, SharingTypeCorrect, WindowInv, PTL
=============================================================================
