# TLA+ models of HiTuxShare

HiTuxShare is a C++17/Qt 6 client for BeShare, a file-sharing chat network. Clients connect to a
MUSCLE server, publish who they are and what they share as nodes of its database, query each other's
nodes, and copy files from each other over direct TCP connections. This directory holds TLA+ models of
the parts of the client where the order of events matters, the TLC configurations that check them, and
TLAPS proofs about them. Paths below are relative to the repository.

    cd tla
    tlc -config UploadSlots.cfg MCFileUploadServer     # any run of PROJECT.json
    tlapm Transfer_proofs.tla                          # any module named *_proofs

## 1. The system

Threads. MUSCLE runs every socket on an internal thread of its own and posts what happens to the GUI
thread; every handler of this program runs there, one after another, and none blocks. What interleaves
is the *order of events*: one connection's against another's, the user's clicks, timers. The exception
is `ShareScanner`, whose walk of the share folder is a real second thread with a mutex.

| Component | State it keeps | Operations | Hard about it |
|---|---|---|---|
| `core/FileUploadServer` | connected peers in table order; per peer its request, the file open, whether it is queued; the cap; what is shared | start/stop listening, peer accepted / detached, `FILE_LIST`, output queue drained, setters | slots counted and handed out by four handlers; sending is a chain of notifications; files change on disk |
| `core/FileDownload` | the session's state, the file open, its path, bytes done, files completed | start, abort, connected, disconnected, header, data, queued, rejected | partial files, name collisions, a peer that hangs up anywhere, events after an abort |
| `core/DownloadManager` | downloads, queued starts, the cap | start, abort one / all, clear, idle tick, state-changed callback | the callback re-enters the scheduler in the middle of loops |
| `core/ShareScanner` | folder, pending files, claimed names, flags | start/stop scan, take files, take "finished"; the thread | two threads; the folder is not guarded by the lock |
| `core/ServerConnection` | connection state, session ID, users, query, name, status, port, firewalled flag | connect, disconnect, publish, query, chat, the node updates of the server | asynchronous answers, identity known late |
| `core/ConnectionManager` | up to eight connections | add, remove, broadcast, resolve a user | which connections a broadcast reaches |
| `core/UserRegistry` | session ID to record | get or create, remove, find | follows node updates in any order |
| `core/ApplicationSettings` | one MUSCLE message | load, save, typed getters and setters, remember servers and names | crash while saving, bounded lists, copies elsewhere |
| `core/ChatCommandParser`, `ChatAliases`, `UserFilterSet` | aliases, filters | expand, parse, match | names change under a filter |
| `core/ChatLogger` | the switch, folder, server, open file and its day | setters, log a line | a file kept open while all of these change |
| `qt/MainWindow` | settings, shared files, pending query results, which of everything is on | every menu command; the listener of all of the above | sharing, settings, chat and queries each span several components |
| `qt/ServerListUpdater` | the request under way, which URL | start, reply | the reply comes at any time |
| `qt/FileResultModel`, `qt/UserListModel` | rows shown, and an index | add, remove, rename | batches overtaken by removals; an index of shifting rows |
| `tools/probe`, `scripts`, `packaging` | | developer tools | out of scope |

Interactions: `MainWindow` owns all of it and is everybody's listener. A download goes
`MainWindow` → `DownloadManager::StartDownloads` → `FileDownload::Start` → TCP → the other client's
`FileUploadServer`. Sharing goes `MainWindow::_StartSharing` → `FileUploadServer::StartListening` and
`ShareScanner::StartScan`; the idle timer takes what the scanner found to every `ServerConnection` and to
the upload server.

What makes each correct, in one line: *uploads* keep to the cap, lose no wake-up, starve nobody and send
whole files; *downloads* leave only whole files, lose none and report their state truthfully; *the
download manager* leaves no slot idle, starts whom it should, forgets nobody and stops everybody; *the scanner* delivers one
file per name, of the folder it was asked about; *connections* have told their server what they would tell it
now; *settings* are what every component runs with, and what the next start has; *chat* shows each line once, to
whom it is meant and of whom the user wants to hear; *sharing* has every server and the upload server agree
with the folder in the end, and nothing published when it is off; *queries* show what the servers have of
the present query and nothing of an earlier one.

`PROJECT.json` lists under `hazards` each place where this can go wrong in a way a test would hardly reach.

## 2. The modules

**`FileUploadServer`** — a handler is one action. `Advance`, `Emitted` and `RequestedDrains` are the effect of
`_BeginNextFile` and `_SendNextChunk` on one peer: the position in its request, what is sent (as stamps
`<<list, entry, chunk>>`), and how many drain notifications are asked for. The recursion through
`_StartNextQueuedPeer` (a peer whose files are all empty passes the slot on) is `Startable`: the set of
peers one call starts, written as a condition on the set instead of a recursion, so that it can be proved
about. `arrival` is the insertion order of the `Hashtable`. `MCFileUploadServer` adds the symmetry;
`MCUploadQueue` adds a history of when each peer was queued.

**`FileDownload`** — one session, against a peer that sends any message at any time and other programs
that write to the download directory. A path is a requested name and an attempt of the renaming scheme.
A handler is one action, except that of a header: `FileHeader` goes as far as `PathExists` finds a free path
(`candidate`), and `OpenOutputFile` is the `fopen` after it, which truncates; another program may write in between.
With `late`, chosen at the start, the user may also cancel a download that waits, and the events MUSCLE had
queued when `Abort` shut its thread down still arrive; the lifecycle is promised without them only.
**`DownloadLifecycle`** is what the header promises of the state (`queued` → `connecting` → `waiting` /
`transferring` → one of the two ends, which are final); `FileDownload` implements it by the identity
mapping on `state`, checked as the property `LifecycleSpec`.

**`DownloadManager`** — the callback re-enters the scheduler, and the scheduler is called from loops, so
one loop iteration is a step and a stack-like program state says where the GUI thread is. No event of the
outside comes in between. What the window clears away is any choice of the downloads that are over, in their
order. A download is allocated at any address that is free, one that `fQueuedStarts` still names included; the
history variable `reused` remembers that this has happened since the queue was last empty.

**`Transfer`** extends `FileUploadServer` by one `FileDownload` (`Client`, an `INSTANCE` whose `disk` is the
download directory): the stamps the server has sent and the client has not read are the bytes on the wire, in
their order; headers carry the sizes the server has; hanging up at one end becomes the other's disconnect.
Other peers compete for the slots. The names of `FileUploadServer` that it extends mean the server's half
(`Init`, `Next`, `vars`, `Spec`); the whole is `TransferInit`, `TransferNext`, `transferVars`, `TransferSpec`.

**`ShareScanner`** — the scanning thread takes a step per section it holds the lock for, the GUI thread
calls `StartScan` and `StopScan`, which are split where they wait for the thread. Other programs write to
the folders throughout. `contents` is what the walk can reach of a folder: a directory below `kMaximumScanDepth` or
one that `opendir` refuses counts as one with nothing in it. The history variable `present` holds the files that were there for the whole scan,
which is what a finished scan must have found.

**`Sharing`** extends `ShareScanner` by `MainWindow`'s handlers, the servers (what each lists under
`beshare/files`, its file count and the port) and the upload server's table. A `ServerConnection` goes
through the stages none, connecting, connected, ready (its session ID is known) and lost, and connects
once, because `AddConnection` returns a lost one as it is. The scanner's owner is the window, so `taken` is its `fSharedFiles`.
`MCSharing` adds the symmetry. A handler that waits for the scanning thread, and the idle tick, which asks the scanner twice, are split there and nowhere else. Accepting the settings
dialog with the switch changed also toggles the menu's check mark, whose handler runs again.

**`QueryResults`** joins `ServerConnection`'s query half, the registry's names, `MainWindow`'s pending
results with their timer, and `FileResultModel`'s rows and index (`model`). A pattern is the set of names
that it matches. Each server's messages are a queue, `wire`; a server answers a query by what matches and
then the ping, and a stopped query makes it drop what it has queued about files, as much of it as is
not on its way yet. A broadcast is one step: its handlers run without anything else in between.
`owed`, `told` and `sweeping` are histories: what was there ever since the server took the query, what we
were told of and not told to be gone, and what the listener last heard about the sweep. Left out: our own
nodes, and a user's status arriving before the name. The stages before a connection is up are one, and a
connection that is down stays so; what its server has no longer matters and is reset. `MCQueryResults` adds
the symmetry, of connections and, while no message brings two results, of names.

**`Subsequences`** — what is left of a list when a loop drops some of its entries: `Picked`, by the positions that
stay. It is `SelectSeq` without its recursion, and is what `Settings`, `Application`, `QueryResults` and `UserList` are proved about with.

**`Texts`**, **`Settings`**, **`Connections`**, **`Application`** — `Settings` is `ApplicationSettings` as operators
on the message: a getter or setter is its field's type, default and clamp, `RememberInList` the bounded lists, `Load`
what a torn file reads as. `Connections` is the list of connections with, for each, what its server holds of us
(`node`, `files`) beside what it would publish (`local`, `firewalled`); an operator on one connection and one that
broadcasts it, as in the two classes. `Application` is the state machine around both: the constructor as one step
(`Start`), the settings dialog, the connect and status widgets, the commands and menu items that change settings or
connections, the fetched server list, the connections' events, closing, and a kill at any moment, in a `Save`
included. `running` is what the components that keep a copy were last told. A dialog's nested event loop is left out: it is
one step when it is accepted.

**`ChatInput`**, **`UserList`**, **`ChatLogger`**, **`Chat`** — the first three are operators: alias expansion, parser and
filters on lines of words; a registry's users and the user list's rows and index; the log file. `Chat` is the
machine: each connection has a channel to its server and one back, in order; the servers relay what is said to
everyone to us as well, give no session ID twice, and may restart, after which the IDs come again. What is typed runs the whole of
`_HandleUserInput`, of which the commands that touch neither chat nor filters are `Application`'s or `QueryResults`'.
`shown` and `heard` are the lines and whispers of the last step; `ever` is a history of the names each session had.
`MCChat` defines the names, one of which looks like a session ID, and the lines.

### Abstractions

Sizes are in chunks of 32 KB; names, sessions, files are model values; checksums, munging, rate limits,
progress and report texts, user-visible strings and MIME types are left out. A name that fails sanitising
is a file that cannot be opened. The firewalled flag is left out of `Sharing` and the scan is
one flag in `Application`. In `Settings`, texts that differ in case only are one text, as they are compared so; the
dialog's spin boxes hold any number that was set. In `Chat`, a user's status and the other columns are left out, the
names that a subscription finds come in one message, a glob is a relation between patterns and names, and the
servers (external) do what comments in `ServerConnection.cpp` say of them. `operator new` failing is
not modelled, nor is a `Save` that returns an error, which its callers ignore; one that is cut short by a kill is. What is outside `src/` (MUSCLE's delivery, the file system, the server's database) is modelled
from the way the code uses it and marked `external` in the map.

## 3. The runs

Passing runs, with their instance:

| Run | Instance | Shows |
|---|---|---|
| `UploadSlots` | 3 peers, 2 files of 0–1 chunks, 2 slots, requests of up to 2 names, each peer asks once | senders within the cap; one notification per sender; waiting only when all slots but one are taken; everything openable is sent to the last chunk; no peer overtakes one ahead of it in the table |
| `UploadChurn` | 3 peers, 1 file, 2 requests each, the cap lowered to the minimum, files appear, vanish, change | what still holds: types, and no handler hands out a slot above the cap |
| `DownloadSession` | 2 names, 2 attempts of renaming, sizes to 2, up to 3 units arriving, with and without late events | only whole files of ours are left, the count is what is on disk, no file that was there when the path was chosen is touched, the lifecycle |
| `DownloadSlots` | 3 downloads, 2 sharers, up to 3 queued starts, the cap between 1 and 2, addresses allocated again, fair | no slot idle while a start is queued, somebody will start every waiter, `AbortAll` leaves nothing running if no queued address was reused, who waits for ever waits for sessions that never end |
| `TransferToEnd` | one download against a server with 2 slots, a second peer competes, 1 file of up to 2 chunks, requests of up to 2 names, fair | exact copies; everything served is kept; the request is served |
| `ScanThreads` | 2 folders, 1 sub-folder, 2 names, up to 2 repeated names, files come and go, fair | one file a name, of the right folder, nothing missed that was there throughout, both calls return |
| `SharingSettled` | 2 servers, 2 folders, 2 names | once settled, published everywhere and served |
| `QueryRows` | 2 servers, 1 other user, 2 names with a pattern each, 2 queries, 2 messages or results under way | rows of the active query only, complete when the sweep ends, no result lost between message and row, names current |
| `Application` | 3 servers, 2 of them connected to at most, lists of 2, 2 starts, 3 things the user does, 5 fields that vary, no earlier settings file, or one in which sharing was on or off (`Kept`) | types; servers hold what we would send now; components run with what is stored; what is connected stays listed; no list has an entry twice; closing saves everything |
| `Chat` | 2 servers, 2 session IDs, 2 other names, 7 lines to type, 3 things that the user, the others or the network do | our lines once, ignored users out, whispers to the named, the right log file, the user list shows everyone and is current |

The invariants `TypeOK` of `FileDownload`, `DownloadManager`, `ShareScanner`, `QueryResults` and `Chat`, and `SharingTypeOK`, hold
too, and can be added to the configuration of the run.

Bounds. Three peers over two slots are the smallest instance with a holder, a waiter and somebody who
could overtake; two names in a request are enough for a file that is passed over, an empty one in front
and a last one. The renaming scheme is uniform in the attempt, so two attempts show "first", "next" and
"none left". Three downloads under a cap that moves between one and two give one or two running ones, a
waiter behind them, and a cap below what is running; `MaxQueued` bounds the stale starts that cancelled and cleared
downloads leave, and three of them are enough to put the queue out of the list's order. In `ScanThreads` a folder and its sub-folder give two
places for each of two names, and a file may be removed and created again while the walk goes on, so names
repeat; `MaxRepeats` bounds the files skipped for that reason while new ones still turn up. A second
sub-folder makes the run too large; the proofs are for any number. Two
servers are a server that is there and one that comes later. In `QueryRows` the second query is what
leftovers of the first and its ping are late for; two patterns that share no name show any mixing; and
`MaxInFlight`, which holds back changes at the servers only, allows a pending result together with a message
on its way. `QueryRows` has one user name, so its users are only named late: a second one makes it too large. That names stay
current when users *change* them is what the theorem `ShownStaysCurrent` says, and TLC of the same configuration with
`UserName = {a, b}`, `Name = {n1}`, `Pattern = {{n1}}` and `MaxQueries = 1`. In `Application`
the user's three steps are enough to add a server, change what it was told and close, or to apply the dialog between
two changes, with connections that come and go, scans and fetched lists in between at no
cost; two connections are the primary and another one, and the third address is one too many for both the
connections and the lists. In `Chat`, three steps beyond those that connect and deliver take a user who names
themselves, is ignored, and renames; a server restart, a reconnect and a whisper; or a day, an applied setting and a
line.

Fairness. MUSCLE reports a drained output queue and delivers what was sent, so `OutputQueuesDrained`,
the request's arrival, reading from the connection and noticing that it is closed are weakly fair; a peer that is not waiting leaves some day
(all that is assumed of strangers, and in the runs of the upload server and the transfer only, needed because the code
keeps a slot until the peer leaves). Of the downloads no session is assumed to end, for the code has no timeout
and `TransferNeverEnds` shows that a peer need not hang up: `WaitingEnds` says only that nobody waits for ever unless
the same sessions run for ever. A loop of the download manager that has begun goes on, and the `fopen` after a look
at the directory is made. The scanning thread is scheduled;
a `pthread_join` that can return does. No user action is fair, nor is a change to the disk.

`CHECK_DEADLOCK FALSE` is set for `DownloadSession`, where a session that has ended, its connection gone, really
stops, and for the configurations of `Application` and `Chat`, whose steps are bounded.

Runs that end in a violation state something a comment or a document of the repository says and the
code does not do; `findings` in `PROJECT.json` quotes it.

| Run | What happens |
|---|---|
| `TransferNeverEnds` | two HiTuxShares wait for each other to hang up after the last file |
| `AppReconnect` | connecting again to a server whose connection was lost dials nobody |

More of the kind, not in `PROJECT.json`, to be reproduced by hand with
`tlc -config <name>.cfg <module>`; each ends in a counterexample, except `UploadLiveness`. Where a file names
several properties, TLC stops at the first that it refutes: comment out the others.

| Configuration | Module | Property | What it shows |
|---|---|---|---|
| `UploadLiveness` | `MCFileUploadServer` | `WaiterServed` | holds: a peer that waits is started or leaves, if peers that are not waiting leave |
| `UploadLonePeer` | `MCFileUploadServer` | `LonePeerServed` | with a cap of one the only peer is queued: it counts itself (`FileUploadServer.h:69`) |
| `UploadDone` | `MCFileUploadServer` | `DoneStartsSomebody` | a peer that is done still holds its slot when `_StartNextQueuedPeer` counts (`FileUploadServer.cpp:396`) |
| `UploadAskTwice` | `MCFileUploadServer` | `SendingWithinCap` | a peer that asks again is queued, its open file still sent, its slot given away |
| `UploadFifo` | `MCUploadQueue` | `FifoQueue` | the queue is in order of connecting, not of being queued (`PLAN.md:568`) |
| `DownloadPromises` | `FileDownload` | `KeptFilesHaveTheirSize` | a file longer than its header says is kept (`FileDownload.h:71`) |
| `DownloadPromises` | `FileDownload` | `FinishedMeansEverything` | a peer hanging up between files leaves a finished download (`FileDownload.cpp:222`) |
| `DownloadPromises` | `FileDownload` | `NeverOverwritten` | a file that another program creates between `PathExists` and `fopen` is emptied (`FileDownload.cpp:488`) |
| `DownloadCancelled` | `DownloadManager` | `OverStaysOver` | a download cancelled while it waits is started by the next free slot (`DownloadManager.cpp:154`) |
| `DownloadReused` | `DownloadManager` | `ContactsItsSharer` | a queued start outlives its download, and the next one at that address dials the wrong sharer |
| `DownloadReused` | `DownloadManager` | `AbortsEverything` | with an address in the queue used again, `AbortAll` starts a download that it has passed (`DownloadManager.h:120`) |
| `TransferEmptyFile` | `Transfer` | `HangUpAfterAllFinishes` | an empty last file makes the download fail when the peer hangs up |
| `ScanAborted` | `ShareScanner` | `FinishedMeansComplete` | a scan cut short says that it finished (`ShareScanner.h:89`) |
| `SharingPromises` | `Sharing` | `OffMeansUnpublished` | files found before the switch is turned off are published by the idle tick after it (`ServerConnection.h:158`) |
| `SharingPromises` | `Sharing` | `CountIsRight` | a scan ending between the idle tick's two questions leaves a wrong file count |
| `SharingOldFolder` | `Sharing` | `ServedIsShared` | after a change to an empty folder the old one is still served |
| `SharingPort` | `Sharing` | `PortMeansListening` | a port nobody listens on stays advertised |
| `QueryPromises` | `QueryResults` | `OneRowPerFile` | a file that arrives twice in one batch has two rows (`FileResultModel.cpp:159`) |
| `QueryPromises` | `QueryResults` | `GoneMeansGone` | files, users and connections that went while a result was pending get a row all the same (`MainWindow.cpp:708`, `FileResultModel.h:104`) |
| `AppPromises` | `Application` | `EveryServerIsTold` | a server that is connected to later is not told the stored name, status or firewalled flag (`MainWindow.cpp:1268`) |
| `AppPromises` | `Application` | `EveryServerIsKept` | the first connection need not be the one the Server field shows, and is then kept nowhere (`MainWindow.cpp:1058`) |
| `AppPromises` | `Application` | `StartsAgain` | with notifications stored as off, the constructor toggles a notifier that is not there yet |
| `ChatPromises` | `MCChat` | `OwnLinesNeverTwice` | a line typed before the session ID is known is shown a second time when the server relays it (`ServerConnection.cpp:760`) |
| `ChatPromises` | `MCChat` | `OneFilePerServer` | lines of all servers go into the file of the server that the settings name (`ChatLogger.h`) |

Read off the code while modelling, and stated by no property: the install ID is handed to no connection, for there
is none yet when the constructor hands it out; nothing publishes the shares again after the firewalled flag took them
down, unless sharing restarts; an alias may shadow any command, `/unalias` included; an ignored user's pings are
still answered.

## 4. The proofs

Each theorem is about the whole `Spec` of its module, for every value of the constants that the module's
assumptions allow: any number of peers, files, names, servers, texts, caps and bounds. `PROJECT.json` lists
the theorems; where one states what a run checks, the run shows it on an instance. All have the same
shape: an invariant that implies the property, a lemma per action or per kind of change that it survives, and
one temporal step. What follows says of each why the property is not inductive and what makes it so. Every
strengthening was checked by TLC as an invariant of the module's run before it was proved.

**`Transfer_proofs`** — of the server alone (`Spec`) `TypeCorrect`, `AdmissionWithinCap`, `OneDrainPerSender`,
`SendersWithinCap`, `WaitersAreWoken`, `NobodyOvertakes`, `ServedToTheEnd`; of a transfer (`TransferSpec`)
`CopiesAreExact`, `AllServedAreCounted`, `ServesAsAlways`, `DownloadsAsAlways`.
Slots and notifications change in two ways only: one peer's record advances (`BeginAndSend`), or a set of
waiting peers is started (`StartNextQueuedPeer`). The facts about these two are lemmas for any table of peers
and any notifications handed to them (`...Type`, `...Slots`, `...OK`), and each handler's lemma only shows that
what it hands over is right.

- `AdmissionWithinCap` rests on `NextSlots`: every step leaves the active peers within the cap, or makes
  nobody active. The second case is what a lowered cap or a second request needs. That `Startable` starts no
  more peers than there is room for is a count over a union, from `FiniteSetTheorems`.
- `DrainPerSender` is not inductive, because the notification count of a peer says nothing about the record
  it advances. `Pacing` strengthens it: the record of a peer that is connected is `RecordOK` (as new until it
  asks; a file is open only if it is not queued and has asked; the notifications under way are exactly
  one with a file open and none without), and that of one that is not connected is as new. It needs `MaxLists = 1`
  because a second request overwrites a record with a notification under way (see `UploadAskTwice`).
- `SendersWithinCap` combines both: with the cap fixed, "the *active* peers are within the cap" is
  inductive by `NextSlots`, and by `Pacing` those being sent files are among the active.
- `WaitersAreWoken` and `NobodyOvertakes` are two readings of `NextStarts`: every step empties the table, starts nobody
  who waited while the slots only grow (`FewerWait`), queues one peer while all slots but one are taken (`OneIsHeld`),
  or is a call of `_StartNextQueuedPeer` after at most one peer lost its slot (`SomeStart`), and what that call does is
  known exactly (`StartNextExactly`).
- `ServedCompletely` is not inductive: it says nothing of a peer still being sent files. `Sent` does, by the position in
  the request and in the file; it needs a disk that does not change, as the property does.
- `CopiesAreExact` and `AllServedAreCounted` are two readings of `TransferInv`, which has three parts besides the
  invariants of the two ends. `Bounded` is the other half of `Sent`: a peer was sent *no more* than its record says. With both,
  what was sent is a beginning, in the order of the connection, of all that the request will ever be sent, and so is what
  was read (`WireOK`; `NextMessage` is then the one message that continues it). `PositionOK` says where the download is in
  that: it has counted, opened or chosen a path for a file of every header it read, the one it holds is the last, with as
  many chunks as were read of it, the others are whole; so a header finds the file before it complete, and a chunk is the next one of
  the file that is open, and never one too many. `CopiesOK` ties the directory to the server's disk.
- `TransferSpec` is proved to imply `Spec` (`ServesAsAlways`) and `Client!Spec` (`DownloadsAsAlways`): each end, seen alone,
  behaves as its own module says, so the theorems about the two modules hold in the composition. `FileDownload_proofs` is
  taken over by `INSTANCE` (`Download`), once its handlers are recognised (`SameCalls`, `SameMessages`), so `IInv` is not
  proved again. That a header is a step of `FileDownload` needs the position too: no more files are
  completed than were asked for.

**`FileDownload_proofs`** — `TypeCorrect`, `PartialFilesGo`, `CountIsTrue`, `FilesAreSafe`, `ImplementsLifecycle`, from
one invariant, `IInv`: the open file is ours, no longer than the disk says, and belongs to a session that is not over
(`OpenFileOK`); a path left behind by a removed file does not name one that was kept (`StalePathOK`, without which
the removal in `Abort` could take a completed file); the kept files are counted (`KeptOK`); a path that was chosen and
not opened yet holds nothing of ours, so that the truncation costs no completed file (`CandidateOK`); and without late
events the connection and the state move together (`StagesOK`). `FilesAreSafe` excepts what another program creates at
the chosen path before it is opened, which `NeverOverwritten` of `DownloadPromises` shows to be lost. It and `ImplementsLifecycle` are promised where
`late` is false, as in the properties: an event that arrives after an abort really breaks them. For the
refinement each step is shown to be a step of `DownloadLifecycle!Next` or a stutter; the lifecycle's fairness is no
part of it.

**`DownloadManager_proofs`** — `TypeCorrect`, `SlotsAreNotWasted`, `WaitersAreNotForgotten`, `AbortAllIsComplete`. Whoever
takes a step, and from inside whichever loop, the lists change in five ways (`Untouched`, `Ended`, `HeadStarted`, `Added`,
`Cleared`); every property is proved of those. A slot is freed and a start queued only by steps after which the loop
runs (`SlotsAreNotWasted`). That a waiter is not forgotten needs to know that something is running
while a start is queued, and that the callback of its end will look. `AbortAll` goes through the list once while every
abort starts the head of the queue, so it is complete only if the queue is in the order of the list and holds its last
entries (`OrderOK`); then what was passed is over and stays so (`PassedAreOver`). Both are invariants as long as
`reused` is false (`OrderKept`, `PassedOK`), and so `AbortAllIsComplete` says nothing of a list of which a queued
address was allocated again: `AbortsEverything` of `DownloadReused` shows that it then fails.

**`Sharing_proofs`** — of the scanner alone (`Spec`) `TypeCorrect`, `NamesAreUnique`, `FoundIsShared`, `CompleteScans`;
of the window (`SharingSpec`) `SharingTypeCorrect`, `SharingImplementsScanner`, `AllIsPublished`, `AllIsServed`.

- While a scan is under way, the names claimed are those of the files found, and of the one being handed over (`OnceOK`); the
  walk and its entry are of the present folder although the folder is read without the lock (`FolderOK`, which holds because
  the GUI thread waits for the thread before it changes the folder); and of the files that were there throughout, each that
  is no longer ahead of the walk has its name claimed or is the entry the walk is at (`WalkOK`, `NamesPassed`, `CountPassed`).
- `SharingImplementsScanner`: each of the window's handlers, and each part of one that is split, is a step of the
  scanner or its owner (`ScannerStep`). It needs `HandlerOK`, that what `_StopSharing` goes on with is a scanner at
  rest. All that is proved of the scanner holds in the window by this theorem and is not proved again.
- `EverythingPublished` says nothing until a scan has settled. What holds all the while is `SharingInv`: a scan under way is of
  the folder in the settings as soon as a server could be told of it, unless a handler is on its way to start it over
  (`DirectoryOK`); every server with a session lists what was taken of *this* scan, because a new session and a new
  folder begin a new one (`PublishedOK`); the upload server has just that, if it is anything (`ServingOK`). Then
  `CompleteScans` says that what was taken is all there is.

**`Application_proofs`** — `TypeCorrect`, `PublishedStaysCurrent`, `StoredStaysRunning`, `NothingListedTwice`,
`ConnectedStaysListed`, `ClosedStaysKept`. Operators on a message and on the list of connections have lemmas of their own:
what a setter changes, what a list looks like after `RememberInList`, that every broadcast keeps each connection
`Truthful`.

- `Healthy` makes `PublishedIsCurrent` inductive: it says of *every* connection what its server holds, those
  that are not connected included, and that files are listed only where they were published.
- `ConnectedIsListed` is not inductive, for a promotion might push the entry over the end. `Known` is: the identified
  servers lead the list, that is, everything in front of one is connected to as well. As the connected are no more than the
  list has room for, none falls off. This is where `MaxConnections <= MaxServers` is used.
- `ClosedStaysKept` follows from "what was closed is in the file", and assumes `~IsMessage(Torn)`, that a torn file is
  told from a whole one, as `Load` does.

**`QueryResults_proofs`** — `TypeCorrect`, `OneQueryOnly`, `NoResultLost`, `ShownStaysCurrent`, `SweepsAreComplete`.

- `Typed` says of the table (`ModelOK`) that a key is in the index exactly if a row has it, and leads to such a row.
  Of rows and index after an addition, a removal by key and one by connection, `AddedRows` and the lemmas beside it
  say which entries are left; the rest is proved from these.
- `NoResultLost` needs `Blank` as well: a connection that was never up was told of nothing.
- `ShownStaysCurrent`: `Fresh` says that while no name waits, everything *held*, pending entries included, has its
  present name, and that what waits has the timer running.
- `SweepsAreComplete` relates the wire to the table. `Expected` says of each file that a server owes us: we were told of it and
  nothing on the wire takes it back, or a message on the wire brings it, in front of the ping of the *latest* query, and
  nothing behind that message takes it back; once the sweep is over it has its row. Only the latest ping ends
  a sweep because every ping on a wire has a count below the connection's (`Answered`). Most of the work is that
  a query stopped and started again, which cuts and thins out the wire, keeps this for the new query.

**`Chat_proofs`** — `TypeCorrect`, `OwnLinesShownOnce`, `TheIgnoredStayOut`, `WhispersAreAddressed`, `LogStaysFaithful`,
`EveryoneIsListed`, `RegistryIsCurrent`: all that the run checks. Whatever happens, one connection with its channels and
its server's end changes in seven ways (`Moves`: it stays, is lost, joins, takes what was typed, the server takes a message,
reports a change, or the client hears of one), and all but the log and the table is proved of those. `Base` says that the
two ends agree: without a connection nothing is under way and nobody known, and the session ID that is known is the server's.

- `WhispersAreAddressed`: `Had` says of every name that a registry knows *or that is on its way to it* that the session had
  it, and `Addressed` of every line on its way up that it was resolved to such a name.
- `RegistryIsCurrent` and `TheIgnoredStayOut` are two readings of `Promised`. `Known` is the name that a registry will have
  of a session when it gets to a place in its channel: what the last message before it that speaks of the session says. At
  the end of the channel that is what the server has, and at each line it is the name its sender had on sending it.
- `EveryoneIsListed`: `Sheet` says that rows and index are inverse to each other and agree with the registries, and
  survives rows updated in place and added (`RowsUpdated`), and rows taken out with the index rebuilt (`RowsPicked`).
- `LogStaysFaithful`: a file that is open is the one of the present folder and server (`OpenFile`), so that only its day
  needs a look, which `_EnsureFileOpen` takes.

**`Subsequences_proofs`** holds the lemmas about `Picked` that the last three rest on: ranks grow with positions and
every rank is reached, so that a picked sequence has just the entries at the positions, once each and in order.

What is assumed, and why the code justifies it:

| Module | Assumption | Why |
|---|---|---|
| all | bounds are natural numbers, sets of peers, downloads, sub-folders and names finite | they are |
| `QueryResults` | finitely many sessions and names | a server has finitely many nodes, and a message holds finitely many |
| `Settings` | `Tycom # Agmsmith`; `Unset` is no value | two default servers with different addresses; a field that a message lacks is told from any that it has |
| `Application` | `MaxConnections <= MaxServers` | 8 connections (`ConnectionManager.cpp:19`), 16 servers (`ApplicationSettings.cpp:77`) |
| `Sharing` | `NoFolder \notin Folder` | "no folder chosen" is the empty text, no path |
| `Chat` | finitely many servers and sessions; names and IDs are not `""`, IDs not `*`, and nobody else has our name | eight connections; a server has finitely many nodes; an ID is a number and `*` addresses everyone; a namesake's lines could not be told from ours by what is shown |
| `ClosedStaysKept` | `~IsMessage(Torn)` | unflattening a torn file fails |
| `Transfer_proofs` but for `TypeCorrect`, `AdmissionWithinCap` and `ServesAsAlways` | each peer asks once (`MaxLists = 1`) | as our `FileDownload` does; what happens otherwise is shown by `UploadAskTwice` |
| `SendersWithinCap`, `WaitersAreWoken`; `ServedToTheEnd` | the cap stays; the disk does not change | the properties are meant so: a lowered cap takes no slot away, a raised one wakes nobody, a replaced file is not sent again |

Model-checked only:

- what needs fairness (`WaitingEnds`, `RequestServed`, `CallsReturn`, `WaiterServed`, `DownloadEnds`) and what says `ENABLED`:
  out of the prover's reach;
- what recursive definitions and folds compute, in `ChatInput` and `SequencesExt`: induction over data is out of reach too.

With these exceptions every invariant and every action property of a passing run is stated by a theorem.

## 5. Not modelled

Not modelled:

- `FormatUtilities`, `MimeTypeGuesser`: formatting and a table, no state.
- `TransferModel`, `ChatLogView`, `DesktopNotifier`, the columns and sorting of all models, the construction of widgets
  and menus: presentation of state kept elsewhere. `ChatInputLine`'s history and completion touch nothing else.
- `ServerConnection`'s keepalive ping and `MainWindow`'s tracking of the primary for the status bar: timers and texts.
- `ConnectionManager::RemoveConnection`, `ConnectAll` and `UserFilterSet::AddEntry`, `RemoveEntry`: no caller.
- Window geometry, column layouts and the timestamp switch in the settings file: opaque values of the window.
- `tools/probe`, `scripts`, `packaging`: developer tools.
