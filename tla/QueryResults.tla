--------------------------- MODULE QueryResults ---------------------------
(* A query and the rows it shows.  ServerConnection subscribes to file     *)
(* nodes and is told what appears and disappears; MainWindow collects the  *)
(* results and hands them to FileResultModel when a timer fires or a sweep *)
(* ends; the user starts and stops queries and servers come and go.        *)
(* Every handler runs on the GUI thread; a server's messages arrive in the *)
(* order it sent them.                                                     *)
EXTENDS Subsequences, SequencesExt

CONSTANTS
  Conn,        \* the ServerConnections of ConnectionManager
  Session,     \* session IDs of other users, on every server
  Name,        \* file names
  UserName,    \* names that users give themselves
  NoName,      \* a session that is nobody's
  Pattern,     \* what the user may ask for, each as the names that it matches
  MaxQueries,  \* bound: queries started
  MaxInFlight  \* bound: nothing changes at a server while so much is under way

ASSUME QueryAssumption ==
  /\ MaxQueries \in Nat
  /\ MaxInFlight \in Nat
  /\ NoName \notin UserName
  /\ IsFiniteSet(Session) /\ IsFiniteSet(Name)
  /\ Pattern \subseteq SUBSET Name

VARIABLES
  stage,      \* per connection: not yet, connected, down
  users,      \* fUsers: the name of each session
  active,     \* fQueryActive
  matcher,    \* fFileNameMatcher, as the names that it matches
  pingCount,  \* fPingCount
  pending,    \* MainWindow::fPendingResults
  dirty,      \* MainWindow::fUserNamesDirty
  timer,      \* fResultFlushTimer is running
  model,      \* FileResultModel: fResults and fRowsByKey
  login,      \* the server's users
  shared,     \* the server's file nodes
  filter,     \* what the server has us subscribed to
  wire,       \* what the server has sent and we have not read
  sweeping,   \* history: the listener was last told that a sweep is under way
  owed,       \* history: nodes there ever since the server took the query
  told        \* history: results told of, and not told to be gone

clientVars == <<stage, users, active, matcher, pingCount>>
windowVars == <<pending, dirty, timer, model>>
serverVars == <<login, shared, filter, wire>>
vars == <<clientVars, windowVars, serverVars, sweeping, owed, told>>

Node == Session \X Name
Entry == [connection : Conn, session : Session, name : Name, sharer : UserName \cup {NoName}]
Data == [left : SUBSET Session, gone : SUBSET Node, users : SUBSET (Session \X UserName),
         files : SUBSET Node]
Pong == [count : Nat]

Connected == {c \in Conn : stage[c] = "connected"}
Active == {c \in Conn : active[c]}
Init ==
  /\ stage = [c \in Conn |-> "none"]
  /\ users = [c \in Conn |-> [s \in Session |-> NoName]]
  /\ active = [c \in Conn |-> FALSE]
  /\ matcher = [c \in Conn |-> {}]
  /\ pingCount = [c \in Conn |-> 0]
  /\ pending = <<>> /\ dirty = FALSE /\ timer = FALSE
  /\ model = [rows |-> <<>>, index |-> <<>>]
  /\ login \in [Conn -> [Session -> UserName \cup {NoName}]]
  /\ shared \in [Conn -> SUBSET Node]
  /\ filter = [c \in Conn |-> {}]
  /\ wire = [c \in Conn |-> <<>>]
  /\ sweeping = [c \in Conn |-> FALSE]
  /\ owed = [c \in Conn |-> {}] /\ told = [c \in Conn |-> {}]
-----------------------------------------------------------------------------
(* FileResultModel: the rows, and for each key the row that has it.        *)

Key(e) == <<e.connection, e.session, e.name>>
KeysOf(rows) == {Key(rows[i]) : i \in DOMAIN rows}
LastWith(rows, k) ==
  CHOOSE i \in DOMAIN rows :
    Key(rows[i]) = k /\ \A j \in DOMAIN rows : Key(rows[j]) = k => j <= i
RebuildIndex(rows) == [k \in KeysOf(rows) |-> LastWith(rows, k)]

(* Entries whose key has a row replace that row, the others go at the end, *)
(* two with the same key if there are two.                                 *)
AddResults(m, entries) ==
  LET additions ==
        Picked(entries, {i \in DOMAIN entries : Key(entries[i]) \notin DOMAIN m.index}) IN
  [rows |-> [i \in DOMAIN m.rows |->
               LET k == Key(m.rows[i]) IN
               IF k \in KeysOf(entries) /\ m.index[k] = i
                 THEN entries[LastWith(entries, k)] ELSE m.rows[i]] \o additions,
   index |-> [k \in DOMAIN m.index \cup KeysOf(additions) |->
               IF k \in DOMAIN m.index THEN m.index[k]
                 ELSE Len(m.rows) + LastWith(additions, k)]]

(* The rows of the given numbers are taken out.                            *)
Without(m, numbers) ==
  LET rows == Picked(m.rows, DOMAIN m.rows \ numbers) IN
  IF numbers = {} THEN m ELSE [rows |-> rows, index |-> RebuildIndex(rows)]

RemoveKeysOnly(m, keys) ==   \* mutant: the index is not rebuilt
  [Without(m, {m.index[k] : k \in keys \cap DOMAIN m.index}) EXCEPT !.index = m.index]
RemoveKeys(m, keys) == Without(m, {m.index[k] : k \in keys \cap DOMAIN m.index})
RemoveResultsForSessions(m, c, sessions) ==
  Without(m, {i \in DOMAIN m.rows : m.rows[i].connection = c /\ m.rows[i].session \in sessions})
RemoveAllRows(m, C) == Without(m, DOMAIN m.rows)   \* mutant: whose rows they are is not looked at
RemoveResultsForConnections(m, C) ==
  Without(m, {i \in DOMAIN m.rows : m.rows[i].connection \in C})

(* Every row of a user who is known shows the name the user has.           *)
UpdateSharerNames(m) ==
  [m EXCEPT !.rows = [i \in DOMAIN m.rows |->
     LET e == m.rows[i]
         known == users[e.connection][e.session]
     IN IF known = NoName THEN e ELSE [e EXCEPT !.sharer = known]]]
-----------------------------------------------------------------------------
(* MainWindow.                                                             *)

(* _OnFlushPendingResults, with the entries that are still pending.        *)
FlushNamesFirst(entries, m) ==   \* mutant: names before results
  /\ model' = AddResults(IF dirty THEN UpdateSharerNames(m) ELSE m, entries)
  /\ pending' = <<>>
  /\ dirty' = FALSE
Flush(entries, m) ==
  /\ model' = IF dirty THEN UpdateSharerNames(AddResults(m, entries)) ELSE AddResults(m, entries)
  /\ pending' = <<>>
  /\ dirty' = FALSE

TimerFires ==
  /\ timer
  /\ timer' = FALSE
  /\ Flush(pending, model)
  /\ UNCHANGED <<clientVars, serverVars, sweeping, owed, told>>

PendingWithout(C) ==
  Picked(pending, {i \in DOMAIN pending : pending[i].connection \notin C})

(* StopQuery of the connections C in turn.  Each that has a query active   *)
(* has its results cleared and then says that no sweep is under way, which *)
(* flushes what others have pending.                                       *)
StopQueries(C) ==
  LET stopped == C \cap Active IN
  IF stopped = {}
    THEN UNCHANGED windowVars
    ELSE /\ Flush(PendingWithout(stopped), RemoveResultsForConnections(model, stopped))
         /\ UNCHANGED timer

(* What the server says: what is new and what is gone, or a pong.          *)
NoChange == [left |-> {}, gone |-> {}, users |-> {}, files |-> {}]
Change(field, S) == [NoChange EXCEPT ![field] = S]
Reported(field, S) == IF S = {} THEN <<>> ELSE <<Change(field, S)>>

(* The server drops the subscription and, of all that it has queued, what  *)
(* is about files and is not on its way yet, which is after the first n.   *)
WithoutFiles(x) == IF x \in Pong THEN x ELSE [x EXCEPT !.files = {}, !.gone = {}]
Jettisoned(q, n) ==
  LET queued == [i \in 1..(Len(q) - n) |-> WithoutFiles(q[n + i])] IN
  SubSeq(q, 1, n) \o Picked(queued, {i \in DOMAIN queued : queued[i] # NoChange})

Remains(c, C) ==
  IF c \in C \cap Active THEN {Jettisoned(wire[c], n) : n \in 0..Len(wire[c])} ELSE {wire[c]}
Unsubscribed(C) ==
  {w \in [Conn -> UNION {Remains(c, C) : c \in Conn}] : \A c \in Conn : w[c] \in Remains(c, C)}

StopQueryOnAll ==
  /\ Active # {}
  /\ StopQueries(Conn)
  /\ active' = [c \in Conn |-> FALSE]
  /\ filter' = [c \in Conn |-> IF c \in Active THEN {} ELSE filter[c]]
  /\ wire' \in Unsubscribed(Conn)
  /\ sweeping' = [c \in Conn |-> sweeping[c] /\ ~active[c]]
  /\ owed' = [c \in Conn |-> IF active[c] THEN {} ELSE owed[c]]
  /\ told' = [c \in Conn |-> IF active[c] THEN {} ELSE told[c]]
  /\ UNCHANGED <<stage, users, matcher, pingCount, login, shared>>

Matching(c, E) == {x \in shared[c] : x[2] \in E}

(* StartQueryOnAll.  The server takes the subscription, sends what it has  *)
(* that matches, and then answers the ping.                                *)
StartQueryOnAll(E) ==
  /\ Connected # {}
  /\ \A c \in Connected : pingCount[c] < MaxQueries
  /\ StopQueries(Connected)
  /\ active' = [c \in Conn |-> active[c] \/ c \in Connected]
  /\ matcher' = [c \in Conn |-> IF c \in Connected THEN E ELSE matcher[c]]
  /\ pingCount' = [c \in Conn |-> IF c \in Connected THEN pingCount[c] + 1 ELSE pingCount[c]]
  /\ filter' = [c \in Conn |-> IF c \in Connected THEN E ELSE filter[c]]
  /\ \E w \in Unsubscribed(Connected) :
       wire' = [c \in Conn |->
                 IF c \in Connected
                   THEN w[c] \o Reported("files", Matching(c, E)) \o <<[count |-> pingCount[c]]>>
                   ELSE w[c]]
  /\ sweeping' = [c \in Conn |-> sweeping[c] \/ c \in Connected]
  /\ owed' = [c \in Conn |-> IF c \in Connected THEN Matching(c, E) ELSE owed[c]]
  /\ told' = [c \in Conn |-> IF c \in Connected THEN {} ELSE told[c]]
  /\ UNCHANGED <<stage, users, login, shared>>
-----------------------------------------------------------------------------
(* ServerConnection.                                                       *)

(* The result of a file node, shared by a user who may not be known yet.   *)
ResultOf(c, known, x) ==
  [connection |-> c, session |-> x[1], name |-> x[2], sharer |-> known[x[1]]]

(* _HandleDataItems: removals first.  A file's goes straight to the model, *)
(* a user's takes the user's rows along; new names and the results of the  *)
(* active query wait for the timer.                                        *)
KnownAfter(c, x) ==
  [s \in Session |->
     IF \E n \in UserName : <<s, n>> \in x.users THEN CHOOSE n \in UserName : <<s, n>> \in x.users
     ELSE IF s \in x.left THEN NoName ELSE users[c][s]]
Departing(c, x) == {s \in x.left : users[c][s] # NoName}
AcceptedAny(c, x) == {y \in x.files : active[c]}   \* mutant: not matched again
Accepted(c, x) == {y \in x.files : active[c] /\ y[2] \in matcher[c]}

HandleDataItems(c, x) ==
  LET results == SetToSeq(Accepted(c, x)) IN
  /\ users' = [users EXCEPT ![c] = KnownAfter(c, x)]
  /\ model' = RemoveResultsForSessions(
                RemoveKeys(model, {<<c, y[1], y[2]>> : y \in x.gone}), c, Departing(c, x))
  /\ pending' = pending \o [i \in DOMAIN results |-> ResultOf(c, users'[c], results[i])]
  /\ dirty' = (dirty \/ x.users # {})
  /\ timer' = (timer \/ x.users # {} \/ Accepted(c, x) # {})
  /\ told' = [told EXCEPT ![c] = {y \in @ \ x.gone : y[1] \notin x.left} \cup Accepted(c, x)]
  /\ UNCHANGED sweeping

(* PR_RESULT_PONG: the answer to the latest ping, not to an earlier one.   *)
AnswersAny(c, x) == TRUE   \* mutant: the count is not looked at
AnswersLatest(c, x) == x.count >= pingCount[c] - 1
HandlePong(c, x) ==
  /\ IF AnswersLatest(c, x)
       THEN /\ Flush(pending, model)
            /\ sweeping' = [sweeping EXCEPT ![c] = FALSE]
       ELSE UNCHANGED <<pending, dirty, model, sweeping>>
  /\ UNCHANGED <<timer, users, told>>

MessageReceived(c) ==
  /\ stage[c] = "connected" /\ wire[c] # <<>>
  /\ LET x == Head(wire[c]) IN IF x \in Pong THEN HandlePong(c, x) ELSE HandleDataItems(c, x)
  /\ wire' = [wire EXCEPT ![c] = Tail(@)]
  /\ UNCHANGED <<stage, active, matcher, pingCount, login, shared, filter, owed>>

Forgotten == [s \in Session |-> NoName]

(* We hear no more of these servers, and what they have does not matter.   *)
ServersGone(C) ==
  /\ login' = [c \in Conn |-> IF c \in C THEN Forgotten ELSE login[c]]
  /\ shared' = [c \in Conn |-> IF c \in C THEN {} ELSE shared[c]]
  /\ filter' = [c \in Conn |-> IF c \in C THEN {} ELSE filter[c]]
  /\ wire' = [c \in Conn |-> IF c \in C THEN <<>> ELSE wire[c]]
  /\ sweeping' = [c \in Conn |-> sweeping[c] /\ c \notin C]
  /\ owed' = [c \in Conn |-> IF c \in C THEN {} ELSE owed[c]]
  /\ told' = [c \in Conn |-> IF c \in C THEN {} ELSE told[c]]

(* SessionDisconnected: the rows go, the query and what is pending stay.   *)
SessionDisconnected(c) ==
  /\ stage[c] = "connected"
  /\ stage' = [stage EXCEPT ![c] = "down"]
  /\ users' = [users EXCEPT ![c] = Forgotten]
  /\ model' = RemoveResultsForConnections(model, {c})
  /\ ServersGone({c})
  /\ UNCHANGED <<active, matcher, pingCount, pending, dirty, timer>>

(* DisconnectFromServer of every connection clears their results as well.  *)
DisconnectAll ==
  /\ \E c \in Conn : stage[c] # "none"
  /\ stage' = [c \in Conn |-> IF stage[c] = "none" THEN "none" ELSE "down"]
  /\ users' = [c \in Conn |-> Forgotten]
  /\ active' = [c \in Conn |-> FALSE]
  /\ pending' = <<>>
  /\ model' = RemoveResultsForConnections(model, Conn)
  /\ ServersGone({c \in Conn : stage[c] # "none"})
  /\ UNCHANGED <<matcher, pingCount, dirty, timer>>

(* AddConnection up to SessionConnected, which subscribes to the users.    *)
SessionConnected(c) ==
  /\ stage[c] = "none"
  /\ stage' = [stage EXCEPT ![c] = "connected"]
  /\ wire' = [wire EXCEPT ![c] =
                Reported("users", {x \in Session \X UserName : login[c][x[1]] = x[2]})]
  /\ UNCHANGED <<users, active, matcher, pingCount, windowVars, login, shared, filter,
                 sweeping, owed, told>>
-----------------------------------------------------------------------------
(* The server: what its users do while we are connected.  Of what they do  *)
(* before, only the outcome matters, and Init has any.                     *)

Says(c, q) == wire' = [wire EXCEPT ![c] = @ \o q]

InFlight == FoldFunction(LAMBDA q, n : n + Len(q), Len(pending), wire)
ServerAlone(c) ==
  /\ c \in Connected
  /\ InFlight < MaxInFlight
  /\ UNCHANGED <<clientVars, windowVars, filter, sweeping, told>>

UserNamesItself(c, s, n) ==
  /\ login[c][s] # n
  /\ login' = [login EXCEPT ![c][s] = n]
  /\ Says(c, <<Change("users", {<<s, n>>})>>)
  /\ ServerAlone(c)
  /\ UNCHANGED <<shared, owed>>

(* A file node is set, or set again, and perhaps before the name node is.  *)
UserShares(c, s, f) ==
  /\ shared' = [shared EXCEPT ![c] = @ \cup {<<s, f>>}]
  /\ Says(c, Reported("files", {<<s, f>>} \cap (Session \X filter[c])))
  /\ ServerAlone(c)
  /\ UNCHANGED <<login, owed>>

UserUnshares(c, s, f) ==
  /\ <<s, f>> \in shared[c]
  /\ shared' = [shared EXCEPT ![c] = @ \ {<<s, f>>}]
  /\ owed' = [owed EXCEPT ![c] = @ \ {<<s, f>>}]
  /\ Says(c, Reported("gone", {<<s, f>>} \cap (Session \X filter[c])))
  /\ ServerAlone(c)
  /\ UNCHANGED login

Farewell(c, s) ==
  [NoChange EXCEPT !.left = IF login[c][s] = NoName THEN {} ELSE {s},
                   !.gone = {x \in shared[c] : x[1] = s /\ x[2] \in filter[c]}]
UserLeaves(c, s) ==
  /\ login[c][s] # NoName \/ \E x \in shared[c] : x[1] = s
  /\ login' = [login EXCEPT ![c][s] = NoName]
  /\ shared' = [shared EXCEPT ![c] = {x \in @ : x[1] # s}]
  /\ owed' = [owed EXCEPT ![c] = {x \in @ : x[1] # s}]
  /\ Says(c, IF Farewell(c, s) = NoChange THEN <<>> ELSE <<Farewell(c, s)>>)
  /\ ServerAlone(c)

Next ==
  \/ TimerFires
  \/ StopQueryOnAll
  \/ \E E \in Pattern : StartQueryOnAll(E)
  \/ DisconnectAll
  \/ \E c \in Conn :
       \/ MessageReceived(c)
       \/ SessionDisconnected(c)
       \/ SessionConnected(c)
       \/ \E s \in Session :
            \/ \E n \in UserName : UserNamesItself(c, s, n)
            \/ \E f \in Name : UserShares(c, s, f) \/ UserUnshares(c, s, f)
            \/ UserLeaves(c, s)

Spec == Init /\ [][Next]_vars
-----------------------------------------------------------------------------
(* Properties. *)

(* The variables have their types, and every key leads to a row that has   *)
(* it, which RemoveResult and AddResults rely on after any mix of removals.*)
TypeOK ==
  /\ stage \in [Conn -> {"none", "connected", "down"}]
  /\ users \in [Conn -> [Session -> UserName \cup {NoName}]]
  /\ active \in [Conn -> BOOLEAN]
  /\ matcher \in [Conn -> SUBSET Name]
  /\ pingCount \in [Conn -> 0..MaxQueries]
  /\ pending \in Seq(Entry) /\ dirty \in BOOLEAN /\ timer \in BOOLEAN
  /\ model.rows \in Seq(Entry)
  /\ DOMAIN model.index = KeysOf(model.rows)
  /\ \A k \in DOMAIN model.index :
       model.index[k] \in DOMAIN model.rows /\ Key(model.rows[model.index[k]]) = k
  /\ wire \in [Conn -> Seq(Data \cup Pong)]

(* Results of two queries are never mixed (ServerConnection.cpp:715), be   *)
(* it that the server still sends an earlier one's, or that another        *)
(* connection's end of sweep flushes: what is shown or about to be belongs *)
(* to a query that is active, and matches it.                              *)
Belongs(e) == active[e.connection] /\ e.name \in matcher[e.connection]
OneQueryAtATime ==
  /\ \A i \in DOMAIN pending : Belongs(pending[i])
  /\ \A i \in DOMAIN model.rows : Belongs(model.rows[i])

(* Once the sweep is over (ServerConnection.cpp:202), every file that was  *)
(* there when the query began, and still is, has its row, whatever arrived *)
(* late of an earlier query and whatever other connections did.            *)
SweepIsComplete ==
  \A c \in Connected : active[c] /\ ~sweeping[c] =>
    \A x \in owed[c] : <<c, x[1], x[2]>> \in KeysOf(model.rows)

(* No result is lost between the server's message and the row: one that    *)
(* was told of, and not told to be gone, is shown or waits for the timer.  *)
NothingLost ==
  \A c \in Conn : \A x \in told[c] :
    <<c, x[1], x[2]>> \in KeysOf(model.rows) \cup KeysOf(pending)

(* With the timer at rest nothing waits for it, and each row of a known    *)
(* user shows the present name (MainWindow.cpp:1471), in whatever order    *)
(* names, files, renames and flushes came.                                 *)
ShownIsCurrent ==
  ~timer =>
    /\ pending = <<>>
    /\ \A i \in DOMAIN model.rows :
         LET e == model.rows[i] IN users[e.connection][e.session] \in {NoName, e.sharer}

(* What FileResultModel.cpp:159 says of AddResults: what it already holds  *)
(* it refreshes.  So a file has one row.                                   *)
OneRowPerFile == Cardinality(KeysOf(model.rows)) = Len(model.rows)

(* What MainWindow.cpp:708 says of a user who left: their files went too,  *)
(* and FileResultModel.h:104 of a connection.  So no row is of a session   *)
(* that we have been told nothing of, or told to be gone.                  *)
GoneMeansGone ==
  \A i \in DOMAIN model.rows :
    LET e == model.rows[i] IN <<e.session, e.name>> \in told[e.connection]
=============================================================================
