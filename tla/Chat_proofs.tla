---------------------------- MODULE Chat_proofs ----------------------------
(***************************************************************************)
(* Proofs about Chat, for any servers, finitely many session IDs, and any  *)
(* names, lines, aliases, folders and numbers of steps.                    *)
(***************************************************************************)
EXTENDS Chat, Subsequences_proofs

-----------------------------------------------------------------------------
(* Messages under way.  What goes up is not typed any further: what the    *)
(* user typed is kept with it.                                             *)
IsSeq(q) == q \in Seq({q[i] : i \in DOMAIN q})

Users == UNION {[D -> Names] : D \in SUBSET Session}
Connection == [stage : {"off", "connecting", "connected"}, id : Session \cup {NoId}, users : Users]
Link == [id : Session \cup {NoId}, named : BOOLEAN, subscribed : BOOLEAN]
Incoming ==
  [what : {"names"}, names : Users]
  \cup [what : {"removed", "parameters", "ping", "pong"}, session : Session]
  \cup [what : {"chat"}, session : Session \cup {NoId}, private : BOOLEAN, by : Names,
        told : BOOLEAN]
Kinds == {"name", "subscribe", "getparameters", "chat", "ping", "pong"}

Typed ==
  /\ conns \in [Server -> Connection]
  /\ up = [c \in Server |-> up[c]]
  /\ \A c \in Server : IsSeq(up[c])
  /\ down \in [Server -> Seq(Incoming)]
  /\ link \in [Server -> Link]
  /\ there \in [Server -> Users]
  /\ \A c \in Server : \A s \in DOMAIN there[c] : there[c][s] \in Person
  /\ ever \in [Server -> [Session -> SUBSET Names]]

(* What a step does to one connection.                                     *)
Stays(c) ==
  /\ conns'[c] = conns[c] /\ up'[c] = up[c] /\ down'[c] = down[c]
  /\ link'[c] = link[c] /\ there'[c] = there[c] /\ ever'[c] = ever[c]

Loses(c) ==
  /\ conns'[c] \in {Off, [Off EXCEPT !.stage = "connecting"]}
  /\ up'[c] = <<>> /\ down'[c] = <<>> /\ link'[c] = NoLink
  /\ \/ there'[c] = there[c] /\ ever'[c] = ever[c]
     \/ there'[c] \in SomeUsers /\ ever'[c] = EverOf(there'[c])

Joins(c) ==
  /\ conns[c].stage = "connecting"
  /\ conns'[c] = [conns[c] EXCEPT !.stage = "connected"]
  /\ up'[c] = up[c] \o <<[what |-> "name"], [what |-> "subscribe"], [what |-> "getparameters"]>>
  /\ \E id \in Unused(c) :
       /\ link'[c] = [link[c] EXCEPT !.id = id]
       /\ ever'[c] = [ever[c] EXCEPT ![id] = {Us}]
  /\ down'[c] = down[c] /\ there'[c] = there[c]

(* A line or a ping to everyone or to a session that what was typed names. *)
Typing(c, m) ==
  /\ m.what \in {"chat", "ping"} /\ m.session = conns[c].id
  /\ m.to = "*" \/ m.to \in ResolveToSessionIds(conns[c].users, m.typed)
Types(c) ==
  /\ conns[c].stage = "connected" \/ up'[c] = up[c]
  /\ \E q : IsSeq(q) /\ (\A i \in DOMAIN q : Typing(c, q[i])) /\ up'[c] = up[c] \o q
  /\ conns'[c] = conns[c] /\ down'[c] = down[c]
  /\ link'[c] = link[c] /\ there'[c] = there[c] /\ ever'[c] = ever[c]

FromUs(m) ==
  [what |-> "chat", session |-> m.session, private |-> m.to # "*", by |-> Us, told |-> FALSE]
Takes(c) ==
  /\ up[c] # <<>> /\ up'[c] = Tail(up[c])
  /\ conns'[c] = conns[c] /\ there'[c] = there[c] /\ ever'[c] = ever[c]
  /\ \/ down'[c] = down[c] /\ link'[c] \in {link[c], [link[c] EXCEPT !.named = TRUE]}
     \/ /\ link'[c] = [link[c] EXCEPT !.subscribed = TRUE]
        /\ down'[c] = down[c] \o <<Named(With(there[c], link[c].id, Us))>>
     \/ /\ link'[c] = link[c]
        /\ down'[c] = down[c] \o <<[what |-> "parameters", session |-> link[c].id]>>
     \/ /\ link'[c] = link[c] /\ Head(up[c]).what = "chat"
        /\ down'[c] = down[c] \o <<FromUs(Head(up[c]))>>
     \/ /\ link'[c] = link[c] /\ Head(up[c]).to \in DOMAIN there[c]
        /\ down'[c] = down[c] \o <<[what |-> "pong", session |-> Head(up[c]).to]>>

Told(c, m) == down'[c] = IF link[c].subscribed THEN down[c] \o <<m>> ELSE down[c]
Reports(c) ==
  /\ conns'[c] = conns[c] /\ up'[c] = up[c] /\ link'[c] = link[c]
  /\ \/ \E s \in DOMAIN there[c] \cup Unused(c), n \in Person :
          /\ there'[c] = With(there[c], s, n)
          /\ ever'[c] = [ever[c] EXCEPT ![s] = @ \cup {n}]
          /\ Told(c, Named([t \in {s} |-> n]))
     \/ \E s \in DOMAIN there[c] :
          /\ there'[c] = Without(there[c], s) /\ ever'[c] = ever[c]
          /\ Told(c, [what |-> "removed", session |-> s])
     \/ /\ there'[c] = there[c] /\ ever'[c] = ever[c] /\ link[c].named
        /\ \E s \in DOMAIN there[c] :
             \/ \E private \in BOOLEAN :
                  down'[c] = down[c] \o <<Chat(s, private, there[c][s], link[c].subscribed)>>
             \/ down'[c] = down[c] \o <<[what |-> "ping", session |-> s]>>

Merged(users, names, own) ==
  [s \in DOMAIN users \cup DOMAIN Without(names, own) |->
     IF s \in DOMAIN Without(names, own) THEN Without(names, own)[s] ELSE users[s]]
Forgotten(users, s) == IF s \in DOMAIN users THEN Without(users, s) ELSE users
Hears(c) ==
  /\ down[c] # <<>> /\ down'[c] = Tail(down[c])
  /\ link'[c] = link[c] /\ there'[c] = there[c] /\ ever'[c] = ever[c]
  /\ LET m == Head(down[c]) IN
     \/ /\ m.what = "names" /\ up'[c] = up[c]
        /\ conns'[c] = [conns[c] EXCEPT !.users = Merged(@, m.names, conns[c].id)]
     \/ /\ m.what = "removed" /\ up'[c] = up[c]
        /\ conns'[c] = [conns[c] EXCEPT !.users = Forgotten(@, m.session)]
     \/ /\ m.what = "parameters" /\ up'[c] = up[c]
        /\ conns'[c] = [conns[c] EXCEPT !.id = m.session]
     \/ /\ m.what \in {"chat", "ping", "pong"} /\ conns'[c] = conns[c]
        /\ \/ up'[c] = up[c]
           \/ up'[c] = up[c] \o <<[what |-> "pong", to |-> m.session, session |-> conns[c].id]>>

Moves(c) ==
  \/ Stays(c) \/ Loses(c) \/ Joins(c) \/ Types(c) \/ Takes(c) \/ Reports(c) \/ Hears(c)
-----------------------------------------------------------------------------
(* Sequences. *)

LEMMA SeqTail ==
  ASSUME NEW q, IsSeq(q), q # <<>>
  PROVE  /\ IsSeq(Tail(q)) /\ Len(q) \in Nat \ {0} /\ Len(Tail(q)) = Len(q) - 1
         /\ DOMAIN q = 1..Len(q) /\ DOMAIN Tail(q) = 1..(Len(q) - 1)
         /\ Head(q) = q[1]
         /\ \A i \in 1..(Len(q) - 1) : i + 1 \in DOMAIN q /\ Tail(q)[i] = q[i + 1]
<1> DEFINE S == {q[i] : i \in DOMAIN q}
           t == Tail(q)
<1>1. q \in Seq(S)
  BY DEF IsSeq
<1>. HIDE DEF S
<1>2. /\ t \in Seq(S) /\ Len(q) \in Nat \ {0} /\ Len(t) = Len(q) - 1
      /\ DOMAIN q = 1..Len(q) /\ DOMAIN t = 1..(Len(q) - 1) /\ Head(q) = q[1]
      /\ \A i \in 1..(Len(q) - 1) : i + 1 \in DOMAIN q /\ t[i] = q[i + 1]
  BY <1>1
<1>. HIDE DEF t
<1>3. t \in Seq({t[i] : i \in DOMAIN t})
  <2>1. t \in [1..Len(t) -> {t[i] : i \in DOMAIN t}]
    BY <1>2
  <2>2. Len(t) \in Nat
    BY <1>2
  <2>. QED
    BY <2>1, <2>2, SeqDef
<1>. QED
  BY <1>2, <1>3 DEF t, IsSeq

LEMMA SeqJoined ==
  ASSUME NEW q, NEW r, IsSeq(q), IsSeq(r)
  PROVE  /\ IsSeq(q \o r) /\ Len(q \o r) = Len(q) + Len(r)
         /\ Len(q) \in Nat /\ Len(r) \in Nat
         /\ DOMAIN q = 1..Len(q) /\ DOMAIN r = 1..Len(r)
         /\ DOMAIN (q \o r) = 1..(Len(q) + Len(r))
         /\ \A i \in 1..Len(q) : (q \o r)[i] = q[i]
         /\ \A i \in 1..Len(r) : (q \o r)[Len(q) + i] = r[i]
         /\ \A i \in DOMAIN (q \o r) :
              i \in DOMAIN q \/ \E j \in DOMAIN r : i = Len(q) + j
<1> DEFINE S == {q[i] : i \in DOMAIN q} \cup {r[i] : i \in DOMAIN r}
           t == q \o r
<1>1. q \in Seq(S) /\ r \in Seq(S)
  <2>1. /\ q \in Seq({q[i] : i \in DOMAIN q}) /\ r \in Seq({r[i] : i \in DOMAIN r})
    BY DEF IsSeq
  <2>2. /\ DOMAIN q = 1..Len(q) /\ Len(q) \in Nat /\ q \in [1..Len(q) -> {q[i] : i \in DOMAIN q}]
        /\ DOMAIN r = 1..Len(r) /\ Len(r) \in Nat /\ r \in [1..Len(r) -> {r[i] : i \in DOMAIN r}]
    BY <2>1, LenProperties
  <2>3. q \in [1..Len(q) -> S] /\ r \in [1..Len(r) -> S]
    BY <2>2
  <2>. HIDE DEF S
  <2>. QED
    BY <2>2, <2>3, SeqDef
<1>. HIDE DEF S
<1>2. /\ t \in Seq(S) /\ Len(q) \in Nat /\ Len(r) \in Nat /\ Len(t) = Len(q) + Len(r)
      /\ DOMAIN q = 1..Len(q) /\ DOMAIN r = 1..Len(r) /\ DOMAIN t = 1..(Len(q) + Len(r))
      /\ \A i \in 1..Len(q) : t[i] = q[i]
      /\ \A i \in 1..Len(r) : t[Len(q) + i] = r[i]
  BY <1>1
<1>. HIDE DEF t
<1>3. t \in Seq({t[i] : i \in DOMAIN t})
  <2>1. t \in [1..Len(t) -> {t[i] : i \in DOMAIN t}]
    BY <1>2
  <2>. QED
    BY <1>2, <2>1, SeqDef
<1>4. ASSUME NEW i \in DOMAIN t, i \notin DOMAIN q
      PROVE  \E j \in DOMAIN r : i = Len(q) + j
  <2>1. i - Len(q) \in DOMAIN r /\ i = Len(q) + (i - Len(q))
    BY <1>2, <1>4
  <2>. QED
    BY <2>1
<1>. QED
  BY <1>2, <1>3, <1>4 DEF t, IsSeq

LEMMA SeqOfOne ==
  ASSUME NEW m
  PROVE  IsSeq(<<m>>) /\ DOMAIN <<m>> = {1} /\ <<m>>[1] = m /\ Len(<<m>>) = 1
BY DEF IsSeq

LEMMA SeqOfSome ==
  ASSUME NEW n \in Nat, NEW q, q = [i \in 1..n |-> q[i]] PROVE IsSeq(q)
<1>1. q \in [1..n -> {q[i] : i \in 1..n}] /\ DOMAIN q = 1..n
  OBVIOUS
<1>. QED
  BY <1>1, SeqDef DEF IsSeq

LEMMA NoneIsSeq == IsSeq(<<>>)
BY DEF IsSeq
-----------------------------------------------------------------------------
(* Steps. *)

(* A finite set, listed.                                                   *)
LEMMA ListedSet ==
  ASSUME NEW S, IsFiniteSet(S)
  PROVE  /\ SetToSeq(S) \in Seq(S) /\ Len(SetToSeq(S)) = Cardinality(S)
         /\ Cardinality(S) \in Nat /\ DOMAIN SetToSeq(S) = 1..Cardinality(S)
         /\ \A i, j \in DOMAIN SetToSeq(S) : SetToSeq(S)[i] = SetToSeq(S)[j] => i = j
         /\ \A x \in S : \E i \in DOMAIN SetToSeq(S) : SetToSeq(S)[i] = x
<1>. DEFINE n == Cardinality(S)
            f == SetToSeq(S)
<1>1. n \in Nat /\ ExistsBijection(1..n, S)
  BY FS_CardinalityType
<1>2. \E g \in [1..n -> S] : IsInjective(g)
  BY <1>1 DEF ExistsBijection, Bijection, Injection
<1>3. f \in [1..n -> S] /\ IsInjective(f)
  BY <1>2, Zenon DEF SetToSeq
<1>4. f \in Injection(1..n, S)
  BY <1>3 DEF Injection
<1>. HIDE DEF f
<1>5. Cardinality(1..n) = n
  BY <1>1, FS_Interval
<1>6. f \in Surjection(1..n, S)
  BY <1>4, <1>5, FS_Injection
<1>7. f \in Seq(S) /\ DOMAIN f = 1..n /\ Len(f) = n
  BY <1>1, <1>3, SeqDef, LenProperties
<1>8. \A x \in S : \E i \in DOMAIN f : f[i] = x
  BY <1>6, <1>7 DEF Surjection
<1>9. \A i, j \in DOMAIN f : f[i] = f[j] => i = j
  BY <1>3 DEF IsInjective
<1>. QED
  BY <1>1, <1>7, <1>8, <1>9 DEF f

LEMMA ResolvedSet ==
  ASSUME NEW users \in Users, NEW typed
  PROVE  /\ ResolveToSessionIds(users, typed) \subseteq DOMAIN users
         /\ DOMAIN users \subseteq Session
         /\ IsFiniteSet(ResolveToSessionIds(users, typed))
<1>1. DOMAIN users \subseteq Session
  BY DEF Users
<1>2. ResolveToSessionIds(users, typed) \subseteq DOMAIN users
  BY DEF ResolveToSessionIds
<1>. QED
  BY <1>1, <1>2, ChatAssumption, FS_Subset

LEMMA OffIsConnection ==
  /\ Off \in Connection /\ [Off EXCEPT !.stage = "connecting"] \in Connection
  /\ NoLink \in Link /\ Off.stage = "off" /\ Off.id = NoId /\ Off.users = NoUsers
  /\ [Off EXCEPT !.stage = "connecting"].stage = "connecting"
  /\ [Off EXCEPT !.stage = "connecting"].id = NoId
  /\ [Off EXCEPT !.stage = "connecting"].users = NoUsers
<1>1. NoUsers \in Users /\ DOMAIN NoUsers = {}
  <2>1. NoUsers \in [{} -> Names] /\ {} \in SUBSET Session
    BY DEF NoUsers
  <2>. QED
    BY <2>1 DEF Users
<1>. QED
  BY <1>1 DEF Off, NoLink, Connection, Link

(* Nothing typed is resolved on a connection that is not up.               *)
OffKnowsNobody == \A c \in Server : conns[c].stage # "connected" => conns[c].users = NoUsers

LEMMA InputMoves ==
  ASSUME Typed, OffKnowsNobody, HandleUserInput, NEW c \in Server
  PROVE  Moves(c)
<1>1. CASE UNCHANGED <<conns, up, down, link, there, ever>>
  BY <1>1 DEF Moves, Stays
<1>2. UNCHANGED <<there, ever>>
  BY DEF HandleUserInput, server
<1>3. CASE Disconnect
  BY <1>2, <1>3 DEF Disconnect, Moves, Loses
<1>4. CASE SendChatToEveryone /\ UNCHANGED <<down, link>>
  <2>1. CASE Connected = {}
    BY <1>1, <1>2, <1>4, <2>1 DEF SendChatToEveryone
  <2>2. CASE Connected # {}
    <3> DEFINE q == IF c \in Connected
                      THEN <<[what |-> "chat", to |-> "*", typed |-> "*", session |-> conns[c].id]>>
                      ELSE <<>>
    <3>1. IsSeq(q) /\ \A i \in DOMAIN q : Typing(c, q[i])
      BY SeqOfOne, NoneIsSeq DEF Typing
    <3>2. up'[c] = up[c] \o q
      <4>1. IsSeq(up[c])
        BY DEF Typed
      <4>2. up[c] \o <<>> = up[c]
        BY <4>1 DEF IsSeq
      <4>3. \A m : Append(up[c], m) = up[c] \o <<m>>
        BY <4>1 DEF IsSeq
      <4>. QED
        BY <1>4, <2>2, <4>2, <4>3 DEF SendChatToEveryone
    <3>3. conns'[c].stage = "connected" \/ up'[c] = up[c]
      BY <1>4, <2>2 DEF SendChatToEveryone, Connected, IsConnected
    <3>. HIDE DEF q
    <3>4. /\ conns'[c] = conns[c] /\ down'[c] = down[c]
          /\ link'[c] = link[c] /\ there'[c] = there[c] /\ ever'[c] = ever[c]
      BY <1>2, <1>4, <2>2 DEF SendChatToEveryone
    <3>. QED
      BY <3>1, <3>2, <3>3, <3>4 DEF Moves, Types
  <2>. QED
    BY <2>1, <2>2
<1>5. ASSUME NEW what \in {"chat", "ping"}, NEW typed, SendTo(what, typed),
             UNCHANGED <<conns, down, link>>
      PROVE  Moves(c)
  <2> DEFINE ids == ResolveToSessionIds(conns[c].users, typed)
             M(i) == [what |-> what, to |-> Resolved(c, typed)[i], typed |-> typed,
                      session |-> conns[c].id]
             q == [i \in DOMAIN Resolved(c, typed) |-> M(i)]
  <2>1. conns[c].users \in Users
    BY DEF Typed, Connection
  <2>2. IsFiniteSet(ids)
    BY <2>1, ResolvedSet
  <2>3. /\ Resolved(c, typed) \in Seq(ids) /\ Cardinality(ids) \in Nat
        /\ DOMAIN Resolved(c, typed) = 1..Cardinality(ids)
    BY <2>2, ListedSet DEF Resolved
  <2>4. IsSeq(q)
    <3>1. q = [i \in 1..Cardinality(ids) |-> q[i]]
      BY <2>3
    <3>. HIDE DEF q
    <3>. QED
      BY <2>3, <3>1, SeqOfSome
  <2>5. \A i \in DOMAIN q : Typing(c, q[i])
    <3>1. \A i \in DOMAIN Resolved(c, typed) : Resolved(c, typed)[i] \in ids
      BY <2>3, ElementOfSeq
    <3>. QED
      BY <3>1 DEF Typing
  <2>6. up'[c] = up[c] \o q
    BY <1>5 DEF SendTo
  <2>7. conns[c].stage # "connected" => up'[c] = up[c]
    <3>1. CASE conns[c].stage # "connected"
      <4>1. ids = {}
        BY <2>1, <3>1, ResolvedSet DEF OffKnowsNobody, NoUsers
      <4>2. DOMAIN q = {}
        BY <2>3, <4>1, FS_EmptySet
      <4>. HIDE DEF q
      <4>3. q = <<>> /\ IsSeq(up[c])
        BY <2>4, <4>2 DEF IsSeq, Typed
      <4>. QED
        BY <2>6, <4>3 DEF IsSeq
    <3>. QED
      BY <3>1
  <2>. HIDE DEF q
  <2>. QED
    BY <1>2, <1>5, <2>4, <2>5, <2>6, <2>7 DEF Moves, Types
<1>6. ASSUME NEW target, NEW text, SendPrivateMessage(target, text), UNCHANGED <<down, link>>
      PROVE  Moves(c)
  BY <1>1, <1>2, <1>5, <1>6 DEF SendPrivateMessage
<1>7. ASSUME NEW target, PingUser(target), UNCHANGED <<down, link>>
      PROVE  Moves(c)
  BY <1>1, <1>2, <1>5, <1>7 DEF PingUser
<1>8. ASSUME NEW filter, NEW words, HandleFilterCommand(filter, words), UNCHANGED <<down, link>>
      PROVE  Moves(c)
  BY <1>1, <1>2, <1>8 DEF HandleFilterCommand
<1>9. ASSUME NEW command, HandleAliasCommand(command), UNCHANGED <<down, link>>
      PROVE  Moves(c)
  BY <1>1, <1>2, <1>9 DEF HandleAliasCommand
<1>. QED
  BY <1>3, <1>4, <1>6, <1>7, <1>8, <1>9 DEF HandleUserInput

LEMMA OthersMove ==
  ASSUME Typed, NEW c \in Server, NEW d \in Server,
         \/ ConnectToServer(d) \/ SessionConnected(d) \/ SessionDisconnected(d)
         \/ ServerReceives(d) \/ OtherNamed(d) \/ OtherLeaves(d) \/ OtherSpeaks(d)
         \/ MessageReceived(d)
  PROVE  Moves(c)
<1>1. /\ conns \in [Server -> Connection] /\ up = [x \in Server |-> up[x]]
      /\ down \in [Server -> Seq(Incoming)] /\ link \in [Server -> Link]
      /\ there \in [Server -> Users] /\ ever \in [Server -> [Session -> SUBSET Names]]
  BY DEF Typed
<1>2. CASE c # d
  <2>1. CASE ConnectToServer(d)
    BY <1>1, <1>2, <2>1
    DEF ConnectToServer, ClearConnection, NoLongerConnected, server, Moves, Stays
  <2>2. CASE SessionConnected(d)
    BY <1>1, <1>2, <2>2 DEF SessionConnected, Post, Moves, Stays
  <2>3. CASE SessionDisconnected(d)
    BY <1>1, <1>2, <2>3
    DEF SessionDisconnected, ClearConnection, NoLongerConnected, server, Moves, Stays
  <2>4. CASE ServerReceives(d)
    BY <1>1, <1>2, <2>4 DEF ServerReceives, Relay, client, server, Moves, Stays
  <2>5. CASE OtherNamed(d)
    BY <1>1, <1>2, <2>5 DEF OtherNamed, Tell, Relay, client, Moves, Stays
  <2>6. CASE OtherLeaves(d)
    BY <1>1, <1>2, <2>6 DEF OtherLeaves, Tell, Relay, client, Moves, Stays
  <2>7. CASE OtherSpeaks(d)
    BY <1>1, <1>2, <2>7 DEF OtherSpeaks, Relay, client, server, Moves, Stays
  <2>8. CASE MessageReceived(d)
    BY <1>1, <1>2, <2>8
    DEF MessageReceived, NameNodes, NodeRemoved, Post, client, server, Moves, Stays
  <2>. QED
    BY <2>1, <2>2, <2>3, <2>4, <2>5, <2>6, <2>7, <2>8
<1>3. CASE c = d
  <2>1. CASE ConnectToServer(d)
    BY <1>1, <1>3, <2>1
    DEF ConnectToServer, ClearConnection, NoLongerConnected, server, Moves, Loses
  <2>2. CASE SessionConnected(d)
    BY <1>1, <1>3, <2>2 DEF SessionConnected, Post, Connection, Link, Unused, Moves, Joins
  <2>3. CASE SessionDisconnected(d)
    BY <1>1, <1>3, <2>3
    DEF SessionDisconnected, ClearConnection, NoLongerConnected, server, Moves, Loses
  <2>4. CASE ServerReceives(d)
    BY <1>1, <1>3, <2>4 DEF ServerReceives, Relay, client, server, FromUs, Link, Moves, Takes
  <2>5. CASE OtherNamed(d)
    <3>1. PICK s \in DOMAIN there[c] \cup Unused(c), n \in Person :
             /\ there' = [there EXCEPT ![c] = With(@, s, n)]
             /\ ever' = [ever EXCEPT ![c][s] = @ \cup {n}]
             /\ Tell(c, Named([t \in {s} |-> n]))
      BY <1>3, <2>5 DEF OtherNamed
    <3>2. there'[c] = With(there[c], s, n) /\ ever'[c] = [ever[c] EXCEPT ![s] = @ \cup {n}]
      BY <1>1, <3>1
    <3>3. Told(c, Named([t \in {s} |-> n]))
      BY <1>1, <3>1 DEF Tell, Relay, Told
    <3>4. conns'[c] = conns[c] /\ up'[c] = up[c] /\ link'[c] = link[c]
      BY <1>3, <2>5 DEF OtherNamed, client
    <3>. QED
      BY <3>2, <3>3, <3>4 DEF Moves, Reports
  <2>6. CASE OtherLeaves(d)
    BY <1>1, <1>3, <2>6 DEF OtherLeaves, Tell, Relay, client, Told, Moves, Reports
  <2>7. CASE OtherSpeaks(d)
    BY <1>1, <1>3, <2>7 DEF OtherSpeaks, Relay, client, server, Moves, Reports
  <2>8. CASE MessageReceived(d)
    <3> DEFINE m == Head(down[c])
    <3>1. /\ down[c] # <<>> /\ down'[c] = Tail(down[c])
          /\ link'[c] = link[c] /\ there'[c] = there[c] /\ ever'[c] = ever[c]
      BY <1>1, <1>3, <2>8 DEF MessageReceived, server
    <3>2. \/ /\ m.what = "names" /\ up'[c] = up[c]
             /\ conns'[c] = [conns[c] EXCEPT !.users = Merged(@, m.names, conns[c].id)]
          \/ /\ m.what = "removed" /\ up'[c] = up[c]
             /\ conns'[c] = [conns[c] EXCEPT !.users = Forgotten(@, m.session)]
          \/ /\ m.what = "parameters" /\ up'[c] = up[c]
             /\ conns'[c] = [conns[c] EXCEPT !.id = m.session]
          \/ /\ m.what \in {"chat", "ping", "pong"} /\ conns'[c] = conns[c]
             /\ \/ up'[c] = up[c]
                \/ up'[c] = up[c] \o <<[what |-> "pong", to |-> m.session, session |-> conns[c].id]>>
      <4>1. CASE m.what = "names" /\ NameNodes(c, m) /\ UNCHANGED <<up, logger>>
        BY <1>1, <4>1 DEF NameNodes, Connection, Merged
      <4>2. CASE m.what = "removed" /\ NodeRemoved(c, m) /\ UNCHANGED <<up, logger>>
        BY <1>1, <4>2 DEF NodeRemoved, Connection, client, Forgotten
      <4>3. CASE m.what = "parameters" /\ conns' = [conns EXCEPT ![c].id = m.session]
                 /\ UNCHANGED <<up, table, logger>>
        BY <1>1, <4>3 DEF Connection
      <4>4. CASE m.what = "chat" /\ UNCHANGED <<client, up>>
        BY <4>4 DEF client
      <4>5. CASE /\ m.what = "ping"
                 /\ Post(c, <<[what |-> "pong", to |-> m.session, session |-> conns[c].id]>>)
                 /\ UNCHANGED <<client, logger>>
        BY <1>1, <4>5 DEF client, Post
      <4>6. CASE m.what = "pong" /\ UNCHANGED <<client, up, logger>>
        BY <4>6 DEF client
      <4>. QED
        BY <1>3, <2>8, <4>1, <4>2, <4>3, <4>4, <4>5, <4>6 DEF MessageReceived
    <3>. QED
      BY <3>1, <3>2 DEF Moves, Hears
  <2>. QED
    BY <2>1, <2>2, <2>3, <2>4, <2>5, <2>6, <2>7, <2>8
<1>. QED
  BY <1>2, <1>3

LEMMA EverythingMoves ==
  ASSUME Typed, OffKnowsNobody, [Next]_vars, NEW c \in Server
  PROVE  Moves(c)
<1>1. CASE HandleUserInput
  BY <1>1, InputMoves
<1>2. CASE ApplySettings \/ NewDay
  BY <1>2 DEF ApplySettings, NewDay, client, network, server, Moves, Stays
<1>3. CASE UNCHANGED vars
  BY <1>3 DEF vars, client, network, server, Moves, Stays
<1>. QED
  BY <1>1, <1>2, <1>3, OthersMove DEF Next
-----------------------------------------------------------------------------
(* Each connection, its channels and the server's end agree: without a     *)
(* connection there is nothing under way and nobody known, and the session *)
(* ID that a connection knows is the one that the server gave it, which is *)
(* nobody else's.  Lines of ours carry it, unless they went out before.    *)
Linked(c) ==
  /\ conns[c].id \in {NoId, link[c].id}
  /\ conns[c].stage # "connected" =>
       up[c] = <<>> /\ down[c] = <<>> /\ link[c] = NoLink /\ conns[c].users = NoUsers
  /\ conns[c].stage = "connected" => link[c].id \in Session
  /\ link[c].id \notin DOMAIN there[c]
  /\ link[c].id \in Session => Us \in ever[c][link[c].id]
  /\ \A s \in DOMAIN there[c] : there[c][s] \in ever[c][s]
  /\ \A i \in DOMAIN down[c] :
       /\ down[c][i].what = "parameters" => down[c][i].session = link[c].id
       /\ down[c][i].what = "chat" /\ down[c][i].by = Us
            => down[c][i].session \in {NoId, conns[c].id}
  /\ \A i \in DOMAIN up[c] :
       up[c][i].what = "chat" => up[c][i].session \in {NoId, conns[c].id}
Base == Typed /\ \A c \in Server : Linked(c)

LEMMA FunctionsStay ==
  ASSUME Typed, [Next]_vars
  PROVE  /\ conns' = [c \in Server |-> conns'[c]] /\ up' = [c \in Server |-> up'[c]]
         /\ down' = [c \in Server |-> down'[c]] /\ link' = [c \in Server |-> link'[c]]
         /\ there' = [c \in Server |-> there'[c]] /\ ever' = [c \in Server |-> ever'[c]]
<1> DEFINE Fine == /\ conns' = [c \in Server |-> conns'[c]] /\ up' = [c \in Server |-> up'[c]]
                   /\ down' = [c \in Server |-> down'[c]] /\ link' = [c \in Server |-> link'[c]]
                   /\ there' = [c \in Server |-> there'[c]] /\ ever' = [c \in Server |-> ever'[c]]
<1>1. /\ conns = [c \in Server |-> conns[c]] /\ up = [c \in Server |-> up[c]]
      /\ down = [c \in Server |-> down[c]] /\ link = [c \in Server |-> link[c]]
      /\ there = [c \in Server |-> there[c]] /\ ever = [c \in Server |-> ever[c]]
  BY DEF Typed
<1>2. CASE HandleUserInput
  <2>1. /\ conns' = [c \in Server |-> conns'[c]] /\ up' = [c \in Server |-> up'[c]]
        /\ down' = [c \in Server |-> down'[c]] /\ link' = [c \in Server |-> link'[c]]
    <3>1. CASE Disconnect
      BY <3>1 DEF Disconnect
    <3>2. CASE SendChatToEveryone /\ UNCHANGED <<down, link>>
      BY <1>1, <3>2 DEF SendChatToEveryone
    <3>3. ASSUME NEW target, NEW text, SendPrivateMessage(target, text), UNCHANGED <<down, link>>
          PROVE  /\ conns' = [c \in Server |-> conns'[c]] /\ up' = [c \in Server |-> up'[c]]
                 /\ down' = [c \in Server |-> down'[c]] /\ link' = [c \in Server |-> link'[c]]
      BY <1>1, <3>3 DEF SendPrivateMessage, SendTo
    <3>4. ASSUME NEW target, PingUser(target), UNCHANGED <<down, link>>
          PROVE  /\ conns' = [c \in Server |-> conns'[c]] /\ up' = [c \in Server |-> up'[c]]
                 /\ down' = [c \in Server |-> down'[c]] /\ link' = [c \in Server |-> link'[c]]
      BY <1>1, <3>4 DEF PingUser, SendTo
    <3>. QED
      BY <1>1, <1>2, <3>1, <3>2, <3>3, <3>4
      DEF HandleUserInput, HandleFilterCommand, HandleAliasCommand
  <2>. QED
    BY <1>1, <1>2, <2>1 DEF HandleUserInput, server
<1>3. CASE ApplySettings \/ NewDay \/ UNCHANGED vars
  BY <1>1, <1>3 DEF ApplySettings, NewDay, vars, client, network, server
<1>4. ASSUME NEW d \in Server
      PROVE  /\ ConnectToServer(d) => Fine
             /\ SessionConnected(d) => Fine
             /\ SessionDisconnected(d) => Fine
  BY <1>1 DEF ConnectToServer, SessionConnected, SessionDisconnected, ClearConnection,
     NoLongerConnected, Post, server
<1>5. ASSUME NEW d \in Server
      PROVE  /\ ServerReceives(d) => Fine
             /\ OtherNamed(d) => Fine
             /\ OtherLeaves(d) => Fine
             /\ OtherSpeaks(d) => Fine
  BY <1>1 DEF ServerReceives, OtherNamed, OtherLeaves, OtherSpeaks, Tell, Relay, client, server
<1>6. ASSUME NEW d \in Server, MessageReceived(d) PROVE Fine
  BY <1>1, <1>6 DEF MessageReceived, NameNodes, NodeRemoved, Post, client, server
<1>. QED
  BY <1>2, <1>3, <1>4, <1>5, <1>6 DEF Next

LEMMA UsersType ==
  ASSUME NEW f \in Users PROVE DOMAIN f \in SUBSET Session /\ \A t \in DOMAIN f : f[t] \in Names
BY DEF Users

LEMMA OneUser ==
  ASSUME NEW s \in Session, NEW n \in Names PROVE [t \in {s} |-> n] \in Users
<1>1. [t \in {s} |-> n] \in [{s} -> Names] /\ {s} \in SUBSET Session
  OBVIOUS
<1>. QED
  BY <1>1 DEF Users

LEMMA UsersChange ==
  ASSUME NEW f \in Users, NEW s \in Session, NEW n \in Names
  PROVE  /\ With(f, s, n) \in Users /\ DOMAIN With(f, s, n) = DOMAIN f \cup {s}
         /\ \A t \in DOMAIN With(f, s, n) : With(f, s, n)[t] = IF t = s THEN n ELSE f[t]
<1>1. PICK D \in SUBSET Session : f \in [D -> Names]
  BY DEF Users
<1>2. With(f, s, n) \in [D \cup {s} -> Names] /\ D \cup {s} \in SUBSET Session
  BY <1>1 DEF With
<1>. QED
  BY <1>1, <1>2 DEF With, Users

LEMMA UsersLess ==
  ASSUME NEW f \in Users, NEW s
  PROVE  /\ Without(f, s) \in Users /\ DOMAIN Without(f, s) = DOMAIN f \ {s}
         /\ \A t \in DOMAIN Without(f, s) : Without(f, s)[t] = f[t]
<1>1. PICK D \in SUBSET Session : f \in [D -> Names]
  BY DEF Users
<1>2. Without(f, s) \in [D \ {s} -> Names] /\ D \ {s} \in SUBSET Session
  BY <1>1 DEF Without
<1>. QED
  BY <1>1, <1>2 DEF Users, Without

LEMMA UsersMerged ==
  ASSUME NEW f \in Users, NEW g \in Users, NEW own
  PROVE  /\ Merged(f, g, own) \in Users
         /\ DOMAIN Merged(f, g, own) = DOMAIN f \cup (DOMAIN g \ {own})
         /\ \A t \in DOMAIN Merged(f, g, own) :
              Merged(f, g, own)[t] = IF t \in DOMAIN g \ {own} THEN g[t] ELSE f[t]
<1> DEFINE h == Without(g, own)
<1>1. /\ h \in Users /\ DOMAIN h = DOMAIN g \ {own} /\ \A t \in DOMAIN g \ {own} : h[t] = g[t]
      /\ DOMAIN h \in SUBSET Session /\ \A t \in DOMAIN h : h[t] \in Names
      /\ DOMAIN f \in SUBSET Session /\ \A t \in DOMAIN f : f[t] \in Names
  <2>1. /\ h \in Users /\ DOMAIN h = DOMAIN g \ {own} /\ \A t \in DOMAIN g \ {own} : h[t] = g[t]
    BY UsersLess
  <2>. HIDE DEF h
  <2>. QED
    BY <2>1, UsersType
<1>2. Merged(f, g, own) = [t \in DOMAIN f \cup DOMAIN h |-> IF t \in DOMAIN h THEN h[t] ELSE f[t]]
  BY DEF Merged
<1>. HIDE DEF h
<1>3. /\ Merged(f, g, own) \in [DOMAIN f \cup DOMAIN h -> Names]
      /\ DOMAIN f \cup DOMAIN h \in SUBSET Session
  BY <1>1, <1>2
<1>4. Merged(f, g, own) \in Users
  BY <1>3 DEF Users
<1>5. \A t \in DOMAIN f \cup DOMAIN h :
        Merged(f, g, own)[t] = IF t \in DOMAIN g \ {own} THEN g[t] ELSE f[t]
  BY <1>1, <1>2
<1>. QED
  BY <1>1, <1>3, <1>4, <1>5

(* What one connection holds is typed.                                     *)
Held(c) ==
  /\ conns[c] \in Connection /\ IsSeq(up[c]) /\ down[c] \in Seq(Incoming) /\ link[c] \in Link
  /\ there[c] \in Users /\ (\A s \in DOMAIN there[c] : there[c][s] \in Person)
  /\ ever[c] \in [Session -> SUBSET Names]

LEMMA HeldTyped == Typed => \A c \in Server : Held(c)
BY DEF Typed, Held

(* One more message that comes down.                                       *)
LEMMA OneMore ==
  ASSUME NEW q \in Seq(Incoming), NEW m \in Incoming
  PROVE  /\ q \o <<m>> \in Seq(Incoming) /\ DOMAIN q = 1..Len(q) /\ Len(q) \in Nat
         /\ DOMAIN (q \o <<m>>) = 1..(Len(q) + 1) /\ Len(q \o <<m>>) = Len(q) + 1
         /\ \A i \in 1..Len(q) : (q \o <<m>>)[i] = q[i] /\ q[i] \in Incoming
         /\ (q \o <<m>>)[Len(q) + 1] = m
         /\ \A i \in DOMAIN (q \o <<m>>) :
              (q \o <<m>>)[i] = m \/ (i \in DOMAIN q /\ (q \o <<m>>)[i] = q[i])
<1> DEFINE r == q \o <<m>>
<1>1. /\ r \in Seq(Incoming) /\ DOMAIN q = 1..Len(q) /\ Len(q) \in Nat
      /\ DOMAIN r = 1..(Len(q) + 1) /\ Len(r) = Len(q) + 1
      /\ \A i \in 1..Len(q) : r[i] = q[i] /\ q[i] \in Incoming
      /\ r[Len(q) + 1] = m
  OBVIOUS
<1>. HIDE DEF r
<1>2. \A i \in DOMAIN r : i = Len(q) + 1 \/ i \in DOMAIN q
  BY <1>1
<1>3. \A i \in DOMAIN r : r[i] = m \/ (i \in DOMAIN q /\ r[i] = q[i])
  BY <1>1, <1>2
<1>. QED
  BY <1>1, <1>3 DEF r

LEMMA OneLess ==
  ASSUME NEW q \in Seq(Incoming), q # <<>>
  PROVE  /\ Tail(q) \in Seq(Incoming) /\ DOMAIN q = 1..Len(q) /\ Len(q) \in Nat \ {0}
         /\ DOMAIN Tail(q) = 1..(Len(q) - 1) /\ Len(Tail(q)) = Len(q) - 1
         /\ Head(q) = q[1] /\ Head(q) \in Incoming
         /\ \A i \in 1..(Len(q) - 1) : Tail(q)[i] = q[i + 1] /\ q[i + 1] \in Incoming
OBVIOUS

(* The messages, by what they say.                                         *)
LEMMA MessageKinds ==
  /\ \A m \in Incoming :
       /\ m.what \in {"names", "removed", "parameters", "ping", "pong", "chat"}
       /\ m.what = "names" => m.names \in Users
       /\ m.what \in {"removed", "parameters", "ping", "pong"} => m.session \in Session
       /\ m.what = "chat" => /\ m.session \in Session \cup {NoId} /\ m.private \in BOOLEAN
                             /\ m.by \in Names /\ m.told \in BOOLEAN
  /\ \A names \in Users : Named(names) \in Incoming
  /\ \A s \in Session : \A w \in {"removed", "parameters", "ping", "pong"} :
       [what |-> w, session |-> s] \in Incoming
  /\ \A s \in Session \cup {NoId}, private \in BOOLEAN, by \in Names, told \in BOOLEAN :
       Chat(s, private, by, told) \in Incoming
BY DEF Incoming, Named, Chat

LEMMA NamesApart ==
  /\ NoId \notin Session /\ "*" \notin Session /\ Us \notin Person
  /\ "" \notin Names /\ Us \in Names /\ Person \subseteq Names /\ NoLink.id = NoId
<1>1. NoId \notin Session /\ "*" \notin Session
  BY ChatAssumption DEF NoId
<1>2. NoLink.id = NoId
  BY DEF NoLink
<1>. QED
  BY <1>1, <1>2, ChatAssumption DEF Names

LEMMA LossFits ==
  ASSUME NEW c \in Server, Held(c), Linked(c), Loses(c) PROVE Held(c)' /\ Linked(c)'
<1>1. /\ conns'[c] \in Connection /\ conns'[c].id = NoId /\ conns'[c].users = NoUsers
      /\ conns'[c].stage # "connected"
  BY OffIsConnection DEF Loses
<1>2. /\ up'[c] = <<>> /\ down'[c] = <<>> /\ link'[c] = NoLink
      /\ IsSeq(<<>>) /\ <<>> \in Seq(Incoming) /\ NoLink \in Link /\ NoLink.id = NoId
      /\ NoId \notin Session
  <2>1. <<>> \in Seq(Incoming)
    OBVIOUS
  <2>. QED
    BY <2>1, NoneIsSeq, OffIsConnection, NamesApart DEF Loses
<1>3. /\ there'[c] \in Users /\ ever'[c] \in [Session -> SUBSET Names]
      /\ \A s \in DOMAIN there'[c] : there'[c][s] \in Person /\ there'[c][s] \in ever'[c][s]
      /\ DOMAIN there'[c] \subseteq Session
  <2>1. CASE there'[c] = there[c] /\ ever'[c] = ever[c]
    BY <2>1 DEF Held, Linked, Users
  <2>2. CASE there'[c] \in SomeUsers /\ ever'[c] = EverOf(there'[c])
    <3>1. /\ there'[c] \in [{"1"} -> Person] /\ "1" \in Session
      BY <2>2, ChatAssumption DEF SomeUsers
    <3>2. there'[c] \in [{"1"} -> Names] /\ {"1"} \in SUBSET Session
      BY <3>1 DEF Names
    <3>3. ever'[c] = [s \in Session |-> {there'[c][t] : t \in {"1"} \cap {s}}]
      BY <2>2, <3>1 DEF EverOf
    <3>4. \A s \in Session : ever'[c][s] \in SUBSET Names
      BY <3>2, <3>3
    <3>5. there'[c]["1"] \in ever'[c]["1"]
      BY <3>1, <3>3
    <3>6. ever'[c] \in [Session -> SUBSET Names]
      <4> DEFINE e(s) == {there'[c][t] : t \in {"1"} \cap {s}}
      <4>1. ever'[c] = [s \in Session |-> e(s)] /\ \A s \in Session : e(s) \in SUBSET Names
        BY <3>3, <3>4
      <4>. HIDE DEF e
      <4>. QED
        BY <4>1
    <3>. QED
      BY <3>1, <3>2, <3>5, <3>6 DEF Users
  <2>. QED
    BY <2>1, <2>2 DEF Loses
<1>4. Held(c)'
  BY <1>1, <1>2, <1>3 DEF Held
<1>5. Linked(c)'
  BY <1>1, <1>2, <1>3 DEF Linked
<1>. QED
  BY <1>4, <1>5

LEMMA JoinFits ==
  ASSUME NEW c \in Server, Held(c), Linked(c), Joins(c) PROVE Held(c)' /\ Linked(c)'
<1> DEFINE q == <<[what |-> "name"], [what |-> "subscribe"], [what |-> "getparameters"]>>
<1>1. /\ up[c] = <<>> /\ down[c] = <<>> /\ link[c] = NoLink /\ conns[c].users = NoUsers
      /\ conns[c] \in Connection /\ conns[c].id = NoId /\ NoLink.id = NoId /\ NoId \notin Session
  BY NamesApart DEF Joins, Held, Linked
<1>2. PICK id \in Unused(c) : link'[c] = [link[c] EXCEPT !.id = id]
                              /\ ever'[c] = [ever[c] EXCEPT ![id] = {Us}]
  BY DEF Joins
<1>3. /\ id \in Session /\ ever[c][id] = {} /\ link'[c].id = id /\ link'[c] \in Link
      /\ ever'[c] \in [Session -> SUBSET Names] /\ ever'[c][id] = {Us}
      /\ \A s \in Session : ever[c][s] \subseteq ever'[c][s]
  BY <1>2 DEF Unused, Held, Link, Names
<1>4. /\ conns'[c] \in Connection /\ conns'[c].stage = "connected" /\ conns'[c].id = NoId
      /\ down'[c] = <<>> /\ there'[c] = there[c]
  BY <1>1 DEF Joins, Connection
<1>5. /\ IsSeq(up'[c])
      /\ \A i \in DOMAIN up'[c] : up'[c][i].what # "chat"
  <2>1. q = [i \in 1..3 |-> q[i]] /\ \A i \in 1..3 : q[i].what # "chat"
    OBVIOUS
  <2>2. IsSeq(q)
    BY <2>1, SeqOfSome
  <2>3. up'[c] = q
    BY <1>1, <2>2 DEF Joins, IsSeq
  <2>4. DOMAIN q = 1..3
    OBVIOUS
  <2>. HIDE DEF q
  <2>. QED
    BY <2>1, <2>2, <2>3, <2>4
<1>6. /\ \A s \in DOMAIN there[c] : there[c][s] \in ever'[c][s]
      /\ DOMAIN there[c] \subseteq Session /\ id \notin DOMAIN there[c]
  BY <1>3 DEF Held, Linked, Users
<1>7. Held(c)'
  BY <1>3, <1>4, <1>5 DEF Held
<1>8. Linked(c)'
  BY <1>3, <1>4, <1>5, <1>6 DEF Linked
<1>. QED
  BY <1>7, <1>8

LEMMA TypesFits ==
  ASSUME NEW c \in Server, Held(c), Linked(c), Types(c) PROVE Held(c)' /\ Linked(c)'
<1>1. PICK q : IsSeq(q) /\ (\A i \in DOMAIN q : Typing(c, q[i])) /\ up'[c] = up[c] \o q
  BY DEF Types
<1>2. /\ IsSeq(up'[c])
      /\ \A i \in DOMAIN up'[c] :
           \/ i \in DOMAIN up[c] /\ up'[c][i] = up[c][i]
           \/ \E j \in DOMAIN q : up'[c][i] = q[j]
  BY <1>1, SeqJoined DEF Held
<1>3. Held(c)'
  BY <1>2 DEF Held, Types
<1>4. \A i \in DOMAIN up'[c] : up'[c][i].what = "chat" => up'[c][i].session \in {NoId, conns[c].id}
  BY <1>1, <1>2 DEF Linked, Typing
<1>5. conns'[c].stage # "connected" => up'[c] = <<>>
  BY DEF Types, Linked
<1>. QED
  BY <1>3, <1>4, <1>5 DEF Linked, Types

LEMMA TakesFits ==
  ASSUME NEW c \in Server, Held(c), Linked(c), Takes(c) PROVE Held(c)' /\ Linked(c)'
<1> DEFINE m == Head(up[c])
<1>1. /\ up'[c] = Tail(up[c]) /\ IsSeq(Tail(up[c])) /\ m = up[c][1] /\ 1 \in DOMAIN up[c]
      /\ \A i \in DOMAIN Tail(up[c]) : i + 1 \in DOMAIN up[c] /\ Tail(up[c])[i] = up[c][i + 1]
  BY SeqTail DEF Held, Takes
<1>2. /\ conns'[c] = conns[c] /\ there'[c] = there[c] /\ ever'[c] = ever[c]
      /\ conns[c].stage = "connected" /\ link[c].id \in Session
      /\ link[c] \in Link /\ down[c] \in Seq(Incoming)
  BY DEF Takes, Held, Linked
<1>3. /\ \A i \in DOMAIN up'[c] : up'[c][i].what = "chat" => up'[c][i].session \in {NoId, conns[c].id}
      /\ m.what = "chat" => m.session \in {NoId, conns[c].id} /\ m.session \in Session \cup {NoId}
  BY <1>1, <1>2 DEF Linked, Held, Connection
<1>4. /\ link'[c] \in Link /\ link'[c].id = link[c].id
  BY <1>2 DEF Takes, Link
<1>5. /\ there[c] \in Users /\ Us \in Names /\ DOMAIN there[c] \subseteq Session
  BY NamesApart DEF Held, Users
<1>6. \/ down'[c] = down[c]
      \/ \E r \in Incoming : /\ down'[c] = down[c] \o <<r>>
                             /\ r.what = "parameters" => r.session = link[c].id
                             /\ r.what = "chat" => r.session \in {NoId, conns[c].id}
  <2>1. CASE down'[c] = down[c] \o <<Named(With(there[c], link[c].id, Us))>>
    <3>1. With(there[c], link[c].id, Us) \in Users
      BY <1>2, <1>5, UsersChange
    <3>. QED
      BY <2>1, <3>1, MessageKinds DEF Named
  <2>2. CASE down'[c] = down[c] \o <<[what |-> "parameters", session |-> link[c].id]>>
    BY <1>2, <2>2, MessageKinds
  <2>3. CASE m.what = "chat" /\ down'[c] = down[c] \o <<FromUs(m)>>
    <3>1. FromUs(m) \in Incoming /\ FromUs(m).what = "chat" /\ FromUs(m).session = m.session
      BY <1>3, <1>5, <2>3 DEF FromUs, Incoming
    <3>. QED
      BY <1>3, <2>3, <3>1
  <2>4. CASE m.to \in DOMAIN there[c]
             /\ down'[c] = down[c] \o <<[what |-> "pong", session |-> m.to]>>
    BY <1>5, <2>4, MessageKinds
  <2>. QED
    BY <2>1, <2>2, <2>3, <2>4 DEF Takes
<1>7. /\ down'[c] \in Seq(Incoming)
      /\ \A i \in DOMAIN down'[c] :
           /\ down'[c][i].what = "parameters" => down'[c][i].session = link[c].id
           /\ down'[c][i].what = "chat" /\ down'[c][i].by = Us
                => down'[c][i].session \in {NoId, conns[c].id}
  <2>1. CASE down'[c] = down[c]
    BY <1>2, <2>1 DEF Linked
  <2>2. ASSUME NEW r \in Incoming, down'[c] = down[c] \o <<r>>,
               r.what = "parameters" => r.session = link[c].id,
               r.what = "chat" => r.session \in {NoId, conns[c].id}
        PROVE  <1>7!:
    BY <1>2, <2>2, OneMore DEF Linked
  <2>. QED
    BY <1>6, <2>1, <2>2
<1>. HIDE DEF m
<1>8. Held(c)'
  BY <1>1, <1>2, <1>4, <1>7 DEF Held
<1>9. Linked(c)'
  BY <1>1, <1>2, <1>3, <1>4, <1>7 DEF Linked
<1>. QED
  BY <1>8, <1>9

LEMMA ReportsFits ==
  ASSUME NEW c \in Server, Held(c), Linked(c), Reports(c) PROVE Held(c)' /\ Linked(c)'
<1>1. /\ conns'[c] = conns[c] /\ up'[c] = up[c] /\ link'[c] = link[c]
      /\ down[c] \in Seq(Incoming) /\ there[c] \in Users /\ DOMAIN there[c] \subseteq Session
      /\ ever[c] \in [Session -> SUBSET Names] /\ link[c] \in Link
      /\ \A s \in DOMAIN there[c] : there[c][s] \in Person /\ there[c][s] \in ever[c][s]
      /\ link[c].id \in Session \/ link[c] = NoLink
  BY DEF Reports, Held, Linked, Users
<1>2. /\ there'[c] \in Users /\ ever'[c] \in [Session -> SUBSET Names]
      /\ \A s \in DOMAIN there'[c] : there'[c][s] \in Person /\ there'[c][s] \in ever'[c][s]
      /\ \A s \in Session : ever[c][s] \subseteq ever'[c][s]
      /\ link[c].id \notin DOMAIN there'[c]
  <2>1. ASSUME NEW s \in DOMAIN there[c] \cup Unused(c), NEW n \in Person,
               there'[c] = With(there[c], s, n), ever'[c] = [ever[c] EXCEPT ![s] = @ \cup {n}]
        PROVE  <1>2!:
    <3>1. s \in Session /\ n \in Names /\ s # link[c].id
      <4>1. CASE s \in DOMAIN there[c]
        BY <1>1, <4>1, NamesApart DEF Linked
      <4>2. CASE s \in Unused(c)
        BY <1>1, <4>2, NamesApart DEF Linked, Unused
      <4>. QED
        BY <4>1, <4>2
    <3>2. /\ ever'[c] \in [Session -> SUBSET Names] /\ n \in ever'[c][s]
          /\ \A t \in Session : ever[c][t] \subseteq ever'[c][t]
      BY <1>1, <2>1, <3>1
    <3>3. /\ With(there[c], s, n) \in Users /\ DOMAIN With(there[c], s, n) = DOMAIN there[c] \cup {s}
          /\ \A t \in DOMAIN With(there[c], s, n) :
               With(there[c], s, n)[t] = IF t = s THEN n ELSE there[c][t]
      BY <1>1, <3>1, UsersChange
    <3>4. link[c].id \notin DOMAIN there'[c]
      BY <2>1, <3>1, <3>3 DEF Linked
    <3>. QED
      BY <1>1, <2>1, <3>2, <3>3, <3>4
  <2>2. ASSUME NEW s \in DOMAIN there[c], there'[c] = Without(there[c], s), ever'[c] = ever[c]
        PROVE  <1>2!:
    <3>1. /\ Without(there[c], s) \in Users /\ DOMAIN Without(there[c], s) = DOMAIN there[c] \ {s}
          /\ \A t \in DOMAIN Without(there[c], s) : Without(there[c], s)[t] = there[c][t]
      BY <1>1, UsersLess
    <3>2. link[c].id \notin DOMAIN there[c]
      BY DEF Linked
    <3>. QED
      BY <1>1, <2>2, <3>1, <3>2
  <2>3. CASE there'[c] = there[c] /\ ever'[c] = ever[c]
    BY <1>1, <2>3 DEF Linked
  <2>. QED
    BY <2>1, <2>2, <2>3 DEF Reports
<1>3. \/ down'[c] = down[c]
      \/ \E r \in Incoming : /\ down'[c] = down[c] \o <<r>>
                             /\ r.what # "parameters" /\ (r.what = "chat" => r.by \in Person)
  <2>1. ASSUME NEW s \in DOMAIN there[c] \cup Unused(c), NEW n \in Person,
               Told(c, Named([t \in {s} |-> n]))
        PROVE  <1>3!:
    <3>1. s \in Session /\ n \in Names
      BY <1>1, NamesApart DEF Unused
    <3>2. Named([t \in {s} |-> n]) \in Incoming /\ Named([t \in {s} |-> n]).what = "names"
      BY <3>1, OneUser, MessageKinds DEF Named
    <3>. QED
      BY <2>1, <3>2 DEF Told
  <2>2. ASSUME NEW s \in DOMAIN there[c], Told(c, [what |-> "removed", session |-> s])
        PROVE  <1>3!:
    BY <1>1, <2>2, MessageKinds DEF Told
  <2>3. ASSUME NEW s \in DOMAIN there[c], NEW private \in BOOLEAN,
               down'[c] = down[c] \o <<Chat(s, private, there[c][s], link[c].subscribed)>>
        PROVE  <1>3!:
    <3> DEFINE r == Chat(s, private, there[c][s], link[c].subscribed)
    <3>1. r \in Incoming /\ r.what = "chat" /\ r.by = there[c][s]
      BY <1>1, NamesApart, MessageKinds DEF Link, Chat
    <3>. HIDE DEF r
    <3>2. down'[c] = down[c] \o <<r>>
      BY <2>3 DEF r
    <3>. QED
      BY <1>1, <3>1, <3>2
  <2>4. ASSUME NEW s \in DOMAIN there[c], down'[c] = down[c] \o <<[what |-> "ping", session |-> s]>>
        PROVE  <1>3!:
    BY <1>1, <2>4, MessageKinds
  <2>. QED
    BY <2>1, <2>2, <2>3, <2>4 DEF Reports
<1>4. /\ down'[c] \in Seq(Incoming)
      /\ \A i \in DOMAIN down'[c] :
           /\ down'[c][i].what = "parameters" => down'[c][i].session = link[c].id
           /\ down'[c][i].what = "chat" /\ down'[c][i].by = Us
                => down'[c][i].session \in {NoId, conns[c].id}
  <2>1. CASE down'[c] = down[c]
    BY <1>1, <2>1 DEF Linked
  <2>2. ASSUME NEW r \in Incoming, down'[c] = down[c] \o <<r>>,
               r.what # "parameters" /\ (r.what = "chat" => r.by \in Person)
        PROVE  <1>4!:
    <3>1. /\ down'[c] \in Seq(Incoming) /\ Us \notin Person
          /\ \A i \in DOMAIN down'[c] :
               down'[c][i] = r \/ (i \in DOMAIN down[c] /\ down'[c][i] = down[c][i])
      <4> DEFINE q == down[c] \o <<r>>
      <4>1. /\ q \in Seq(Incoming)
            /\ \A i \in DOMAIN q : q[i] = r \/ (i \in DOMAIN down[c] /\ q[i] = down[c][i])
        BY <1>1, OneMore
      <4>. HIDE DEF q
      <4>2. down'[c] = q
        BY <2>2 DEF q
      <4>. QED
        BY <4>1, <4>2, NamesApart
    <3>. QED
      BY <2>2, <3>1 DEF Linked
  <2>. QED
    BY <1>3, <2>1, <2>2
<1>5. conns[c].stage # "connected" => down'[c] = <<>>
  <2>1. CASE conns[c].stage # "connected"
    <3>1. down[c] = <<>> /\ ~link[c].subscribed /\ ~link[c].named
      BY <2>1 DEF Linked, NoLink
    <3>2. \A m : Told(c, m) => down'[c] = <<>>
      BY <3>1 DEF Told
    <3>. QED
      BY <3>1, <3>2 DEF Reports
  <2>. QED
    BY <2>1
<1>6. Held(c)'
  BY <1>1, <1>2, <1>4 DEF Held, Reports
<1>7. Linked(c)'
  BY <1>1, <1>2, <1>4, <1>5 DEF Linked
<1>. QED
  BY <1>6, <1>7

LEMMA HearsFits ==
  ASSUME NEW c \in Server, Held(c), Linked(c), Hears(c) PROVE Held(c)' /\ Linked(c)'
<1> DEFINE m == Head(down[c])
<1>1. /\ down[c] # <<>> /\ down[c] \in Seq(Incoming) /\ conns[c] \in Connection
      /\ conns[c].stage = "connected" /\ link[c].id \in Session /\ conns[c].users \in Users
      /\ link'[c] = link[c] /\ there'[c] = there[c] /\ ever'[c] = ever[c]
      /\ down'[c] = Tail(down[c])
  BY DEF Hears, Held, Linked, Connection
<1>2. /\ m \in Incoming /\ m = down[c][1] /\ 1 \in DOMAIN down[c]
      /\ down'[c] \in Seq(Incoming)
      /\ \A i \in DOMAIN down'[c] : i + 1 \in DOMAIN down[c] /\ down'[c][i] = down[c][i + 1]
  BY <1>1, OneLess
<1>3. /\ \A i \in DOMAIN down'[c] :
           /\ down'[c][i].what = "parameters" => down'[c][i].session = link[c].id
           /\ down'[c][i].what = "chat" /\ down'[c][i].by = Us
                => down'[c][i].session \in {NoId, conns[c].id}
      /\ m.what = "parameters" => m.session = link[c].id
  BY <1>2 DEF Linked
<1>. HIDE DEF m
<1>4. /\ conns'[c] \in Connection /\ conns'[c].stage = "connected"
      /\ conns'[c].id \in {NoId, link[c].id} /\ {NoId, conns[c].id} \subseteq {NoId, conns'[c].id}
  <2>1. ASSUME m.what = "names", conns'[c] = [conns[c] EXCEPT !.users = Merged(@, m.names, conns[c].id)]
        PROVE  <1>4!:
    <3>1. Merged(conns[c].users, m.names, conns[c].id) \in Users
      BY <1>1, <1>2, <2>1, MessageKinds, UsersMerged
    <3>. QED
      BY <1>1, <2>1, <3>1 DEF Linked, Connection
  <2>2. ASSUME m.what = "removed", conns'[c] = [conns[c] EXCEPT !.users = Forgotten(@, m.session)]
        PROVE  <1>4!:
    <3>1. Forgotten(conns[c].users, m.session) \in Users
      BY <1>1, UsersLess DEF Forgotten
    <3>. QED
      BY <1>1, <2>2, <3>1 DEF Linked, Connection
  <2>3. ASSUME m.what = "parameters", conns'[c] = [conns[c] EXCEPT !.id = m.session]
        PROVE  <1>4!:
    BY <1>1, <1>3, <2>3 DEF Linked, Connection
  <2>4. CASE conns'[c] = conns[c]
    BY <1>1, <2>4 DEF Linked
  <2>. QED
    BY <2>1, <2>2, <2>3, <2>4 DEF Hears, m
<1>5. /\ IsSeq(up'[c])
      /\ \A i \in DOMAIN up'[c] : up'[c][i].what = "chat" => up'[c][i].session \in {NoId, conns[c].id}
  <2>1. CASE up'[c] = up[c]
    BY <2>1 DEF Held, Linked
  <2>2. CASE up'[c] = up[c] \o <<[what |-> "pong", to |-> m.session, session |-> conns[c].id]>>
    <3> DEFINE r == [what |-> "pong", to |-> m.session, session |-> conns[c].id]
    <3>1. IsSeq(<<r>>) /\ DOMAIN <<r>> = {1} /\ <<r>>[1] = r /\ r.what # "chat"
      BY SeqOfOne
    <3>2. up'[c] = up[c] \o <<r>>
      BY <2>2
    <3>. HIDE DEF r
    <3>3. /\ IsSeq(up'[c])
          /\ \A i \in DOMAIN up'[c] :
               \/ i \in DOMAIN up[c] /\ up'[c][i] = up[c][i]
               \/ \E j \in DOMAIN <<r>> : up'[c][i] = <<r>>[j]
      BY <3>1, <3>2, SeqJoined DEF Held
    <3>. QED
      BY <3>1, <3>3 DEF Linked
  <2>. QED
    BY <2>1, <2>2 DEF Hears, m
<1>6. Held(c)'
  BY <1>1, <1>2, <1>4, <1>5 DEF Held
<1>7. Linked(c)'
  BY <1>1, <1>3, <1>4, <1>5 DEF Linked
<1>. QED
  BY <1>6, <1>7

LEMMA BaseStep == Base /\ [Next]_vars => Base'
<1>. SUFFICES ASSUME Base, [Next]_vars PROVE Base'
  OBVIOUS
<1>1. /\ Typed /\ OffKnowsNobody /\ \A c \in Server : Held(c) /\ Linked(c)
  BY HeldTyped DEF Base, OffKnowsNobody, Linked
<1>2. ASSUME NEW c \in Server PROVE Held(c)' /\ Linked(c)'
  <2>1. CASE Stays(c)
    BY <1>1, <2>1 DEF Stays, Held, Linked
  <2>. QED
    BY <1>1, <2>1, EverythingMoves, LossFits, JoinFits, TypesFits, TakesFits, ReportsFits,
       HearsFits DEF Moves
<1>3. Typed'
  BY <1>1, <1>2, FunctionsStay DEF Typed, Held
<1>. QED
  BY <1>2, <1>3 DEF Base

LEMMA BaseInit == Init => Base
<1>. SUFFICES ASSUME Init PROVE Base
  OBVIOUS
<1>1. /\ conns = [c \in Server |-> IF c = Primary THEN [Off EXCEPT !.stage = "connecting"] ELSE Off]
      /\ up = [c \in Server |-> <<>>] /\ down = [c \in Server |-> <<>>]
      /\ link = [c \in Server |-> NoLink] /\ there \in [Server -> SomeUsers]
      /\ ever = [c \in Server |-> EverOf(there[c])]
  BY DEF Init
<1>2. ASSUME NEW c \in Server
      PROVE  /\ there[c] \in Users /\ ever[c] \in [Session -> SUBSET Names]
             /\ \A s \in DOMAIN there[c] : there[c][s] \in Person /\ there[c][s] \in ever[c][s]
             /\ DOMAIN there[c] \subseteq Session
  <2>1. there[c] \in [{"1"} -> Person] /\ "1" \in Session
    BY <1>1, ChatAssumption DEF SomeUsers
  <2>2. there[c] \in [{"1"} -> Names] /\ {"1"} \in SUBSET Session
    BY <2>1 DEF Names
  <2> DEFINE e(s) == {there[c][t] : t \in {"1"} \cap {s}}
  <2>3. ever[c] = [s \in Session |-> e(s)]
    BY <1>1, <2>1 DEF EverOf
  <2>4. (\A s \in Session : e(s) \in SUBSET Names) /\ there[c]["1"] \in e("1")
    BY <2>2
  <2>. HIDE DEF e
  <2>. QED
    BY <2>1, <2>2, <2>3, <2>4 DEF Users
<1>3. ASSUME NEW c \in Server PROVE Held(c) /\ Linked(c)
  <2>1. /\ conns[c] \in Connection /\ conns[c].id = NoId /\ conns[c].users = NoUsers
        /\ conns[c].stage # "connected"
    BY <1>1, OffIsConnection
  <2>2. /\ up[c] = <<>> /\ down[c] = <<>> /\ link[c] = NoLink
        /\ IsSeq(<<>>) /\ NoLink \in Link /\ NoLink.id = NoId
        /\ NoId \notin Session
    BY <1>1, NoneIsSeq, OffIsConnection, NamesApart
  <2>3. <<>> \in Seq(Incoming)
    OBVIOUS
  <2>. QED
    BY <1>2, <2>1, <2>2, <2>3 DEF Held, Linked
<1>. QED
  BY <1>1, <1>3 DEF Base, Typed, Held

LEMMA AlwaysBase == Spec => []Base
BY BaseInit, BaseStep, PTL DEF Spec
-----------------------------------------------------------------------------
(* Lines in the window: of our own, or one that a server relayed, which is *)
(* neither a copy of our own nor from an ignored user.                     *)
Received(c, m) ==
  [name |-> DisplayName(conns[c].users, m.session), session |-> m.session,
   private |-> m.private, by |-> m.by, told |-> m.told]
ShowsHeard(c) ==
  LET m == Head(down[c]) IN
  /\ down[c] # <<>> /\ m.what = "chat" /\ m.session # conns[c].id
  /\ ~Ignored(c, Received(c, m)) /\ filters' = filters
  /\ \E line : line.from = c /\ line.message = Received(c, m) /\ Show(<<line>>)
ShowsOwn ==
  \E lines : (\A i \in DOMAIN lines : lines[i].from = "here") /\ Show(lines)
Displays ==
  \/ UNCHANGED <<shown, filters, logger, today>>
  \/ shown' = <<>>
  \/ today' = today /\ (ShowsOwn \/ \E c \in Server : ShowsHeard(c))

LEMMA InputDisplays == HandleUserInput => shown' = <<>> \/ (today' = today /\ ShowsOwn)
<1>. SUFFICES ASSUME HandleUserInput, shown' # <<>> PROVE today' = today /\ ShowsOwn
  OBVIOUS
<1>1. today' = today
  BY DEF HandleUserInput, Step
<1>2. CASE SendChatToEveryone
  <2>1. Show(<<Echo(Us)>>)
    BY <1>2 DEF SendChatToEveryone
  <2>2. \A i \in DOMAIN <<Echo(Us)>> : <<Echo(Us)>>[i].from = "here"
    BY DEF Echo
  <2>. QED
    BY <1>1, <2>1, <2>2 DEF ShowsOwn
<1>3. ASSUME NEW target, NEW text, SendPrivateMessage(target, text) PROVE ShowsOwn
  <2> DEFINE targets == SetToSeq(Targets(target[1]))
             lines == [i \in DOMAIN targets |->
                        Echo(DisplayName(conns[targets[i][1]].users, targets[i][2]))]
  <2>1. Show(lines)
    BY <1>3 DEF SendPrivateMessage
  <2>2. \A i \in DOMAIN lines : lines[i].from = "here"
    BY DEF Echo
  <2>. HIDE DEF lines
  <2>. QED
    BY <2>1, <2>2 DEF ShowsOwn
<1>4. ~Disconnect
  BY DEF Disconnect
<1>. QED
  BY <1>1, <1>2, <1>3, <1>4
  DEF HandleUserInput, PingUser, HandleFilterCommand, HandleAliasCommand

LEMMA EverythingDisplays == [Next]_vars => Displays
<1>1. ASSUME NEW c \in Server, MessageReceived(c), shown' # <<>>
      PROVE  today' = today /\ ShowsHeard(c)
  <2> DEFINE m == Head(down[c])
  <2>1. /\ down[c] # <<>> /\ m.what = "chat" /\ HandleChatText(c, m)
        /\ today' = today /\ filters' = filters
    BY <1>1 DEF MessageReceived, time, user
  <2>2. m.session # conns[c].id /\ ChatMessageReceived(c, Received(c, m))
    BY <1>1, <2>1 DEF HandleChatText, DropsCopy, Received
  <2>3. ~Ignored(c, Received(c, m))
    BY <1>1, <2>2 DEF ChatMessageReceived
  <2>4. \E line : line.from = c /\ line.message = Received(c, m) /\ Show(<<line>>)
    <3> DEFINE r == Received(c, m)
               L(looking) == [from |-> c, message |-> r, name |-> DisplayedName(c, r.name),
                              highlighted |-> Matches(filters.watch, r.name, r.session),
                              notified |-> Notifies(r, looking)]
    <3>1. \E looking \in BOOLEAN : Show(<<L(looking)>>)
      BY <2>2, <2>3 DEF ChatMessageReceived
    <3>2. \A looking : L(looking).from = c /\ L(looking).message = r
      OBVIOUS
    <3>. HIDE DEF L
    <3>. QED
      BY <3>1, <3>2
  <2>. QED
    BY <2>1, <2>2, <2>3, <2>4 DEF ShowsHeard
<1>2. ASSUME NEW c \in Server,
             \/ ConnectToServer(c) \/ SessionConnected(c) \/ SessionDisconnected(c)
             \/ ServerReceives(c) \/ OtherNamed(c) \/ OtherLeaves(c) \/ OtherSpeaks(c)
      PROVE  shown' = <<>>
  BY <1>2 DEF ConnectToServer, SessionConnected, SessionDisconnected, ServerReceives, OtherNamed,
     OtherLeaves, OtherSpeaks, Quiet
<1>. QED
  BY <1>1, <1>2, InputDisplays DEF Next, Displays, ApplySettings, NewDay, Quiet, vars, user, time

LEMMA ShownLines ==
  ASSUME NEW lines, Show(lines), NEW i \in DOMAIN shown'
  PROVE  /\ i \in DOMAIN lines /\ shown'[i].line = lines[i] /\ lines # <<>>
         /\ \E opens \in BOOLEAN :
              /\ shown'[i].opens = opens
              /\ ~opens => logger.enabled /\ ~IsOpen(logger, today)
              /\ logger' = Log(logger, today, opens)
              /\ shown'[i].file = IF logger'.enabled THEN logger'.path ELSE NoFile
<1>1. PICK opens \in IF logger.enabled /\ ~IsOpen(logger, today) THEN BOOLEAN ELSE {TRUE} :
        LET after == IF lines = <<>> THEN logger ELSE Log(logger, today, opens) IN
        /\ logger' = after
        /\ shown' = [j \in DOMAIN lines |->
                       [line |-> lines[j], opens |-> opens,
                        file |-> IF after.enabled THEN after.path ELSE NoFile]]
  BY DEF Show
<1>2. i \in DOMAIN lines /\ shown'[i].line = lines[i] /\ shown'[i].opens = opens
  BY <1>1
<1>3. lines # <<>>
  BY <1>2
<1>4. logger' = Log(logger, today, opens) /\ opens \in BOOLEAN
      /\ (~opens => logger.enabled /\ ~IsOpen(logger, today))
  BY <1>1, <1>3
<1>5. shown'[i].file = IF logger'.enabled THEN logger'.path ELSE NoFile
  BY <1>1, <1>2
<1>. QED
  BY <1>2, <1>3, <1>4, <1>5

(* A line of ours is not shown again when a server relays it, once the     *)
(* connection knows its session ID: _HandleChatText drops the copy         *)
(* (ServerConnection.cpp:760).                                             *)
THEOREM OwnLinesShownOnce == Spec => []OwnLinesOnce
<1>1. Init => OwnLinesOnce
  BY DEF Init, OwnLinesOnce
<1>2. Base /\ OwnLinesOnce /\ [Next]_vars => OwnLinesOnce'
  <2>. SUFFICES ASSUME Base, OwnLinesOnce, [Next]_vars, NEW i \in DOMAIN shown',
                       shown'[i].line.from # "here", shown'[i].line.message.by = Us
                PROVE  shown'[i].line.message.session = NoId
    BY DEF OwnLinesOnce
  <2>1. Displays
    BY EverythingDisplays
  <2>2. CASE shown' = shown
    BY <2>2 DEF OwnLinesOnce
  <2>3. CASE ShowsOwn
    BY <2>3, ShownLines DEF ShowsOwn
  <2>4. ASSUME NEW c \in Server, ShowsHeard(c)
        PROVE  shown'[i].line.message.session = NoId
    <3>1. PICK line : line.message = Received(c, Head(down[c])) /\ Show(<<line>>)
      BY <2>4 DEF ShowsHeard
    <3>2. shown'[i].line = line
      BY <3>1, ShownLines, SeqOfOne
    <3>3. /\ Head(down[c]).what = "chat" /\ Head(down[c]).session # conns[c].id
          /\ down[c] # <<>> /\ down[c] \in Seq(Incoming) /\ Linked(c)
      BY <2>4 DEF ShowsHeard, Base, Typed
    <3>4. Head(down[c]).by = Us
      BY <3>1, <3>2 DEF Received
    <3>5. 1 \in DOMAIN down[c] /\ Head(down[c]) = down[c][1]
      BY <3>3
    <3>6. Head(down[c]).session = NoId
      BY <3>3, <3>4, <3>5 DEF Linked
    <3>. QED
      BY <3>1, <3>2, <3>6 DEF Received
  <2>. QED
    BY <2>1, <2>2, <2>3, <2>4 DEF Displays
<1>. QED
  BY <1>1, <1>2, AlwaysBase, PTL DEF Spec
-----------------------------------------------------------------------------
(* The log. *)

(* The file that is open is one of its folder and server, and logs are on. *)
OpenFile(l) ==
  /\ l = [enabled |-> l.enabled, directory |-> l.directory, server |-> l.server, path |-> l.path]
  /\ l.path # NoFile => l.enabled /\ l.directory # "" /\ l.path = PathOn(l, l.path[3])
LogOK == OpenFile(logger)

LEMMA SettersKeep ==
  ASSUME NEW l, OpenFile(l), NEW x
  PROVE  /\ OpenFile(SetLogDirectory(l, x)) /\ OpenFile(SetServerName(l, x))
         /\ x \in BOOLEAN => OpenFile(SetEnabled(l, x))
<1> DEFINE L(e, d, s, p) == [enabled |-> e, directory |-> d, server |-> s, path |-> p]
<1>1. l = L(l.enabled, l.directory, l.server, l.path)
  BY DEF OpenFile
<1>2. \A e, d, s : OpenFile(L(e, d, s, NoFile))
  BY DEF OpenFile
<1>3. SetLogDirectory(l, x) = l \/ SetLogDirectory(l, x) = L(l.enabled, x, l.server, NoFile)
  BY <1>1 DEF SetLogDirectory, CloseFile
<1>4. SetServerName(l, x) = l \/ SetServerName(l, x) = L(l.enabled, l.directory, x, NoFile)
  BY <1>1 DEF SetServerName, CloseFile
<1>5. /\ ~x => SetEnabled(l, x) = L(x, l.directory, l.server, NoFile)
      /\ x => SetEnabled(l, x) = L(x, l.directory, l.server, l.path)
  BY <1>1 DEF SetEnabled, CloseFile
<1>6. x = TRUE => OpenFile(L(x, l.directory, l.server, l.path))
  BY DEF OpenFile, PathOn
<1>. HIDE DEF L
<1>. QED
  BY <1>2, <1>3, <1>4, <1>5, <1>6

LEMMA LogKeeps ==
  ASSUME NEW l, OpenFile(l), NEW opens
  PROVE  LET a == Log(l, today, opens) IN
         /\ OpenFile(a) /\ a.enabled = l.enabled /\ a.directory = l.directory
         /\ a.path # NoFile /\ l.enabled => a.path = PathOn(a, today)
         /\ a.path = NoFile /\ l.enabled
              => ~IsOpen(l, today) /\ ~(opens /\ l.directory # "")
<1> DEFINE a == Log(l, today, opens)
           P == PathOn(l, today)
           L(p) == [enabled |-> l.enabled, directory |-> l.directory, server |-> l.server, path |-> p]
<1>1. l = L(l.path) /\ (l.path # NoFile => l.enabled /\ l.directory # ""
                                            /\ l.path = PathOn(l, l.path[3]))
  BY DEF OpenFile
<1>2. \A p : PathOn(L(p), today) = P /\ L(p).path = p /\ L(p).enabled = l.enabled
             /\ L(p).directory = l.directory
  BY DEF PathOn
<1>3. P # NoFile /\ P[3] = today
  BY DEF PathOn, NoFile
<1>4. CASE ~l.enabled
  BY <1>1, <1>4 DEF Log
<1>5. CASE l.enabled /\ IsOpen(l, today)
  <2>1. a = l /\ l.path = P
    BY <1>1, <1>5 DEF Log, EnsureFileOpen, IsOpen
  <2>. QED
    BY <1>3, <2>1
<1>6. CASE l.enabled /\ ~IsOpen(l, today) /\ opens /\ l.directory # ""
  <2>1. a = [l EXCEPT !.path = P]
    BY <1>6 DEF Log, EnsureFileOpen
  <2>2. a = L(P)
    BY <1>1, <2>1
  <2>3. OpenFile(L(P))
    BY <1>2, <1>3, <1>6 DEF OpenFile, PathOn
  <2>. QED
    BY <1>2, <1>3, <2>2, <2>3
<1>7. CASE l.enabled /\ ~IsOpen(l, today) /\ ~(opens /\ l.directory # "")
  <2>1. a = [l EXCEPT !.path = NoFile]
    BY <1>7 DEF Log, EnsureFileOpen, CloseFile
  <2>2. a = L(NoFile)
    BY <1>1, <2>1
  <2>3. OpenFile(L(NoFile))
    BY DEF OpenFile
  <2>. QED
    BY <1>2, <1>7, <2>2, <2>3
<1>. QED
  BY <1>4, <1>5, <1>6, <1>7

LEMMA LogStep == LogOK /\ [Next]_vars => LogOK'
<1>. SUFFICES ASSUME LogOK, [Next]_vars PROVE LogOK'
  OBVIOUS
<1>1. CASE logger' = logger
  BY <1>1 DEF LogOK, OpenFile, PathOn
<1>2. ASSUME NEW opens, logger' = Log(logger, today, opens) PROVE LogOK'
  <2>1. OpenFile(Log(logger, today, opens))
    BY LogKeeps DEF LogOK
  <2>. QED
    BY <1>2, <2>1 DEF LogOK, OpenFile, PathOn
<1>3. CASE ApplySettings
  <2>1. PICK d \in LogDir \cup {""}, c \in Server, enabled \in BOOLEAN :
          logger' = SetEnabled(SetServerName(SetLogDirectory(logger, d), c), enabled)
    BY <1>3 DEF ApplySettings
  <2>2. OpenFile(SetEnabled(SetServerName(SetLogDirectory(logger, d), c), enabled))
    BY SettersKeep DEF LogOK
  <2>. QED
    BY <2>1, <2>2 DEF LogOK, OpenFile, PathOn
<1>4. ASSUME NEW lines, Show(lines) PROVE LogOK'
  <2>1. \E opens : logger' = IF lines = <<>> THEN logger ELSE Log(logger, today, opens)
    BY <1>4 DEF Show
  <2>. QED
    BY <1>1, <1>2, <2>1
<1>5. CASE HandleUserInput
  <2>1. logger' = logger \/ \E lines : Show(lines)
    BY <1>5 DEF HandleUserInput, SendChatToEveryone, SendPrivateMessage, PingUser,
       HandleFilterCommand, HandleAliasCommand, Disconnect
  <2>. QED
    BY <1>1, <1>4, <2>1
<1>6. ASSUME NEW c \in Server, MessageReceived(c) PROVE LogOK'
  <2>1. logger' = logger \/ \E lines : Show(lines)
    BY <1>6 DEF MessageReceived, HandleChatText, ChatMessageReceived
  <2>. QED
    BY <1>1, <1>4, <2>1
<1>7. ASSUME NEW c \in Server,
             \/ ConnectToServer(c) \/ SessionConnected(c) \/ SessionDisconnected(c)
             \/ ServerReceives(c) \/ OtherNamed(c) \/ OtherLeaves(c) \/ OtherSpeaks(c)
      PROVE  logger' = logger
  BY <1>7 DEF ConnectToServer, SessionConnected, SessionDisconnected, ServerReceives, OtherNamed,
     OtherLeaves, OtherSpeaks
<1>. QED
  BY <1>1, <1>3, <1>5, <1>6, <1>7 DEF Next, NewDay, vars

LEMMA LogInit == Init => LogOK
<1>. SUFFICES ASSUME Init PROVE LogOK
  OBVIOUS
<1>1. PICK d \in LogDir :
        logger = SetEnabled(SetServerName(SetLogDirectory(NewLogger, d), Primary), TRUE)
  BY DEF Init
<1>2. OpenFile(NewLogger)
  BY DEF OpenFile, NewLogger
<1>3. OpenFile(SetEnabled(SetServerName(SetLogDirectory(NewLogger, d), Primary), TRUE))
  BY <1>2, SettersKeep
<1>. QED
  BY <1>1, <1>3 DEF LogOK

(* A line that is shown is in the file of this day, in the folder and      *)
(* under the server name that are set, unless logs are off or no file can  *)
(* be opened: the setters close the file that no longer fits, and          *)
(* _EnsureFileOpen that of another day (ChatLogger.cpp:128).               *)
THEOREM LogStaysFaithful == Spec => []LogIsFaithful
<1>1. Init => LogIsFaithful
  <2>1. Init => DOMAIN shown = {}
    BY DEF Init
  <2>. QED
    BY <2>1 DEF LogIsFaithful
<1>2. LogOK /\ LogIsFaithful /\ [Next]_vars => LogIsFaithful'
  <2>. SUFFICES ASSUME LogOK, LogIsFaithful, [Next]_vars, NEW i \in DOMAIN shown'
                PROVE  \/ logger'.enabled /\ shown'[i].file = PathOn(logger', today')
                       \/ /\ shown'[i].file = NoFile
                          /\ ~(logger'.enabled /\ logger'.directory # "" /\ shown'[i].opens)
    BY DEF LogIsFaithful, PathOn
  <2>1. Displays
    BY EverythingDisplays
  <2>2. CASE UNCHANGED <<shown, filters, logger, today>>
    BY <2>2 DEF LogIsFaithful, PathOn
  <2>3. CASE today' = today /\ (ShowsOwn \/ \E c \in Server : ShowsHeard(c))
    <3>1. PICK lines : Show(lines)
      BY <2>3 DEF ShowsOwn, ShowsHeard
    <3>2. PICK opens \in BOOLEAN :
            /\ shown'[i].opens = opens
            /\ logger' = Log(logger, today, opens)
            /\ shown'[i].file = IF logger'.enabled THEN logger'.path ELSE NoFile
      BY <3>1, ShownLines
    <3>3. /\ logger'.enabled = logger.enabled /\ logger'.directory = logger.directory
          /\ logger'.path # NoFile /\ logger.enabled => logger'.path = PathOn(logger', today)
          /\ logger'.path = NoFile /\ logger.enabled => ~(opens /\ logger.directory # "")
      BY <3>2, LogKeeps DEF LogOK
    <3>. QED
      BY <2>3, <3>2, <3>3
  <2>4. shown' # <<>>
    OBVIOUS
  <2>. QED
    BY <2>1, <2>2, <2>3, <2>4 DEF Displays
<1>. QED
  BY <1>1, <1>2, LogInit, LogStep, PTL DEF Spec
-----------------------------------------------------------------------------
(* Whispers. *)

(* The name that a connection knows of a session, or will know once it has *)
(* handled what is under way, is one that the session had.                 *)
Had(c) ==
  /\ \A s \in DOMAIN conns[c].users : conns[c].users[s] \in ever[c][s]
  /\ \A i \in DOMAIN down[c] : down[c][i].what = "names" =>
       \A s \in DOMAIN down[c][i].names : down[c][i].names[s] \in ever[c][s]

(* A line that goes up is for everyone or for a session that was meant.    *)
Meant(typed, s, names) ==
  typed = s \/ \E n \in names : n = typed \/ (typed \in Wildcards /\ <<typed, n>> \in Matching)
Addressed(c) ==
  \A i \in DOMAIN up[c] : LET m == up[c][i] IN
    m.what = "chat" /\ m.to \in Session => Meant(m.typed, m.to, ever[c][m.to])

LEMMA EverGrows ==
  ASSUME NEW c \in Server, Held(c), Joins(c) \/ Reports(c) \/ Stays(c) \/ Types(c) \/ Takes(c) \/ Hears(c)
  PROVE  /\ ever[c] \in [Session -> SUBSET Names]
         /\ \A s \in Session : ever[c][s] \subseteq ever'[c][s]
<1>1. ever[c] \in [Session -> SUBSET Names] /\ DOMAIN there[c] \subseteq Session
  BY UsersType DEF Held
<1>2. CASE ever'[c] = ever[c]
  BY <1>1, <1>2
<1>3. ASSUME NEW s \in Unused(c), ever'[c] = [ever[c] EXCEPT ![s] = {Us}]
      PROVE  \A t \in Session : ever[c][t] \subseteq ever'[c][t]
  BY <1>1, <1>3 DEF Unused
<1>4. ASSUME NEW s \in DOMAIN there[c] \cup Unused(c), NEW n,
             ever'[c] = [ever[c] EXCEPT ![s] = @ \cup {n}]
      PROVE  \A t \in Session : ever[c][t] \subseteq ever'[c][t]
  BY <1>1, <1>4 DEF Unused
<1>. QED
  BY <1>1, <1>2, <1>3, <1>4 DEF Joins, Reports, Stays, Types, Takes, Hears

(* The names of f are among those in e.                                     *)
Within(f, e) == \A t \in DOMAIN f : f[t] \in e[t]

LEMMA WithinChange ==
  ASSUME NEW f \in Users, NEW s \in Session, NEW n \in Names, NEW e, Within(f, e), n \in e[s]
  PROVE  With(f, s, n) \in Users /\ Within(With(f, s, n), e)
<1> DEFINE w == With(f, s, n)
<1>1. w \in Users /\ DOMAIN w = DOMAIN f \cup {s} /\ \A t \in DOMAIN w : w[t] = IF t = s THEN n ELSE f[t]
  BY UsersChange
<1>. HIDE DEF w
<1>2. Within(w, e)
  BY <1>1 DEF Within
<1>. QED
  BY <1>1, <1>2 DEF w

LEMMA WithinMerged ==
  ASSUME NEW f \in Users, NEW g \in Users, NEW own, NEW e, Within(f, e), Within(g, e)
  PROVE  Within(Merged(f, g, own), e)
<1> DEFINE h == Without(g, own)
           w == Merged(f, g, own)
<1>1. DOMAIN h \subseteq DOMAIN g /\ \A t \in DOMAIN h : h[t] = g[t]
  BY DEF Without
<1>2. w = [t \in DOMAIN f \cup DOMAIN h |-> IF t \in DOMAIN h THEN h[t] ELSE f[t]]
  BY DEF Merged
<1>. HIDE DEF h, w
<1>3. Within(w, e)
  BY <1>1, <1>2 DEF Within
<1>. QED
  BY <1>3 DEF w

LEMMA HadStep ==
  ASSUME NEW c \in Server, Held(c), Held(c)', Linked(c), Linked(c)', Had(c), Moves(c) PROVE Had(c)'
<1>1. /\ conns[c] \in Connection /\ conns[c].users \in Users /\ DOMAIN conns[c].users \subseteq Session
      /\ down[c] \in Seq(Incoming) /\ there[c] \in Users /\ DOMAIN there[c] \subseteq Session
      /\ conns'[c].users \in Users /\ DOMAIN conns'[c].users \subseteq Session
  <2>1. /\ conns[c] \in Connection /\ down[c] \in Seq(Incoming) /\ there[c] \in Users
        /\ conns'[c] \in Connection
    BY DEF Held
  <2>2. conns[c].users \in Users /\ conns'[c].users \in Users
    BY <2>1 DEF Connection
  <2>. QED
    BY <2>1, <2>2, UsersType
<1>2. CASE Loses(c)
  <2>1. down'[c] = <<>> /\ conns'[c].users = NoUsers
    BY <1>2, OffIsConnection DEF Loses
  <2>. QED
    BY <2>1 DEF Had, NoUsers
<1>3. ASSUME \A s \in Session : ever[c][s] \subseteq ever'[c][s], conns'[c].users = conns[c].users,
             \/ down'[c] = down[c]
             \/ \E r \in Incoming :
                  /\ down'[c] = down[c] \o <<r>>
                  /\ r.what = "names" => \A s \in DOMAIN r.names : r.names[s] \in ever'[c][s]
      PROVE  Had(c)'
  <2>1. \A s \in DOMAIN conns'[c].users : conns'[c].users[s] \in ever'[c][s]
    BY <1>1, <1>3 DEF Had
  <2>2. \A i \in DOMAIN down[c] : down[c][i].what = "names" =>
          \A s \in DOMAIN down[c][i].names : down[c][i].names[s] \in ever'[c][s]
    <3>. SUFFICES ASSUME NEW i \in DOMAIN down[c], down[c][i].what = "names",
                         NEW s \in DOMAIN down[c][i].names
                  PROVE  down[c][i].names[s] \in ever'[c][s]
      OBVIOUS
    <3>1. down[c][i] \in Incoming
      BY <1>1
    <3>2. s \in Session
      BY <3>1, MessageKinds, UsersType
    <3>. QED
      BY <1>3, <3>2 DEF Had
  <2>3. CASE down'[c] = down[c]
    BY <2>1, <2>2, <2>3 DEF Had
  <2>4. ASSUME NEW r \in Incoming, down'[c] = down[c] \o <<r>>,
               r.what = "names" => \A s \in DOMAIN r.names : r.names[s] \in ever'[c][s]
        PROVE  Had(c)'
    <3> DEFINE q == down[c] \o <<r>>
    <3>1. \A i \in DOMAIN q : q[i] = r \/ (i \in DOMAIN down[c] /\ q[i] = down[c][i])
      BY <1>1, OneMore
    <3>2. down'[c] = q
      BY <2>4
    <3>. HIDE DEF q
    <3>. QED
      BY <2>1, <2>2, <2>4, <3>1, <3>2 DEF Had
  <2>. QED
    BY <1>3, <2>3, <2>4
<1>4. CASE Joins(c)
  BY <1>1, <1>3, <1>4, EverGrows DEF Joins, Connection
<1>5. CASE Stays(c) \/ Types(c)
  BY <1>3, <1>5, EverGrows DEF Stays, Types
<1>6. CASE Takes(c)
  <2>1. /\ link[c].id \in Session /\ Us \in ever[c][link[c].id] /\ Us \in Names
        /\ \A s \in DOMAIN there[c] : there[c][s] \in ever[c][s]
    BY <1>6, NamesApart DEF Takes, Linked
  <2>2. \/ down'[c] = down[c]
        \/ \E r \in Incoming :
             /\ down'[c] = down[c] \o <<r>>
             /\ r.what = "names" => \A s \in DOMAIN r.names : r.names[s] \in ever'[c][s]
    <3>1. CASE down'[c] = down[c] \o <<Named(With(there[c], link[c].id, Us))>>
      <4> DEFINE w == With(there[c], link[c].id, Us)
      <4>1. w \in Users /\ Within(w, ever[c])
        <5>1. there[c] \in Users /\ Within(there[c], ever[c])
          BY <1>1, <2>1 DEF Within
        <5>. QED
          BY <2>1, <5>1, WithinChange
      <4>. HIDE DEF w
      <4>2. Named(w) \in Incoming /\ Named(w).what = "names" /\ Named(w).names = w
        BY <4>1, MessageKinds DEF Named
      <4>3. down'[c] = down[c] \o <<Named(w)>> /\ ever'[c] = ever[c]
        BY <1>6, <3>1 DEF w, Takes
      <4>. QED
        BY <4>1, <4>2, <4>3 DEF Within
    <3>2. CASE down'[c] = down[c] \o <<[what |-> "parameters", session |-> link[c].id]>>
      BY <2>1, <3>2, MessageKinds
    <3>3. CASE Head(up[c]).what = "chat" /\ down'[c] = down[c] \o <<FromUs(Head(up[c]))>>
      <4>1. Head(up[c]).session \in Session \cup {NoId}
        <5>1. Head(up[c]) = up[c][1] /\ 1 \in DOMAIN up[c]
          BY <1>6, SeqTail DEF Takes, Held
        <5>. QED
          BY <1>1, <3>3, <5>1 DEF Linked, Connection
      <4>2. FromUs(Head(up[c])) \in Incoming /\ FromUs(Head(up[c])).what = "chat"
        BY <2>1, <4>1 DEF FromUs, Incoming
      <4>. QED
        BY <3>3, <4>2
    <3>4. CASE Head(up[c]).to \in DOMAIN there[c]
               /\ down'[c] = down[c] \o <<[what |-> "pong", session |-> Head(up[c]).to]>>
      BY <1>1, <3>4, MessageKinds
    <3>. QED
      BY <1>6, <3>1, <3>2, <3>3, <3>4 DEF Takes
  <2>. QED
    BY <1>3, <1>6, <2>2, EverGrows DEF Takes
<1>7. CASE Reports(c)
  <2>1. \/ down'[c] = down[c]
        \/ \E r \in Incoming :
             /\ down'[c] = down[c] \o <<r>>
             /\ r.what = "names" => \A s \in DOMAIN r.names : r.names[s] \in ever'[c][s]
    <3>1. ASSUME NEW s \in DOMAIN there[c] \cup Unused(c), NEW n \in Person,
                 ever'[c] = [ever[c] EXCEPT ![s] = @ \cup {n}], Told(c, Named([t \in {s} |-> n]))
          PROVE  <2>1!:
      <4> DEFINE w == [t \in {s} |-> n]
      <4>1. s \in Session /\ n \in Names
        BY <1>1, NamesApart DEF Unused
      <4>2. w \in Users /\ \A t \in DOMAIN w : t = s /\ w[t] = n
        BY <4>1, OneUser
      <4>3. n \in ever'[c][s]
        BY <3>1, <4>1 DEF Held
      <4>. HIDE DEF w
      <4>4. Named(w) \in Incoming /\ Named(w).what = "names" /\ Named(w).names = w
        BY <4>2, MessageKinds DEF Named
      <4>5. Told(c, Named(w))
        BY <3>1 DEF w
      <4>. QED
        BY <4>2, <4>3, <4>4, <4>5 DEF Told
    <3>2. ASSUME NEW s \in DOMAIN there[c], Told(c, [what |-> "removed", session |-> s])
          PROVE  <2>1!:
      BY <1>1, <3>2, MessageKinds DEF Told
    <3>3. ASSUME NEW s \in DOMAIN there[c], NEW private \in BOOLEAN,
                 down'[c] = down[c] \o <<Chat(s, private, there[c][s], link[c].subscribed)>>
          PROVE  <2>1!:
      <4> DEFINE r == Chat(s, private, there[c][s], link[c].subscribed)
      <4>1. r \in Incoming /\ r.what = "chat"
        <5>1. s \in Session /\ there[c][s] \in Names /\ link[c].subscribed \in BOOLEAN
          BY <1>1, NamesApart DEF Held, Link
        <5>. QED
          BY <5>1, MessageKinds DEF Chat
      <4>2. down'[c] = down[c] \o <<r>>
        BY <3>3
      <4>. HIDE DEF r
      <4>. QED
        BY <4>1, <4>2
    <3>4. ASSUME NEW s \in DOMAIN there[c], down'[c] = down[c] \o <<[what |-> "ping", session |-> s]>>
          PROVE  <2>1!:
      BY <1>1, <3>4, MessageKinds
    <3>. QED
      BY <1>7, <3>1, <3>2, <3>3, <3>4 DEF Reports
  <2>. QED
    BY <1>3, <1>7, <2>1, EverGrows DEF Reports
<1>8. CASE Hears(c)
  <2> DEFINE m == Head(down[c])
  <2>1. /\ down[c] # <<>> /\ ever'[c] = ever[c] /\ down'[c] = Tail(down[c])
    BY <1>8 DEF Hears
  <2>2. /\ m \in Incoming /\ m = down[c][1] /\ 1 \in DOMAIN down[c]
        /\ \A i \in DOMAIN down'[c] : i + 1 \in DOMAIN down[c] /\ down'[c][i] = down[c][i + 1]
    BY <1>1, <2>1, OneLess
  <2>3. \A s \in DOMAIN conns'[c].users : conns'[c].users[s] \in ever[c][s]
    <3>1. CASE conns'[c].users = conns[c].users
      BY <3>1 DEF Had
    <3>2. CASE m.what = "names" /\ conns'[c].users = Merged(conns[c].users, m.names, conns[c].id)
      <4>1. m.names \in Users /\ \A s \in DOMAIN m.names : m.names[s] \in ever[c][s]
        BY <2>2, <3>2, MessageKinds DEF Had
      <4>. HIDE DEF m
      <4> DEFINE w == Merged(conns[c].users, m.names, conns[c].id)
      <4>2. Within(w, ever[c])
        <5>1. Within(conns[c].users, ever[c]) /\ Within(m.names, ever[c])
          BY <4>1 DEF Had, Within
        <5>. QED
          BY <1>1, <4>1, <5>1, WithinMerged
      <4>3. conns'[c].users = w
        BY <3>2
      <4>. HIDE DEF w
      <4>. QED
        BY <4>2, <4>3 DEF Within
    <3>3. CASE conns'[c].users = Forgotten(conns[c].users, m.session)
      <4>1. /\ DOMAIN Forgotten(conns[c].users, m.session) \subseteq DOMAIN conns[c].users
            /\ \A t \in DOMAIN Forgotten(conns[c].users, m.session) :
                 Forgotten(conns[c].users, m.session)[t] = conns[c].users[t]
        BY DEF Forgotten, Without
      <4>. QED
        BY <3>3, <4>1 DEF Had
    <3>. QED
      BY <1>1, <1>8, <3>1, <3>2, <3>3 DEF Hears, Connection
  <2>. HIDE DEF m
  <2>. QED
    BY <2>1, <2>2, <2>3 DEF Had
<1>. QED
  BY <1>2, <1>4, <1>5, <1>6, <1>7, <1>8 DEF Moves

LEMMA ResolvedMeans ==
  ASSUME NEW users, NEW typed, NEW s \in ResolveToSessionIds(users, typed), NEW e,
         Within(users, e)
  PROVE  Meant(typed, s, e[s])
<1>1. CASE typed \in DOMAIN users
  BY <1>1 DEF ResolveToSessionIds, Meant
<1>2. CASE typed \notin DOMAIN users
  <2>1. /\ s \in DOMAIN users
        /\ users[s] = typed \/ (typed \in Wildcards /\ <<typed, users[s]>> \in Matching)
    BY <1>2 DEF ResolveToSessionIds
  <2>2. users[s] \in e[s]
    BY <2>1 DEF Within
  <2>. QED
    BY <2>1, <2>2 DEF Meant
<1>. QED
  BY <1>1, <1>2

LEMMA AddressedStep ==
  ASSUME NEW c \in Server, Held(c), Linked(c), Had(c), Addressed(c), Moves(c) PROVE Addressed(c)'
<1>1. \A typed, s, e, f : Meant(typed, s, e) /\ e \subseteq f => Meant(typed, s, f)
  BY DEF Meant
<1>2. CASE Loses(c)
  BY <1>2 DEF Loses, Addressed
<1>3. ASSUME \A s \in Session : ever[c][s] \subseteq ever'[c][s],
             \A i \in DOMAIN up'[c] :
               \/ \E j \in DOMAIN up[c] : up'[c][i] = up[c][j]
               \/ up'[c][i].what # "chat"
               \/ /\ up'[c][i].to \in Session
                  => Meant(up'[c][i].typed, up'[c][i].to, ever[c][up'[c][i].to])
      PROVE  Addressed(c)'
  BY <1>1, <1>3 DEF Addressed
<1>4. CASE Stays(c) \/ Reports(c)
  <2>1. up'[c] = up[c]
    BY <1>4 DEF Stays, Reports
  <2>. QED
    BY <1>3, <1>4, <2>1, EverGrows
<1>5. CASE Takes(c)
  <2>1. \A i \in DOMAIN up'[c] : i + 1 \in DOMAIN up[c] /\ up'[c][i] = up[c][i + 1]
    BY <1>5, SeqTail DEF Takes, Held
  <2>. QED
    BY <1>3, <1>5, <2>1, EverGrows
<1>6. ASSUME NEW q, IsSeq(q), up'[c] = up[c] \o q, Joins(c) \/ Types(c) \/ Hears(c),
             \A i \in DOMAIN q : q[i].what = "chat" /\ q[i].to \in Session
                                   => Meant(q[i].typed, q[i].to, ever[c][q[i].to])
      PROVE  Addressed(c)'
  <2>1. \A i \in DOMAIN up'[c] :
          \/ i \in DOMAIN up[c] /\ up'[c][i] = up[c][i]
          \/ \E j \in DOMAIN q : up'[c][i] = q[j]
    BY <1>6, SeqJoined DEF Held
  <2>. QED
    BY <1>3, <1>6, <2>1, EverGrows
<1>7. CASE Joins(c)
  <2> DEFINE q == <<[what |-> "name"], [what |-> "subscribe"], [what |-> "getparameters"]>>
  <2>1. q = [i \in 1..3 |-> q[i]] /\ DOMAIN q = 1..3 /\ \A i \in 1..3 : q[i].what # "chat"
    OBVIOUS
  <2>2. up'[c] = up[c] \o q
    BY <1>7 DEF Joins
  <2>. HIDE DEF q
  <2>3. IsSeq(q)
    BY <2>1, SeqOfSome
  <2>. QED
    BY <1>6, <1>7, <2>1, <2>2, <2>3
<1>8. CASE Types(c)
  <2>1. PICK q : IsSeq(q) /\ (\A i \in DOMAIN q : Typing(c, q[i])) /\ up'[c] = up[c] \o q
    BY <1>8 DEF Types
  <2>2. \A i \in DOMAIN q : q[i].what = "chat" /\ q[i].to \in Session
                              => Meant(q[i].typed, q[i].to, ever[c][q[i].to])
    BY <2>1, ResolvedMeans, NamesApart DEF Typing, Had, Within
  <2>. QED
    BY <1>6, <1>8, <2>1, <2>2
<1>9. CASE Hears(c)
  <2>1. CASE up'[c] = up[c]
    BY <1>3, <1>9, <2>1, EverGrows
  <2>2. CASE up'[c] = up[c] \o <<[what |-> "pong", to |-> Head(down[c]).session,
                                  session |-> conns[c].id]>>
    <3> DEFINE r == [what |-> "pong", to |-> Head(down[c]).session, session |-> conns[c].id]
    <3>1. IsSeq(<<r>>) /\ DOMAIN <<r>> = {1} /\ <<r>>[1] = r /\ r.what # "chat"
      BY SeqOfOne
    <3>2. up'[c] = up[c] \o <<r>>
      BY <2>2
    <3>. HIDE DEF r
    <3>. QED
      BY <1>6, <1>9, <3>1, <3>2
  <2>. QED
    BY <1>9, <2>1, <2>2 DEF Hears
<1>. QED
  BY <1>2, <1>4, <1>5, <1>7, <1>8, <1>9 DEF Moves

(* What a step brings to a client was sent to a session that it names.     *)
LEMMA HeardStep ==
  ASSUME [Next]_vars
  PROVE  \/ heard' = {} \/ (heard' = heard /\ ever' = ever)
         \/ \E c \in Server :
              /\ up[c] # <<>> /\ Head(up[c]).what = "chat" /\ Head(up[c]).to \in DOMAIN there[c]
              /\ ever' = ever
              /\ heard' = {[server |-> c, session |-> Head(up[c]).to, typed |-> Head(up[c]).typed]}
<1>1. CASE HandleUserInput \/ ApplySettings \/ NewDay
  BY <1>1 DEF HandleUserInput, ApplySettings, NewDay, Quiet
<1>2. CASE UNCHANGED vars
  BY <1>2 DEF vars, server
<1>3. ASSUME NEW c \in Server,
             \/ ConnectToServer(c) \/ SessionConnected(c) \/ SessionDisconnected(c)
             \/ OtherNamed(c) \/ OtherLeaves(c) \/ OtherSpeaks(c) \/ MessageReceived(c)
      PROVE  heard' = {}
  BY <1>3 DEF ConnectToServer, SessionConnected, SessionDisconnected, OtherNamed, OtherLeaves,
     OtherSpeaks, MessageReceived, Quiet
<1>4. ASSUME NEW c \in Server, ServerReceives(c), heard' # {}
      PROVE  /\ up[c] # <<>> /\ Head(up[c]).what = "chat" /\ Head(up[c]).to \in DOMAIN there[c]
             /\ ever' = ever
             /\ heard' = {[server |-> c, session |-> Head(up[c]).to, typed |-> Head(up[c]).typed]}
  BY <1>4 DEF ServerReceives, server
<1>. QED
  BY <1>1, <1>2, <1>3, <1>4 DEF Next

HadAll == \A c \in Server : Had(c) /\ Addressed(c)

LEMMA HadAllInit == Init => HadAll
<1>. SUFFICES ASSUME Init, NEW c \in Server PROVE Had(c) /\ Addressed(c)
  BY DEF HadAll
<1>1. up[c] = <<>> /\ down[c] = <<>> /\ conns[c].users = NoUsers
  BY OffIsConnection DEF Init
<1>. QED
  BY <1>1 DEF Had, Addressed, NoUsers

LEMMA HadAllStep == Base /\ Base' /\ HadAll /\ [Next]_vars => HadAll'
<1>. SUFFICES ASSUME Base, Base', HadAll, [Next]_vars, NEW c \in Server
              PROVE  Had(c)' /\ Addressed(c)'
  BY DEF HadAll
<1>1. Held(c) /\ Held(c)' /\ Linked(c) /\ Linked(c)' /\ Had(c) /\ Addressed(c)
  BY DEF Base, HadAll, Typed, Held
<1>2. Moves(c)
  BY EverythingMoves DEF Base, OffKnowsNobody, Linked
<1>. QED
  BY <1>1, <1>2, HadStep, AddressedStep

(* A whisper carries the session that was resolved when it was typed: the  *)
(* ID itself, or one whose name the registry had, and every name there was *)
(* heard from the server (ConnectionManager.cpp:298, UserRegistry.cpp:85). *)
(* A connection that ends takes both its registry and what is under way    *)
(* with it, so nothing reaches who has the same ID afterwards.             *)
THEOREM WhispersAreAddressed == Spec => []WhispersReachTheNamed
<1>1. Init => WhispersReachTheNamed
  BY DEF Init, WhispersReachTheNamed
<1>2. Base /\ HadAll /\ WhispersReachTheNamed /\ [Next]_vars => WhispersReachTheNamed'
  <2>. SUFFICES ASSUME Base, HadAll, WhispersReachTheNamed, [Next]_vars
                PROVE  WhispersReachTheNamed'
    OBVIOUS
  <2>1. CASE heard' = {} \/ (heard' = heard /\ ever' = ever)
    BY <2>1 DEF WhispersReachTheNamed
  <2>2. ASSUME NEW c \in Server, up[c] # <<>>, Head(up[c]).what = "chat",
               Head(up[c]).to \in DOMAIN there[c], ever' = ever,
               heard' = {[server |-> c, session |-> Head(up[c]).to, typed |-> Head(up[c]).typed]}
        PROVE  WhispersReachTheNamed'
    <3>1. Head(up[c]) = up[c][1] /\ 1 \in DOMAIN up[c]
      BY <2>2, HeldTyped, SeqTail DEF Base, Held
    <3>2. Head(up[c]).to \in Session
      BY <2>2, HeldTyped, UsersType DEF Base, Held
    <3>3. Meant(Head(up[c]).typed, Head(up[c]).to, ever[c][Head(up[c]).to])
      BY <2>2, <3>1, <3>2 DEF HadAll, Addressed
    <3>. QED
      BY <2>2, <3>3 DEF WhispersReachTheNamed, Meant
  <2>. QED
    BY <2>1, <2>2, HeardStep
<1>. QED
  BY <1>1, <1>2, AlwaysBase, HadAllInit, HadAllStep, PTL DEF Spec
-----------------------------------------------------------------------------
(* Names. *)

(* What a message says of the name of a session.                           *)
NoName == ""
Speaks(m, s) ==
  \/ m.what = "names" /\ s \in DOMAIN m.names
  \/ m.what = "removed" /\ m.session = s
Says(m, s) == IF m.what = "names" THEN m.names[s] ELSE NoName
NameIn(users, s) == IF s \in DOMAIN users THEN users[s] ELSE NoName

(* The name that a registry has of a session once the messages before      *)
(* position i have been handled: what the last of them says that speaks of *)
(* it, and what it has now if none does.                                   *)
Known(users, q, i, s, v) ==
  \/ \E j \in 1..(i - 1) :
       Speaks(q[j], s) /\ Says(q[j], s) = v /\ \A k \in (j + 1)..(i - 1) : ~Speaks(q[k], s)
  \/ (\A k \in 1..(i - 1) : ~Speaks(q[k], s)) /\ NameIn(users, s) = v

LEMMA KnownNow ==
  ASSUME NEW users, NEW q, NEW s, NEW v PROVE Known(users, q, 1, s, v) <=> NameIn(users, s) = v
BY DEF Known

LEMMA KnownStill ==
  ASSUME NEW users, NEW q \in Seq(Incoming), NEW m \in Incoming, NEW s, NEW v,
         NEW i \in 1..(Len(q) + 1), Known(users, q, i, s, v)
  PROVE  Known(users, q \o <<m>>, i, s, v)
<1> DEFINE r == q \o <<m>>
<1>1. Len(q) \in Nat /\ \A j \in 1..Len(q) : r[j] = q[j]
  BY OneMore
<1>. HIDE DEF r
<1>2. \A j \in 1..(i - 1) : r[j] = q[j]
  BY <1>1
<1>3. \A j \in 1..(i - 1) : \A k \in (j + 1)..(i - 1) : k \in 1..(i - 1)
  BY <1>1
<1>4. Known(users, r, i, s, v)
  BY <1>2, <1>3 DEF Known
<1>. QED
  BY <1>4 DEF r

LEMMA KnownMore ==
  ASSUME NEW users, NEW q \in Seq(Incoming), NEW m \in Incoming, NEW s, NEW v,
         IF Speaks(m, s) THEN Says(m, s) = v ELSE Known(users, q, Len(q) + 1, s, v)
  PROVE  Known(users, q \o <<m>>, Len(q) + 2, s, v)
<1> DEFINE r == q \o <<m>>
           n == Len(q)
<1>1. n \in Nat /\ (\A j \in 1..n : r[j] = q[j]) /\ r[n + 1] = m
  BY OneMore
<1>. HIDE DEF r
<1>2. ASSUME NEW j \in 1..(n + 1), Speaks(r[j], s), Says(r[j], s) = v,
             \A k \in (j + 1)..(n + 1) : ~Speaks(r[k], s)
      PROVE  Known(users, r, n + 2, s, v)
  <2>. PICK i : i = n + 2
    OBVIOUS
  <2>1. i - 1 = n + 1
    BY <1>1
  <2>2. Known(users, r, i, s, v)
    BY <1>2, <2>1 DEF Known
  <2>. QED
    BY <2>2
<1>3. CASE Speaks(m, s)
  <2>1. n + 1 \in 1..(n + 1) /\ \A k \in (n + 1 + 1)..(n + 1) : ~Speaks(r[k], s)
    BY <1>1
  <2>. HIDE DEF n
  <2>2. Known(users, r, n + 2, s, v)
    BY <1>1, <1>3, <1>2, <2>1
  <2>. QED
    BY <2>2 DEF r, n
<1>4. CASE ~Speaks(m, s)
  <2>. HIDE DEF n
  <2>1. Known(users, q, n + 1, s, v)
    BY <1>4 DEF n
  <2>2. n + 1 - 1 = n /\ n + 2 - 1 = n + 1
    BY <1>1
  <2>3. CASE (\A k \in 1..n : ~Speaks(q[k], s)) /\ NameIn(users, s) = v
    <3>1. \A k \in 1..(n + 1) : ~Speaks(r[k], s)
      <4>1. \A k \in 1..(n + 1) : k \in 1..n \/ k = n + 1
        BY <1>1
      <4>. QED
        BY <1>1, <1>4, <2>3, <4>1
    <3>. QED
      BY <2>2, <2>3, <3>1 DEF Known, r, n
  <2>4. ASSUME NEW j \in 1..n, Speaks(q[j], s), Says(q[j], s) = v,
               \A k \in (j + 1)..n : ~Speaks(q[k], s)
        PROVE  Known(users, r, n + 2, s, v)
    <3>1. \A k \in (j + 1)..(n + 1) : ~Speaks(r[k], s)
      <4>1. \A k \in (j + 1)..(n + 1) : (k \in (j + 1)..n /\ k \in 1..n) \/ k = n + 1
        BY <1>1
      <4>. QED
        BY <1>1, <1>4, <2>4, <4>1
    <3>2. j \in 1..(n + 1) /\ Speaks(r[j], s) /\ Says(r[j], s) = v
      BY <1>1, <2>4
    <3>. QED
      BY <1>2, <3>1, <3>2
  <2>5. Known(users, r, n + 2, s, v)
    BY <2>1, <2>2, <2>3, <2>4 DEF Known, r, n
  <2>. QED
    BY <2>5 DEF r, n
<1>. QED
  BY <1>3, <1>4

LEMMA KnownHead ==
  ASSUME NEW users, NEW after, NEW q \in Seq(Incoming), q # <<>>, NEW s, NEW v,
         NEW i \in 1..Len(q), Known(users, q, i + 1, s, v),
         NameIn(after, s) = IF Speaks(q[1], s) THEN Says(q[1], s) ELSE NameIn(users, s)
  PROVE  Known(after, Tail(q), i, s, v)
<1> DEFINE r == Tail(q)
<1>1. Len(q) \in Nat /\ \A j \in 1..(Len(q) - 1) : r[j] = q[j + 1]
  BY OneLess
<1>. HIDE DEF r
<1>2. i + 1 - 1 = i /\ \A k \in 1..(i - 1) : k + 1 \in 2..i /\ r[k] = q[k + 1]
  BY <1>1
<1>3. CASE (\A k \in 1..i : ~Speaks(q[k], s)) /\ NameIn(users, s) = v
  <2>1. \A k \in 1..(i - 1) : ~Speaks(r[k], s)
    BY <1>1, <1>2, <1>3
  <2>2. ~Speaks(q[1], s)
    BY <1>1, <1>3
  <2>. QED
    BY <1>3, <2>1, <2>2 DEF Known, r
<1>4. ASSUME NEW j \in 1..i, Speaks(q[j], s), Says(q[j], s) = v,
             \A k \in (j + 1)..i : ~Speaks(q[k], s)
      PROVE  Known(after, r, i, s, v)
  <2>1. CASE j = 1
    <3>1. \A k \in 1..(i - 1) : ~Speaks(r[k], s)
      <4>1. \A k \in 1..(i - 1) : k + 1 \in (j + 1)..i
        BY <1>1, <2>1
      <4>. QED
        BY <1>2, <1>4, <4>1
    <3>. QED
      BY <1>4, <2>1, <3>1 DEF Known
  <2>2. CASE j # 1
    <3>. PICK h : h = j - 1
      OBVIOUS
    <3>1. h \in 1..(i - 1) /\ r[h] = q[j]
      BY <1>1, <2>2
    <3>2. \A k \in (h + 1)..(i - 1) : ~Speaks(r[k], s)
      <4>1. \A k \in (h + 1)..(i - 1) : k \in 1..(i - 1) /\ k + 1 \in (j + 1)..i
        BY <1>1, <2>2
      <4>. QED
        BY <1>2, <1>4, <4>1
    <3>. QED
      BY <1>4, <3>1, <3>2 DEF Known
  <2>. QED
    BY <2>1, <2>2
<1>5. Known(after, r, i, s, v)
  BY <1>2, <1>3, <1>4 DEF Known, r
<1>. QED
  BY <1>5 DEF r

(* What the server has promised: w is the name that it last told of each   *)
(* session.  Handling all that is under way leads to it, and a*)
(* line finds the name its sender had when it was sent.                    *)
Keeps(users, q, own, w) ==
  /\ \A s \in Session \ {own} : Known(users, q, Len(q) + 1, s, w[s])
  /\ \A i \in DOMAIN q : q[i].what = "chat" /\ q[i].told =>
       /\ q[i].session \in Session \ {own} /\ q[i].by \in Person
       /\ Known(users, q, i, q[i].session, q[i].by)
Promises(c) ==
  [s \in Session |-> IF link[c].subscribed THEN NameIn(there[c], s) ELSE NoName]
Promised(c) == Keeps(conns[c].users, down[c], link[c].id, Promises(c))

LEMMA KeepsNothing ==
  ASSUME NEW users, NEW q \in Seq(Incoming), Len(q) = 0, \A s : s \notin DOMAIN users,
         NEW own, NEW w, \A s \in Session : w[s] = NoName
  PROVE  Keeps(users, q, own, w)
<1>1. (\A i \in DOMAIN q : FALSE) /\ Len(q) + 1 = 1
  OBVIOUS
<1>2. \A s : NameIn(users, s) = NoName
  BY DEF NameIn
<1>3. \A s \in Session : Known(users, q, 1, s, w[s])
  BY <1>2, KnownNow
<1>. QED
  BY <1>1, <1>3 DEF Keeps

LEMMA KeepsMore ==
  ASSUME NEW users, NEW q \in Seq(Incoming), NEW m \in Incoming, NEW own, NEW w, NEW v,
         Keeps(users, q, own, w),
         \A s \in Session \ {own} : v[s] = IF Speaks(m, s) THEN Says(m, s) ELSE w[s],
         m.what = "chat" /\ m.told =>
           m.session \in Session \ {own} /\ m.by \in Person /\ m.by = w[m.session]
  PROVE  Keeps(users, q \o <<m>>, own, v)
<1> DEFINE r == q \o <<m>>
<1>1. /\ Len(q) \in Nat /\ DOMAIN q = 1..Len(q) /\ Len(r) = Len(q) + 1
      /\ DOMAIN r = 1..(Len(q) + 1) /\ r[Len(q) + 1] = m
      /\ \A i \in 1..Len(q) : r[i] = q[i]
  BY OneMore
<1>2. \A s \in Session \ {own} : Known(users, r, Len(q) + 2, s, v[s])
  BY KnownMore DEF Keeps
<1>3. \A i \in 1..(Len(q) + 1) : \A s, x : Known(users, q, i, s, x) => Known(users, r, i, s, x)
  BY KnownStill
<1>. HIDE DEF r
<1>4. Len(r) + 1 = Len(q) + 2
  BY <1>1
<1>5. ASSUME NEW i \in DOMAIN r, r[i].what = "chat", r[i].told
      PROVE  /\ r[i].session \in Session \ {own} /\ r[i].by \in Person
             /\ Known(users, r, i, r[i].session, r[i].by)
  <2>1. CASE i \in 1..Len(q)
    <3>1. r[i] = q[i] /\ i \in 1..(Len(q) + 1)
      BY <1>1, <2>1
    <3>. QED
      BY <1>1, <1>3, <1>5, <2>1, <3>1 DEF Keeps
  <2>2. CASE i = Len(q) + 1
    <3>1. /\ r[i] = m /\ m.session \in Session \ {own} /\ m.by \in Person /\ m.by = w[m.session]
          /\ i \in 1..(Len(q) + 1)
      BY <1>1, <1>5, <2>2
    <3>2. Known(users, q, i, m.session, m.by)
      BY <2>2, <3>1 DEF Keeps
    <3>. QED
      BY <1>3, <3>1, <3>2
  <2>. QED
    BY <1>1, <2>1, <2>2
<1>6. Keeps(users, r, own, v)
  BY <1>2, <1>4, <1>5 DEF Keeps
<1>. QED
  BY <1>6 DEF r

LEMMA KeepsLess ==
  ASSUME NEW users, NEW after, NEW q \in Seq(Incoming), q # <<>>, NEW own, NEW w,
         Keeps(users, q, own, w),
         \A s \in Session \ {own} :
           NameIn(after, s) = IF Speaks(q[1], s) THEN Says(q[1], s) ELSE NameIn(users, s)
  PROVE  Keeps(after, Tail(q), own, w)
<1> DEFINE r == Tail(q)
<1>1. /\ Len(q) \in Nat \ {0} /\ DOMAIN q = 1..Len(q) /\ Len(r) = Len(q) - 1
      /\ DOMAIN r = 1..(Len(q) - 1)
      /\ \A i \in 1..(Len(q) - 1) : r[i] = q[i + 1]
  BY OneLess
<1>2. \A i \in 1..Len(q) : \A s \in Session \ {own} : \A x :
        Known(users, q, i + 1, s, x) => Known(after, r, i, s, x)
  BY KnownHead
<1>. HIDE DEF r
<1>3. Len(r) + 1 = Len(q) /\ Len(q) \in 1..Len(q)
  BY <1>1
<1>4. \A s \in Session \ {own} : Known(after, r, Len(r) + 1, s, w[s])
  BY <1>2, <1>3 DEF Keeps
<1>5. ASSUME NEW i \in DOMAIN r, r[i].what = "chat", r[i].told
      PROVE  /\ r[i].session \in Session \ {own} /\ r[i].by \in Person
             /\ Known(after, r, i, r[i].session, r[i].by)
  <2>1. i \in 1..Len(q) /\ i + 1 \in DOMAIN q /\ r[i] = q[i + 1]
    BY <1>1
  <2>. QED
    BY <1>2, <1>5, <2>1 DEF Keeps
<1>6. Keeps(after, r, own, w)
  BY <1>4, <1>5 DEF Keeps
<1>. QED
  BY <1>6 DEF r

LEMMA PromisesAre ==
  ASSUME NEW c, NEW s \in Session
  PROVE  /\ Promises(c)[s] = IF link[c].subscribed THEN NameIn(there[c], s) ELSE NoName
         /\ Promises(c)'[s] = IF link'[c].subscribed THEN NameIn(there'[c], s) ELSE NoName
BY DEF Promises

(* A step that puts a message into the channel, or none.                   *)
LEMMA PromisedMore ==
  ASSUME NEW c \in Server, Held(c), Promised(c), NEW r \in Incoming,
         conns'[c].users = conns[c].users, link'[c].id = link[c].id,
         down'[c] = down[c] \o <<r>>,
         \A s \in Session \ {link[c].id} :
           Promises(c)'[s] = IF Speaks(r, s) THEN Says(r, s) ELSE Promises(c)[s],
         r.what = "chat" /\ r.told =>
           /\ r.session \in Session \ {link[c].id} /\ r.by \in Person
           /\ r.by = Promises(c)[r.session]
  PROVE  Promised(c)'
<1>1. down[c] \in Seq(Incoming)
  BY DEF Held
<1>2. Keeps(conns[c].users, down[c], link[c].id, Promises(c))
  BY DEF Promised
<1>. PICK own, w, v : own = link[c].id /\ w = Promises(c) /\ v = Promises(c)'
  OBVIOUS
<1>3. Keeps(conns[c].users, down[c] \o <<r>>, own, v)
  BY <1>1, <1>2, KeepsMore
<1>. QED
  BY <1>3 DEF Promised

LEMMA PromisedSame ==
  ASSUME NEW c \in Server, Promised(c),
         conns'[c].users = conns[c].users, link'[c].id = link[c].id, down'[c] = down[c],
         \A s \in Session : Promises(c)'[s] = Promises(c)[s]
  PROVE  Promised(c)'
<1>. PICK own, w, v : own = link[c].id /\ w = Promises(c) /\ v = Promises(c)'
  OBVIOUS
<1>1. Keeps(conns[c].users, down[c], own, w)
  BY DEF Promised
<1>2. Keeps(conns[c].users, down[c], own, v)
  BY <1>1 DEF Keeps
<1>. QED
  BY <1>2 DEF Promised

LEMMA PromisedNothing ==
  ASSUME NEW c \in Server, Held(c)', conns'[c].users = NoUsers, down'[c] = <<>>,
         ~link'[c].subscribed
  PROVE  Promised(c)'
<1>1. \A s \in Session : Promises(c)'[s] = NoName
  BY PromisesAre
<1>2. \A s : s \notin DOMAIN conns'[c].users
  BY DEF NoUsers
<1>3. down'[c] \in Seq(Incoming) /\ Len(down'[c]) = 0
  BY EmptySeq DEF Held
<1>. PICK own, w : own = link'[c].id /\ w = Promises(c)'
  OBVIOUS
<1>4. Keeps(conns'[c].users, down'[c], own, w)
  BY <1>1, <1>2, <1>3, KeepsNothing
<1>. QED
  BY <1>4 DEF Promised

LEMMA PromisedStep ==
  ASSUME NEW c \in Server, Held(c), Held(c)', Linked(c), Promised(c), Moves(c)
  PROVE  Promised(c)'
<1>1. /\ conns[c] \in Connection /\ conns[c].users \in Users /\ down[c] \in Seq(Incoming)
      /\ there[c] \in Users /\ DOMAIN there[c] \subseteq Session /\ link[c] \in Link
      /\ \A s \in DOMAIN there[c] : there[c][s] \in Person
      /\ link[c].id \notin DOMAIN there[c]
      /\ conns[c].id \in {NoId, link[c].id}
  <2>1. /\ conns[c] \in Connection /\ down[c] \in Seq(Incoming) /\ there[c] \in Users
        /\ link[c] \in Link
    BY DEF Held
  <2>. QED
    BY <2>1, UsersType DEF Connection, Held, Linked
<1>2. CASE Loses(c)
  <2>1. conns'[c].users = NoUsers /\ down'[c] = <<>> /\ link'[c] = NoLink
    BY <1>2, OffIsConnection DEF Loses
  <2>2. ~NoLink.subscribed
    BY DEF NoLink
  <2>. QED
    BY <2>1, <2>2, PromisedNothing
<1>3. CASE Joins(c)
  <2>1. conns[c].users = NoUsers /\ down[c] = <<>> /\ link[c] = NoLink
    BY <1>3 DEF Joins, Linked
  <2>2. ~link'[c].subscribed
    BY <1>3, <2>1 DEF Joins, NoLink
  <2>. QED
    BY <1>1, <1>3, <2>1, <2>2, PromisedNothing DEF Joins, Connection
<1>4. CASE Stays(c) \/ Types(c)
  BY <1>4, PromisesAre, PromisedSame DEF Stays, Types
<1>5. CASE Takes(c)
  <2>1. conns'[c] = conns[c] /\ there'[c] = there[c]
    BY <1>5 DEF Takes
  <2>2. CASE down'[c] = down[c] /\ link'[c] \in {link[c], [link[c] EXCEPT !.named = TRUE]}
    <3>1. link'[c].subscribed = link[c].subscribed /\ link'[c].id = link[c].id
      BY <1>1, <2>2 DEF Link
    <3>. QED
      BY <2>1, <2>2, <3>1, PromisesAre, PromisedSame
  <2>3. CASE /\ link'[c] = [link[c] EXCEPT !.subscribed = TRUE]
             /\ down'[c] = down[c] \o <<Named(With(there[c], link[c].id, Us))>>
    <3> DEFINE w == With(there[c], link[c].id, Us)
    <3>1. link'[c].subscribed = TRUE /\ link'[c].id = link[c].id
      BY <1>1, <2>3 DEF Link
    <3>2. link[c].id \in Session /\ Us \in Names
      BY <1>5, NamesApart DEF Takes, Linked
    <3>3. /\ w \in Users
          /\ \A s \in Session \ {link[c].id} :
               /\ s \in DOMAIN w <=> s \in DOMAIN there[c]
               /\ s \in DOMAIN there[c] => w[s] = there[c][s]
      <4>1. w \in Users
        BY <1>1, <3>2, UsersChange
      <4>. QED
        BY <4>1 DEF With
    <3>. HIDE DEF w
    <3>4. /\ Named(w) \in Incoming /\ Named(w).what = "names" /\ Named(w).names = w
          /\ down'[c] = down[c] \o <<Named(w)>>
      BY <2>3, <3>3, MessageKinds DEF Named, w
    <3>5. ASSUME NEW s \in Session \ {link[c].id}
          PROVE  Promises(c)'[s] = IF Speaks(Named(w), s) THEN Says(Named(w), s) ELSE Promises(c)[s]
      <4>1. Promises(c)'[s] = NameIn(there[c], s)
        BY <2>1, <3>1, PromisesAre
      <4>2. CASE s \in DOMAIN there[c]
        BY <3>3, <3>4, <4>1, <4>2 DEF Speaks, Says, NameIn
      <4>3. CASE s \notin DOMAIN there[c]
        <5>1. ~Speaks(Named(w), s)
          BY <3>3, <3>4, <4>3 DEF Speaks
        <5>2. NameIn(there[c], s) = NoName
          BY <4>3 DEF NameIn
        <5>. QED
          BY <4>1, <5>1, <5>2, PromisesAre
      <4>. QED
        BY <4>2, <4>3
    <3>. QED
      BY <2>1, <3>1, <3>4, <3>5, PromisedMore
  <2>4. ASSUME NEW r \in Incoming, link'[c] = link[c], down'[c] = down[c] \o <<r>>,
               r.what # "names" /\ r.what # "removed" /\ (r.what = "chat" => ~r.told)
        PROVE  Promised(c)'
    <3>1. \A s \in Session : Promises(c)'[s] = Promises(c)[s] /\ ~Speaks(r, s)
      BY <2>1, <2>4, PromisesAre DEF Speaks
    <3>. QED
      BY <2>1, <2>4, <3>1, PromisedMore
  <2>5. CASE link'[c] = link[c]
             /\ down'[c] = down[c] \o <<[what |-> "parameters", session |-> link[c].id]>>
    <3>1. link[c].id \in Session
      BY <1>5 DEF Takes, Linked
    <3>. QED
      BY <2>4, <2>5, <3>1, MessageKinds
  <2>6. CASE /\ link'[c] = link[c] /\ Head(up[c]).what = "chat"
             /\ down'[c] = down[c] \o <<FromUs(Head(up[c]))>>
    <3>1. Head(up[c]).session \in Session \cup {NoId}
      <4>1. Head(up[c]) = up[c][1] /\ 1 \in DOMAIN up[c]
        BY <1>5, SeqTail DEF Takes, Held
      <4>. QED
        BY <1>1, <2>6, <4>1 DEF Linked, Connection
    <3>2. Us \in Names
      BY NamesApart
    <3>3. FromUs(Head(up[c])) \in Incoming /\ FromUs(Head(up[c])).what = "chat"
          /\ FromUs(Head(up[c])).told = FALSE
      BY <3>1, <3>2 DEF FromUs, Incoming
    <3>. QED
      BY <2>4, <2>6, <3>3
  <2>7. CASE /\ link'[c] = link[c] /\ Head(up[c]).to \in DOMAIN there[c]
             /\ down'[c] = down[c] \o <<[what |-> "pong", session |-> Head(up[c]).to]>>
    BY <1>1, <2>4, <2>7, MessageKinds
  <2>. QED
    BY <1>5, <2>2, <2>3, <2>5, <2>6, <2>7 DEF Takes
<1>6. CASE Reports(c)
  <2>1. conns'[c] = conns[c] /\ link'[c] = link[c]
    BY <1>6 DEF Reports
  <2>2. ASSUME NEW r, Told(c, r), ~link[c].subscribed PROVE Promised(c)'
    <3>1. down'[c] = down[c] /\ \A s \in Session : Promises(c)'[s] = Promises(c)[s]
      BY <2>1, <2>2, PromisesAre DEF Told
    <3>. QED
      BY <2>1, <3>1, PromisedSame
  <2>3. ASSUME NEW r \in Incoming, down'[c] = down[c] \o <<r>>, there'[c] = there[c],
               r.what # "names" /\ r.what # "removed",
               r.what = "chat" /\ r.told =>
                 /\ r.session \in Session \ {link[c].id} /\ r.by \in Person
                 /\ r.by = Promises(c)[r.session]
        PROVE  Promised(c)'
    <3>1. \A s \in Session : Promises(c)'[s] = Promises(c)[s] /\ ~Speaks(r, s)
      BY <2>1, <2>3, PromisesAre DEF Speaks
    <3>. QED
      BY <2>1, <2>3, <3>1, PromisedMore
  <2>4. ASSUME NEW s \in DOMAIN there[c] \cup Unused(c), NEW n \in Person,
               there'[c] = With(there[c], s, n), Told(c, Named([t \in {s} |-> n])),
               link[c].subscribed
        PROVE  Promised(c)'
    <3> DEFINE w == [t \in {s} |-> n]
    <3>1. s \in Session /\ n \in Names
      BY <1>1, NamesApart DEF Unused
    <3>2. w \in Users /\ \A t : t \in DOMAIN w <=> t = s
      BY <3>1, OneUser
    <3>3. w[s] = n
      OBVIOUS
    <3>. HIDE DEF w
    <3>4. /\ Named(w) \in Incoming /\ Named(w).what = "names" /\ Named(w).names = w
          /\ down'[c] = down[c] \o <<Named(w)>>
      BY <2>4, <3>2, MessageKinds DEF Named, Told, w
    <3>5. ASSUME NEW t \in Session
          PROVE  Promises(c)'[t] = IF Speaks(Named(w), t) THEN Says(Named(w), t) ELSE Promises(c)[t]
      <4>1. Promises(c)'[t] = NameIn(there'[c], t) /\ Promises(c)[t] = NameIn(there[c], t)
        BY <2>1, <2>4, PromisesAre
      <4>2. /\ t \in DOMAIN there'[c] <=> t \in DOMAIN there[c] \/ t = s
            /\ t \in DOMAIN there'[c] => there'[c][t] = IF t = s THEN n ELSE there[c][t]
        BY <2>4 DEF With
      <4>3. NameIn(there'[c], t) = IF t = s THEN n ELSE NameIn(there[c], t)
        BY <4>2 DEF NameIn
      <4>4. Speaks(Named(w), t) <=> t = s
        BY <3>2, <3>4 DEF Speaks
      <4>5. t = s => Says(Named(w), t) = n
        BY <3>3, <3>4 DEF Says
      <4>. QED
        BY <4>1, <4>3, <4>4, <4>5
    <3>. QED
      BY <2>1, <3>4, <3>5, PromisedMore
  <2>5. ASSUME NEW s \in DOMAIN there[c], there'[c] = Without(there[c], s),
               Told(c, [what |-> "removed", session |-> s]), link[c].subscribed
        PROVE  Promised(c)'
    <3> DEFINE r == [what |-> "removed", session |-> s]
    <3>1. r \in Incoming /\ r.what = "removed" /\ r.session = s
      BY <1>1, MessageKinds
    <3>2. down'[c] = down[c] \o <<r>>
      BY <2>5 DEF Told
    <3>. HIDE DEF r
    <3>3. ASSUME NEW t \in Session
          PROVE  Promises(c)'[t] = IF Speaks(r, t) THEN Says(r, t) ELSE Promises(c)[t]
      <4>1. Promises(c)'[t] = NameIn(there'[c], t) /\ Promises(c)[t] = NameIn(there[c], t)
        BY <2>1, <2>5, PromisesAre
      <4>2. /\ t \in DOMAIN there'[c] <=> t \in DOMAIN there[c] /\ t # s
            /\ t \in DOMAIN there'[c] => there'[c][t] = there[c][t]
        BY <2>5 DEF Without
      <4>3. NameIn(there'[c], t) = IF t = s THEN NoName ELSE NameIn(there[c], t)
        BY <4>2 DEF NameIn
      <4>4. (Speaks(r, t) <=> t = s) /\ Says(r, t) = NoName
        BY <3>1 DEF Speaks, Says
      <4>. QED
        BY <4>1, <4>3, <4>4
    <3>. QED
      BY <2>1, <3>1, <3>2, <3>3, PromisedMore
  <2>6. ASSUME NEW s \in DOMAIN there[c], NEW private \in BOOLEAN, there'[c] = there[c],
               down'[c] = down[c] \o <<Chat(s, private, there[c][s], link[c].subscribed)>>
        PROVE  Promised(c)'
    <3> DEFINE r == Chat(s, private, there[c][s], link[c].subscribed)
    <3>1. /\ s \in Session \ {link[c].id} /\ there[c][s] \in Person /\ there[c][s] \in Names
          /\ link[c].subscribed \in BOOLEAN
      BY <1>1, NamesApart DEF Link
    <3>2. r \in Incoming /\ r.what = "chat" /\ r.session = s /\ r.by = there[c][s]
          /\ r.told = link[c].subscribed
      BY <3>1, MessageKinds DEF Chat
    <3>3. link[c].subscribed => Promises(c)[s] = there[c][s]
      BY <3>1, PromisesAre DEF NameIn
    <3>4. down'[c] = down[c] \o <<r>>
      BY <2>6
    <3>. HIDE DEF r
    <3>. QED
      BY <2>3, <2>6, <3>1, <3>2, <3>3, <3>4
  <2>7. ASSUME NEW s \in DOMAIN there[c], there'[c] = there[c],
               down'[c] = down[c] \o <<[what |-> "ping", session |-> s]>>
        PROVE  Promised(c)'
    BY <1>1, <2>3, <2>7, MessageKinds
  <2>. QED
    BY <1>6, <2>2, <2>4, <2>5, <2>6, <2>7 DEF Reports
<1>7. CASE Hears(c)
  <2> DEFINE m == Head(down[c])
  <2>1. /\ down[c] # <<>> /\ down'[c] = Tail(down[c]) /\ link'[c] = link[c]
        /\ there'[c] = there[c] /\ m = down[c][1] /\ m \in Incoming
    BY <1>1, <1>7, OneLess DEF Hears
  <2>. HIDE DEF m
  <2>2. ASSUME NEW s \in Session \ {link[c].id}
        PROVE  NameIn(conns'[c].users, s) =
                 IF Speaks(m, s) THEN Says(m, s) ELSE NameIn(conns[c].users, s)
    <3>1. CASE m.what = "names" /\ conns'[c].users = Merged(conns[c].users, m.names, conns[c].id)
      <4>1. s # conns[c].id
        BY <1>1, <2>2, NamesApart
      <4> DEFINE h == Without(m.names, conns[c].id)
      <4>2. /\ s \in DOMAIN h <=> s \in DOMAIN m.names
            /\ s \in DOMAIN h => h[s] = m.names[s]
        BY <4>1 DEF Without
      <4>3. conns'[c].users = [t \in DOMAIN conns[c].users \cup DOMAIN h |->
                                 IF t \in DOMAIN h THEN h[t] ELSE conns[c].users[t]]
        BY <3>1 DEF Merged
      <4>. HIDE DEF h
      <4>4. NameIn(conns'[c].users, s) = IF s \in DOMAIN h THEN h[s] ELSE NameIn(conns[c].users, s)
        BY <4>3 DEF NameIn
      <4>5. (Speaks(m, s) <=> s \in DOMAIN m.names) /\ Says(m, s) = m.names[s]
        BY <3>1 DEF Speaks, Says
      <4>. QED
        BY <4>2, <4>4, <4>5
    <3>2. CASE m.what = "removed" /\ conns'[c].users = Forgotten(conns[c].users, m.session)
      <4>1. /\ s \in DOMAIN conns'[c].users <=> s \in DOMAIN conns[c].users /\ s # m.session
            /\ s \in DOMAIN conns'[c].users => conns'[c].users[s] = conns[c].users[s]
        BY <3>2 DEF Forgotten, Without
      <4>2. NameIn(conns'[c].users, s) = IF s = m.session THEN NoName ELSE NameIn(conns[c].users, s)
        BY <4>1 DEF NameIn
      <4>3. (Speaks(m, s) <=> s = m.session) /\ Says(m, s) = NoName
        BY <3>2 DEF Speaks, Says
      <4>. QED
        BY <4>2, <4>3
    <3>3. CASE m.what \notin {"names", "removed"} /\ conns'[c].users = conns[c].users
      BY <3>3 DEF Speaks
    <3>. QED
      BY <1>1, <1>7, <3>1, <3>2, <3>3 DEF Hears, m, Connection
  <2>3. Promises(c)' = Promises(c)
    BY <2>1 DEF Promises
  <2>. PICK own, w : own = link[c].id /\ w = Promises(c)
    OBVIOUS
  <2>4. Keeps(conns[c].users, down[c], own, w)
    BY DEF Promised
  <2>5. Keeps(conns'[c].users, Tail(down[c]), own, w)
    BY <1>1, <2>1, <2>2, <2>4, KeepsLess
  <2>. QED
    BY <2>1, <2>3, <2>5 DEF Promised
<1>. QED
  BY <1>2, <1>3, <1>4, <1>5, <1>6, <1>7 DEF Moves

AllPromised == \A c \in Server : Promised(c)

LEMMA PromisedInit == Init => AllPromised
<1>. SUFFICES ASSUME Init, NEW c \in Server PROVE Promised(c)
  BY DEF AllPromised
<1>1. down[c] = <<>> /\ conns[c].users = NoUsers /\ ~link[c].subscribed
  BY OffIsConnection DEF Init, NoLink
<1>2. \A s \in Session : Promises(c)[s] = NoName
  BY <1>1, PromisesAre
<1>3. \A s : s \notin DOMAIN conns[c].users
  BY <1>1 DEF NoUsers
<1>4. down[c] \in Seq(Incoming) /\ Len(down[c]) = 0
  BY <1>1, EmptySeq
<1>. PICK own, w : own = link[c].id /\ w = Promises(c)
  OBVIOUS
<1>5. Keeps(conns[c].users, down[c], own, w)
  BY <1>2, <1>3, <1>4, KeepsNothing
<1>. QED
  BY <1>5 DEF Promised

LEMMA AllPromisedStep == Base /\ Base' /\ AllPromised /\ [Next]_vars => AllPromised'
<1>. SUFFICES ASSUME Base, Base', AllPromised, [Next]_vars, NEW c \in Server PROVE Promised(c)'
  BY DEF AllPromised
<1>1. Held(c) /\ Held(c)' /\ Linked(c) /\ Promised(c)
  BY DEF Base, AllPromised, Typed, Held
<1>2. Moves(c)
  BY EverythingMoves DEF Base, OffKnowsNobody, Linked
<1>. QED
  BY <1>1, <1>2, PromisedStep

LEMMA AlwaysPromised == Spec => []AllPromised
BY AlwaysBase, PromisedInit, AllPromisedStep, PTL DEF Spec

(* Once everything that the server sent has been handled, a registry holds *)
(* the others that are there under their names.  Subscribing brings all of *)
(* them in one message and every later change follows in order; what is    *)
(* known is thus always what the last message that speaks of a session will*)
(* say (ServerConnection.cpp:609, 648).                                    *)
THEOREM RegistryIsCurrent == Spec => []ListIsCurrent
<1>1. Base /\ AllPromised => ListIsCurrent
  <2>. SUFFICES ASSUME Base, AllPromised, NEW c \in Server, link[c].subscribed, down[c] = <<>>
                PROVE  Without(conns[c].users, link[c].id) = there[c]
    BY DEF ListIsCurrent
  <2>1. /\ conns[c].users \in Users /\ there[c] \in Users /\ link[c].id \notin DOMAIN there[c]
        /\ down[c] \in Seq(Incoming)
    BY DEF Base, Typed, Linked, Connection
  <2> DEFINE f == conns[c].users
             g == there[c]
             id == link[c].id
  <2>2. ASSUME NEW s \in Session \ {id} PROVE NameIn(f, s) = NameIn(g, s)
    <3>. PICK own, w : own = link[c].id /\ w = Promises(c)
      OBVIOUS
    <3>1. Keeps(f, down[c], own, w)
      BY DEF AllPromised, Promised
    <3>2. Len(down[c]) + 1 = 1
      BY EmptySeq
    <3>3. Known(f, down[c], 1, s, w[s])
      BY <2>2, <3>1, <3>2 DEF Keeps
    <3>4. NameIn(f, s) = Promises(c)[s]
      BY <3>3, KnownNow
    <3>. QED
      BY <2>2, <3>4, PromisesAre
  <2>3. /\ f \in Users /\ g \in Users /\ id \notin DOMAIN g
        /\ DOMAIN f \subseteq Session /\ DOMAIN g \subseteq Session
        /\ \A s \in DOMAIN f : f[s] # NoName
        /\ \A s \in DOMAIN g : g[s] # NoName
    BY <2>1, UsersType, NamesApart DEF NoName
  <2>4. g = [s \in DOMAIN g |-> g[s]]
    BY <2>3 DEF Users
  <2>. HIDE DEF f, g, id
  <2>5. \A s \in Session \ {id} : (s \in DOMAIN f <=> s \in DOMAIN g)
                                  /\ (s \in DOMAIN g => f[s] = g[s])
    BY <2>2, <2>3 DEF NameIn
  <2>6. DOMAIN f \ {id} = DOMAIN g
    BY <2>3, <2>5
  <2>7. Without(f, id) = g
    BY <2>3, <2>4, <2>5, <2>6 DEF Without
  <2>. QED
    BY <2>7 DEF f, g, id
<1>. QED
  BY <1>1, AlwaysBase, AlwaysPromised, PTL

(* Nothing of an ignored user is shown: when a line of theirs is handled,  *)
(* the registry has them under the name they had when they said it, and it *)
(* is that name, not the one that the window shows, that the filter sees   *)
(* (MainWindow.cpp:729).                                                   *)
THEOREM TheIgnoredStayOut == Spec => []IgnoredStaysOut
<1>1. Init => IgnoredStaysOut
  BY DEF Init, IgnoredStaysOut
<1>2. Base /\ AllPromised /\ IgnoredStaysOut /\ [Next]_vars => IgnoredStaysOut'
  <2>. SUFFICES ASSUME Base, AllPromised, IgnoredStaysOut, [Next]_vars, NEW i \in DOMAIN shown',
                       shown'[i].line.from # "here", shown'[i].line.message.told
                PROVE  ~Matches(filters'.ignore, shown'[i].line.message.by,
                                shown'[i].line.message.session)
    BY DEF IgnoredStaysOut, Matches
  <2>1. Displays
    BY EverythingDisplays
  <2>2. CASE shown' = shown /\ filters' = filters
    BY <2>2 DEF IgnoredStaysOut
  <2>3. CASE ShowsOwn
    BY <2>3, ShownLines DEF ShowsOwn
  <2>4. ASSUME NEW c \in Server, ShowsHeard(c)
        PROVE  ~Matches(filters'.ignore, shown'[i].line.message.by,
                        shown'[i].line.message.session)
    <3> DEFINE m == Head(down[c])
    <3>1. PICK line : line.message = Received(c, m) /\ Show(<<line>>)
      BY <2>4 DEF ShowsHeard
    <3>2. shown'[i].line = line
      BY <3>1, ShownLines, SeqOfOne
    <3>3. /\ m.what = "chat" /\ down[c] # <<>> /\ ~Ignored(c, Received(c, m))
          /\ filters' = filters
      BY <2>4 DEF ShowsHeard
    <3>4. /\ line.message.by = m.by /\ line.message.session = m.session
          /\ line.message.told = m.told
          /\ Received(c, m).name = DisplayName(conns[c].users, m.session)
          /\ Received(c, m).session = m.session
      BY <3>1 DEF Received
    <3>5. m = down[c][1] /\ 1 \in DOMAIN down[c]
      BY <3>3, OneLess DEF Base, Typed
    <3>6. m.by \in Person /\ Known(conns[c].users, down[c], 1, m.session, m.by)
      <4>. PICK own, w : own = link[c].id /\ w = Promises(c)
        OBVIOUS
      <4>1. Keeps(conns[c].users, down[c], own, w)
        BY DEF AllPromised, Promised
      <4>2. m.told
        BY <3>2, <3>4
      <4>. HIDE DEF m
      <4>. QED
        BY <3>3, <3>5, <4>1, <4>2 DEF Keeps
    <3>. HIDE DEF m
    <3>7. NameIn(conns[c].users, m.session) = m.by /\ m.by # ""
      BY <3>6, KnownNow, NamesApart
    <3>8. DisplayName(conns[c].users, m.session) = m.by
      BY <3>7 DEF NameIn, DisplayName, NoName
    <3>9. ~Matches(filters.ignore, m.by, m.session)
      BY <3>3, <3>4, <3>8 DEF Ignored
    <3>. QED
      BY <3>2, <3>3, <3>4, <3>9
  <2>. QED
    BY <2>1, <2>2, <2>3, <2>4 DEF Displays
<1>. QED
  BY <1>1, <1>2, AlwaysBase, AlwaysPromised, PTL DEF Spec
-----------------------------------------------------------------------------
(* The user list. *)

Row == [server : Server, session : Session, name : Names]

(* Each row is of a user of the registries R, each user has one row, and   *)
(* the index finds it.                                                     *)
Sheet(rows, at, R) ==
  /\ rows \in Seq(Row)
  /\ \A i \in DOMAIN rows : Key(rows[i]) \in DOMAIN at /\ at[Key(rows[i])] = i
  /\ \A key \in DOMAIN at : at[key] \in DOMAIN rows /\ Key(rows[at[key]]) = key
  /\ \A i \in DOMAIN rows : /\ rows[i].session \in DOMAIN R[rows[i].server]
                            /\ rows[i].name = R[rows[i].server][rows[i].session]
  /\ \A c \in Server : \A s \in DOMAIN R[c] : <<c, s>> \in DOMAIN at

LEMMA RowsAre ==
  ASSUME NEW rows \in Seq(Row)
  PROVE  /\ DOMAIN rows = 1..Len(rows) /\ Len(rows) \in Nat
         /\ \A i \in DOMAIN rows :
              /\ rows[i] \in Row /\ rows[i].server \in Server
              /\ rows[i].session \in Session /\ rows[i].name \in Names
              /\ Key(rows[i]) = <<rows[i].server, rows[i].session>>
<1>1. DOMAIN rows = 1..Len(rows) /\ Len(rows) \in Nat /\ \A i \in DOMAIN rows : rows[i] \in Row
  OBVIOUS
<1>. QED
  BY <1>1 DEF Row, Key

LEMMA IndexRebuilt ==
  ASSUME NEW rows \in Seq(Row),
         \A i, j \in DOMAIN rows : Key(rows[i]) = Key(rows[j]) => i = j
  PROVE  /\ \A i \in DOMAIN rows : /\ Key(rows[i]) \in DOMAIN RebuildIndex(rows)
                                   /\ RebuildIndex(rows)[Key(rows[i])] = i
         /\ \A key \in DOMAIN RebuildIndex(rows) :
              /\ RebuildIndex(rows)[key] \in DOMAIN rows
              /\ Key(rows[RebuildIndex(rows)[key]]) = key
<1> DEFINE at == RebuildIndex(rows)
           P(key) == CHOOSE i \in DOMAIN rows : Key(rows[i]) = key
<1>1. at = [key \in {Key(rows[i]) : i \in DOMAIN rows} |-> P(key)]
  BY DEF RebuildIndex
<1>2. \A i \in DOMAIN rows : P(Key(rows[i])) = i
  OBVIOUS
<1>. HIDE DEF at, P
<1>3. DOMAIN at = {Key(rows[i]) : i \in DOMAIN rows} /\ \A key \in DOMAIN at : at[key] = P(key)
  BY <1>1
<1>4. \A i \in DOMAIN rows : Key(rows[i]) \in DOMAIN at /\ at[Key(rows[i])] = i
  BY <1>2, <1>3
<1>5. \A key \in DOMAIN at : \E i \in DOMAIN rows : key = Key(rows[i])
  BY <1>3
<1>6. \A key \in DOMAIN at : at[key] \in DOMAIN rows /\ Key(rows[at[key]]) = key
  BY <1>4, <1>5
<1>. QED
  BY <1>4, <1>6 DEF at

(* Rows that are taken out, and the index rebuilt.                         *)
LEMMA RowsPicked ==
  ASSUME NEW rows, NEW at, NEW R, Sheet(rows, at, R), NEW K \in SUBSET DOMAIN rows, NEW Q,
         \A i \in K : /\ rows[i].session \in DOMAIN Q[rows[i].server]
                      /\ rows[i].name = Q[rows[i].server][rows[i].session],
         \A c \in Server : \A s \in DOMAIN Q[c] : <<c, s>> \in DOMAIN at /\ at[<<c, s>>] \in K
  PROVE  Sheet(Picked(rows, K), RebuildIndex(Picked(rows, K)), Q)
<1> DEFINE kept == Picked(rows, K)
           new == RebuildIndex(kept)
<1>1. rows \in Seq(Row)
  BY DEF Sheet
<1>2. /\ kept \in Seq(Row) /\ DOMAIN kept = 1..Cardinality(K)
      /\ \A n \in 1..Cardinality(K) : \E i \in K : Rank(K, i) = n /\ kept[n] = rows[i]
      /\ \A i \in K : Rank(K, i) \in 1..Cardinality(K) /\ kept[Rank(K, i)] = rows[i]
  BY <1>1, PickedEntries
<1>. HIDE DEF kept
<1>3. \A i, j \in DOMAIN rows : Key(rows[i]) = Key(rows[j]) => i = j
  BY DEF Sheet
<1>4. \A m, n \in DOMAIN kept : Key(kept[m]) = Key(kept[n]) => m = n
  BY <1>2, <1>3
<1>5. /\ \A i \in DOMAIN kept : Key(kept[i]) \in DOMAIN new /\ new[Key(kept[i])] = i
      /\ \A key \in DOMAIN new : new[key] \in DOMAIN kept /\ Key(kept[new[key]]) = key
  BY <1>2, <1>4, IndexRebuilt
<1>. HIDE DEF new
<1>6. \A n \in DOMAIN kept : /\ kept[n].session \in DOMAIN Q[kept[n].server]
                             /\ kept[n].name = Q[kept[n].server][kept[n].session]
  BY <1>2
<1>7. ASSUME NEW c \in Server, NEW s \in DOMAIN Q[c] PROVE <<c, s>> \in DOMAIN new
  <2>. PICK key : key = <<c, s>>
    OBVIOUS
  <2>1. at[key] \in K /\ Key(rows[at[key]]) = key
    BY DEF Sheet
  <2>2. key \in DOMAIN new
    BY <1>2, <1>5, <2>1
  <2>. QED
    BY <2>2
<1>8. Sheet(kept, new, Q)
  BY <1>2, <1>5, <1>6, <1>7 DEF Sheet
<1>. QED
  BY <1>8 DEF kept, new

(* A user who is gone, and those of a connection.                          *)
LEMMA RowRemoved ==
  ASSUME NEW t, NEW R, Sheet(t.rows, t.at, R), NEW c \in Server, NEW s \in DOMAIN R[c], NEW Q,
         \A d \in Server \ {c} : Q[d] = R[d], Q[c] = Without(R[c], s)
  PROVE  Sheet(RemoveRow(t, c, s).rows, RemoveRow(t, c, s).at, Q)
<1> DEFINE rows == t.rows
           at == t.at
           K == DOMAIN rows \ {at[<<c, s>>]}
<1>0. Sheet(rows, at, R)
  OBVIOUS
<1>1. <<c, s>> \in DOMAIN at
  BY DEF Sheet
<1>2. /\ RemoveRow(t, c, s).rows = Picked(rows, K)
      /\ RemoveRow(t, c, s).at = RebuildIndex(Picked(rows, K))
  BY <1>1 DEF RemoveRow
<1>3. DOMAIN Q[c] = DOMAIN R[c] \ {s} /\ \A u \in DOMAIN Q[c] : Q[c][u] = R[c][u]
  BY DEF Without
<1>. HIDE DEF rows, at
<1>4. ASSUME NEW i \in K
      PROVE  /\ rows[i].session \in DOMAIN Q[rows[i].server]
             /\ rows[i].name = Q[rows[i].server][rows[i].session]
  <2>1. /\ rows[i].session \in DOMAIN R[rows[i].server] /\ rows[i].server \in Server
        /\ rows[i].name = R[rows[i].server][rows[i].session]
        /\ Key(rows[i]) = <<rows[i].server, rows[i].session>>
        /\ at[Key(rows[i])] = i
    BY <1>0, RowsAre DEF Sheet
  <2>2. rows[i].server # c \/ rows[i].session # s
    BY <2>1
  <2>. QED
    BY <1>3, <2>1, <2>2
<1>5. ASSUME NEW d \in Server, NEW u \in DOMAIN Q[d]
      PROVE  <<d, u>> \in DOMAIN at /\ at[<<d, u>>] \in K
  <2>1. u \in DOMAIN R[d] /\ (d # c \/ u # s)
    BY <1>3
  <2>2. <<d, u>> \in DOMAIN at /\ at[<<d, u>>] \in DOMAIN rows /\ Key(rows[at[<<d, u>>]]) = <<d, u>>
    BY <1>0, <2>1 DEF Sheet
  <2>3. Key(rows[at[<<c, s>>]]) = <<c, s>>
    BY <1>0, <1>1 DEF Sheet
  <2>4. <<d, u>> # <<c, s>>
    BY <2>1
  <2>. QED
    BY <2>2, <2>3, <2>4
<1>6. Sheet(Picked(rows, K), RebuildIndex(Picked(rows, K)), Q)
  BY <1>0, <1>4, <1>5, RowsPicked
<1>. QED
  BY <1>2, <1>6

LEMMA RowsRemoved ==
  ASSUME NEW t, NEW R, Sheet(t.rows, t.at, R), NEW c \in Server, NEW Q,
         \A d \in Server \ {c} : Q[d] = R[d], Q[c] = NoUsers
  PROVE  Sheet(RemoveRowsOf(t, c).rows, RemoveRowsOf(t, c).at, Q)
<1> DEFINE rows == t.rows
           at == t.at
           K == {i \in DOMAIN rows : rows[i].server # c}
<1>0. Sheet(rows, at, R)
  OBVIOUS
<1>2. /\ RemoveRowsOf(t, c).rows = Picked(rows, K)
      /\ RemoveRowsOf(t, c).at = RebuildIndex(Picked(rows, K))
  BY DEF RemoveRowsOf
<1>3. \A u : u \notin DOMAIN Q[c]
  BY DEF NoUsers
<1>. HIDE DEF rows, at
<1>4. ASSUME NEW i \in K
      PROVE  /\ rows[i].session \in DOMAIN Q[rows[i].server]
             /\ rows[i].name = Q[rows[i].server][rows[i].session]
  BY <1>0, <1>4, RowsAre DEF Sheet
<1>5. ASSUME NEW d \in Server, NEW u \in DOMAIN Q[d]
      PROVE  <<d, u>> \in DOMAIN at /\ at[<<d, u>>] \in K
  <2>1. u \in DOMAIN R[d] /\ d # c
    BY <1>3
  <2>2. <<d, u>> \in DOMAIN at /\ at[<<d, u>>] \in DOMAIN rows /\ Key(rows[at[<<d, u>>]]) = <<d, u>>
    BY <1>0, <2>1 DEF Sheet
  <2>3. rows[at[<<d, u>>]].server = d
    BY <2>2 DEF Key
  <2>. QED
    BY <2>1, <2>2, <2>3
<1>6. Sheet(Picked(rows, K), RebuildIndex(Picked(rows, K)), Q)
  BY <1>0, <1>4, <1>5, RowsPicked
<1>. QED
  BY <1>2, <1>6

(* Users who get a name: in place, or in a row of their own.               *)
LEMMA RowsUpdated ==
  ASSUME NEW t, NEW R, Sheet(t.rows, t.at, R), NEW c \in Server, NEW names \in Users, NEW Q,
         \A d \in Server : DOMAIN R[d] \subseteq Session,
         \A d \in Server \ {c} : Q[d] = R[d],
         Q[c] = [s \in DOMAIN R[c] \cup DOMAIN names |->
                   IF s \in DOMAIN names THEN names[s] ELSE R[c][s]]
  PROVE  Sheet(UpdateUsers(t, c, names).rows, UpdateUsers(t, c, names).at, Q)
<1> DEFINE rows == t.rows
           at == t.at
           known == {s \in DOMAIN names : <<c, s>> \in DOMAIN at}
           fresh == DOMAIN names \ known
           new == SetToSeq(fresh)
           Line(s) == [server |-> c, session |-> s, name |-> names[s]]
           RowsOf(i) == {s \in known : at[<<c, s>>] = i}
           old == [i \in DOMAIN rows |->
                     IF RowsOf(i) = {} THEN rows[i] ELSE Line(CHOOSE s \in RowsOf(i) : TRUE)]
           added == [i \in DOMAIN new |-> Line(new[i])]
           place(key) == CHOOSE i \in DOMAIN new : <<c, new[i]>> = key
           both == old \o added
           index == [key \in DOMAIN at \cup {<<c, s>> : s \in DOMAIN names} |->
                       IF key \in DOMAIN at THEN at[key] ELSE Len(rows) + place(key)]
<1>0. Sheet(rows, at, R)
  OBVIOUS
<1>1. UpdateUsers(t, c, names) = [rows |-> both, at |-> index]
  BY DEF UpdateUsers
<1>2. /\ DOMAIN names \subseteq Session /\ \A s \in DOMAIN names : names[s] \in Names
      /\ IsFiniteSet(fresh)
  BY UsersType, ChatAssumption, FS_Subset
<1>3. /\ new \in Seq(fresh) /\ DOMAIN new = 1..Len(new) /\ Len(new) \in Nat
      /\ \A i, j \in DOMAIN new : new[i] = new[j] => i = j
      /\ \A s \in fresh : \E i \in DOMAIN new : new[i] = s
      /\ \A i \in DOMAIN new : new[i] \in fresh
  <2>1. /\ new \in Seq(fresh)
        /\ \A i, j \in DOMAIN new : new[i] = new[j] => i = j
        /\ \A s \in fresh : \E i \in DOMAIN new : new[i] = s
    BY <1>2, ListedSet
  <2>. HIDE DEF new, fresh
  <2>. QED
    BY <2>1
<1>4. /\ rows \in Seq(Row) /\ DOMAIN rows = 1..Len(rows) /\ Len(rows) \in Nat
      /\ \A i \in DOMAIN rows :
           /\ rows[i] \in Row /\ rows[i].server \in Server /\ rows[i].session \in Session
           /\ rows[i].name \in Names /\ Key(rows[i]) = <<rows[i].server, rows[i].session>>
  BY <1>0, RowsAre DEF Sheet
<1>. HIDE DEF rows, at
<1>5. ASSUME NEW s \in Session, s \in DOMAIN names
      PROVE  /\ Line(s) \in Row /\ Key(Line(s)) = <<c, s>> /\ Line(s).server = c
             /\ Line(s).session = s /\ Line(s).name = names[s]
  BY <1>2, <1>5 DEF Row, Key
<1>6. ASSUME NEW i \in DOMAIN rows
      PROVE  /\ old[i] \in Row /\ old[i].server = rows[i].server /\ old[i].session = rows[i].session
             /\ Key(old[i]) = Key(rows[i])
             /\ old[i].name = IF rows[i].server = c /\ rows[i].session \in DOMAIN names
                                THEN names[rows[i].session] ELSE rows[i].name
  <2>0. old[i] = IF RowsOf(i) = {} THEN rows[i] ELSE Line(CHOOSE x \in RowsOf(i) : TRUE)
    OBVIOUS
  <2>. HIDE DEF old, Line
  <2>1. /\ at[Key(rows[i])] = i /\ Key(rows[i]) \in DOMAIN at
        /\ \A key \in DOMAIN at : Key(rows[at[key]]) = key
    BY <1>0 DEF Sheet
  <2>2. ASSUME NEW s \in RowsOf(i)
        PROVE  s = rows[i].session /\ rows[i].server = c /\ s \in DOMAIN names
    <3>1. s \in DOMAIN names /\ <<c, s>> \in DOMAIN at /\ at[<<c, s>>] = i
      OBVIOUS
    <3>2. Key(rows[i]) = <<c, s>>
      BY <2>1, <3>1
    <3>. QED
      BY <1>4, <3>1, <3>2
  <2>3. CASE RowsOf(i) = {}
    <3>1. old[i] = rows[i]
      BY <2>0, <2>3
    <3>2. ~(rows[i].server = c /\ rows[i].session \in DOMAIN names)
      <4>. SUFFICES ASSUME rows[i].server = c, rows[i].session \in DOMAIN names PROVE FALSE
        OBVIOUS
      <4>1. Key(rows[i]) = <<c, rows[i].session>>
        BY <1>4
      <4>2. <<c, rows[i].session>> \in DOMAIN at /\ at[<<c, rows[i].session>>] = i
        BY <2>1, <4>1
      <4>3. rows[i].session \in RowsOf(i)
        BY <4>2
      <4>. QED
        BY <2>3, <4>3
    <3>. HIDE DEF RowsOf
    <3>. QED
      BY <1>4, <3>1, <3>2
  <2>4. CASE RowsOf(i) # {}
    <3>1. PICK s \in RowsOf(i) : old[i] = Line(s)
      BY <2>0, <2>4
    <3>2. /\ s = rows[i].session /\ rows[i].server = c /\ s \in DOMAIN names /\ s \in Session
          /\ Key(rows[i]) = <<c, s>>
      BY <1>2, <1>4, <2>2
    <3>. HIDE DEF RowsOf
    <3>3. /\ Line(s) \in Row /\ Key(Line(s)) = <<c, s>> /\ Line(s).server = c
          /\ Line(s).session = s /\ Line(s).name = names[s]
      BY <1>5, <3>2
    <3>. QED
      BY <3>1, <3>2, <3>3
  <2>. QED
    BY <2>3, <2>4
<1>7. /\ old \in Seq(Row) /\ Len(old) = Len(rows) /\ added \in Seq(Row) /\ Len(added) = Len(new)
  <2>1. /\ DOMAIN old = 1..Len(rows) /\ DOMAIN added = 1..Len(new)
        /\ old = [i \in 1..Len(rows) |-> old[i]] /\ added = [i \in 1..Len(new) |-> added[i]]
    BY <1>3, <1>4
  <2>2. \A i \in 1..Len(rows) : old[i] \in Row
    BY <1>4, <1>6
  <2>3. \A i \in 1..Len(new) : added[i] \in Row
    BY <1>2, <1>3, <1>5
  <2>. HIDE DEF old, added, new
  <2>4. old \in [1..Len(rows) -> Row] /\ added \in [1..Len(new) -> Row]
    BY <2>1, <2>2, <2>3
  <2>5. \A n \in Nat : \A f \in [1..n -> Row] : f \in Seq(Row)
    BY SeqDef
  <2>6. old \in Seq(Row) /\ added \in Seq(Row)
    BY <1>3, <1>4, <2>4, <2>5
  <2>. QED
    BY <1>3, <1>4, <2>1, <2>6, LenProperties
<1>8. \A j \in DOMAIN new : /\ added[j] = Line(new[j]) /\ new[j] \in fresh
                            /\ new[j] \in DOMAIN names /\ new[j] \in Session
  BY <1>2, <1>3
<1>9. \A s \in fresh : s \in DOMAIN names /\ <<c, s>> \notin DOMAIN at
  OBVIOUS
<1>10. \A s \in DOMAIN names : s \in fresh \/ <<c, s>> \in DOMAIN at
  OBVIOUS
<1>11. /\ DOMAIN index = DOMAIN at \cup {<<c, s>> : s \in DOMAIN names}
       /\ \A key \in DOMAIN at : index[key] = at[key]
       /\ \A s \in DOMAIN names : <<c, s>> \notin DOMAIN at => index[<<c, s>>] = Len(rows) + place(<<c, s>>)
  OBVIOUS
<1>12. \A j \in DOMAIN new : place(<<c, new[j]>>) = j
  BY <1>3
<1>. HIDE DEF known, fresh, new, Line, RowsOf, old, added, place, index
<1>13. /\ both \in Seq(Row) /\ DOMAIN both = 1..(Len(rows) + Len(new))
       /\ \A i \in 1..Len(rows) : both[i] = old[i]
       /\ \A j \in 1..Len(new) : both[Len(rows) + j] = added[j]
  <2>1. /\ old \o added \in Seq(Row) /\ DOMAIN (old \o added) = 1..(Len(old) + Len(added))
        /\ \A i \in 1..Len(old) : (old \o added)[i] = old[i]
        /\ \A j \in 1..Len(added) : (old \o added)[Len(old) + j] = added[j]
    BY <1>7
  <2>. QED
    BY <1>7, <2>1
<1>. HIDE DEF both
<1>14. \A i \in DOMAIN both : i \in DOMAIN rows \/ \E j \in DOMAIN new : i = Len(rows) + j
  <2>. SUFFICES ASSUME NEW i \in DOMAIN both, i \notin DOMAIN rows
                PROVE  \E j \in DOMAIN new : i = Len(rows) + j
    OBVIOUS
  <2>1. i - Len(rows) \in DOMAIN new /\ i = Len(rows) + (i - Len(rows))
    BY <1>3, <1>4, <1>13
  <2>. QED
    BY <2>1
<1>15. ASSUME NEW i \in DOMAIN both
       PROVE  Key(both[i]) \in DOMAIN index /\ index[Key(both[i])] = i
  <2>1. CASE i \in DOMAIN rows
    <3>1. Key(both[i]) = Key(rows[i])
      BY <1>4, <1>6, <1>13, <2>1
    <3>. QED
      BY <1>0, <1>11, <2>1, <3>1 DEF Sheet
  <2>2. ASSUME NEW j \in DOMAIN new, i = Len(rows) + j
        PROVE  Key(both[i]) \in DOMAIN index /\ index[Key(both[i])] = i
    <3>1. both[i] = Line(new[j])
      BY <1>3, <1>8, <1>13, <2>2
    <3>2. Key(both[i]) = <<c, new[j]>> /\ new[j] \in DOMAIN names /\ <<c, new[j]>> \notin DOMAIN at
      BY <1>5, <1>8, <1>9, <3>1
    <3>. QED
      BY <1>11, <1>12, <2>2, <3>2
  <2>. QED
    BY <1>14, <2>1, <2>2
<1>16. ASSUME NEW key \in DOMAIN index
       PROVE  index[key] \in DOMAIN both /\ Key(both[index[key]]) = key
  <2>1. CASE key \in DOMAIN at
    <3>1. index[key] = at[key] /\ at[key] \in DOMAIN rows /\ Key(rows[at[key]]) = key
      BY <1>0, <1>11, <2>1 DEF Sheet
    <3>2. at[key] \in DOMAIN both
      BY <1>3, <1>4, <1>13, <3>1
    <3>. QED
      BY <1>4, <1>6, <1>13, <3>1, <3>2
  <2>2. CASE key \notin DOMAIN at
    <3>1. PICK s \in DOMAIN names : key = <<c, s>>
      BY <1>11, <2>2
    <3>2. s \in fresh
      BY <1>10, <2>2, <3>1
    <3>3. PICK j \in DOMAIN new : new[j] = s
      BY <1>3, <3>2
    <3>4. index[key] = Len(rows) + j
      BY <1>11, <1>12, <2>2, <3>1, <3>3
    <3>5. Len(rows) + j \in DOMAIN both /\ both[Len(rows) + j] = Line(s)
      <4>1. j \in 1..Len(new) /\ added[j] = Line(s)
        BY <1>3, <1>8, <3>3
      <4>2. Len(rows) + j \in 1..(Len(rows) + Len(new))
        BY <1>3, <1>4, <4>1
      <4>. QED
        BY <1>13, <4>1, <4>2
    <3>. QED
      BY <1>2, <1>5, <3>1, <3>4, <3>5
  <2>. QED
    BY <2>1, <2>2
<1>17. /\ \A s : s \in DOMAIN Q[c] <=> s \in DOMAIN R[c] \/ s \in DOMAIN names
       /\ \A s \in DOMAIN names : Q[c][s] = names[s]
       /\ \A s \in DOMAIN R[c] : s \notin DOMAIN names => Q[c][s] = R[c][s]
  OBVIOUS
<1>18. ASSUME NEW i \in DOMAIN both
       PROVE  /\ both[i].session \in DOMAIN Q[both[i].server]
              /\ both[i].name = Q[both[i].server][both[i].session]
  <2>1. CASE i \in DOMAIN rows
    <3>1. /\ both[i].server = rows[i].server /\ both[i].session = rows[i].session
          /\ both[i].name = IF rows[i].server = c /\ rows[i].session \in DOMAIN names
                              THEN names[rows[i].session] ELSE rows[i].name
      BY <1>4, <1>6, <1>13, <2>1
    <3>2. /\ rows[i].session \in DOMAIN R[rows[i].server] /\ rows[i].server \in Server
          /\ rows[i].name = R[rows[i].server][rows[i].session]
      BY <1>0, <1>4, <2>1 DEF Sheet
    <3>. QED
      BY <1>17, <3>1, <3>2
  <2>2. ASSUME NEW j \in DOMAIN new, i = Len(rows) + j
        PROVE  /\ both[i].session \in DOMAIN Q[both[i].server]
               /\ both[i].name = Q[both[i].server][both[i].session]
    <3>1. both[i] = Line(new[j])
      BY <1>3, <1>8, <1>13, <2>2
    <3>2. /\ both[i].server = c /\ both[i].session = new[j] /\ both[i].name = names[new[j]]
          /\ new[j] \in DOMAIN names
      BY <1>5, <1>8, <3>1
    <3>. QED
      BY <1>17, <3>2
  <2>. QED
    BY <1>14, <2>1, <2>2
<1>19. ASSUME NEW d \in Server, NEW s \in DOMAIN Q[d] PROVE <<d, s>> \in DOMAIN index
  <2>1. CASE s \in DOMAIN R[d]
    BY <1>0, <1>11, <2>1 DEF Sheet
  <2>2. CASE d = c /\ s \in DOMAIN names
    BY <1>11, <2>2
  <2>. QED
    BY <1>17, <2>1, <2>2
<1>20. Sheet(both, index, Q)
  BY <1>13, <1>15, <1>16, <1>18, <1>19 DEF Sheet
<1>. QED
  BY <1>1, <1>20

LEMMA SheetOfNone ==
  ASSUME NEW Q, \A c \in Server : Q[c] = NoUsers PROVE Sheet(NoRows.rows, NoRows.at, Q)
<1>1. /\ NoRows.rows = <<>> /\ NoRows.at = <<>>
  BY DEF NoRows
<1>2. <<>> \in Seq(Row) /\ (\A i : i \notin DOMAIN <<>>) /\ \A c \in Server : \A s : s \notin DOMAIN Q[c]
  BY DEF NoUsers
<1>. PICK e : e = <<>>
  OBVIOUS
<1>3. e \in Seq(Row) /\ (\A i : i \notin DOMAIN e)
  BY <1>2
<1>4. Sheet(e, e, Q)
  BY <1>2, <1>3 DEF Sheet
<1>. QED
  BY <1>1, <1>4

Registries == [c \in Server |-> conns[c].users]
TableOK == Sheet(table.rows, table.at, Registries)

LEMMA RegistriesAre ==
  ASSUME NEW c \in Server
  PROVE  Registries[c] = conns[c].users /\ Registries'[c] = conns'[c].users
BY DEF Registries

LEMMA TableInit == Init => TableOK
<1>. SUFFICES ASSUME Init PROVE TableOK
  OBVIOUS
<1>1. table = NoRows /\ \A c \in Server : Registries[c] = NoUsers
  BY OffIsConnection, RegistriesAre DEF Init
<1>. PICK R : R = Registries
  OBVIOUS
<1>2. Sheet(NoRows.rows, NoRows.at, R)
  BY <1>1, SheetOfNone
<1>. QED
  BY <1>1, <1>2 DEF TableOK

LEMMA NamesUpdateTable ==
  ASSUME Base, TableOK, NEW c \in Server, NEW m \in Incoming, m.what = "names", NameNodes(c, m)
  PROVE  TableOK'
<1> DEFINE others == Without(m.names, conns[c].id)
<1>1. others \in Users
  BY MessageKinds, UsersLess
<1>2. conns \in [Server -> Connection] /\ \A d \in Server : DOMAIN conns[d].users \subseteq Session
  <2>1. conns \in [Server -> Connection] /\ \A d \in Server : conns[d].users \in Users
    BY DEF Base, Typed, Connection
  <2>. QED
    BY <2>1, UsersType
<1>3. /\ conns' = [conns EXCEPT ![c].users =
                     [s \in DOMAIN @ \cup DOMAIN others |->
                        IF s \in DOMAIN others THEN others[s] ELSE @[s]]]
      /\ table' = UpdateUsers(table, c, others)
  BY DEF NameNodes
<1>. HIDE DEF others
<1>4. /\ \A d \in Server \ {c} : conns'[d].users = conns[d].users
      /\ conns'[c].users = [s \in DOMAIN conns[c].users \cup DOMAIN others |->
                              IF s \in DOMAIN others THEN others[s] ELSE conns[c].users[s]]
  BY <1>2, <1>3 DEF Connection
<1>. PICK R, Q : R = Registries /\ Q = Registries'
  OBVIOUS
<1>5. /\ Sheet(table.rows, table.at, R) /\ (\A d \in Server : DOMAIN R[d] \subseteq Session)
      /\ \A d \in Server \ {c} : Q[d] = R[d]
      /\ Q[c] = [s \in DOMAIN R[c] \cup DOMAIN others |->
                   IF s \in DOMAIN others THEN others[s] ELSE R[c][s]]
  BY <1>2, <1>4, RegistriesAre DEF TableOK
<1>6. Sheet(UpdateUsers(table, c, others).rows, UpdateUsers(table, c, others).at, Q)
  BY <1>1, <1>5, RowsUpdated
<1>. QED
  BY <1>3, <1>6 DEF TableOK

LEMMA TableStep == Base /\ TableOK /\ [Next]_vars => TableOK'
<1>. SUFFICES ASSUME Base, TableOK, [Next]_vars PROVE TableOK'
  OBVIOUS
<1>. PICK R, Q : R = Registries /\ Q = Registries'
  OBVIOUS
<1>1. /\ conns \in [Server -> Connection] /\ Sheet(table.rows, table.at, R)
      /\ \A c \in Server : conns[c] \in Connection /\ down[c] \in Seq(Incoming)
      /\ \A c \in Server : R[c] = conns[c].users /\ Q[c] = conns'[c].users
  BY RegistriesAre DEF Base, Typed, TableOK
<1>2. ASSUME table' = table, \A c \in Server : conns'[c].users = conns[c].users
      PROVE  TableOK'
  <2>1. Registries' = Registries
    BY <1>2 DEF Registries
  <2>. QED
    BY <1>2, <2>1 DEF TableOK
<1>3. ASSUME NEW c \in Server, table' = RemoveRowsOf(table, c), conns'[c].users = NoUsers,
             \A d \in Server \ {c} : conns'[d] = conns[d]
      PROVE  TableOK'
  <2>1. (\A d \in Server \ {c} : Q[d] = R[d]) /\ Q[c] = NoUsers
    BY <1>1, <1>3
  <2>2. Sheet(RemoveRowsOf(table, c).rows, RemoveRowsOf(table, c).at, Q)
    BY <1>1, <2>1, RowsRemoved
  <2>. QED
    BY <1>3, <2>2 DEF TableOK
<1>4. CASE HandleUserInput
  <2>1. CASE Disconnect
    <3>1. table' = NoRows /\ \A c \in Server : Q[c] = NoUsers
      BY <1>1, <2>1, OffIsConnection DEF Disconnect
    <3>2. Sheet(NoRows.rows, NoRows.at, Q)
      BY <3>1, SheetOfNone
    <3>. QED
      BY <3>1, <3>2 DEF TableOK
  <2>2. CASE UNCHANGED <<conns, table>>
    BY <1>2, <2>2
  <2>3. Disconnect \/ UNCHANGED <<conns, table>>
    BY <1>4 DEF HandleUserInput, SendChatToEveryone, SendPrivateMessage, PingUser,
       HandleFilterCommand, HandleAliasCommand
  <2>. QED
    BY <2>1, <2>2, <2>3
<1>5. CASE ApplySettings \/ NewDay \/ UNCHANGED vars
  BY <1>2, <1>5 DEF ApplySettings, NewDay, vars, client
<1>6. ASSUME NEW c \in Server, ConnectToServer(c) \/ SessionDisconnected(c)
      PROVE  TableOK'
  <2>1. /\ table' = RemoveRowsOf(table, c)
        /\ \/ conns' = [[conns EXCEPT ![c] = Off] EXCEPT ![c].stage = "connecting"]
           \/ conns' = [conns EXCEPT ![c] = Off]
    BY <1>6 DEF ConnectToServer, SessionDisconnected, ClearConnection
  <2>2. \A d \in Server \ {c} : conns'[d] = conns[d]
    BY <1>1, <2>1
  <2>3. conns'[c] \in {Off, [Off EXCEPT !.stage = "connecting"]}
    BY <1>1, <2>1
  <2>4. conns'[c].users = NoUsers
    BY <2>3, OffIsConnection
  <2>. QED
    BY <1>3, <2>1, <2>2, <2>4
<1>7. ASSUME NEW c \in Server, SessionConnected(c) PROVE TableOK'
  <2>1. table' = table /\ conns' = [conns EXCEPT ![c].stage = "connected"]
    BY <1>7 DEF SessionConnected
  <2>2. \A d \in Server : conns'[d].users = conns[d].users
    BY <1>1, <2>1 DEF Connection
  <2>. QED
    BY <1>2, <2>1, <2>2
<1>8. ASSUME NEW c \in Server,
             ServerReceives(c) \/ OtherNamed(c) \/ OtherLeaves(c) \/ OtherSpeaks(c)
      PROVE  TableOK'
  BY <1>2, <1>8 DEF ServerReceives, OtherNamed, OtherLeaves, OtherSpeaks, client
<1>9. ASSUME NEW c \in Server, MessageReceived(c) PROVE TableOK'
  <2> DEFINE m == Head(down[c])
  <2>1. m \in Incoming
    BY <1>1, <1>9, OneLess DEF MessageReceived
  <2>2. \/ m.what = "names" /\ NameNodes(c, m)
        \/ m.what = "removed" /\ NodeRemoved(c, m)
        \/ m.what = "parameters" /\ conns' = [conns EXCEPT ![c].id = m.session] /\ table' = table
        \/ UNCHANGED client
    BY <1>9 DEF MessageReceived
  <2>. HIDE DEF m
  <2>3. CASE m.what = "names" /\ NameNodes(c, m)
    BY <2>1, <2>3, NamesUpdateTable
  <2>4. CASE m.what = "removed" /\ NodeRemoved(c, m) /\ m.session \in DOMAIN conns[c].users
    <3>. PICK s : s = m.session
      OBVIOUS
    <3>1. /\ conns' = [conns EXCEPT ![c].users = Without(@, s)]
          /\ table' = RemoveRow(table, c, s)
      BY <2>4 DEF NodeRemoved
    <3>2. /\ \A d \in Server \ {c} : conns'[d] = conns[d]
          /\ conns'[c].users = Without(conns[c].users, s)
      BY <1>1, <3>1 DEF Connection
    <3>3. (\A d \in Server \ {c} : Q[d] = R[d]) /\ Q[c] = Without(R[c], s) /\ s \in DOMAIN R[c]
      BY <1>1, <2>4, <3>2
    <3>4. Sheet(RemoveRow(table, c, s).rows, RemoveRow(table, c, s).at, Q)
      BY <1>1, <3>3, RowRemoved
    <3>. QED
      BY <3>1, <3>4 DEF TableOK
  <2>5. CASE UNCHANGED client
    BY <1>2, <2>5 DEF client
  <2>6. CASE conns' = [conns EXCEPT ![c].id = m.session] /\ table' = table
    <3>1. \A d \in Server : conns'[d].users = conns[d].users
      BY <1>1, <2>6 DEF Connection
    <3>. QED
      BY <1>2, <2>6, <3>1
  <2>. QED
    BY <2>2, <2>3, <2>4, <2>5, <2>6 DEF NodeRemoved
<1>. QED
  BY <1>4, <1>5, <1>6, <1>7, <1>8, <1>9 DEF Next

LEMMA AlwaysTable == Spec => []TableOK
BY AlwaysBase, TableInit, TableStep, PTL DEF Spec

(* The rows of the user list are the users of all registries, each once,   *)
(* and the index that rows are found by finds each: a row that is taken out*)
(* moves those behind it, and the index is rebuilt (UserListModel.cpp:155).*)
THEOREM EveryoneIsListed == Spec => []ListShowsEveryone
<1>1. Base /\ TableOK => ListShowsEveryone
  <2>. SUFFICES ASSUME Base, TableOK PROVE ListShowsEveryone
    OBVIOUS
  <2>. PICK rows, at, R : rows = table.rows /\ at = table.at /\ R = Registries
    OBVIOUS
  <2>1. Sheet(rows, at, R)
    BY DEF TableOK
  <2>2. /\ rows \in Seq(Row) /\ DOMAIN rows = 1..Len(rows) /\ Len(rows) \in Nat
        /\ \A i \in DOMAIN rows :
             /\ rows[i] \in Row /\ rows[i].server \in Server /\ rows[i].session \in Session
             /\ Key(rows[i]) = <<rows[i].server, rows[i].session>>
    BY <2>1, RowsAre DEF Sheet
  <2>3. \A c \in Server : R[c] = conns[c].users
    BY RegistriesAre
  <2> DEFINE Of(x) == [server |-> x[1], session |-> x[2], name |-> conns[x[1]].users[x[2]]]
             pairs == {y \in Server \X Session : y[2] \in DOMAIN conns[y[1]].users}
  <2>4. Listed = {Of(x) : x \in pairs}
    BY DEF Listed
  <2>5. ASSUME NEW i \in DOMAIN rows PROVE rows[i] \in Listed
    <3>. PICK x : x = <<rows[i].server, rows[i].session>>
      OBVIOUS
    <3>1. x \in pairs
      BY <2>1, <2>2, <2>3 DEF Sheet
    <3>2. rows[i] = [server |-> x[1], session |-> x[2], name |-> rows[i].name]
      BY <2>2 DEF Row
    <3>3. rows[i].name = conns[x[1]].users[x[2]]
      BY <2>1, <2>2, <2>3 DEF Sheet
    <3>4. rows[i] = Of(x)
      BY <3>2, <3>3
    <3>. HIDE DEF Of, pairs
    <3>. QED
      BY <2>4, <3>1, <3>4
  <2>6. ASSUME NEW row \in Listed
        PROVE  /\ Key(row) \in DOMAIN at
               /\ at[Key(row)] \in DOMAIN rows /\ rows[at[Key(row)]] = row
    <3>1. PICK c \in Server, s \in Session :
            /\ s \in DOMAIN conns[c].users
            /\ row = [server |-> c, session |-> s, name |-> conns[c].users[s]]
      <4>1. PICK x \in pairs : row = Of(x)
        BY <2>4
      <4>. QED
        BY <4>1
    <3>2. Key(row) = <<c, s>> /\ <<c, s>> \in DOMAIN at
      BY <2>1, <2>3, <3>1 DEF Key, Sheet
    <3>. PICK i : i = at[<<c, s>>]
      OBVIOUS
    <3>3. i \in DOMAIN rows /\ Key(rows[i]) = <<c, s>>
      BY <2>1, <3>2 DEF Sheet
    <3>4. rows[i].server = c /\ rows[i].session = s /\ rows[i].name = conns[c].users[s]
      BY <2>1, <2>2, <2>3, <3>3 DEF Sheet
    <3>5. rows[i] = [server |-> c, session |-> s, name |-> conns[c].users[s]]
      BY <2>2, <3>3, <3>4 DEF Row
    <3>. QED
      BY <3>1, <3>2, <3>3, <3>5
  <2>. HIDE DEF Of, pairs
  <2>7. Range(rows) = Listed
    <3>1. \A row : row \in Listed => \E i \in DOMAIN rows : rows[i] = row
      BY <2>6
    <3>. QED
      BY <2>5, <3>1 DEF Range
  <2>8. Len(rows) = Cardinality(Listed)
    <3>1. rows \in [1..Len(rows) -> Listed]
      BY <2>2, <2>5
    <3>2. \A i, j \in DOMAIN rows : rows[i] = rows[j] => i = j
      BY <2>1 DEF Sheet
    <3>3. rows \in Surjection(1..Len(rows), Listed)
      BY <2>2, <2>6, <3>1 DEF Surjection
    <3>4. rows \in Injection(1..Len(rows), Listed)
      BY <2>2, <3>1, <3>2 DEF Injection, IsInjective
    <3>5. IsFiniteSet(1..Len(rows)) /\ Cardinality(1..Len(rows)) = Len(rows)
      BY <2>2, FS_Interval
    <3>. QED
      BY <3>3, <3>4, <3>5, FS_Surjection
  <2>9. DOMAIN at = {Key(row) : row \in Listed}
    <3>1. \A key \in DOMAIN at : rows[at[key]] \in Listed /\ Key(rows[at[key]]) = key
      BY <2>1, <2>5 DEF Sheet
    <3>. QED
      BY <2>6, <3>1
  <2>10. \A key \in DOMAIN at : at[key] \in DOMAIN rows /\ Key(rows[at[key]]) = key
    BY <2>1 DEF Sheet
  <2>. QED
    BY <2>7, <2>8, <2>9, <2>10 DEF ListShowsEveryone
<1>. QED
  BY <1>1, AlwaysBase, AlwaysTable, PTL

(* Types, the session ID that nobody else has and the bound on the list.   *)
THEOREM TypeCorrect == Spec => []TypeOK
<1>1. Base /\ TableOK => TypeOK
  <2>. SUFFICES ASSUME Base, TableOK PROVE TypeOK
    OBVIOUS
  <2>1. ASSUME NEW c \in Server
        PROVE  /\ conns[c].stage \in {"off", "connecting", "connected"}
               /\ conns[c].id \in Session \cup {NoId}
               /\ DOMAIN conns[c].users \subseteq Session
               /\ DOMAIN there[c] \subseteq Session
               /\ link[c].id \in (Session \cup {NoId}) \ DOMAIN there[c]
    <3>1. conns[c] \in Connection /\ there[c] \in Users /\ link[c] \in Link
      BY DEF Base, Typed
    <3>2. conns[c].users \in Users
      BY <3>1 DEF Connection
    <3>3. link[c].id \notin DOMAIN there[c]
      BY DEF Base, Linked
    <3>. QED
      BY <3>1, <3>2, <3>3, UsersType DEF Connection, Link
  <2>2. Len(table.rows) <= Cardinality(Server \X Session)
    <3>. PICK rows, at, R : rows = table.rows /\ at = table.at /\ R = Registries
      OBVIOUS
    <3>1. Sheet(rows, at, R)
      BY DEF TableOK
    <3>2. /\ DOMAIN rows = 1..Len(rows) /\ Len(rows) \in Nat
          /\ \A i \in DOMAIN rows : Key(rows[i]) \in Server \X Session
      BY <3>1, RowsAre DEF Sheet
    <3> DEFINE f == [i \in 1..Len(rows) |-> Key(rows[i])]
    <3>3. f \in [1..Len(rows) -> Server \X Session] /\ \A i \in 1..Len(rows) : f[i] = Key(rows[i])
      BY <3>2
    <3>. HIDE DEF f
    <3>4. \A i, j \in 1..Len(rows) : f[i] = f[j] => i = j
      BY <3>1, <3>2, <3>3 DEF Sheet
    <3>5. f \in Injection(1..Len(rows), Server \X Session)
      BY <3>3, <3>4 DEF Injection, IsInjective
    <3>6. IsFiniteSet(Server \X Session)
      BY ChatAssumption, FS_Product
    <3>7. Cardinality(1..Len(rows)) = Len(rows)
      BY <3>2, FS_Interval
    <3>. QED
      BY <3>5, <3>6, <3>7, FS_Injection
  <2>. QED
    BY <2>1, <2>2 DEF TypeOK
<1>. QED
  BY <1>1, AlwaysBase, AlwaysTable, PTL
=============================================================================
