------------------------------ MODULE UserList ------------------------------
(***************************************************************************)
(* Who is online: a registry of each connection, src/core/UserRegistry.cpp,*)
(* and the rows of the user list, src/qt/UserListModel.cpp.                *)
(*                                                                         *)
(* A registry is a function from session IDs to names, "" while unnamed.   *)
(* A table is [rows, at]: fUsers, and fRowsByKey, the row of each user.    *)
(***************************************************************************)
EXTENDS ChatInput, Subsequences, SequencesExt

NoUsers == <<>>
Without(f, x) == [y \in DOMAIN f \ {x} |-> f[y]]
With(f, x, v) == [y \in DOMAIN f \cup {x} |-> IF y = x THEN v ELSE f[y]]

DisplayName(users, session) ==
  IF session \in DOMAIN users /\ users[session] # "" THEN users[session] ELSE session

(* A session ID first, then names, and then, only for what looks like a    *)
(* pattern, the names it matches.                                          *)
ResolveToSessionIds(users, typed) ==
  LET named == {s \in DOMAIN users : users[s] = typed}
      matched == {s \in DOMAIN users : <<typed, users[s]>> \in Matching}
  IN IF typed \in DOMAIN users THEN {typed}
     ELSE IF named # {} THEN named
     ELSE IF typed \in Wildcards THEN matched
     ELSE {}
-----------------------------------------------------------------------------
NoRows == [rows |-> <<>>, at |-> <<>>]

Key(row) == <<row.server, row.session>>

RebuildIndex(rows) ==
  [key \in {Key(rows[i]) : i \in DOMAIN rows} |->
     CHOOSE i \in DOMAIN rows : Key(rows[i]) = key]

(* UpdateUser, of each session in names: its row gets the new name in      *)
(* place, found by the index, or one is added at the end.                  *)
UpdateUsers(table, server, names) ==
  LET known == {s \in DOMAIN names : <<server, s>> \in DOMAIN table.at}
      new == SetToSeq(DOMAIN names \ known)
      Row(s) == [server |-> server, session |-> s, name |-> names[s]]
      RowsOf(i) == {s \in known : table.at[<<server, s>>] = i}
  IN [rows |-> [i \in DOMAIN table.rows |->
                  IF RowsOf(i) = {} THEN table.rows[i] ELSE Row(CHOOSE s \in RowsOf(i) : TRUE)]
               \o [i \in DOMAIN new |-> Row(new[i])],
      at |-> [key \in DOMAIN table.at \cup {<<server, s>> : s \in DOMAIN names} |->
                IF key \in DOMAIN table.at THEN table.at[key]
                ELSE Len(table.rows) + CHOOSE i \in DOMAIN new : <<server, new[i]>> = key]]

RowPatched(table, server, session) ==   \* mutant: the index is patched, not rebuilt
  IF <<server, session>> \notin DOMAIN table.at THEN table
  ELSE [rows |-> Picked(table.rows, DOMAIN table.rows \ {table.at[<<server, session>>]}),
        at |-> Without(table.at, <<server, session>>)]
RemoveRow(table, server, session) ==
  IF <<server, session>> \notin DOMAIN table.at THEN table
  ELSE LET kept == Picked(table.rows, DOMAIN table.rows \ {table.at[<<server, session>>]})
       IN [rows |-> kept, at |-> RebuildIndex(kept)]

RemoveRowsOf(table, server) ==
  LET kept == Picked(table.rows, {i \in DOMAIN table.rows : table.rows[i].server # server})
  IN [rows |-> kept, at |-> RebuildIndex(kept)]
=============================================================================
