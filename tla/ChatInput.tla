----------------------------- MODULE ChatInput -----------------------------
(***************************************************************************)
(* What the user types into the chat line: src/core/ChatAliases.cpp,       *)
(* src/core/ChatCommandParser.cpp and src/core/UserFilterSet.cpp.          *)
(*                                                                         *)
(* A line is trimmed and in lower case: [lead, words], where lead is "",   *)
(* "/" or "//" and words are the words behind it, at least one.            *)
(***************************************************************************)
EXTENDS Naturals, Sequences

CONSTANTS
  Matching,   \* <<pattern, name>>: which names each word matches as a glob
  Wildcards   \* the words that contain * or ?

(* An alias is a line.  It is put in place of its name once, so an alias   *)
(* of an alias is not followed.                                            *)
Expand(aliases, line) ==
  IF line.lead = "/" /\ Head(line.words) \in DOMAIN aliases
    THEN [aliases[Head(line.words)] EXCEPT !.words = @ \o Tail(line.words)]
    ELSE line

SetAlias(aliases, name, value) ==
  [n \in DOMAIN aliases \cup {name} |-> IF n = name THEN value ELSE aliases[n]]
RemoveAlias(aliases, name) == [n \in DOMAIN aliases \ {name} |-> aliases[n]]
-----------------------------------------------------------------------------
Commands ==
  {"nick", "status", "away", "msg", "ping", "connect", "start", "query", "stop", "get",
   "ignore", "watch", "autopriv", "alias", "unalias", "disconnect", "clear", "help",
   "info", "quit"}

Command(type, target, argument) ==
  [type |-> type, target |-> target, argument |-> argument]

(* Target and argument are sequences of words.  An action keeps its /me.   *)
Parse(line) ==
  LET first == Head(line.words)
      rest == Tail(line.words)
      upTo == IF rest = <<>> THEN 0 ELSE 1
  IN CASE line.lead \in {"", "//"} -> Command("none", <<>>, line.words)
       [] line.lead = "/" /\ first = "me" -> Command("action", <<>>, line.words)
       [] line.lead = "/" /\ first \in {"msg", "ping", "alias"} ->
            Command(first, SubSeq(rest, 1, upTo), SubSeq(rest, 1 + upTo, Len(rest)))
       [] line.lead = "/" /\ first = "query" -> Command("start", <<>>, rest)
       [] line.lead = "/" /\ first \in Commands -> Command(first, <<>>, rest)
       [] OTHER -> Command("unknown", <<>>, <<>>)
-----------------------------------------------------------------------------
(* A filter is the set of its entries, SplitEntries.                       *)
Matches(filter, name, session) ==
  \E entry \in filter : entry = session \/ <<entry, name>> \in Matching
=============================================================================
