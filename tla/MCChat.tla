------------------------------- MODULE MCChat -------------------------------
(* The users and the lines for Chat.  One user may be called 2, as a       *)
(* session is.                                                             *)
EXTENDS Chat

MCMatching == {<<"ann", "ann">>, <<"2", "2">>, <<"*", "ann">>, <<"*", "2">>, <<"*", "me">>}

Say(lead, words) == [lead |-> lead, words |-> words]
MCStored == [g |-> Say("/", <<"msg", "ann">>)]
MCInput ==
  {Say("", <<"hello">>), Say("/", <<"g", "hi">>), Say("/", <<"msg", "2", "hi">>),
   Say("/", <<"ping", "*">>), Say("/", <<"ignore", "ann">>), Say("/", <<"unalias", "g">>),
   Say("/", <<"disconnect">>)}
=============================================================================
