----------------------------- MODULE ChatLogger -----------------------------
(***************************************************************************)
(* The chat log, src/core/ChatLogger.cpp: a file per day that is opened    *)
(* when a line is to be written and kept open until the day, the folder or *)
(* the server changes.  A path is <<folder, server, day>>.                 *)
(***************************************************************************)

NoFile == <<>>

NewLogger == [enabled |-> FALSE, directory |-> "", server |-> "", path |-> NoFile]

CloseFile(l) == [l EXCEPT !.path = NoFile]

(* Each setter closes the file when its value changes.                     *)
SetEnabled(l, enabled) ==
  LET changed == [l EXCEPT !.enabled = enabled] IN
  IF enabled THEN changed ELSE CloseFile(changed)
SetLogDirectory(l, directory) ==
  IF directory = l.directory THEN l ELSE CloseFile([l EXCEPT !.directory = directory])
SetServerKeepingFile(l, server) ==   \* mutant: the file is kept open
  [l EXCEPT !.server = server]
SetServerName(l, server) ==
  IF server = l.server THEN l ELSE CloseFile([l EXCEPT !.server = server])

(* The path of the file, cleared with it, tells the day it was opened: it  *)
(* stands for fFile, fCurrentPath and fCurrentDate.  Sanitising the name   *)
(* is left out: one server, one name.                                      *)
PathOn(l, today) ==
  <<l.directory, IF l.server = "" THEN "chat" ELSE l.server, today>>

IsOpen(l, today) == l.path # NoFile /\ l.path[3] = today
EnsureFileOpen(l, today, opens) ==
  IF IsOpen(l, today) THEN l
  ELSE IF opens /\ l.directory # "" THEN [l EXCEPT !.path = PathOn(l, today)]
  ELSE CloseFile(l)

(* Log: the logger afterwards; the line goes into the file at its path.    *)
Log(l, today, opens) == IF l.enabled THEN EnsureFileOpen(l, today, opens) ELSE l
=============================================================================
