------------------------------ MODULE MCDbLock ------------------------------
(* Instances of DbLock for TLC.                                             *)
EXTENDS DbLock

(* Sessions per command, as the command loop of hal2012-server-thread.cpp   *)
(* and the functions it calls open them.  READ and REPLACE import a file:   *)
(* one session to delete its facts, one to read them again, one more per    *)
(* 15000 facts.                                                             *)
AllCommands ==
  [CSV |-> {1}, DELETE |-> {1}, REINDEX |-> {1}, READ |-> {2, 3},
   GET |-> {1}, REPLACE |-> {1, 4}, TALK |-> {0, 1}]

(* One session with a line printed inside, and two without.                 *)
ShortCommands == [GET |-> {1}, READ |-> {2}]

CONSTANT Talker  (* The connection whose client sends a second line.        *)

(* Two lines are what a client needs to have one of them taken for an echo. *)
OneTalker == [c \in Conns |-> IF c = Talker THEN 2 ELSE 1]
=============================================================================
