------------------------------- MODULE DbLock -------------------------------
(***************************************************************************)
(* The database lock of the FreeHAL server.                                *)
(*                                                                         *)
(* hal2012-server starts one child process (hal2012-server-thread) per     *)
(* network client and three threads that copy lines between the child and  *)
(* the client.  The copying thread for the child's stderr, called t2 in    *)
(* the source, is also the lock service: the child brackets every database *)
(* session with the lines LOCK:DB and UNLOCK:DB and waits for their echo   *)
(* on its stdin, the stream the client's own commands arrive on.  All      *)
(* connections share one flag, lock_db, which t2 tests and sets in two     *)
(* separate steps.                                                         *)
(*                                                                         *)
(* Echoes and commands share a pipe, any line of a client with the text of *)
(* an echo in it passes for one, the flag is not owned, a client may leave *)
(* at any moment, and a line written to a dead child raises SIGPIPE, which *)
(* nobody handles, in the server: the properties below say what survives   *)
(* that.                                                                   *)
(***************************************************************************)
EXTENDS Naturals, Sequences, FiniteSets

CONSTANTS
  Conns,      (* Connections: one client, one child, one t2 and one t3 each. *)
  Droppable,  (* Connections whose client may go away.                       *)
  Crashable,  (* Connections whose child process may die.                    *)
  MaxLines,   (* Bound: lines each client sends.                             *)
  SessionsOf  (* Command -> the numbers of database sessions it may open.    *)

ASSUME DbLockAssumption ==
  /\ Droppable \subseteq Conns
  /\ Crashable \subseteq Conns
  /\ MaxLines \in [Conns -> Nat]
  /\ SessionsOf \in [DOMAIN SessionsOf -> SUBSET Nat]

VARIABLES
  up,       (* The server process is alive.                                  *)
  lock_db,  (* The server's global flag.                                     *)
  t2,       (* Where each child-to-network thread is.                        *)
  t3,       (* Whether each network-to-child thread still runs.              *)
  stream,   (* good() of the tcp::iostream that t2 and t3 share.             *)
  sent,     (* Lines each client has sent so far.                            *)
  child,    (* What each child process is doing.                             *)
  left,     (* Sessions the child's command has still to open.               *)
  loud,     (* The command prints a line inside its next session.            *)
  stdin,    (* Lines on their way into the child.                            *)
  stderr,   (* Lines on their way out of the child.                          *)
  owner,    (* History: connections whose t2 set the flag and has not        *)
            (* cleared it since.                                             *)
  raced,    (* History: two t2 have been between test and set together.      *)
  fooled    (* History: connections whose child took a line of its client    *)
            (* for an echo.                                                  *)

flags == <<lock_db, owner, raced>>
process == <<child, left, loud, fooled>>
vars == <<up, lock_db, t2, t3, stream, sent, child, left, loud,
          stdin, stderr, owner, raced, fooled>>

T2State == {"top", "read", "poll", "set", "gone"}
ChildState == {"idle", "run", "wantlock", "session", "wantunlock", "dead"}
(* What a client sends: a line, EXIT:, or a line that has the text LOCK:DB  *)
(* or UNLOCK:DB somewhere in it.  An EXIT: line with that text is the EXIT  *)
(* of an idle child and the other line for a child that waits for an echo.  *)
ClientLine == {"CMD", "EXIT", "SAYSLOCK", "SAYSUNLOCK"}
InLine  == ClientLine \union {"LOCK", "UNLOCK"}
OutLine == {"LOCK", "UNLOCK", "OUT"}

(* strstr(line, "LOCK:DB") finds the text anywhere, inside "UNLOCK:DB" too. *)
LooksLikeLock   == {"LOCK", "UNLOCK", "SAYSLOCK", "SAYSUNLOCK"}
LooksLikeUnlock == {"UNLOCK", "SAYSUNLOCK"}

(* Commands that print PROFACT: before they end their session.              *)
LoudCommands == {"GET", "REPLACE"}

Init ==
  /\ up = TRUE
  /\ lock_db = FALSE
  /\ t2 = [c \in Conns |-> "top"]
  /\ t3 = [c \in Conns |-> TRUE]
  /\ stream = [c \in Conns |-> TRUE]
  /\ sent = [c \in Conns |-> 0]
  /\ child = [c \in Conns |-> "idle"]
  /\ left = [c \in Conns |-> 0]
  /\ loud = [c \in Conns |-> FALSE]
  /\ stdin = [c \in Conns |-> <<>>]
  /\ stderr = [c \in Conns |-> <<>>]
  /\ owner = {}
  /\ raced = FALSE
  /\ fooled = {}

-----------------------------------------------------------------------------
(* The client and t3, stream_network_to_process.                            *)

(* The server writes a line to the child's stdin; if the child is dead, the *)
(* write kills the server.                                                  *)
Feed(c, line) ==
  IF child[c] = "dead"
    THEN up' = FALSE /\ UNCHANGED stdin
    ELSE stdin' = [stdin EXCEPT ![c] = Append(@, line)] /\ UNCHANGED up

(* t3 copies a line, whatever is in it.  After EXIT: its own copy of        *)
(* do_exit is set and it ends; t1 and t2 hold other copies and never learn  *)
(* of it.  Its copy of lock_request is always empty, so nothing is held     *)
(* back during a lock.                                                      *)
NetworkLine(c, line) ==
  /\ t3[c] /\ stream[c]
  /\ sent[c] < MaxLines[c]
  /\ sent' = [sent EXCEPT ![c] = @ + 1]
  /\ Feed(c, line)
  /\ t3' = [t3 EXCEPT ![c] = line # "EXIT"]
  /\ UNCHANGED <<flags, process, t2, stream, stderr>>

(* The client leaves: t3's getline sets the fail bit of the stream it       *)
(* shares with t2, and t3 ends.  The child's stdin stays open.              *)
Disconnect(c) ==
  /\ c \in Droppable /\ stream[c]
  /\ stream' = [stream EXCEPT ![c] = FALSE]
  /\ t3' = [t3 EXCEPT ![c] = FALSE]
  /\ UNCHANGED <<up, flags, process, t2, sent, stdin, stderr>>

-----------------------------------------------------------------------------
(* t2, stream_process_to_network.                                           *)

T2Goto(c, from, to) ==
  /\ t2[c] = from
  /\ t2' = [t2 EXCEPT ![c] = to]

(* The loop condition: a stream that failed ends the thread, whatever the   *)
(* child still has to say and whether or not it holds the lock.             *)
T2Top(c) ==
  /\ T2Goto(c, "top", IF stream[c] THEN "read" ELSE "gone")
  /\ UNCHANGED <<up, flags, process, t3, stream, sent, stdin, stderr>>

T2Eof(c) ==
  /\ child[c] = "dead" /\ stderr[c] = <<>>
  /\ T2Goto(c, "read", "gone")
  /\ UNCHANGED <<up, flags, process, t3, stream, sent, stdin, stderr>>

(* getline from the child's stderr.                                         *)
T2Take(c, line) ==
  /\ stderr[c] # <<>> /\ Head(stderr[c]) = line
  /\ stderr' = [stderr EXCEPT ![c] = Tail(@)]
  /\ UNCHANGED <<process, t3, stream, sent>>

T2Forward(c) ==
  /\ T2Take(c, "OUT")
  /\ T2Goto(c, "read", "top")
  /\ UNCHANGED <<up, flags, stdin>>

T2LockRequest(c) ==
  /\ T2Take(c, "LOCK")
  /\ T2Goto(c, "read", "poll")
  /\ UNCHANGED <<up, flags, stdin>>

(* Refuted variant: set_locked without is_locked.                           *)
T2PollNoTest(c) ==
  /\ T2Goto(c, "poll", "set")
  /\ raced' = (raced \/ \E d \in Conns \ {c} : t2[d] = "set")
  /\ UNCHANGED <<up, lock_db, owner, process, t3, stream, sent, stdin, stderr>>

(* One is_locked() call that answers FALSE.  A call that answers TRUE       *)
(* sleeps and changes nothing.                                              *)
T2Poll(c) ==
  /\ ~lock_db
  /\ T2Goto(c, "poll", "set")
  /\ raced' = (raced \/ \E d \in Conns \ {c} : t2[d] = "set")
  /\ UNCHANGED <<up, lock_db, owner, process, t3, stream, sent, stdin, stderr>>

(* set_locked(TRUE), the echo, and the copy of the line to the network.     *)
T2Set(c) ==
  /\ T2Goto(c, "set", "top")
  /\ lock_db' = TRUE
  /\ owner' = owner \union {c}
  /\ Feed(c, "LOCK")
  /\ UNCHANGED <<raced, process, t3, stream, sent, stderr>>

(* Refuted variant: the echo without set_locked(FALSE).                     *)
T2UnlockKeeps(c) ==
  /\ T2Take(c, "UNLOCK")
  /\ T2Goto(c, "read", "top")
  /\ owner' = owner \ {c}
  /\ Feed(c, "UNLOCK")
  /\ UNCHANGED <<lock_db, raced>>

(* set_locked(FALSE) without a look at who set it, the echo, and the copy.  *)
T2Unlock(c) ==
  /\ T2Take(c, "UNLOCK")
  /\ T2Goto(c, "read", "top")
  /\ lock_db' = FALSE
  /\ owner' = owner \ {c}
  /\ Feed(c, "UNLOCK")
  /\ UNCHANGED raced

-----------------------------------------------------------------------------
(* The child: its command loop, sql_begin and sql_end.                      *)

ChildGoto(c, from, to) ==
  /\ child[c] = from
  /\ child' = [child EXCEPT ![c] = to]

(* getline from stdin.                                                      *)
ChildTake(c) ==
  /\ stdin[c] # <<>>
  /\ stdin' = [stdin EXCEPT ![c] = Tail(@)]
  /\ UNCHANGED <<up, flags, t2, t3, stream, sent, stderr>>

(* The child prints a line on stderr and moves on; without a server to read *)
(* it, SIGPIPE ends the child instead.                                      *)
ChildSay(c, from, line, to) ==
  /\ ChildGoto(c, from, IF up THEN to ELSE "dead")
  /\ stderr' = [stderr EXCEPT ![c] = IF up THEN Append(@, line) ELSE @]
  /\ UNCHANGED <<up, flags, t2, t3, stream, sent, stdin>>

(* The command loop takes a command and knows how many sessions it opens.   *)
Command(c) ==
  /\ ChildTake(c) /\ Head(stdin[c]) \in ClientLine \ {"EXIT"}
  /\ ChildGoto(c, "idle", "run")
  /\ UNCHANGED fooled
  /\ \E k \in DOMAIN SessionsOf : \E n \in SessionsOf[k] :
       /\ left' = [left EXCEPT ![c] = n]
       /\ loud' = [loud EXCEPT ![c] = k \in LoudCommands]

(* A line that is no command: a client's, or an echo nobody waits for.      *)
Ignore(c) ==
  /\ ChildTake(c) /\ Head(stdin[c]) # "EXIT"
  /\ ChildGoto(c, "idle", "idle")
  /\ UNCHANGED <<left, loud, fooled>>

(* EXIT in the command loop.                                                *)
Exit(c) ==
  /\ ChildTake(c) /\ Head(stdin[c]) = "EXIT"
  /\ ChildGoto(c, "idle", "dead")
  /\ UNCHANGED <<left, loud, fooled>>

(* Refuted variant: a command that opens more sessions than it has.         *)
SqlBeginAgain(c) ==
  /\ left' = [left EXCEPT ![c] = @ - 1]
  /\ ChildSay(c, "run", "LOCK", "wantlock")
  /\ UNCHANGED <<loud, fooled>>

(* sql_begin: network_lock prints the request ...                           *)
SqlBegin(c) ==
  /\ left[c] > 0
  /\ left' = [left EXCEPT ![c] = @ - 1]
  /\ ChildSay(c, "run", "LOCK", "wantlock")
  /\ UNCHANGED <<loud, fooled>>

(* The child waits for an echo: it goes on with the first line that looks   *)
(* like it and drops every other one.                                       *)
TakeEcho(c, from, echoes, to) ==
  /\ ChildTake(c)
  /\ ChildGoto(c, from, IF Head(stdin[c]) \in echoes THEN to ELSE from)
  /\ fooled' = IF Head(stdin[c]) \in echoes \intersect ClientLine
                 THEN fooled \union {c} ELSE fooled
  /\ UNCHANGED <<left, loud>>

(* ... and waits for its echo.                                              *)
NetworkLock(c) == TakeEcho(c, "wantlock", LooksLikeLock, "session")

(* A line printed while the session is open.                                *)
PrintInSession(c) ==
  /\ loud[c]
  /\ loud' = [loud EXCEPT ![c] = FALSE]
  /\ ChildSay(c, "session", "OUT", "session")
  /\ UNCHANGED <<left, fooled>>

(* Refuted variants: a release nobody waits for, and none at all.           *)
SqlEndNoWait(c) ==
  /\ ~loud[c]
  /\ ChildSay(c, "session", "UNLOCK", "run")
  /\ UNCHANGED <<left, loud, fooled>>

SqlEndSilent(c) ==
  /\ ~loud[c]
  /\ ChildGoto(c, "session", "run")
  /\ UNCHANGED <<up, flags, left, loud, fooled, t2, t3, stream, sent, stdin,
                 stderr>>

(* sql_end: network_unlock prints the release and waits for its echo.       *)
SqlEnd(c) ==
  /\ ~loud[c]
  /\ ChildSay(c, "session", "UNLOCK", "wantunlock")
  /\ UNCHANGED <<left, loud, fooled>>

NetworkUnlock(c) == TakeEcho(c, "wantunlock", LooksLikeUnlock, "run")

(* The command's last line, then back to the command loop.                  *)
Finish(c) ==
  /\ left[c] = 0
  /\ ChildSay(c, "run", "OUT", "idle")
  /\ UNCHANGED <<left, loud, fooled>>

(* The server is gone and stdin is at its end: the command loop ends, and   *)
(* network_lock and network_unlock fall out of their loops as if the echo   *)
(* had come.                                                                *)
ChildEof(c) ==
  /\ ~up /\ stdin[c] = <<>>
  /\ \/ ChildGoto(c, "idle", "dead")
     \/ ChildGoto(c, "wantlock", "session")
     \/ ChildGoto(c, "wantunlock", "run")
  /\ UNCHANGED <<up, flags, left, loud, fooled, t2, t3, stream, sent, stdin,
                 stderr>>

(* The child process dies; what it has written can still be read.           *)
Crash(c) ==
  /\ c \in Crashable /\ child[c] # "dead"
  /\ child' = [child EXCEPT ![c] = "dead"]
  /\ UNCHANGED <<up, flags, left, loud, fooled, t2, t3, stream, sent, stdin,
                 stderr>>

-----------------------------------------------------------------------------
T2Step(c) ==
  /\ up
  /\ \/ T2Top(c) \/ T2Eof(c) \/ T2Forward(c) \/ T2LockRequest(c)
     \/ T2Poll(c) \/ T2Set(c) \/ T2Unlock(c)

ChildStep(c) ==
  \/ Command(c) \/ Ignore(c) \/ Exit(c) \/ SqlBegin(c) \/ NetworkLock(c)
  \/ PrintInSession(c) \/ SqlEnd(c) \/ NetworkUnlock(c) \/ Finish(c)
  \/ ChildEof(c)

ClientStep(c) ==
  /\ up
  /\ \/ \E line \in ClientLine : NetworkLine(c, line)
     \/ Disconnect(c)

Next == \E c \in Conns : T2Step(c) \/ ChildStep(c) \/ ClientStep(c) \/ Crash(c)

(* The operating system runs every thread and process that can run; no      *)
(* client has to send anything and no child has to die.                     *)
Fairness == \A c \in Conns : WF_vars(T2Step(c)) /\ WF_vars(ChildStep(c))

Spec == Init /\ [][Next]_vars
FairSpec == Spec /\ Fairness

-----------------------------------------------------------------------------
(* Properties.                                                              *)

(* Every variable keeps its type: thread and process positions, pipe        *)
(* contents, and lock_db as the plain C++ bool it is.                       *)
TypeOK ==
  /\ up \in BOOLEAN
  /\ lock_db \in BOOLEAN
  /\ t2 \in [Conns -> T2State]
  /\ t3 \in [Conns -> BOOLEAN]
  /\ stream \in [Conns -> BOOLEAN]
  /\ sent \in [Conns -> Nat] /\ \A c \in Conns : sent[c] <= MaxLines[c]
  /\ child \in [Conns -> ChildState]
  /\ left \in [Conns -> Nat]
  /\ loud \in [Conns -> BOOLEAN]
  /\ stdin \in [Conns -> Seq(InLine)]
  /\ stderr \in [Conns -> Seq(OutLine)]
  /\ owner \subseteq Conns
  /\ raced \in BOOLEAN
  /\ fooled \subseteq Conns

(* Connections whose child has only ever taken t2's echoes for echoes.      *)
Straight == Conns \ fooled

(* While the server lives, a child is inside sql_begin .. sql_end only      *)
(* while its own t2 has the flag set on its behalf: no command, no echo of  *)
(* an earlier UNLOCK:DB and no other connection's grant ever lets           *)
(* network_lock return.  Excepted are the children whose own client sent    *)
(* them the text of an echo while they waited for one.                      *)
SessionWasGranted ==
  up => \A c \in Straight : child[c] = "session" => c \in owner

(* Unless two t2 have once tested lock_db before either had set it, and     *)
(* while the server lives, at most one of the children that were never sent *)
(* an echo's text by their own client is inside a database session,         *)
(* whatever the others do, whatever clients leave and whatever children     *)
(* die.                                                                     *)
ExclusiveUnlessRaced ==
  up /\ ~raced =>
    \A c, d \in Straight : child[c] = "session" /\ child[d] = "session" => c = d

(* Unless two t2 raced, and while the server lives, lock_db is set exactly  *)
(* while some connection has it, whatever lines clients send: no release    *)
(* takes away another connection's lock, and a lock left behind by a        *)
(* connection that ended is still counted as taken.                         *)
FlagMatchesOwner ==
  up /\ ~raced => (lock_db <=> owner # {})

(* What the lock service promises, and the part each connection has in it:  *)
(* from the moment its t2 sets lock_db to the moment its t2 clears it.      *)
Promise ==
  IF ~up THEN "stopped" ELSE IF raced THEN "shared" ELSE "exclusive"

SessionStage(c) ==
  IF c \notin owner THEN "out"
  ELSE CASE child[c] = "wantlock"   -> "granted"
         [] child[c] = "session"    -> "inside"
         [] child[c] = "wantunlock" -> "leaving"
         [] child[c] = "dead"       -> "lost"
         [] OTHER                   -> "out"

Locks == INSTANCE SessionLock
           WITH Clients <- Conns, mode <- Promise, strays <- fooled,
                stage <- [c \in Conns |-> SessionStage(c)]

(* The processes, pipes and threads implement the lock service: every       *)
(* LOCK:DB that t2 grants serves exactly one session of the child that      *)
(* asked, the lock is given back after that session and not before, a lock  *)
(* whose child died is never given to anybody else, and only the race of    *)
(* two t2 between test and set lets a second grant in.  A child that took a *)
(* line of its client for an echo is a stray from then on: nothing is       *)
(* promised of its own sessions, everything of the others'.                 *)
ServesSessions == Locks!Spec

(* What sql_begin says it does ("Wait while database is used."): sessions   *)
(* of different processes never overlap.  The test and the set of lock_db   *)
(* are separate steps, so they can.                                         *)
NoConcurrentSessions ==
  \A c, d \in Conns : child[c] = "session" /\ child[d] = "session" => c = d

(* A lock that is taken is given back, unless the server dies or the lock   *)
(* belongs to a connection whose t2 has ended (its client left or its child *)
(* died) and can no longer hear UNLOCK:DB.                                  *)
LockReleased ==
  lock_db ~> (~up \/ ~lock_db \/ \E c \in owner : t2[c] = "gone")
=============================================================================
