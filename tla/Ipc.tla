-------------------------------- MODULE Ipc --------------------------------
(***************************************************************************)
(* A statement: the child of a client has one sentence answered by a Perl  *)
(* interpreter that it starts for it.                                      *)
(*                                                                         *)
(* Three parties.  The main thread (hal2012_server_statement) queues the   *)
(* signal "input", starts the answer thread, joins it and shows what is in *)
(* output_by_signal.  The answer thread, called the reader here            *)
(* (perl5_execute), launches Perl, reads its signals and starts a thread   *)
(* for each.  Such a handler thread (hal2012_handle_signal) works on the   *)
(* signal and answers through hal2012_send_signal, a queue without locks   *)
(* behind a flag, running, that is tested and set in two steps.  Perl      *)
(* sends requests and fetches the answers by their type.                   *)
(*                                                                         *)
(* A signal of Perl is a number, counted over all statements; its answer   *)
(* has the same number.  Number 0 is the signal "input".                   *)
(***************************************************************************)
EXTENDS Naturals, Sequences, FiniteSets

CONSTANTS
  Asks,           (* Types of signals whose answer Perl fetches at once.     *)
  JoinAbove,      (* The reader joins its threads when they are more (5).    *)
  MaxSignals,     (* Bound: signals of Perl.                                 *)
  MaxStatements   (* Bound: statements.                                      *)

ASSUME IpcAssumption ==
  /\ Asks \intersect {"input", "output", "add_pro_file"} = {}
  /\ JoinAbove \in Nat /\ MaxSignals \in Nat /\ MaxStatements \in Nat

VARIABLES
  alive,       (* The child process has not crashed.                         *)
  main,        (* The main thread.                                           *)
  statements,  (* Statements begun.                                          *)
  first,       (* Signals Perl had sent before this statement.               *)
  output,      (* output_by_signal: 0, or the signal whose text it holds.    *)
  reader,      (* The answer thread.                                         *)
  threads,     (* Handlers in its vector, not joined yet.                    *)
  perl,        (* The interpreter.                                           *)
  want,        (* The signal whose answer it fetches.                        *)
  kind,        (* The types of the signals Perl has sent.                    *)
  toReader,    (* Signals in Perl's stdout.                                  *)
  toPerl,      (* Answers in Perl's stdin.                                   *)
  stash,       (* stdin_responses: answers of other types.                   *)
  at,          (* Where each handler thread is.                              *)
  next,        (* The index i of its loop over signals_to_child.             *)
  queue,       (* signals_to_child.                                          *)
  running,     (* The static flag of hal2012_send_signals.                   *)
  answer,      (* History: signal -> the signal whose answer Perl took.      *)
  raced,       (* History: two threads have passed the test of running.      *)
  missed,      (* History: a signal was queued behind a sender's back, or    *)
               (* over another one.                                          *)
  torn,        (* History: two threads at the vector have crashed the child. *)
  killer,      (* History: the answer whose write crashed it, or 0.          *)
  overtaken    (* History: an "output" was stored before an earlier one.     *)

statement == <<main, statements, first>>
interpreter == <<perl, want, kind, stash, answer>>
history == <<raced, missed, torn, killer, overtaken>>
vars == <<alive, statement, output, reader, threads, interpreter, toReader,
          toPerl, at, next, queue, running, history>>

Signal == 1..MaxSignals
Kind == Asks \union {"output", "add_pro_file"}
Type(s) == IF s = 0 THEN "input" ELSE kind[s]
Place == {"none", "work", "push", "test", "set", "loop", "clear", "reset", "done"}

Init ==
  /\ alive = TRUE
  /\ main = "idle" /\ statements = 0 /\ first = 0 /\ output = 0
  /\ reader = "off" /\ threads = {}
  /\ perl = "off" /\ want = 0 /\ kind = <<>> /\ stash = <<>>
  /\ toReader = <<>> /\ toPerl = <<>>
  /\ at = [s \in Signal |-> "none"]
  /\ next = [s \in Signal |-> 1]
  /\ queue = <<>> /\ running = FALSE
  /\ answer = [s \in Signal |-> 0]
  /\ raced = FALSE /\ missed = FALSE /\ torn = FALSE /\ killer = 0
  /\ overtaken = FALSE

-----------------------------------------------------------------------------
(* The main thread.                                                         *)

(* output_by_signal = "", and hal2012_answer: the signal "input" is queued  *)
(* while nobody can send it, and the answer thread started and joined.      *)
Begin ==
  /\ main = "idle" /\ statements < MaxStatements
  /\ main' = "join"
  /\ statements' = statements + 1
  /\ first' = Len(kind)
  /\ output' = 0
  /\ queue' = Append(queue, 0)
  /\ reader' = "launch"
  /\ UNCHANGED <<alive, threads, interpreter, toReader, toPerl, at, next,
                 running, history>>

(* The loop that waits for output_by_signal, and the display.  Its outer    *)
(* loop, which would try again, ends with the first output.                 *)
Show ==
  /\ main = "poll" /\ output # 0
  /\ main' = "idle"
  /\ UNCHANGED <<alive, statements, first, output, reader, threads, interpreter,
                 toReader, toPerl, at, next, queue, running, history>>

-----------------------------------------------------------------------------
(* The reader, perl5_execute.                                               *)

Joinable == \A s \in threads : at[s] = "done"

(* Perl is launched and gets what is queued.                                *)
Launch ==
  /\ reader = "launch"
  /\ reader' = "read"
  /\ perl' = "fetch" /\ want' = 0
  /\ toPerl' = queue
  /\ queue' = <<>>
  /\ UNCHANGED <<alive, statement, output, threads, kind, stash, answer,
                 toReader, at, next, running, history>>

(* A signal gets its thread; a full vector is joined at once.               *)
Receive ==
  /\ reader = "read" /\ toReader # <<>>
  /\ toReader' = Tail(toReader)
  /\ at' = [at EXCEPT ![Head(toReader)] = "work"]
  /\ threads' = threads \union {Head(toReader)}
  /\ reader' = IF Cardinality(threads') > JoinAbove THEN "full" ELSE "read"
  /\ UNCHANGED <<alive, statement, output, interpreter, toPerl, next, queue,
                 running, history>>

JoinFull ==
  /\ reader = "full" /\ Joinable
  /\ reader' = "read"
  /\ threads' = {}
  /\ UNCHANGED <<alive, statement, output, interpreter, toReader, toPerl, at,
                 next, queue, running, history>>

(* Refuted variant: the answer thread ends with its handlers still running. *)
FinishUnjoined ==
  /\ reader = "read" /\ perl = "off" /\ toReader = <<>>
  /\ reader' = "off"
  /\ threads' = {}
  /\ main' = "poll"
  /\ toPerl' = <<>> /\ stash' = <<>>
  /\ UNCHANGED <<alive, statements, first, output, perl, want, kind, answer,
                 toReader, at, next, queue, running, history>>

(* Perl has closed its stdout: the threads are joined, Perl waited for.     *)
Finish ==
  /\ reader = "read" /\ perl = "off" /\ toReader = <<>>
  /\ Joinable
  /\ reader' = "off"
  /\ threads' = {}
  /\ main' = "poll"
  /\ toPerl' = <<>> /\ stash' = <<>>
  /\ UNCHANGED <<alive, statements, first, output, perl, want, kind, answer,
                 toReader, at, next, queue, running, history>>

-----------------------------------------------------------------------------
(* Perl: the shell of hal2012.hal and the signals of hal2012-util.hal.      *)

Send(k) ==
  /\ perl = "free" /\ Len(kind) < MaxSignals
  /\ kind' = Append(kind, k)
  /\ toReader' = Append(toReader, Len(kind) + 1)
  /\ UNCHANGED <<alive, statement, output, reader, threads, toPerl, at, next,
                 queue, running, history>>

(* The answers of a type among those put aside.                             *)
InStash(k) == {i \in DOMAIN stash : Type(stash[i]) = k}
Without(i) == SubSeq(stash, 1, i - 1) \o SubSeq(stash, i + 1, Len(stash))

(* A request: hal2012_send_signal, and hal2012_fetch_signal's look at the   *)
(* answers put aside.                                                       *)
Ask(k) ==
  /\ Send(k)
  /\ want' = Len(kind) + 1
  /\ IF InStash(k) = {}
       THEN perl' = "fetch" /\ UNCHANGED <<stash, answer>>
       ELSE \E i \in InStash(k) :
            /\ \A j \in InStash(k) : i <= j
            /\ answer' = [answer EXCEPT ![Len(kind) + 1] = stash[i]]
            /\ stash' = Without(i)
            /\ UNCHANGED perl

(* reread_pro_file, which fetches no answer, and the lines of the answer.   *)
Tell(k) ==
  /\ Send(k)
  /\ UNCHANGED <<perl, want, stash, answer>>

(* hal2012_fetch_signal reads an answer: the type it waits for, or another. *)
Fetch ==
  /\ perl = "fetch" /\ toPerl # <<>>
  /\ toPerl' = Tail(toPerl)
  /\ IF Type(Head(toPerl)) = Type(want)
       THEN /\ perl' = "free"
            /\ answer' = IF want = 0 THEN answer
                         ELSE [answer EXCEPT ![want] = Head(toPerl)]
            /\ UNCHANGED stash
       ELSE /\ stash' = Append(stash, Head(toPerl))
            /\ UNCHANGED <<perl, answer>>
  /\ UNCHANGED <<alive, statement, output, reader, threads, want, kind, toReader,
                 at, next, queue, running, history>>

(* The shell ends, with or without a line of output.                        *)
Exit ==
  /\ perl = "free"
  /\ perl' = "off"
  /\ UNCHANGED <<alive, statement, output, reader, threads, want, kind, stash,
                 answer, toReader, toPerl, at, next, queue, running, history>>

-----------------------------------------------------------------------------
(* A handler thread: the work, then hal2012_send_signal.                    *)

Goto(s, from, to) ==
  /\ at[s] = from
  /\ at' = [at EXCEPT ![s] = to]
  /\ UNCHANGED <<statement, reader, threads, interpreter, toReader>>

Others(s, place) == {t \in Signal \ {s} : at[t] = place}

(* A line of output is stored.                                              *)
Store(s) ==
  /\ kind[s] = "output"
  /\ Goto(s, "work", "done")
  /\ output' = s
  /\ overtaken' = (overtaken \/ \E t \in Others(s, "work") :
                                 t < s /\ kind[t] = "output")
  /\ UNCHANGED <<alive, toPerl, next, queue, running, raced, missed, torn, killer>>

(* The tagger, the grammar, a database session or a conversion has run.  It *)
(* may never come to that: a session waits in network_lock, which has no    *)
(* end while lock_db stays set, and the tagger asks the client for words it *)
(* does not know.                                                           *)
Work(s) ==
  /\ kind[s] # "output"
  /\ Goto(s, "work", "push")
  /\ UNCHANGED <<alive, output, toPerl, next, queue, running, history>>

(* The vector is no shared object by itself: what happens when two threads  *)
(* are at it, and one of them changes it, is undefined.  It may work, lose   *)
(* one of two elements written to the same place, or crash.                 *)
Contended(s) == \E t \in Signal \ {s} : at[t] \in {"push", "loop", "clear"}
MayTear(s) ==
  \/ UNCHANGED <<alive, torn>>
  \/ Contended(s) /\ alive' = FALSE /\ torn' = TRUE

(* push_back                                                                *)
Push(s) ==
  /\ Goto(s, "push", "test")
  /\ \/ /\ queue' = Append(queue, s)
        /\ missed' = (missed \/ Others(s, "clear") # {})
     \/ /\ Others(s, "push") # {}
        /\ missed' = TRUE
        /\ UNCHANGED queue
  /\ MayTear(s)
  /\ UNCHANGED <<output, toPerl, next, running, raced, killer, overtaken>>

(* Refuted variant: no look at running.                                     *)
TestNothing(s) ==
  /\ Goto(s, "test", "set")
  /\ UNCHANGED <<alive, output, toPerl, next, queue, running, history>>

(* if (running) return                                                      *)
Test(s) ==
  /\ Goto(s, "test", IF running THEN "done" ELSE "set")
  /\ raced' = (raced \/ (~running /\ Others(s, "set") # {}))
  /\ missed' = (missed \/ (running /\ Others(s, "reset") # {}))
  /\ UNCHANGED <<alive, output, toPerl, next, queue, running, torn, killer, overtaken>>

(* Refuted variant: the loop begins before the first answer.                *)
SetFromZero(s) ==
  /\ Goto(s, "set", "loop")
  /\ running' = TRUE
  /\ next' = [next EXCEPT ![s] = 0]
  /\ UNCHANGED <<alive, output, toPerl, queue, history>>

Set(s) ==
  /\ Goto(s, "set", "loop")
  /\ running' = TRUE
  /\ next' = [next EXCEPT ![s] = 1]
  /\ UNCHANGED <<alive, output, toPerl, queue, history>>

(* One turn of the loop.  Perl's stdin has no reader once Perl has ended:   *)
(* the write raises SIGPIPE.                                                *)
Deliver(s) ==
  /\ next[s] <= Len(queue)
  /\ Goto(s, "loop", "loop")
  /\ next' = [next EXCEPT ![s] = @ + 1]
  /\ IF perl = "off"
       THEN alive' = FALSE /\ killer' = queue[next[s]] /\ UNCHANGED toPerl
       ELSE toPerl' = Append(toPerl, queue[next[s]]) /\ UNCHANGED <<alive, killer>>
  /\ UNCHANGED <<output, queue, running, raced, missed, torn, overtaken>>

(* Refuted variant: the loop ends before the last answer.                   *)
LoopEndsEarly(s) ==
  /\ next[s] >= Len(queue)
  /\ Goto(s, "loop", "clear")
  /\ UNCHANGED <<alive, output, toPerl, next, queue, running, history>>

LoopEnds(s) ==
  /\ next[s] > Len(queue)
  /\ Goto(s, "loop", "clear")
  /\ UNCHANGED <<alive, output, toPerl, next, queue, running, history>>

(* Refuted variant: the queue is not cleared.                               *)
ClearNothing(s) ==
  /\ Goto(s, "clear", "reset")
  /\ UNCHANGED <<alive, output, toPerl, next, queue, running, history>>

Clear(s) ==
  /\ Goto(s, "clear", "reset")
  /\ queue' = <<>>
  /\ MayTear(s)
  /\ UNCHANGED <<output, toPerl, next, running, raced, missed, killer, overtaken>>

(* Refuted variant: running stays set.                                      *)
ResetNothing(s) ==
  /\ Goto(s, "reset", "done")
  /\ UNCHANGED <<alive, output, toPerl, next, queue, running, history>>

Reset(s) ==
  /\ Goto(s, "reset", "done")
  /\ running' = FALSE
  /\ UNCHANGED <<alive, output, toPerl, next, queue, history>>

-----------------------------------------------------------------------------
MainStep == Begin \/ Show
ReaderStep == Launch \/ Receive \/ JoinFull \/ Finish
PerlStep == (\E k \in Asks : Ask(k)) \/ (\E k \in Kind \ Asks : Tell(k)) \/ Exit
SendStep(s) ==
  \/ Push(s) \/ Test(s) \/ Set(s) \/ Deliver(s) \/ LoopEnds(s) \/ Clear(s)
  \/ Reset(s)
HandlerStep(s) == Store(s) \/ Work(s) \/ SendStep(s)

Next ==
  /\ alive
  /\ \/ MainStep \/ ReaderStep \/ PerlStep \/ Fetch
     \/ \E s \in DOMAIN kind : HandlerStep(s)

Spec == Init /\ [][Next]_vars

(* Threads and processes run when they can; Perl's script comes to its end. *)
(* Nothing is assumed of Work: it waits for others.                         *)
Fairness ==
  /\ WF_vars(alive /\ Show)
  /\ WF_vars(alive /\ ReaderStep)
  /\ WF_vars(alive /\ Fetch)
  /\ WF_vars(alive /\ PerlStep)
  /\ \A s \in Signal :
       WF_vars(alive /\ s \in DOMAIN kind /\ (Store(s) \/ SendStep(s)))
FairSpec == Spec /\ Fairness

-----------------------------------------------------------------------------
(* Properties.                                                              *)

Holds(seq, s) == \E i \in DOMAIN seq : seq[i] = s

(* Variables keep their types.                                              *)
TypeOK ==
  /\ alive \in BOOLEAN /\ running \in BOOLEAN
  /\ raced \in BOOLEAN /\ missed \in BOOLEAN /\ torn \in BOOLEAN /\ overtaken \in BOOLEAN
  /\ main \in {"idle", "join", "poll"}
  /\ reader \in {"off", "launch", "read", "full"}
  /\ perl \in {"off", "fetch", "free"}
  /\ statements \in 0..MaxStatements
  /\ first \in 0..MaxSignals /\ output \in 0..MaxSignals
  /\ want \in 0..MaxSignals /\ killer \in 0..MaxSignals
  /\ threads \subseteq Signal
  /\ kind \in Seq(Kind) /\ Len(kind) <= MaxSignals
  /\ toReader \in Seq(Signal) /\ toPerl \in Seq(0..MaxSignals)
  /\ stash \in Seq(0..MaxSignals) /\ queue \in Seq(0..MaxSignals)
  /\ at \in [Signal -> Place]
  /\ next \in [Signal -> Nat \ {0}]
  /\ answer \in [Signal -> 0..MaxSignals]

(* Perl matches answers to requests by their type alone.  Unless two        *)
(* handlers have passed the test of running together, what it takes for the *)
(* answer of a request is that request's answer, never one of an earlier    *)
(* request or statement.                                                    *)
OwnAnswers ==
  ~raced => \A s \in Signal : answer[s] \in {0, s}

(* Unless two handlers have raced so, no answer is sent to Perl twice.      *)
SentOnce ==
  ~raced => \A i, j \in DOMAIN (toPerl \o stash) :
    (toPerl \o stash)[i] = (toPerl \o stash)[j] => i = j

(* Unless a signal was queued after the sender's last look at the queue, or  *)
(* over another one (or two senders have raced), no answer that Perl waits  *)
(* for is lost: its handler is still at it, or a sender will get to it, or  *)
(* it is on its way.                                                        *)
NothingLost ==
  alive /\ ~raced /\ ~missed /\ perl = "fetch" =>
    \/ Holds(toPerl, want)
    \/ Holds(toReader, want)
    \/ want # 0 /\ at[want] \in {"work", "push", "test", "set"}
    \/ Holds(queue, want) /\ \E t \in Signal : at[t] = "loop"

(* The write to a Perl that has ended, which kills the child, only happens  *)
(* with the answer of a reread_pro_file, which nobody fetches.              *)
OnlyUnfetchedKills ==
  ~raced /\ killer # 0 => kind[killer] = "add_pro_file"

(* What a statement shows is the last line of output its Perl has sent,     *)
(* unless the threads of two such lines have overtaken one another; it is   *)
(* never a line of an earlier statement.                                    *)
ShowsLastOutput ==
  main = "poll" /\ ~overtaken =>
    LET lines == {s \in DOMAIN kind : s > first /\ kind[s] = "output"} IN
    IF lines = {} THEN output = 0
    ELSE output \in lines /\ \A s \in lines : s <= output

(* The work of a handler never ends.                                        *)
Stuck == \E s \in Signal : [](at[s] = "work")

(* Perl gets the answer it waits for, unless it was lost in one of the ways *)
(* above, the child has crashed, or some handler's work waits for ever (for *)
(* the database lock, for the client), its own or one the reader joins.     *)
AnswerArrives ==
  perl = "fetch" ~> (perl # "fetch" \/ raced \/ missed \/ ~alive \/ Stuck)

(* What the text for a statement without output says the program does:      *)
(* "Unable to get an answer. Try again later." is shown after three tries,  *)
(* so that every statement ends.  But the wait for the first output has no  *)
(* end, even if no handler waits for ever.                                  *)
StatementEnds ==
  main = "join" ~> (main = "idle" \/ raced \/ missed \/ ~alive \/ Stuck)
=============================================================================
