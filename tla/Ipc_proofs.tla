----------------------------- MODULE Ipc_proofs -----------------------------
(***************************************************************************)
(* The safety properties of Ipc, for any types of requests, any number of  *)
(* signals and statements and any number of handler threads.               *)
(*                                                                         *)
(* At most one thread is sending unless two have raced (OneSender).  So it *)
(* is clear which signals in the queue have been sent: those before the    *)
(* index of the sender, if there is one.  A signal that has not been sent  *)
(* is nowhere else (NotSent), one that has been sent is in one place only  *)
(* (Sent), and what Perl may still ask for is its last request only        *)
(* (Answered).                                                             *)
(***************************************************************************)
EXTENDS Ipc, Integers, TLAPS

USE IpcAssumption

(* The signals the reader has received.                                     *)
Received == Len(kind) - Len(toReader)

(* The answer of x has been put in the queue, at least.                     *)
Pushed(x) ==
  x \in DOMAIN kind /\ kind[x] # "output" /\ at[x] \notin {"none", "work", "push"}

Sending == {"set", "loop", "clear", "reset"}
Distinct(seq) == \A i, j \in DOMAIN seq : seq[i] = seq[j] => i = j

(* No thread that sends has come past the i-th element of the queue.        *)
Unsent(i) == \A t \in Signal : at[t] \in {"loop", "clear"} => next[t] <= i

Looping == \E t \in Signal : at[t] = "loop"
AllSent == \A i \in DOMAIN queue : ~Unsent(i)

(* A statement has its threads and its Perl; a new one starts with none.    *)
Threads ==
  /\ main = "join" <=> reader # "off"
  /\ reader \in {"off", "launch"} =>
       perl = "off" /\ toReader = <<>> /\ toPerl = <<>> /\ stash = <<>> /\ threads = {}
  /\ \A s \in Signal : at[s] \notin {"none", "done"} => s \in threads

(* Signals are received in the order in which they were sent.               *)
Arrival ==
  /\ first <= Len(kind) /\ Len(toReader) <= Len(kind)
  /\ \A i \in DOMAIN toReader : toReader[i] = Received + i
  /\ \A s \in Signal : at[s] = "none" <=> s > Received
  /\ \A s \in Signal : s <= first => at[s] = "done"
  /\ \A s \in DOMAIN kind : kind[s] = "output" => at[s] \in {"none", "work", "done"}

(* The queue has every answer once at most, and "input" until Perl has it.  *)
Queued ==
  /\ \A i \in DOMAIN queue :
       (queue[i] = 0 /\ reader = "launch") \/ (queue[i] # 0 /\ Pushed(queue[i]))
  /\ Distinct(queue)
  /\ reader = "launch" => Holds(queue, 0)

(* Perl waits for "input" or the answer of a request.                       *)
Waits ==
  /\ perl = "fetch" => want = 0 \/ (want \in DOMAIN kind /\ kind[want] \in Asks)
  /\ perl = "fetch" /\ want = 0 => Holds(toPerl, 0)

(* The flag running says whether somebody sends.                            *)
OneSender ==
  /\ \A s, t \in Signal : at[s] \in Sending /\ at[t] \in Sending => s = t
  /\ running <=> \E t \in Signal : at[t] \in {"loop", "clear", "reset"}

(* What has been sent to Perl is there once.  The answer of a request is    *)
(* there only while Perl waits for it.                                      *)
Sent ==
  /\ \A x \in 0..MaxSignals : Holds(toPerl, x) =>
       /\ x = 0 \/ Pushed(x)
       /\ x = 0 \/ kind[x] \in Asks => perl = "fetch" /\ want = x
       /\ ~Holds(stash, x)
  /\ \A x \in 0..MaxSignals : Holds(stash, x) =>
       x # 0 /\ Pushed(x) /\ kind[x] \notin Asks
  /\ Distinct(toPerl) /\ Distinct(stash)

NotSent ==
  \A i \in DOMAIN queue : Unsent(i) =>
    /\ ~Holds(toPerl, queue[i]) /\ ~Holds(stash, queue[i])
    /\ queue[i] # 0 => answer[queue[i]] = 0

(* OwnAnswers; only the last request may have none yet.                     *)
Answered ==
  \A s \in Signal :
    /\ answer[s] # 0 => answer[s] = s /\ Pushed(s) /\ kind[s] \in Asks
    /\ s \in DOMAIN kind /\ kind[s] \in Asks /\ answer[s] = 0 => perl = "fetch" /\ want = s

(* Unless something was missed, a sender goes on until it has sent all, and *)
(* whoever queues an answer finds a sender or becomes one.                  *)
Reached ==
  /\ \A t \in Signal : at[t] = "loop" => next[t] <= Len(queue) + 1
  /\ \A t \in Signal : at[t] = "clear" => next[t] > Len(queue)
  /\ \A i \in DOMAIN queue : Unsent(i) /\ queue[i] # 0 =>
       at[queue[i]] \in {"test", "set"} \/ \E t \in Signal : at[t] = "loop"
  /\ perl = "fetch" /\ want # 0 =>
       \/ Holds(toPerl, want)
       \/ at[want] \in {"none", "work", "push"}
       \/ \E i \in DOMAIN queue : queue[i] = want /\ Unsent(i)

(* Lines of output that were stored; what was stored last is the last one.  *)
Lines == {s \in DOMAIN kind : kind[s] = "output" /\ at[s] = "done"}

InOrder ==
  /\ \A s, t \in DOMAIN kind : s < t /\ kind[s] = "output" /\ t \in Lines => s \in Lines
  /\ IF \E s \in Lines : s > first
       THEN output \in Lines /\ output > first /\ \A s \in Lines : s <= output
       ELSE output = 0

Unfetched == killer # 0 => killer \in DOMAIN kind /\ kind[killer] = "add_pro_file"

IInv ==
  /\ TypeOK
  /\ Threads /\ Arrival /\ Queued /\ Waits
  /\ ~raced => OneSender /\ Sent /\ NotSent /\ Answered /\ Unfetched
  /\ ~raced /\ ~missed => Reached
  /\ ~overtaken => InOrder
-----------------------------------------------------------------------------
(* Sequences.                                                               *)

LEMMA AppendHolds ==
  ASSUME NEW S, NEW seq \in Seq(S), NEW e \in S
  PROVE  /\ Append(seq, e) \in Seq(S)
         /\ Len(Append(seq, e)) = Len(seq) + 1 /\ Len(seq) \in Nat
         /\ DOMAIN Append(seq, e) = DOMAIN seq \union {Len(seq) + 1}
         /\ \A i \in DOMAIN seq : Append(seq, e)[i] = seq[i]
         /\ Append(seq, e)[Len(seq) + 1] = e
         /\ \A x : Holds(Append(seq, e), x) <=> Holds(seq, x) \/ x = e
         /\ Distinct(seq) /\ ~Holds(seq, e) => Distinct(Append(seq, e))
<1>1. /\ Append(seq, e) \in Seq(S)
      /\ Len(Append(seq, e)) = Len(seq) + 1 /\ Len(seq) \in Nat
      /\ DOMAIN Append(seq, e) = 1..(Len(seq) + 1) /\ DOMAIN seq = 1..Len(seq)
      /\ \A i \in DOMAIN seq : Append(seq, e)[i] = seq[i]
      /\ Append(seq, e)[Len(seq) + 1] = e
  OBVIOUS
<1>2. DOMAIN Append(seq, e) = DOMAIN seq \union {Len(seq) + 1}
  BY <1>1
<1>3. Len(seq) + 1 \notin DOMAIN seq
  BY <1>1
<1> DEFINE more == Append(seq, e)
           n == Len(seq) + 1
<1>4. /\ DOMAIN more = DOMAIN seq \union {n} /\ n \notin DOMAIN seq
      /\ \A i \in DOMAIN seq : more[i] = seq[i]
      /\ more[n] = e
  BY <1>1, <1>2, <1>3
<1> HIDE DEF more, n
<1>5. \A x : Holds(more, x) <=> Holds(seq, x) \/ x = e
  BY <1>4, Zenon DEF Holds
<1>6. ASSUME Distinct(seq), ~Holds(seq, e), NEW i \in DOMAIN more, NEW j \in DOMAIN more,
             more[i] = more[j]
      PROVE  i = j
  BY <1>4, <1>6 DEF Distinct, Holds
<1>7. Distinct(seq) /\ ~Holds(seq, e) => Distinct(more)
  BY <1>6 DEF Distinct
<1> QED BY <1>1, <1>2, <1>5, <1>7 DEF more

LEMMA TailHolds ==
  ASSUME NEW S, NEW seq \in Seq(S), seq # <<>>
  PROVE  /\ Head(seq) \in S /\ Tail(seq) \in Seq(S)
         /\ Len(Tail(seq)) = Len(seq) - 1 /\ Len(seq) \in Nat \ {0}
         /\ \A i \in DOMAIN Tail(seq) : i + 1 \in DOMAIN seq /\ Tail(seq)[i] = seq[i + 1]
         /\ Head(seq) = seq[1] /\ Holds(seq, Head(seq))
         /\ \A x : Holds(Tail(seq), x) => Holds(seq, x)
         /\ \A x : Holds(seq, x) => x = Head(seq) \/ Holds(Tail(seq), x)
         /\ Distinct(seq) => Distinct(Tail(seq)) /\ ~Holds(Tail(seq), Head(seq))
<1> DEFINE rest == Tail(seq)
<1>1. /\ Head(seq) \in S /\ rest \in Seq(S)
      /\ Len(rest) = Len(seq) - 1 /\ Len(seq) \in Nat \ {0}
      /\ Head(seq) = seq[1]
      /\ DOMAIN rest = 1..Len(rest) /\ DOMAIN seq = 1..Len(seq)
      /\ \A i \in 1..Len(rest) : rest[i] = seq[i + 1]
  OBVIOUS
<1> HIDE DEF rest
<1>2. \A i \in DOMAIN rest : i \in Nat \ {0} /\ i + 1 \in DOMAIN seq /\ rest[i] = seq[i + 1]
  BY <1>1
<1>3. \A i \in DOMAIN seq : i = 1 \/ (i - 1 \in DOMAIN rest /\ rest[i - 1] = seq[i])
  BY <1>1
<1>4. 1 \in DOMAIN seq
  BY <1>1
<1>5. Holds(seq, Head(seq))
  BY <1>1, <1>4 DEF Holds
<1>6. \A x : Holds(rest, x) => Holds(seq, x)
  BY <1>2 DEF Holds
<1>7. \A x : Holds(seq, x) => x = Head(seq) \/ Holds(rest, x)
  BY <1>1, <1>3 DEF Holds
<1>8. ASSUME Distinct(seq) PROVE Distinct(rest) /\ ~Holds(rest, Head(seq))
  <2>1. ASSUME NEW i \in DOMAIN rest, NEW j \in DOMAIN rest, rest[i] = rest[j]
        PROVE  i = j
    <3>1. i + 1 = j + 1
      BY <1>2, <1>8, <2>1 DEF Distinct
    <3> QED BY <1>2, <3>1
  <2>2. ASSUME NEW i \in DOMAIN rest, rest[i] = Head(seq) PROVE FALSE
    <3>1. i + 1 = 1
      BY <1>1, <1>2, <1>4, <1>8, <2>2 DEF Distinct
    <3> QED BY <1>2, <3>1
  <2> QED BY <2>1, <2>2 DEF Distinct, Holds
<1> QED BY <1>1, <1>2, <1>5, <1>6, <1>7, <1>8 DEF rest

LEMMA EmptyHolds == (\A x : ~Holds(<<>>, x)) /\ Distinct(<<>>)
BY DEF Holds, Distinct
-----------------------------------------------------------------------------
(* What a step of a handler thread leaves as it is.                         *)

LEMMA Typing ==
  ASSUME TypeOK
  PROVE  /\ kind \in Seq(Kind) /\ Len(kind) \in 0..MaxSignals
         /\ DOMAIN kind = 1..Len(kind) /\ DOMAIN kind \subseteq Signal
         /\ \A s \in DOMAIN kind : kind[s] \in Kind /\ kind[s] # "input"
         /\ toReader \in Seq(Signal) /\ Len(toReader) \in Nat
         /\ toPerl \in Seq(0..MaxSignals) /\ stash \in Seq(0..MaxSignals)
         /\ queue \in Seq(0..MaxSignals) /\ Len(queue) \in Nat
         /\ DOMAIN queue = 1..Len(queue)
         /\ \A i \in DOMAIN queue : queue[i] \in 0..MaxSignals
         /\ \A x : Holds(toPerl, x) \/ Holds(stash, x) => x \in 0..MaxSignals
         /\ at \in [Signal -> Place] /\ next \in [Signal -> Nat \ {0}]
         /\ answer \in [Signal -> 0..MaxSignals]
         /\ want \in 0..MaxSignals /\ first \in 0..MaxSignals /\ output \in 0..MaxSignals
<1>1. /\ kind \in Seq(Kind) /\ Len(kind) <= MaxSignals
      /\ toReader \in Seq(Signal)
      /\ toPerl \in Seq(0..MaxSignals) /\ stash \in Seq(0..MaxSignals)
      /\ queue \in Seq(0..MaxSignals)
      /\ at \in [Signal -> Place] /\ next \in [Signal -> Nat \ {0}]
      /\ answer \in [Signal -> 0..MaxSignals]
      /\ want \in 0..MaxSignals /\ first \in 0..MaxSignals /\ output \in 0..MaxSignals
  BY DEF TypeOK
<1>2. /\ Len(kind) \in 0..MaxSignals /\ DOMAIN kind = 1..Len(kind)
      /\ Len(toReader) \in Nat /\ Len(queue) \in Nat
      /\ DOMAIN queue = 1..Len(queue)
  BY <1>1
<1>3. DOMAIN kind \subseteq Signal
  BY <1>2 DEF Signal
<1>4. \A s \in DOMAIN kind : kind[s] \in Kind /\ kind[s] # "input"
  BY <1>1 DEF Kind
<1>5. \A i \in DOMAIN queue : queue[i] \in 0..MaxSignals
  BY <1>1
<1>6. \A x : Holds(toPerl, x) \/ Holds(stash, x) => x \in 0..MaxSignals
  BY <1>1 DEF Holds
<1> QED BY <1>1, <1>2, <1>3, <1>4, <1>5, <1>6

(* A thread that has begun and not yet ended moves on.                      *)
Moves(s, from, to) ==
  /\ s \in DOMAIN kind
  /\ from \in Place \ {"none", "done"} /\ to \in Place \ {"none"}
  /\ kind[s] = "output" => to = "done"
  /\ to \in {"work", "push"} => from = "work"
  /\ Goto(s, from, to)

LEMMA Moved ==
  ASSUME IInv, NEW s, NEW from, NEW to, Moves(s, from, to)
  PROVE  /\ s \in Signal /\ s \in DOMAIN kind
         /\ at[s] = from /\ at'[s] = to /\ at' \in [Signal -> Place]
         /\ \A t \in Signal : t # s => at'[t] = at[t]
         /\ main' = main /\ statements' = statements /\ first' = first
         /\ reader' = reader /\ threads' = threads /\ toReader' = toReader
         /\ perl' = perl /\ want' = want /\ kind' = kind /\ stash' = stash
         /\ answer' = answer
         /\ reader \notin {"off", "launch"}
         /\ Threads' /\ Arrival'
         /\ \A x : Pushed(x) => Pushed(x)'
         /\ kind[s] # "output" => Lines' = Lines
<1>1. /\ s \in Signal /\ s \in DOMAIN kind
      /\ at \in [Signal -> Place] /\ DOMAIN kind \subseteq Signal
  BY Typing DEF IInv, Moves
<1>2. /\ at[s] = from /\ at' = [at EXCEPT ![s] = to]
      /\ main' = main /\ statements' = statements /\ first' = first
      /\ reader' = reader /\ threads' = threads /\ toReader' = toReader
      /\ perl' = perl /\ want' = want /\ kind' = kind /\ stash' = stash
      /\ answer' = answer
  BY DEF Moves, Goto, statement, interpreter
<1>3. /\ from \in Place \ {"none", "done"} /\ to \in Place \ {"none"}
      /\ kind[s] = "output" => to = "done"
      /\ to \in {"work", "push"} => from = "work"
  BY DEF Moves
<1>4. /\ at'[s] = to /\ at' \in [Signal -> Place]
      /\ \A t \in Signal : t # s => at'[t] = at[t]
  BY <1>1, <1>2, <1>3
<1>5. Threads /\ Arrival
  BY DEF IInv
<1>6. s \in threads
  BY <1>1, <1>2, <1>3, <1>5 DEF Threads
<1>7. reader \notin {"off", "launch"}
  BY <1>5, <1>6 DEF Threads
<1>8. Threads'
  <2>1. main' = "join" <=> reader' # "off"
    BY <1>2, <1>5 DEF Threads
  <2>2. \A t \in Signal : at'[t] \notin {"none", "done"} => t \in threads'
    BY <1>2, <1>4, <1>5, <1>6 DEF Threads
  <2> QED BY <1>2, <1>7, <2>1, <2>2 DEF Threads
<1>9. Arrival'
  <2>1. \A t \in Signal : at'[t] = "none" <=> t > Received
    BY <1>2, <1>3, <1>4, <1>5 DEF Arrival
  <2>2. \A t \in Signal : t <= first => at'[t] = "done"
    BY <1>2, <1>3, <1>4, <1>5 DEF Arrival
  <2>3. \A t \in DOMAIN kind : kind[t] = "output" => at'[t] \in {"none", "work", "done"}
    BY <1>1, <1>3, <1>4, <1>5 DEF Arrival
  <2>4. Received' = Received
    BY <1>2 DEF Received
  <2> QED BY <1>2, <1>5, <2>1, <2>2, <2>3, <2>4 DEF Arrival
<1>10. ASSUME NEW x, Pushed(x) PROVE Pushed(x)'
  <2>1. CASE x = s
    BY <1>2, <1>3, <1>4, <1>10, <2>1 DEF Pushed
  <2>2. CASE x # s
    BY <1>1, <1>2, <1>4, <1>10, <2>2 DEF Pushed
  <2> QED BY <2>1, <2>2
<1>11. ASSUME kind[s] # "output" PROVE Lines' = Lines
  BY <1>1, <1>2, <1>4, <1>11 DEF Lines
<1> QED BY <1>1, <1>2, <1>4, <1>7, <1>8, <1>9, <1>10, <1>11
(* Such a step and the queue, the pipe to Perl and its answers.             *)
LEMMA MovedQueue ==
  ASSUME IInv, NEW s, NEW from, NEW to, Moves(s, from, to), UNCHANGED queue
  PROVE  Queued'
<1>1. Queued
  BY DEF IInv
<1>2. /\ reader' = reader /\ queue' = queue
      /\ \A x : Pushed(x) => Pushed(x)'
  BY Moved
<1>3. ASSUME NEW i \in DOMAIN queue
      PROVE  (queue[i] = 0 /\ reader = "launch") \/ (queue[i] # 0 /\ Pushed(queue[i])')
  BY <1>1, <1>2 DEF Queued
<1>4. \A i \in DOMAIN queue' :
        (queue'[i] = 0 /\ reader' = "launch") \/ (queue'[i] # 0 /\ Pushed(queue[i])')
  BY <1>2, <1>3
<1> QED BY <1>1, <1>2, <1>4 DEF Queued

LEMMA MovedPipe ==
  ASSUME IInv, NEW s, NEW from, NEW to, Moves(s, from, to), UNCHANGED toPerl
  PROVE  Waits' /\ (Sent => Sent')
<1>1. /\ perl' = perl /\ want' = want /\ kind' = kind /\ stash' = stash /\ toPerl' = toPerl
      /\ \A x : Pushed(x) => Pushed(x)'
  BY Moved
<1>2. Waits
  BY DEF IInv
<1>3. Waits'
  BY <1>1, <1>2 DEF Waits, Holds
<1>4. ASSUME Sent PROVE Sent'
  <2>1. ASSUME NEW x \in 0..MaxSignals, Holds(toPerl, x)'
        PROVE  /\ x = 0 \/ Pushed(x)'
               /\ x = 0 \/ kind'[x] \in Asks => perl' = "fetch" /\ want' = x
               /\ ~Holds(stash, x)'
    <3>1. Holds(toPerl, x)
      BY <1>1, <2>1 DEF Holds
    <3>2. /\ x = 0 \/ Pushed(x)
          /\ x = 0 \/ kind[x] \in Asks => perl = "fetch" /\ want = x
          /\ ~Holds(stash, x)
      BY <1>4, <3>1 DEF Sent
    <3> QED BY <1>1, <3>2 DEF Holds
  <2>2. ASSUME NEW x \in 0..MaxSignals, Holds(stash, x)'
        PROVE  x # 0 /\ Pushed(x)' /\ kind'[x] \notin Asks
    <3>1. Holds(stash, x)
      BY <1>1, <2>2 DEF Holds
    <3>2. x # 0 /\ Pushed(x) /\ kind[x] \notin Asks
      BY <1>4, <3>1 DEF Sent
    <3> QED BY <1>1, <3>2
  <2>3. Distinct(toPerl)' /\ Distinct(stash)'
    BY <1>1, <1>4 DEF Sent, Distinct
  <2> QED BY <2>1, <2>2, <2>3 DEF Sent
<1> QED BY <1>3, <1>4

LEMMA MovedAnswers ==
  ASSUME IInv, NEW s, NEW from, NEW to, Moves(s, from, to)
  PROVE  Answered => Answered'
<1>1. /\ perl' = perl /\ want' = want /\ kind' = kind /\ answer' = answer
      /\ \A x : Pushed(x) => Pushed(x)'
  BY Moved
<1> SUFFICES ASSUME Answered, NEW t \in Signal
             PROVE  /\ answer'[t] # 0 => answer'[t] = t /\ Pushed(t)' /\ kind'[t] \in Asks
                    /\ t \in DOMAIN kind' /\ kind'[t] \in Asks /\ answer'[t] = 0 =>
                         perl' = "fetch" /\ want' = t
  BY DEF Answered
<1>2. /\ answer[t] # 0 => answer[t] = t /\ Pushed(t) /\ kind[t] \in Asks
      /\ t \in DOMAIN kind /\ kind[t] \in Asks /\ answer[t] = 0 => perl = "fetch" /\ want = t
  BY DEF Answered
<1> QED BY <1>1, <1>2

(* Elements of the queue that the step does not send remain so.             *)
LEMMA MovedUnsent ==
  ASSUME IInv, NEW s, NEW from, NEW to, Moves(s, from, to), UNCHANGED <<queue, toPerl>>,
         \A i \in DOMAIN queue : Unsent(i)' => Unsent(i)
  PROVE  NotSent => NotSent'
<1>1. answer' = answer /\ stash' = stash /\ toPerl' = toPerl /\ queue' = queue
  BY Moved
<1> SUFFICES ASSUME NotSent, NEW i \in DOMAIN queue, Unsent(i)'
             PROVE  /\ ~Holds(toPerl', queue'[i]) /\ ~Holds(stash', queue'[i])
                    /\ queue'[i] # 0 => answer'[queue'[i]] = 0
  BY <1>1 DEF NotSent
<1>2. /\ ~Holds(toPerl, queue[i]) /\ ~Holds(stash, queue[i])
      /\ queue[i] # 0 => answer[queue[i]] = 0
  BY DEF NotSent
<1> QED BY <1>1, <1>2

(* Nothing is sent by a step that neither begins nor ends a loop.           *)
LEMMA SameUnsent ==
  ASSUME IInv, NEW s, NEW from, NEW to, Moves(s, from, to), UNCHANGED next,
         from \in {"loop", "clear"} <=> to \in {"loop", "clear"}
  PROVE  \A i : Unsent(i)' <=> Unsent(i)
<1>1. /\ s \in Signal /\ at[s] = from /\ at'[s] = to /\ next' = next
      /\ \A t \in Signal : t # s => at'[t] = at[t]
  BY Moved
<1>2. \A t \in Signal : at'[t] \in {"loop", "clear"} <=> at[t] \in {"loop", "clear"}
  BY <1>1
<1> QED BY <1>1, <1>2 DEF Unsent
-----------------------------------------------------------------------------
(* The steps of a handler thread, one by one.                               *)

(* IInv' but for the types, which every step keeps for itself.              *)
Rest ==
  /\ Threads /\ Arrival /\ Queued /\ Waits
  /\ ~raced => OneSender /\ Sent /\ NotSent /\ Answered /\ Unfetched
  /\ ~raced /\ ~missed => Reached
  /\ ~overtaken => InOrder

LEMMA MovedOutput ==
  ASSUME IInv, NEW s, NEW from, NEW to, Moves(s, from, to), kind[s] # "output",
         UNCHANGED output
  PROVE  InOrder => InOrder'
<1>1. kind' = kind /\ first' = first /\ Lines' = Lines
  BY Moved
<1> QED BY <1>1 DEF InOrder

LEMMA MovedKiller ==
  ASSUME IInv, NEW s, NEW from, NEW to, Moves(s, from, to), UNCHANGED killer
  PROVE  Unfetched => Unfetched'
<1>1. kind' = kind
  BY Moved
<1> QED BY <1>1 DEF Unfetched

(* A step that leaves the queue and the senders' places in it alone.        *)
LEMMA MovedReached ==
  ASSUME IInv, NEW s, NEW from, NEW to, Moves(s, from, to),
         UNCHANGED <<queue, toPerl, next>>,
         from \notin {"loop", "clear"}, to \notin {"loop", "clear"},
         from \in {"work", "push"} => s # want \/ to \in {"work", "push"},
         from \in {"test", "set"} => \/ to \in {"test", "set"}
                                    \/ Looping \/ AllSent
  PROVE  Reached => Reached'
<1> SUFFICES ASSUME Reached PROVE Reached'
  OBVIOUS
<1>1. /\ s \in Signal /\ at[s] = from /\ at'[s] = to /\ from # "none"
      /\ \A t \in Signal : t # s => at'[t] = at[t]
      /\ perl' = perl /\ want' = want
      /\ queue' = queue /\ toPerl' = toPerl /\ next' = next
  BY Moved DEF Moves
<1>2. \A i : Unsent(i)' <=> Unsent(i)
  BY SameUnsent
<1>3. \A t \in Signal : /\ at'[t] = "loop" <=> at[t] = "loop"
                        /\ at'[t] = "clear" <=> at[t] = "clear"
  BY <1>1
<1>4. \A i \in DOMAIN queue : queue[i] # 0 => queue[i] \in Signal
  BY Typing DEF IInv, Signal
<1>5. want # 0 => want \in Signal
  BY Typing DEF IInv, Signal
<1>6. ASSUME NEW i \in DOMAIN queue', Unsent(i)', queue'[i] # 0
      PROVE  at'[queue'[i]] \in {"test", "set"} \/ \E t \in Signal : at'[t] = "loop"
  <2>1. i \in DOMAIN queue /\ Unsent(i) /\ queue[i] # 0 /\ queue[i] \in Signal
    BY <1>1, <1>2, <1>4, <1>6
  <2>2. at[queue[i]] \in {"test", "set"} \/ \E t \in Signal : at[t] = "loop"
    BY <2>1 DEF Reached
  <2>3. ~AllSent
    BY <2>1 DEF AllSent
  <2> QED BY <1>1, <1>3, <2>1, <2>2, <2>3 DEF Looping
<1>7. ASSUME perl' = "fetch", want' # 0
      PROVE  \/ Holds(toPerl', want')
             \/ at'[want'] \in {"none", "work", "push"}
             \/ \E i \in DOMAIN queue' : queue'[i] = want' /\ Unsent(i)'
  <2>1. \/ Holds(toPerl, want)
        \/ at[want] \in {"none", "work", "push"}
        \/ \E i \in DOMAIN queue : queue[i] = want /\ Unsent(i)
    BY <1>1, <1>7 DEF Reached
  <2>2. at[want] \in {"none", "work", "push"} => at'[want] \in {"none", "work", "push"}
    BY <1>1, <1>5, <1>7
  <2> QED BY <1>1, <1>2, <2>1, <2>2
<1>8. \A t \in Signal : at'[t] = "loop" => next'[t] <= Len(queue') + 1
  BY <1>1, <1>3 DEF Reached
<1>9. \A t \in Signal : at'[t] = "clear" => next'[t] > Len(queue')
  BY <1>1, <1>3 DEF Reached
<1> QED BY <1>6, <1>7, <1>8, <1>9 DEF Reached

LEMMA WorkRest ==
  ASSUME IInv, NEW s \in DOMAIN kind, Work(s)
  PROVE  Rest'
<1>1. /\ Moves(s, "work", "push") /\ kind[s] # "output"
      /\ UNCHANGED <<queue, toPerl, next, running, output>>
      /\ raced' = raced /\ missed' = missed /\ overtaken' = overtaken /\ killer' = killer
  BY DEF Work, Moves, Place, history
<1>2. /\ s \in Signal /\ at[s] = "work" /\ at'[s] = "push"
      /\ \A t \in Signal : t # s => at'[t] = at[t]
  BY <1>1, Moved
<1>3. \A i : Unsent(i)' <=> Unsent(i)
  BY <1>1, SameUnsent
<1>4. OneSender => OneSender'
  BY <1>1, <1>2 DEF OneSender, Sending
<1>5. Threads' /\ Arrival' /\ Queued' /\ Waits'
  BY <1>1, Moved, MovedQueue, MovedPipe
<1>6. (Sent => Sent') /\ (NotSent => NotSent') /\ (Answered => Answered')
  BY <1>1, <1>3, MovedPipe, MovedAnswers, MovedUnsent
<1>7. (Unfetched => Unfetched') /\ (InOrder => InOrder') /\ (Reached => Reached')
  BY <1>1, MovedKiller, MovedOutput, MovedReached
<1> QED BY <1>1, <1>4, <1>5, <1>6, <1>7, Zenon DEF IInv, Rest

LEMMA StoreRest ==
  ASSUME IInv, NEW s \in DOMAIN kind, Store(s)
  PROVE  Rest'
<1>1. /\ Moves(s, "work", "done") /\ kind[s] = "output"
      /\ UNCHANGED <<queue, toPerl, next, running>> /\ output' = s
      /\ raced' = raced /\ missed' = missed /\ killer' = killer
  BY DEF Store, Moves, Place
<1>2. /\ s \in Signal /\ at[s] = "work" /\ at'[s] = "done"
      /\ \A t \in Signal : t # s => at'[t] = at[t]
      /\ kind' = kind /\ first' = first
      /\ DOMAIN kind \subseteq Signal /\ DOMAIN kind = 1..Len(kind) /\ Len(kind) \in Nat
  BY <1>1, Moved, Typing DEF IInv
<1>3. \A i : Unsent(i)' <=> Unsent(i)
  BY <1>1, SameUnsent
<1>4. OneSender => OneSender'
  BY <1>1, <1>2 DEF OneSender, Sending
<1>5. Threads' /\ Arrival' /\ Queued' /\ Waits'
  BY <1>1, Moved, MovedQueue, MovedPipe
<1>6. (Sent => Sent') /\ (NotSent => NotSent') /\ (Answered => Answered')
  BY <1>1, <1>3, MovedPipe, MovedAnswers, MovedUnsent
<1>7. Unfetched => Unfetched'
  BY <1>1, MovedKiller
<1>8. perl = "fetch" /\ want # 0 => want # s
  BY <1>1, IpcAssumption DEF IInv, Waits
<1>9. ASSUME Reached PROVE Reached'
  <2>1. CASE s # want
    BY <1>1, <1>9, <2>1, MovedReached
  <2>2. CASE s = want
    <3>1. perl # "fetch" /\ perl' = perl
      BY <1>1, <1>2, <1>8, <2>2, Moved DEF Signal
    <3>2. \A t \in Signal : /\ at'[t] = "loop" <=> at[t] = "loop"
                            /\ at'[t] = "clear" <=> at[t] = "clear"
                            /\ at[t] \in {"test", "set"} => at'[t] = at[t]
      BY <1>2
    <3>3. \A i \in DOMAIN queue : queue[i] # 0 => queue[i] \in Signal
      BY Typing DEF IInv, Signal
    <3> QED BY <1>1, <1>3, <1>9, <3>1, <3>2, <3>3 DEF Reached
  <2> QED BY <2>1, <2>2
<1>10. ASSUME ~overtaken' PROVE ~overtaken /\ InOrder'
  <2>1. ~overtaken
    BY <1>10, Zenon DEF Store
  <2>2. \A t \in Signal : t # s /\ t < s /\ kind[t] = "output" => at[t] # "work"
    <3>1. ~(overtaken \/ \E t \in Others(s, "work") : t < s /\ kind[t] = "output")
      BY <1>10, Zenon DEF Store
    <3>2. ~ \E t \in Others(s, "work") : t < s /\ kind[t] = "output"
      BY <3>1, Zenon
    <3> QED BY <3>2 DEF Others
  <2>3. InOrder /\ Arrival
    BY <2>1, Zenon DEF IInv
  <2>4. s > first /\ s <= Received
    <3>1. s \in Nat /\ first \in Nat /\ Received \in Int
      BY <1>2, Typing DEF IInv, Received, Signal
    <3>2. ~(s <= first) /\ ~(s > Received)
      BY <1>2, <2>3 DEF Arrival
    <3> QED BY <3>1, <3>2
  <2>5. Lines' = Lines \union {s} /\ s \notin Lines
    BY <1>1, <1>2 DEF Lines
  <2>6. ASSUME NEW a \in DOMAIN kind, a < s, kind[a] = "output" PROVE a \in Lines
    <3>1. Len(kind) \in Nat /\ Len(toReader) \in Nat
      BY <1>2, Typing DEF IInv
    <3>2. a \in Signal /\ a \in Nat /\ s \in Nat /\ Received \in Int
      BY <1>2, <3>1 DEF Received, Signal
    <3>3. ~(a > Received)
      BY <2>4, <2>6, <3>2
    <3>4. at[a] = "done"
      BY <2>2, <2>3, <2>6, <3>2, <3>3 DEF Arrival
    <3> QED BY <2>6, <3>4 DEF Lines
  <2>7. \A a, b \in DOMAIN kind : a < b /\ kind[a] = "output" /\ b \in Lines => a \in Lines
    BY <2>3 DEF InOrder
  <2>8. \A a, b \in DOMAIN kind : a < b /\ kind[a] = "output" /\ b \in Lines' => a \in Lines'
    BY <2>5, <2>6, <2>7
  <2>9. \A a \in Lines : a <= s
    <3>1. ASSUME NEW a \in Lines, ~(a <= s) PROVE FALSE
      <4>1. a \in DOMAIN kind /\ s < a
        BY <1>2, <3>1 DEF Lines
      <4>2. s \in Lines
        BY <1>1, <2>7, <3>1, <4>1
      <4> QED BY <2>5, <4>2
    <3> QED BY <3>1
  <2>10. output' \in Lines' /\ output' > first' /\ \A a \in Lines' : a <= output'
    BY <1>1, <1>2, <2>4, <2>5, <2>9
  <2> QED BY <1>2, <2>1, <2>8, <2>10 DEF InOrder
<1> QED BY <1>1, <1>4, <1>5, <1>6, <1>7, <1>9, <1>10, Zenon DEF IInv, Rest

LEMMA PushRest ==
  ASSUME IInv, NEW s \in DOMAIN kind, Push(s)
  PROVE  Rest'
<1>1. s \in Signal /\ at[s] = "push" /\ kind[s] # "output"
  <2>1. s \in Signal /\ at[s] = "push"
    BY Typing DEF IInv, Push, Goto
  <2> QED BY <2>1 DEF IInv, Arrival
<1>2. /\ Moves(s, "push", "test")
      /\ UNCHANGED <<toPerl, next, running, output>>
      /\ raced' = raced /\ overtaken' = overtaken /\ killer' = killer
  BY <1>1 DEF Push, Moves, Place
<1>3. /\ at'[s] = "test"
      /\ \A t \in Signal : t # s => at'[t] = at[t]
      /\ perl' = perl /\ want' = want /\ kind' = kind /\ answer' = answer /\ stash' = stash
      /\ reader' = reader /\ reader # "launch"
      /\ \A x : Pushed(x) => Pushed(x)'
  BY <1>2, Moved
<1>4. \A i : Unsent(i)' <=> Unsent(i)
  BY <1>2, SameUnsent
<1>5. OneSender => OneSender'
  BY <1>1, <1>2, <1>3 DEF OneSender, Sending
<1>6. Threads' /\ Arrival' /\ Waits' /\ (Sent => Sent') /\ (Answered => Answered')
  BY <1>2, Moved, MovedPipe, MovedAnswers
<1>7. (Unfetched => Unfetched') /\ (InOrder => InOrder')
  BY <1>1, <1>2, MovedKiller, MovedOutput
<1>8. CASE missed' = TRUE /\ UNCHANGED queue
  <2>1. Queued' /\ (NotSent => NotSent')
    BY <1>2, <1>4, <1>8, MovedQueue, MovedUnsent
  <2>2. ~missed' => FALSE
    BY <1>8
  <2> QED BY <1>2, <1>5, <1>6, <1>7, <2>1, <2>2, Zenon DEF IInv, Rest
<1>9. CASE /\ queue' = Append(queue, s)
           /\ missed' = (missed \/ Others(s, "clear") # {})
  <2>1. /\ s \in 0..MaxSignals /\ s # 0
        /\ ~Pushed(s) /\ Pushed(s)' /\ s \in DOMAIN kind
    BY <1>1, <1>3 DEF Signal, Pushed
  <2>2. /\ queue \in Seq(0..MaxSignals) /\ Len(queue) \in Nat
        /\ DOMAIN queue = 1..Len(queue)
        /\ \A i \in DOMAIN queue : queue[i] \in 0..MaxSignals
    BY Typing DEF IInv
  <2> PICK last \in Nat : last = Len(queue) + 1
    BY <2>2
  <2>3. /\ DOMAIN queue' = DOMAIN queue \union {last} /\ Len(queue') = last
        /\ \A i \in DOMAIN queue : queue'[i] = queue[i]
        /\ queue'[last] = s
        /\ \A x : Holds(queue', x) <=> Holds(queue, x) \/ x = s
        /\ Distinct(queue) /\ ~Holds(queue, s) => Distinct(queue')
    BY <1>9, <2>1, <2>2, AppendHolds
  <2>4. last = Len(queue) + 1 /\ \A i \in DOMAIN queue : i < last /\ i \in Nat
    BY <2>2
  <2>5. Queued
    BY DEF IInv
  <2>6. ~Holds(queue, s)
    BY <2>1, <2>5 DEF Queued, Holds
  <2>7. Queued'
    <3>1. ASSUME NEW i \in DOMAIN queue' PROVE queue'[i] # 0 /\ Pushed(queue[i])'
      <4>1. PICK x : x = queue'[i]
        OBVIOUS
      <4>2. x # 0 /\ Pushed(x)'
        BY <1>3, <2>1, <2>3, <2>5, <3>1, <4>1 DEF Queued
      <4> QED BY <4>1, <4>2 DEF Pushed
    <3>2. Distinct(queue')
      BY <2>3, <2>5, <2>6 DEF Queued
    <3> QED BY <1>3, <3>1, <3>2 DEF Queued
  <2>8. ASSUME Sent, NotSent, Answered PROVE NotSent'
    <3>1. ASSUME NEW i \in DOMAIN queue', Unsent(i)'
          PROVE  /\ ~Holds(toPerl', queue'[i]) /\ ~Holds(stash', queue'[i])
                 /\ queue'[i] # 0 => answer'[queue'[i]] = 0
      <4>1. CASE i = last
        <5>1. ~Holds(toPerl, s) /\ ~Holds(stash, s)
          BY <2>1, <2>8 DEF Sent
        <5>2. answer[s] = 0
          BY <1>1, <2>1, <2>8 DEF Answered
        <5> QED BY <1>2, <1>3, <2>3, <4>1, <5>1, <5>2
      <4>2. CASE i \in DOMAIN queue
        <5>1. /\ ~Holds(toPerl, queue[i]) /\ ~Holds(stash, queue[i])
              /\ queue[i] # 0 => answer[queue[i]] = 0
          BY <1>4, <2>8, <3>1, <4>2 DEF NotSent
        <5> QED BY <1>2, <1>3, <2>3, <4>2, <5>1
      <4> QED BY <2>3, <3>1, <4>1, <4>2
    <3> QED BY <3>1 DEF NotSent
  <2>9. ASSUME ~missed' PROVE ~missed /\ \A t \in Signal : at'[t] # "clear"
    <3>1. ~missed /\ Others(s, "clear") = {}
      BY <1>9, <2>9
    <3> QED BY <1>3, <3>1 DEF Others
  <2>10. ASSUME ~missed', Reached PROVE Reached'
    <3>1. \A t \in Signal : at'[t] = "loop" <=> at[t] = "loop"
      BY <1>1, <1>3
    <3>2. \A t \in Signal : at'[t] = "loop" => next'[t] <= Len(queue') + 1
      <4>1. ASSUME NEW t \in Signal, at'[t] = "loop" PROVE next[t] <= last + 1
        <5>1. next[t] \in Nat
          BY Typing DEF IInv
        <5>2. next[t] <= last
          BY <2>4, <2>10, <3>1, <4>1 DEF Reached
        <5> QED BY <2>4, <5>1, <5>2
      <4> QED BY <1>2, <2>3, <4>1
    <3>3. \A t \in Signal : at'[t] = "clear" => next'[t] > Len(queue')
      BY <2>9, <2>10
    <3>4. ASSUME NEW i \in DOMAIN queue', Unsent(i)', queue'[i] # 0
          PROVE  at'[queue'[i]] \in {"test", "set"} \/ \E t \in Signal : at'[t] = "loop"
      <4>1. CASE i = last
        BY <1>3, <2>3, <4>1
      <4>2. CASE i \in DOMAIN queue
        <5>1. at[queue[i]] \in {"test", "set"} \/ \E t \in Signal : at[t] = "loop"
          BY <1>4, <2>3, <2>10, <3>4, <4>2 DEF Reached
        <5>2. queue'[i] \in Signal /\ queue[i] = queue'[i] /\ queue[i] # s
          BY <2>2, <2>3, <2>6, <3>4, <4>2 DEF Signal, Holds
        <5> QED BY <1>3, <3>1, <5>1, <5>2
      <4> QED BY <2>3, <3>4, <4>1, <4>2
    <3>5. Unsent(last)'
      <4>1. \A t \in Signal : at'[t] = "loop" => next'[t] <= last
        BY <1>2, <2>4, <2>10, <3>1 DEF Reached
      <4> QED BY <2>9, <2>10, <4>1 DEF Unsent
    <3>6. ASSUME perl' = "fetch", want' # 0
          PROVE  \/ Holds(toPerl', want')
                 \/ at'[want'] \in {"none", "work", "push"}
                 \/ \E i \in DOMAIN queue' : queue'[i] = want' /\ Unsent(i)'
      <4>1. CASE want = s
        BY <1>3, <2>3, <3>5, <4>1
      <4>2. CASE want # s
        <5>1. \/ Holds(toPerl, want)
              \/ at[want] \in {"none", "work", "push"}
              \/ \E i \in DOMAIN queue : queue[i] = want /\ Unsent(i)
          BY <1>3, <2>10, <3>6 DEF Reached
        <5>2. want \in Signal
          BY <1>3, <3>6, Typing DEF IInv, Signal
        <5>3. at'[want] = at[want]
          BY <1>3, <4>2, <5>2
        <5>4. (\E i \in DOMAIN queue : queue[i] = want /\ Unsent(i)) =>
                \E i \in DOMAIN queue' : queue'[i] = want /\ Unsent(i)'
          BY <1>4, <2>3
        <5> QED BY <1>2, <1>3, <5>1, <5>3, <5>4
      <4> QED BY <4>1, <4>2
    <3> QED BY <3>2, <3>3, <3>4, <3>6 DEF Reached
  <2> QED BY <1>2, <1>5, <1>6, <1>7, <2>7, <2>8, <2>9, <2>10, Zenon DEF IInv, Rest
<1> QED BY <1>8, <1>9 DEF Push

LEMMA TestRest ==
  ASSUME IInv, NEW s \in DOMAIN kind, Test(s)
  PROVE  Rest'
<1> DEFINE to == IF running THEN "done" ELSE "set"
<1>1. s \in Signal /\ at[s] = "test" /\ kind[s] # "output"
  <2>1. s \in Signal /\ at[s] = "test"
    BY Typing DEF IInv, Test, Goto
  <2> QED BY <2>1 DEF IInv, Arrival
<1>2. /\ Moves(s, "test", to) /\ to \in {"done", "set"}
      /\ UNCHANGED <<queue, toPerl, next, running, output>>
      /\ overtaken' = overtaken /\ killer' = killer
  BY <1>1 DEF Test, Moves, Place
<1>3. (to = "done" <=> running) /\ (to = "set" <=> ~running)
  OBVIOUS
<1> HIDE DEF to
<1>4. at'[s] = to /\ \A t \in Signal : t # s => at'[t] = at[t]
  BY <1>2, Moved
<1>5. \A i : Unsent(i)' <=> Unsent(i)
  BY <1>2, SameUnsent
<1>6. ASSUME ~raced' PROVE ~raced /\ (running \/ Others(s, "set") = {})
  <2>1. ~(raced \/ (~running /\ Others(s, "set") # {}))
    BY <1>6, Zenon DEF Test
  <2> QED BY <2>1, Zenon
<1>7. ASSUME ~missed' PROVE ~missed /\ (~running \/ Others(s, "reset") = {})
  <2>1. ~(missed \/ (running /\ Others(s, "reset") # {}))
    BY <1>7, Zenon DEF Test
  <2> QED BY <2>1, Zenon
<1>8. ASSUME ~raced' PROVE OneSender'
  <2>1. OneSender
    BY <1>6, <1>8, Zenon DEF IInv
  <2>2. CASE running
    <3>1. \A t \in Signal : at'[t] \in Sending => at[t] \in Sending /\ t # s
      BY <1>2, <1>3, <1>4, <2>2 DEF Sending
    <3>2. \A t \in Signal : at'[t] \in {"loop", "clear", "reset"} <=>
                            at[t] \in {"loop", "clear", "reset"}
      BY <1>1, <1>2, <1>4
    <3> QED BY <1>2, <2>1, <3>1, <3>2 DEF OneSender
  <2>3. CASE ~running
    <3>1. \A t \in Signal : at[t] \notin {"loop", "clear", "reset"}
      BY <2>1, <2>3 DEF OneSender
    <3>2. \A t \in Signal \ {s} : at[t] # "set"
      BY <1>6, <1>8, <2>3 DEF Others
    <3>3. \A t \in Signal : at'[t] \in Sending => t = s
      BY <1>4, <3>1, <3>2 DEF Sending
    <3>4. \A t \in Signal : at'[t] \notin {"loop", "clear", "reset"}
      BY <1>2, <1>4, <3>1
    <3> QED BY <1>2, <2>3, <3>3, <3>4 DEF OneSender
  <2> QED BY <2>2, <2>3
<1>9. Threads' /\ Arrival' /\ Queued' /\ Waits'
  BY <1>2, Moved, MovedQueue, MovedPipe
<1>10. (Sent => Sent') /\ (NotSent => NotSent') /\ (Answered => Answered')
  BY <1>2, <1>5, MovedPipe, MovedAnswers, MovedUnsent
<1>11. (Unfetched => Unfetched') /\ (InOrder => InOrder')
  BY <1>1, <1>2, MovedKiller, MovedOutput
<1>12. ASSUME ~raced', ~missed' PROVE ~raced /\ ~missed /\ Reached'
  <2>1. ~raced /\ ~missed /\ (running \/ Others(s, "set") = {})
              /\ (~running \/ Others(s, "reset") = {})
    BY <1>6, <1>7, <1>12
  <2>2. Reached /\ OneSender
    BY <2>1, Zenon DEF IInv
  <2>3. ASSUME running
        PROVE  Looping \/ AllSent
    <3>1. PICK t \in Signal : at[t] \in {"loop", "clear", "reset"}
      BY <2>2, <2>3 DEF OneSender
    <3>2. at[t] # "reset"
      BY <1>1, <2>1, <2>3, <3>1 DEF Others
    <3>3. CASE at[t] = "clear"
      <4>1. next[t] > Len(queue) /\ next[t] \in Nat /\ Len(queue) \in Nat
            /\ DOMAIN queue = 1..Len(queue)
        BY <2>2, <3>3, Typing DEF Reached, IInv
      <4>2. ASSUME NEW i \in DOMAIN queue, Unsent(i) PROVE FALSE
        <5>1. next[t] <= i
          BY <3>3, <4>2 DEF Unsent
        <5> QED BY <4>1, <4>2, <5>1
      <4> QED BY <4>2 DEF AllSent
    <3> QED BY <3>1, <3>2, <3>3 DEF Looping
  <2>4. to \in {"test", "set"} \/ Looping \/ AllSent
    BY <1>2, <1>3, <2>3
  <2>5. ASSUME to = "set" PROVE Reached'
    <3>1. Moves(s, "test", "set")
      BY <1>2, <2>5
    <3> QED BY <1>2, <2>2, <3>1, MovedReached
  <2>6. ASSUME to = "done" PROVE Reached'
    <3>1. Moves(s, "test", "done")
      BY <1>2, <2>6
    <3>2. Looping \/ AllSent
      BY <2>4, <2>6
    <3>3. UNCHANGED <<queue, toPerl, next>>
      BY <1>2
    <3> QED BY <2>2, <3>1, <3>2, <3>3, MovedReached
  <2> QED BY <1>2, <2>1, <2>5, <2>6
<1> QED BY <1>2, <1>6, <1>8, <1>9, <1>10, <1>11, <1>12, Zenon DEF IInv, Rest

LEMMA SetRest ==
  ASSUME IInv, NEW s \in DOMAIN kind, Set(s)
  PROVE  Rest'
<1>1. s \in Signal /\ at[s] = "set" /\ kind[s] # "output"
  <2>1. s \in Signal /\ at[s] = "set"
    BY Typing DEF IInv, Set, Goto
  <2> QED BY <2>1 DEF IInv, Arrival
<1>2. /\ Moves(s, "set", "loop")
      /\ UNCHANGED <<queue, toPerl, output>>
      /\ running' = TRUE /\ next' = [next EXCEPT ![s] = 1]
      /\ raced' = raced /\ missed' = missed /\ overtaken' = overtaken /\ killer' = killer
  BY <1>1 DEF Set, Moves, Place, history
<1>3. /\ at'[s] = "loop"
      /\ \A t \in Signal : t # s => at'[t] = at[t]
      /\ perl' = perl /\ want' = want
      /\ next'[s] = 1 /\ \A t \in Signal : t # s => next'[t] = next[t]
  BY <1>1, <1>2, Moved, Typing DEF IInv
<1>4. \A i : Unsent(i)' => Unsent(i)
  <2>1. ASSUME NEW i, Unsent(i)', NEW t \in Signal, at[t] \in {"loop", "clear"}
        PROVE  next[t] <= i
    <3>1. t # s
      BY <1>1, <2>1
    <3>2. next'[t] <= i
      BY <1>3, <2>1, <3>1 DEF Unsent
    <3> QED BY <1>3, <3>1, <3>2
  <2> QED BY <2>1 DEF Unsent
<1>5. ASSUME OneSender PROVE OneSender'
  <2>1. \A t \in Signal : at'[t] \in Sending => at[t] \in Sending
    BY <1>1, <1>3 DEF Sending
  <2> QED BY <1>1, <1>2, <1>3, <1>5, <2>1 DEF OneSender
<1>6. Threads' /\ Arrival' /\ Queued' /\ Waits'
  BY <1>2, Moved, MovedQueue, MovedPipe
<1>7. (Sent => Sent') /\ (NotSent => NotSent') /\ (Answered => Answered')
  BY <1>2, <1>4, MovedPipe, MovedAnswers, MovedUnsent
<1>8. (Unfetched => Unfetched') /\ (InOrder => InOrder')
  BY <1>1, <1>2, MovedKiller, MovedOutput
<1>9. ASSUME OneSender, Reached PROVE Reached'
  <2>1. \A t \in Signal : t # s => at[t] \notin {"loop", "clear"}
    BY <1>1, <1>9 DEF OneSender, Sending
  <2>2. \A t \in Signal : at'[t] \in {"loop", "clear"} => t = s
    BY <1>3, <2>1
  <2>3. ASSUME NEW i \in DOMAIN queue PROVE Unsent(i)'
    <3>1. 1 <= i
      BY <2>3, Typing DEF IInv
    <3> QED BY <1>3, <2>2, <3>1 DEF Unsent
  <2>4. /\ \A t \in Signal : at'[t] = "loop" => next'[t] <= Len(queue') + 1
        /\ \A t \in Signal : at'[t] = "clear" => next'[t] > Len(queue')
    <3>1. 1 <= Len(queue) + 1
      BY Typing DEF IInv
    <3> QED BY <1>2, <1>3, <2>2, <3>1
  <2>5. ASSUME perl' = "fetch", want' # 0
        PROVE  \/ Holds(toPerl', want')
               \/ at'[want'] \in {"none", "work", "push"}
               \/ \E i \in DOMAIN queue' : queue'[i] = want' /\ Unsent(i)'
    <3>1. \/ Holds(toPerl, want)
          \/ at[want] \in {"none", "work", "push"}
          \/ \E i \in DOMAIN queue : queue[i] = want
      BY <1>3, <1>9, <2>5 DEF Reached
    <3>2. want \in Signal
      BY <1>3, <2>5, Typing DEF IInv, Signal
    <3>3. at[want] \in {"none", "work", "push"} => at'[want] \in {"none", "work", "push"}
      BY <1>1, <1>3, <3>2
    <3> QED BY <1>2, <1>3, <2>3, <3>1, <3>3
  <2>6. \E t \in Signal : at'[t] = "loop"
    BY <1>1, <1>3
  <2> QED BY <2>4, <2>5, <2>6 DEF Reached
<1> QED BY <1>2, <1>5, <1>6, <1>7, <1>8, <1>9, Zenon DEF IInv, Rest

LEMMA LoopEndsRest ==
  ASSUME IInv, NEW s \in DOMAIN kind, LoopEnds(s)
  PROVE  Rest'
<1>1. /\ s \in Signal /\ at[s] = "loop" /\ kind[s] # "output"
      /\ next[s] > Len(queue) /\ next[s] \in Nat
  <2>1. s \in Signal /\ at[s] = "loop" /\ next[s] > Len(queue) /\ next[s] \in Nat
    BY Typing DEF IInv, LoopEnds, Goto
  <2> QED BY <2>1 DEF IInv, Arrival
<1>2. /\ Moves(s, "loop", "clear")
      /\ UNCHANGED <<queue, toPerl, next, running, output>>
      /\ raced' = raced /\ missed' = missed /\ overtaken' = overtaken /\ killer' = killer
  BY <1>1 DEF LoopEnds, Moves, Place, history
<1>3. /\ at'[s] = "clear"
      /\ \A t \in Signal : t # s => at'[t] = at[t]
      /\ perl' = perl /\ want' = want
  BY <1>2, Moved
<1>4. \A i : Unsent(i)' <=> Unsent(i)
  BY <1>2, SameUnsent
<1>5. OneSender => OneSender'
  BY <1>1, <1>2, <1>3 DEF OneSender, Sending
<1>6. Threads' /\ Arrival' /\ Queued' /\ Waits'
  BY <1>2, Moved, MovedQueue, MovedPipe
<1>7. (Sent => Sent') /\ (NotSent => NotSent') /\ (Answered => Answered')
  BY <1>2, <1>4, MovedPipe, MovedAnswers, MovedUnsent
<1>8. (Unfetched => Unfetched') /\ (InOrder => InOrder')
  BY <1>1, <1>2, MovedKiller, MovedOutput
<1>9. ASSUME Reached PROVE Reached'
  <2>1. ASSUME NEW i \in DOMAIN queue, Unsent(i) PROVE FALSE
    <3>1. next[s] <= i
      BY <1>1, <2>1 DEF Unsent
    <3>2. i \in Nat /\ i <= Len(queue) /\ Len(queue) \in Nat
      BY <2>1, Typing DEF IInv
    <3> QED BY <1>1, <3>1, <3>2
  <2>2. /\ \A t \in Signal : at'[t] = "loop" => next'[t] <= Len(queue') + 1
        /\ \A t \in Signal : at'[t] = "clear" => next'[t] > Len(queue')
    BY <1>1, <1>2, <1>3, <1>9 DEF Reached
  <2>3. ASSUME perl' = "fetch", want' # 0
        PROVE  \/ Holds(toPerl', want')
               \/ at'[want'] \in {"none", "work", "push"}
    <3>1. Holds(toPerl, want) \/ at[want] \in {"none", "work", "push"}
      BY <1>3, <1>9, <2>1, <2>3 DEF Reached
    <3>2. want \in Signal
      BY <1>3, <2>3, Typing DEF IInv, Signal
    <3>3. at[want] \in {"none", "work", "push"} => at'[want] \in {"none", "work", "push"}
      BY <1>1, <1>3, <3>2
    <3> QED BY <1>2, <1>3, <3>1, <3>3
  <2> QED BY <1>2, <1>4, <2>1, <2>2, <2>3 DEF Reached
<1> QED BY <1>2, <1>5, <1>6, <1>7, <1>8, <1>9, Zenon DEF IInv, Rest

LEMMA ResetRest ==
  ASSUME IInv, NEW s \in DOMAIN kind, Reset(s)
  PROVE  Rest'
<1>1. s \in Signal /\ at[s] = "reset" /\ kind[s] # "output"
  <2>1. s \in Signal /\ at[s] = "reset"
    BY Typing DEF IInv, Reset, Goto
  <2> QED BY <2>1 DEF IInv, Arrival
<1>2. /\ Moves(s, "reset", "done")
      /\ UNCHANGED <<queue, toPerl, next, output>> /\ running' = FALSE
      /\ raced' = raced /\ missed' = missed /\ overtaken' = overtaken /\ killer' = killer
  BY <1>1 DEF Reset, Moves, Place, history
<1>3. at'[s] = "done" /\ \A t \in Signal : t # s => at'[t] = at[t]
  BY <1>2, Moved
<1>4. \A i : Unsent(i)' <=> Unsent(i)
  BY <1>2, SameUnsent
<1>5. ASSUME OneSender PROVE OneSender'
  <2>1. \A t \in Signal : at[t] \in Sending => t = s
    BY <1>1, <1>5 DEF OneSender, Sending
  <2>2. \A t \in Signal : at'[t] \notin Sending
    BY <1>3, <2>1 DEF Sending
  <2> QED BY <1>2, <2>2 DEF OneSender, Sending
<1>6. Threads' /\ Arrival' /\ Queued' /\ Waits'
  BY <1>2, Moved, MovedQueue, MovedPipe
<1>7. (Sent => Sent') /\ (NotSent => NotSent') /\ (Answered => Answered')
  BY <1>2, <1>4, MovedPipe, MovedAnswers, MovedUnsent
<1>8. (Unfetched => Unfetched') /\ (InOrder => InOrder') /\ (Reached => Reached')
  BY <1>1, <1>2, MovedKiller, MovedOutput, MovedReached
<1> QED BY <1>2, <1>5, <1>6, <1>7, <1>8, Zenon DEF IInv, Rest

LEMMA ClearRest ==
  ASSUME IInv, NEW s \in DOMAIN kind, Clear(s)
  PROVE  Rest'
<1>1. s \in Signal /\ at[s] = "clear" /\ kind[s] # "output"
  <2>1. s \in Signal /\ at[s] = "clear"
    BY Typing DEF IInv, Clear, Goto
  <2> QED BY <2>1 DEF IInv, Arrival
<1>2. /\ Moves(s, "clear", "reset")
      /\ UNCHANGED <<toPerl, next, running, output>> /\ queue' = <<>>
      /\ raced' = raced /\ missed' = missed /\ overtaken' = overtaken /\ killer' = killer
  BY <1>1 DEF Clear, Moves, Place
<1>3. /\ at'[s] = "reset"
      /\ \A t \in Signal : t # s => at'[t] = at[t]
      /\ perl' = perl /\ want' = want /\ reader' = reader /\ reader # "launch"
  BY <1>2, Moved
<1>4. DOMAIN queue' = {} /\ Distinct(queue')
  BY <1>2, EmptyHolds
<1>5. OneSender => OneSender'
  BY <1>1, <1>2, <1>3 DEF OneSender, Sending
<1>6. Threads' /\ Arrival' /\ Queued' /\ Waits'
  <2>1. Queued'
    BY <1>3, <1>4 DEF Queued
  <2> QED BY <1>2, <2>1, Moved, MovedPipe
<1>7. (Sent => Sent') /\ NotSent' /\ (Answered => Answered')
  <2>1. NotSent'
    BY <1>4 DEF NotSent
  <2> QED BY <1>2, <2>1, MovedPipe, MovedAnswers
<1>8. (Unfetched => Unfetched') /\ (InOrder => InOrder')
  BY <1>1, <1>2, MovedKiller, MovedOutput
<1>9. ASSUME OneSender, Reached PROVE Reached'
  <2>1. \A t \in Signal : at'[t] \notin {"loop", "clear"}
    BY <1>1, <1>3, <1>9 DEF OneSender, Sending
  <2>2. ASSUME NEW i \in DOMAIN queue, Unsent(i) PROVE FALSE
    <3>1. next[s] <= i /\ next[s] > Len(queue) /\ next[s] \in Nat
      BY <1>1, <1>9, <2>2, Typing DEF IInv, Unsent, Reached
    <3>2. i \in Nat /\ i <= Len(queue) /\ Len(queue) \in Nat
      BY <2>2, Typing DEF IInv
    <3> QED BY <3>1, <3>2
  <2>3. ASSUME perl' = "fetch", want' # 0
        PROVE  \/ Holds(toPerl', want')
               \/ at'[want'] \in {"none", "work", "push"}
    <3>1. Holds(toPerl, want) \/ at[want] \in {"none", "work", "push"}
      BY <1>3, <1>9, <2>2, <2>3 DEF Reached
    <3>2. want \in Signal
      BY <1>3, <2>3, Typing DEF IInv, Signal
    <3>3. at[want] \in {"none", "work", "push"} => at'[want] \in {"none", "work", "push"}
      BY <1>1, <1>3, <3>2
    <3> QED BY <1>2, <1>3, <3>1, <3>3
  <2> QED BY <1>4, <2>1, <2>3 DEF Reached
<1> QED BY <1>2, <1>5, <1>6, <1>7, <1>8, <1>9, Zenon DEF IInv, Rest

LEMMA DeliverRest ==
  ASSUME IInv, NEW s \in DOMAIN kind, Deliver(s)
  PROVE  Rest'
<1>1. /\ s \in Signal /\ at[s] = "loop" /\ kind[s] # "output"
      /\ next[s] \in Nat \ {0} /\ next[s] <= Len(queue)
  <2>1. s \in Signal /\ at[s] = "loop" /\ next[s] \in Nat \ {0} /\ next[s] <= Len(queue)
    BY Typing DEF IInv, Deliver, Goto
  <2> QED BY <2>1 DEF IInv, Arrival
<1>2. /\ Moves(s, "loop", "loop")
      /\ UNCHANGED <<queue, running, output>>
      /\ next' = [next EXCEPT ![s] = @ + 1]
      /\ raced' = raced /\ missed' = missed /\ overtaken' = overtaken
  BY <1>1 DEF Deliver, Moves, Place
<1>3. /\ \A t \in Signal : at'[t] = at[t]
      /\ perl' = perl /\ want' = want /\ kind' = kind /\ stash' = stash /\ answer' = answer
      /\ reader' = reader /\ reader # "launch"
      /\ \A x : Pushed(x) => Pushed(x)'
  BY <1>1, <1>2, Moved
<1>4. next'[s] = next[s] + 1 /\ \A t \in Signal : t # s => next'[t] = next[t]
  BY <1>1, <1>2, Typing DEF IInv
<1>5. PICK n \in Nat \ {0} : n = next[s]
  BY <1>1
<1>6. PICK x : x = queue[n]
  OBVIOUS
<1>7. /\ n \in DOMAIN queue /\ x \in Signal /\ x # 0 /\ x \in 0..MaxSignals
      /\ Pushed(x) /\ x \in DOMAIN kind /\ kind[x] \in Asks \union {"add_pro_file"}
  <2>1. n \in DOMAIN queue /\ x \in 0..MaxSignals
    BY <1>1, <1>5, <1>6, Typing DEF IInv
  <2>2. x # 0 /\ Pushed(x)
    BY <1>3, <1>6, <2>1 DEF IInv, Queued
  <2>3. x \in DOMAIN kind /\ kind[x] # "output" /\ kind[x] \in Kind
    BY <2>2, Typing DEF IInv, Pushed
  <2> QED BY <2>1, <2>2, <2>3 DEF Kind, Signal
<1>8. \/ perl = "off" /\ killer' = x /\ toPerl' = toPerl
      \/ perl # "off" /\ killer' = killer /\ toPerl' = Append(toPerl, x)
  BY <1>5, <1>6 DEF Deliver
<1>9. /\ DOMAIN queue = 1..Len(queue) /\ Len(queue) \in Nat
      /\ toPerl \in Seq(0..MaxSignals)
  BY Typing DEF IInv
<1>10. CASE perl # "off"
  <2>1. killer' = killer
    BY <1>8, <1>10
  <2>2. /\ \A y : Holds(toPerl', y) <=> Holds(toPerl, y) \/ y = x
        /\ Distinct(toPerl) /\ ~Holds(toPerl, x) => Distinct(toPerl')
    <3>1. /\ \A y : Holds(Append(toPerl, x), y) <=> Holds(toPerl, y) \/ y = x
          /\ Distinct(toPerl) /\ ~Holds(toPerl, x) => Distinct(Append(toPerl, x))
      BY <1>7, <1>9, AppendHolds
    <3>2. toPerl' = Append(toPerl, x)
      BY <1>8, <1>10
    <3> QED BY <3>1, <3>2
  <2>3. Threads' /\ Arrival' /\ Queued'
    BY <1>2, Moved, MovedQueue
  <2>4. Waits'
    BY <1>3, <2>2 DEF IInv, Waits
  <2>5. OneSender => OneSender'
    BY <1>2, <1>3 DEF OneSender, Sending
  <2>6. (Answered => Answered') /\ (Unfetched => Unfetched') /\ (InOrder => InOrder')
    BY <1>1, <1>2, <2>1, MovedAnswers, MovedKiller, MovedOutput
  <2>7. ASSUME NEW i \in DOMAIN queue, Unsent(i)' PROVE Unsent(i) /\ i # n /\ n < i
    <3>1. n + 1 <= i /\ i \in Nat
      BY <1>1, <1>3, <1>4, <1>5, <1>9, <2>7 DEF Unsent
    <3>2. ASSUME NEW t \in Signal, at[t] \in {"loop", "clear"} PROVE next[t] <= i
      <4>1. next'[t] <= i
        BY <1>3, <2>7, <3>2 DEF Unsent
      <4> QED BY <1>4, <1>5, <3>1, <4>1
    <3> QED BY <3>1, <3>2 DEF Unsent
  <2>8. ASSUME OneSender PROVE Unsent(n)
    <3>1. \A t \in Signal : at[t] \in {"loop", "clear"} => t = s
      BY <1>1, <2>8 DEF OneSender, Sending
    <3> QED BY <1>5, <3>1 DEF Unsent
  <2>9. ASSUME OneSender, Sent, NotSent, Answered PROVE Sent' /\ NotSent'
    <3>1. ~Holds(toPerl, x) /\ ~Holds(stash, x) /\ answer[x] = 0
      BY <1>6, <1>7, <2>8, <2>9 DEF NotSent
    <3>2. kind[x] \in Asks => perl = "fetch" /\ want = x
      BY <1>7, <2>9, <3>1 DEF Answered
    <3>3. ASSUME NEW y \in 0..MaxSignals, Holds(toPerl', y)
          PROVE  /\ y = 0 \/ Pushed(y)'
                 /\ y = 0 \/ kind'[y] \in Asks => perl' = "fetch" /\ want' = y
                 /\ ~Holds(stash', y)
      <4>1. CASE y = x
        BY <1>3, <1>7, <3>1, <3>2, <4>1
      <4>2. CASE Holds(toPerl, y)
        <5>1. /\ y = 0 \/ Pushed(y)
              /\ y = 0 \/ kind[y] \in Asks => perl = "fetch" /\ want = y
              /\ ~Holds(stash, y)
          BY <2>9, <4>2 DEF Sent
        <5> QED BY <1>3, <5>1
      <4> QED BY <2>2, <3>3, <4>1, <4>2
    <3>4. ASSUME NEW y \in 0..MaxSignals, Holds(stash', y)
          PROVE  y # 0 /\ Pushed(y)' /\ kind'[y] \notin Asks
      <4>1. y # 0 /\ Pushed(y) /\ kind[y] \notin Asks
        BY <1>3, <2>9, <3>4 DEF Sent
      <4> QED BY <1>3, <4>1
    <3>5. Distinct(toPerl') /\ Distinct(stash')
      BY <1>3, <2>2, <2>9, <3>1 DEF Sent
    <3>6. Sent'
      BY <3>3, <3>4, <3>5 DEF Sent
    <3>7. ASSUME NEW i \in DOMAIN queue, Unsent(i)'
          PROVE  /\ ~Holds(toPerl', queue[i]) /\ ~Holds(stash', queue[i])
                 /\ queue[i] # 0 => answer'[queue[i]] = 0
      <4>1. Unsent(i) /\ i # n
        BY <2>7, <3>7
      <4>2. /\ ~Holds(toPerl, queue[i]) /\ ~Holds(stash, queue[i])
            /\ queue[i] # 0 => answer[queue[i]] = 0
        BY <2>9, <4>1 DEF NotSent
      <4>3. queue[i] # x
        BY <1>6, <1>7, <4>1 DEF IInv, Queued, Distinct
      <4> QED BY <1>3, <2>2, <4>2, <4>3
    <3>8. NotSent'
      BY <1>2, <3>7 DEF NotSent
    <3> QED BY <3>6, <3>8
  <2>10. ASSUME OneSender, Reached PROVE Reached'
    <3>1. \A t \in Signal : at[t] \in {"loop", "clear"} => t = s
      BY <1>1, <2>10 DEF OneSender, Sending
    <3>2. /\ \A t \in Signal : at'[t] = "loop" => next'[t] <= Len(queue') + 1
          /\ \A t \in Signal : at'[t] = "clear" => next'[t] > Len(queue')
      <4>1. next'[s] <= Len(queue) + 1
        BY <1>1, <1>4, <1>9
      <4> QED BY <1>1, <1>2, <1>3, <3>1, <4>1
    <3>3. ASSUME NEW i \in DOMAIN queue, n < i PROVE Unsent(i)'
      <4>1. next'[s] <= i
        BY <1>4, <1>5, <1>9, <3>3
      <4> QED BY <1>3, <3>1, <4>1 DEF Unsent
    <3>4. ASSUME perl' = "fetch", want' # 0
          PROVE  \/ Holds(toPerl', want')
                 \/ at'[want'] \in {"none", "work", "push"}
                 \/ \E i \in DOMAIN queue' : queue'[i] = want' /\ Unsent(i)'
      <4>1. \/ Holds(toPerl, want)
            \/ at[want] \in {"none", "work", "push"}
            \/ \E i \in DOMAIN queue : queue[i] = want /\ Unsent(i)
        BY <1>3, <2>10, <3>4 DEF Reached
      <4>2. want \in Signal
        BY <1>3, <3>4, Typing DEF IInv, Signal
      <4>3. ASSUME NEW i \in DOMAIN queue, queue[i] = want, Unsent(i)
            PROVE  Holds(toPerl', want) \/ Unsent(i)'
        <5>1. n <= i
          BY <1>1, <1>5, <4>3 DEF Unsent
        <5>2. CASE i = n
          BY <1>6, <2>2, <4>3, <5>2
        <5>3. CASE i # n
          BY <1>9, <3>3, <5>1, <5>3
        <5> QED BY <5>2, <5>3
      <4>4. Holds(toPerl, want) => Holds(toPerl', want)
        BY <2>2
      <4> QED BY <1>2, <1>3, <4>1, <4>2, <4>3, <4>4
    <3>5. \E t \in Signal : at'[t] = "loop"
      BY <1>1, <1>3
    <3> QED BY <3>2, <3>4, <3>5 DEF Reached
  <2> QED BY <1>2, <2>3, <2>4, <2>5, <2>6, <2>9, <2>10, Zenon DEF IInv, Rest
<1>11. CASE perl = "off"
  <2>1. killer' = x /\ toPerl' = toPerl
    BY <1>8, <1>11
  <2>2. Threads' /\ Arrival' /\ Queued' /\ Waits'
    BY <1>2, <2>1, Moved, MovedQueue, MovedPipe
  <2>3. OneSender => OneSender'
    BY <1>2, <1>3 DEF OneSender, Sending
  <2>4. \A i \in DOMAIN queue : Unsent(i)' => Unsent(i)
    <3>1. ASSUME NEW i \in DOMAIN queue, Unsent(i)', NEW t \in Signal,
                 at[t] \in {"loop", "clear"}
          PROVE  next[t] <= i
      <4>1. next'[t] <= i /\ i \in Nat
        BY <1>3, <1>9, <3>1 DEF Unsent
      <4> QED BY <1>4, <1>5, <4>1
    <3> QED BY <3>1 DEF Unsent
  <2>5. (Sent => Sent') /\ (NotSent => NotSent') /\ (Answered => Answered')
          /\ (InOrder => InOrder')
    BY <1>1, <1>2, <2>1, <2>4, MovedPipe, MovedAnswers, MovedUnsent, MovedOutput
  <2>6. ASSUME OneSender, NotSent, Answered PROVE Unfetched'
    <3>1. \A t \in Signal : at[t] \in {"loop", "clear"} => t = s
      BY <1>1, <2>6 DEF OneSender, Sending
    <3>2. Unsent(n)
      BY <1>5, <3>1 DEF Unsent
    <3>3. answer[x] = 0
      BY <1>6, <1>7, <2>6, <3>2 DEF NotSent
    <3>4. kind[x] \notin Asks
      BY <1>7, <1>11, <2>6, <3>3 DEF Answered
    <3> QED BY <1>3, <1>7, <2>1, <3>4 DEF Unfetched
  <2>7. ASSUME OneSender, Reached PROVE Reached'
    <3>1. \A t \in Signal : at[t] \in {"loop", "clear"} => t = s
      BY <1>1, <2>7 DEF OneSender, Sending
    <3>2. /\ \A t \in Signal : at'[t] = "loop" => next'[t] <= Len(queue') + 1
          /\ \A t \in Signal : at'[t] = "clear" => next'[t] > Len(queue')
      <4>1. next'[s] <= Len(queue) + 1
        BY <1>1, <1>4, <1>9
      <4> QED BY <1>1, <1>2, <1>3, <3>1, <4>1
    <3>3. \E t \in Signal : at'[t] = "loop"
      BY <1>1, <1>3
    <3>4. perl' # "fetch"
      BY <1>3, <1>11
    <3> QED BY <3>2, <3>3, <3>4 DEF Reached
  <2> QED BY <1>2, <2>2, <2>3, <2>5, <2>6, <2>7, Zenon DEF IInv, Rest
<1> QED BY <1>10, <1>11
-----------------------------------------------------------------------------
(* The steps of the main thread and of the reader.                          *)

LEMMA SendersKept ==
  ASSUME UNCHANGED <<at, next, running>>
  PROVE  (\A i : Unsent(i)' <=> Unsent(i)) /\ (OneSender => OneSender')
BY DEF Unsent, OneSender

LEMMA PlacesKept ==
  ASSUME UNCHANGED <<at, kind>>
  PROVE  (\A x : Pushed(x)' <=> Pushed(x)) /\ Lines' = Lines
BY DEF Pushed, Lines

(* Before and after a statement no handler is at work.                      *)
LEMMA AllReceived ==
  ASSUME IInv, toReader = <<>>
  PROVE  Received = Len(kind) /\ \A s \in DOMAIN kind : at[s] # "none"
<1>1. Received = Len(kind) /\ Len(kind) \in Nat /\ DOMAIN kind = 1..Len(kind)
        /\ DOMAIN kind \subseteq Signal
  BY Typing DEF IInv, Received
<1>2. ASSUME NEW s \in DOMAIN kind PROVE at[s] # "none"
  <2>1. ~(s > Received)
    BY <1>1, <1>2
  <2> QED BY <1>1, <1>2, <2>1 DEF IInv, Arrival
<1> QED BY <1>1, <1>2

LEMMA BeginRest ==
  ASSUME IInv, Begin
  PROVE  Rest'
<1>1. /\ main = "idle" /\ main' = "join" /\ reader' = "launch"
      /\ first' = Len(kind) /\ output' = 0 /\ queue' = Append(queue, 0)
      /\ threads' = threads /\ toReader' = toReader /\ toPerl' = toPerl
      /\ perl' = perl /\ want' = want /\ kind' = kind /\ stash' = stash /\ answer' = answer
      /\ at' = at /\ next' = next /\ running' = running
      /\ raced' = raced /\ missed' = missed /\ overtaken' = overtaken /\ killer' = killer
  BY DEF Begin, interpreter, history
<1>2. Threads /\ Arrival /\ Queued /\ Waits
  BY DEF IInv
<1>3. /\ reader = "off" /\ perl = "off" /\ toReader = <<>>
      /\ toPerl = <<>> /\ stash = <<>> /\ threads = {}
  BY <1>1, <1>2 DEF Threads
<1>4. /\ (\A i : Unsent(i)' <=> Unsent(i)) /\ (OneSender => OneSender')
      /\ (\A x : Pushed(x)' <=> Pushed(x)) /\ Lines' = Lines
  BY <1>1, SendersKept, PlacesKept
<1>5. \A t \in Signal : at[t] \in {"none", "done"}
  BY <1>2, <1>3 DEF Threads
<1>6. Threads'
  BY <1>1, <1>2, <1>3 DEF Threads
<1>7. Arrival'
  <2>1. Received' = Received
    BY <1>1 DEF Received
  <2>2. /\ Received = Len(kind) /\ Len(kind) \in Nat /\ DOMAIN kind = 1..Len(kind)
        /\ \A s \in DOMAIN kind : at[s] # "none"
    BY <1>3, AllReceived, Typing DEF IInv
  <2>3. \A t \in Signal : t <= first' => at'[t] = "done"
    <3>1. ASSUME NEW t \in Signal, t <= first' PROVE at[t] = "done"
      <4>1. t \in DOMAIN kind
        BY <1>1, <2>2, <3>1 DEF Signal
      <4> QED BY <1>5, <2>2, <4>1
    <3> QED BY <1>1, <3>1
  <2>4. first' <= Len(kind')
    BY <1>1, <2>2
  <2> QED BY <1>1, <1>2, <2>1, <2>3, <2>4 DEF Arrival
<1>8. /\ queue \in Seq(0..MaxSignals) /\ 0 \in 0..MaxSignals /\ Len(queue) \in Nat
  BY Typing DEF IInv
<1>9. /\ DOMAIN queue' = DOMAIN queue \union {Len(queue) + 1}
      /\ Len(queue') = Len(queue) + 1
      /\ \A i \in DOMAIN queue : queue'[i] = queue[i]
      /\ queue'[Len(queue) + 1] = 0
      /\ Holds(queue', 0)
      /\ Distinct(queue) /\ ~Holds(queue, 0) => Distinct(queue')
  BY <1>1, <1>8, AppendHolds
<1>10. ~Holds(queue, 0)
  BY <1>2, <1>3 DEF Queued, Holds
<1>11. Queued'
  <2>1. ASSUME NEW i \in DOMAIN queue'
        PROVE  queue'[i] = 0 \/ (queue'[i] # 0 /\ Pushed(queue[i])')
    <3>1. CASE i \in DOMAIN queue
      <4>1. PICK x : x = queue[i]
        OBVIOUS
      <4>2. queue'[i] = x /\ x # 0 /\ Pushed(x)'
        BY <1>2, <1>3, <1>4, <1>9, <3>1, <4>1 DEF Queued
      <4> QED BY <4>2 DEF Pushed
    <3>2. CASE i = Len(queue) + 1
      BY <1>9, <3>2
    <3> QED BY <1>9, <2>1, <3>1, <3>2
  <2>2. Distinct(queue')
    BY <1>2, <1>9, <1>10 DEF Queued
  <2> QED BY <1>1, <1>9, <2>1, <2>2 DEF Queued
<1>12. Waits'
  BY <1>1, <1>3 DEF Waits
<1>13. (Sent => Sent') /\ (Answered => Answered') /\ (Unfetched => Unfetched')
  BY <1>1, <1>4 DEF Sent, Answered, Unfetched
<1>14. ASSUME NotSent PROVE NotSent'
  <2>1. (\A x : ~Holds(toPerl', x)) /\ \A x : ~Holds(stash', x)
    BY <1>1, <1>3, EmptyHolds
  <2>2. ASSUME NEW i \in DOMAIN queue', Unsent(i)', queue'[i] # 0
        PROVE  answer'[queue'[i]] = 0
    BY <1>1, <1>4, <1>9, <1>14, <2>2 DEF NotSent
  <2> QED BY <2>1, <2>2 DEF NotSent
<1>15. ASSUME Reached PROVE Reached'
  <2>1. ASSUME NEW i \in DOMAIN queue', Unsent(i)', queue'[i] # 0
        PROVE  at'[queue'[i]] \in {"test", "set"} \/ \E t \in Signal : at'[t] = "loop"
    BY <1>1, <1>4, <1>9, <1>15, <2>1 DEF Reached
  <2> QED BY <1>1, <1>3, <1>5, <2>1 DEF Reached
<1>16. ASSUME InOrder PROVE InOrder'
  <2>1. ~ \E s \in Lines' : s > first'
    BY <1>1, <1>4, Typing DEF Lines, IInv
  <2> QED BY <1>1, <1>4, <1>16, <2>1 DEF InOrder
<1> QED BY <1>1, <1>4, <1>6, <1>7, <1>11, <1>12, <1>13, <1>14, <1>15, <1>16, Zenon
        DEF IInv, Rest

(* Only main changes.                                                       *)
LEMMA ShowRest ==
  ASSUME IInv, Show
  PROVE  Rest'
<1>1. /\ main = "poll" /\ main' = "idle"
      /\ first' = first /\ output' = output /\ queue' = queue /\ reader' = reader
      /\ threads' = threads /\ toReader' = toReader /\ toPerl' = toPerl
      /\ perl' = perl /\ want' = want /\ kind' = kind /\ stash' = stash /\ answer' = answer
      /\ at' = at /\ next' = next /\ running' = running
      /\ raced' = raced /\ missed' = missed /\ overtaken' = overtaken /\ killer' = killer
  BY DEF Show, interpreter, history
<1>2. /\ (\A i : Unsent(i)' <=> Unsent(i)) /\ (OneSender => OneSender')
      /\ (\A x : Pushed(x)' <=> Pushed(x)) /\ Lines' = Lines
  BY <1>1, SendersKept, PlacesKept
<1>3. Threads'
  BY <1>1 DEF IInv, Threads
<1>4. Arrival' /\ Waits'
  BY <1>1 DEF IInv, Arrival, Received, Waits
<1>5. Queued'
  BY <1>1, <1>2 DEF IInv, Queued, Pushed
<1>6. (Sent => Sent') /\ (NotSent => NotSent') /\ (Answered => Answered')
        /\ (Unfetched => Unfetched')
  BY <1>1, <1>2 DEF Sent, NotSent, Answered, Unfetched
<1>7. (Reached => Reached') /\ (InOrder => InOrder')
  BY <1>1, <1>2 DEF Reached, InOrder
<1> QED BY <1>1, <1>2, <1>3, <1>4, <1>5, <1>6, <1>7, Zenon DEF IInv, Rest

LEMMA LaunchRest ==
  ASSUME IInv, Launch
  PROVE  Rest'
<1>1. /\ reader = "launch" /\ reader' = "read" /\ perl' = "fetch" /\ want' = 0
      /\ toPerl' = queue /\ queue' = <<>>
      /\ main' = main /\ first' = first /\ output' = output
      /\ threads' = threads /\ toReader' = toReader
      /\ kind' = kind /\ stash' = stash /\ answer' = answer
      /\ at' = at /\ next' = next /\ running' = running
      /\ raced' = raced /\ missed' = missed /\ overtaken' = overtaken /\ killer' = killer
  BY DEF Launch, statement, history
<1>2. Threads /\ Arrival /\ Queued /\ Waits
  BY DEF IInv
<1>3. perl = "off" /\ stash = <<>> /\ threads = {}
  BY <1>1, <1>2 DEF Threads
<1>4. /\ (OneSender => OneSender')
      /\ (\A x : Pushed(x)' <=> Pushed(x)) /\ Lines' = Lines
  BY <1>1, SendersKept, PlacesKept
<1>5. \A t \in Signal : at[t] \in {"none", "done"}
  BY <1>2, <1>3 DEF Threads
<1>6. Threads'
  BY <1>1, <1>2 DEF Threads
<1>7. Arrival'
  BY <1>1, <1>2 DEF Arrival, Received
<1>8. Queued'
  BY <1>1, EmptyHolds DEF Queued
<1>9. Waits'
  BY <1>1, <1>2 DEF Waits, Queued
<1>10. NotSent' /\ (Answered => Answered') /\ (Unfetched => Unfetched')
  BY <1>1, <1>3, <1>4 DEF NotSent, Answered, Unfetched
<1>11. ASSUME NotSent, Answered PROVE Sent'
  <2>1. ASSUME NEW x \in 0..MaxSignals, Holds(toPerl', x)
        PROVE  /\ x = 0 \/ Pushed(x)'
               /\ x = 0 \/ kind'[x] \in Asks => perl' = "fetch" /\ want' = x
    <3>1. PICK i \in DOMAIN queue : queue[i] = x
      BY <1>1, <2>1 DEF Holds
    <3>2. x = 0 \/ Pushed(x)
      BY <1>2, <3>1 DEF Queued
    <3>3. ASSUME x # 0, kind[x] \in Asks PROVE FALSE
      <4>1. Unsent(i)
        BY <1>5 DEF Unsent
      <4>2. answer[x] = 0
        BY <1>11, <3>1, <3>3, <4>1 DEF NotSent
      <4>3. x \in DOMAIN kind /\ x \in Signal
        BY <2>1, <3>2, <3>3 DEF Pushed, Signal
      <4> QED BY <1>3, <1>11, <3>3, <4>2, <4>3 DEF Answered
    <3> QED BY <1>1, <1>4, <3>2, <3>3
  <2>2. (\A x : ~Holds(stash', x)) /\ Distinct(stash')
    BY <1>1, <1>3, EmptyHolds
  <2>3. Distinct(toPerl')
    BY <1>1, <1>2 DEF Queued
  <2> QED BY <2>1, <2>2, <2>3 DEF Sent
<1>12. Reached'
  BY <1>1, <1>5 DEF Reached
<1>13. InOrder => InOrder'
  BY <1>1, <1>4 DEF InOrder
<1> QED BY <1>1, <1>4, <1>6, <1>7, <1>8, <1>9, <1>10, <1>11, <1>12, <1>13, Zenon
        DEF IInv, Rest

LEMMA JoinFullRest ==
  ASSUME IInv, JoinFull
  PROVE  Rest'
<1>1. /\ reader = "full" /\ reader' = "read" /\ threads' = {} /\ Joinable
      /\ main' = main /\ first' = first /\ output' = output /\ queue' = queue
      /\ toReader' = toReader /\ toPerl' = toPerl
      /\ perl' = perl /\ want' = want /\ kind' = kind /\ stash' = stash /\ answer' = answer
      /\ at' = at /\ next' = next /\ running' = running
      /\ raced' = raced /\ missed' = missed /\ overtaken' = overtaken /\ killer' = killer
  BY DEF JoinFull, statement, interpreter, history
<1>2. /\ (\A i : Unsent(i)' <=> Unsent(i)) /\ (OneSender => OneSender')
      /\ (\A x : Pushed(x)' <=> Pushed(x)) /\ Lines' = Lines
  BY <1>1, SendersKept, PlacesKept
<1>3. Threads'
  BY <1>1 DEF IInv, Threads, Joinable
<1>4. Arrival' /\ Waits'
  BY <1>1 DEF IInv, Arrival, Received, Waits
<1>5. Queued'
  BY <1>1, <1>2 DEF IInv, Queued, Pushed
<1>6. (Sent => Sent') /\ (NotSent => NotSent') /\ (Answered => Answered')
        /\ (Unfetched => Unfetched')
  BY <1>1, <1>2 DEF Sent, NotSent, Answered, Unfetched
<1>7. (Reached => Reached') /\ (InOrder => InOrder')
  BY <1>1, <1>2 DEF Reached, InOrder
<1> QED BY <1>1, <1>2, <1>3, <1>4, <1>5, <1>6, <1>7, Zenon DEF IInv, Rest

LEMMA FinishRest ==
  ASSUME IInv, Finish
  PROVE  Rest'
<1>1. /\ reader = "read" /\ perl = "off" /\ toReader = <<>> /\ Joinable
      /\ reader' = "off" /\ threads' = {} /\ main' = "poll"
      /\ toPerl' = <<>> /\ stash' = <<>>
      /\ first' = first /\ output' = output /\ queue' = queue /\ toReader' = toReader
      /\ perl' = perl /\ want' = want /\ kind' = kind /\ answer' = answer
      /\ at' = at /\ next' = next /\ running' = running
      /\ raced' = raced /\ missed' = missed /\ overtaken' = overtaken /\ killer' = killer
  BY DEF Finish, history
<1>2. /\ (\A i : Unsent(i)' <=> Unsent(i)) /\ (OneSender => OneSender')
      /\ (\A x : Pushed(x)' <=> Pushed(x)) /\ Lines' = Lines
  BY <1>1, SendersKept, PlacesKept
<1>3. Threads'
  BY <1>1 DEF IInv, Threads, Joinable
<1>4. Arrival' /\ Waits'
  BY <1>1 DEF IInv, Arrival, Received, Waits
<1>5. Queued'
  <2>1. reader # "launch" /\ reader' # "launch"
    BY <1>1
  <2> QED BY <1>1, <1>2, <2>1 DEF IInv, Queued, Pushed
<1>6. Sent' /\ (NotSent => NotSent') /\ (Answered => Answered') /\ (Unfetched => Unfetched')
  <2>1. /\ \A x : ~Holds(toPerl', x) /\ ~Holds(stash', x)
        /\ Distinct(toPerl') /\ Distinct(stash')
    BY <1>1, EmptyHolds
  <2>2. Sent'
    BY <2>1 DEF Sent
  <2>3. NotSent => NotSent'
    BY <1>1, <1>2, <2>1 DEF NotSent
  <2> QED BY <1>1, <1>2, <2>2, <2>3 DEF Answered, Unfetched
<1>7. (Reached => Reached') /\ (InOrder => InOrder')
  BY <1>1, <1>2 DEF Reached, InOrder
<1> QED BY <1>1, <1>2, <1>3, <1>4, <1>5, <1>6, <1>7, Zenon DEF IInv, Rest

LEMMA ReceiveRest ==
  ASSUME IInv, Receive
  PROVE  Rest'
<1> PICK h : h = Head(toReader)
  OBVIOUS
<1>1. /\ reader = "read" /\ reader' \in {"read", "full"} /\ toReader # <<>>
      /\ toReader' = Tail(toReader) /\ threads' = threads \union {h}
      /\ at' = [at EXCEPT ![h] = "work"]
      /\ main' = main /\ first' = first /\ output' = output /\ queue' = queue
      /\ toPerl' = toPerl
      /\ perl' = perl /\ want' = want /\ kind' = kind /\ stash' = stash /\ answer' = answer
      /\ next' = next /\ running' = running
      /\ raced' = raced /\ missed' = missed /\ overtaken' = overtaken /\ killer' = killer
  BY DEF Receive, statement, interpreter, history
<1>2. Threads /\ Arrival /\ Queued /\ Waits
  BY DEF IInv
<1>3. /\ h \in Signal /\ h = toReader[1] /\ 1 \in DOMAIN toReader
      /\ Len(toReader') = Len(toReader) - 1 /\ Len(toReader) \in Nat \ {0}
      /\ \A i \in DOMAIN toReader' : i + 1 \in DOMAIN toReader /\ toReader'[i] = toReader[i + 1]
      /\ toReader' \in Seq(Signal)
  <2>1. toReader \in Seq(Signal)
    BY Typing DEF IInv
  <2>2. 1 \in DOMAIN toReader
    BY <1>1, <2>1
  <2> QED BY <1>1, <2>1, <2>2, TailHolds
<1>4. Received \in Nat /\ Received' = Received + 1 /\ h = Received + 1 /\ Len(kind) \in Nat
  <2>1. Len(kind) \in Nat /\ Len(toReader) <= Len(kind)
    BY <1>2, Typing DEF IInv, Arrival
  <2>2. h = Received + 1
    BY <1>2, <1>3 DEF Arrival
  <2> QED BY <1>1, <1>3, <2>1, <2>2 DEF Received
<1>5. /\ at[h] = "none" /\ at'[h] = "work" /\ \A t \in Signal : t # h => at'[t] = at[t]
  <2>1. at[h] = "none"
    BY <1>2, <1>3, <1>4 DEF Arrival
  <2> QED BY <1>1, <1>3, <2>1, Typing DEF IInv
<1>6. /\ \A i : Unsent(i)' <=> Unsent(i)
      /\ \A x : Pushed(x)' <=> Pushed(x)
      /\ Lines' = Lines /\ (OneSender => OneSender')
  <2>1. \A t \in Signal : at'[t] \in {"loop", "clear"} <=> at[t] \in {"loop", "clear"}
    BY <1>5
  <2>2. \A i : Unsent(i)' <=> Unsent(i)
    BY <1>1, <2>1 DEF Unsent
  <2>3. DOMAIN kind \subseteq Signal
    BY Typing DEF IInv
  <2>4. \A x : Pushed(x)' <=> Pushed(x)
    BY <1>1, <1>5, <2>3 DEF Pushed
  <2>5. Lines' = Lines
    BY <1>1, <1>5, <2>3 DEF Lines
  <2>6. OneSender => OneSender'
    <3>1. \A t \in Signal : /\ at'[t] \in Sending <=> at[t] \in Sending
                            /\ at'[t] \in {"loop", "clear", "reset"} <=>
                                 at[t] \in {"loop", "clear", "reset"}
      BY <1>5 DEF Sending
    <3> QED BY <1>1, <3>1 DEF OneSender
  <2> QED BY <2>2, <2>4, <2>5, <2>6
<1>7. Threads'
  <2>1. \A t \in Signal : at'[t] \notin {"none", "done"} => t \in threads'
    BY <1>1, <1>2, <1>5 DEF Threads
  <2> QED BY <1>1, <1>2, <2>1 DEF Threads
<1>8. Arrival'
  <2>1. \A i \in DOMAIN toReader' : toReader'[i] = Received' + i
    <3>1. ASSUME NEW i \in DOMAIN toReader' PROVE toReader'[i] = Received' + i
      <4>1. toReader[i + 1] = Received + (i + 1) /\ toReader'[i] = toReader[i + 1]
        BY <1>2, <1>3, <3>1 DEF Arrival
      <4>2. i \in Nat
        BY <1>3, <3>1
      <4> QED BY <1>4, <4>1, <4>2
    <3> QED BY <3>1
  <2>2. \A t \in Signal : at'[t] = "none" <=> t > Received'
    <3>1. ASSUME NEW t \in Signal PROVE at'[t] = "none" <=> t > Received'
      <4>1. CASE t = h
        BY <1>4, <1>5, <4>1
      <4>2. CASE t # h
        <5>1. at[t] = "none" <=> t > Received
          BY <1>2 DEF Arrival
        <5> QED BY <1>4, <1>5, <4>2, <5>1 DEF Signal
      <4> QED BY <4>1, <4>2
    <3> QED BY <3>1
  <2>3. \A t \in Signal : t <= first' => at'[t] = "done"
    BY <1>1, <1>2, <1>5 DEF Arrival
  <2>4. \A t \in DOMAIN kind' : kind'[t] = "output" => at'[t] \in {"none", "work", "done"}
    <3>1. DOMAIN kind \subseteq Signal
      BY Typing DEF IInv
    <3> QED BY <1>1, <1>2, <1>5, <3>1 DEF Arrival
  <2>5. first' <= Len(kind') /\ Len(toReader') <= Len(kind')
    BY <1>1, <1>2, <1>3, <1>4 DEF Arrival
  <2> QED BY <2>1, <2>2, <2>3, <2>4, <2>5 DEF Arrival
<1>9. Queued' /\ Waits'
  <2>1. reader # "launch" /\ reader' # "launch"
    BY <1>1
  <2> QED BY <1>1, <1>2, <1>6, <2>1 DEF Queued, Waits, Pushed
<1>10. (Sent => Sent') /\ (NotSent => NotSent') /\ (Answered => Answered')
        /\ (Unfetched => Unfetched')
  BY <1>1, <1>6 DEF Sent, NotSent, Answered, Unfetched
<1>11. ASSUME Reached PROVE Reached'
  <2>1. \A t \in Signal : /\ at'[t] = "loop" <=> at[t] = "loop"
                          /\ at'[t] = "clear" <=> at[t] = "clear"
                          /\ at'[t] \in {"test", "set"} <=> at[t] \in {"test", "set"}
                          /\ at[t] \in {"none", "work", "push"} =>
                               at'[t] \in {"none", "work", "push"}
    BY <1>5
  <2>2. \A i \in DOMAIN queue : queue[i] # 0 => queue[i] \in Signal
    BY Typing DEF IInv, Signal
  <2>3. want # 0 => want \in Signal
    BY Typing DEF IInv, Signal
  <2>4. ASSUME NEW i \in DOMAIN queue', Unsent(i)', queue'[i] # 0
        PROVE  at'[queue'[i]] \in {"test", "set"} \/ \E t \in Signal : at'[t] = "loop"
    BY <1>1, <1>6, <1>11, <2>1, <2>2, <2>4 DEF Reached
  <2>5. ASSUME perl' = "fetch", want' # 0
        PROVE  \/ Holds(toPerl', want')
               \/ at'[want'] \in {"none", "work", "push"}
               \/ \E i \in DOMAIN queue' : queue'[i] = want' /\ Unsent(i)'
    BY <1>1, <1>6, <1>11, <2>1, <2>3, <2>5 DEF Reached
  <2> QED BY <1>1, <1>11, <2>1, <2>4, <2>5 DEF Reached
<1>12. InOrder => InOrder'
  BY <1>1, <1>6 DEF InOrder
<1> QED BY <1>1, <1>6, <1>7, <1>8, <1>9, <1>10, <1>11, <1>12, Zenon DEF IInv, Rest
-----------------------------------------------------------------------------
(* The steps of Perl.                                                       *)

(* What Perl's next signal leaves as it is.                                 *)
LEMMA SendKeeps ==
  ASSUME IInv, NEW k \in Kind, Send(k)
  PROVE  /\ Len(kind) + 1 \in Signal /\ at[Len(kind) + 1] = "none"
         /\ DOMAIN kind' = DOMAIN kind \union {Len(kind) + 1}
         /\ \A s \in DOMAIN kind : kind'[s] = kind[s]
         /\ kind'[Len(kind) + 1] = k
         /\ kind' \in Seq(Kind) /\ Len(kind') = Len(kind) + 1
         /\ toReader' \in Seq(Signal)
         /\ Threads' /\ Arrival' /\ Queued'
         /\ OneSender => OneSender'
         /\ InOrder => InOrder'
         /\ Unfetched => Unfetched'
         /\ \A x : Pushed(x) <=> Pushed(x)'
         /\ \A i : Unsent(i) <=> Unsent(i)'
<1> PICK n : n = Len(kind) + 1
  OBVIOUS
<1>1. /\ perl = "free" /\ Len(kind) < MaxSignals
      /\ kind' = Append(kind, k) /\ toReader' = Append(toReader, n)
      /\ main' = main /\ first' = first /\ output' = output /\ queue' = queue
      /\ reader' = reader /\ threads' = threads /\ toPerl' = toPerl
      /\ at' = at /\ next' = next /\ running' = running /\ killer' = killer
  BY DEF Send, statement, history
<1>2. Threads /\ Arrival /\ Queued /\ Waits
  BY DEF IInv
<1>3. /\ Len(kind) \in Nat /\ DOMAIN kind = 1..Len(kind) /\ kind \in Seq(Kind)
      /\ toReader \in Seq(Signal) /\ Len(toReader) \in Nat /\ Len(toReader) <= Len(kind)
      /\ n \in Signal /\ n \in Nat /\ n \notin DOMAIN kind
      /\ Received = Len(kind) - Len(toReader) /\ n > Received
  BY <1>1, <1>2, Typing DEF IInv, Arrival, Received, Signal
<1>4. /\ DOMAIN kind' = DOMAIN kind \union {n}
      /\ \A s \in DOMAIN kind : kind'[s] = kind[s]
      /\ kind'[n] = k /\ kind' \in Seq(Kind) /\ Len(kind') = n
  BY <1>1, <1>3, AppendHolds
<1>5. /\ DOMAIN toReader' = DOMAIN toReader \union {Len(toReader) + 1}
      /\ \A i \in DOMAIN toReader : toReader'[i] = toReader[i]
      /\ toReader'[Len(toReader) + 1] = n /\ Len(toReader') = Len(toReader) + 1
      /\ toReader' \in Seq(Signal)
  BY <1>1, <1>3, AppendHolds
<1>6. at[n] = "none"
  BY <1>2, <1>3 DEF Arrival
<1>7. \A i : Unsent(i) <=> Unsent(i)'
  BY <1>1 DEF Unsent
<1>8. \A x : Pushed(x) <=> Pushed(x)'
  <2>1. ~Pushed(n)'
    BY <1>1, <1>6 DEF Pushed
  <2>2. ASSUME NEW x, x # n PROVE Pushed(x) <=> Pushed(x)'
    BY <1>1, <1>4, <2>2 DEF Pushed
  <2>3. ~Pushed(n)
    BY <1>6 DEF Pushed
  <2> QED BY <2>1, <2>2, <2>3
<1>9. Lines' = Lines
  BY <1>1, <1>4, <1>6 DEF Lines
<1>10. reader \notin {"off", "launch"}
  BY <1>1, <1>2 DEF Threads
<1>11. Threads'
  BY <1>1, <1>2, <1>10 DEF Threads
<1>12. Arrival'
  <2>1. Received' = Received
    BY <1>3, <1>4, <1>5 DEF Received
  <2>2. \A i \in DOMAIN toReader' : toReader'[i] = Received + i
    <3>1. n = Received + (Len(toReader) + 1)
      BY <1>3
    <3> QED BY <1>2, <1>5, <3>1 DEF Arrival
  <2>3. \A s \in DOMAIN kind' : kind'[s] = "output" => at[s] \in {"none", "work", "done"}
    BY <1>2, <1>4, <1>6 DEF Arrival
  <2>4. first <= Len(kind') /\ Len(toReader') <= Len(kind')
    <3>1. first \in Nat /\ first <= Len(kind)
      BY <1>2, Typing DEF IInv, Arrival
    <3> QED BY <1>3, <1>4, <1>5, <3>1
  <2> QED BY <1>1, <1>2, <2>1, <2>2, <2>3, <2>4 DEF Arrival
<1>13. Queued'
  BY <1>1, <1>2, <1>8, <1>10 DEF Queued, Pushed
<1>14. OneSender => OneSender'
  BY <1>1, SendersKept
<1>15. ASSUME InOrder PROVE InOrder'
  <2>1. ASSUME NEW s \in DOMAIN kind', NEW t \in DOMAIN kind', s < t, kind'[s] = "output",
               t \in Lines
        PROVE  s \in Lines
    <3>1. t \in DOMAIN kind
      BY <2>1 DEF Lines
    <3>2. s \in DOMAIN kind
      BY <1>3, <1>4, <2>1, <3>1
    <3> QED BY <1>4, <1>15, <2>1, <3>1, <3>2 DEF InOrder
  <2> QED BY <1>1, <1>9, <1>15, <2>1 DEF InOrder
<1>16. Unfetched => Unfetched'
  BY <1>1, <1>4 DEF Unfetched
<1> QED BY <1>3, <1>4, <1>5, <1>6, <1>7, <1>8, <1>11, <1>12, <1>13, <1>14, <1>15, <1>16

LEMMA TellRest ==
  ASSUME IInv, NEW k \in Kind \ Asks, Tell(k)
  PROVE  Rest'
<1> PICK n : n = Len(kind) + 1
  OBVIOUS
<1>1. Send(k) /\ k \in Kind
  BY DEF Tell
<1>2. /\ perl = "free" /\ perl' = perl /\ want' = want /\ stash' = stash /\ answer' = answer
      /\ toPerl' = toPerl /\ queue' = queue /\ at' = at /\ next' = next
      /\ raced' = raced /\ missed' = missed /\ overtaken' = overtaken
  BY DEF Tell, Send, history
<1>3. /\ n \in Signal /\ at[n] = "none"
      /\ DOMAIN kind' = DOMAIN kind \union {n}
      /\ \A s \in DOMAIN kind : kind'[s] = kind[s]
      /\ kind'[n] = k
      /\ Threads' /\ Arrival' /\ Queued'
      /\ OneSender => OneSender'
      /\ InOrder => InOrder'
      /\ Unfetched => Unfetched'
      /\ \A x : Pushed(x) <=> Pushed(x)'
      /\ \A i : Unsent(i) <=> Unsent(i)'
  BY <1>1, SendKeeps
<1>4. ~Pushed(n) /\ \A x : Pushed(x) => x \in DOMAIN kind
  BY <1>3 DEF Pushed
<1>5. Waits'
  BY <1>2 DEF Waits
<1>6. ASSUME Sent PROVE Sent'
  <2>1. ASSUME NEW x \in 0..MaxSignals, Holds(toPerl, x)
        PROVE  x # 0 /\ Pushed(x)' /\ kind'[x] \notin Asks /\ ~Holds(stash, x)
    <3>1. x # 0 /\ Pushed(x) /\ kind[x] \notin Asks /\ ~Holds(stash, x)
      BY <1>2, <1>6, <2>1 DEF Sent
    <3> QED BY <1>3, <1>4, <3>1
  <2>2. ASSUME NEW x \in 0..MaxSignals, Holds(stash, x)
        PROVE  x # 0 /\ Pushed(x)' /\ kind'[x] \notin Asks
    <3>1. x # 0 /\ Pushed(x) /\ kind[x] \notin Asks
      BY <1>6, <2>2 DEF Sent
    <3> QED BY <1>3, <1>4, <3>1
  <2>3. Distinct(toPerl) /\ Distinct(stash)
    BY <1>6 DEF Sent
  <2> QED BY <1>2, <2>1, <2>2, <2>3 DEF Sent
<1>7. NotSent => NotSent'
  BY <1>2, <1>3 DEF NotSent
<1>8. ASSUME Answered PROVE Answered'
  <2>1. ASSUME NEW s \in Signal, answer[s] # 0
        PROVE  answer[s] = s /\ Pushed(s)' /\ kind'[s] \in Asks
    <3>1. answer[s] = s /\ Pushed(s) /\ kind[s] \in Asks
      BY <1>8, <2>1 DEF Answered
    <3> QED BY <1>3, <1>4, <3>1
  <2>2. ASSUME NEW s \in Signal, s \in DOMAIN kind', kind'[s] \in Asks, answer[s] = 0
        PROVE  FALSE
    <3>1. s \in DOMAIN kind /\ kind[s] \in Asks
      BY <1>3, <2>2
    <3> QED BY <1>2, <1>8, <2>2, <3>1 DEF Answered
  <2> QED BY <1>2, <2>1, <2>2 DEF Answered
<1>9. Reached => Reached'
  BY <1>2, <1>3 DEF Reached
<1> QED BY <1>2, <1>3, <1>5, <1>6, <1>7, <1>8, <1>9, Zenon DEF IInv, Rest

LEMMA ExitRest ==
  ASSUME IInv, Exit
  PROVE  Rest'
<1>1. /\ perl = "free" /\ perl' = "off"
      /\ main' = main /\ first' = first /\ output' = output /\ queue' = queue
      /\ reader' = reader /\ threads' = threads /\ toReader' = toReader /\ toPerl' = toPerl
      /\ want' = want /\ kind' = kind /\ stash' = stash /\ answer' = answer
      /\ at' = at /\ next' = next /\ running' = running
      /\ raced' = raced /\ missed' = missed /\ overtaken' = overtaken /\ killer' = killer
  BY DEF Exit, statement, history
<1>2. /\ (\A i : Unsent(i)' <=> Unsent(i)) /\ (OneSender => OneSender')
      /\ (\A x : Pushed(x)' <=> Pushed(x)) /\ Lines' = Lines
  BY <1>1, SendersKept, PlacesKept
<1>3. Threads'
  BY <1>1 DEF IInv, Threads
<1>4. Arrival' /\ Waits'
  BY <1>1 DEF IInv, Arrival, Received, Waits
<1>5. Queued'
  BY <1>1, <1>2 DEF IInv, Queued, Pushed
<1>6. (Sent => Sent') /\ (NotSent => NotSent') /\ (Answered => Answered')
        /\ (Unfetched => Unfetched')
  BY <1>1, <1>2 DEF Sent, NotSent, Answered, Unfetched
<1>7. (Reached => Reached') /\ (InOrder => InOrder')
  BY <1>1, <1>2 DEF Reached, InOrder
<1> QED BY <1>1, <1>2, <1>3, <1>4, <1>5, <1>6, <1>7, Zenon DEF IInv, Rest

LEMMA AskRest ==
  ASSUME IInv, NEW k \in Asks, Ask(k)
  PROVE  Rest'
<1> PICK n : n = Len(kind) + 1
  OBVIOUS
<1>1. Send(k) /\ k \in Kind
  BY DEF Ask, Kind
<1>2. /\ perl = "free" /\ want' = n
      /\ toPerl' = toPerl /\ queue' = queue /\ at' = at /\ next' = next
      /\ raced' = raced /\ missed' = missed /\ overtaken' = overtaken
  BY DEF Ask, Send, history
<1>3. /\ n \in Signal /\ at[n] = "none"
      /\ DOMAIN kind' = DOMAIN kind \union {n}
      /\ \A s \in DOMAIN kind : kind'[s] = kind[s]
      /\ kind'[n] = k
      /\ Threads' /\ Arrival' /\ Queued'
      /\ OneSender => OneSender'
      /\ InOrder => InOrder'
      /\ Unfetched => Unfetched'
      /\ \A x : Pushed(x) <=> Pushed(x)'
      /\ \A i : Unsent(i) <=> Unsent(i)'
  BY <1>1, SendKeeps
<1>4. n # 0 /\ ~Pushed(n) /\ \A x : Pushed(x) => x \in DOMAIN kind
  BY <1>3 DEF Pushed, Signal
<1>5. Waits'
  BY <1>2, <1>3 DEF Waits
<1>6. ASSUME Sent
      PROVE  perl' = "fetch" /\ stash' = stash /\ answer' = answer
  <2>1. InStash(k) = {}
    <3>1. ASSUME NEW i \in InStash(k) PROVE FALSE
      <4>1. PICK x : x = stash[i]
        OBVIOUS
      <4>2. Holds(stash, x) /\ Type(x) = k
        BY <3>1, <4>1 DEF InStash, Holds
      <4>3. x \in 0..MaxSignals
        BY <4>2, Typing DEF IInv
      <4>4. x # 0 /\ kind[x] \notin Asks
        BY <1>6, <4>2, <4>3 DEF Sent
      <4> QED BY <4>2, <4>4 DEF Type
    <3> QED BY <3>1
  <2> QED BY <2>1 DEF Ask
<1>7. ASSUME Sent PROVE Sent'
  <2>1. ASSUME NEW x \in 0..MaxSignals, Holds(toPerl, x)
        PROVE  x # 0 /\ Pushed(x)' /\ kind'[x] \notin Asks /\ ~Holds(stash, x)
    <3>1. x # 0 /\ Pushed(x) /\ kind[x] \notin Asks /\ ~Holds(stash, x)
      BY <1>2, <1>7, <2>1 DEF Sent
    <3> QED BY <1>3, <1>4, <3>1
  <2>2. ASSUME NEW x \in 0..MaxSignals, Holds(stash, x)
        PROVE  x # 0 /\ Pushed(x)' /\ kind'[x] \notin Asks
    <3>1. x # 0 /\ Pushed(x) /\ kind[x] \notin Asks
      BY <1>7, <2>2 DEF Sent
    <3> QED BY <1>3, <1>4, <3>1
  <2>3. Distinct(toPerl) /\ Distinct(stash)
    BY <1>7 DEF Sent
  <2> QED BY <1>2, <1>6, <1>7, <2>1, <2>2, <2>3 DEF Sent
<1>8. ASSUME Sent, NotSent PROVE NotSent'
  BY <1>2, <1>3, <1>6, <1>8 DEF NotSent
<1>9. ASSUME Sent, Answered PROVE Answered'
  <2>1. ASSUME NEW s \in Signal, answer[s] # 0
        PROVE  answer[s] = s /\ Pushed(s)' /\ kind'[s] \in Asks
    <3>1. answer[s] = s /\ Pushed(s) /\ kind[s] \in Asks
      BY <1>9, <2>1 DEF Answered
    <3> QED BY <1>3, <1>4, <3>1
  <2>2. ASSUME NEW s \in Signal, s \in DOMAIN kind', kind'[s] \in Asks, answer[s] = 0
        PROVE  s = n
    <3>1. ASSUME s \in DOMAIN kind PROVE FALSE
      <4>1. kind[s] \in Asks
        BY <1>3, <2>2, <3>1
      <4> QED BY <1>2, <1>9, <2>2, <3>1, <4>1 DEF Answered
    <3> QED BY <1>3, <2>2, <3>1
  <2> QED BY <1>2, <1>6, <1>9, <2>1, <2>2 DEF Answered
<1>10. ASSUME Sent, Reached PROVE Reached'
  <2>1. at'[want'] = "none"
    BY <1>2, <1>3
  <2> QED BY <1>2, <1>3, <1>10, <2>1 DEF Reached
<1> QED BY <1>2, <1>3, <1>5, <1>7, <1>8, <1>9, <1>10, Zenon DEF IInv, Rest

LEMMA FetchRest ==
  ASSUME IInv, Fetch
  PROVE  Rest'
<1> PICK h : h = Head(toPerl)
  OBVIOUS
<1>1. /\ perl = "fetch" /\ toPerl # <<>> /\ toPerl' = Tail(toPerl)
      /\ main' = main /\ first' = first /\ output' = output /\ queue' = queue
      /\ reader' = reader /\ threads' = threads /\ toReader' = toReader
      /\ want' = want /\ kind' = kind
      /\ at' = at /\ next' = next /\ running' = running
      /\ raced' = raced /\ missed' = missed /\ overtaken' = overtaken /\ killer' = killer
  BY DEF Fetch, statement, history
<1>2. \/ /\ Type(h) = Type(want) /\ perl' = "free" /\ stash' = stash
         /\ answer' = IF want = 0 THEN answer ELSE [answer EXCEPT ![want] = h]
      \/ /\ Type(h) # Type(want) /\ perl' = perl /\ answer' = answer
         /\ stash' = Append(stash, h)
  BY DEF Fetch
<1>3. Threads /\ Arrival /\ Queued /\ Waits
  BY DEF IInv
<1>4. /\ h \in 0..MaxSignals /\ Holds(toPerl, h)
      /\ \A x : Holds(toPerl', x) => Holds(toPerl, x)
      /\ \A x : Holds(toPerl, x) => x = h \/ Holds(toPerl', x)
      /\ Distinct(toPerl) => Distinct(toPerl') /\ ~Holds(toPerl', h)
  <2>1. toPerl \in Seq(0..MaxSignals)
    BY Typing DEF IInv
  <2> QED BY <1>1, <2>1, TailHolds
<1>5. /\ (\A i : Unsent(i)' <=> Unsent(i)) /\ (OneSender => OneSender')
      /\ (\A x : Pushed(x)' <=> Pushed(x)) /\ Lines' = Lines
  BY <1>1, SendersKept, PlacesKept
<1>6. Threads'
  <2>1. reader \notin {"off", "launch"}
    BY <1>1, <1>3 DEF Threads
  <2> QED BY <1>1, <1>3, <2>1 DEF Threads
<1>7. Arrival'
  BY <1>1, <1>3 DEF Arrival, Received
<1>8. Queued'
  BY <1>1, <1>3, <1>5 DEF Queued, Pushed
<1>9. (Unfetched => Unfetched') /\ (InOrder => InOrder')
  BY <1>1, <1>5 DEF Unfetched, InOrder
<1>10. CASE Type(h) = Type(want)
  <2>1. /\ perl' = "free" /\ stash' = stash
        /\ answer' = IF want = 0 THEN answer ELSE [answer EXCEPT ![want] = h]
    BY <1>2, <1>10
  <2>2. Waits'
    BY <2>1 DEF Waits
  <2>3. ASSUME Sent PROVE h = want
    <3>1. /\ h = 0 \/ Pushed(h)
          /\ h = 0 \/ kind[h] \in Asks => want = h
      BY <1>4, <2>3 DEF Sent
    <3>2. h = 0 \/ (h \in DOMAIN kind /\ kind[h] # "input")
      BY <3>1, Typing DEF IInv, Pushed
    <3>3. want = 0 \/ kind[want] \in Asks
      BY <1>1, <1>3 DEF Waits
    <3>4. CASE want = 0
      BY <1>10, <3>2, <3>4 DEF Type
    <3>5. CASE want # 0
      <4>1. CASE h = 0
        BY <3>1, <4>1
      <4>2. CASE h # 0
        BY <1>10, <3>1, <3>3, <3>5, <4>2 DEF Type
      <4> QED BY <4>1, <4>2
    <3> QED BY <3>4, <3>5
  <2>4. ASSUME Sent PROVE Sent'
    <3>1. ASSUME NEW x \in 0..MaxSignals, Holds(toPerl', x)
          PROVE  x # 0 /\ Pushed(x)' /\ kind'[x] \notin Asks /\ ~Holds(stash', x)
      <4>1. Holds(toPerl, x) /\ x # h
        BY <1>4, <2>4, <3>1 DEF Sent
      <4>2. /\ x = 0 \/ Pushed(x)
            /\ x = 0 \/ kind[x] \in Asks => want = x
            /\ ~Holds(stash, x)
        BY <2>4, <4>1 DEF Sent
      <4> QED BY <1>1, <1>5, <2>1, <2>3, <2>4, <4>1, <4>2
    <3>2. Distinct(toPerl') /\ Distinct(stash')
      BY <1>4, <2>1, <2>4 DEF Sent
    <3> QED BY <1>1, <1>5, <2>1, <2>4, <3>1, <3>2 DEF Sent
  <2>5. ASSUME Sent, NotSent PROVE NotSent'
    <3>1. ASSUME NEW i \in DOMAIN queue, Unsent(i)
          PROVE  /\ ~Holds(toPerl', queue[i]) /\ ~Holds(stash', queue[i])
                 /\ queue[i] # 0 => answer'[queue[i]] = 0
      <4>1. /\ ~Holds(toPerl, queue[i]) /\ ~Holds(stash, queue[i])
            /\ queue[i] # 0 => answer[queue[i]] = 0
        BY <2>5, <3>1 DEF NotSent
      <4>2. queue[i] # want
        BY <1>4, <2>3, <2>5, <4>1
      <4>3. answer'[queue[i]] = answer[queue[i]]
        BY <2>1, <4>2, Typing DEF IInv
      <4> QED BY <1>4, <2>1, <4>1, <4>3
    <3> QED BY <1>1, <1>5, <3>1 DEF NotSent
  <2>6. ASSUME Sent, Answered PROVE Answered'
    <3>1. ASSUME NEW s \in Signal
          PROVE  /\ answer'[s] # 0 => answer'[s] = s /\ Pushed(s)' /\ kind'[s] \in Asks
                 /\ ~(s \in DOMAIN kind' /\ kind'[s] \in Asks /\ answer'[s] = 0)
      <4>1. /\ answer[s] # 0 => answer[s] = s /\ Pushed(s) /\ kind[s] \in Asks
            /\ s \in DOMAIN kind /\ kind[s] \in Asks /\ answer[s] = 0 => want = s
        BY <2>6 DEF Answered
      <4>2. s # 0 /\ answer \in [Signal -> 0..MaxSignals]
        BY Typing DEF IInv, Signal
      <4>3. CASE s # want
        <5>1. answer'[s] = answer[s]
          BY <2>1, <4>2, <4>3
        <5> QED BY <1>1, <1>5, <4>1, <4>3, <5>1
      <4>4. CASE s = want
        <5>1. answer'[s] = s
          BY <2>1, <2>3, <2>6, <4>2, <4>4
        <5>2. Pushed(s)
          BY <1>4, <2>3, <2>6, <4>2, <4>4 DEF Sent
        <5>3. kind[s] \in Asks
          BY <1>1, <1>3, <4>2, <4>4 DEF Waits
        <5> QED BY <1>1, <1>5, <4>2, <5>1, <5>2, <5>3
      <4> QED BY <4>3, <4>4
    <3> QED BY <3>1 DEF Answered
  <2>7. Reached => Reached'
    BY <1>1, <1>5, <2>1 DEF Reached
  <2> QED BY <1>1, <1>5, <1>6, <1>7, <1>8, <1>9, <2>2, <2>4, <2>5, <2>6, <2>7, Zenon
          DEF IInv, Rest
<1>11. CASE Type(h) # Type(want)
  <2>1. perl' = perl /\ answer' = answer /\ stash' = Append(stash, h) /\ h # want
    BY <1>2, <1>11
  <2>2. /\ \A x : Holds(stash', x) <=> Holds(stash, x) \/ x = h
        /\ Distinct(stash) /\ ~Holds(stash, h) => Distinct(stash')
    <3>1. stash \in Seq(0..MaxSignals)
      BY Typing DEF IInv
    <3>2. /\ \A x : Holds(Append(stash, h), x) <=> Holds(stash, x) \/ x = h
          /\ Distinct(stash) /\ ~Holds(stash, h) => Distinct(Append(stash, h))
      BY <1>4, <3>1, AppendHolds
    <3> QED BY <2>1, <3>2
  <2>3. Holds(toPerl, want) => Holds(toPerl', want)
    BY <1>4, <2>1
  <2>4. Waits'
    BY <1>1, <1>3, <2>1, <2>3 DEF Waits
  <2>5. ASSUME Sent PROVE Sent'
    <3>1. h # 0 /\ Pushed(h) /\ kind[h] \notin Asks /\ ~Holds(stash, h)
      BY <1>4, <2>1, <2>5 DEF Sent
    <3>2. ASSUME NEW x \in 0..MaxSignals, Holds(toPerl', x)
          PROVE  /\ x = 0 \/ Pushed(x)'
                 /\ x = 0 \/ kind'[x] \in Asks => perl' = "fetch" /\ want' = x
                 /\ ~Holds(stash', x)
      <4>1. Holds(toPerl, x) /\ x # h
        BY <1>4, <2>5, <3>2 DEF Sent
      <4>2. /\ x = 0 \/ Pushed(x)
            /\ x = 0 \/ kind[x] \in Asks => perl = "fetch" /\ want = x
            /\ ~Holds(stash, x)
        BY <2>5, <4>1 DEF Sent
      <4> QED BY <1>1, <1>5, <2>1, <2>2, <4>1, <4>2
    <3>3. ASSUME NEW x \in 0..MaxSignals, Holds(stash', x)
          PROVE  x # 0 /\ Pushed(x)' /\ kind'[x] \notin Asks
      <4>1. x # 0 /\ Pushed(x) /\ kind[x] \notin Asks
        BY <2>2, <2>5, <3>1, <3>3 DEF Sent
      <4> QED BY <1>1, <1>5, <4>1
    <3>4. Distinct(toPerl') /\ Distinct(stash')
      BY <1>4, <2>2, <2>5, <3>1 DEF Sent
    <3> QED BY <3>2, <3>3, <3>4 DEF Sent
  <2>6. ASSUME NotSent PROVE NotSent'
    <3>1. ASSUME NEW i \in DOMAIN queue, Unsent(i)
          PROVE  /\ ~Holds(toPerl', queue[i]) /\ ~Holds(stash', queue[i])
                 /\ queue[i] # 0 => answer'[queue[i]] = 0
      <4>1. /\ ~Holds(toPerl, queue[i]) /\ ~Holds(stash, queue[i])
            /\ queue[i] # 0 => answer[queue[i]] = 0
        BY <2>6, <3>1 DEF NotSent
      <4> QED BY <1>4, <2>1, <2>2, <4>1
    <3> QED BY <1>1, <1>5, <3>1 DEF NotSent
  <2>7. Answered => Answered'
    BY <1>1, <1>5, <2>1 DEF Answered
  <2>8. Reached => Reached'
    BY <1>1, <1>5, <2>1, <2>3 DEF Reached
  <2> QED BY <1>1, <1>5, <1>6, <1>7, <1>8, <1>9, <2>4, <2>5, <2>6, <2>7, <2>8, Zenon
          DEF IInv, Rest
<1> QED BY <1>10, <1>11
-----------------------------------------------------------------------------
(* Types, and the theorems.                                                 *)

LEMMA WithoutType ==
  ASSUME NEW S, NEW seq \in Seq(S), NEW i \in DOMAIN seq
  PROVE  SubSeq(seq, 1, i - 1) \o SubSeq(seq, i + 1, Len(seq)) \in Seq(S)
<1>1. i \in 1..Len(seq) /\ Len(seq) \in Nat
  OBVIOUS
<1>2. SubSeq(seq, 1, i - 1) \in Seq(S)
  BY <1>1
<1>3. SubSeq(seq, i + 1, Len(seq)) \in Seq(S)
  BY <1>1
<1> QED BY <1>2, <1>3

(* The variables that a step of a handler may change have their types.      *)
HandlerTypeOK ==
  /\ alive \in BOOLEAN /\ running \in BOOLEAN
  /\ raced \in BOOLEAN /\ missed \in BOOLEAN /\ torn \in BOOLEAN /\ overtaken \in BOOLEAN
  /\ output \in 0..MaxSignals /\ killer \in 0..MaxSignals
  /\ toPerl \in Seq(0..MaxSignals) /\ queue \in Seq(0..MaxSignals)
  /\ next \in [Signal -> Nat \ {0}]

LEMMA GotoType ==
  ASSUME TypeOK, NEW s \in Signal, NEW from, NEW to \in Place, Goto(s, from, to),
         HandlerTypeOK'
  PROVE  TypeOK'
<1>1. at' \in [Signal -> Place]
  BY DEF TypeOK, Goto
<1>2. /\ main' = main /\ statements' = statements /\ first' = first
      /\ reader' = reader /\ threads' = threads /\ toReader' = toReader
      /\ perl' = perl /\ want' = want /\ kind' = kind /\ stash' = stash
      /\ answer' = answer
  BY DEF Goto, statement, interpreter
<1> QED BY <1>1, <1>2 DEF TypeOK, HandlerTypeOK

LEMMA HandlerType ==
  ASSUME TypeOK, NEW s \in DOMAIN kind, HandlerStep(s)
  PROVE  TypeOK'
<1>1. s \in Signal /\ s \in 0..MaxSignals
  BY Typing DEF Signal
<1>2. {"done", "push", "test", "set", "loop", "clear", "reset"} \subseteq Place
  BY DEF Place
<1>3. HandlerTypeOK
  BY DEF TypeOK, HandlerTypeOK
<1>4. CASE Store(s)
  <2>1. HandlerTypeOK'
    BY <1>1, <1>3, <1>4 DEF Store, HandlerTypeOK
  <2> QED BY <1>1, <1>2, <1>4, <2>1, GotoType DEF Store
<1>5. CASE Work(s)
  <2>1. HandlerTypeOK'
    BY <1>3, <1>5 DEF Work, HandlerTypeOK, history
  <2> QED BY <1>1, <1>2, <1>5, <2>1, GotoType DEF Work
<1>6. CASE Push(s)
  <2>1. queue' \in Seq(0..MaxSignals)
    <3>1. queue \in Seq(0..MaxSignals)
      BY DEF TypeOK
    <3>2. Append(queue, s) \in Seq(0..MaxSignals)
      BY <1>1, <3>1, AppendHolds
    <3> QED BY <1>6, <3>1, <3>2 DEF Push
  <2>2. alive' \in BOOLEAN /\ torn' \in BOOLEAN
    BY <1>3, <1>6 DEF Push, MayTear, HandlerTypeOK
  <2>3. missed' \in BOOLEAN
    BY <1>6 DEF Push
  <2>4. HandlerTypeOK'
    BY <1>3, <1>6, <2>1, <2>2, <2>3 DEF Push, HandlerTypeOK
  <2> QED BY <1>1, <1>2, <1>6, <2>4, GotoType DEF Push
<1>7. CASE Test(s)
  <2>1. HandlerTypeOK'
    BY <1>3, <1>7 DEF Test, HandlerTypeOK
  <2>2. CASE running
    <3>1. Goto(s, "test", "done")
      BY <1>7, <2>2 DEF Test
    <3> QED BY <1>1, <1>2, <2>1, <3>1, GotoType
  <2>3. CASE ~running
    <3>1. Goto(s, "test", "set")
      BY <1>7, <2>3 DEF Test
    <3> QED BY <1>1, <1>2, <2>1, <3>1, GotoType
  <2> QED BY <2>2, <2>3
<1>8. CASE Set(s)
  <2>1. HandlerTypeOK'
    BY <1>1, <1>3, <1>8 DEF Set, HandlerTypeOK, history
  <2> QED BY <1>1, <1>2, <1>8, <2>1, GotoType DEF Set
<1>9. CASE Deliver(s)
  <2>1. next[s] \in DOMAIN queue /\ queue[next[s]] \in 0..MaxSignals
    BY <1>1, <1>3, <1>9 DEF Deliver, HandlerTypeOK
  <2>2. Append(toPerl, queue[next[s]]) \in Seq(0..MaxSignals)
    BY <1>3, <2>1, AppendHolds DEF HandlerTypeOK
  <2>3. toPerl' \in Seq(0..MaxSignals) /\ killer' \in 0..MaxSignals /\ alive' \in BOOLEAN
    BY <1>3, <1>9, <2>1, <2>2 DEF Deliver, HandlerTypeOK
  <2>4. next' \in [Signal -> Nat \ {0}]
    BY <1>1, <1>3, <1>9 DEF Deliver, HandlerTypeOK
  <2>5. HandlerTypeOK'
    BY <1>3, <1>9, <2>3, <2>4 DEF Deliver, HandlerTypeOK
  <2> QED BY <1>1, <1>2, <1>9, <2>5, GotoType DEF Deliver
<1>10. CASE LoopEnds(s)
  <2>1. HandlerTypeOK'
    BY <1>3, <1>10 DEF LoopEnds, HandlerTypeOK, history
  <2> QED BY <1>1, <1>2, <1>10, <2>1, GotoType DEF LoopEnds
<1>11. CASE Clear(s)
  <2>1. queue' \in Seq(0..MaxSignals)
    BY <1>11 DEF Clear
  <2>2. alive' \in BOOLEAN /\ torn' \in BOOLEAN
    BY <1>3, <1>11 DEF Clear, MayTear, HandlerTypeOK
  <2>3. HandlerTypeOK'
    BY <1>3, <1>11, <2>1, <2>2 DEF Clear, HandlerTypeOK
  <2> QED BY <1>1, <1>2, <1>11, <2>3, GotoType DEF Clear
<1>12. CASE Reset(s)
  <2>1. HandlerTypeOK'
    BY <1>3, <1>12 DEF Reset, HandlerTypeOK, history
  <2> QED BY <1>1, <1>2, <1>12, <2>1, GotoType DEF Reset
<1> QED BY <1>4, <1>5, <1>6, <1>7, <1>8, <1>9, <1>10, <1>11, <1>12 DEF HandlerStep, SendStep

LEMMA OtherType ==
  ASSUME TypeOK, MainStep \/ ReaderStep \/ PerlStep \/ Fetch
  PROVE  TypeOK'
<1>1. CASE Begin
  <2>1. queue' \in Seq(0..MaxSignals) /\ first' \in 0..MaxSignals
    BY <1>1, Typing DEF Begin
  <2>2. statements' \in 0..MaxStatements
    BY <1>1 DEF Begin, TypeOK
  <2> QED BY <1>1, <2>1, <2>2 DEF Begin, TypeOK, interpreter, history
<1>2. CASE Show
  BY <1>2 DEF Show, TypeOK, interpreter, history
<1>3. CASE Launch
  <2>1. toPerl' \in Seq(0..MaxSignals) /\ queue' \in Seq(0..MaxSignals)
    BY <1>3 DEF Launch, TypeOK
  <2> QED BY <1>3, <2>1 DEF Launch, TypeOK, statement, history
<1>4. CASE Receive
  <2>1. Head(toReader) \in Signal /\ toReader' \in Seq(Signal)
    BY <1>4 DEF Receive, TypeOK
  <2>2. threads' \subseteq Signal /\ reader' \in {"read", "full"}
    BY <1>4, <2>1 DEF Receive, TypeOK
  <2>3. at' \in [Signal -> Place]
    BY <1>4, <2>1 DEF Receive, TypeOK, Place
  <2> QED BY <1>4, <2>1, <2>2, <2>3 DEF Receive, TypeOK, statement, interpreter, history
<1>5. CASE JoinFull
  BY <1>5 DEF JoinFull, TypeOK, statement, interpreter, history
<1>6. CASE Finish
  <2>1. toPerl' \in Seq(0..MaxSignals) /\ stash' \in Seq(0..MaxSignals)
    BY <1>6 DEF Finish
  <2> QED BY <1>6, <2>1 DEF Finish, TypeOK, history
<1>7. ASSUME NEW k \in Kind, Send(k)
      PROVE  /\ kind' \in Seq(Kind) /\ Len(kind') <= MaxSignals
             /\ toReader' \in Seq(Signal)
             /\ Len(kind) + 1 \in Signal /\ Len(kind) + 1 \in 0..MaxSignals
  <2>1. /\ Len(kind) < MaxSignals /\ Len(kind) \in Nat
        /\ kind' = Append(kind, k) /\ toReader' = Append(toReader, Len(kind) + 1)
        /\ kind \in Seq(Kind) /\ toReader \in Seq(Signal)
    BY <1>7 DEF Send, TypeOK
  <2>2. Len(kind) + 1 \in Signal /\ Len(kind) + 1 \in 0..MaxSignals
    BY <2>1 DEF Signal
  <2> QED BY <2>1, <2>2
<1>8. CASE \E k \in Asks : Ask(k)
  <2>1. PICK k \in Asks : Ask(k)
    BY <1>8
  <2>2. Send(k) /\ k \in Kind /\ want' = Len(kind) + 1
    BY <2>1 DEF Ask, Kind
  <2>3. /\ perl' \in {"fetch", "free"}
        /\ stash' \in Seq(0..MaxSignals) /\ answer' \in [Signal -> 0..MaxSignals]
    <3>1. stash \in Seq(0..MaxSignals) /\ answer \in [Signal -> 0..MaxSignals]
      BY DEF TypeOK
    <3>2. CASE InStash(k) = {}
      BY <2>1, <3>1, <3>2 DEF Ask
    <3>3. CASE InStash(k) # {}
      <4>1. PICK i \in InStash(k) : /\ answer' = [answer EXCEPT ![Len(kind) + 1] = stash[i]]
                                    /\ stash' = Without(i)
                                    /\ perl' = perl
        BY <2>1, <3>3 DEF Ask
      <4>2. i \in DOMAIN stash
        BY DEF InStash
      <4>3. stash[i] \in 0..MaxSignals
        BY <3>1, <4>2
      <4>4. Without(i) \in Seq(0..MaxSignals)
        BY <3>1, <4>2, WithoutType DEF Without
      <4> QED BY <2>2, <3>1, <4>1, <4>3, <4>4 DEF Send
    <3> QED BY <3>2, <3>3
  <2>4. /\ kind' \in Seq(Kind) /\ Len(kind') <= MaxSignals
        /\ toReader' \in Seq(Signal) /\ want' \in 0..MaxSignals
    BY <1>7, <2>2
  <2> QED BY <2>2, <2>3, <2>4 DEF Send, TypeOK, statement, history
<1>9. CASE \E k \in Kind \ Asks : Tell(k)
  <2>1. PICK k \in Kind \ Asks : Tell(k)
    BY <1>9
  <2>2. Send(k) /\ UNCHANGED <<perl, want, stash, answer>>
    BY <2>1 DEF Tell
  <2>3. kind' \in Seq(Kind) /\ Len(kind') <= MaxSignals /\ toReader' \in Seq(Signal)
    BY <1>7, <2>2
  <2> QED BY <2>2, <2>3 DEF Send, TypeOK, statement, history
<1>10. CASE Exit
  BY <1>10 DEF Exit, TypeOK, statement, history
<1>11. CASE Fetch
  <2>1. Head(toPerl) \in 0..MaxSignals /\ toPerl' \in Seq(0..MaxSignals)
    BY <1>11 DEF Fetch, TypeOK
  <2>2. perl' \in {"fetch", "free"}
    BY <1>11 DEF Fetch
  <2>3. stash' \in Seq(0..MaxSignals)
    <3>1. stash \in Seq(0..MaxSignals)
      BY DEF TypeOK
    <3>2. Append(stash, Head(toPerl)) \in Seq(0..MaxSignals)
      BY <2>1, <3>1, AppendHolds
    <3> QED BY <1>11, <3>1, <3>2 DEF Fetch
  <2>4. answer' \in [Signal -> 0..MaxSignals]
    BY <1>11, <2>1 DEF Fetch, TypeOK
  <2> QED BY <1>11, <2>1, <2>2, <2>3, <2>4 DEF Fetch, TypeOK, statement, history
<1> QED BY <1>1, <1>2, <1>3, <1>4, <1>5, <1>6, <1>8, <1>9, <1>10, <1>11
        DEF MainStep, ReaderStep, PerlStep

LEMMA InitHolds ==
  ASSUME Init
  PROVE  IInv
<1>1. /\ at = [s \in Signal |-> "none"] /\ kind = <<>> /\ toReader = <<>> /\ toPerl = <<>>
      /\ stash = <<>> /\ queue = <<>> /\ threads = {} /\ reader = "off" /\ main = "idle"
      /\ perl = "off" /\ first = 0 /\ output = 0 /\ killer = 0 /\ running = FALSE
      /\ answer = [s \in Signal |-> 0]
  BY DEF Init
<1>2. TypeOK
  <2>1. /\ statements \in 0..MaxStatements /\ want \in 0..MaxSignals
        /\ 0 \in 0..MaxSignals /\ Len(kind) <= MaxSignals
    BY <1>1 DEF Init
  <2>2. /\ at \in [Signal -> Place] /\ next \in [Signal -> Nat \ {0}]
        /\ answer \in [Signal -> 0..MaxSignals]
    BY <1>1, <2>1 DEF Init, Place
  <2>3. /\ kind \in Seq(Kind) /\ toReader \in Seq(Signal)
        /\ toPerl \in Seq(0..MaxSignals) /\ stash \in Seq(0..MaxSignals)
        /\ queue \in Seq(0..MaxSignals)
    BY <1>1
  <2>4. /\ alive \in BOOLEAN /\ running \in BOOLEAN
        /\ raced \in BOOLEAN /\ missed \in BOOLEAN /\ torn \in BOOLEAN
        /\ overtaken \in BOOLEAN
    BY DEF Init
  <2>5. /\ main \in {"idle", "join", "poll"} /\ reader \in {"off", "launch", "read", "full"}
        /\ perl \in {"off", "fetch", "free"} /\ threads \subseteq Signal
        /\ first \in 0..MaxSignals /\ output \in 0..MaxSignals /\ killer \in 0..MaxSignals
    BY <1>1, <2>1
  <2> QED BY <2>1, <2>2, <2>3, <2>4, <2>5 DEF TypeOK
<1>3. \A s \in Signal : at[s] = "none" /\ answer[s] = 0
  BY <1>1
<1>4. DOMAIN kind = {} /\ DOMAIN queue = {} /\ Len(kind) = 0 /\ Len(toReader) = 0
        /\ DOMAIN toReader = {}
  BY <1>1
<1>5. \A x : ~Holds(toPerl, x) /\ ~Holds(stash, x)
  BY <1>1, EmptyHolds
<1>6. Distinct(toPerl) /\ Distinct(stash) /\ Distinct(queue)
  BY <1>1, EmptyHolds
<1>7. Threads
  BY <1>1, <1>3 DEF Threads
<1>8. Arrival
  <2>1. \A s \in Signal : s > Received /\ ~(s <= first)
    BY <1>1, <1>4 DEF Received, Signal
  <2> QED BY <1>1, <1>3, <1>4, <2>1 DEF Arrival
<1>9. Queued /\ Waits
  BY <1>1, <1>4, <1>6 DEF Queued, Waits
<1>10. OneSender
  BY <1>1, <1>3 DEF OneSender, Sending
<1>11. Sent /\ NotSent
  BY <1>4, <1>5, <1>6 DEF Sent, NotSent
<1>12. Answered /\ Unfetched
  BY <1>1, <1>3, <1>4 DEF Answered, Unfetched
<1>13. Reached
  BY <1>1, <1>3, <1>4 DEF Reached
<1>14. InOrder
  BY <1>1, <1>4 DEF InOrder, Lines
<1> QED BY <1>2, <1>7, <1>8, <1>9, <1>10, <1>11, <1>12, <1>13, <1>14 DEF IInv

LEMMA NextKeepsIInv ==
  ASSUME IInv, [Next]_vars
  PROVE  IInv'
<1>1. CASE UNCHANGED vars
  <2>1. /\ main' = main /\ first' = first /\ output' = output /\ queue' = queue
        /\ alive' = alive /\ statements' = statements /\ torn' = torn
        /\ reader' = reader /\ threads' = threads /\ toReader' = toReader /\ toPerl' = toPerl
        /\ perl' = perl /\ want' = want /\ kind' = kind /\ stash' = stash /\ answer' = answer
        /\ at' = at /\ next' = next /\ running' = running
        /\ raced' = raced /\ missed' = missed /\ overtaken' = overtaken /\ killer' = killer
    BY <1>1 DEF vars, statement, interpreter, history
  <2>2. /\ (\A i : Unsent(i)' <=> Unsent(i)) /\ (OneSender => OneSender')
        /\ (\A x : Pushed(x)' <=> Pushed(x)) /\ Lines' = Lines
    BY <2>1, SendersKept, PlacesKept
  <2>3. TypeOK'
    BY <2>1 DEF IInv, TypeOK
  <2>4. Threads' /\ Arrival' /\ Waits'
    BY <2>1 DEF IInv, Threads, Arrival, Received, Waits
  <2>5. Queued'
    BY <2>1, <2>2 DEF IInv, Queued, Pushed
  <2>6. (Sent => Sent') /\ (NotSent => NotSent') /\ (Answered => Answered')
          /\ (Unfetched => Unfetched')
    BY <2>1, <2>2 DEF Sent, NotSent, Answered, Unfetched
  <2>7. (Reached => Reached') /\ (InOrder => InOrder')
    BY <2>1, <2>2 DEF Reached, InOrder
  <2> QED BY <2>1, <2>2, <2>3, <2>4, <2>5, <2>6, <2>7, Zenon DEF IInv
<1>2. CASE Next
  <2>1. TypeOK
    BY DEF IInv
  <2>2. TypeOK'
    BY <1>2, <2>1, HandlerType, OtherType DEF Next
  <2>3. CASE MainStep \/ ReaderStep \/ PerlStep \/ Fetch
    <3>1. Rest'
      BY <2>3, BeginRest, ShowRest, LaunchRest, ReceiveRest, JoinFullRest, FinishRest,
         AskRest, TellRest, ExitRest, FetchRest DEF MainStep, ReaderStep, PerlStep
    <3> QED BY <2>2, <3>1, Zenon DEF IInv, Rest
  <2>4. CASE \E s \in DOMAIN kind : HandlerStep(s)
    <3>1. Rest'
      BY <2>4, StoreRest, WorkRest, PushRest, TestRest, SetRest, DeliverRest, LoopEndsRest,
         ClearRest, ResetRest DEF HandlerStep, SendStep
    <3> QED BY <2>2, <3>1, Zenon DEF IInv, Rest
  <2> QED BY <1>2, <2>3, <2>4 DEF Next
<1> QED BY <1>1, <1>2

LEMMA ConcatDistinct ==
  ASSUME NEW S, NEW s \in Seq(S), NEW t \in Seq(S), Distinct(s), Distinct(t),
         \A x : ~(Holds(s, x) /\ Holds(t, x))
  PROVE  Distinct(s \o t)
<1> DEFINE both == s \o t
<1>1. /\ Len(s) \in Nat /\ Len(t) \in Nat /\ DOMAIN s = 1..Len(s) /\ DOMAIN t = 1..Len(t)
      /\ DOMAIN both = 1..(Len(s) + Len(t))
      /\ \A i \in 1..(Len(s) + Len(t)) :
           both[i] = IF i <= Len(s) THEN s[i] ELSE t[i - Len(s)]
  OBVIOUS
<1> HIDE DEF both
<1>2. ASSUME NEW i \in DOMAIN both
      PROVE  \/ i \in DOMAIN s /\ both[i] = s[i]
             \/ /\ ~(i <= Len(s)) /\ i \in Nat
                /\ i - Len(s) \in DOMAIN t /\ both[i] = t[i - Len(s)]
  BY <1>1, <1>2
<1>3. ASSUME NEW i \in DOMAIN s, NEW j \in DOMAIN t PROVE s[i] # t[j]
  BY <1>3 DEF Holds
<1>4. ASSUME NEW i \in DOMAIN both, NEW j \in DOMAIN both, both[i] = both[j]
      PROVE  i = j
  <2>1. CASE i \in DOMAIN s /\ both[i] = s[i]
    <3>1. j \in DOMAIN s /\ both[j] = s[j]
      BY <1>2, <1>3, <1>4, <2>1
    <3> QED BY <1>4, <2>1, <3>1 DEF Distinct
  <2>2. CASE /\ ~(i <= Len(s)) /\ i \in Nat
             /\ i - Len(s) \in DOMAIN t /\ both[i] = t[i - Len(s)]
    <3>1. j \in Nat /\ j - Len(s) \in DOMAIN t /\ both[j] = t[j - Len(s)]
      BY <1>2, <1>3, <1>4, <2>2
    <3>2. i - Len(s) = j - Len(s)
      BY <1>4, <2>2, <3>1 DEF Distinct
    <3> QED BY <1>1, <2>2, <3>1, <3>2
  <2> QED BY <1>2, <2>1, <2>2
<1> QED BY <1>4 DEF Distinct, both

LEMMA StatesHaveIInv == Spec => []IInv
<1>1. Init => IInv
  BY InitHolds
<1>2. IInv /\ [Next]_vars => IInv'
  BY NextKeepsIInv
<1> QED BY <1>1, <1>2, PTL DEF Spec

(* Whatever the threads and the interpreter do, the variables keep their    *)
(* types.                                                                   *)
THEOREM TypeCorrect == Spec => []TypeOK
<1>1. IInv => TypeOK
  BY DEF IInv
<1> QED BY <1>1, StatesHaveIInv, PTL

(* hal2012_fetch_signal matches answers to requests by their type only, and *)
(* yet, as long as no two threads passed the test of running together, an   *)
(* interpreter only ever takes the answer of its own request.               *)
THEOREM AnswersAreOwn == Spec => []OwnAnswers
<1>1. ASSUME IInv PROVE OwnAnswers
  <2>1. ~raced => Answered
    BY <1>1, Zenon DEF IInv
  <2> QED BY <2>1 DEF Answered, OwnAnswers
<1> QED BY <1>1, StatesHaveIInv, PTL

(* hal2012_send_signals keeps what it has sent in the queue until its loop  *)
(* ends, and yet sends nothing twice.                                       *)
THEOREM NothingSentTwice == Spec => []SentOnce
<1>1. ASSUME IInv, ~raced PROVE Distinct(toPerl \o stash)
  <2>1. Sent
    BY <1>1, Zenon DEF IInv
  <2>2. toPerl \in Seq(0..MaxSignals) /\ stash \in Seq(0..MaxSignals)
    BY <1>1, Typing DEF IInv
  <2>3. ASSUME NEW x, Holds(toPerl, x), Holds(stash, x) PROVE FALSE
    <3>1. x \in 0..MaxSignals
      BY <1>1, <2>3, Typing DEF IInv
    <3> QED BY <2>1, <2>3, <3>1 DEF Sent
  <2> QED BY <2>1, <2>2, <2>3, ConcatDistinct DEF Sent
<1>2. IInv => SentOnce
  BY <1>1 DEF SentOnce, Distinct
<1> QED BY <1>2, StatesHaveIInv, PTL

(* A thread that finds running set leaves its signal to the one that set    *)
(* it; unless one of the two gaps in hal2012_send_signals was hit, that     *)
(* thread, or another one, still has the answer that Perl waits for.        *)
THEOREM NoAnswerLost == Spec => []NothingLost
<1>1. ASSUME IInv, ~raced, ~missed, perl = "fetch"
      PROVE  \/ Holds(toPerl, want)
             \/ Holds(toReader, want)
             \/ want # 0 /\ at[want] \in {"work", "push", "test", "set"}
             \/ Holds(queue, want) /\ \E t \in Signal : at[t] = "loop"
  <2>1. Reached /\ Waits /\ Arrival
    BY <1>1, Zenon DEF IInv
  <2>2. CASE want = 0
    BY <1>1, <2>1, <2>2 DEF Waits
  <2>3. CASE want # 0
    <3>1. want \in DOMAIN kind /\ want \in Signal
      BY <1>1, <2>1, <2>3, Typing DEF IInv, Waits
    <3>2. \/ Holds(toPerl, want)
          \/ at[want] \in {"none", "work", "push"}
          \/ \E i \in DOMAIN queue : queue[i] = want /\ Unsent(i)
      BY <1>1, <2>1, <2>3 DEF Reached
    <3>3. ASSUME at[want] = "none" PROVE Holds(toReader, want)
      <4>1. want > Received
        BY <2>1, <3>1, <3>3 DEF Arrival
      <4>2. /\ DOMAIN kind = 1..Len(kind) /\ Len(kind) \in Nat
            /\ toReader \in Seq(Signal) /\ Len(toReader) \in Nat
            /\ Received = Len(kind) - Len(toReader)
        BY <1>1, Typing DEF IInv, Received
      <4>3. want - Received \in DOMAIN toReader /\ want = Received + (want - Received)
        BY <3>1, <4>1, <4>2
      <4>4. toReader[want - Received] = Received + (want - Received)
        BY <2>1, <4>3 DEF Arrival
      <4> QED BY <4>3, <4>4 DEF Holds
    <3>4. ASSUME NEW i \in DOMAIN queue, queue[i] = want, Unsent(i)
          PROVE  \/ at[want] \in {"test", "set"}
                 \/ Holds(queue, want) /\ \E t \in Signal : at[t] = "loop"
      BY <2>1, <2>3, <3>4 DEF Reached, Holds
    <3> QED BY <2>3, <3>2, <3>3, <3>4
  <2> QED BY <2>2, <2>3
<1>2. IInv => NothingLost
  BY <1>1 DEF NothingLost
<1> QED BY <1>2, StatesHaveIInv, PTL

(* perl5_execute does not stop its handlers when Perl has ended: what then  *)
(* kills the child can only be the answer of a reread_pro_file.             *)
THEOREM OnlyUnfetched == Spec => []OnlyUnfetchedKills
<1>1. ASSUME IInv PROVE OnlyUnfetchedKills
  <2>1. ~raced => Unfetched
    BY <1>1, Zenon DEF IInv
  <2> QED BY <2>1 DEF Unfetched, OnlyUnfetchedKills
<1> QED BY <1>1, StatesHaveIInv, PTL

(* output_by_signal is overwritten by every line of output, from any        *)
(* thread: unless two of them overtook one another, the last line is shown. *)
THEOREM LastOutputShown == Spec => []ShowsLastOutput
<1>1. ASSUME IInv, main = "poll", ~overtaken
      PROVE  LET lines == {s \in DOMAIN kind : s > first /\ kind[s] = "output"} IN
             IF lines = {} THEN output = 0
             ELSE output \in lines /\ \A s \in lines : s <= output
  <2>1. InOrder /\ Threads /\ Arrival
    BY <1>1, Zenon DEF IInv
  <2>2. reader = "off" /\ toReader = <<>> /\ threads = {}
    BY <1>1, <2>1 DEF Threads
  <2>3. \A s \in DOMAIN kind : at[s] = "done"
    <3>1. \A s \in DOMAIN kind : at[s] # "none" /\ s \in Signal
      BY <1>1, <2>2, AllReceived, Typing DEF IInv
    <3> QED BY <2>1, <2>2, <3>1 DEF Threads
  <2>4. Lines = {s \in DOMAIN kind : kind[s] = "output"}
    BY <2>3 DEF Lines
  <2>5. CASE \E s \in Lines : s > first
    <3>1. output \in Lines /\ output > first /\ \A s \in Lines : s <= output
      BY <2>1, <2>5 DEF InOrder
    <3> QED BY <2>4, <2>5, <3>1
  <2>6. CASE ~ \E s \in Lines : s > first
    <3>1. output = 0
      BY <2>1, <2>6 DEF InOrder
    <3> QED BY <2>4, <2>6, <3>1
  <2> QED BY <2>5, <2>6
<1>2. IInv => ShowsLastOutput
  BY <1>1 DEF ShowsLastOutput
<1> QED BY <1>2, StatesHaveIInv, PTL
=============================================================================
