--------------------------- MODULE DbLock_proofs ----------------------------
(***************************************************************************)
(* Proofs about DbLock for every set of connections and every number of    *)
(* commands and sessions.                                                  *)
(*                                                                         *)
(* The inductive invariant has three parts.  Ordered: on the way out of    *)
(* any child LOCK and UNLOCK take turns, from what t2 has done to what the *)
(* child has said; this is true whatever lines the client sends.           *)
(* Handshake, of a child never fooled by its client: where the one token   *)
(* of the lock handshake is, in the child, on stderr, in t2 or on stdin.   *)
(* Each phase fixes the contents of both pipes as far as LOCK and UNLOCK   *)
(* lines go, so a stale echo cannot be in a pipe when the child starts to  *)
(* wait.  OneOwner: the flag and those who set it.                         *)
(***************************************************************************)
EXTENDS DbLock, SequenceTheorems, TLAPS

(* No lock line is on its way out of, or into, the child.                   *)
Silent(s) == \A i \in 1..Len(s) : s[i] = "OUT"
Quiet(s)  == \A i \in 1..Len(s) : s[i] \notin {"LOCK", "UNLOCK"}

(* The last line out is a lock line and the only one.                       *)
Asks(s, line) ==
  /\ Len(s) > 0
  /\ s[Len(s)] = line
  /\ \A i \in 1..(Len(s) - 1) : s[i] = "OUT"

(* One line in is an echo and the only one.                                 *)
Echoes(s, line) ==
  \E j \in 1..Len(s) :
    /\ s[j] = line
    /\ \A i \in 1..Len(s) : i # j => s[i] \notin {"LOCK", "UNLOCK"}

Watching(c) == t2[c] \in {"top", "read", "gone"}

Free(c) ==
  /\ c \notin owner /\ Watching(c)
  /\ Silent(stderr[c]) /\ Quiet(stdin[c])
  /\ child[c] \in {"idle", "run", "dead"}

Requested(c) ==
  /\ c \notin owner /\ Watching(c)
  /\ Asks(stderr[c], "LOCK") /\ Quiet(stdin[c])
  /\ child[c] \in {"wantlock", "dead"}

Acquiring(c) ==
  /\ c \notin owner /\ t2[c] \in {"poll", "set"}
  /\ Silent(stderr[c]) /\ Quiet(stdin[c])
  /\ child[c] \in {"wantlock", "dead"}

Granted(c) ==
  /\ c \in owner /\ Watching(c)
  /\ Silent(stderr[c]) /\ Echoes(stdin[c], "LOCK")
  /\ child[c] \in {"wantlock", "dead"}

InSession(c) ==
  /\ c \in owner /\ Watching(c)
  /\ Silent(stderr[c]) /\ Quiet(stdin[c])
  /\ child[c] \in {"session", "dead"}

Releasing(c) ==
  /\ c \in owner /\ Watching(c)
  /\ Asks(stderr[c], "UNLOCK") /\ Quiet(stdin[c])
  /\ child[c] \in {"wantunlock", "dead"}

Released(c) ==
  /\ c \notin owner /\ Watching(c)
  /\ Silent(stderr[c]) /\ Echoes(stdin[c], "UNLOCK")
  /\ child[c] \in {"wantunlock", "dead"}

Phase(c) ==
  \/ Free(c) \/ Requested(c) \/ Acquiring(c) \/ Granted(c)
  \/ InSession(c) \/ Releasing(c) \/ Released(c)

Handshake == up => \A c \in Straight : Phase(c)

(* A lock line is not the one before it over again; e came before them all. *)
Alternates(s, e) ==
  \A j \in 1..Len(s) : s[j] # "OUT" =>
    \/ s[j] # e /\ \A i \in 1..(j - 1) : s[i] = "OUT"
    \/ \E i \in 1..(j - 1) :
         /\ s[i] \notin {"OUT", s[j]}
         /\ \A k \in (i + 1)..(j - 1) : s[k] = "OUT"

(* The last lock line is l, or there is none and e, before them all, is.    *)
EndsIn(s, e, l) ==
  \/ l = e /\ Silent(s)
  \/ \E i \in 1..Len(s) :
       /\ s[i] = l
       /\ \A k \in (i + 1)..Len(s) : s[k] = "OUT"

(* The last lock line t2 has acted on, and the last the child has printed.  *)
Heard(c) ==
  IF c \in owner \/ t2[c] \in {"poll", "set"} THEN "LOCK" ELSE "UNLOCK"

Said(c) == IF child[c] \in {"wantlock", "session"} THEN "LOCK" ELSE "UNLOCK"

Turns(c) ==
  /\ c \in owner => Watching(c)
  /\ Alternates(stderr[c], Heard(c))
  /\ child[c] # "dead" => EndsIn(stderr[c], Heard(c), Said(c))

Ordered == up => \A c \in Conns : Turns(c)

(* The flag has at most one owner, and a t2 about to set it sees it free    *)
(* and is alone.                                                            *)
OneOwner ==
  up /\ ~raced =>
    /\ lock_db <=> owner # {}
    /\ \A c, d \in owner : c = d
    /\ \A c \in Conns : t2[c] = "set" => ~lock_db
    /\ \A c, d \in Conns : t2[c] = "set" /\ t2[d] = "set" => c = d

IInv == TypeOK /\ Ordered /\ Handshake /\ OneOwner

-----------------------------------------------------------------------------
(* What Append and Tail do to the contents of the two pipes.                *)

(* A line printed on a silent stderr: ordinary output leaves it silent, a   *)
(* lock line becomes its last line.                                         *)
LEMMA OutAppend ==
  ASSUME NEW s \in Seq(OutLine), Silent(s)
  PROVE  /\ Silent(Append(s, "OUT"))
         /\ \A line \in OutLine : Asks(Append(s, line), line)
<1>1. \A line \in OutLine : Append(s, line) \in Seq(OutLine)
                         /\ Len(Append(s, line)) = Len(s) + 1
                         /\ \A i \in 1..Len(s) : Append(s, line)[i] = s[i]
                         /\ Append(s, line)[Len(s) + 1] = line
  BY AppendProperties
<1>2. "OUT" \in OutLine /\ Len(s) \in Nat
  BY LenProperties DEF OutLine
<1>3. Silent(Append(s, "OUT"))
  BY <1>1, <1>2 DEF Silent
<1>4. ASSUME NEW line \in OutLine PROVE Asks(Append(s, line), line)
  BY <1>1, <1>2 DEF Silent, Asks
<1>. QED  BY <1>3, <1>4

(* t2 takes a line off stderr: a pending lock line stays pending until it   *)
(* is itself the line taken, and then nothing is left behind.               *)
LEMMA OutTail ==
  ASSUME NEW s \in Seq(OutLine), s # <<>>
  PROVE  /\ Silent(s) => Silent(Tail(s)) /\ Head(s) = "OUT"
         /\ \A line \in {"LOCK", "UNLOCK"} : Asks(s, line) =>
              \/ Head(s) = "OUT" /\ Asks(Tail(s), line)
              \/ Head(s) = line  /\ Silent(Tail(s))
<1>1. /\ Len(s) \in Nat /\ Len(s) > 0
      /\ Head(s) = s[1] /\ Tail(s) \in Seq(OutLine)
      /\ Len(Tail(s)) = Len(s) - 1
      /\ \A i \in 1..Len(Tail(s)) : Tail(s)[i] = s[i + 1]
  BY HeadTailProperties, LenProperties, EmptySeq
<1>2. Silent(s) => Silent(Tail(s)) /\ Head(s) = "OUT"
  BY <1>1 DEF Silent
<1>3. ASSUME NEW line \in {"LOCK", "UNLOCK"}, Asks(s, line)
      PROVE  \/ Head(s) = "OUT" /\ Asks(Tail(s), line)
             \/ Head(s) = line  /\ Silent(Tail(s))
  <2>1. CASE Len(s) = 1
    <3>1. Head(s) = line
      BY <1>1, <1>3, <2>1 DEF Asks
    <3>2. Len(Tail(s)) = 0
      BY <1>1, <2>1
    <3>3. ASSUME NEW t, Len(t) = 0 PROVE Silent(t)
      BY <3>3 DEF Silent
    <3>. QED  BY <3>1, <3>2, <3>3
  <2>2. CASE Len(s) > 1
    <3>1. Head(s) = "OUT"
      BY <1>1, <1>3, <2>2 DEF Asks
    <3>2. Len(Tail(s)) > 0 /\ Tail(s)[Len(Tail(s))] = line
      BY <1>1, <1>3, <2>2 DEF Asks
    <3>3. \A i \in 1..(Len(Tail(s)) - 1) : Tail(s)[i] = "OUT"
      BY <1>1, <1>3, <2>2 DEF Asks
    <3>. QED  BY <3>1, <3>2, <3>3 DEF Asks
  <2>. QED  BY <1>1, <2>1, <2>2
<1>. QED  BY <1>2, <1>3

(* A line fed to the child: the client's lines are no echoes, and an echo   *)
(* fed to a quiet stdin is the only one there.                              *)
LEMMA InAppend ==
  ASSUME NEW s \in Seq(InLine)
  PROVE  /\ \A x \in ClientLine :
              /\ Quiet(s) => Quiet(Append(s, x))
              /\ \A line \in {"LOCK", "UNLOCK"} :
                    Echoes(s, line) => Echoes(Append(s, x), line)
         /\ \A line \in {"LOCK", "UNLOCK"} :
              Quiet(s) => Echoes(Append(s, line), line)
<1>1. \A x \in InLine : /\ Append(s, x) \in Seq(InLine)
                        /\ Len(Append(s, x)) = Len(s) + 1
                        /\ \A i \in 1..Len(s) : Append(s, x)[i] = s[i]
                        /\ Append(s, x)[Len(s) + 1] = x
  BY AppendProperties
<1>2. Len(s) \in Nat
  BY LenProperties
<1>3. ASSUME NEW x \in ClientLine
      PROVE  /\ Quiet(s) => Quiet(Append(s, x))
             /\ \A line \in {"LOCK", "UNLOCK"} :
                   Echoes(s, line) => Echoes(Append(s, x), line)
  <2>1. x \in InLine /\ x \notin {"LOCK", "UNLOCK"}
    BY DEF InLine, ClientLine
  <2>2. Quiet(s) => Quiet(Append(s, x))
    BY <1>1, <1>2, <2>1 DEF Quiet
  <2>3. ASSUME NEW line \in {"LOCK", "UNLOCK"}, Echoes(s, line)
        PROVE  Echoes(Append(s, x), line)
    <3>1. PICK j \in 1..Len(s) :
            /\ s[j] = line
            /\ \A i \in 1..Len(s) : i # j => s[i] \notin {"LOCK", "UNLOCK"}
      BY <2>3 DEF Echoes
    <3>2. j \in 1..Len(Append(s, x)) /\ Append(s, x)[j] = line
      BY <1>1, <1>2, <2>1, <3>1
    <3>3. \A i \in 1..Len(Append(s, x)) :
            i # j => Append(s, x)[i] \notin {"LOCK", "UNLOCK"}
      BY <1>1, <1>2, <2>1, <3>1
    <3>. QED  BY <3>2, <3>3 DEF Echoes
  <2>. QED  BY <2>2, <2>3
<1>4. ASSUME NEW line \in {"LOCK", "UNLOCK"}, Quiet(s)
      PROVE  Echoes(Append(s, line), line)
  <2>1. line \in InLine
    BY DEF InLine
  <2>2. Len(s) + 1 \in 1..Len(Append(s, line))
    BY <1>1, <1>2, <2>1
  <2>3. \A i \in 1..Len(Append(s, line)) :
          i # Len(s) + 1 => Append(s, line)[i] \notin {"LOCK", "UNLOCK"}
    BY <1>1, <1>2, <1>4, <2>1 DEF Quiet
  <2>. QED  BY <1>1, <2>1, <2>2, <2>3 DEF Echoes
<1>. QED  BY <1>3, <1>4

(* The child takes a line off stdin: the echo stays the only one until it   *)
(* is the line taken, and then stdin is quiet.                              *)
LEMMA InTail ==
  ASSUME NEW s \in Seq(InLine), s # <<>>
  PROVE  /\ Quiet(s) => Quiet(Tail(s)) /\ Head(s) \in ClientLine
         /\ \A line \in {"LOCK", "UNLOCK"} : Echoes(s, line) =>
              \/ Head(s) \in ClientLine /\ Echoes(Tail(s), line)
              \/ Head(s) = line /\ Quiet(Tail(s))
<1>1. /\ Len(s) \in Nat /\ Len(s) > 0
      /\ Head(s) = s[1] /\ s[1] \in InLine /\ Tail(s) \in Seq(InLine)
      /\ Len(Tail(s)) = Len(s) - 1
      /\ \A i \in 1..Len(Tail(s)) : Tail(s)[i] = s[i + 1]
  BY HeadTailProperties, LenProperties, EmptySeq, ElementOfSeq
<1>2. Quiet(s) => Quiet(Tail(s)) /\ Head(s) \in ClientLine
  BY <1>1 DEF Quiet, InLine
<1>3. ASSUME NEW line \in {"LOCK", "UNLOCK"}, Echoes(s, line)
      PROVE  \/ Head(s) \in ClientLine /\ Echoes(Tail(s), line)
             \/ Head(s) = line /\ Quiet(Tail(s))
  <2>1. PICK j \in 1..Len(s) :
          /\ s[j] = line
          /\ \A i \in 1..Len(s) : i # j => s[i] \notin {"LOCK", "UNLOCK"}
    BY <1>3 DEF Echoes
  <2>2. CASE j = 1
    BY <1>1, <2>1, <2>2 DEF Quiet
  <2>3. CASE j # 1
    <3>1. Head(s) \in ClientLine
      BY <1>1, <2>1, <2>3 DEF InLine
    <3>2. j - 1 \in 1..Len(Tail(s)) /\ Tail(s)[j - 1] = line
      BY <1>1, <2>1, <2>3
    <3>3. \A i \in 1..Len(Tail(s)) :
            i # j - 1 => Tail(s)[i] \notin {"LOCK", "UNLOCK"}
      BY <1>1, <2>1, <2>3
    <3>. QED  BY <3>1, <3>2, <3>3 DEF Echoes
  <2>. QED  BY <2>2, <2>3
<1>. QED  BY <1>2, <1>3

-----------------------------------------------------------------------------
(* t2 takes a line off stderr: the lock lines keep taking turns, and a lock *)
(* line taken is not the one t2 acted on before it.                         *)
LEMMA TurnTaken ==
  ASSUME NEW s \in Seq(OutLine), s # <<>>,
         NEW e \in {"LOCK", "UNLOCK"}, NEW l \in {"LOCK", "UNLOCK"},
         Alternates(s, e)
  PROVE  /\ Head(s) = "OUT" =>
              /\ Alternates(Tail(s), e)
              /\ EndsIn(s, e, l) => EndsIn(Tail(s), e, l)
         /\ Head(s) # "OUT" =>
              /\ Head(s) # e
              /\ Alternates(Tail(s), Head(s))
              /\ EndsIn(s, e, l) => EndsIn(Tail(s), Head(s), l)
<1> DEFINE t == Tail(s)
<1>1. /\ Len(s) \in Nat /\ Len(s) > 0
      /\ Head(s) = s[1] /\ t \in Seq(OutLine)
      /\ Len(t) = Len(s) - 1
      /\ \A i \in 1..Len(t) : t[i] = s[i + 1]
  BY HeadTailProperties, LenProperties, EmptySeq
<1> DEFINE f == IF Head(s) = "OUT" THEN e ELSE Head(s)
<1>2. Head(s) # "OUT" => Head(s) # e
  BY <1>1 DEF Alternates
<1>3. Alternates(t, f)
  <2>. SUFFICES ASSUME NEW j \in 1..Len(t), t[j] # "OUT"
                PROVE  \/ t[j] # f /\ \A i \in 1..(j - 1) : t[i] = "OUT"
                       \/ \E i \in 1..(j - 1) :
                            /\ t[i] \notin {"OUT", t[j]}
                            /\ \A k \in (i + 1)..(j - 1) : t[k] = "OUT"
    BY DEF Alternates
  <2>1. j + 1 \in 1..Len(s) /\ s[j + 1] = t[j] /\ s[j + 1] # "OUT"
    BY <1>1
  <2>2. CASE s[j + 1] # e /\ \A i \in 1..j : s[i] = "OUT"
    <3>1. Head(s) = "OUT" /\ f = e
      BY <1>1, <2>2
    <3>2. \A i \in 1..(j - 1) : t[i] = "OUT"
      BY <1>1, <2>2
    <3>. QED  BY <2>1, <2>2, <3>1, <3>2
  <2>3. CASE \E i \in 1..j : /\ s[i] \notin {"OUT", s[j + 1]}
                             /\ \A k \in (i + 1)..j : s[k] = "OUT"
    <3>1. PICK i \in 1..j : /\ s[i] \notin {"OUT", s[j + 1]}
                            /\ \A k \in (i + 1)..j : s[k] = "OUT"
      BY <2>3
    <3>2. CASE i = 1
      <4>1. f = s[1] /\ t[j] # f
        BY <1>1, <2>1, <3>1, <3>2
      <4>2. \A k \in 1..(j - 1) : t[k] = "OUT"
        BY <1>1, <3>1, <3>2
      <4>. QED  BY <4>1, <4>2
    <3>3. CASE i # 1
      <4>1. i - 1 \in 1..(j - 1) /\ t[i - 1] \notin {"OUT", t[j]}
        BY <1>1, <2>1, <3>1, <3>3
      <4>2. \A k \in ((i - 1) + 1)..(j - 1) : t[k] = "OUT"
        BY <1>1, <3>1, <3>3
      <4>. QED  BY <4>1, <4>2
    <3>. QED  BY <3>2, <3>3
  <2>4. /\ (j + 1) - 1 = j
        /\ \/ s[j + 1] # e /\ \A i \in 1..((j + 1) - 1) : s[i] = "OUT"
           \/ \E i \in 1..((j + 1) - 1) :
                /\ s[i] \notin {"OUT", s[j + 1]}
                /\ \A k \in (i + 1)..((j + 1) - 1) : s[k] = "OUT"
    BY <1>1, <2>1 DEF Alternates
  <2>. QED  BY <2>2, <2>3, <2>4
<1>4. ASSUME EndsIn(s, e, l) PROVE EndsIn(t, f, l)
  <2>1. CASE l = e /\ Silent(s)
    <3>1. Head(s) = "OUT" /\ f = e /\ Silent(t)
      BY <1>1, <2>1 DEF Silent
    <3>. QED  BY <2>1, <3>1 DEF EndsIn
  <2>2. CASE \E i \in 1..Len(s) : /\ s[i] = l
                                  /\ \A k \in (i + 1)..Len(s) : s[k] = "OUT"
    <3>1. PICK i \in 1..Len(s) : /\ s[i] = l
                                 /\ \A k \in (i + 1)..Len(s) : s[k] = "OUT"
      BY <2>2
    <3>2. CASE i = 1
      <4>1. f = l
        BY <1>1, <3>1, <3>2
      <4>2. Silent(t)
        BY <1>1, <3>1, <3>2 DEF Silent
      <4>. QED  BY <4>1, <4>2 DEF EndsIn
    <3>3. CASE i # 1
      <4>1. i - 1 \in 1..Len(t) /\ t[i - 1] = l
        BY <1>1, <3>1, <3>3
      <4>2. \A k \in ((i - 1) + 1)..Len(t) : t[k] = "OUT"
        BY <1>1, <3>1, <3>3
      <4>. QED  BY <4>1, <4>2 DEF EndsIn
    <3>. QED  BY <3>2, <3>3
  <2>. QED  BY <1>4, <2>1, <2>2 DEF EndsIn
<1>. QED  BY <1>2, <1>3, <1>4

(* The child prints a line: any other line changes nothing, a lock line     *)
(* that is not its last one takes its turn.                                 *)
LEMMA TurnPrinted ==
  ASSUME NEW s \in Seq(OutLine),
         NEW e \in {"LOCK", "UNLOCK"}, NEW l \in {"LOCK", "UNLOCK"},
         Alternates(s, e), EndsIn(s, e, l)
  PROVE  /\ Alternates(Append(s, "OUT"), e) /\ EndsIn(Append(s, "OUT"), e, l)
         /\ \A line \in {"LOCK", "UNLOCK"} : line # l =>
              /\ Alternates(Append(s, line), e)
              /\ EndsIn(Append(s, line), e, line)
<1>1. \A x \in OutLine : /\ Append(s, x) \in Seq(OutLine)
                         /\ Len(Append(s, x)) = Len(s) + 1
                         /\ \A i \in 1..Len(s) : Append(s, x)[i] = s[i]
                         /\ Append(s, x)[Len(s) + 1] = x
  BY AppendProperties
<1>2. Len(s) \in Nat /\ \A x \in {"OUT", "LOCK", "UNLOCK"} : x \in OutLine
  BY LenProperties DEF OutLine
<1>3. ASSUME NEW x \in {"OUT", "LOCK", "UNLOCK"}, NEW j \in 1..Len(s),
             s[j] # "OUT"
      PROVE  \/ /\ Append(s, x)[j] # e
                /\ \A i \in 1..(j - 1) : Append(s, x)[i] = "OUT"
             \/ \E i \in 1..(j - 1) :
                  /\ Append(s, x)[i] \notin {"OUT", Append(s, x)[j]}
                  /\ \A k \in (i + 1)..(j - 1) : Append(s, x)[k] = "OUT"
  <2>1. \A i \in 1..j : Append(s, x)[i] = s[i]
    BY <1>1, <1>2
  <2>2. \/ s[j] # e /\ \A i \in 1..(j - 1) : s[i] = "OUT"
        \/ \E i \in 1..(j - 1) :
             /\ s[i] \notin {"OUT", s[j]}
             /\ \A k \in (i + 1)..(j - 1) : s[k] = "OUT"
    BY <1>3 DEF Alternates
  <2>. QED  BY <2>1, <2>2
<1>4. Alternates(Append(s, "OUT"), e)
  BY <1>1, <1>2, <1>3 DEF Alternates
<1>5. EndsIn(Append(s, "OUT"), e, l)
  <2>1. CASE l = e /\ Silent(s)
    <3>1. Silent(Append(s, "OUT"))
      BY <1>1, <1>2, <2>1 DEF Silent
    <3>. QED  BY <2>1, <3>1 DEF EndsIn
  <2>2. CASE \E i \in 1..Len(s) : /\ s[i] = l
                                  /\ \A k \in (i + 1)..Len(s) : s[k] = "OUT"
    <3>1. PICK i \in 1..Len(s) : /\ s[i] = l
                                 /\ \A k \in (i + 1)..Len(s) : s[k] = "OUT"
      BY <2>2
    <3>2. i \in 1..Len(Append(s, "OUT")) /\ Append(s, "OUT")[i] = l
      BY <1>1, <1>2, <3>1
    <3>3. \A k \in (i + 1)..Len(Append(s, "OUT")) : Append(s, "OUT")[k] = "OUT"
      BY <1>1, <1>2, <3>1
    <3>. QED  BY <3>2, <3>3 DEF EndsIn
  <2>. QED  BY <2>1, <2>2 DEF EndsIn
<1>6. ASSUME NEW line \in {"LOCK", "UNLOCK"}, line # l
      PROVE  /\ Alternates(Append(s, line), e)
             /\ EndsIn(Append(s, line), e, line)
  <2> DEFINE t == Append(s, line)
  <2>1. /\ Len(t) = Len(s) + 1 /\ t[Len(s) + 1] = line
        /\ \A i \in 1..Len(s) : t[i] = s[i]
    BY <1>1, <1>2
  <2>2. \/ t[Len(t)] # e /\ \A i \in 1..(Len(t) - 1) : t[i] = "OUT"
        \/ \E i \in 1..(Len(t) - 1) :
             /\ t[i] \notin {"OUT", t[Len(t)]}
             /\ \A k \in (i + 1)..(Len(t) - 1) : t[k] = "OUT"
    <3>1. CASE l = e /\ Silent(s)
      BY <1>2, <1>6, <2>1, <3>1 DEF Silent
    <3>2. CASE \E i \in 1..Len(s) : /\ s[i] = l
                                    /\ \A k \in (i + 1)..Len(s) : s[k] = "OUT"
      <4>1. PICK i \in 1..Len(s) : /\ s[i] = l
                                   /\ \A k \in (i + 1)..Len(s) : s[k] = "OUT"
        BY <3>2
      <4>2. i \in 1..(Len(t) - 1) /\ t[i] \notin {"OUT", t[Len(t)]}
        BY <1>2, <1>6, <2>1, <4>1
      <4>3. \A k \in (i + 1)..(Len(t) - 1) : t[k] = "OUT"
        BY <1>2, <2>1, <4>1
      <4>. QED  BY <4>2, <4>3
    <3>. QED  BY <3>1, <3>2 DEF EndsIn
  <2>3. ASSUME NEW j \in 1..Len(s), s[j] # "OUT"
        PROVE  \/ t[j] # e /\ \A i \in 1..(j - 1) : t[i] = "OUT"
               \/ \E i \in 1..(j - 1) :
                    /\ t[i] \notin {"OUT", t[j]}
                    /\ \A k \in (i + 1)..(j - 1) : t[k] = "OUT"
    BY <1>3, <2>3
  <2>4. Alternates(t, e)
    BY <1>2, <2>1, <2>2, <2>3 DEF Alternates
  <2>5. Len(t) \in 1..Len(t) /\ \A k \in (Len(t) + 1)..Len(t) : FALSE
    BY <1>2, <2>1
  <2>6. EndsIn(t, e, line)
    BY <2>1, <2>5 DEF EndsIn
  <2>. QED  BY <2>4, <2>6
<1>. QED  BY <1>4, <1>5, <1>6

-----------------------------------------------------------------------------
(* A line fed to a child keeps the types of the pipes and of up.            *)
LEMMA FeedType ==
  ASSUME TypeOK, NEW c \in Conns, NEW line \in InLine, Feed(c, line)
  PROVE  up' \in BOOLEAN /\ stdin' \in [Conns -> Seq(InLine)]
<1>1. CASE child[c] = "dead"
  BY <1>1 DEF Feed, TypeOK
<1>2. CASE child[c] # "dead"
  <2>1. Append(stdin[c], line) \in Seq(InLine)
    BY AppendProperties DEF TypeOK
  <2>. QED  BY <1>2, <2>1 DEF Feed, TypeOK
<1>. QED  BY <1>1, <1>2

(* No step gives a variable a value outside its type.                       *)
LEMMA TypeStep ==
  ASSUME TypeOK, [Next]_vars
  PROVE  TypeOK'
<1>. USE DbLockAssumption DEF TypeOK
<1>1. ASSUME NEW c \in Conns, T2Step(c)
      PROVE  TypeOK'
  <2>1. CASE T2Top(c)
    BY <2>1 DEF T2Top, T2Goto, T2State, flags, process
  <2>2. CASE T2Eof(c)
    BY <2>2 DEF T2Eof, T2Goto, T2State, flags, process
  <2>3. CASE T2Forward(c)
    BY <2>3 DEF T2Forward, T2Take, T2Goto, T2State, flags, process
  <2>4. CASE T2LockRequest(c)
    BY <2>4 DEF T2LockRequest, T2Take, T2Goto, T2State, flags, process
  <2>5. CASE T2Poll(c)
    BY <2>5 DEF T2Poll, T2Goto, T2State, process
  <2>6. CASE T2Set(c)
    <3>1. Feed(c, "LOCK") /\ "LOCK" \in InLine
      BY <2>6 DEF T2Set, InLine
    <3>2. up' \in BOOLEAN /\ stdin' \in [Conns -> Seq(InLine)]
      BY <3>1, FeedType
    <3>. QED  BY <2>6, <3>2 DEF T2Set, T2Goto, T2State, process
  <2>7. CASE T2Unlock(c)
    <3>1. Feed(c, "UNLOCK") /\ "UNLOCK" \in InLine
      BY <2>7 DEF T2Unlock, InLine
    <3>2. up' \in BOOLEAN /\ stdin' \in [Conns -> Seq(InLine)]
      BY <3>1, FeedType
    <3>3. t2' \in [Conns -> T2State] /\ stderr' \in [Conns -> Seq(OutLine)]
      BY <2>7 DEF T2Unlock, T2Take, T2Goto, T2State
    <3>. QED  BY <2>7, <3>2, <3>3 DEF T2Unlock, T2Take, process
  <2>. QED  BY <1>1, <2>1, <2>2, <2>3, <2>4, <2>5, <2>6, <2>7 DEF T2Step
<1>2. ASSUME NEW c \in Conns, ChildStep(c)
      PROVE  TypeOK'
  <2>1. CASE Command(c)
    <3>1. left' \in [Conns -> Nat] /\ loud' \in [Conns -> BOOLEAN]
      BY <2>1 DEF Command
    <3>2. stdin' \in [Conns -> Seq(InLine)] /\ child' \in [Conns -> ChildState]
      BY <2>1 DEF Command, ChildTake, ChildGoto, ChildState
    <3>. QED  BY <2>1, <3>1, <3>2 DEF Command, ChildTake, flags
  <2>10. CASE Ignore(c)
    BY <2>10 DEF Ignore, ChildTake, ChildGoto, ChildState, flags
  <2>2. CASE Exit(c)
    BY <2>2 DEF Exit, ChildTake, ChildGoto, ChildState, flags
  <2>3. CASE SqlBegin(c)
    BY <2>3 DEF SqlBegin, ChildSay, ChildGoto, ChildState, OutLine, flags
  <2>4. CASE NetworkLock(c)
    BY <2>4 DEF NetworkLock, TakeEcho, ChildTake, ChildGoto, ChildState, flags
  <2>5. CASE PrintInSession(c)
    BY <2>5 DEF PrintInSession, ChildSay, ChildGoto, ChildState, OutLine, flags
  <2>6. CASE SqlEnd(c)
    BY <2>6 DEF SqlEnd, ChildSay, ChildGoto, ChildState, OutLine, flags
  <2>7. CASE NetworkUnlock(c)
    BY <2>7 DEF NetworkUnlock, TakeEcho, ChildTake, ChildGoto, ChildState, flags
  <2>8. CASE Finish(c)
    BY <2>8 DEF Finish, ChildSay, ChildGoto, ChildState, OutLine, flags
  <2>9. CASE ChildEof(c)
    BY <2>9 DEF ChildEof, ChildGoto, ChildState, flags
  <2>. QED  BY <1>2, <2>1, <2>2, <2>3, <2>4, <2>5, <2>6, <2>7, <2>8, <2>9,
               <2>10 DEF ChildStep
<1>3. ASSUME NEW c \in Conns, ClientStep(c)
      PROVE  TypeOK'
  <2>1. ASSUME NEW line \in ClientLine, NetworkLine(c, line)
        PROVE  TypeOK'
    <3>1. Feed(c, line) /\ line \in InLine
      BY <2>1 DEF NetworkLine, InLine
    <3>2. /\ sent' \in [Conns -> Nat]
          /\ \A d \in Conns : sent'[d] <= MaxLines[d]
      BY <2>1 DEF NetworkLine
    <3>3. up' \in BOOLEAN /\ stdin' \in [Conns -> Seq(InLine)]
      BY <3>1, FeedType
    <3>4. t3' \in [Conns -> BOOLEAN]
      BY <2>1 DEF NetworkLine
    <3>. QED  BY <2>1, <3>2, <3>3, <3>4 DEF NetworkLine, flags, process
  <2>2. CASE Disconnect(c)
    BY <2>2 DEF Disconnect, flags, process
  <2>. QED  BY <1>3, <2>1, <2>2 DEF ClientStep
<1>4. ASSUME NEW c \in Conns, Crash(c)
      PROVE  TypeOK'
  BY <1>4 DEF Crash, ChildState, flags
<1>5. CASE UNCHANGED vars
  BY <1>5 DEF vars
<1>. QED  BY <1>1, <1>2, <1>3, <1>4, <1>5 DEF Next

(* Every variable keeps its type.                                           *)
THEOREM TypeCorrect == Spec => []TypeOK
<1>. USE DbLockAssumption DEF TypeOK
<1>1. Init => TypeOK
  <2>1. <<>> \in Seq(InLine) /\ <<>> \in Seq(OutLine)
    BY EmptySeq
  <2>. SUFFICES ASSUME Init PROVE TypeOK
    OBVIOUS
  <2>2. stdin \in [Conns -> Seq(InLine)] /\ stderr \in [Conns -> Seq(OutLine)]
    BY <2>1 DEF Init
  <2>3. /\ sent \in [Conns -> Nat] /\ left \in [Conns -> Nat]
        /\ \A c \in Conns : sent[c] <= MaxLines[c]
    BY DEF Init
  <2>. QED  BY <2>2, <2>3 DEF Init, T2State, ChildState
<1>2. TypeOK /\ [Next]_vars => TypeOK'
  BY TypeStep
<1>. QED  BY <1>1, <1>2, PTL DEF Spec

-----------------------------------------------------------------------------
(* The handshake invariant.                                                 *)

(* A step of one connection leaves the phase of another alone.              *)
LEMMA OtherPhase ==
  ASSUME NEW d \in Conns, Phase(d),
         t2'[d] = t2[d], child'[d] = child[d],
         stdin'[d] = stdin[d], stderr'[d] = stderr[d],
         d \in owner' <=> d \in owner
  PROVE  Phase(d)'
BY DEF Phase, Free, Requested, Acquiring, Granted, InSession, Releasing,
       Released, Watching

(* A step of t2 takes its connection from one phase to another.             *)
LEMMA T2Phase ==
  ASSUME TypeOK, up', NEW c \in Conns, Phase(c), T2Step(c)
  PROVE  Phase(c)'
<1>. USE DEF Phase, Free, Requested, Acquiring, Granted, InSession, Releasing,
             Released, Watching
<1>1. CASE T2Top(c) \/ T2Eof(c)
  BY <1>1 DEF T2Top, T2Eof, T2Goto, flags, process, TypeOK, T2State
<1>2. CASE T2Forward(c)
  <2>1. /\ stderr[c] \in Seq(OutLine) /\ stderr[c] # <<>>
        /\ Head(stderr[c]) = "OUT" /\ stderr'[c] = Tail(stderr[c])
        /\ t2[c] = "read" /\ t2'[c] = "top"
        /\ child'[c] = child[c] /\ stdin'[c] = stdin[c] /\ owner' = owner
    BY <1>2 DEF T2Forward, T2Take, T2Goto, flags, process, TypeOK
  <2>. QED  BY <2>1, OutTail
<1>3. CASE T2LockRequest(c)
  <2>1. /\ stderr[c] \in Seq(OutLine) /\ stderr[c] # <<>>
        /\ Head(stderr[c]) = "LOCK" /\ stderr'[c] = Tail(stderr[c])
        /\ t2[c] = "read" /\ t2'[c] = "poll"
        /\ child'[c] = child[c] /\ stdin'[c] = stdin[c] /\ owner' = owner
    BY <1>3 DEF T2LockRequest, T2Take, T2Goto, flags, process, TypeOK
  <2>. QED  BY <2>1, OutTail
<1>4. CASE T2Poll(c)
  BY <1>4 DEF T2Poll, T2Goto, process, TypeOK, T2State
<1>5. CASE T2Set(c)
  <2>1. /\ stdin[c] \in Seq(InLine) /\ stdin'[c] = Append(stdin[c], "LOCK")
        /\ t2[c] = "set" /\ t2'[c] = "top" /\ c \in owner'
        /\ child'[c] = child[c] /\ stderr'[c] = stderr[c]
    BY <1>5 DEF T2Set, Feed, T2Goto, process, TypeOK
  <2>. QED  BY <2>1, InAppend
<1>6. CASE T2Unlock(c)
  <2>1. /\ stderr[c] \in Seq(OutLine) /\ stderr[c] # <<>>
        /\ Head(stderr[c]) = "UNLOCK" /\ stderr'[c] = Tail(stderr[c])
        /\ stdin[c] \in Seq(InLine) /\ stdin'[c] = Append(stdin[c], "UNLOCK")
        /\ t2[c] = "read" /\ t2'[c] = "top" /\ c \notin owner'
        /\ child'[c] = child[c]
    BY <1>6 DEF T2Unlock, T2Take, Feed, T2Goto, process, TypeOK
  <2>. QED  BY <2>1, OutTail, InAppend
<1>. QED  BY <1>1, <1>2, <1>3, <1>4, <1>5, <1>6 DEF T2Step

(* So does a step of the child ...                                          *)
LEMMA ChildPhase ==
  ASSUME TypeOK, up, NEW c \in Conns, c \notin fooled', Phase(c), ChildStep(c)
  PROVE  Phase(c)'
<1>. USE DEF Phase, Free, Requested, Acquiring, Granted, InSession, Releasing,
             Released, Watching
<1>1. CASE Command(c) \/ Ignore(c) \/ Exit(c) \/ NetworkLock(c) \/ NetworkUnlock(c)
  <2>1. /\ stdin[c] \in Seq(InLine) /\ stdin[c] # <<>>
        /\ stdin'[c] = Tail(stdin[c]) /\ stderr'[c] = stderr[c]
        /\ t2'[c] = t2[c] /\ owner' = owner
    BY <1>1 DEF Command, Ignore, Exit, NetworkLock, NetworkUnlock, TakeEcho,
                ChildTake, flags, TypeOK
  <2>2. /\ Quiet(stdin[c]) =>
             Quiet(Tail(stdin[c])) /\ Head(stdin[c]) \in ClientLine
        /\ \A line \in {"LOCK", "UNLOCK"} : Echoes(stdin[c], line) =>
             \/ Head(stdin[c]) \in ClientLine /\ Echoes(Tail(stdin[c]), line)
             \/ Head(stdin[c]) = line /\ Quiet(Tail(stdin[c]))
    BY <2>1, InTail
  <2>3. CASE Command(c)
    <3>1. child[c] = "idle" /\ child'[c] = "run"
      BY <2>3 DEF Command, ChildGoto, TypeOK
    <3>. QED  BY <2>1, <2>2, <3>1
  <2>7. CASE Ignore(c)
    <3>1. child[c] = "idle" /\ child'[c] = "idle"
      BY <2>7 DEF Ignore, ChildGoto, TypeOK
    <3>. QED  BY <2>1, <2>2, <3>1
  <2>4. CASE Exit(c)
    <3>1. child[c] = "idle" /\ child'[c] = "dead"
      BY <2>4 DEF Exit, ChildGoto, TypeOK
    <3>. QED  BY <2>1, <2>2, <3>1
  <2>5. CASE NetworkLock(c)
    <3>1. /\ child[c] = "wantlock"
          /\ child'[c] = IF Head(stdin[c]) \in LooksLikeLock
                           THEN "session" ELSE "wantlock"
          /\ Head(stdin[c]) \in LooksLikeLock => Head(stdin[c]) \notin ClientLine
      BY <2>5 DEF NetworkLock, TakeEcho, ChildGoto, TypeOK
    <3>2. \A line \in {"LOCK", "UNLOCK"} :
            line \notin ClientLine /\ line \in LooksLikeLock
      BY DEF ClientLine, LooksLikeLock
    <3>3. \/ Head(stdin[c]) \in ClientLine /\ child'[c] = "wantlock"
          \/ Head(stdin[c]) \in {"LOCK", "UNLOCK"} /\ child'[c] = "session"
      BY <2>2, <2>5, <3>1, <3>2 DEF NetworkLock, TakeEcho, ChildGoto
    <3>. QED  BY <2>1, <2>2, <3>1, <3>2, <3>3
  <2>6. CASE NetworkUnlock(c)
    <3>1. /\ child[c] = "wantunlock"
          /\ child'[c] = IF Head(stdin[c]) \in LooksLikeUnlock
                           THEN "run" ELSE "wantunlock"
          /\ Head(stdin[c]) \in LooksLikeUnlock => Head(stdin[c]) \notin ClientLine
      BY <2>6 DEF NetworkUnlock, TakeEcho, ChildGoto, TypeOK
    <3>2. /\ "UNLOCK" \notin ClientLine /\ "UNLOCK" \in LooksLikeUnlock
          /\ "LOCK" \notin LooksLikeUnlock
      BY DEF ClientLine, LooksLikeUnlock
    <3>3. \/ Head(stdin[c]) \in ClientLine /\ child'[c] = "wantunlock"
          \/ Head(stdin[c]) = "LOCK" /\ child'[c] = "wantunlock"
          \/ Head(stdin[c]) = "UNLOCK" /\ child'[c] = "run"
      BY <2>1, <2>2, <2>6, <3>1, <3>2
         DEF NetworkUnlock, TakeEcho, ChildGoto
    <3>. QED  BY <2>1, <2>2, <3>1, <3>2, <3>3
  <2>. QED  BY <1>1, <2>3, <2>4, <2>5, <2>6, <2>7
<1>2. CASE SqlBegin(c) \/ PrintInSession(c) \/ SqlEnd(c) \/ Finish(c)
  <2>1. /\ stderr[c] \in Seq(OutLine) /\ stdin'[c] = stdin[c]
        /\ t2'[c] = t2[c] /\ owner' = owner
    BY <1>2 DEF SqlBegin, PrintInSession, SqlEnd, Finish, ChildSay, flags, TypeOK
  <2>2. Silent(stderr[c]) =>
          /\ Silent(Append(stderr[c], "OUT"))
          /\ Asks(Append(stderr[c], "LOCK"), "LOCK")
          /\ Asks(Append(stderr[c], "UNLOCK"), "UNLOCK")
    BY <2>1, OutAppend DEF OutLine
  <2>3. CASE SqlBegin(c)
    <3>1. /\ child[c] = "run" /\ child'[c] = "wantlock"
          /\ stderr'[c] = Append(stderr[c], "LOCK")
      BY <2>3 DEF SqlBegin, ChildSay, ChildGoto, TypeOK
    <3>. QED  BY <2>1, <2>2, <3>1
  <2>4. CASE PrintInSession(c)
    <3>1. /\ child[c] = "session" /\ child'[c] = "session"
          /\ stderr'[c] = Append(stderr[c], "OUT")
      BY <2>4 DEF PrintInSession, ChildSay, ChildGoto, TypeOK
    <3>. QED  BY <2>1, <2>2, <3>1
  <2>5. CASE SqlEnd(c)
    <3>1. /\ child[c] = "session" /\ child'[c] = "wantunlock"
          /\ stderr'[c] = Append(stderr[c], "UNLOCK")
      BY <2>5 DEF SqlEnd, ChildSay, ChildGoto, TypeOK
    <3>. QED  BY <2>1, <2>2, <3>1
  <2>6. CASE Finish(c)
    <3>1. /\ child[c] = "run" /\ child'[c] = "idle"
          /\ stderr'[c] = Append(stderr[c], "OUT")
      BY <2>6 DEF Finish, ChildSay, ChildGoto, TypeOK
    <3>. QED  BY <2>1, <2>2, <3>1
  <2>. QED  BY <1>2, <2>3, <2>4, <2>5, <2>6
<1>3. CASE ChildEof(c)
  BY <1>3 DEF ChildEof
<1>. QED  BY <1>1, <1>2, <1>3 DEF ChildStep

(* ... and of the client and t3.                                            *)
LEMMA ClientPhase ==
  ASSUME TypeOK, up', NEW c \in Conns, Phase(c), ClientStep(c)
  PROVE  Phase(c)'
<1>. USE DEF Phase, Free, Requested, Acquiring, Granted, InSession, Releasing,
             Released, Watching
<1>1. ASSUME NEW line \in ClientLine, NetworkLine(c, line)
      PROVE  Phase(c)'
  <2>1. /\ stdin[c] \in Seq(InLine) /\ stdin'[c] = Append(stdin[c], line)
        /\ t2'[c] = t2[c] /\ owner' = owner
        /\ child'[c] = child[c] /\ stderr'[c] = stderr[c]
    BY <1>1 DEF NetworkLine, Feed, flags, process, TypeOK
  <2>. QED  BY <2>1, InAppend
<1>2. CASE Disconnect(c)
  BY <1>2 DEF Disconnect, flags, process
<1>. QED  BY <1>1, <1>2 DEF ClientStep

(* Only Feed changes up, and it can only make it FALSE; every step is a     *)
(* step of one connection.                                                  *)
LEMMA StepOf ==
  ASSUME TypeOK, Next, up'
  PROVE  /\ up /\ fooled \subseteq fooled'
         /\ \E c \in Conns :
              /\ \/ T2Step(c) \/ ChildStep(c) \/ ClientStep(c) \/ Crash(c)
              /\ \A d \in Conns \ {c} :
                   /\ t2'[d] = t2[d] /\ child'[d] = child[d]
                   /\ stdin'[d] = stdin[d] /\ stderr'[d] = stderr[d]
                   /\ d \in owner' <=> d \in owner
<1>1. PICK c \in Conns : T2Step(c) \/ ChildStep(c) \/ ClientStep(c) \/ Crash(c)
  BY DEF Next
<1>2. /\ up /\ fooled \subseteq fooled'
      /\ \A d \in Conns \ {c} :
           /\ t2'[d] = t2[d] /\ child'[d] = child[d]
           /\ stdin'[d] = stdin[d] /\ stderr'[d] = stderr[d]
           /\ d \in owner' <=> d \in owner
  <2>1. CASE T2Step(c)
    BY <2>1 DEF T2Step, T2Top, T2Eof, T2Forward, T2LockRequest, T2Poll, T2Set,
                T2Unlock, T2Take, T2Goto, Feed, flags, process, TypeOK
  <2>2. CASE ChildStep(c)
    BY <2>2 DEF ChildStep, Command, Ignore, Exit, SqlBegin, NetworkLock,
                PrintInSession, SqlEnd, NetworkUnlock, TakeEcho, Finish,
                ChildEof, ChildTake, ChildSay, ChildGoto, flags, TypeOK
  <2>3. CASE ClientStep(c)
    BY <2>3 DEF ClientStep, NetworkLine, Disconnect, Feed, flags, process, TypeOK
  <2>4. CASE Crash(c)
    BY <2>4 DEF Crash, flags, TypeOK
  <2>. QED  BY <1>1, <2>1, <2>2, <2>3, <2>4
<1>. QED  BY <1>1, <1>2

(* The turns on stderr are taken whatever is on stdin.                      *)
LEMMA OrderedInit == Init => Ordered
<1>. SUFFICES ASSUME Init, NEW c \in Conns PROVE Turns(c)
  BY DEF Ordered
<1>1. Len(stderr[c]) = 0 /\ child[c] = "idle" /\ t2[c] = "top" /\ c \notin owner
  BY EmptySeq DEF Init
<1>2. Heard(c) = "UNLOCK" /\ Said(c) = "UNLOCK"
  BY <1>1 DEF Heard, Said
<1>3. Silent(stderr[c]) /\ Alternates(stderr[c], Heard(c))
  BY <1>1 DEF Silent, Alternates
<1>. QED  BY <1>1, <1>2, <1>3 DEF Turns, EndsIn

(* A step of t2, with what Turns says of its connection.                    *)
LEMMA T2Turns ==
  ASSUME TypeOK, NEW c \in Conns, Turns(c), T2Step(c)
  PROVE  Turns(c)'
<1>1. /\ Heard(c) \in {"LOCK", "UNLOCK"} /\ Said(c) \in {"LOCK", "UNLOCK"}
      /\ stderr[c] \in Seq(OutLine)
  BY DEF Heard, Said, TypeOK
<1>2. /\ c \in owner => Watching(c)
      /\ Alternates(stderr[c], Heard(c))
      /\ child[c] # "dead" => EndsIn(stderr[c], Heard(c), Said(c))
  BY DEF Turns
<1>3. child' = child /\ Said(c)' = Said(c)
  BY DEF T2Step, T2Top, T2Eof, T2Forward, T2LockRequest, T2Take, T2Poll,
         T2Set, T2Unlock, process, Said
<1>4. CASE T2Top(c) \/ T2Eof(c) \/ T2Poll(c) \/ T2Set(c)
  <2>1. stderr' = stderr
    BY <1>4 DEF T2Top, T2Eof, T2Poll, T2Set
  <2>2. Heard(c)' = Heard(c) /\ (c \in owner' => Watching(c)')
    BY <1>2, <1>4 DEF T2Top, T2Eof, T2Poll, T2Set, T2Goto, flags, TypeOK,
                      Heard, Watching
  <2>. QED  BY <1>2, <1>3, <2>1, <2>2 DEF Turns
<1>5. CASE T2Forward(c) \/ T2LockRequest(c) \/ T2Unlock(c)
  <2>1. /\ stderr[c] # <<>> /\ stderr'[c] = Tail(stderr[c])
        /\ t2[c] = "read"
    BY <1>5 DEF T2Forward, T2LockRequest, T2Unlock, T2Take, T2Goto, TypeOK
  <2>2. /\ Head(stderr[c]) = "OUT" =>
             /\ Alternates(Tail(stderr[c]), Heard(c))
             /\ EndsIn(stderr[c], Heard(c), Said(c)) =>
                  EndsIn(Tail(stderr[c]), Heard(c), Said(c))
        /\ Head(stderr[c]) # "OUT" =>
             /\ Head(stderr[c]) # Heard(c)
             /\ Alternates(Tail(stderr[c]), Head(stderr[c]))
             /\ EndsIn(stderr[c], Heard(c), Said(c)) =>
                  EndsIn(Tail(stderr[c]), Head(stderr[c]), Said(c))
    BY ONLY <1>1, <1>2, <2>1, TurnTaken
  <2>3. CASE T2Forward(c)
    <3>1. Head(stderr[c]) = "OUT" /\ owner' = owner /\ t2'[c] = "top"
      BY <2>3 DEF T2Forward, T2Take, T2Goto, flags, TypeOK
    <3>2. Heard(c)' = Heard(c) /\ Watching(c)'
      BY <2>1, <3>1 DEF Heard, Watching
    <3>. QED  BY <1>2, <1>3, <2>1, <2>2, <3>1, <3>2 DEF Turns
  <2>4. CASE T2LockRequest(c)
    <3>1. Head(stderr[c]) = "LOCK" /\ owner' = owner /\ t2'[c] = "poll"
      BY <2>4 DEF T2LockRequest, T2Take, T2Goto, flags, TypeOK
    <3>2. c \notin owner /\ Heard(c)' = "LOCK"
      BY <2>2, <3>1 DEF Heard
    <3>. QED  BY <1>2, <1>3, <2>1, <2>2, <3>1, <3>2 DEF Turns
  <2>5. CASE T2Unlock(c)
    <3>1. /\ Head(stderr[c]) = "UNLOCK" /\ owner' = owner \ {c}
          /\ t2'[c] = "top"
      BY <2>5 DEF T2Unlock, T2Take, T2Goto, TypeOK
    <3>2. c \notin owner' /\ Heard(c)' = "UNLOCK"
      BY <3>1 DEF Heard
    <3>. QED  BY <1>2, <1>3, <2>1, <2>2, <3>1, <3>2 DEF Turns
  <2>. QED  BY <1>5, <2>3, <2>4, <2>5
<1>. QED  BY <1>4, <1>5 DEF T2Step

(* A step of the child while the server lives.                              *)
LEMMA ChildTurns ==
  ASSUME TypeOK, up, NEW c \in Conns, Turns(c), ChildStep(c)
  PROVE  Turns(c)'
<1>1. /\ Heard(c) \in {"LOCK", "UNLOCK"} /\ Said(c) \in {"LOCK", "UNLOCK"}
      /\ stderr[c] \in Seq(OutLine)
  BY DEF Heard, Said, TypeOK
<1>2. /\ c \in owner => Watching(c)
      /\ Alternates(stderr[c], Heard(c))
      /\ child[c] # "dead" => EndsIn(stderr[c], Heard(c), Said(c))
  BY DEF Turns
<1>3. t2' = t2 /\ owner' = owner
  BY DEF ChildStep, Command, Ignore, Exit, SqlBegin, NetworkLock,
         PrintInSession, SqlEnd, NetworkUnlock, TakeEcho, Finish, ChildEof,
         ChildTake, ChildSay, flags
<1>4. Heard(c)' = Heard(c) /\ (c \in owner' => Watching(c)')
  BY <1>2, <1>3 DEF Heard, Watching
<1>5. CASE \/ Command(c) \/ Ignore(c) \/ Exit(c) \/ NetworkLock(c)
           \/ NetworkUnlock(c)
  <2>1. stderr' = stderr /\ child[c] # "dead"
    BY <1>5 DEF Command, Ignore, Exit, NetworkLock, NetworkUnlock, TakeEcho,
                ChildTake, ChildGoto
  <2>2. child'[c] # "dead" => Said(c)' = Said(c)
    BY <1>5 DEF Command, Ignore, Exit, NetworkLock, NetworkUnlock, TakeEcho,
                ChildGoto, TypeOK, Said
  <2>. QED  BY <1>2, <1>4, <2>1, <2>2 DEF Turns
<1>6. CASE SqlBegin(c) \/ SqlEnd(c) \/ PrintInSession(c) \/ Finish(c)
  <2>1. child[c] # "dead"
    BY <1>6 DEF SqlBegin, SqlEnd, PrintInSession, Finish, ChildSay, ChildGoto
  <2>2. /\ Alternates(Append(stderr[c], "OUT"), Heard(c))
        /\ EndsIn(Append(stderr[c], "OUT"), Heard(c), Said(c))
        /\ \A line \in {"LOCK", "UNLOCK"} : line # Said(c) =>
             /\ Alternates(Append(stderr[c], line), Heard(c))
             /\ EndsIn(Append(stderr[c], line), Heard(c), line)
    BY ONLY <1>1, <1>2, <2>1, TurnPrinted
  <2>3. CASE SqlBegin(c)
    <3>1. /\ child[c] = "run" /\ child'[c] = "wantlock"
          /\ stderr'[c] = Append(stderr[c], "LOCK")
      BY <2>3 DEF SqlBegin, ChildSay, ChildGoto, TypeOK
    <3>2. Said(c) = "UNLOCK" /\ Said(c)' = "LOCK"
      BY <3>1 DEF Said
    <3>. QED  BY <1>4, <2>2, <3>1, <3>2 DEF Turns
  <2>4. CASE SqlEnd(c)
    <3>1. /\ child[c] = "session" /\ child'[c] = "wantunlock"
          /\ stderr'[c] = Append(stderr[c], "UNLOCK")
      BY <2>4 DEF SqlEnd, ChildSay, ChildGoto, TypeOK
    <3>2. Said(c) = "LOCK" /\ Said(c)' = "UNLOCK"
      BY <3>1 DEF Said
    <3>. QED  BY <1>4, <2>2, <3>1, <3>2 DEF Turns
  <2>5. CASE PrintInSession(c) \/ Finish(c)
    <3>1. /\ \/ child[c] = "session" /\ child'[c] = "session"
             \/ child[c] = "run" /\ child'[c] = "idle"
          /\ stderr'[c] = Append(stderr[c], "OUT")
      BY <2>5 DEF PrintInSession, Finish, ChildSay, ChildGoto, TypeOK
    <3>2. Said(c)' = Said(c)
      BY <3>1 DEF Said
    <3>. QED  BY <1>4, <2>2, <3>1, <3>2 DEF Turns
  <2>. QED  BY <1>6, <2>3, <2>4, <2>5
<1>7. CASE ChildEof(c)
  BY <1>7 DEF ChildEof
<1>. QED  BY <1>5, <1>6, <1>7 DEF ChildStep

LEMMA OrderedStep ==
  ASSUME TypeOK, Ordered, [Next]_vars
  PROVE  Ordered'
<1>. SUFFICES ASSUME up', NEW d \in Conns PROVE Turns(d)'
  BY DEF Ordered
<1>1. CASE Next
  <2>1. PICK c \in Conns :
          /\ T2Step(c) \/ ChildStep(c) \/ ClientStep(c) \/ Crash(c)
          /\ \A e \in Conns \ {c} :
               /\ t2'[e] = t2[e] /\ child'[e] = child[e]
               /\ stdin'[e] = stdin[e] /\ stderr'[e] = stderr[e]
               /\ e \in owner' <=> e \in owner
    BY <1>1, StepOf
  <2>2. up /\ Turns(d)
    BY <1>1, StepOf DEF Ordered
  <2>3. CASE d # c
    BY <2>1, <2>2, <2>3 DEF Turns, Heard, Said, Watching
  <2>4. CASE d = c /\ (ClientStep(c) \/ Crash(c))
    <3>1. /\ t2' = t2 /\ owner' = owner /\ stderr' = stderr
          /\ child'[d] = child[d] \/ child'[d] = "dead"
      BY <2>4 DEF ClientStep, NetworkLine, Disconnect, Crash, flags, process,
                  TypeOK
    <3>. QED  BY <2>2, <3>1 DEF Turns, Heard, Said, Watching
  <2>. QED  BY <2>1, <2>2, <2>3, <2>4, T2Turns, ChildTurns
<1>2. CASE UNCHANGED vars
  BY <1>2 DEF vars, Ordered, Turns, Heard, Said, Watching
<1>. QED  BY <1>1, <1>2

LEMMA HandshakeInit == Init => Handshake
<1>. SUFFICES ASSUME Init, NEW c \in Conns PROVE Free(c)
  BY DEF Handshake, Straight, Phase
<1>1. stdin[c] = <<>> /\ stderr[c] = <<>>
  BY DEF Init
<1>2. Silent(<<>>) /\ Quiet(<<>>)
  BY EmptySeq DEF Silent, Quiet
<1>. QED  BY <1>1, <1>2 DEF Init, Free, Watching

LEMMA HandshakeStep ==
  ASSUME TypeOK, Handshake, [Next]_vars
  PROVE  Handshake'
<1>. SUFFICES ASSUME up', NEW d \in Conns, d \notin fooled' PROVE Phase(d)'
  BY DEF Handshake, Straight
<1>1. CASE Next
  <2>1. PICK c \in Conns :
          /\ T2Step(c) \/ ChildStep(c) \/ ClientStep(c) \/ Crash(c)
          /\ \A e \in Conns \ {c} :
               /\ t2'[e] = t2[e] /\ child'[e] = child[e]
               /\ stdin'[e] = stdin[e] /\ stderr'[e] = stderr[e]
               /\ e \in owner' <=> e \in owner
    BY <1>1, StepOf
  <2>2. up /\ Phase(d)
    BY <1>1, StepOf DEF Handshake, Straight
  <2>3. CASE d # c
    BY <2>1, <2>2, <2>3, OtherPhase
  <2>4. CASE d = c
    <3>1. CASE Crash(c)
      BY <2>2, <2>4, <3>1
         DEF Crash, flags, TypeOK, Phase, Free, Requested, Acquiring, Granted,
             InSession, Releasing, Released, Watching
    <3>. QED  BY <2>1, <2>2, <2>4, <3>1, T2Phase, ChildPhase, ClientPhase
  <2>. QED  BY <2>3, <2>4
<1>2. CASE UNCHANGED vars
  BY <1>2, OtherPhase DEF vars, Handshake, Straight
<1>. QED  BY <1>1, <1>2

-----------------------------------------------------------------------------
(* The flag and its owner.                                                  *)

LEMMA OneOwnerInit == Init => OneOwner
BY DEF Init, OneOwner

LEMMA OneOwnerStep ==
  ASSUME TypeOK, Ordered, OneOwner, [Next]_vars
  PROVE  OneOwner'
<1>. SUFFICES ASSUME up', ~raced' PROVE OneOwner'
  BY DEF OneOwner
<1>1. CASE Next
  <2>1. PICK c \in Conns :
          T2Step(c) \/ ChildStep(c) \/ ClientStep(c) \/ Crash(c)
    BY <1>1, StepOf
  <2>2. up /\ Turns(c)
    BY <1>1, StepOf DEF Ordered
  <2>3. CASE ChildStep(c) \/ ClientStep(c) \/ Crash(c)
    <3>1. t2' = t2 /\ lock_db' = lock_db /\ owner' = owner /\ raced' = raced
      BY <2>3 DEF ChildStep, Command, Ignore, Exit, SqlBegin, NetworkLock,
                PrintInSession, SqlEnd, NetworkUnlock, TakeEcho, Finish,
                ChildEof, ChildTake, ChildSay, ClientStep, NetworkLine,
                Disconnect, Crash, flags
    <3>. QED  BY <2>2, <3>1 DEF OneOwner
  <2>4. CASE T2Step(c)
    <3>1. ~raced
      BY <2>4 DEF T2Step, T2Top, T2Eof, T2Forward, T2LockRequest, T2Poll,
                  T2Set, T2Unlock, flags
    <3>2. /\ lock_db <=> owner # {}
          /\ \A a, b \in owner : a = b
          /\ \A a \in Conns : t2[a] = "set" => ~lock_db
          /\ \A a, b \in Conns : t2[a] = "set" /\ t2[b] = "set" => a = b
      BY <2>2, <3>1 DEF OneOwner
    <3>3. CASE T2Top(c) \/ T2Eof(c) \/ T2Forward(c) \/ T2LockRequest(c)
      <4>1. /\ lock_db' = lock_db /\ owner' = owner
            /\ \A a \in Conns : t2'[a] = "set" => t2[a] = "set"
        BY <3>3 DEF T2Top, T2Eof, T2Forward, T2LockRequest, T2Goto, flags, TypeOK
      <4>. QED  BY <3>2, <4>1 DEF OneOwner
    <3>4. CASE T2Poll(c)
      <4>1. /\ ~lock_db /\ lock_db' = lock_db /\ owner' = owner
            /\ \A a \in Conns \ {c} : t2'[a] = t2[a] /\ t2[a] # "set"
        BY <3>4 DEF T2Poll, T2Goto, TypeOK
      <4>. QED  BY <3>2, <4>1 DEF OneOwner
    <3>5. CASE T2Set(c)
      <4>1. /\ lock_db' = TRUE /\ owner' = owner \union {c}
            /\ t2[c] = "set" /\ t2'[c] = "top"
            /\ \A a \in Conns \ {c} : t2'[a] = t2[a]
        BY <3>5 DEF T2Set, T2Goto, TypeOK
      <4>2. owner = {} /\ \A a \in Conns : t2'[a] # "set"
        BY <3>2, <4>1
      <4>. QED  BY <4>1, <4>2 DEF OneOwner
    <3>6. CASE T2Unlock(c)
      <4>1. /\ lock_db' = FALSE /\ owner' = owner \ {c}
            /\ t2[c] = "read" /\ t2'[c] = "top"
            /\ stderr[c] \in Seq(OutLine) /\ stderr[c] # <<>>
            /\ Head(stderr[c]) = "UNLOCK"
            /\ \A a \in Conns \ {c} : t2'[a] = t2[a]
        BY <3>6 DEF T2Unlock, T2Take, T2Goto, TypeOK
      <4>2. c \in owner
        <5>1. Heard(c) \in {"LOCK", "UNLOCK"}
          BY DEF Heard
        <5>2. Alternates(stderr[c], Heard(c))
          BY <2>2 DEF Turns
        <5>3. Heard(c) # "UNLOCK"
          BY ONLY <4>1, <5>1, <5>2, TurnTaken
        <5>. QED  BY <4>1, <5>3 DEF Heard
      <4>3. owner' = {}
        BY <3>2, <4>1, <4>2
      <4>. QED  BY <3>2, <4>1, <4>3 DEF OneOwner
    <3>. QED  BY <2>4, <3>3, <3>4, <3>5, <3>6 DEF T2Step
  <2>. QED  BY <2>1, <2>3, <2>4
<1>2. CASE UNCHANGED vars
  BY <1>2 DEF vars, OneOwner
<1>. QED  BY <1>1, <1>2

-----------------------------------------------------------------------------
(* The theorems.                                                            *)

(* The inductive invariant holds in every behaviour of the server, its      *)
(* children and their clients.                                              *)
THEOREM Invariance == Spec => []IInv
<1>1. Init => Ordered /\ Handshake /\ OneOwner
  BY OrderedInit, HandshakeInit, OneOwnerInit
<1>2. TypeOK /\ Ordered /\ Handshake /\ OneOwner /\ [Next]_vars =>
        (Ordered /\ Handshake /\ OneOwner)'
  BY OrderedStep, HandshakeStep, OneOwnerStep
<1>. QED  BY <1>1, <1>2, TypeCorrect, PTL DEF Spec, IInv

(* network_lock never returns to a child whose server lives before its own  *)
(* t2 has set lock_db for it, unless its own client sent it the text of an  *)
(* echo while it waited for one.                                            *)
THEOREM GrantsAreGenuine == Spec => []SessionWasGranted
<1>1. IInv => SessionWasGranted
  BY DEF IInv, Handshake, SessionWasGranted, Phase, Free, Requested,
         Acquiring, Granted, InSession, Releasing, Released
<1>. QED  BY <1>1, Invariance, PTL

(* As long as no two t2 test lock_db in the same window and the server      *)
(* lives, the database sessions of all children not fooled by their own     *)
(* client exclude one another.                                              *)
THEOREM MutualExclusion == Spec => []ExclusiveUnlessRaced
<1>1. IInv => SessionWasGranted
  BY DEF IInv, Handshake, SessionWasGranted, Phase, Free, Requested,
         Acquiring, Granted, InSession, Releasing, Released
<1>2. IInv => ExclusiveUnlessRaced
  BY <1>1 DEF IInv, OneOwner, SessionWasGranted, ExclusiveUnlessRaced
<1>. QED  BY <1>2, Invariance, PTL

(* As long as no two t2 test lock_db in the same window and the server      *)
(* lives, lock_db is TRUE exactly while it has an owner, whatever lines the *)
(* clients send.                                                            *)
THEOREM FlagIsOwned == Spec => []FlagMatchesOwner
<1>1. IInv => FlagMatchesOwner
  BY DEF IInv, OneOwner, FlagMatchesOwner
<1>. QED  BY <1>1, Invariance, PTL

-----------------------------------------------------------------------------
(* The refinement of SessionLock.                                           *)

(* A connection is at most one stage further on, and says which.            *)
Moves(c) ==
  \/ SessionStage(c)' = SessionStage(c)
  \/ SessionStage(c) = "granted" /\ SessionStage(c)' = "inside"
  \/ SessionStage(c) = "inside"  /\ SessionStage(c)' = "leaving"
  \/ SessionStage(c) = "leaving" /\ SessionStage(c)' = "out"
  \/ SessionStage(c) \in {"granted", "inside", "leaving"}
       /\ SessionStage(c)' = "lost"

(* The flag is set for a child that waits and had nothing, and taken back   *)
(* from one that waits for that.                                            *)
LEMMA T2Stage ==
  ASSUME TypeOK, up', NEW c \in Conns, Phase(c), T2Step(c)
  PROVE  \/ T2Set(c) /\ SessionStage(c) = "out" /\ SessionStage(c)' = "granted"
         \/ Moves(c) /\ raced' = raced
         \/ T2Poll(c) /\ SessionStage(c)' = SessionStage(c)
<1>1. CASE T2Top(c) \/ T2Eof(c) \/ T2Forward(c) \/ T2LockRequest(c)
  <2>1. child' = child /\ owner' = owner /\ raced' = raced
    BY <1>1 DEF T2Top, T2Eof, T2Forward, T2LockRequest, T2Take, flags, process
  <2>. QED  BY <2>1 DEF Moves, SessionStage
<1>2. CASE T2Poll(c)
  BY <1>2 DEF T2Poll, process, SessionStage
<1>3. CASE T2Set(c)
  <2>1. t2[c] = "set" /\ child' = child /\ c \in owner' /\ child[c] # "dead"
    BY <1>3 DEF T2Set, T2Goto, Feed, process
  <2>2. c \notin owner /\ child[c] = "wantlock"
    BY <2>1 DEF Phase, Free, Requested, Acquiring, Granted, InSession,
                Releasing, Released, Watching
  <2>. QED  BY <1>3, <2>1, <2>2 DEF SessionStage
<1>4. CASE T2Unlock(c)
  <2>1. /\ stderr[c] \in Seq(OutLine) /\ stderr[c] # <<>>
        /\ Head(stderr[c]) = "UNLOCK"
        /\ child' = child /\ c \notin owner' /\ child[c] # "dead" /\ raced' = raced
    BY <1>4 DEF T2Unlock, T2Take, Feed, process, TypeOK
  <2>2. c \in owner /\ child[c] = "wantunlock"
    BY <2>1, OutTail DEF Phase, Free, Requested, Acquiring, Granted, InSession,
                         Releasing, Released
  <2>. QED  BY <2>1, <2>2 DEF SessionStage, Moves
<1>. QED  BY <1>1, <1>2, <1>3, <1>4 DEF T2Step

(* The child goes from its grant through its session to its release, and a  *)
(* stale echo takes it nowhere.                                             *)
LEMMA ChildStage ==
  ASSUME TypeOK, up, NEW c \in Conns, c \notin fooled', Phase(c), ChildStep(c)
  PROVE  Moves(c)
<1>1. owner' = owner
  BY DEF ChildStep, Command, Ignore, Exit, SqlBegin, NetworkLock, PrintInSession,
         SqlEnd, NetworkUnlock, TakeEcho, Finish, ChildEof, ChildTake, ChildSay,
         flags
<1>2. CASE c \notin owner
  BY <1>1, <1>2 DEF Moves, SessionStage
<1>3. CASE c \in owner
  <2>1. child[c] \notin {"idle", "run"}
    BY <1>3 DEF Phase, Free, Requested, Acquiring, Granted, InSession, Releasing,
                Released
  <2>2. CASE \/ Command(c) \/ Ignore(c) \/ Exit(c) \/ SqlBegin(c) \/ Finish(c)
             \/ ChildEof(c)
    BY <2>1, <2>2 DEF Command, Ignore, Exit, SqlBegin, Finish, ChildEof, ChildSay,
                      ChildGoto
  <2>3. CASE NetworkLock(c)
    <3>1. child[c] = "wantlock" /\ child'[c] \in {"wantlock", "session"}
      BY <2>3 DEF NetworkLock, TakeEcho, ChildGoto, TypeOK
    <3>. QED  BY <1>1, <1>3, <3>1 DEF Moves, SessionStage
  <2>4. CASE PrintInSession(c)
    <3>1. child[c] = "session" /\ child'[c] = "session"
      BY <2>4 DEF PrintInSession, ChildSay, ChildGoto, TypeOK
    <3>. QED  BY <1>1, <1>3, <3>1 DEF Moves, SessionStage
  <2>5. CASE SqlEnd(c)
    <3>1. child[c] = "session" /\ child'[c] = "wantunlock"
      BY <2>5 DEF SqlEnd, ChildSay, ChildGoto, TypeOK
    <3>. QED  BY <1>1, <1>3, <3>1 DEF Moves, SessionStage
  <2>6. CASE NetworkUnlock(c)
    <3>1. /\ child[c] = "wantunlock"
          /\ stdin[c] \in Seq(InLine) /\ stdin[c] # <<>>
          /\ child'[c] = IF Head(stdin[c]) \in LooksLikeUnlock
                           THEN "run" ELSE "wantunlock"
          /\ Head(stdin[c]) \in LooksLikeUnlock => Head(stdin[c]) \notin ClientLine
      BY <2>6 DEF NetworkUnlock, TakeEcho, ChildTake, ChildGoto, TypeOK
    <3>2. Quiet(stdin[c])
      BY <1>3, <3>1 DEF Phase, Free, Requested, Acquiring, Granted, InSession,
                        Releasing, Released
    <3>3. child'[c] = "wantunlock"
      BY <3>1, <3>2, InTail
    <3>. QED  BY <1>1, <1>3, <3>1, <3>3 DEF Moves, SessionStage
  <2>. QED  BY <2>2, <2>3, <2>4, <2>5, <2>6 DEF ChildStep
<1>. QED  BY <1>2, <1>3

LEMMA CrashStage ==
  ASSUME TypeOK, up, NEW c \in Conns, Phase(c), Crash(c)
  PROVE  Moves(c)
<1>1. owner' = owner /\ child[c] # "dead" /\ child'[c] = "dead"
  BY DEF Crash, flags, TypeOK
<1>2. CASE c \notin owner
  BY <1>1, <1>2 DEF Moves, SessionStage
<1>3. CASE c \in owner
  <2>1. child[c] \in {"wantlock", "session", "wantunlock"}
    BY <1>1, <1>3 DEF Phase, Free, Requested, Acquiring, Granted, InSession,
                      Releasing, Released
  <2>. QED  BY <1>1, <1>3, <2>1 DEF Moves, SessionStage
<1>. QED  BY <1>2, <1>3

(* The stages of all the connections, after one of them has moved.          *)
LEMMA StagesExcept ==
  ASSUME NEW c \in Conns,
         \A d \in Conns \ {c} : SessionStage(d)' = SessionStage(d)
  PROVE  [d \in Conns |-> SessionStage(d)]' =
           [[d \in Conns |-> SessionStage(d)] EXCEPT ![c] = SessionStage(c)']
OBVIOUS

(* A move is a step of the abstract lock, or no step at all.                *)
LEMMA MoveServed ==
  ASSUME NEW c \in Conns, Moves(c),
         \A d \in Conns \ {c} : SessionStage(d)' = SessionStage(d),
         Promise # "stopped", Promise' = Promise, fooled' = fooled
  PROVE  [Locks!Next]_<<Promise, fooled, [d \in Conns |-> SessionStage(d)]>>
<1> DEFINE stage == [d \in Conns |-> SessionStage(d)]
<1>1. stage' = [stage EXCEPT ![c] = SessionStage(c)']
  BY StagesExcept
<1>2. stage[c] = SessionStage(c)
  OBVIOUS
<1>3. CASE SessionStage(c)' = SessionStage(c)
  <2>1. stage' = stage
    BY <1>1, <1>3
  <2>. QED  BY <2>1
<1>4. CASE SessionStage(c) = "granted" /\ SessionStage(c)' = "inside"
  <2>1. Locks!Enter(c)
    BY <1>1, <1>2, <1>4 DEF Locks!Enter, Locks!Goto
  <2>. QED  BY <2>1 DEF Locks!Next
<1>5. CASE SessionStage(c) = "inside" /\ SessionStage(c)' = "leaving"
  <2>1. Locks!Leave(c)
    BY <1>1, <1>2, <1>5 DEF Locks!Leave, Locks!Goto
  <2>. QED  BY <2>1 DEF Locks!Next
<1>6. CASE SessionStage(c) = "leaving" /\ SessionStage(c)' = "out"
  <2>1. Locks!Release(c)
    BY <1>1, <1>2, <1>6 DEF Locks!Release, Locks!Goto
  <2>. QED  BY <2>1 DEF Locks!Next
<1>7. CASE /\ SessionStage(c) \in {"granted", "inside", "leaving"}
           /\ SessionStage(c)' = "lost"
  <2>1. Locks!Die(c)
    BY <1>1, <1>2, <1>7 DEF Locks!Die, Locks!Goto
  <2>. QED  BY <2>1 DEF Locks!Next
<1>. QED  BY <1>3, <1>4, <1>5, <1>6, <1>7 DEF Moves

(* Every step of the server, its children and their clients is one of the   *)
(* abstract lock.                                                           *)
LEMMA StepServed ==
  ASSUME IInv, [Next]_vars
  PROVE  [Locks!Next]_<<Promise, fooled, [d \in Conns |-> SessionStage(d)]>>
<1> DEFINE stage == [d \in Conns |-> SessionStage(d)]
<1>1. CASE UNCHANGED vars
  BY <1>1 DEF vars, Promise, SessionStage
<1>2. CASE Next /\ ~up'
  <2>1. Promise' = "stopped"
    BY <1>2 DEF Promise
  <2>2. \A d \in Conns : SessionStage(d)' \in Locks!Stages
    BY DEF SessionStage, Locks!Stages
  <2>3. stage' \in [Conns -> Locks!Stages]
    BY <2>2
  <2>4. fooled' \in SUBSET Conns
    BY TypeStep DEF IInv, TypeOK
  <2>. QED  BY <2>1, <2>3, <2>4 DEF Locks!Next, Locks!Stop
<1>3. CASE Next /\ up'
  <2>1. TypeOK /\ up
    BY <1>3, StepOf DEF IInv
  <2>2. PICK c \in Conns :
          /\ T2Step(c) \/ ChildStep(c) \/ ClientStep(c) \/ Crash(c)
          /\ \A d \in Conns \ {c} :
               /\ t2'[d] = t2[d] /\ child'[d] = child[d]
               /\ stdin'[d] = stdin[d] /\ stderr'[d] = stderr[d]
               /\ d \in owner' <=> d \in owner
    BY <1>3, <2>1, StepOf
  <2>3. c \notin fooled => Phase(c)
    BY <2>1 DEF IInv, Handshake, Straight
  <2>4. \A d \in Conns \ {c} : SessionStage(d)' = SessionStage(d)
    BY <2>2 DEF SessionStage
  <2>5. Promise # "stopped"
    BY <2>1 DEF Promise
  <2>8. fooled' = fooled \/ fooled' = fooled \union {c}
    BY <2>2 DEF T2Step, T2Top, T2Eof, T2Forward, T2LockRequest, T2Take,
                T2Poll, T2Set, T2Unlock, ChildStep, Command, Ignore, Exit,
                SqlBegin, NetworkLock, PrintInSession, SqlEnd, NetworkUnlock,
                TakeEcho, Finish, ChildEof, ClientStep, NetworkLine,
                Disconnect, Crash, process
  <2>9. CASE c \in fooled' /\ Promise' = Promise
    <3>1. fooled' = fooled \union {c}
      BY <2>8, <2>9
    <3>2. SessionStage(c)' \in Locks!Stages
      BY DEF SessionStage, Locks!Stages
    <3>3. stage' = [stage EXCEPT ![c] = SessionStage(c)']
      BY <2>4, StagesExcept
    <3>4. Locks!Stray(c)
      BY <2>9, <3>1, <3>2, <3>3 DEF Locks!Stray
    <3>. QED  BY <2>5, <3>4 DEF Locks!Next
  <2>10. c \notin fooled' => fooled' = fooled /\ c \notin fooled
    BY <2>8
  <2>6. CASE ChildStep(c) \/ ClientStep(c) \/ Crash(c)
    <3>1. raced' = raced
      BY <2>6 DEF ChildStep, Command, Ignore, Exit, SqlBegin, NetworkLock,
                PrintInSession, SqlEnd, NetworkUnlock, TakeEcho, Finish,
                ChildEof, ChildTake, ChildSay, ClientStep, NetworkLine,
                Disconnect, Crash, flags
    <3>2. Promise' = Promise
      BY <1>3, <2>1, <3>1 DEF Promise
    <3>. SUFFICES ASSUME c \notin fooled'
                  PROVE  [Locks!Next]_<<Promise, fooled,
                                        [d \in Conns |-> SessionStage(d)]>>
      BY <2>9, <3>2
    <3>3. CASE ClientStep(c)
      <4>1. child' = child /\ owner' = owner
        BY <3>3 DEF ClientStep, NetworkLine, Disconnect, flags, process
      <4>2. Moves(c)
        BY <4>1 DEF Moves, SessionStage
      <4>. QED  BY <2>4, <2>5, <2>10, <3>2, <4>2, MoveServed
    <3>4. CASE ChildStep(c) \/ Crash(c)
      <4>1. Moves(c)
        BY <2>1, <2>3, <2>10, <3>4, ChildStage, CrashStage
      <4>. QED  BY <2>4, <2>5, <2>10, <3>2, <4>1, MoveServed
    <3>. QED  BY <2>6, <3>3, <3>4
  <2>7. CASE T2Step(c)
    <3>4. fooled' = fooled
      BY <2>7 DEF T2Step, T2Top, T2Eof, T2Forward, T2LockRequest, T2Take,
                  T2Poll, T2Set, T2Unlock, process
    <3>1. CASE Moves(c) /\ raced' = raced
      <4>1. Promise' = Promise
        BY <1>3, <2>1, <3>1 DEF Promise
      <4>. QED  BY <2>4, <2>5, <3>1, <3>4, <4>1, MoveServed
    <3>5. CASE c \in fooled /\ ~T2Poll(c)
      <4>1. raced' = raced
        BY <2>7, <3>5 DEF T2Step, T2Top, T2Eof, T2Forward, T2LockRequest,
                          T2Set, T2Unlock, flags
      <4>2. Promise' = Promise
        BY <1>3, <2>1, <4>1 DEF Promise
      <4>. QED  BY <2>9, <3>4, <3>5, <4>2
    <3>2. CASE T2Poll(c) /\ SessionStage(c)' = SessionStage(c)
      <4>1. stage' = stage
        BY <2>4, <3>2
      <4>2. raced => raced'
        BY <3>2 DEF T2Poll
      <4>3. CASE raced' = raced
        <5>1. Promise' = Promise
          BY <1>3, <2>1, <4>3 DEF Promise
        <5>. QED  BY <3>4, <4>1, <5>1
      <4>4. CASE ~raced /\ raced'
        <5>1. Promise = "exclusive" /\ Promise' = "shared"
          BY <1>3, <2>1, <4>4 DEF Promise
        <5>2. Locks!Race
          BY <3>4, <4>1, <5>1 DEF Locks!Race
        <5>. QED  BY <5>2 DEF Locks!Next
      <4>5. raced \in BOOLEAN /\ (raced' = raced \/ raced' = TRUE)
        BY <2>1, <4>2, <3>2 DEF T2Poll, TypeOK
      <4>. QED  BY <4>3, <4>4, <4>5
    <3>3. CASE /\ T2Set(c)
               /\ SessionStage(c) = "out" /\ SessionStage(c)' = "granted"
      <4>1. raced' = raced /\ t2[c] = "set"
        BY <3>3 DEF T2Set, T2Goto
      <4>2. Promise' = Promise
        BY <1>3, <2>1, <4>1 DEF Promise
      <4>3. Promise = "exclusive" => owner = {}
        BY <2>1, <4>1 DEF IInv, OneOwner, Promise
      <4>4. Promise = "exclusive" => \A d \in Conns : stage[d] = "out"
        BY <4>3 DEF SessionStage
      <4>5. stage' = [stage EXCEPT ![c] = "granted"] /\ stage[c] = "out"
        BY <2>4, <3>3, StagesExcept
      <4>6. Locks!Grant(c)
        BY <3>4, <4>2, <4>4, <4>5 DEF Locks!Grant, Locks!Goto
      <4>. QED  BY <2>5, <4>6 DEF Locks!Next
    <3>6. CASE T2Poll(c)
      <4>1. SessionStage(c)' = SessionStage(c)
        BY <3>6 DEF T2Poll, process, SessionStage
      <4>. QED  BY <3>2, <3>6, <4>1
    <3>. QED  BY <1>3, <2>1, <2>3, <2>7, <3>1, <3>2, <3>3, <3>5, <3>6, T2Stage
  <2>. QED  BY <2>2, <2>6, <2>7
<1>. QED  BY <1>1, <1>2, <1>3

(* The lock service of the server and the children's sql_begin and sql_end  *)
(* are an implementation of SessionLock: one grant, one session, one        *)
(* release, and no grant to a second child before the first has given the   *)
(* lock back, unless two t2 raced; a child fooled by its own client is a    *)
(* stray and takes nothing away from the others.                            *)
THEOREM Implementation == Spec => ServesSessions
<1>1. Init => Locks!Init
  <2>. SUFFICES ASSUME Init PROVE Locks!Init
    OBVIOUS
  <2>1. Promise = "exclusive"
    BY DEF Init, Promise
  <2>2. /\ [c \in Conns |-> SessionStage(c)] = [c \in Conns |-> "out"]
        /\ fooled = {}
    BY DEF Init, SessionStage
  <2>. QED  BY <2>1, <2>2 DEF Locks!Init
<1>2. IInv /\ [Next]_vars =>
        [Locks!Next]_<<Promise, fooled, [c \in Conns |-> SessionStage(c)]>>
  BY StepServed
<1>. QED  BY <1>1, <1>2, Invariance, PTL DEF Spec, ServesSessions, Locks!Spec
=============================================================================
