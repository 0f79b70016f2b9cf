------------------------- MODULE ClauseStore_proofs -------------------------
(***************************************************************************)
(* The safety properties of ClauseStore, for any facts, clauses, words,    *)
(* flags and files and any bounds.                                         *)
(*                                                                         *)
(* A crash brings back the tables as last committed, so what is said of    *)
(* the tables is said of the committed ones as well: the predicates below  *)
(* take tables as parameters.  What keeps clauses apart is Numbering: a    *)
(* warm counter is behind its table by one at most, so a new key is above  *)
(* all that are in use.                                                    *)
(***************************************************************************)
EXTENDS ClauseStore, FiniteSetTheorems, TLAPS

USE ClauseStoreAssumption DEF Tables

(* r, f, x, fr, d, g and td stand for rows, flag, index, freed, deleted,    *)
(* given and todo.                                                          *)
LiveIn(r, t) == {k \in Keys : r[t][k] # None}

Typed(r, f, x, fr, d, g) ==
  /\ r \in [Tables -> [Keys -> Row \union {None}]]
  /\ f \in [Tables -> [Keys -> Flags \union {None}]]
  /\ x \subseteq Words \X Keys \X Tables
  /\ fr \in [Tables -> SUBSET Keys] /\ d \subseteq Keys
  /\ g \subseteq Keys \X Clauses

(* A fact is its own.                                                       *)
FactRows(r) ==
  \A k \in LiveIn(r, "facts") :
    r["facts"][k].text \in Facts /\ r["facts"][k].of = r["facts"][k].text

(* The row of a clause says what the clause may say.                        *)
Saying(r) ==
  \A c \in LiveIn(r, "clauses") : r["clauses"][c].says \in Says[r["clauses"][c].text]

(* ClausesHaveTheirFact.                                                    *)
HaveFact(r, d) ==
  \A c \in LiveIn(r, "clauses") :
    \/ r["clauses"][c].rel \in d
    \/ /\ r["clauses"][c].rel \in LiveIn(r, "facts")
       /\ r["facts"][r["clauses"][c].rel].text = r["clauses"][c].of

(* ClauseFlags, and that flags without their row are of a key that was      *)
(* freed.                                                                   *)
HaveFlags(r, f, fr) ==
  /\ \A c \in Keys : f["clauses"][c] # None =>
       c \in LiveIn(r, "clauses") \/ c \in fr["clauses"]
  /\ \A c \in LiveIn(r, "clauses") :
       /\ f["clauses"][c] # None
       /\ c \notin fr["clauses"] => f["clauses"][c] = FlagOf[r["clauses"][c].text]

(* FoundForAReason, also of the index rows that no search finds.            *)
Indexed(r, x, fr, d, g) ==
  \A w \in Words, k \in Keys :
    /\ <<w, k, "facts">> \in x =>
         \/ k \in LiveIn(r, "facts") /\ w \in WordsOf[r["facts"][k].text]
         \/ k \in d \union fr["facts"]
    /\ <<w, k, "clauses">> \in x =>
         \E y \in Clauses : <<k, y>> \in g /\ w \in WordsOf[y]

(* The clauses of fact k, and how many of them come before c or with it.    *)
For(r, k) == {c \in LiveIn(r, "clauses") : r["clauses"][c].rel = k}
Rank(r, k, c) == Cardinality({j \in For(r, k) : j <= c})

(* The fact whose clauses are being added is stored, and they are the last  *)
(* ones of it.                                                              *)
Pending(r, td) ==
  \/ td = Done
  \/ /\ td \in [fact : Facts, rel : Keys, clauses : Seq(Clauses)]
     /\ td.rel \in LiveIn(r, "facts") /\ r["facts"][td.rel].text = td.fact
     /\ Len(td.clauses) \in 1..Len(ClausesOf[td.fact])
     /\ \A i \in 1..Len(td.clauses) :
          td.clauses[i] =
            ClausesOf[td.fact][Len(ClausesOf[td.fact]) - Len(td.clauses) + i]

(* OwnClauses, up to those still to be added.                               *)
Missing(td, k) == IF td.rel = k THEN Len(td.clauses) ELSE 0

Own(r, d, td) ==
  \A k \in LiveIn(r, "facts") \ d :
    /\ Cardinality(For(r, k)) + Missing(td, k) = Len(ClausesOf[r["facts"][k].text])
    /\ \A c \in For(r, k) :
         r["clauses"][c].text = ClausesOf[r["facts"][k].text][Rank(r, k, c)]

Sound(r, f, x, fr, d, g, td) ==
  /\ Typed(r, f, x, fr, d, g)
  /\ FactRows(r)
  /\ Saying(r)
  /\ HaveFact(r, d)
  /\ HaveFlags(r, f, fr)
  /\ Indexed(r, x, fr, d, g)
  /\ Pending(r, td)
  /\ Own(r, d, td)

(* A warm counter holds the key before the last one it gave, and so is      *)
(* behind the table by one at most.                                         *)
Numbering ==
  \A t \in Tables : last[t] # Cold => \A j \in Live(t) : j <= last[t] + 1

IInv ==
  /\ session \in BOOLEAN
  /\ last \in [Tables -> {Cold} \union 0..MaxKey]
  /\ Sound(rows, flag, index, freed, deleted, given, todo)
  /\ Sound(disk[1], disk[2], disk[3], disk[4], disk[5], disk[6], Done)
  /\ disk = <<disk[1], disk[2], disk[3], disk[4], disk[5], disk[6]>>
  /\ session => Numbering
  /\ ~session => todo = Done /\ disk = tables

-----------------------------------------------------------------------------
(* Ranks.                                                                   *)

LEMMA FiniteKeys == \A S \in SUBSET Keys : IsFiniteSet(S)
<1>1. IsFiniteSet(1..MaxKey)
  <2>1. MaxKey \in Int
    OBVIOUS
  <2> QED BY <2>1, FS_Interval
<1> QED BY <1>1, FS_Subset DEF Keys

(* A key above all others has the last rank and changes no other's.         *)
LEMMA AddLast ==
  ASSUME NEW S \in SUBSET Keys, NEW c \in Keys, \A j \in S : j < c
  PROVE  /\ Cardinality(S) \in Nat
         /\ Cardinality(S \union {c}) = Cardinality(S) + 1
         /\ {j \in S \union {c} : j <= c} = S \union {c}
         /\ \A e \in S : {j \in S \union {c} : j <= e} = {j \in S : j <= e}
<1>1. IsFiniteSet(S)
  BY FiniteKeys
<1>2. c \notin S
  BY DEF Keys
<1>3. /\ Cardinality(S) \in Nat /\ Cardinality(S \union {c}) = Cardinality(S) + 1
  BY <1>1, <1>2, FS_CardinalityType, FS_AddElement
<1>4. {j \in S \union {c} : j <= c} = S \union {c}
  <2>1. \A j \in S \union {c} : j <= c
    BY DEF Keys
  <2> QED BY <2>1, Zenon
<1>5. ASSUME NEW e \in S PROVE {j \in S \union {c} : j <= e} = {j \in S : j <= e}
  BY DEF Keys
<1> QED BY <1>3, <1>4, <1>5

(* A rank is a number up to that of the clauses.                            *)
LEMMA RankBounds ==
  ASSUME NEW r, NEW k, NEW c \in For(r, k)
  PROVE  Cardinality(For(r, k)) \in Nat /\ Rank(r, k, c) \in 1..Cardinality(For(r, k))
<1> DEFINE S == For(r, k)
           T == {j \in S : j <= c}
<1>1. S \subseteq Keys /\ c \in Keys
  BY DEF For, LiveIn
<1>2. IsFiniteSet(S)
  BY <1>1, FiniteKeys
<1>3. T \subseteq S /\ c \in T
  BY <1>1 DEF Keys
<1>4. IsFiniteSet(T) /\ Cardinality(T) <= Cardinality(S)
  BY <1>2, <1>3, FS_Subset
<1>5. Cardinality(S) \in Nat /\ Cardinality(T) \in Nat
  BY <1>2, <1>4, FS_CardinalityType
<1>6. Cardinality(T) # 0
  BY <1>3, <1>4, FS_EmptySet
<1> QED BY <1>4, <1>5, <1>6 DEF Rank

-----------------------------------------------------------------------------
(* Inserting a row.                                                         *)

(* A new key is above all that are in use.                                  *)
LEMMA NewKeyIsAbove ==
  ASSUME IInv, session, NEW t \in Tables, NEW k \in Keys, LastPk(t, k - 1)
  PROVE  \A j \in Live(t) : j < k
<1>1. CASE last[t] # Cold
  <2>1. k - 1 = last[t] + 1
    BY <1>1 DEF LastPk
  <2>2. \A j \in Live(t) : j <= last[t] + 1
    BY <1>1 DEF IInv, Numbering
  <2>3. last[t] \in Int
    BY DEF IInv, Cold
  <2> QED BY <2>1, <2>2, <2>3 DEF Live, Keys
<1>2. CASE last[t] = Cold
  BY <1>2 DEF LastPk, Live, Keys
<1> QED BY <1>1, <1>2

(* What insert leaves: the row, its flags unless there are some, and its    *)
(* index rows.                                                              *)
Inserted(t, k, row) ==
  /\ \A j \in Live(t) : j < k
  /\ rows' = [rows EXCEPT ![t][k] = row]
  /\ flag' = IF flag[t][k] # None THEN flag ELSE [flag EXCEPT ![t][k] = FlagOf[row.text]]
  /\ index' = index \union {<<w, k, t>> : w \in WordsOf[row.text]}
  /\ last' \in [Tables -> {Cold} \union 0..MaxKey]
  /\ Numbering'

LEMMA InsertInserts ==
  ASSUME IInv, session, NEW t \in Tables, NEW k \in Keys, NEW row \in Row, Insert(t, k, row)
  PROVE  Inserted(t, k, row)
<1>1. \A j \in Live(t) : j < k
  BY NewKeyIsAbove DEF Insert
<1>2. k \notin Live(t)
  BY <1>1 DEF Keys
<1>3. rows[t][k] = None
  BY <1>2 DEF Live
<1>4. rows' = [rows EXCEPT ![t][k] = row]
  BY <1>3 DEF Insert
<1>5. flag' = IF flag[t][k] # None THEN flag ELSE [flag EXCEPT ![t][k] = FlagOf[row.text]]
  BY <1>3 DEF Insert, InsertFlags, NotUnique
<1>6. last' \in [Tables -> {Cold} \union 0..MaxKey]
  <2>1. k - 1 \in 0..MaxKey
    BY DEF Keys
  <2> QED BY <2>1 DEF Insert, IInv
<1>7. Numbering'
  <2> SUFFICES ASSUME NEW u \in Tables, last'[u] # Cold, NEW j \in Live(u)'
               PROVE  j <= last'[u] + 1
    BY DEF Numbering
  <2>1. last' = [last EXCEPT ![t] = k - 1]
    BY DEF Insert
  <2>2. CASE u = t
    <3>1. last'[u] = k - 1
      BY <2>1, <2>2 DEF IInv
    <3>2. j = k \/ j \in Live(t)
      BY <1>4, <2>2 DEF IInv, Sound, Typed, Live
    <3>3. j <= k
      BY <1>1, <3>2 DEF Keys, Live
    <3> QED BY <3>1, <3>3 DEF Keys, Live
  <2>3. CASE u # t
    <3>1. last'[u] = last[u] /\ j \in Live(u)
      BY <1>4, <2>1, <2>3 DEF IInv, Sound, Typed, Live
    <3> QED BY <3>1 DEF IInv, Numbering
  <2> QED BY <2>2, <2>3
<1> QED BY <1>1, <1>4, <1>5, <1>6, <1>7 DEF Inserted, Insert, InsertIndex

-----------------------------------------------------------------------------
(* The tables after an insert, table by table.                              *)

LEMMA InsertedTables ==
  ASSUME IInv, session, NEW t \in Tables, NEW k \in Keys, NEW row \in Row,
         Inserted(t, k, row)
  PROVE  /\ rows' \in [Tables -> [Keys -> Row \union {None}]]
         /\ flag' \in [Tables -> [Keys -> Flags \union {None}]]
         /\ index' \subseteq Words \X Keys \X Tables
         /\ rows'[t][k] = row /\ row # None /\ rows[t][k] = None
         /\ \A u \in Tables, j \in Keys : u # t \/ j # k => rows'[u][j] = rows[u][j]
         /\ flag'[t][k] = (IF flag[t][k] # None THEN flag[t][k] ELSE FlagOf[row.text])
         /\ \A u \in Tables, j \in Keys : u # t \/ j # k => flag'[u][j] = flag[u][j]
         /\ FlagOf[row.text] # None
<1>1. /\ rows \in [Tables -> [Keys -> Row \union {None}]]
      /\ flag \in [Tables -> [Keys -> Flags \union {None}]]
      /\ index \subseteq Words \X Keys \X Tables
  BY DEF IInv, Sound, Typed
<1>2. row.text \in Texts /\ row # None
  BY DEF Row
<1>3. FlagOf[row.text] \in Flags /\ FlagOf[row.text] # None
  BY <1>2 DEF Flags
<1>4. WordsOf[row.text] \subseteq Words
  BY <1>2 DEF Words
<1>5. rows[t][k] = None
  <2>1. k \notin Live(t)
    BY DEF Inserted, Keys
  <2> QED BY <2>1 DEF Live
<1>6. index' \subseteq Words \X Keys \X Tables
  BY <1>1, <1>4 DEF Inserted
<1>7. /\ rows' \in [Tables -> [Keys -> Row \union {None}]]
      /\ rows'[t][k] = row
      /\ \A u \in Tables, j \in Keys : u # t \/ j # k => rows'[u][j] = rows[u][j]
  BY <1>1 DEF Inserted
<1>8. /\ flag' \in [Tables -> [Keys -> Flags \union {None}]]
      /\ flag'[t][k] = (IF flag[t][k] # None THEN flag[t][k] ELSE FlagOf[row.text])
      /\ \A u \in Tables, j \in Keys : u # t \/ j # k => flag'[u][j] = flag[u][j]
  BY <1>1, <1>3 DEF Inserted
<1> QED BY <1>2, <1>3, <1>5, <1>6, <1>7, <1>8

(* The rows in use are those before and the new one.                        *)
LEMMA InsertedLive ==
  ASSUME IInv, session, NEW t \in Tables, NEW k \in Keys, NEW row \in Row,
         Inserted(t, k, row)
  PROVE  /\ LiveIn(rows', t) = LiveIn(rows, t) \union {k}
         /\ \A u \in Tables \ {t} : LiveIn(rows', u) = LiveIn(rows, u)
         /\ k \notin LiveIn(rows, t)
         /\ \A j \in LiveIn(rows, t) : j < k
<1>1. /\ rows'[t][k] # None
      /\ \A u \in Tables, j \in Keys : u # t \/ j # k => rows'[u][j] = rows[u][j]
  BY InsertedTables
<1>2. LiveIn(rows', t) = LiveIn(rows, t) \union {k}
  BY <1>1 DEF LiveIn
<1>3. \A u \in Tables \ {t} : LiveIn(rows', u) = LiveIn(rows, u)
  BY <1>1 DEF LiveIn
<1>4. \A j \in LiveIn(rows, t) : j < k
  BY DEF LiveIn, Live, Inserted
<1>5. k \notin LiveIn(rows, t)
  BY <1>4 DEF Keys
<1> QED BY <1>2, <1>3, <1>4, <1>5

(* Its rows are as before.                                                  *)
LEMMA InsertedRest ==
  ASSUME IInv, session, NEW t \in Tables, NEW k \in Keys, NEW row \in Row,
         Inserted(t, k, row)
  PROVE  \A u \in Tables : \A j \in LiveIn(rows, u) :
           j \in LiveIn(rows', u) /\ rows'[u][j] = rows[u][j]
<1> SUFFICES ASSUME NEW u \in Tables, NEW j \in LiveIn(rows, u)
             PROVE  j \in LiveIn(rows', u) /\ rows'[u][j] = rows[u][j]
  OBVIOUS
<1>1. j \in Keys
  BY DEF LiveIn
<1>2. u # t \/ j # k
  BY InsertedLive
<1>3. rows'[u][j] = rows[u][j]
  BY <1>1, <1>2, InsertedTables
<1> QED BY <1>1, <1>3 DEF LiveIn

(* The index keeps its reasons.                                             *)
LEMMA InsertedIndex ==
  ASSUME IInv, session, NEW t \in Tables, NEW k \in Keys, NEW row \in Row,
         Inserted(t, k, row),
         UNCHANGED <<freed, deleted>>,
         given \subseteq given',
         t = "clauses" => row.text \in Clauses /\ <<k, row.text>> \in given'
  PROVE  Indexed(rows', index', freed', deleted', given')
<1> SUFFICES ASSUME NEW w \in Words, NEW j \in Keys
             PROVE  /\ <<w, j, "facts">> \in index' =>
                         \/ j \in LiveIn(rows', "facts") /\ w \in WordsOf[rows'["facts"][j].text]
                         \/ j \in deleted' \union freed'["facts"]
                    /\ <<w, j, "clauses">> \in index' =>
                         \E y \in Clauses : <<j, y>> \in given' /\ w \in WordsOf[y]
  BY DEF Indexed
<1>1. \A u \in Tables : <<w, j, u>> \in index' =>
        <<w, j, u>> \in index \/ (w \in WordsOf[row.text] /\ j = k /\ u = t)
  BY DEF Inserted
<1>2. ASSUME <<w, j, "facts">> \in index'
      PROVE  \/ j \in LiveIn(rows', "facts") /\ w \in WordsOf[rows'["facts"][j].text]
             \/ j \in deleted' \union freed'["facts"]
  <2>1. CASE <<w, j, "facts">> \in index
    <3>1. \/ j \in LiveIn(rows, "facts") /\ w \in WordsOf[rows["facts"][j].text]
          \/ j \in deleted \union freed["facts"]
      BY <2>1 DEF IInv, Sound, Indexed
    <3> QED BY <3>1, InsertedRest
  <2>2. CASE w \in WordsOf[row.text] /\ j = k /\ "facts" = t
    BY <2>2, InsertedTables, InsertedLive
  <2> QED BY <1>1, <1>2, <2>1, <2>2
<1>3. ASSUME <<w, j, "clauses">> \in index'
      PROVE  \E y \in Clauses : <<j, y>> \in given' /\ w \in WordsOf[y]
  <2>1. CASE <<w, j, "clauses">> \in index
    BY <2>1 DEF IInv, Sound, Indexed
  <2>2. CASE w \in WordsOf[row.text] /\ j = k /\ "clauses" = t
    BY <2>2
  <2> QED BY <1>1, <1>3, <2>1, <2>2
<1> QED BY <1>2, <1>3

(* The flags of clauses keep up with them.                                  *)
LEMMA InsertedFlags ==
  ASSUME IInv, session, NEW t \in Tables, NEW k \in Keys, NEW row \in Row,
         Inserted(t, k, row), UNCHANGED freed
  PROVE  HaveFlags(rows', flag', freed')
<1>1. HaveFlags(rows, flag, freed)
  BY DEF IInv, Sound
<1>2. CASE t = "facts"
  <2>1. /\ LiveIn(rows', "clauses") = LiveIn(rows, "clauses")
        /\ \A c \in Keys : flag'["clauses"][c] = flag["clauses"][c]
    BY <1>2, InsertedTables, InsertedLive
  <2>2. \A c \in LiveIn(rows, "clauses") : c \in Keys /\ rows'["clauses"][c] = rows["clauses"][c]
    BY InsertedRest DEF LiveIn
  <2> QED BY <1>1, <2>1, <2>2 DEF HaveFlags
<1>3. CASE t = "clauses"
  <2>1. ASSUME NEW c \in Keys, flag'["clauses"][c] # None
        PROVE  c \in LiveIn(rows', "clauses") \/ c \in freed'["clauses"]
    BY <1>1, <1>3, <2>1, InsertedTables, InsertedLive DEF HaveFlags
  <2>2. ASSUME NEW c \in LiveIn(rows', "clauses")
        PROVE  /\ flag'["clauses"][c] # None
               /\ c \notin freed'["clauses"] =>
                    flag'["clauses"][c] = FlagOf[rows'["clauses"][c].text]
    <3>1. CASE c = k
      <4>1. /\ rows'["clauses"][k] = row /\ FlagOf[row.text] # None
            /\ flag'["clauses"][k] =
                 (IF flag["clauses"][k] # None THEN flag["clauses"][k] ELSE FlagOf[row.text])
            /\ k \notin LiveIn(rows, "clauses")
        BY <1>3, InsertedTables, InsertedLive
      <4>2. flag["clauses"][k] # None => k \in freed["clauses"]
        BY <1>1, <4>1 DEF HaveFlags
      <4>3. freed' = freed
        OBVIOUS
      <4>4. flag'["clauses"][k] # None
        BY ONLY <4>1
      <4>5. ASSUME k \notin freed'["clauses"]
            PROVE  flag'["clauses"][k] = FlagOf[rows'["clauses"][k].text]
        <5>1. flag["clauses"][k] = None
          BY ONLY <4>2, <4>3, <4>5
        <5>2. flag'["clauses"][k] = FlagOf[row.text]
          BY ONLY <5>1, <4>1
        <5>3. rows'["clauses"][k].text = row.text
          BY ONLY <4>1
        <5> QED BY ONLY <5>2, <5>3
      <4> QED BY ONLY <3>1, <4>4, <4>5
    <3>2. CASE c # k
      <4>1. /\ c \in Keys /\ c \in LiveIn(rows, "clauses")
            /\ flag'["clauses"][c] = flag["clauses"][c]
            /\ rows'["clauses"][c] = rows["clauses"][c]
        BY <1>3, <2>2, <3>2, InsertedTables, InsertedLive DEF LiveIn
      <4>2. /\ flag["clauses"][c] # None
            /\ c \notin freed["clauses"] => flag["clauses"][c] = FlagOf[rows["clauses"][c].text]
        BY <1>1, <4>1 DEF HaveFlags
      <4>3. freed' = freed
        OBVIOUS
      <4> QED BY ONLY <4>1, <4>2, <4>3
    <3> QED BY <3>1, <3>2
  <2> QED BY <2>1, <2>2 DEF HaveFlags
<1> QED BY <1>2, <1>3

-----------------------------------------------------------------------------
(* A fact is added.                                                         *)

LEMMA FactRowMade ==
  ASSUME NEW f \in Facts, NEW s \in Says[f]
  PROVE  [text |-> f, says |-> s, rel |-> 0, of |-> f] \in Row
<1>1. f \in Texts /\ 0 \in 0..MaxKey
  BY DEF Texts
<1>2. s \in UNION {Says[x] : x \in Texts}
  BY <1>1, Zenon
<1> QED BY <1>1, <1>2, Zenon DEF Row

LEMMA FactInserted ==
  ASSUME IInv, session, todo = Done, NEW f \in Facts, NEW s \in Says[f], NEW k \in Keys,
         Inserted("facts", k, [text |-> f, says |-> s, rel |-> 0, of |-> f]),
         todo' = (IF ClausesOf[f] = <<>> THEN Done
                  ELSE [fact |-> f, rel |-> k, clauses |-> ClausesOf[f]]),
         UNCHANGED <<freed, deleted, given>>
  PROVE  Sound(rows', flag', index', freed', deleted', given', todo')
<1> DEFINE row == [text |-> f, says |-> s, rel |-> 0, of |-> f]
<1>1. row \in Row
  BY FactRowMade
<1>2. /\ rows'["facts"][k] = row
      /\ LiveIn(rows', "facts") = LiveIn(rows, "facts") \union {k}
      /\ LiveIn(rows', "clauses") = LiveIn(rows, "clauses")
      /\ k \notin LiveIn(rows, "facts")
      /\ \A c \in LiveIn(rows, "facts") : rows'["facts"][c] = rows["facts"][c]
      /\ \A c \in LiveIn(rows, "clauses") : rows'["clauses"][c] = rows["clauses"][c]
  BY <1>1, InsertedTables, InsertedLive, InsertedRest
<1>3. Typed(rows', flag', index', freed', deleted', given')
  BY <1>1, InsertedTables DEF IInv, Sound, Typed
<1>4. FactRows(rows')
  <2>1. FactRows(rows)
    BY DEF IInv, Sound
  <2>2. ASSUME NEW i \in LiveIn(rows', "facts")
        PROVE  rows'["facts"][i].text \in Facts /\ rows'["facts"][i].of = rows'["facts"][i].text
    <3>1. row.text = f /\ row.of = f
      OBVIOUS
    <3> HIDE DEF row
    <3>2. CASE i = k
      BY <1>2, <3>1, <3>2
    <3>3. CASE i # k
      BY <1>2, <2>1, <3>3 DEF FactRows
    <3> QED BY <3>2, <3>3
  <2> QED BY <2>2 DEF FactRows
<1>5. HaveFact(rows', deleted') /\ Saying(rows')
  BY <1>2 DEF IInv, Sound, HaveFact, Saying
<1>6. HaveFlags(rows', flag', freed')
  BY <1>1, InsertedFlags
<1>7. Indexed(rows', index', freed', deleted', given')
  BY <1>1, InsertedIndex
<1>8. ClausesOf[f] \in Seq(Clauses)
  OBVIOUS
<1>9. Pending(rows', todo')
  <2>1. CASE ClausesOf[f] = <<>>
    BY <2>1 DEF Pending
  <2>2. CASE ClausesOf[f] # <<>>
    <3>1. todo' = [fact |-> f, rel |-> k, clauses |-> ClausesOf[f]]
      BY <2>2
    <3>2. Len(ClausesOf[f]) \in 1..Len(ClausesOf[f])
      BY <1>8, <2>2
    <3>3. todo'.rel \in LiveIn(rows', "facts") /\ rows'["facts"][todo'.rel].text = todo'.fact
      BY <1>2, <3>1
    <3>4. \A i \in 1..Len(ClausesOf[f]) :
            Len(ClausesOf[f]) - Len(ClausesOf[f]) + i = i
      BY <1>8
    <3>5. todo' \in [fact : Facts, rel : Keys, clauses : Seq(Clauses)]
      BY <1>8, <3>1
    <3>6. \A i \in 1..Len(todo'.clauses) :
            todo'.clauses[i] =
              ClausesOf[todo'.fact][Len(ClausesOf[todo'.fact]) - Len(todo'.clauses) + i]
      <4>1. todo'.clauses = ClausesOf[f] /\ todo'.fact = f
        BY <3>1
      <4>2. \A i \in 1..Len(ClausesOf[f]) :
              ClausesOf[f][i] = ClausesOf[f][Len(ClausesOf[f]) - Len(ClausesOf[f]) + i]
        BY <3>4, Zenon
      <4> QED BY <4>1, <4>2, Zenon
    <3>7. Len(todo'.clauses) \in 1..Len(ClausesOf[todo'.fact])
      BY <3>1, <3>2
    <3> QED BY <3>3, <3>5, <3>6, <3>7 DEF Pending
  <2> QED BY <2>1, <2>2
<1>10. \A i \in LiveIn(rows, "facts") : For(rows', i) = For(rows, i)
  BY <1>2 DEF For
<1>11. k \notin deleted => For(rows', k) = {}
  BY <1>2 DEF IInv, Sound, HaveFact, For
<1>12. Own(rows', deleted', todo')
  <2> SUFFICES ASSUME NEW i \in LiveIn(rows', "facts") \ deleted
               PROVE  /\ Cardinality(For(rows', i)) + Missing(todo', i) =
                            Len(ClausesOf[rows'["facts"][i].text])
                      /\ \A c \in For(rows', i) :
                           rows'["clauses"][c].text =
                             ClausesOf[rows'["facts"][i].text][Rank(rows', i, c)]
    BY DEF Own
  <2>1. CASE i = k
    <3>1. For(rows', i) = {} /\ Cardinality({}) = 0
      BY <1>11, <2>1, FS_EmptySet
    <3>2. Missing(todo', i) = Len(ClausesOf[f])
      BY <1>8, <2>1 DEF Missing, Done, Keys
    <3>3. Len(ClausesOf[f]) \in Nat
      BY <1>8
    <3>4. rows'["facts"][i].text = f
      BY <1>2, <2>1
    <3> QED BY <3>1, <3>2, <3>3, <3>4
  <2>2. CASE i # k
    <3>1. i \in LiveIn(rows, "facts") /\ i \in Keys
      BY <1>2, <2>2 DEF LiveIn
    <3>2. Missing(todo', i) = Missing(todo, i)
      BY <2>2, <3>1 DEF Missing, Done, Keys
    <3>3. /\ For(rows', i) = For(rows, i)
          /\ rows'["facts"][i] = rows["facts"][i]
          /\ \A c \in For(rows, i) : /\ Rank(rows', i, c) = Rank(rows, i, c)
                                     /\ rows'["clauses"][c] = rows["clauses"][c]
      BY <1>2, <1>10, <3>1 DEF Rank, For
    <3>4. /\ Cardinality(For(rows, i)) + Missing(todo, i) =
               Len(ClausesOf[rows["facts"][i].text])
          /\ \A c \in For(rows, i) :
               rows["clauses"][c].text = ClausesOf[rows["facts"][i].text][Rank(rows, i, c)]
      BY <3>1 DEF IInv, Sound, Own
    <3>5. \A c \in For(rows', i) :
            rows'["clauses"][c].text = ClausesOf[rows'["facts"][i].text][Rank(rows', i, c)]
      BY <3>3, <3>4
    <3> QED BY <3>2, <3>3, <3>4, <3>5
  <2> QED BY <2>1, <2>2
<1> QED BY <1>3, <1>4, <1>5, <1>6, <1>7, <1>9, <1>12 DEF Sound

-----------------------------------------------------------------------------
(* A clause of it is added.                                                 *)

(* The clauses still to be added when one more has been.                    *)
LEMMA TailPending ==
  ASSUME NEW cs \in Seq(Clauses), NEW tc \in Seq(Clauses),
         Len(tc) \in 1..Len(cs), Len(tc) # 1,
         \A i \in 1..Len(tc) : tc[i] = cs[Len(cs) - Len(tc) + i]
  PROVE  /\ Tail(tc) \in Seq(Clauses) /\ Len(Tail(tc)) \in 1..Len(cs)
         /\ Len(Tail(tc)) = Len(tc) - 1
         /\ \A i \in 1..Len(Tail(tc)) : Tail(tc)[i] = cs[Len(cs) - Len(Tail(tc)) + i]
<1>1. tc # <<>> /\ Len(tc) \in Nat /\ Len(cs) \in Nat
  OBVIOUS
<1>2. Tail(tc) \in Seq(Clauses) /\ Len(Tail(tc)) = Len(tc) - 1
  BY <1>1
<1>3. ASSUME NEW i \in 1..Len(Tail(tc))
      PROVE  Tail(tc)[i] = cs[Len(cs) - Len(Tail(tc)) + i]
  <2>1. Tail(tc)[i] = tc[i + 1] /\ i + 1 \in 1..Len(tc)
    BY <1>1, <1>2
  <2>2. Len(cs) - Len(tc) + (i + 1) = Len(cs) - Len(Tail(tc)) + i
    BY <1>1, <1>2
  <2>3. tc[i + 1] = cs[Len(cs) - Len(tc) + (i + 1)]
    BY <2>1
  <2> QED BY <2>1, <2>2, <2>3
<1>4. Len(Tail(tc)) \in 1..Len(cs)
  BY <1>1, <1>2
<1> QED BY <1>2, <1>3, <1>4, Zenon

(* A record of what is still to be added.                                   *)
LEMMA TodoRecord ==
  ASSUME NEW td, NEW f \in Facts, NEW r \in Keys, NEW c \in Seq(Clauses),
         td = [fact |-> f, rel |-> r, clauses |-> c]
  PROVE  /\ td.fact = f /\ td.rel = r /\ td.clauses = c
         /\ td \in [fact : Facts, rel : Keys, clauses : Seq(Clauses)]
OBVIOUS

LEMMA ClauseRowMade ==
  ASSUME NEW y \in Clauses, NEW s \in Says[y], NEW k \in Keys, NEW f \in Facts
  PROVE  [text |-> y, says |-> s, rel |-> k, of |-> f] \in Row
<1>1. y \in Texts /\ k \in 0..MaxKey
  BY DEF Texts, Keys
<1>2. s \in UNION {Says[x] : x \in Texts}
  BY <1>1, Zenon
<1> QED BY <1>1, <1>2, Zenon DEF Row

LEMMA ClauseInserted ==
  ASSUME IInv, session, todo # Done, NEW k \in Keys, NEW s \in Says[Head(todo.clauses)],
         Inserted("clauses", k,
           [text |-> Head(todo.clauses), says |-> s, rel |-> todo.rel, of |-> todo.fact]),
         given' = given \union {<<k, Head(todo.clauses)>>},
         todo' = (IF Len(todo.clauses) = 1 THEN Done
                  ELSE [todo EXCEPT !.clauses = Tail(@)]),
         UNCHANGED <<freed, deleted>>
  PROVE  Sound(rows', flag', index', freed', deleted', given', todo')
<1> DEFINE tc == todo.clauses
           cs == ClausesOf[todo.fact]
           row == [text |-> Head(tc), says |-> s, rel |-> todo.rel, of |-> todo.fact]
<1>1. /\ todo \in [fact : Facts, rel : Keys, clauses : Seq(Clauses)]
      /\ todo.rel \in LiveIn(rows, "facts") /\ rows["facts"][todo.rel].text = todo.fact
      /\ Len(tc) \in 1..Len(cs)
      /\ \A i \in 1..Len(tc) : tc[i] = cs[Len(cs) - Len(tc) + i]
  BY DEF IInv, Sound, Pending
<1>2. /\ tc \in Seq(Clauses) /\ cs \in Seq(Clauses) /\ todo.fact \in Facts /\ todo.rel \in Keys
      /\ Len(tc) \in Nat /\ Len(cs) \in Nat
  BY <1>1
<1>3. tc # <<>> /\ Head(tc) = tc[1] /\ Head(tc) \in Clauses
  BY <1>1, <1>2
<1>4. row \in Row
  BY <1>2, <1>3, ClauseRowMade
<1>5. /\ rows'["clauses"][k] = row
      /\ LiveIn(rows', "clauses") = LiveIn(rows, "clauses") \union {k}
      /\ LiveIn(rows', "facts") = LiveIn(rows, "facts")
      /\ k \notin LiveIn(rows, "clauses")
      /\ \A c \in LiveIn(rows, "clauses") : c < k
      /\ \A c \in LiveIn(rows, "facts") : rows'["facts"][c] = rows["facts"][c]
      /\ \A c \in LiveIn(rows, "clauses") : rows'["clauses"][c] = rows["clauses"][c]
  BY <1>4, InsertedTables, InsertedLive, InsertedRest
<1>6. Typed(rows', flag', index', freed', deleted', given')
  <2>1. given' \subseteq Keys \X Clauses
    BY <1>3 DEF IInv, Sound, Typed
  <2> QED BY <1>4, <2>1, InsertedTables DEF IInv, Sound, Typed
<1>7. FactRows(rows') /\ Saying(rows')
  <2>1. FactRows(rows')
    BY <1>5 DEF IInv, Sound, FactRows
  <2>2. ASSUME NEW c \in LiveIn(rows', "clauses")
        PROVE  rows'["clauses"][c].says \in Says[rows'["clauses"][c].text]
    <3>1. CASE c = k
      <4>1. row.says = s /\ row.text = Head(tc)
        OBVIOUS
      <4> QED BY <1>5, <3>1, <4>1
    <3>2. CASE c # k
      BY <1>5, <3>2 DEF IInv, Sound, Saying
    <3> QED BY <3>1, <3>2
  <2> QED BY <2>1, <2>2 DEF Saying
<1>8. HaveFact(rows', deleted')
  <2>1. HaveFact(rows, deleted)
    BY DEF IInv, Sound
  <2>2. ASSUME NEW c \in LiveIn(rows', "clauses")
        PROVE  \/ rows'["clauses"][c].rel \in deleted'
               \/ /\ rows'["clauses"][c].rel \in LiveIn(rows', "facts")
                  /\ rows'["facts"][rows'["clauses"][c].rel].text = rows'["clauses"][c].of
    <3>1. CASE c = k
      BY <1>1, <1>5, <3>1
    <3>2. CASE c # k
      BY <1>5, <2>1, <3>2 DEF HaveFact
    <3> QED BY <3>1, <3>2
  <2> QED BY <2>2 DEF HaveFact
<1>9. HaveFlags(rows', flag', freed')
  BY <1>4, InsertedFlags
<1>10. Indexed(rows', index', freed', deleted', given')
  BY <1>3, <1>4, InsertedIndex
<1>11. /\ \A i \in Keys \ {todo.rel} : For(rows', i) = For(rows, i)
       /\ For(rows', todo.rel) = For(rows, todo.rel) \union {k}
  BY <1>5 DEF For
<1>12. For(rows, todo.rel) \in SUBSET Keys /\ \A j \in For(rows, todo.rel) : j < k
  BY <1>5 DEF For, LiveIn
<1>13. \A i \in Keys : Missing(todo', i) = IF i = todo.rel THEN Len(tc) - 1 ELSE 0
  <2>1. CASE Len(tc) = 1
    BY <2>1 DEF Missing, Done, Keys
  <2>2. CASE Len(tc) # 1
    <3>1. todo'.rel = todo.rel /\ todo'.clauses = Tail(tc)
      BY <1>1, <2>2
    <3>2. Len(Tail(tc)) = Len(tc) - 1
      BY <1>1, <1>2, <2>2, TailPending
    <3>3. Len(todo'.clauses) = Len(tc) - 1
      BY <3>1, <3>2, Zenon
    <3> HIDE DEF tc
    <3> QED BY <3>1, <3>3, Zenon DEF Missing
  <2> QED BY <2>1, <2>2
<1>14. Pending(rows', todo')
  <2>1. CASE Len(tc) = 1
    BY <2>1 DEF Pending
  <2>2. CASE Len(tc) # 1
    <3>1. todo' = [fact |-> todo.fact, rel |-> todo.rel, clauses |-> Tail(tc)]
      BY <1>1, <2>2
    <3>2. /\ Tail(tc) \in Seq(Clauses) /\ Len(Tail(tc)) \in 1..Len(cs)
          /\ \A i \in 1..Len(Tail(tc)) : Tail(tc)[i] = cs[Len(cs) - Len(Tail(tc)) + i]
      BY <1>1, <1>2, <2>2, TailPending
    <3>3. /\ todo'.fact = todo.fact /\ todo'.rel = todo.rel /\ todo'.clauses = Tail(tc)
          /\ todo' \in [fact : Facts, rel : Keys, clauses : Seq(Clauses)]
      <4>1. todo.fact \in Facts /\ todo.rel \in Keys
        BY <1>2
      <4>2. Tail(tc) \in Seq(Clauses)
        BY <3>2
      <4> HIDE DEF tc
      <4> QED BY <3>1, <4>1, <4>2, TodoRecord
    <3>4. todo.rel \in LiveIn(rows', "facts") /\ rows'["facts"][todo.rel].text = todo.fact
      BY <1>1, <1>5
    <3>5. /\ todo'.rel \in LiveIn(rows', "facts")
          /\ rows'["facts"][todo'.rel].text = todo'.fact
          /\ Len(todo'.clauses) \in 1..Len(ClausesOf[todo'.fact])
          /\ \A i \in 1..Len(todo'.clauses) :
               todo'.clauses[i] =
                 ClausesOf[todo'.fact][Len(ClausesOf[todo'.fact]) - Len(todo'.clauses) + i]
      BY <3>2, <3>3, <3>4, Zenon
    <3> QED BY <3>3, <3>5, Zenon DEF Pending
  <2> QED BY <2>1, <2>2
<1> HIDE DEF row, tc, cs
<1>15. Own(rows', deleted', todo')
  <2> SUFFICES ASSUME NEW i \in LiveIn(rows', "facts") \ deleted
               PROVE  /\ Cardinality(For(rows', i)) + Missing(todo', i) =
                            Len(ClausesOf[rows'["facts"][i].text])
                      /\ \A c \in For(rows', i) :
                           rows'["clauses"][c].text =
                             ClausesOf[rows'["facts"][i].text][Rank(rows', i, c)]
    BY DEF Own
  <2>1. i \in Keys /\ i \in LiveIn(rows, "facts") /\ rows'["facts"][i] = rows["facts"][i]
    BY <1>5 DEF LiveIn
  <2>2. /\ Cardinality(For(rows, i)) + Missing(todo, i) = Len(ClausesOf[rows["facts"][i].text])
        /\ \A c \in For(rows, i) :
             rows["clauses"][c].text = ClausesOf[rows["facts"][i].text][Rank(rows, i, c)]
    BY <2>1 DEF IInv, Sound, Own
  <2>3. \A c \in For(rows, i) : rows'["clauses"][c] = rows["clauses"][c]
    BY <1>5 DEF For
  <2>4. CASE i # todo.rel
    <3>1. For(rows', i) = For(rows, i) /\ Missing(todo', i) = Missing(todo, i)
      BY <1>11, <1>13, <2>1, <2>4 DEF Missing
    <3>2. \A c \in For(rows, i) : Rank(rows', i, c) = Rank(rows, i, c)
      BY <3>1 DEF Rank
    <3> QED BY <2>1, <2>2, <2>3, <3>1, <3>2
  <2>5. CASE i = todo.rel
    <3>1. /\ For(rows', i) = For(rows, i) \union {k} /\ Missing(todo', i) = Len(tc) - 1
          /\ Missing(todo, i) = Len(tc)
      BY <1>11, <1>13, <2>1, <2>5 DEF Missing, tc
    <3>2. /\ Cardinality(For(rows, i)) \in Nat
          /\ Cardinality(For(rows', i)) = Cardinality(For(rows, i)) + 1
          /\ {j \in For(rows', i) : j <= k} = For(rows', i)
          /\ \A e \in For(rows, i) :
               {j \in For(rows', i) : j <= e} = {j \in For(rows, i) : j <= e}
      <4>1. For(rows, i) \in SUBSET Keys /\ \A j \in For(rows, i) : j < k
        BY <1>12, <2>5
      <4>2. LET S == For(rows, i) IN
            /\ Cardinality(S) \in Nat
            /\ Cardinality(S \union {k}) = Cardinality(S) + 1
            /\ {j \in S \union {k} : j <= k} = S \union {k}
            /\ \A e \in S : {j \in S \union {k} : j <= e} = {j \in S : j <= e}
        BY <4>1, AddLast, Zenon
      <4> QED BY <3>1, <4>2, Zenon
    <3>3. ClausesOf[rows'["facts"][i].text] = cs /\ ClausesOf[rows["facts"][i].text] = cs
      BY <1>1, <2>1, <2>5 DEF cs
    <3>4. Cardinality(For(rows', i)) + Missing(todo', i) = Len(cs)
      BY <1>2, <2>2, <3>1, <3>2, <3>3
    <3>5. ASSUME NEW c \in For(rows', i)
          PROVE  rows'["clauses"][c].text = cs[Rank(rows', i, c)]
      <4>1. CASE c = k
        <5>1. Rank(rows', i, c) = Cardinality(For(rows, i)) + 1
          BY <3>2, <4>1 DEF Rank
        <5>2. Len(cs) - Len(tc) + 1 = Cardinality(For(rows, i)) + 1
          BY <1>2, <2>2, <3>1, <3>2, <3>3
        <5>3. 1 \in 1..Len(tc)
          BY <1>1, <1>2
        <5>4. tc[1] = cs[Len(cs) - Len(tc) + 1]
          BY <1>1, <5>3
        <5>5. rows'["clauses"][c].text = tc[1]
          BY <1>3, <1>5, <4>1 DEF row, tc
        <5> QED BY <5>1, <5>2, <5>4, <5>5
      <4>2. CASE c # k
        <5>1. c \in For(rows, i)
          BY <3>1, <4>2
        <5>2. Rank(rows', i, c) = Rank(rows, i, c)
          BY <3>2, <5>1 DEF Rank
        <5> QED BY <2>2, <2>3, <3>3, <5>1, <5>2
      <4> QED BY <4>1, <4>2
    <3> QED BY <3>3, <3>4, <3>5
  <2> QED BY <2>4, <2>5
<1> QED BY <1>6, <1>7, <1>8, <1>9, <1>10, <1>14, <1>15 DEF Sound
-----------------------------------------------------------------------------
(* Deletion.                                                                *)

(* A fact is deleted by key: its clauses have a deleted key.                *)
LEMMA RecordDeleted ==
  ASSUME IInv, NEW k \in Keys, DelRecord(k)
  PROVE  Sound(rows', flag', index', freed', deleted', given', todo')
<1>1. /\ session /\ todo = Done
      /\ rows' = [rows EXCEPT !["facts"][k] = None]
      /\ deleted' = deleted \union {k}
      /\ flag' = flag /\ index' = index /\ freed' = freed /\ given' = given /\ todo' = todo
  BY DEF DelRecord
<1>2. /\ Typed(rows, flag, index, freed, deleted, given) /\ FactRows(rows) /\ Saying(rows)
      /\ HaveFact(rows, deleted) /\ HaveFlags(rows, flag, freed)
      /\ Indexed(rows, index, freed, deleted, given)
      /\ Own(rows, deleted, todo)
  BY DEF IInv, Sound
<1>3. /\ rows' \in [Tables -> [Keys -> Row \union {None}]]
      /\ rows'["clauses"] = rows["clauses"]
      /\ rows'["facts"][k] = None
      /\ \A j \in Keys \ {k} : rows'["facts"][j] = rows["facts"][j]
  BY <1>1, <1>2 DEF Typed
<1>4. /\ LiveIn(rows', "facts") = LiveIn(rows, "facts") \ {k}
      /\ LiveIn(rows', "clauses") = LiveIn(rows, "clauses")
      /\ \A j \in LiveIn(rows', "facts") : rows'["facts"][j] = rows["facts"][j]
  BY <1>3 DEF LiveIn
<1>5. Typed(rows', flag', index', freed', deleted', given')
  BY <1>1, <1>2, <1>3 DEF Typed
<1>6. FactRows(rows') /\ Saying(rows')
  BY <1>2, <1>3, <1>4 DEF FactRows, Saying
<1>7. HaveFact(rows', deleted')
  <2> SUFFICES ASSUME NEW c \in LiveIn(rows', "clauses"),
                      rows'["clauses"][c].rel \notin deleted'
               PROVE  /\ rows'["clauses"][c].rel \in LiveIn(rows', "facts")
                      /\ rows'["facts"][rows'["clauses"][c].rel].text = rows'["clauses"][c].of
    BY DEF HaveFact
  <2>1. /\ c \in LiveIn(rows, "clauses") /\ rows'["clauses"][c] = rows["clauses"][c]
        /\ rows["clauses"][c].rel \notin deleted /\ rows["clauses"][c].rel # k
    BY <1>1, <1>3, <1>4
  <2>2. /\ rows["clauses"][c].rel \in LiveIn(rows, "facts")
        /\ rows["facts"][rows["clauses"][c].rel].text = rows["clauses"][c].of
    BY <1>2, <2>1 DEF HaveFact
  <2>3. rows["clauses"][c].rel \in LiveIn(rows', "facts")
    BY <1>4, <2>1, <2>2
  <2>4. rows'["facts"][rows["clauses"][c].rel] = rows["facts"][rows["clauses"][c].rel]
    BY <1>4, <2>3
  <2> QED BY <2>1, <2>2, <2>3, <2>4, Zenon
<1>8. HaveFlags(rows', flag', freed')
  BY <1>1, <1>2, <1>3, <1>4 DEF HaveFlags
<1>9. Indexed(rows', index', freed', deleted', given')
  <2> SUFFICES ASSUME NEW w \in Words, NEW j \in Keys
               PROVE  /\ <<w, j, "facts">> \in index =>
                           \/ j \in LiveIn(rows', "facts") /\ w \in WordsOf[rows'["facts"][j].text]
                           \/ j \in deleted' \union freed["facts"]
                      /\ <<w, j, "clauses">> \in index =>
                           \E y \in Clauses : <<j, y>> \in given /\ w \in WordsOf[y]
    BY <1>1 DEF Indexed
  <2>1. /\ <<w, j, "facts">> \in index =>
             \/ j \in LiveIn(rows, "facts") /\ w \in WordsOf[rows["facts"][j].text]
             \/ j \in deleted \union freed["facts"]
        /\ <<w, j, "clauses">> \in index =>
             \E y \in Clauses : <<j, y>> \in given /\ w \in WordsOf[y]
    BY <1>2 DEF Indexed
  <2>2. CASE j = k
    BY <1>1, <2>1, <2>2
  <2>3. CASE j # k
    BY <1>1, <1>4, <2>1, <2>3
  <2> QED BY <2>2, <2>3
<1>10. \A i : For(rows', i) = For(rows, i)
  BY <1>3, <1>4 DEF For
<1>11. Own(rows', deleted', todo')
  <2> SUFFICES ASSUME NEW i \in LiveIn(rows', "facts") \ deleted'
               PROVE  /\ Cardinality(For(rows', i)) + Missing(todo', i) =
                            Len(ClausesOf[rows'["facts"][i].text])
                      /\ \A c \in For(rows', i) :
                           rows'["clauses"][c].text =
                             ClausesOf[rows'["facts"][i].text][Rank(rows', i, c)]
    BY DEF Own
  <2>1. i \in LiveIn(rows, "facts") \ deleted /\ rows'["facts"][i] = rows["facts"][i]
    BY <1>1, <1>4
  <2>2. /\ Cardinality(For(rows, i)) + Missing(todo, i) = Len(ClausesOf[rows["facts"][i].text])
        /\ \A c \in For(rows, i) :
             rows["clauses"][c].text = ClausesOf[rows["facts"][i].text][Rank(rows, i, c)]
    BY <1>2, <2>1 DEF Own
  <2>3. For(rows', i) = For(rows, i) /\ \A c : Rank(rows', i, c) = Rank(rows, i, c)
    BY <1>10 DEF Rank
  <2> QED BY <1>1, <1>3, <2>1, <2>2, <2>3, Zenon
<1>12. Pending(rows', todo')
  BY <1>1 DEF Pending
<1> QED BY <1>5, <1>6, <1>7, <1>8, <1>9, <1>11, <1>12 DEF Sound
(* A file's facts are deleted: of a fact that no one deleted by key, both   *)
(* it and its clauses go, or all of them stay.                              *)
LEMMA FileDeleted ==
  ASSUME IInv, NEW file, DeleteEverythingFrom(file)
  PROVE  Sound(rows', flag', index', freed', deleted', given', todo')
<1>1. /\ session /\ todo = Done
      /\ rows' = [t \in Tables |->
           [k \in Keys |-> IF k \in OfFile(t, file) THEN None ELSE rows[t][k]]]
      /\ freed' = [t \in Tables |-> freed[t] \union OfFile(t, file)]
      /\ flag' = flag /\ index' = index /\ deleted' = deleted /\ given' = given /\ todo' = todo
  BY DEF DeleteEverythingFrom
<1>2. /\ Typed(rows, flag, index, freed, deleted, given) /\ FactRows(rows) /\ Saying(rows)
      /\ HaveFact(rows, deleted) /\ HaveFlags(rows, flag, freed)
      /\ Indexed(rows, index, freed, deleted, given)
      /\ Own(rows, deleted, todo)
  BY DEF IInv, Sound
<1>3. \A t \in Tables : OfFile(t, file) \subseteq Keys
  BY DEF OfFile, Live
<1>4. \A t \in Tables, j \in Keys :
        rows'[t][j] = IF j \in OfFile(t, file) THEN None ELSE rows[t][j]
  BY <1>1
<1>5. rows' \in [Tables -> [Keys -> Row \union {None}]]
  <2>1. rows \in [Tables -> [Keys -> Row \union {None}]]
    BY <1>2 DEF Typed
  <2> QED BY <1>1, <2>1
<1>6. ASSUME NEW t \in Tables
      PROVE  /\ LiveIn(rows', t) = LiveIn(rows, t) \ OfFile(t, file)
             /\ \A j \in LiveIn(rows', t) : rows'[t][j] = rows[t][j]
             /\ freed'[t] = freed[t] \union OfFile(t, file)
  <2>1. freed'[t] = freed[t] \union OfFile(t, file)
    BY <1>1
  <2>2. LiveIn(rows', t) = LiveIn(rows, t) \ OfFile(t, file)
    BY <1>4 DEF LiveIn
  <2>3. ASSUME NEW j \in LiveIn(rows', t) PROVE rows'[t][j] = rows[t][j]
    BY <1>4, <2>2 DEF LiveIn
  <2> QED BY <2>1, <2>2, <2>3
<1>7. Typed(rows', flag', index', freed', deleted', given')
  <2>1. freed' \in [Tables -> SUBSET Keys]
    BY <1>1, <1>2, <1>3 DEF Typed
  <2> QED BY <1>1, <1>2, <1>5, <2>1 DEF Typed
<1>8. FactRows(rows') /\ Saying(rows')
  BY <1>2, <1>6 DEF FactRows, Saying
(* A clause and its fact are of one file.                                   *)
<1>9. ASSUME NEW c \in LiveIn(rows, "clauses"), rows["clauses"][c].rel \notin deleted
      PROVE  /\ rows["clauses"][c].rel \in LiveIn(rows, "facts")
             /\ rows["facts"][rows["clauses"][c].rel].text = rows["clauses"][c].of
             /\ c \in OfFile("clauses", file) <=>
                  rows["clauses"][c].rel \in OfFile("facts", file)
  <2>1. /\ rows["clauses"][c].rel \in LiveIn(rows, "facts")
        /\ rows["facts"][rows["clauses"][c].rel].text = rows["clauses"][c].of
    BY <1>2, <1>9 DEF HaveFact
  <2>2. rows["facts"][rows["clauses"][c].rel].of = rows["clauses"][c].of
    BY <1>2, <2>1 DEF FactRows
  <2> QED BY <2>1, <2>2 DEF OfFile, Live, LiveIn
<1>10. HaveFact(rows', deleted')
  <2> SUFFICES ASSUME NEW c \in LiveIn(rows', "clauses"),
                      rows'["clauses"][c].rel \notin deleted
               PROVE  /\ rows'["clauses"][c].rel \in LiveIn(rows', "facts")
                      /\ rows'["facts"][rows'["clauses"][c].rel].text = rows'["clauses"][c].of
    BY <1>1 DEF HaveFact
  <2>1. /\ c \in LiveIn(rows, "clauses") /\ c \notin OfFile("clauses", file)
        /\ rows'["clauses"][c] = rows["clauses"][c]
    BY <1>6
  <2>2. /\ rows["clauses"][c].rel \in LiveIn(rows', "facts")
        /\ rows["facts"][rows["clauses"][c].rel].text = rows["clauses"][c].of
    BY <1>6, <1>9, <2>1
  <2>3. rows'["facts"][rows["clauses"][c].rel] = rows["facts"][rows["clauses"][c].rel]
    BY <1>6, <2>2
  <2> QED BY <2>1, <2>2, <2>3, Zenon
<1>11. HaveFlags(rows', flag', freed')
  <2>1. ASSUME NEW c \in Keys, flag["clauses"][c] # None
        PROVE  c \in LiveIn(rows', "clauses") \/ c \in freed'["clauses"]
    <3>1. c \in LiveIn(rows, "clauses") \/ c \in freed["clauses"]
      BY <1>2, <2>1 DEF HaveFlags
    <3> QED BY <1>6, <3>1
  <2>2. ASSUME NEW c \in LiveIn(rows', "clauses")
        PROVE  /\ flag["clauses"][c] # None
               /\ c \notin freed'["clauses"] =>
                    flag["clauses"][c] = FlagOf[rows'["clauses"][c].text]
    <3>1. /\ c \in LiveIn(rows, "clauses") /\ rows'["clauses"][c] = rows["clauses"][c]
          /\ c \notin freed'["clauses"] => c \notin freed["clauses"]
      BY <1>6
    <3> QED BY <1>2, <3>1 DEF HaveFlags
  <2> QED BY <1>1, <2>1, <2>2 DEF HaveFlags
<1>12. Indexed(rows', index', freed', deleted', given')
  <2> SUFFICES ASSUME NEW w \in Words, NEW j \in Keys
               PROVE  /\ <<w, j, "facts">> \in index =>
                           \/ j \in LiveIn(rows', "facts") /\ w \in WordsOf[rows'["facts"][j].text]
                           \/ j \in deleted \union freed'["facts"]
                      /\ <<w, j, "clauses">> \in index =>
                           \E y \in Clauses : <<j, y>> \in given /\ w \in WordsOf[y]
    BY <1>1 DEF Indexed
  <2>1. /\ <<w, j, "facts">> \in index =>
             \/ j \in LiveIn(rows, "facts") /\ w \in WordsOf[rows["facts"][j].text]
             \/ j \in deleted \union freed["facts"]
        /\ <<w, j, "clauses">> \in index =>
             \E y \in Clauses : <<j, y>> \in given /\ w \in WordsOf[y]
    BY <1>2 DEF Indexed
  <2>2. freed'["facts"] = freed["facts"] \union OfFile("facts", file)
    BY <1>6
  <2>3. CASE j \in OfFile("facts", file)
    BY <2>1, <2>2, <2>3
  <2>4. CASE j \notin OfFile("facts", file)
    <3>1. j \in LiveIn(rows, "facts") =>
            j \in LiveIn(rows', "facts") /\ rows'["facts"][j] = rows["facts"][j]
      BY <1>6, <2>4
    <3> QED BY <2>1, <2>2, <3>1
  <2> QED BY <2>3, <2>4
<1>13. Own(rows', deleted', todo')
  <2> SUFFICES ASSUME NEW i \in LiveIn(rows', "facts") \ deleted
               PROVE  /\ Cardinality(For(rows', i)) + Missing(todo', i) =
                            Len(ClausesOf[rows'["facts"][i].text])
                      /\ \A c \in For(rows', i) :
                           rows'["clauses"][c].text =
                             ClausesOf[rows'["facts"][i].text][Rank(rows', i, c)]
    BY <1>1 DEF Own
  <2>1. /\ i \in LiveIn(rows, "facts") \ deleted /\ i \notin OfFile("facts", file)
        /\ rows'["facts"][i] = rows["facts"][i]
    BY <1>6
  <2>2. /\ Cardinality(For(rows, i)) + Missing(todo, i) = Len(ClausesOf[rows["facts"][i].text])
        /\ \A c \in For(rows, i) :
             rows["clauses"][c].text = ClausesOf[rows["facts"][i].text][Rank(rows, i, c)]
    BY <1>2, <2>1 DEF Own
  <2>3. For(rows', i) = For(rows, i)
    <3>1. ASSUME NEW c \in For(rows, i) PROVE c \in For(rows', i)
      BY <1>6, <1>9, <2>1 DEF For
    <3>2. ASSUME NEW c \in For(rows', i) PROVE c \in For(rows, i)
      BY <1>6 DEF For
    <3> QED BY <3>1, <3>2
  <2>4. \A c : Rank(rows', i, c) = Rank(rows, i, c)
    BY <2>3 DEF Rank
  <2>5. \A c \in For(rows, i) : rows'["clauses"][c] = rows["clauses"][c]
    BY <1>6, <2>3 DEF For
  <2> QED BY <1>1, <2>1, <2>2, <2>3, <2>4, <2>5, Zenon
<1>14. Pending(rows', todo')
  BY <1>1 DEF Pending
<1> QED BY <1>7, <1>8, <1>10, <1>11, <1>12, <1>13, <1>14 DEF Sound
-----------------------------------------------------------------------------
(* The invariant is inductive, and implies the properties.                  *)

(* Initially the tables are empty, and committed so.                        *)
LEMMA InitIInv == Init => IInv
<1> SUFFICES ASSUME Init PROVE IInv
  OBVIOUS
<1>1. /\ session = FALSE /\ todo = Done
      /\ last = [t \in Tables |-> Cold]
      /\ rows = [t \in Tables |-> [k \in Keys |-> None]]
      /\ flag = [t \in Tables |-> [k \in Keys |-> None]]
      /\ index = {} /\ freed = [t \in Tables |-> {}] /\ deleted = {} /\ given = {}
      /\ disk = tables
  BY DEF Init
<1>2. \A t \in Tables : LiveIn(rows, t) = {}
  BY <1>1 DEF LiveIn
<1>3. Typed(rows, flag, index, freed, deleted, given)
  BY <1>1 DEF Typed
<1>4. HaveFlags(rows, flag, freed)
  BY <1>1, <1>2 DEF HaveFlags
<1>5. Indexed(rows, index, freed, deleted, given)
  BY <1>1 DEF Indexed
<1>6. Sound(rows, flag, index, freed, deleted, given, Done)
  BY <1>2, <1>3, <1>4, <1>5 DEF Sound, FactRows, Saying, HaveFact, Pending, Own
<1>7. /\ disk = <<rows, flag, index, freed, deleted, given>>
      /\ disk[1] = rows /\ disk[2] = flag /\ disk[3] = index
      /\ disk[4] = freed /\ disk[5] = deleted /\ disk[6] = given
  BY <1>1 DEF tables
<1> QED BY <1>1, <1>6, <1>7 DEF IInv, Cold

(* What is committed is what the tables hold.                               *)
LEMMA Committed ==
  ASSUME Sound(rows, flag, index, freed, deleted, given, Done), disk' = tables
  PROVE  /\ Sound(disk'[1], disk'[2], disk'[3], disk'[4], disk'[5], disk'[6], Done)
         /\ disk' = <<disk'[1], disk'[2], disk'[3], disk'[4], disk'[5], disk'[6]>>
<1>1. /\ disk' = <<rows, flag, index, freed, deleted, given>>
      /\ disk'[1] = rows /\ disk'[2] = flag /\ disk'[3] = index
      /\ disk'[4] = freed /\ disk'[5] = deleted /\ disk'[6] = given
  BY DEF tables
<1> QED BY <1>1

(* A step within a session that changes the tables.                         *)
LEMMA SessionStep ==
  ASSUME IInv, session, UNCHANGED <<session, disk>>,
         last' \in [Tables -> {Cold} \union 0..MaxKey], Numbering',
         Sound(rows', flag', index', freed', deleted', given', todo')
  PROVE  IInv'
<1>1. /\ Sound(disk[1], disk[2], disk[3], disk[4], disk[5], disk[6], Done)
      /\ disk = <<disk[1], disk[2], disk[3], disk[4], disk[5], disk[6]>>
      /\ disk' = disk /\ session' = TRUE
  BY DEF IInv
<1>2. /\ Sound(disk'[1], disk'[2], disk'[3], disk'[4], disk'[5], disk'[6], Done)
      /\ disk' = <<disk'[1], disk'[2], disk'[3], disk'[4], disk'[5], disk'[6]>>
  BY <1>1
<1> QED BY <1>1, <1>2 DEF IInv

(* Fewer rows leave the counters where they are.                            *)
LEMMA FewerRows ==
  ASSUME IInv, session, UNCHANGED last, \A t \in Tables : Live(t)' \subseteq Live(t)
  PROVE  last' \in [Tables -> {Cold} \union 0..MaxKey] /\ Numbering'
<1>1. Numbering /\ last \in [Tables -> {Cold} \union 0..MaxKey]
  BY DEF IInv
<1>2. ASSUME NEW t \in Tables, last'[t] # Cold, NEW j \in Live(t)'
      PROVE  j <= last'[t] + 1
  <2>1. j \in Live(t) /\ last[t] # Cold
    BY <1>2
  <2> QED BY <1>1, <2>1 DEF Numbering
<1> QED BY <1>1, <1>2 DEF Numbering

(* No step breaks it.                                                       *)
LEMMA NextKeepsIInv == IInv /\ [Next]_vars => IInv'
<1> SUFFICES ASSUME IInv, [Next]_vars PROVE IInv'
  OBVIOUS
<1>1. CASE Begin
  <2>1. /\ ~session /\ session' = TRUE
        /\ last' = [t \in Tables |-> Cold]
        /\ todo' = todo /\ tables' = tables /\ disk' = disk
    BY <1>1 DEF Begin
  <2>2. /\ rows' = rows /\ flag' = flag /\ index' = index
        /\ freed' = freed /\ deleted' = deleted /\ given' = given
    BY <2>1 DEF tables
  <2>3. Numbering'
    BY <2>1 DEF Numbering
  <2>4. last' \in [Tables -> {Cold} \union 0..MaxKey]
    BY <2>1
  <2> QED BY <2>1, <2>2, <2>3, <2>4 DEF IInv
<1>2. CASE End
  <2>1. /\ session /\ todo = Done /\ session' = FALSE /\ disk' = tables
        /\ last' = last /\ todo' = todo /\ tables' = tables
    BY <1>2 DEF End
  <2>2. /\ rows' = rows /\ flag' = flag /\ index' = index
        /\ freed' = freed /\ deleted' = deleted /\ given' = given
    BY <2>1 DEF tables
  <2>3. Sound(rows, flag, index, freed, deleted, given, Done)
    BY <2>1 DEF IInv
  <2>4. /\ Sound(disk'[1], disk'[2], disk'[3], disk'[4], disk'[5], disk'[6], Done)
        /\ disk' = <<disk'[1], disk'[2], disk'[3], disk'[4], disk'[5], disk'[6]>>
    BY <2>1, <2>3, Committed
  <2>5. disk' = tables' /\ todo' = Done
    BY <2>1
  <2> QED BY <2>1, <2>2, <2>3, <2>4, <2>5 DEF IInv
<1>3. CASE Crash
  <2>1. /\ session' = FALSE /\ todo' = Done /\ last' = last /\ disk' = disk
        /\ rows' = disk[1] /\ flag' = disk[2] /\ index' = disk[3]
        /\ freed' = disk[4] /\ deleted' = disk[5] /\ given' = disk[6]
    BY <1>3 DEF Crash
  <2>2. /\ Sound(disk[1], disk[2], disk[3], disk[4], disk[5], disk[6], Done)
        /\ disk = <<disk[1], disk[2], disk[3], disk[4], disk[5], disk[6]>>
        /\ last \in [Tables -> {Cold} \union 0..MaxKey]
    BY DEF IInv
  <2>3. Sound(rows', flag', index', freed', deleted', given', todo')
    BY <2>1, <2>2
  <2>4. disk' = tables'
    BY <2>1, <2>2 DEF tables
  <2>5. /\ Sound(disk'[1], disk'[2], disk'[3], disk'[4], disk'[5], disk'[6], Done)
        /\ disk' = <<disk'[1], disk'[2], disk'[3], disk'[4], disk'[5], disk'[6]>>
    BY <2>1, <2>2
  <2> QED BY <2>1, <2>2, <2>3, <2>4, <2>5 DEF IInv
<1>4. ASSUME NEW f \in Facts, AddFact(f) PROVE IInv'
  <2> DEFINE row(s) == [text |-> f, says |-> s, rel |-> 0, of |-> f]
  <2>1. /\ session /\ todo = Done /\ UNCHANGED <<session, freed, deleted, given, disk>>
    BY <1>4 DEF AddFact
  <2>2. PICK k \in Keys, s \in Says[f] :
          /\ Insert("facts", k, row(s))
          /\ todo' = IF ClausesOf[f] = <<>> THEN Done
                     ELSE [fact |-> f, rel |-> k, clauses |-> ClausesOf[f]]
    BY <1>4 DEF AddFact
  <2>3. row(s) \in Row
    BY FactRowMade
  <2>4. Inserted("facts", k, row(s))
    BY <2>1, <2>2, <2>3, InsertInserts
  <2>5. Sound(rows', flag', index', freed', deleted', given', todo')
    BY <2>1, <2>2, <2>4, FactInserted
  <2> QED BY <2>1, <2>4, <2>5, SessionStep DEF Inserted
<1>5. CASE AddClause
  <2> DEFINE row(s) == [text |-> Head(todo.clauses), says |-> s, rel |-> todo.rel,
                        of |-> todo.fact]
  <2>1. /\ session /\ todo # Done /\ UNCHANGED <<session, freed, deleted, disk>>
        /\ todo' = IF Len(todo.clauses) = 1 THEN Done
                   ELSE [todo EXCEPT !.clauses = Tail(@)]
    BY <1>5 DEF AddClause
  <2>2. PICK c \in Keys, s \in Says[Head(todo.clauses)] :
          /\ Insert("clauses", c, row(s))
          /\ given' = given \union {<<c, Head(todo.clauses)>>}
    BY <1>5 DEF AddClause
  <2>3. row(s) \in Row
    <3>1. /\ todo \in [fact : Facts, rel : Keys, clauses : Seq(Clauses)]
          /\ Len(todo.clauses) \in 1..Len(ClausesOf[todo.fact])
      BY <2>1 DEF IInv, Sound, Pending
    <3>2. todo.clauses \in Seq(Clauses) /\ todo.fact \in Facts /\ todo.rel \in Keys
      BY <3>1
    <3>3. ClausesOf[todo.fact] \in Seq(Clauses)
      BY <3>2
    <3>4. todo.clauses # <<>>
      BY <3>1, <3>2, <3>3
    <3>5. Head(todo.clauses) \in Clauses
      BY <3>2, <3>4
    <3> QED BY <3>2, <3>5, ClauseRowMade
  <2>4. Inserted("clauses", c, row(s))
    BY <2>1, <2>2, <2>3, InsertInserts
  <2>5. Sound(rows', flag', index', freed', deleted', given', todo')
    BY <2>1, <2>2, <2>4, ClauseInserted
  <2> QED BY <2>1, <2>4, <2>5, SessionStep DEF Inserted
<1>6. ASSUME NEW k \in Keys, DelRecord(k) PROVE IInv'
  <2>1. /\ session /\ UNCHANGED <<session, last, disk>>
        /\ rows' = [rows EXCEPT !["facts"][k] = None]
    BY <1>6 DEF DelRecord
  <2>2. \A t \in Tables : Live(t)' \subseteq Live(t)
    BY <2>1 DEF IInv, Sound, Typed, Live
  <2>3. Sound(rows', flag', index', freed', deleted', given', todo')
    BY <1>6, RecordDeleted
  <2>4. last' \in [Tables -> {Cold} \union 0..MaxKey] /\ Numbering'
    BY <2>1, <2>2, FewerRows
  <2> QED BY <2>1, <2>3, <2>4, SessionStep
<1>7. ASSUME NEW f \in Facts, DeleteEverythingFrom(FileOf[f]) PROVE IInv'
  <2>1. /\ session /\ UNCHANGED <<session, last, disk>>
        /\ rows' = [t \in Tables |->
             [k \in Keys |-> IF k \in OfFile(t, FileOf[f]) THEN None ELSE rows[t][k]]]
    BY <1>7 DEF DeleteEverythingFrom
  <2>2. \A t \in Tables : Live(t)' \subseteq Live(t)
    BY <2>1 DEF Live
  <2>3. Sound(rows', flag', index', freed', deleted', given', todo')
    BY <1>7, FileDeleted
  <2>4. last' \in [Tables -> {Cold} \union 0..MaxKey] /\ Numbering'
    BY <2>1, <2>2, FewerRows
  <2> QED BY <2>1, <2>3, <2>4, SessionStep
<1>8. CASE UNCHANGED vars
  <2>1. /\ session' = session /\ last' = last /\ todo' = todo /\ disk' = disk
        /\ rows' = rows /\ flag' = flag /\ index' = index
        /\ freed' = freed /\ deleted' = deleted /\ given' = given
    BY <1>8 DEF vars, tables
  <2>2. Numbering' <=> Numbering
    BY <2>1 DEF Numbering, Live
  <2>3. tables' = tables
    BY <2>1 DEF tables
  <2> QED BY <2>1, <2>2, <2>3 DEF IInv
<1> QED BY <1>1, <1>2, <1>3, <1>4, <1>5, <1>6, <1>7, <1>8 DEF Next

LEMMA SpecIInv == Spec => []IInv
BY InitIInv, NextKeepsIInv, PTL DEF Spec
-----------------------------------------------------------------------------
(* The properties.                                                          *)

(* Tables and counters keep their types, and what is committed is all there *)
(* is between sessions.                                                     *)
THEOREM TypeCorrect == Spec => []TypeOK
<1>1. IInv => TypeOK
  <2> SUFFICES ASSUME IInv PROVE TypeOK
    OBVIOUS
  <2>1. /\ Typed(rows, flag, index, freed, deleted, given) /\ Pending(rows, todo)
        /\ session \in BOOLEAN
        /\ last \in [Tables -> {Cold} \union 0..MaxKey]
        /\ ~session => todo = Done /\ disk = tables
    BY DEF IInv, Sound
  <2>2. todo.rel \in 0..MaxKey /\ todo.clauses \in Seq(Clauses)
    <3>1. CASE todo = Done
      BY <3>1 DEF Done
    <3>2. CASE todo \in [fact : Facts, rel : Keys, clauses : Seq(Clauses)]
      BY <3>2 DEF Keys
    <3> QED BY <2>1, <3>1, <3>2 DEF Pending
  <2> QED BY <2>1, <2>2 DEF TypeOK, Typed
<1> QED BY <1>1, SpecIInv, PTL

(* Between sessions a stored fact has a row for each of its clauses, in     *)
(* their order, and no other, unless a fact with its key was once deleted   *)
(* by key: also after disk_delete_everything_from, and after the process    *)
(* died.                                                                    *)
THEOREM ClausesAreOwn == Spec => []OwnClauses
<1>1. IInv => OwnClauses
  <2> SUFFICES ASSUME IInv, ~session, NEW k \in Live("facts") \ deleted
               PROVE  LET clauses == ClausesOf[rows["facts"][k].text] IN
                      /\ Cardinality(ClausesFor(k)) = Len(clauses)
                      /\ \A c \in ClausesFor(k) :
                           rows["clauses"][c].text =
                             clauses[Cardinality({d \in ClausesFor(k) : d <= c})]
    BY DEF OwnClauses
  <2>1. /\ HaveFlags(rows, flag, freed) /\ Own(rows, deleted, Done) /\ k \in Keys
    BY DEF IInv, Sound, Live
  <2>2. ClausesFor(k) = For(rows, k)
    <3>1. \A c \in LiveIn(rows, "clauses") : flag["clauses"][c] # None
      BY <2>1 DEF HaveFlags
    <3> QED BY <3>1 DEF ClausesFor, For, Live, LiveIn
  <2>3. /\ Cardinality(For(rows, k)) + Missing(Done, k) = Len(ClausesOf[rows["facts"][k].text])
        /\ \A c \in For(rows, k) :
             rows["clauses"][c].text = ClausesOf[rows["facts"][k].text][Rank(rows, k, c)]
    BY <2>1 DEF Own, Live, LiveIn
  <2>4. Missing(Done, k) = 0
    BY <2>1 DEF Missing, Done, Keys
  <2>5. Cardinality(For(rows, k)) \in Nat
    <3>1. For(rows, k) \subseteq Keys
      BY DEF For, LiveIn
    <3> QED BY <3>1, FiniteKeys, FS_CardinalityType
  <2>6. Cardinality(For(rows, k)) = Len(ClausesOf[rows["facts"][k].text])
    BY <2>3, <2>4, <2>5
  <2> QED BY <2>2, <2>3, <2>6 DEF Rank
<1> QED BY <1>1, SpecIInv, PTL

(* Each clause has the rank of a row.                                       *)
LEMMA EachRanked ==
  ASSUME NEW r, NEW k, NEW i \in 1..Cardinality(For(r, k))
  PROVE  \E c \in For(r, k) : Rank(r, k, c) = i
<1> DEFINE S == For(r, k)
           n == Cardinality(S)
           UpTo(c) == {j \in S : j <= c}
           f == [c \in S |-> Rank(r, k, c)]
<1>1. S \subseteq Keys /\ IsFiniteSet(S)
  BY FiniteKeys DEF For, LiveIn
<1>2. n \in Nat
  BY <1>1, FS_CardinalityType
<1>3. f \in [S -> 1..n]
  BY RankBounds
<1>4. ASSUME NEW c \in S, NEW d \in S, c < d
      PROVE  Rank(r, k, c) # Rank(r, k, d)
  <2>1. UpTo(d) \in SUBSET S /\ IsFiniteSet(UpTo(d))
    BY <1>1, FS_Subset
  <2>2. c \in Int /\ d \in Int /\ \A j \in S : j \in Int
    BY <1>1 DEF Keys
  <2>3. UpTo(c) \subseteq UpTo(d) /\ d \in UpTo(d) /\ d \notin UpTo(c)
    <3>1. \A j \in S : j <= c => j <= d
      BY <1>4, <2>2
    <3>2. d <= d /\ ~(d <= c)
      BY <1>4, <2>2
    <3> HIDE DEF S
    <3> QED BY <3>1, <3>2, Zenon
  <2>4. Cardinality(UpTo(c)) # Cardinality(UpTo(d))
    <3> HIDE DEF UpTo
    <3> QED BY <2>1, <2>3, FS_Subset
  <2> QED BY <2>4 DEF Rank
<1>5. \A c, d \in S : f[c] = f[d] => c = d
  <2> SUFFICES ASSUME NEW c \in S, NEW d \in S, c # d
               PROVE  f[c] # f[d]
    OBVIOUS
  <2>1. c < d \/ d < c
    BY <1>1 DEF Keys
  <2> QED BY <1>4, <2>1
<1>6. f \in Injection(S, 1..n)
  BY <1>3, <1>5 DEF Injection, IsInjective
<1>7. IsFiniteSet(1..n) /\ Cardinality(1..n) = n
  BY <1>2, FS_Interval
<1>8. f \in Surjection(S, 1..n)
  <2> HIDE DEF f
  <2> QED BY <1>6, <1>7, FS_Injection
<1>9. PICK c \in S : f[c] = i
  BY <1>8 DEF Surjection
<1> QED BY <1>9

(* Between sessions a search for the clauses of such a fact answers what    *)
(* its own clauses say, and each clause that keeps its verb and one column. *)
THEOREM AnswersAreOwn == Spec => []OwnAnswers
<1>1. IInv => OwnAnswers
  <2> SUFFICES ASSUME IInv, ~session, NEW k \in Live("facts") \ deleted
               PROVE  LET clauses == ClausesOf[rows["facts"][k].text] IN
                      /\ \A a \in Answers(k) :
                           /\ a.of = rows["facts"][k].text
                           /\ \E i \in DOMAIN clauses : a.says \in Says[clauses[i]]
                      /\ \A i \in DOMAIN clauses : Says[clauses[i]] \subseteq Shown =>
                           \E a \in Answers(k) : a.says \in Says[clauses[i]]
    BY DEF OwnAnswers
  <2> DEFINE f == rows["facts"][k].text
             clauses == ClausesOf[f]
             answer(c) == [says |-> rows["clauses"][c].says, flag |-> flag["clauses"][c],
                           of |-> rows["clauses"][c].of]
  <2>1. /\ HaveFlags(rows, flag, freed) /\ Own(rows, deleted, Done) /\ Saying(rows)
        /\ HaveFact(rows, deleted) /\ FactRows(rows)
        /\ k \in Keys /\ k \in LiveIn(rows, "facts")
    BY DEF IInv, Sound, Live, LiveIn
  <2>2. ClausesFor(k) = For(rows, k)
    <3>1. \A c \in LiveIn(rows, "clauses") : flag["clauses"][c] # None
      BY <2>1 DEF HaveFlags
    <3> QED BY <3>1 DEF ClausesFor, For, Live, LiveIn
  <2>3. clauses \in Seq(Clauses)
    BY <2>1 DEF FactRows
  <2>4. DOMAIN clauses = 1..Len(clauses) /\ Len(clauses) \in Nat
    <3> HIDE DEF clauses
    <3> QED BY <2>3
  <2>5. Cardinality(For(rows, k)) = Len(clauses)
    <3>1. Missing(Done, k) = 0
      BY <2>1 DEF Missing, Done, Keys
    <3>2. Cardinality(For(rows, k)) \in Nat
      <4>1. For(rows, k) \subseteq Keys
        BY DEF For, LiveIn
      <4> QED BY <4>1, FiniteKeys, FS_CardinalityType
    <3>3. Cardinality(For(rows, k)) + Missing(Done, k) = Len(clauses)
      BY <2>1 DEF Own
    <3> QED BY <3>1, <3>2, <3>3
  <2>6. ASSUME NEW c \in For(rows, k)
        PROVE  /\ Rank(rows, k, c) \in DOMAIN clauses
               /\ rows["clauses"][c].says \in Says[clauses[Rank(rows, k, c)]]
               /\ rows["clauses"][c].of = f
    <3>1. Rank(rows, k, c) \in DOMAIN clauses
      BY <2>4, <2>5, RankBounds
    <3>2. rows["clauses"][c].text = clauses[Rank(rows, k, c)]
      BY <2>1 DEF Own
    <3>3. c \in LiveIn(rows, "clauses") /\ rows["clauses"][c].rel = k
      BY DEF For
    <3>4. rows["clauses"][c].says \in Says[rows["clauses"][c].text]
      BY <2>1, <3>3 DEF Saying
    <3>5. rows["clauses"][c].of = f
      BY <2>1, <3>3 DEF HaveFact
    <3> QED BY <3>1, <3>2, <3>4, <3>5
  <2>7. Answers(k) = {answer(c) : c \in {c \in For(rows, k) : rows["clauses"][c].says \in Shown}}
    BY <2>2 DEF Answers
  <2>8. ASSUME NEW a \in Answers(k)
        PROVE  a.of = f /\ \E i \in DOMAIN clauses : a.says \in Says[clauses[i]]
    <3>1. PICK c \in For(rows, k) : a = answer(c)
      BY <2>7
    <3>2. a.of = rows["clauses"][c].of /\ a.says = rows["clauses"][c].says
      BY <3>1
    <3> HIDE DEF clauses, f
    <3> QED BY <2>6, <3>2
  <2>9. ASSUME NEW i \in DOMAIN clauses, Says[clauses[i]] \subseteq Shown
        PROVE  \E a \in Answers(k) : a.says \in Says[clauses[i]]
    <3>1. PICK c \in For(rows, k) : Rank(rows, k, c) = i
      <4>1. i \in 1..Cardinality(For(rows, k))
        BY <2>4, <2>5
      <4> QED BY <4>1, EachRanked
    <3>2. rows["clauses"][c].says \in Says[clauses[i]]
      BY <2>6, <3>1
    <3>3. answer(c) \in Answers(k)
      BY <2>7, <2>9, <3>2
    <3>4. answer(c).says = rows["clauses"][c].says
      OBVIOUS
    <3> QED BY <3>2, <3>3, <3>4
  <2> QED BY <2>8, <2>9
<1> QED BY <1>1, SpecIInv, PTL

(* Every clause belongs to the stored fact that it came with unless that    *)
(* one was deleted by key, also in the middle of a session.                 *)
THEOREM ClausesKeepTheirFact == Spec => []ClausesHaveTheirFact
<1>1. IInv => ClausesHaveTheirFact
  <2> SUFFICES ASSUME IInv PROVE ClausesHaveTheirFact
    OBVIOUS
  <2>1. HaveFact(rows, deleted) /\ \A t \in Tables : LiveIn(rows, t) = Live(t)
    BY DEF IInv, Sound, LiveIn, Live
  <2> QED BY <2>1 DEF HaveFact, ClausesHaveTheirFact
<1> QED BY <1>1, SpecIInv, PTL

(* Every clause has flags, and its own unless its key was freed before.     *)
THEOREM ClausesHaveFlags == Spec => []ClauseFlags
<1>1. IInv => ClauseFlags
  <2> SUFFICES ASSUME IInv PROVE ClauseFlags
    OBVIOUS
  <2>1. HaveFlags(rows, flag, freed) /\ \A t \in Tables : LiveIn(rows, t) = Live(t)
    BY DEF IInv, Sound, LiveIn, Live
  <2> QED BY <2>1 DEF HaveFlags, ClauseFlags
<1> QED BY <1>1, SpecIInv, PTL

(* A fact is found for a word that it does not have only by the number of a *)
(* clause with that word, or by one from which a fact has been deleted.     *)
THEOREM NothingElseFound == Spec => []FoundForAReason
<1>1. IInv => FoundForAReason
  <2> SUFFICES ASSUME IInv, NEW w \in Words, NEW k \in Found(w)
               PROVE  \/ w \in WordsOf[rows["facts"][k].text]
                      \/ \E x \in Clauses : <<k, x>> \in given /\ w \in WordsOf[x]
                      \/ k \in deleted \union freed["facts"]
    BY DEF FoundForAReason
  <2>1. k \in Keys /\ (<<w, k, "facts">> \in index \/ <<w, k, "clauses">> \in index)
    BY DEF Found, Live
  <2>2. Indexed(rows, index, freed, deleted, given)
    BY DEF IInv, Sound
  <2> QED BY <2>1, <2>2 DEF Indexed
<1> QED BY <1>1, SpecIInv, PTL
=============================================================================
