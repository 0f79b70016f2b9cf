-------------------------- MODULE FactStore_proofs --------------------------
(***************************************************************************)
(* Proofs about FactStore for every number of processes, every set of      *)
(* words and facts, and whatever the uninitialised buffer holds.           *)
(*                                                                         *)
(* The argument is about the two counters.  The key counter of the process *)
(* in session is cold or not behind the table, because a session begins    *)
(* with a cold one and nobody else adds meanwhile; so a new key is free.   *)
(* The word counter may be behind, but an id that is taken is never given  *)
(* to a second word; and when it is not behind, only the very first id of  *)
(* a batch can be taken.                                                   *)
(***************************************************************************)
EXTENDS FactStore, WellFoundedInduction, TLAPS

Injective(ids) ==
  \A v, w \in Words : ids[v] = ids[w] /\ ids[v] # Null => v = w

-----------------------------------------------------------------------------
(* What a batch of sql_set_word does to the table word.                     *)

(* The word at a free position is at a position that takes.                 *)
LEMMA FirstFree ==
  ASSUME NEW ids, NEW n \in Nat, NEW L \in Nat, NEW ws \in [1..L -> Words],
         NEW i \in 1..L, n + i - 1 \notin UsedIds(ids)
  PROVE  TakesFor(ids, ws, n, ws[i]) # {}
<1> DEFINE T == {j \in 1..L : ws[j] = ws[i] /\ n + j - 1 \notin UsedIds(ids)}
<1>1. T \subseteq Nat /\ T # {}
  OBVIOUS
<1>2. PICK x \in T : \A y \in T : ~ (<<y, x>> \in OpToRel(<, Nat))
  BY <1>1, WFMin, NatLessThanWellFounded
<1>3. \A y \in T : ~ (y < x)
  BY <1>1, <1>2 DEF OpToRel
<1>4. x \in 1..L /\ ws[x] = ws[i] /\ n + x - 1 \notin UsedIds(ids)
  BY <1>2
<1>5. \A j \in DOMAIN ws : j < x /\ ws[j] = ws[x] => n + j - 1 \in UsedIds(ids)
  BY <1>3, <1>4
<1>6. x \in TakesFor(ids, ws, n, ws[i])
  BY <1>4, <1>5 DEF TakesFor, Takes
<1> QED
  BY <1>6

(* A word that was not stored and now is has the id of its position.        *)
LEMMA NewId ==
  ASSUME NEW ids \in [Words -> Nat \union {Null}], NEW n \in Nat, NEW L \in Nat,
         NEW ws \in [1..L -> Words], NEW w \in Words,
         StoreWords(ids, ws, n)[w] # ids[w]
  PROVE  /\ ids[w] = Null
         /\ \E i \in 1..L : /\ ws[i] = w
                            /\ n + i - 1 \notin UsedIds(ids)
                            /\ StoreWords(ids, ws, n)[w] = n + i - 1
<1>1. ids[w] = Null /\ TakesFor(ids, ws, n, w) # {}
  BY DEF StoreWords
<1>2. PICK i : /\ i \in TakesFor(ids, ws, n, w)
               /\ StoreWords(ids, ws, n)[w] = n - 1 + i
  BY <1>1 DEF StoreWords
<1>3. i \in 1..L /\ ws[i] = w /\ n + i - 1 \notin UsedIds(ids)
  BY <1>2 DEF TakesFor, Takes
<1>4. n - 1 + i = n + i - 1
  BY <1>3
<1> QED
  BY <1>1, <1>2, <1>3, <1>4

(* Stored words keep their ids, new ids are from the batch and were free,   *)
(* no id is given twice, and a word with a free position is stored.         *)
GoodBatch(ids, ws, n, L, s) ==
  /\ s \in [Words -> Nat \union {Null}]
  /\ \A w \in Words : ids[w] # Null => s[w] = ids[w]
  /\ \A w \in Words : s[w] # ids[w] =>
       s[w] \in n..(n + L - 1) /\ s[w] \notin UsedIds(ids)
  /\ Injective(s)
  /\ \A i \in 1..L : n + i - 1 \notin UsedIds(ids) => s[ws[i]] # Null

(* Every batch of sql_set_word on a table without double ids is such a one. *)
LEMMA StoreWordsFacts ==
  ASSUME NEW ids \in [Words -> Nat \union {Null}], Injective(ids),
         NEW n \in Nat, NEW L \in Nat, NEW ws \in [1..L -> Words]
  PROVE  GoodBatch(ids, ws, n, L, StoreWords(ids, ws, n))
<1> DEFINE s == StoreWords(ids, ws, n)
<1>1. \A w \in Words : s[w] # ids[w] =>
        /\ ids[w] = Null
        /\ \E i \in 1..L : /\ ws[i] = w
                           /\ n + i - 1 \notin UsedIds(ids)
                           /\ s[w] = n + i - 1
  <2> SUFFICES ASSUME NEW w \in Words, StoreWords(ids, ws, n)[w] # ids[w]
               PROVE  /\ ids[w] = Null
                      /\ \E i \in 1..L :
                           /\ ws[i] = w
                           /\ n + i - 1 \notin UsedIds(ids)
                           /\ StoreWords(ids, ws, n)[w] = n + i - 1
    BY Zenon
  <2>1. PICK i \in 1..L : /\ ws[i] = w
                          /\ n + i - 1 \notin UsedIds(ids)
                          /\ StoreWords(ids, ws, n)[w] = n + i - 1
    BY NewId, SMT
  <2>2. ids[w] = Null
    BY DEF StoreWords
  <2> QED
    BY <2>1, <2>2
<1>2. \A w \in Words : ids[w] # Null => s[w] = ids[w]
  BY <1>1
<1>3. \A w \in Words : s[w] # ids[w] =>
        s[w] \in n..(n + L - 1) /\ s[w] \notin UsedIds(ids)
  BY <1>1
<1>4. s \in [Words -> Nat \union {Null}]
  <2>1. s = [w \in Words |-> s[w]]
    BY DEF StoreWords
  <2>2. \A w \in Words : s[w] \in Nat \union {Null}
    <3> SUFFICES ASSUME NEW w \in Words PROVE s[w] \in Nat \union {Null}
      OBVIOUS
    <3>1. CASE s[w] = ids[w]
      BY <3>1
    <3>2. CASE s[w] # ids[w]
      BY <3>2, <1>3
    <3> QED
      BY <3>1, <3>2
  <2> QED
    BY <2>1, <2>2
<1>5. Injective(s)
  <2> SUFFICES ASSUME NEW v \in Words, NEW w \in Words, s[v] = s[w], s[v] # Null
               PROVE  v = w
    BY DEF Injective
  <2>1. CASE s[v] = ids[v] /\ s[w] = ids[w]
    BY <2>1 DEF Injective
  <2>2. CASE s[v] # ids[v] /\ s[w] # ids[w]
    BY <2>2, <1>1
  <2>3. CASE s[v] # ids[v] /\ s[w] = ids[w]
    BY <2>3, <1>3 DEF UsedIds
  <2>4. CASE s[v] = ids[v] /\ s[w] # ids[w]
    BY <2>4, <1>3 DEF UsedIds
  <2> QED
    BY <2>1, <2>2, <2>3, <2>4
<1>6. \A i \in 1..L : n + i - 1 \notin UsedIds(ids) => s[ws[i]] # Null
  <2> SUFFICES ASSUME NEW i \in 1..L, n + i - 1 \notin UsedIds(ids)
               PROVE  s[ws[i]] # Null
    OBVIOUS
  <2>1. TakesFor(ids, ws, n, ws[i]) # {}
    BY FirstFree
  <2>2. ws[i] \in Words
    OBVIOUS
  <2>3. PICK j : j \in TakesFor(ids, ws, n, ws[i])
           /\ (ids[ws[i]] = Null => s[ws[i]] = n - 1 + j)
    BY <2>1, <2>2 DEF StoreWords
  <2>4. j \in 1..L
    BY <2>3 DEF TakesFor
  <2>5. n - 1 + j # Null
    BY <2>4, FactStoreAssumption
  <2> QED
    BY <2>2, <2>3, <2>5, <1>2
<1> QED
  BY <1>2, <1>3, <1>4, <1>5, <1>6 DEF GoodBatch

-----------------------------------------------------------------------------
(* The inductive invariant.                                                 *)

(* The key counter of the process in session is not behind the table.       *)
Numbering ==
  session # None /\ cacheF[session] # Cold =>
    \A q \in Live : q <= cacheF[session] + 1

(* The answers still standing are exactly the rows.                         *)
ToldExactly ==
  \A k \in Pk : told[k] = IF facts[k] = None THEN None ELSE facts[k].fact

IndexUsed == \A e \in index : e[1] \in UsedIds(idOf)

(* A key never freed is either unused in all tables or used by one fact.    *)
CleanKey(k) ==
  IF facts[k] = None
    THEN flag[k] = None /\ \A id \in Ids : <<id, k>> \notin index
    ELSE /\ flag[k] = FlagOf[facts[k].fact]
         /\ \A w \in Words : idOf[w] # Null /\ <<idOf[w], k>> \in index
                             => w \in Texts(facts[k].fact)
CleanKeys == \A k \in Pk \ freed : CleanKey(k)

IInv ==
  /\ TypeOK /\ Numbering /\ ToldExactly /\ ColumnsResolve /\ IndexUsed
  /\ CleanKeys /\ OnlySubjectLost /\ FoundByItsWords

(* The inductive invariant holds initially.                                 *)
LEMMA InitInv == Init => IInv
<1> SUFFICES ASSUME Init PROVE IInv
  OBVIOUS
<1>1. TypeOK
  BY FactStoreAssumption DEF Init, TypeOK, Ids, Cold
<1>2. Live = {}
  BY DEF Init, Live
<1>3. Numbering /\ ToldExactly /\ IndexUsed /\ CleanKeys
  BY DEF Init, Numbering, ToldExactly, IndexUsed, CleanKeys, CleanKey
<1>4. ColumnsResolve /\ OnlySubjectLost /\ FoundByItsWords
  BY <1>2, FactStoreAssumption
  DEF Init, ColumnsResolve, OnlySubjectLost, FoundByItsWords
<1> QED
  BY <1>1, <1>3, <1>4 DEF IInv

-----------------------------------------------------------------------------
(* The steps that leave the tables alone, and the deletes.                  *)

(* What only speaks about the tables survives when they stay.               *)
LEMMA TablesStay ==
  ASSUME IInv, UNCHANGED <<tables, history>>
  PROVE  /\ ToldExactly' /\ ColumnsResolve' /\ IndexUsed' /\ CleanKeys'
         /\ OnlySubjectLost' /\ FoundByItsWords' /\ Live' = Live
<1> USE DEF IInv, tables, history
<1>1. Live' = Live /\ UsedIds(idOf)' = UsedIds(idOf)
  BY DEF Live, UsedIds
<1>2. \A w : Found(w)' = Found(w)
  BY <1>1 DEF Found
<1>3. ToldExactly' /\ IndexUsed' /\ CleanKeys'
  BY <1>1 DEF ToldExactly, IndexUsed, CleanKeys, CleanKey
<1>4. ColumnsResolve' /\ OnlySubjectLost'
  BY <1>1 DEF ColumnsResolve, OnlySubjectLost
<1>5. FoundByItsWords'
  BY <1>1, <1>2 DEF FoundByItsWords
<1> QED
  BY <1>1, <1>3, <1>4, <1>5

(* A session begins with a cold key counter and ends with none at all.      *)
LEMMA SessionStep ==
  ASSUME IInv, NEW p \in Procs, NewProcess(p) \/ Begin(p) \/ End(p)
  PROVE  IInv'
<1>1. UNCHANGED <<tables, history>>
  BY DEF NewProcess, Begin, End
<1>2. Live' = Live
  BY <1>1, TablesStay
<1>3. TypeOK'
  BY <1>1 DEF IInv, TypeOK, NewProcess, Begin, End, tables, history
<1>4. Numbering'
  <2>1. CASE NewProcess(p)
    BY <1>2, <2>1 DEF IInv, TypeOK, NewProcess, Numbering
  <2>2. CASE Begin(p)
    BY <1>2, <2>2 DEF IInv, TypeOK, Begin, Numbering
  <2>3. CASE End(p)
    BY <2>3 DEF End, Numbering
  <2> QED
    BY <2>1, <2>2, <2>3
<1> QED
  BY <1>1, <1>3, <1>4, TablesStay DEF IInv

(* A delete only takes rows away, and remembers their keys as freed.        *)
LEMMA DeleteStep ==
  ASSUME IInv, NEW p \in Procs, NEW gone \in SUBSET Live, Delete(p, gone)
  PROVE  IInv'
<1> USE DEF IInv, Delete
<1>1. Live' = Live \ gone /\ \A k \in Live' : facts'[k] = facts[k]
  BY DEF Live
<1>2. gone \subseteq Pk
  BY DEF Live
<1>3. TypeOK'
  BY <1>2 DEF TypeOK
<1>4. Numbering' /\ ToldExactly' /\ IndexUsed'
  BY <1>1 DEF Numbering, ToldExactly, IndexUsed, UsedIds
<1>5. ColumnsResolve' /\ OnlySubjectLost'
  BY <1>1 DEF ColumnsResolve, OnlySubjectLost
<1>6. FoundByItsWords'
  BY <1>1 DEF FoundByItsWords, Found
<1>7. CleanKeys'
  <2> SUFFICES ASSUME NEW k \in Pk \ freed' PROVE CleanKey(k)'
    BY DEF CleanKeys
  <2>1. k \notin gone /\ k \in Pk \ freed
    OBVIOUS
  <2>2. facts'[k] = facts[k] /\ CleanKey(k)
    BY <2>1 DEF CleanKeys
  <2> QED
    BY <2>2 DEF CleanKey
<1> QED
  BY <1>3, <1>4, <1>5, <1>6, <1>7

-----------------------------------------------------------------------------
(* disk_add_fact.                                                           *)

(* The key is one that no row has.                                          *)
LEMMA NewKeyIsFree ==
  ASSUME IInv, NEW p \in Procs, session = p, NEW last \in Nat, LastPk(p, last)
  PROVE  last + 1 \notin Live /\ (\A q \in Live : q <= last + 1)
<1> USE DEF IInv, TypeOK
<1>1. session # None /\ Live \subseteq Nat
  BY FactStoreAssumption DEF Live, Pk
<1>2. CASE cacheF[p] # Cold
  <2>1. cacheF[p] \in Nat /\ last = cacheF[p] + 1
    BY <1>2 DEF LastPk
  <2>2. \A q \in Live : q <= cacheF[p] + 1
    BY <1>1, <1>2 DEF Numbering
  <2>3. \A q \in Live : q \in Nat /\ q <= last
    BY <1>1, <2>1, <2>2
  <2> QED
    BY <2>3
<1>3. CASE cacheF[p] = Cold /\ Live # {}
  <2>1. \A q \in Live : q <= last
    BY <1>3 DEF LastPk, IsMax
  <2> QED
    BY <1>1, <2>1
<1> QED
  BY <1>2, <1>3

(* When the word counter is not behind the table, every id above the first  *)
(* one of the batch is free.                                                *)
LEMMA HigherIdsAreFree ==
  ASSUME IInv, NEW p \in Procs, NEW n \in Ids, LastWordId(p, n),
         ~ (cacheW[p] # Cold /\ \E id \in UsedIds(idOf) : id > cacheW[p])
  PROVE  \A id \in UsedIds(idOf) : id <= n
<1>1. UsedIds(idOf) \subseteq Nat
  BY FactStoreAssumption DEF IInv, TypeOK, UsedIds, Reserved, Ids
<1>2. CASE cacheW[p] # Cold
  <2>1. cacheW[p] \in Nat /\ n = cacheW[p] + 1
    BY <1>2 DEF IInv, TypeOK, LastWordId, Ids
  <2>2. \A id \in UsedIds(idOf) : id <= cacheW[p]
    BY <1>1, <1>2, <2>1
  <2> QED
    BY <1>1, <2>1, <2>2
<1>3. CASE cacheW[p] = Cold
  BY <1>3 DEF LastWordId, IsMax
<1> QED
  BY <1>2, <1>3

(* The two batches of words of an add, together.                            *)
LEMMA TwoBatches ==
  ASSUME IInv, NEW p \in Procs, NEW f \in Facts, NEW n \in Ids,
         n + 7 + Len(IndexWords[f]) - 1 \in Ids,
         NEW ids1, ids1 = StoreWords(idOf, EntryWords[f], n),
         NEW ids2, ids2 = StoreWords(ids1, IndexWords[f], n + 7)
  PROVE  /\ ids1 \in [Words -> Ids \union {Null}]
         /\ ids2 \in [Words -> Ids \union {Null}]
         /\ \A w \in Words : idOf[w] # Null => ids1[w] = idOf[w]
         /\ \A w \in Words : ids1[w] # Null => ids2[w] = ids1[w]
         /\ \A w \in Words : ids2[w] # idOf[w] => ids2[w] \notin UsedIds(idOf)
         /\ Injective(ids2)
         /\ (\A id \in UsedIds(idOf) : id <= n) =>
              /\ \A c \in Columns : ids1[EntryWords[f][c]] = Null
                                    => EntryWords[f][c] = EntryWords[f][1]
              /\ \A w \in Texts(f) : ids2[w] # Null
<1>1. /\ n \in Nat /\ MaxId \in Nat /\ Null \notin Nat
      /\ EntryWords[f] \in [1..7 -> Words]
      /\ IndexWords[f] \in Seq(Words)
  BY FactStoreAssumption DEF Ids
<1>2. PICK L \in Nat : /\ L = Len(IndexWords[f])
                       /\ IndexWords[f] \in [1..L -> Words]
  BY <1>1
<1>3. /\ idOf \in [Words -> Nat \union {Null}] /\ Injective(idOf)
      /\ \A w \in Words : idOf[w] \in Ids \union {Null}
  BY DEF IInv, TypeOK, ColumnsResolve, Injective, Ids
<1>4. /\ ids1 \in [Words -> Nat \union {Null}]
      /\ \A w \in Words : idOf[w] # Null => ids1[w] = idOf[w]
      /\ \A w \in Words : ids1[w] # idOf[w] =>
           ids1[w] \in n..(n + 7 - 1) /\ ids1[w] \notin UsedIds(idOf)
      /\ Injective(ids1)
      /\ \A i \in 1..7 : n + i - 1 \notin UsedIds(idOf)
                          => ids1[EntryWords[f][i]] # Null
  <2>1. GoodBatch(idOf, EntryWords[f], n, 7, ids1)
    BY <1>1, <1>3, StoreWordsFacts
  <2> QED
    BY <2>1 DEF GoodBatch
<1>5. /\ ids2 \in [Words -> Nat \union {Null}]
      /\ \A w \in Words : ids1[w] # Null => ids2[w] = ids1[w]
      /\ \A w \in Words : ids2[w] # ids1[w] =>
           ids2[w] \in (n + 7)..(n + 7 + L - 1) /\ ids2[w] \notin UsedIds(ids1)
      /\ Injective(ids2)
      /\ \A i \in 1..L : n + 7 + i - 1 \notin UsedIds(ids1)
                          => ids2[IndexWords[f][i]] # Null
  <2>1. n + 7 \in Nat
    BY <1>1
  <2>2. GoodBatch(ids1, IndexWords[f], n + 7, L, ids2)
    BY <1>2, <1>4, <2>1, StoreWordsFacts
  <2> QED
    BY <2>2 DEF GoodBatch
<1>6. n + 7 + L - 1 <= MaxId
  <2>1. n + 7 + L - 1 \in 0..MaxId
    BY <1>2 DEF Ids
  <2>2. ASSUME NEW x \in 0..MaxId PROVE x \in Int /\ x <= MaxId
    BY <1>1
  <2> QED
    BY <2>1, <2>2
<1>7. ASSUME NEW x \in n..(n + 7 - 1) PROVE x \in 0..MaxId
  <2>1. x \in Int /\ n <= x /\ x <= n + 7 - 1
    BY <1>1
  <2> QED
    BY <1>1, <1>6, <2>1
<1>8. ASSUME NEW x \in (n + 7)..(n + 7 + L - 1) PROVE x \in 0..MaxId
  <2>1. x \in Int /\ n + 7 <= x /\ x <= n + 7 + L - 1
    BY <1>1
  <2> QED
    BY <1>1, <1>6, <2>1
<1>9. ids1 \in [Words -> Ids \union {Null}]
  <2> SUFFICES ASSUME NEW w \in Words PROVE ids1[w] \in Ids \union {Null}
    BY <1>4
  <2>1. CASE ids1[w] = idOf[w]
    BY <1>3, <2>1
  <2>2. CASE ids1[w] # idOf[w]
    <3>1. ids1[w] \in n..(n + 7 - 1)
      BY <1>4, <2>2
    <3> QED
      BY <1>7, <3>1 DEF Ids
  <2> QED
    BY <2>1, <2>2
<1>10. ids2 \in [Words -> Ids \union {Null}]
  <2> SUFFICES ASSUME NEW w \in Words PROVE ids2[w] \in Ids \union {Null}
    BY <1>5
  <2>1. CASE ids2[w] = ids1[w]
    BY <1>9, <2>1
  <2>2. CASE ids2[w] # ids1[w]
    <3>1. ids2[w] \in (n + 7)..(n + 7 + L - 1)
      BY <1>5, <2>2
    <3> QED
      BY <1>8, <3>1 DEF Ids
  <2> QED
    BY <2>1, <2>2
<1>11. UsedIds(idOf) \subseteq UsedIds(ids1)
  BY <1>4 DEF UsedIds
<1>12. \A w \in Words : ids2[w] # idOf[w] => ids2[w] \notin UsedIds(idOf)
  BY <1>4, <1>5, <1>11
<1>13. ASSUME \A id \in UsedIds(idOf) : id <= n
       PROVE  /\ \A c \in Columns : ids1[EntryWords[f][c]] = Null
                                    => EntryWords[f][c] = EntryWords[f][1]
              /\ \A w \in Texts(f) : ids2[w] # Null
  <2>1. \A i \in 1..7 : i # 1 => n + i - 1 \notin UsedIds(idOf)
    BY <1>1, <1>13
  <2>2. \A c \in Columns : c \in 1..7
    BY DEF Columns
  <2>3. \A id \in UsedIds(ids1) : id <= n + 6
    <3>1. \A w \in Words : ids1[w] # Null => ids1[w] <= n + 6
      <4> SUFFICES ASSUME NEW w \in Words, ids1[w] # Null PROVE ids1[w] <= n + 6
        OBVIOUS
      <4>1. CASE ids1[w] = idOf[w]
        <5>1. ids1[w] \in UsedIds(idOf) /\ ids1[w] \in Nat
          BY <1>4, <4>1 DEF UsedIds
        <5> QED
          BY <1>1, <1>13, <5>1
      <4>2. CASE ids1[w] # idOf[w]
        BY <1>1, <1>4, <4>2
      <4> QED
        BY <4>1, <4>2
    <3>2. \A id \in Reserved : id <= n + 6
      BY <1>1 DEF Reserved
    <3> QED
      BY <3>1, <3>2 DEF UsedIds
  <2>4. \A i \in 1..L : n + 7 + i - 1 \notin UsedIds(ids1)
    BY <1>1, <1>2, <2>3
  <2>5. \A w \in Texts(f) : \E i \in 1..L : w = IndexWords[f][i]
    BY <1>2 DEF Texts
  <2>6. \A w \in Texts(f) : ids2[w] # Null
    BY <1>5, <2>4, <2>5
  <2>7. \A c \in Columns : c # 1 => ids1[EntryWords[f][c]] # Null
    BY <1>4, <2>1, <2>2
  <2> QED
    BY <2>6, <2>7
<1> QED
  BY <1>4, <1>5, <1>9, <1>10, <1>12, <1>13

(* An add preserves the inductive invariant: a free key, and two batches of *)
(* words that neither move an id nor give one out twice.                    *)
LEMMA AddStep ==
  ASSUME IInv, NEW p \in Procs, NEW f \in Facts, AddFact(p, f)
  PROVE  IInv'
<1> USE DEF IInv
<1>1. PICK last \in 0..MaxPk, n \in Ids :
        LET k == last + 1
            m == n + 7
            ids1 == StoreWords(idOf, EntryWords[f], n)
            ids2 == StoreWords(ids1, IndexWords[f], m)
        IN
        /\ LastPk(p, last) /\ LastWordId(p, n)
        /\ k \in Pk /\ m + Len(IndexWords[f]) - 1 \in Ids
        /\ InsertFact(k, f, ids1)
        /\ InsertFlags(k, f)
        /\ InsertIndex(k, f, ids2)
        /\ idOf' = ids2
        /\ cacheF' = [cacheF EXCEPT ![p] = IF NotUnique(k) THEN Cold ELSE last]
        /\ cacheW' = [cacheW EXCEPT ![p] = m + Len(IndexWords[f]) - 1]
        /\ told' = [told EXCEPT ![k] = f]
        /\ late' = IF cacheW[p] # Cold /\ \E id \in UsedIds(idOf) : id > cacheW[p]
                     THEN late \union {k} ELSE late \ {k}
  BY Zenon DEF AddFact
<1>2. session = p /\ session' = session /\ freed' = freed
  BY DEF AddFact
<1> DEFINE k == last + 1
           ids1 == StoreWords(idOf, EntryWords[f], n)
           ids2 == StoreWords(ids1, IndexWords[f], n + 7)
           row == [fact |-> f, ids |-> [c \in Columns |-> ids1[EntryWords[f][c]]]]
<1>3. k \in Pk /\ n + 7 + Len(IndexWords[f]) - 1 \in Ids
  BY <1>1
<1>4. k \notin Live /\ (\A q \in Live : q <= k)
  <2>1. last \in Nat
    BY FactStoreAssumption
  <2> QED
    BY <1>1, <1>2, <2>1, NewKeyIsFree
<1>5. /\ ids1 \in [Words -> Ids \union {Null}]
      /\ ids2 \in [Words -> Ids \union {Null}]
      /\ \A w \in Words : idOf[w] # Null => ids1[w] = idOf[w]
      /\ \A w \in Words : ids1[w] # Null => ids2[w] = ids1[w]
      /\ \A w \in Words : ids2[w] # idOf[w] => ids2[w] \notin UsedIds(idOf)
      /\ Injective(ids2)
  BY <1>3, TwoBatches
<1>6. k \notin late' =>
        /\ \A c \in Columns : ids1[EntryWords[f][c]] = Null
                              => EntryWords[f][c] = EntryWords[f][1]
        /\ \A w \in Texts(f) : ids2[w] # Null
  <2> SUFFICES ASSUME k \notin late'
               PROVE  /\ \A c \in Columns : ids1[EntryWords[f][c]] = Null
                                            => EntryWords[f][c] = EntryWords[f][1]
                      /\ \A w \in Texts(f) : ids2[w] # Null
    OBVIOUS
  <2>1. ~ (cacheW[p] # Cold /\ \E id \in UsedIds(idOf) : id > cacheW[p])
    BY <1>1
  <2>2. \A id \in UsedIds(idOf) : id <= n
    BY <1>1, <2>1, HigherIdsAreFree
  <2> QED
    BY <1>3, <2>2, TwoBatches
<1>7. /\ facts' = [facts EXCEPT ![k] = row]
      /\ flag' = IF flag[k] # None THEN flag ELSE [flag EXCEPT ![k] = FlagOf[f]]
      /\ index' = index \union {<<ids2[w], k>> : w \in {v \in Texts(f) : ids2[v] # Null}}
      /\ idOf' = ids2
      /\ told' = [told EXCEPT ![k] = f]
      /\ late' \in {late \union {k}, late \ {k}}
  BY <1>1, <1>4 DEF InsertFact, InsertFlags, NotUnique, InsertIndex
<1>8. /\ cacheF' \in {[cacheF EXCEPT ![p] = Cold], [cacheF EXCEPT ![p] = last]}
      /\ cacheW' = [cacheW EXCEPT ![p] = n + 7 + Len(IndexWords[f]) - 1]
  BY <1>1
<1>9. /\ facts[k] = None
      /\ EntryWords[f] \in [1..7 -> Words]
      /\ Texts(f) \subseteq Words
      /\ row \in Row /\ row # None /\ row.fact = f
      /\ \A c \in Columns : EntryWords[f][c] \in Words
                            /\ row.ids[c] = ids1[EntryWords[f][c]]
  <2>1. facts[k] = None
    BY <1>3, <1>4 DEF Live
  <2>2. EntryWords[f] \in [1..7 -> Words] /\ IndexWords[f] \in Seq(Words)
    BY FactStoreAssumption
  <2>3. Texts(f) \subseteq Words
    BY <2>2 DEF Texts
  <2>4. \A c \in Columns : EntryWords[f][c] \in Words
    BY <2>2 DEF Columns
  <2>5. row \in Row
    BY <1>5, <2>4 DEF Row
  <2> QED
    BY <2>1, <2>2, <2>3, <2>4, <2>5, FactStoreAssumption
<1> HIDE DEF k, ids1, ids2, row
<1>10. Live' = Live \union {k} /\ (\A q \in Live : facts'[q] = facts[q] /\ q # k)
       /\ facts'[k] = row
  BY <1>3, <1>4, <1>7, <1>9 DEF TypeOK, Live
<1>11. TypeOK'
  <2>1. last \in {Cold} \union 0..MaxPk
    OBVIOUS
  <2>2. cacheF' \in [Procs -> {Cold} \union 0..MaxPk]
    BY <1>8, <2>1 DEF TypeOK
  <2>3. cacheW' \in [Procs -> {Cold} \union Ids]
    BY <1>3, <1>8 DEF TypeOK
  <2>4. facts' \in [Pk -> Row \union {None}] /\ told' \in [Pk -> Facts \union {None}]
    BY <1>3, <1>7, <1>9 DEF TypeOK
  <2>5. flag' \in [Pk -> {FlagOf[g] : g \in Facts} \union {None}]
    BY <1>3, <1>7 DEF TypeOK
  <2>6. index' \subseteq Ids \X Pk
    BY <1>3, <1>5, <1>7, <1>9 DEF TypeOK
  <2>7. idOf' \in [Words -> Ids \union {Null}] /\ late' \subseteq Pk
    BY <1>3, <1>5, <1>7 DEF TypeOK
  <2> QED
    BY <1>2, <2>2, <2>3, <2>4, <2>5, <2>6, <2>7 DEF TypeOK
<1>12. Numbering'
  <2>1. cacheF'[p] \in {Cold, last}
    BY <1>8 DEF TypeOK
  <2>2. \A q \in Live' : q <= last + 1
    BY <1>4, <1>10, FactStoreAssumption DEF k
  <2> QED
    BY <1>2, <2>1, <2>2 DEF Numbering
<1>13. ToldExactly'
  BY <1>3, <1>7, <1>9 DEF ToldExactly, TypeOK
<1>14. ColumnsResolve'
  <2>1. \A v, w \in Words : idOf'[v] = idOf'[w] /\ idOf'[v] # Null => v = w
    BY <1>5, <1>7 DEF Injective
  <2>2. \A w \in Words : idOf[w] # Null => idOf'[w] = idOf[w]
    BY <1>5, <1>7
  <2>3. \A q \in Live : \A c \in Columns :
          EntryWords[facts[q].fact][c] \in Words
    BY FactStoreAssumption DEF TypeOK, Live, Row, Columns
  <2>4. \A q \in Live : \A c \in Columns : facts[q].ids[c] # Null =>
          facts[q].ids[c] = idOf'[EntryWords[facts[q].fact][c]]
    BY <2>2, <2>3 DEF ColumnsResolve
  <2>5. \A c \in Columns : row.ids[c] # Null =>
          row.ids[c] = idOf'[EntryWords[row.fact][c]]
    BY <1>5, <1>7, <1>9
  <2> QED
    BY <1>10, <2>1, <2>4, <2>5 DEF ColumnsResolve
<1>15. IndexUsed'
  <2>1. UsedIds(idOf) \subseteq UsedIds(idOf)'
    BY <1>5, <1>7 DEF UsedIds
  <2>2. \A w \in Words : ids2[w] # Null => ids2[w] \in UsedIds(idOf)'
    BY <1>7 DEF UsedIds
  <2> QED
    BY <1>7, <1>9, <2>1, <2>2 DEF IndexUsed
<1>16. CleanKeys'
  <2> SUFFICES ASSUME NEW q \in Pk \ freed PROVE CleanKey(q)'
    BY <1>2 DEF CleanKeys
  <2>1. CleanKey(q)
    BY DEF CleanKeys
  <2>2. CASE q = k
    <3>1. flag[k] = None /\ \A id \in Ids : <<id, k>> \notin index
      BY <1>9, <2>1, <2>2 DEF CleanKey
    <3>2. flag'[k] = FlagOf[f]
      BY <1>3, <1>7, <3>1 DEF TypeOK
    <3>3. ASSUME NEW w \in Words, idOf'[w] # Null, <<idOf'[w], k>> \in index'
          PROVE  w \in Texts(f)
      <4>1. idOf'[w] \in Ids
        BY <1>5, <1>7, <3>3
      <4>2. <<idOf'[w], k>> \notin index
        BY <3>1, <4>1
      <4>3. PICK v \in Texts(f) : ids2[v] # Null /\ ids2[v] = idOf'[w]
        BY <1>7, <3>3, <4>2
      <4>4. v = w
        BY <1>5, <1>7, <1>9, <4>3 DEF Injective
      <4> QED
        BY <4>3, <4>4
    <3> QED
      BY <1>9, <1>10, <2>2, <3>2, <3>3 DEF CleanKey
  <2>3. CASE q # k
    <3>1. facts'[q] = facts[q] /\ flag'[q] = flag[q]
      BY <1>3, <1>7, <2>3 DEF TypeOK
    <3>2. \A id : <<id, q>> \in index' <=> <<id, q>> \in index
      BY <1>7, <2>3
    <3>3. ASSUME NEW w \in Words, idOf'[w] # Null, <<idOf'[w], q>> \in index
          PROVE  idOf[w] # Null /\ <<idOf[w], q>> \in index
      <4>1. idOf'[w] \in UsedIds(idOf)
        BY <3>3 DEF IndexUsed
      <4>2. idOf'[w] = idOf[w]
        BY <1>5, <1>7, <4>1
      <4> QED
        BY <3>3, <4>2
    <3> QED
      BY <2>1, <3>1, <3>2, <3>3 DEF CleanKey
  <2> QED
    BY <2>2, <2>3
<1>17. OnlySubjectLost'
  <2>1. \A c \in Columns : k \notin late' /\ row.ids[c] = Null =>
          EntryWords[row.fact][c] = EntryWords[row.fact][1]
    BY <1>6, <1>9 DEF k, ids1
  <2>2. \A q \in Live : q \notin late' => q \notin late
    BY <1>7, <1>10
  <2> QED
    BY <1>10, <2>1, <2>2 DEF OnlySubjectLost
<1>18. FoundByItsWords'
  <2> SUFFICES ASSUME NEW q \in Live' \ late', NEW w \in Texts(facts'[q].fact)
               PROVE  q \in Found(w)'
    BY DEF FoundByItsWords
  <2>1. CASE q = k
    <3>1. w \in Texts(f) /\ ids2[w] # Null
      BY <1>6, <1>9, <1>10, <2>1 DEF k, ids2, ids1
    <3>2. idOf'[w] # Null /\ <<idOf'[w], k>> \in index'
      BY <1>7, <3>1
    <3> QED
      BY <2>1, <3>2 DEF Found
  <2>2. CASE q # k
    <3>1. q \in Live \ late /\ facts'[q] = facts[q]
      BY <1>7, <1>10, <2>2
    <3>2. idOf[w] # Null /\ <<idOf[w], q>> \in index
      BY <3>1 DEF FoundByItsWords, Found
    <3>3. w \in Words
      BY <3>1, FactStoreAssumption DEF Texts, TypeOK, Live, Row
    <3>4. idOf'[w] = idOf[w]
      BY <1>5, <1>7, <3>2, <3>3
    <3> QED
      BY <1>7, <3>2, <3>4 DEF Found
  <2> QED
    BY <2>1, <2>2
<1> QED
  BY <1>11, <1>12, <1>13, <1>14, <1>15, <1>16, <1>17, <1>18

-----------------------------------------------------------------------------
(* The theorems.                                                            *)

(* Every step preserves the inductive invariant.                            *)
LEMMA NextInv == IInv /\ [Next]_vars => IInv'
<1> SUFFICES ASSUME IInv, [Next]_vars PROVE IInv'
  OBVIOUS
<1>1. ASSUME NEW p \in Procs, NewProcess(p) \/ Begin(p) \/ End(p) PROVE IInv'
  BY <1>1, SessionStep
<1>2. ASSUME NEW p \in Procs, NEW f \in Facts, AddFact(p, f) PROVE IInv'
  BY <1>2, AddStep
<1>3. ASSUME NEW p \in Procs, DelRecord(p) PROVE IInv'
  <2>1. PICK k \in Live : Delete(p, {k})
    BY <1>3 DEF DelRecord
  <2> QED
    BY <2>1, DeleteStep
<1>4. ASSUME NEW p \in Procs, NEW f \in Facts, DeleteEverythingFrom(p, FileOf[f])
      PROVE  IInv'
  <2> DEFINE gone == {k \in Live : FileOf[facts[k].fact] = FileOf[f]}
  <2>1. gone \in SUBSET Live /\ Delete(p, gone)
    BY <1>4 DEF DeleteEverythingFrom
  <2> QED
    BY <2>1, DeleteStep
<1>5. CASE UNCHANGED vars
  <2>1. UNCHANGED <<tables, history>> /\ UNCHANGED <<session, cacheF, cacheW>>
    BY <1>5 DEF vars, tables, history
  <2>2. TypeOK' /\ Live' = Live
    BY <2>1, TablesStay DEF IInv, TypeOK, tables, history
  <2>3. Numbering'
    BY <2>1, <2>2 DEF IInv, Numbering
  <2> QED
    BY <2>1, <2>2, <2>3, TablesStay DEF IInv
<1> QED
  BY <1>1, <1>2, <1>3, <1>4, <1>5 DEF Next

(* The inductive invariant holds in every reachable state of the store.     *)
THEOREM Invariance == Spec => []IInv
<1> QED
  BY InitInv, NextInv, PTL DEF Spec

(* Tables, counters and history keep their types: the counters never run    *)
(* out of the numbers the tables use.                                       *)
THEOREM TypeCorrect == Spec => []TypeOK
<1>1. IInv => TypeOK
  BY DEF IInv
<1> QED
  BY <1>1, Invariance, PTL

(* disk_add_fact never answers with a key that holds another fact, although *)
(* it ignores the error of the insert.                                      *)
THEOREM AnswersAreStored == Spec => []ReportedStored
<1>1. IInv => ReportedStored
  BY FactStoreAssumption DEF IInv, ToldExactly, ReportedStored
<1> QED
  BY <1>1, Invariance, PTL

(* A column that is not NULL leads back to its word, for ever, however far  *)
(* behind the word counters of the processes are.                           *)
THEOREM ColumnsAreRight == Spec => []ColumnsResolve
<1>1. IInv => ColumnsResolve
  BY DEF IInv
<1> QED
  BY <1>1, Invariance, PTL

(* With a word counter that is not behind, an add loses at most the columns *)
(* that hold the text of the subjects.                                      *)
THEOREM LossIsBounded == Spec => []OnlySubjectLost
<1>1. IInv => OnlySubjectLost
  BY DEF IInv
<1> QED
  BY <1>1, Invariance, PTL

(* ... and the fact is found by every word of its index as long as it is    *)
(* there.                                                                   *)
THEOREM FactsAreFound == Spec => []FoundByItsWords
<1>1. IInv => FoundByItsWords
  BY DEF IInv
<1> QED
  BY <1>1, Invariance, PTL

(* The remains that deletes leave in the index and the flags only reach     *)
(* facts whose key was freed before.                                        *)
THEOREM RemainsStayAway == Spec => []NewKeysAreClean
<1>1. IInv => NewKeysAreClean
  <2> SUFFICES ASSUME IInv, NEW k \in Live \ freed
               PROVE  /\ flag[k] = FlagOf[facts[k].fact]
                      /\ \A w \in Words : k \in Found(w) => w \in Texts(facts[k].fact)
    BY DEF NewKeysAreClean
  <2>1. k \in Pk \ freed /\ facts[k] # None
    BY DEF Live
  <2>2. CleanKey(k)
    BY <2>1 DEF IInv, CleanKeys
  <2> QED
    BY <2>1, <2>2 DEF CleanKey, Found
<1> QED
  BY <1>1, Invariance, PTL

(* The store implements the knowledge base: adds learn a fact under a fresh *)
(* key, deletes forget, and nothing else touches what callers were told.    *)
THEOREM Implementation == Spec => AnswersAreFresh
<1>1. Init => Answers!Init
  BY DEF Init, Answers!Init
<1>2. IInv /\ [Next]_vars => [Answers!Next]_told
  <2> SUFFICES ASSUME IInv, [Next]_vars PROVE [Answers!Next]_told
    OBVIOUS
  <2>1. ASSUME NEW p \in Procs, NEW f \in Facts, AddFact(p, f) PROVE Answers!Next
    <3>1. PICK last \in 0..MaxPk : /\ session = p /\ LastPk(p, last)
                                   /\ last + 1 \in Pk
                                   /\ told' = [told EXCEPT ![last + 1] = f]
      BY <2>1 DEF AddFact
    <3>2. last + 1 \notin Live
      BY <3>1, NewKeyIsFree, FactStoreAssumption
    <3>3. told[last + 1] = None
      BY <3>1, <3>2 DEF IInv, ToldExactly, Live
    <3>4. Answers!Learn(last + 1, f)
      BY <3>1, <3>3 DEF Answers!Learn
    <3> QED
      BY <3>1, <3>4 DEF Answers!Next
  <2>2. ASSUME NEW p \in Procs, NEW gone \in SUBSET Live, Delete(p, gone)
        PROVE  Answers!Next
    <3>1. gone \in SUBSET Pk
      BY DEF Live
    <3>2. Answers!Forget(gone)
      BY <2>2 DEF Delete, Answers!Forget
    <3> QED
      BY <3>1, <3>2 DEF Answers!Next
  <2>3. ASSUME NEW p \in Procs, NewProcess(p) \/ Begin(p) \/ End(p)
        PROVE  told' = told
    BY <2>3 DEF NewProcess, Begin, End, history
  <2>4. CASE UNCHANGED vars
    BY <2>4 DEF vars, history
  <2>5. ASSUME NEW p \in Procs, NEW f \in Facts, DeleteEverythingFrom(p, FileOf[f])
        PROVE  Answers!Next
    <3> DEFINE gone == {k \in Live : FileOf[facts[k].fact] = FileOf[f]}
    <3>1. gone \in SUBSET Live /\ Delete(p, gone)
      BY <2>5 DEF DeleteEverythingFrom
    <3> QED
      BY <3>1, <2>2
  <2>6. ASSUME NEW p \in Procs, DelRecord(p) PROVE Answers!Next
    BY <2>2, <2>6 DEF DelRecord
  <2> QED
    BY <2>1, <2>3, <2>4, <2>5, <2>6 DEF Next
<1> QED
  BY <1>1, <1>2, Invariance, PTL DEF Spec, AnswersAreFresh, Answers!Spec
=============================================================================
