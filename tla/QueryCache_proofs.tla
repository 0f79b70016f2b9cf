-------------------------- MODULE QueryCache_proofs --------------------------
(***************************************************************************)
(* The safety properties of QueryCache, for any questions, facts and       *)
(* hashes, any size of the cache and any limit.                            *)
(*                                                                         *)
(* What a net found depends on what the cache held when it asked.  So the  *)
(* entries come first (EntriesAreCurrent): the cache is empty when a       *)
(* search begins, and the facts change between searches only.  Given that, *)
(* a net that was not cut off has found what the database has              *)
(* (AnswersComplete).  NetStarts says that a net starts from nothing.      *)
(***************************************************************************)
EXTENDS QueryCache, FiniteSetTheorems, TLAPS

(* Before its first lookup a net has found nothing, and so it is between    *)
(* nets.                                                                    *)
NetStarts ==
  /\ phase \in {"idle", "search"} => lookups = 0
  /\ lookups = 0 =>
       /\ asked = {} /\ found = {} /\ position = 0
       /\ ~tooMuch /\ ~mixed /\ ~partial

IInv ==
  /\ TypeOK
  /\ NetStarts
  /\ EntriesAreCurrent
  /\ OnlyAlike
  /\ AnswersComplete

USE QueryCacheAssumption

-----------------------------------------------------------------------------
(* What a lookup takes.                                                     *)

(* callback_get_facts never fills the array beyond its limit.               *)
LEMMA TakesBounds ==
  ASSUME NEW rows \in SUBSET Facts, NEW taken, Takes(rows, taken), position \in 0..Limit
  PROVE  /\ taken \in SUBSET Facts
         /\ Cardinality(taken) \in Nat
         /\ position + Cardinality(taken) \in 0..Limit
<1>1. taken \subseteq rows
  BY DEF Takes
<1>2. IsFiniteSet(rows) /\ IsFiniteSet(taken)
  BY <1>1, FS_Subset
<1>3. Cardinality(rows) \in Nat /\ Cardinality(taken) \in Nat
  BY <1>2, FS_CardinalityType
<1>4. CASE Cardinality(rows) <= Limit - position
  BY <1>1, <1>3, <1>4 DEF Takes
<1>5. CASE ~(Cardinality(rows) <= Limit - position)
  BY <1>1, <1>3, <1>5 DEF Takes
<1> QED BY <1>4, <1>5

(* Rows are left out only if that makes the lookup answer TOOMUCH.          *)
LEMMA TakesAll ==
  ASSUME NEW rows \in SUBSET Facts, NEW taken, Takes(rows, taken), position \in 0..Limit,
         ~IsTooMuch(position + Cardinality(taken))
  PROVE  taken = rows
<1>1. Cardinality(taken) \in Nat
  BY TakesBounds
<1>2. ~(Cardinality(taken) = Limit - position)
  BY <1>1 DEF IsTooMuch
<1> QED BY <1>2 DEF Takes

-----------------------------------------------------------------------------
(* One lookup: what it takes are rows of "rows", for question q.  Replaying *)
(* and asking have this in common.                                          *)
LookedUp(q, rows, taken) ==
  /\ Takes(rows, taken)
  /\ Collect(q, taken)
  /\ partial' \in BOOLEAN /\ mixed' \in BOOLEAN
  /\ partial => partial'
  /\ mixed => mixed'
  /\ phase = "deep" /\ taken # rows => partial'

(* The facts of a lookup keep the invariants of the net.                    *)
LEMMA CollectKeeps ==
  ASSUME NEW q \in Questions, NEW rows \in SUBSET Facts, NEW taken,
         IInv, phase = "net" \/ (phase = "deep" /\ lookups = 0),
         LookedUp(q, rows, taken),
         rows \subseteq db,
         \A f \in rows : \E r \in Questions :
           f \in FactsOf[r] /\ Hash[r][1] = Hash[q][1] /\ Hash[r][2] = Hash[q][2],
         ~mixed' /\ ~partial' => rows = FactsOf[q] \intersect db
  PROVE  /\ db' = db /\ phase' = phase
         /\ asked' \subseteq Questions /\ lookups' \in Nat \ {0} /\ found' \subseteq Facts
         /\ position' \in 0..Limit /\ tooMuch' \in BOOLEAN
         /\ OnlyAlike' /\ AnswersComplete'
<1>1. /\ db' = db /\ phase' = phase /\ asked' = asked \union {q}
      /\ lookups' = lookups + 1 /\ found' = found \union taken
      /\ position' = position + Cardinality(taken)
  BY DEF LookedUp, Collect
<1>2. /\ asked \subseteq Questions /\ lookups \in Nat /\ found \subseteq Facts
      /\ position \in 0..Limit /\ tooMuch \in BOOLEAN
  BY DEF IInv, TypeOK
<1>3. taken \subseteq rows /\ taken \in SUBSET Facts /\ position' \in 0..Limit
  BY <1>1, <1>2, TakesBounds DEF LookedUp, Takes
<1>4. tooMuch' \in BOOLEAN
  BY <1>2 DEF LookedUp, Collect, IsTooMuch
<1>5. OnlyAlike'
  <2> SUFFICES ASSUME NEW f \in found'
               PROVE  f \in db /\ \E a \in asked', r \in Questions :
                        /\ f \in FactsOf[r]
                        /\ Hash[r][1] = Hash[a][1] /\ Hash[r][2] = Hash[a][2]
    BY <1>1 DEF OnlyAlike
  <2>1. CASE f \in found
    BY <1>1, <2>1 DEF IInv, OnlyAlike
  <2>2. CASE f \in taken
    BY <1>1, <1>3, <2>2
  <2> QED BY <1>1, <2>1, <2>2
<1>6. AnswersComplete'
  <2> SUFFICES ASSUME ~tooMuch', ~mixed', ~partial'
               PROVE  found' = UNION {FactsOf[a] \intersect db : a \in asked'}
    BY <1>1 DEF AnswersComplete
  <2>1. ~mixed /\ ~partial /\ rows = FactsOf[q] \intersect db
    BY DEF LookedUp
  <2>2. taken = rows /\ ~tooMuch
    <3>1. CASE phase = "deep"
      BY <3>1 DEF LookedUp, IInv, NetStarts
    <3>2. CASE phase = "net"
      <4>1. ~tooMuch /\ ~IsTooMuch(position + Cardinality(taken))
        BY <1>1, <3>2 DEF LookedUp, Collect
      <4> QED BY <1>2, <4>1, TakesAll DEF LookedUp
    <3> QED BY <3>1, <3>2
  <2>3. found = UNION {FactsOf[a] \intersect db : a \in asked}
    BY <2>1, <2>2 DEF IInv, AnswersComplete
  <2> QED BY <1>1, <2>1, <2>2, <2>3
<1> QED BY <1>1, <1>2, <1>3, <1>4, <1>5, <1>6

-----------------------------------------------------------------------------
(* The invariant.                                                           *)

THEOREM InitIInv == Init => IInv
<1> SUFFICES ASSUME Init PROVE IInv
  OBVIOUS
<1>1. TypeOK
  <2>1. tooMuch \in BOOLEAN /\ mixed \in BOOLEAN /\ partial \in BOOLEAN
    BY Zenon DEF Init
  <2>2. cache \in Seq(Entry) /\ Len(cache) <= CacheSize /\ position \in 0..Limit
    BY DEF Init
  <2> QED BY <2>1, <2>2 DEF Init, TypeOK
<1>2. NetStarts /\ EntriesAreCurrent /\ OnlyAlike
  BY DEF Init, NetStarts, EntriesAreCurrent, OnlyAlike
<1>3. AnswersComplete
  BY DEF Init, AnswersComplete
<1> QED BY <1>1, <1>2, <1>3 DEF IInv

(* What the entries are worth depends on the cache, on the facts and on     *)
(* whether a search is going on.                                            *)
LEMMA SameEntries ==
  ASSUME EntriesAreCurrent, UNCHANGED <<cache, db>>, phase # "idle"
  PROVE  EntriesAreCurrent'
BY DEF EntriesAreCurrent

(* Replay.                                                                  *)
LEMMA ReplayKeepsIInv ==
  ASSUME IInv, NEW q \in Questions, Lookup(q), Replay(q)
  PROVE  IInv'
<1>1. phase = "net" \/ (phase = "deep" /\ lookups = 0)
  BY DEF Lookup
<1>2. PICK i \in Matching(q) : \E taken \in SUBSET cache[i].rows :
        /\ Takes(cache[i].rows, taken)
        /\ Collect(q, taken)
        /\ partial' = (partial \/ cache[i].cut \/ (phase = "deep" /\ taken # cache[i].rows))
        /\ mixed' = (mixed \/ cache[i].of # q)
  BY DEF Replay
<1> DEFINE e == cache[i]
<1>3. i \in DOMAIN cache /\ e \in Entry
  BY DEF Matching, IInv, TypeOK
<1>4. /\ e.hash[1] = Hash[q][1] /\ e.hash[2] = Hash[q][2]
      /\ e.hash = Hash[e.of] /\ e.of \in Questions /\ e.rows \in SUBSET Facts
      /\ e.rows \subseteq FactsOf[e.of] \intersect db
      /\ ~e.cut => e.rows = FactsOf[e.of] \intersect db
      /\ e.cut \in BOOLEAN
  BY <1>1, <1>3 DEF Matching, Matches, IInv, EntriesAreCurrent, Entry
<1>5. PICK taken : LookedUp(q, e.rows, taken) /\ partial' = (partial \/ e.cut \/ (phase = "deep" /\ taken # e.rows))
        /\ mixed' = (mixed \/ e.of # q)
  <2>1. PICK taken \in SUBSET e.rows :
          /\ Takes(e.rows, taken)
          /\ Collect(q, taken)
          /\ partial' = (partial \/ e.cut \/ (phase = "deep" /\ taken # e.rows))
          /\ mixed' = (mixed \/ e.of # q)
    BY <1>2
  <2>2. partial' \in BOOLEAN /\ mixed' \in BOOLEAN
    BY <2>1
  <2> QED BY <2>1, <2>2 DEF LookedUp
<1>6. ~mixed' /\ ~partial' => e.rows = FactsOf[q] \intersect db
  BY <1>4, <1>5
<1>7. \A f \in e.rows : \E r \in Questions :
        f \in FactsOf[r] /\ Hash[r][1] = Hash[q][1] /\ Hash[r][2] = Hash[q][2]
  BY <1>4
<1> HIDE DEF e
<1>8. /\ db' = db /\ phase' = phase
      /\ asked' \subseteq Questions /\ lookups' \in Nat \ {0} /\ found' \subseteq Facts
      /\ position' \in 0..Limit /\ tooMuch' \in BOOLEAN
      /\ OnlyAlike' /\ AnswersComplete'
  BY <1>1, <1>4, <1>5, <1>6, <1>7, CollectKeeps
<1>9. cache' = cache
  BY DEF Replay
<1>10. TypeOK'
  BY <1>5, <1>8, <1>9 DEF IInv, TypeOK, LookedUp
<1>11. NetStarts'
  BY <1>1, <1>8 DEF NetStarts
<1>12. EntriesAreCurrent'
  BY <1>1, <1>8, <1>9, SameEntries DEF IInv
<1> QED BY <1>8, <1>10, <1>11, <1>12 DEF IInv

(* Query: the new entry holds what the database has now.                    *)
LEMMA QueryKeepsIInv ==
  ASSUME IInv, NEW q \in Questions, Lookup(q), Query(q)
  PROVE  IInv'
<1>1. phase = "net" \/ (phase = "deep" /\ lookups = 0)
  BY DEF Lookup
<1> DEFINE rows == FactsOf[q] \intersect db
           old == IF Full THEN <<>> ELSE cache
           new(taken) ==
             [hash |-> Hash[q], of |-> q, rows |-> taken, cut |-> taken # rows]
<1>2. rows \in SUBSET Facts /\ rows \subseteq db
  BY DEF IInv, TypeOK
<1>3. PICK taken :
        /\ taken \subseteq rows
        /\ LookedUp(q, rows, taken)
        /\ cache' = Append(old, new(taken))
  <2>1. PICK taken \in SUBSET rows :
          /\ Takes(rows, taken)
          /\ Collect(q, taken)
          /\ partial' = (partial \/ (phase = "deep" /\ taken # rows))
          /\ cache' = Append(old, new(taken))
    BY DEF Query
  <2>2. partial' \in BOOLEAN /\ mixed' = mixed /\ mixed \in BOOLEAN
    BY <2>1 DEF Query, IInv, TypeOK
  <2> QED BY <2>1, <2>2 DEF LookedUp
<1>4. new(taken) \in Entry
  BY <1>2, <1>3 DEF Entry
<1>5. old \in Seq(Entry) /\ Len(old) < CacheSize /\ Len(old) \in Nat
  BY DEF IInv, TypeOK, Full
<1>6. /\ cache' \in Seq(Entry) /\ Len(cache') = Len(old) + 1
      /\ \A i \in DOMAIN cache' :
           \/ i \in DOMAIN old /\ cache'[i] = old[i]
           \/ cache'[i] = new(taken)
  BY <1>3, <1>4, <1>5
<1>7. \A f \in rows : \E r \in Questions :
        f \in FactsOf[r] /\ Hash[r][1] = Hash[q][1] /\ Hash[r][2] = Hash[q][2]
  OBVIOUS
<1>8. \A i \in DOMAIN old : old[i] = cache[i] /\ i \in DOMAIN cache
  BY DEF Full
<1>9. /\ new(taken).hash = Hash[new(taken).of]
      /\ new(taken).rows \subseteq FactsOf[new(taken).of] \intersect db
      /\ ~new(taken).cut => new(taken).rows = FactsOf[new(taken).of] \intersect db
  BY <1>3
<1>10. ~mixed' /\ ~partial' => rows = FactsOf[q] \intersect db
  OBVIOUS
<1> HIDE DEF rows, old, new
<1>11. /\ db' = db /\ phase' = phase
       /\ asked' \subseteq Questions /\ lookups' \in Nat \ {0} /\ found' \subseteq Facts
       /\ position' \in 0..Limit /\ tooMuch' \in BOOLEAN
       /\ OnlyAlike' /\ AnswersComplete'
  BY <1>1, <1>2, <1>3, <1>7, <1>10, CollectKeeps
<1>12. TypeOK'
  <2>1. Len(cache') <= CacheSize
    BY <1>5, <1>6
  <2> QED BY <1>3, <1>6, <1>11, <2>1 DEF IInv, TypeOK, LookedUp
<1>13. NetStarts'
  BY <1>1, <1>11 DEF NetStarts
<1>14. EntriesAreCurrent'
  <2> SUFFICES ASSUME NEW i \in DOMAIN cache'
               PROVE  /\ cache'[i].hash = Hash[cache'[i].of]
                      /\ cache'[i].rows \subseteq FactsOf[cache'[i].of] \intersect db
                      /\ ~cache'[i].cut =>
                           cache'[i].rows = FactsOf[cache'[i].of] \intersect db
    BY <1>11 DEF EntriesAreCurrent
  <2>1. CASE i \in DOMAIN old /\ cache'[i] = old[i]
    BY <1>1, <1>8, <2>1 DEF IInv, EntriesAreCurrent
  <2>2. CASE cache'[i] = new(taken)
    BY <1>9, <2>2
  <2> QED BY <1>6, <2>1, <2>2
<1> QED BY <1>11, <1>12, <1>13, <1>14 DEF IInv

THEOREM NextKeepsIInv == IInv /\ [Next]_vars => IInv'
<1> SUFFICES ASSUME IInv, [Next]_vars
             PROVE  IInv'
  OBVIOUS
<1> USE DEF IInv
<1>1. CASE ChangeFacts
  BY <1>1 DEF ChangeFacts, net, TypeOK, NetStarts, EntriesAreCurrent, OnlyAlike, AnswersComplete
<1>2. CASE BeginSearch
  BY <1>2 DEF BeginSearch, net, TypeOK, NetStarts, EntriesAreCurrent, OnlyAlike, AnswersComplete
<1>3. CASE EndSearch
  BY <1>3 DEF EndSearch, net, TypeOK, NetStarts, EntriesAreCurrent, OnlyAlike, AnswersComplete
<1>4. CASE BeginNet
  BY <1>4 DEF BeginNet, net, TypeOK, NetStarts, EntriesAreCurrent, OnlyAlike, AnswersComplete
<1>5. CASE EndNet
  <2>1. TypeOK' /\ NetStarts'
    <3>1. /\ tooMuch' \in BOOLEAN /\ mixed' \in BOOLEAN /\ partial' \in BOOLEAN
          /\ ~tooMuch' /\ ~mixed' /\ ~partial'
      BY <1>5, Zenon DEF EndNet, Fresh
    <3> QED BY <1>5, <3>1 DEF EndNet, Fresh, TypeOK, NetStarts
  <2>2. EntriesAreCurrent'
    BY <1>5, SameEntries DEF EndNet
  <2>3. OnlyAlike' /\ AnswersComplete'
    BY <1>5 DEF EndNet, Fresh, OnlyAlike, AnswersComplete
  <2> QED BY <2>1, <2>2, <2>3
<1>6. ASSUME NEW q \in Questions, Lookup(q) PROVE IInv'
  BY <1>6, ReplayKeepsIInv, QueryKeepsIInv DEF Lookup
<1>7. CASE UNCHANGED vars
  BY <1>7 DEF vars, net, TypeOK, NetStarts, EntriesAreCurrent, OnlyAlike, AnswersComplete
<1> QED BY <1>1, <1>2, <1>3, <1>4, <1>5, <1>6, <1>7 DEF Next

LEMMA Invariance == Spec => []IInv
BY InitIInv, NextKeepsIInv, PTL DEF Spec

-----------------------------------------------------------------------------
(* The properties.                                                          *)

(* The list of entries stays within the memory allocated for it and a net   *)
(* within its array, for any sizes of both.                                 *)
THEOREM TypeCorrect == Spec => []TypeOK
BY Invariance, PTL DEF IInv

(* An entry that a search can replay is what the database would answer now  *)
(* to the entry's question, unless the limit has cut it off.                *)
THEOREM CacheIsCurrent == Spec => []EntriesAreCurrent
BY Invariance, PTL DEF IInv

(* A net that does not answer TOOMUCH has found every fact it asked for,    *)
(* unless it replayed an entry of another question or an incomplete one.    *)
THEOREM NothingMissed == Spec => []AnswersComplete
BY Invariance, PTL DEF IInv

(* What a net finds is in the database, for one of its questions or one     *)
(* with the same first two hashes.                                          *)
THEOREM NothingForeign == Spec => []OnlyAlike
BY Invariance, PTL DEF IInv
=============================================================================
