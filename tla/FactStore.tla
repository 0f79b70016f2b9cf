----------------------------- MODULE FactStore -----------------------------
(***************************************************************************)
(* The "disk" engine: the tables that hold what FreeHAL knows, and the     *)
(* counters that each process keeps in memory to number new rows.          *)
(*                                                                         *)
(* A fact is a row of the table facts; its columns are ids of the table    *)
(* word.  The verb flags of a fact are a row of rel_fact_flag, and the     *)
(* search index rel_word_fact relates the ids of its words to its key.     *)
(* Keys and ids are chosen by the program, not by SQLite, from the two     *)
(* counters disk_cache_facts and disk_cache_wordid.  A cold counter reads  *)
(* the largest number in use from the table.  Only the first of the two is *)
(* made cold again when a session begins.                                  *)
(*                                                                         *)
(* Sessions are taken to be exclusive, which is what DbLock establishes    *)
(* for processes that did not race.  The disk outlives every process.      *)
(***************************************************************************)
EXTENDS Integers, Sequences, FiniteSets

CONSTANTS
  Procs,       (* Processes that open the database.                          *)
  Words,       (* Texts that may be stored in the table word.                *)
  Empty,       (* The empty text, one of them.                               *)
  Facts,       (* Facts that may be added.                                   *)
  EntryWords,  (* Fact -> subjects, objects, adverbs, last word of the       *)
               (* subjects, last word of the objects, question word, verb.   *)
  IndexWords,  (* Fact -> the words it is indexed by, in order.              *)
  FlagOf,      (* Fact -> its verb flags.                                    *)
  FileOf,      (* Fact -> the file it comes from.                            *)
  Garbage,     (* What an empty table leaves in the uninitialised buffer     *)
               (* that get_last_pk reads as a number.                        *)
  None, Null,  (* No row; SQL's NULL.                                        *)
  MaxPk,       (* Bound: largest key of a fact.                              *)
  MaxId        (* Bound: largest id of a word.                               *)

Pk  == 1..MaxPk
Ids == 0..MaxId
Cold == -1

(* The ids of "" and "_", stored with the tables.                           *)
Reserved == {0, 1}

(* The places of EntryWords[f] that are columns of the row.                 *)
Columns == {1, 2, 3, 6, 7}
Row == [fact : Facts, ids : [Columns -> Ids \union {Null}]]

ASSUME FactStoreAssumption ==
  /\ MaxPk \in Nat /\ MaxId \in Nat /\ MaxId >= 1
  /\ Empty \in Words
  /\ EntryWords \in [Facts -> [1..7 -> Words]]
  /\ IndexWords \in [Facts -> Seq(Words)]
  /\ Facts = DOMAIN FlagOf /\ Facts = DOMAIN FileOf
  /\ Garbage \subseteq Nat
  /\ None \notin Procs /\ None \notin Facts /\ None \notin Row
  /\ \A f \in Facts : FlagOf[f] # None
  /\ Null \notin Int

VARIABLES
  session,  (* The process between disk_begin and disk_end, or None.         *)
  cacheF,   (* disk_cache_facts of each process.                             *)
  cacheW,   (* disk_cache_wordid of each process.                            *)
  idOf,     (* Table word: text -> id, or Null when it is not stored.        *)
  facts,    (* Table facts: key -> row, or None.                             *)
  flag,     (* Table rel_fact_flag: key -> flags, or None.                   *)
  index,    (* Table rel_word_fact: pairs of a word's id and a key.          *)
  told,     (* History: key -> the fact whose add answered with that key,    *)
            (* until it is deleted.                                          *)
  freed,    (* History: keys whose row has been deleted.                     *)
  late      (* History: keys given out while the process' word counter was   *)
            (* warm and behind the table.                                    *)

tables == <<idOf, facts, flag, index>>
history == <<told, freed, late>>
vars == <<session, cacheF, cacheW, tables, history>>

Init ==
  /\ session = None
  /\ cacheF = [p \in Procs |-> Cold]
  /\ cacheW = [p \in Procs |-> Cold]
  /\ idOf = [w \in Words |-> IF w = Empty THEN 0 ELSE Null]
  /\ facts = [k \in Pk |-> None]
  /\ flag = [k \in Pk |-> None]
  /\ index = {}
  /\ told = [k \in Pk |-> None]
  /\ freed = {}
  /\ late = {}

-----------------------------------------------------------------------------
Live == {k \in Pk : facts[k] # None}
UsedIds(ids) == Reserved \union ({ids[w] : w \in Words} \ {Null})
IsMax(n, S) == n \in S /\ \A m \in S : m <= n

Texts(f) == {IndexWords[f][i] : i \in DOMAIN IndexWords[f]}

(* Refuted variant: the number of rows in place of the largest key.         *)
LastPkCount(p, k) ==
  IF cacheF[p] # Cold THEN k = cacheF[p] + 1 ELSE k = Cardinality(Live)

(* get_last_pk(0) returns k: the warm counter incremented, or the largest   *)
(* key there is, or whatever the buffer held when there is none.            *)
LastPk(p, k) ==
  IF cacheF[p] # Cold THEN k = cacheF[p] + 1
  ELSE IF Live = {} THEN k \in Garbage
  ELSE IsMax(k, Live)

(* Refuted variant: a cold counter that starts from nothing.                *)
LastWordIdFromZero(p, n) ==
  IF cacheW[p] # Cold THEN n = cacheW[p] + 1 ELSE n = 0

(* get_last_wordid() returns n.  The largest id itself is the first one     *)
(* that a process with a cold counter tries.                                *)
LastWordId(p, n) ==
  IF cacheW[p] # Cold THEN n = cacheW[p] + 1 ELSE IsMax(n, UsedIds(idOf))

(* A batch of sql_set_word: INSERT OR IGNORE of every word of ws under the  *)
(* ids n, n+1, ...  A word that is stored keeps its id; an id that is taken *)
(* leaves its word unstored.                                                *)
(* (The refuted variant does not mind an id that is taken.)                 *)
TakesAnyway(ids, ws, n, i) ==
  \A j \in DOMAIN ws : j < i => ws[j] # ws[i]

Takes(ids, ws, n, i) ==
  /\ n + i - 1 \notin UsedIds(ids)
  /\ \A j \in DOMAIN ws : j < i /\ ws[j] = ws[i] => n + j - 1 \in UsedIds(ids)

TakesFor(ids, ws, n, w) == {i \in DOMAIN ws : ws[i] = w /\ Takes(ids, ws, n, i)}

StoreWords(ids, ws, n) ==
  [w \in Words |->
     IF ids[w] # Null \/ TakesFor(ids, ws, n, w) = {} THEN ids[w]
     ELSE n - 1 + (CHOOSE i \in TakesFor(ids, ws, n, w) : TRUE)]

(* sql_execute answers NOT_UNIQUE to the batch with the row and its flags:  *)
(* one of the two tables has the key.                                       *)
NotUnique(k) == k \in Live \/ flag[k] # None

(* INSERT INTO facts: fails when the key is taken.                          *)
InsertFact(k, f, ids) ==
  facts' = IF k \in Live THEN facts
           ELSE [facts EXCEPT ![k] =
                   [fact |-> f, ids |-> [c \in Columns |-> ids[EntryWords[f][c]]]]]

(* INSERT INTO rel_fact_flag, in the same batch: not reached when the first *)
(* failed, and fails when an earlier fact left its flags under this key.    *)
InsertFlags(k, f) ==
  flag' = IF NotUnique(k) THEN flag
          ELSE [flag EXCEPT ![k] = FlagOf[f]]

(* Refuted variants: no index after an error of the first batch, and a      *)
(* second call of get_last_pk for the key of the index.                     *)
InsertIndexUnlessError(k, f, ids) ==
  index' = IF NotUnique(k) THEN index
           ELSE index \union {<<ids[w], k>> : w \in {v \in Texts(f) : ids[v] # Null}}

InsertIndexNextKey(k, f, ids) ==
  index' = index \union {<<ids[w], k + 1>> : w \in {v \in Texts(f) : ids[v] # Null}}

(* INSERT OR IGNORE INTO rel_word_fact, one per word.                       *)
InsertIndex(k, f, ids) ==
  index' = index \union {<<ids[w], k>> : w \in {v \in Texts(f) : ids[v] # Null}}

(* The keys of the facts that a search for word w reads.                    *)
Found(w) == {k \in Live : idOf[w] # Null /\ <<idOf[w], k>> \in index}

-----------------------------------------------------------------------------
(* A process starts where an earlier one has ended: static counters.        *)
NewProcess(p) ==
  /\ session # p
  /\ cacheF' = [cacheF EXCEPT ![p] = Cold]
  /\ cacheW' = [cacheW EXCEPT ![p] = Cold]
  /\ UNCHANGED <<session, tables, history>>

(* Refuted variant: disk_cache_facts stays as it is, too.                   *)
BeginWarm(p) ==
  /\ session = None
  /\ session' = p
  /\ UNCHANGED <<cacheF, cacheW, tables, history>>

(* disk_begin: disk_cache_wordid stays as it is.                            *)
Begin(p) ==
  /\ session = None
  /\ session' = p
  /\ cacheF' = [cacheF EXCEPT ![p] = Cold]
  /\ UNCHANGED <<cacheW, tables, history>>

End(p) ==
  /\ session = p
  /\ session' = None
  /\ UNCHANGED <<cacheF, cacheW, tables, history>>

(* disk_add_fact.  The second batch, with the index, runs whatever became   *)
(* of the first, and only its error is reported: the caller is always told  *)
(* that the fact has the key.                                               *)
AddFact(p, f) ==
  /\ session = p
  /\ \E last \in 0..MaxPk, n \in Ids :
       LET k == last + 1
           m == n + 7
           ids1 == StoreWords(idOf, EntryWords[f], n)
           ids2 == StoreWords(ids1, IndexWords[f], m)
       IN
       /\ LastPk(p, last) /\ LastWordId(p, n)
       /\ k \in Pk /\ m + Len(IndexWords[f]) - 1 \in Ids
       /\ InsertFact(k, f, ids1)
       /\ InsertFlags(k, f)
       /\ InsertIndex(k, f, ids2)
       /\ idOf' = ids2
       /\ cacheF' = [cacheF EXCEPT ![p] = IF NotUnique(k) THEN Cold ELSE last]
       /\ cacheW' = [cacheW EXCEPT ![p] = m + Len(IndexWords[f]) - 1]
       /\ told' = [told EXCEPT ![k] = f]
       /\ late' = IF cacheW[p] # Cold /\ \E id \in UsedIds(idOf) : id > cacheW[p]
                    THEN late \union {k} ELSE late \ {k}
  /\ UNCHANGED <<session, freed>>

(* Refuted variant: the delete counts the key counter down.                 *)
DeleteCounting(p, gone) ==
  /\ session = p
  /\ facts' = [k \in Pk |-> IF k \in gone THEN None ELSE facts[k]]
  /\ told' = [k \in Pk |-> IF k \in gone THEN None ELSE told[k]]
  /\ freed' = freed \union gone
  /\ cacheF' = [cacheF EXCEPT ![p] = @ - 1]
  /\ UNCHANGED <<session, cacheW, idOf, flag, index, late>>

(* DELETE FROM facts: the flags and the index keep what they have.          *)
Delete(p, gone) ==
  /\ session = p
  /\ facts' = [k \in Pk |-> IF k \in gone THEN None ELSE facts[k]]
  /\ told' = [k \in Pk |-> IF k \in gone THEN None ELSE told[k]]
  /\ freed' = freed \union gone
  /\ UNCHANGED <<session, cacheF, cacheW, idOf, flag, index, late>>

(* disk_del_record, with a key or with "a" for the latest fact.             *)
DelRecord(p) == \E k \in Live : Delete(p, {k})

(* disk_delete_everything_from.                                             *)
DeleteEverythingFrom(p, file) ==
  Delete(p, {k \in Live : FileOf[facts[k].fact] = file})

Next == \E p \in Procs :
  \/ NewProcess(p) \/ Begin(p) \/ End(p)
  \/ \E f \in Facts : AddFact(p, f)
  \/ DelRecord(p)
  \/ \E f \in Facts : DeleteEverythingFrom(p, FileOf[f])

Spec == Init /\ [][Next]_vars

-----------------------------------------------------------------------------
(* Properties.                                                              *)

(* Tables, counters and history keep their types.                           *)
TypeOK ==
  /\ session \in Procs \union {None}
  /\ cacheF \in [Procs -> {Cold} \union 0..MaxPk]
  /\ cacheW \in [Procs -> {Cold} \union Ids]
  /\ idOf \in [Words -> Ids \union {Null}]
  /\ facts \in [Pk -> Row \union {None}]
  /\ flag \in [Pk -> {FlagOf[f] : f \in Facts} \union {None}]
  /\ index \subseteq Ids \X Pk
  /\ told \in [Pk -> Facts \union {None}]
  /\ freed \subseteq Pk
  /\ late \subseteq Pk

(* disk_add_fact discards the error of the batch that inserts the row.      *)
(* Nevertheless the key it answers with is always the key of that very      *)
(* fact, for as long as nobody deletes it.                                  *)
ReportedStored ==
  \A k \in Pk : told[k] # None => facts[k] # None /\ facts[k].fact = told[k]

(* Ids are chosen by counters that may be behind the table.  Nevertheless   *)
(* no two words ever share one, and a column that is not NULL always leads  *)
(* back to the word it was filled with.                                     *)
ColumnsResolve ==
  /\ \A v, w \in Words : idOf[v] = idOf[w] /\ idOf[v] # Null => v = w
  /\ \A k \in Live : \A c \in Columns :
       facts[k].ids[c] # Null =>
         facts[k].ids[c] = idOf[EntryWords[facts[k].fact][c]]

(* A process whose word counter is not behind the table loses no column of  *)
(* a fact, except the ones that hold the same text as its subjects: these   *)
(* try the first id, which a cold counter takes from the table as it is.    *)
OnlySubjectLost ==
  \A k \in Live \ late : \A c \in Columns :
    LET words == EntryWords[facts[k].fact] IN
    facts[k].ids[c] = Null => words[c] = words[1]

(* A fact stored by a process whose word counter was not behind the table   *)
(* is found by each of its words, also after its key has been reused.       *)
FoundByItsWords ==
  \A k \in Live \ late : \A w \in Texts(facts[k].fact) : k \in Found(w)

(* Deleting a fact leaves its flags and its index behind.  A fact whose key *)
(* was never freed is free of such remains: it has the flags it was given   *)
(* and no search for a word of another fact reads it.                       *)
NewKeysAreClean ==
  \A k \in Live \ freed :
    /\ flag[k] = FlagOf[facts[k].fact]
    /\ \A w \in Words : k \in Found(w) => w \in Texts(facts[k].fact)

(* The answers of disk_add_fact and the deletes are those of a knowledge    *)
(* base: no key is given out while it still stands for another fact,        *)
(* whichever process gave that out and however cold its counters are.       *)
Answers == INSTANCE KnowledgeBase WITH Keys <- Pk, known <- told
AnswersAreFresh == Answers!Spec
=============================================================================
