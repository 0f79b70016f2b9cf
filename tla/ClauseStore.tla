---------------------------- MODULE ClauseStore ----------------------------
(***************************************************************************)
(* Facts and their clauses ("..., if it rains") in the "disk" engine.  A   *)
(* clause is a row of the table clauses; its column rel is the key of its  *)
(* fact.  Facts and clauses are numbered each on their own, and the search *)
(* index holds both: its column table tells them apart, but no search      *)
(* looks at it.                                                            *)
(*                                                                         *)
(* FactStore has the words, the columns and the counters of several        *)
(* processes.  Here sessions follow one another (both counters start cold  *)
(* with each), every session is a transaction, and a process may die in    *)
(* the middle of one.                                                      *)
(***************************************************************************)
EXTENDS Integers, Sequences, FiniteSets

CONSTANTS
  Facts,      (* Facts that may be added.                                    *)
  Clauses,    (* Texts of clauses.                                           *)
  Says,       (* Fact or clause -> what its row may say: words may be lost   *)
              (* when it is stored, see FactStore.                           *)
  Shown,      (* What a search takes: it has a verb and something else.      *)
  ClausesOf,  (* Fact -> its clauses, in order.                              *)
  WordsOf,    (* Fact or clause -> the words it is indexed by.               *)
  FlagOf,     (* Fact or clause -> its verb flags.                           *)
  FileOf,     (* Fact -> its file, which is that of its clauses, too.        *)
  Garbage,    (* What get_last_pk may make of an empty table.                *)
  None,
  MaxKey,     (* Bound: largest key, of a fact or a clause.                  *)
  MaxAdds     (* Bound: facts added.                                         *)

Keys == 1..MaxKey
Tables == {"facts", "clauses"}
Texts == Facts \union Clauses
Words == UNION {WordsOf[x] : x \in Texts}
Flags == {FlagOf[x] : x \in Texts}
Cold == -1

(* text and of are history: what the row was to say, and the fact that came *)
(* with the clause, or the fact.  The line and the file of a row are the    *)
(* fact's.                                                                  *)
Row == [text : Texts, says : UNION {Says[x] : x \in Texts}, rel : 0..MaxKey, of : Facts]

ASSUME ClauseStoreAssumption ==
  /\ Facts \intersect Clauses = {}
  /\ ClausesOf \in [Facts -> Seq(Clauses)]
  /\ Texts = DOMAIN WordsOf /\ Texts = DOMAIN FlagOf /\ Facts = DOMAIN FileOf
  /\ Texts = DOMAIN Says
  /\ Garbage \subseteq Nat
  /\ MaxKey \in Nat /\ MaxAdds \in Nat
  /\ None \notin Row /\ None \notin Flags

VARIABLES
  session,  (* Between disk_begin and disk_end.                              *)
  last,     (* disk_cache_facts, disk_cache_clauses.                         *)
  todo,     (* Clauses that add_xml_fact has still to add, and their fact.   *)
  rows,     (* Tables facts and clauses: key -> row, or None.                *)
  flag,     (* Tables rel_fact_flag and rel_clause_flag: key -> flags.       *)
  index,    (* Table rel_word_fact: word, key, table.                        *)
  freed,    (* History: table -> keys deleted with a file,                   *)
  deleted,  (* keys of facts deleted by key,                                 *)
  given,    (* and clauses that got a key, with it.                          *)
  disk,     (* All of these tables and histories, as last committed.         *)
  adds      (* Facts added, for the bound.                                   *)

tables == <<rows, flag, index, freed, deleted, given>>
vars == <<session, last, todo, tables, disk, adds>>

Done == [fact |-> None, rel |-> 0, clauses |-> <<>>]

Init ==
  /\ session = FALSE
  /\ last = [t \in Tables |-> Cold]
  /\ todo = Done
  /\ rows = [t \in Tables |-> [k \in Keys |-> None]]
  /\ flag = [t \in Tables |-> [k \in Keys |-> None]]
  /\ index = {}
  /\ freed = [t \in Tables |-> {}] /\ deleted = {} /\ given = {}
  /\ disk = tables
  /\ adds = 0

-----------------------------------------------------------------------------
Live(t) == {k \in Keys : rows[t][k] # None}

(* get_last_pk returns n.                                                   *)
LastPk(t, n) ==
  IF last[t] # Cold THEN n = last[t] + 1
  ELSE IF Live(t) = {} THEN n \in Garbage
  ELSE n \in Live(t) /\ \A k \in Live(t) : k <= n

(* The table has the key, or rel_..._flag has it from an earlier row.       *)
NotUnique(t, k) == rows[t][k] # None \/ flag[t][k] # None

(* Refuted variant: flags of clauses go to the facts', too.                 *)
InsertFlagsOfFact(t, k, x) ==
  flag' = IF NotUnique("facts", k) THEN flag
          ELSE [flag EXCEPT !["facts"][k] = FlagOf[x]]

InsertFlags(t, k, x) ==
  flag' = IF NotUnique(t, k) THEN flag ELSE [flag EXCEPT ![t][k] = FlagOf[x]]

(* Refuted variant: the index gets the next key.                            *)
InsertIndexNextKey(t, k, x) ==
  index' = index \union {<<w, k + 1, t>> : w \in WordsOf[x]}

InsertIndex(t, k, x) ==
  index' = index \union {<<w, k, t>> : w \in WordsOf[x]}

(* disk_add_fact and disk_add_clause insert row x under the key k.  An      *)
(* error stops a batch, is reported to nobody and makes both counters cold. *)
Insert(t, k, row) ==
  /\ k \in Keys
  /\ LastPk(t, k - 1)
  /\ rows' = IF rows[t][k] # None THEN rows ELSE [rows EXCEPT ![t][k] = row]
  /\ InsertFlags(t, k, row.text)
  /\ InsertIndex(t, k, row.text)
  /\ last' = IF NotUnique(t, k) THEN [u \in Tables |-> Cold]
             ELSE [last EXCEPT ![t] = k - 1]

(* gen_sql_get_clauses_for_rel: the rows of the clauses of fact k.          *)
ClausesFor(k) ==
  {c \in Live("clauses") : rows["clauses"][c].rel = k /\ flag["clauses"][c] # None}

(* Refuted variant: the clause with the key k instead of those of fact k.   *)
AnswersByKey(k) ==
  {[says |-> rows["clauses"][c].says, flag |-> flag["clauses"][c], of |-> rows["clauses"][c].of] :
     c \in {c \in Live("clauses") : c = k}}

(* SELECT DISTINCT: rows that do not differ are one answer; and             *)
(* callback_get_facts leaves out those without a verb or anything else.     *)
(* The answers have no order.                                               *)
Answers(k) ==
  {[says |-> rows["clauses"][c].says, flag |-> flag["clauses"][c], of |-> rows["clauses"][c].of] :
     c \in {c \in ClausesFor(k) : rows["clauses"][c].says \in Shown}}

(* gen_sql_get_facts_for_words: the rows of facts found for word w.         *)
Found(w) == {k \in Live("facts") : \E t \in Tables : <<w, k, t>> \in index}

-----------------------------------------------------------------------------
Begin ==
  /\ ~session
  /\ session' = TRUE
  /\ last' = [t \in Tables |-> Cold]
  /\ UNCHANGED <<todo, tables, disk, adds>>

End ==
  /\ session /\ todo = Done
  /\ session' = FALSE
  /\ disk' = tables
  /\ UNCHANGED <<last, todo, tables, adds>>

(* Refuted variant: no BEGIN, so that nothing is rolled back.               *)
CrashKeeping ==
  /\ session
  /\ session' = FALSE
  /\ todo' = Done
  /\ UNCHANGED <<last, tables, disk, adds>>

(* The process dies, and SQLite rolls its transaction back.                 *)
Crash ==
  /\ session
  /\ session' = FALSE
  /\ todo' = Done
  /\ rows' = disk[1] /\ flag' = disk[2] /\ index' = disk[3]
  /\ freed' = disk[4] /\ deleted' = disk[5] /\ given' = disk[6]
  /\ UNCHANGED <<last, disk, adds>>

(* add_xml_fact begins with disk_add_fact.                                  *)
AddFact(f) ==
  /\ session /\ todo = Done
  /\ adds < MaxAdds /\ adds' = adds + 1
  /\ \E k \in Keys, says \in Says[f] :
       /\ Insert("facts", k, [text |-> f, says |-> says, rel |-> 0, of |-> f])
       /\ todo' = IF ClausesOf[f] = <<>> THEN Done
                  ELSE [fact |-> f, rel |-> k, clauses |-> ClausesOf[f]]
  /\ UNCHANGED <<session, freed, deleted, given, disk>>

(* ... and goes on with disk_add_clause for each of its clauses.            *)
AddClause ==
  /\ session /\ todo # Done
  /\ \E c \in Keys, says \in Says[Head(todo.clauses)] :
       /\ Insert("clauses", c,
            [text |-> Head(todo.clauses), says |-> says, rel |-> todo.rel, of |-> todo.fact])
       /\ given' = given \union {<<c, Head(todo.clauses)>>}
  /\ todo' = IF Len(todo.clauses) = 1 THEN Done
             ELSE [todo EXCEPT !.clauses = Tail(@)]
  /\ UNCHANGED <<session, freed, deleted, disk, adds>>

(* disk_del_record.                                                         *)
DelRecord(k) ==
  /\ session /\ todo = Done
  /\ rows["facts"][k] # None
  /\ rows' = [rows EXCEPT !["facts"][k] = None]
  /\ deleted' = deleted \union {k}
  /\ UNCHANGED <<session, last, todo, flag, index, freed, given, disk, adds>>

(* Refuted variant: the clauses of the file stay.                           *)
OfFileFactsOnly(t, file) ==
  {k \in Live(t) : t = "facts" /\ FileOf[rows[t][k].of] = file}

OfFile(t, file) == {k \in Live(t) : FileOf[rows[t][k].of] = file}

(* disk_delete_everything_from: the clauses, and then the facts.            *)
DeleteEverythingFrom(file) ==
  /\ session /\ todo = Done
  /\ rows' = [t \in Tables |->
       [k \in Keys |-> IF k \in OfFile(t, file) THEN None ELSE rows[t][k]]]
  /\ freed' = [t \in Tables |-> freed[t] \union OfFile(t, file)]
  /\ UNCHANGED <<session, last, todo, flag, index, deleted, given, disk, adds>>

Next ==
  \/ Begin \/ End \/ Crash
  \/ \E f \in Facts : AddFact(f)
  \/ AddClause
  \/ \E k \in Keys : DelRecord(k)
  \/ \E f \in Facts : DeleteEverythingFrom(FileOf[f])

Spec == Init /\ [][Next]_vars

-----------------------------------------------------------------------------
(* Properties.                                                              *)

(* Tables and counters keep their types, and what is committed is all there *)
(* is between sessions.                                                     *)
TypeOK ==
  /\ session \in BOOLEAN
  /\ last \in [Tables -> {Cold} \union 0..MaxKey]
  /\ todo.rel \in 0..MaxKey /\ todo.clauses \in Seq(Clauses)
  /\ rows \in [Tables -> [Keys -> Row \union {None}]]
  /\ flag \in [Tables -> [Keys -> Flags \union {None}]]
  /\ index \subseteq Words \X Keys \X Tables
  /\ freed \in [Tables -> SUBSET Keys] /\ deleted \subseteq Keys
  /\ given \subseteq Keys \X Clauses
  /\ ~session => todo = Done /\ disk = tables

(* A fact and its clauses are added by single statements whose errors are   *)
(* discarded, and the process may die between them.  Nevertheless a stored  *)
(* fact has a row for each of its clauses, also for equal ones, in their    *)
(* order, and no other, even after files were read again, unless a fact     *)
(* with its key was once deleted by key.                                    *)
OwnClauses ==
  ~session => \A k \in Live("facts") \ deleted :
    LET clauses == ClausesOf[rows["facts"][k].text] IN
    /\ Cardinality(ClausesFor(k)) = Len(clauses)
    /\ \A c \in ClausesFor(k) :
         rows["clauses"][c].text =
           clauses[Cardinality({d \in ClausesFor(k) : d <= c})]

(* What a search for the clauses of such a fact answers is said by one of   *)
(* its clauses, and a clause is answered, perhaps together with one that    *)
(* says the same, unless it may lose its verb or all but it when stored.    *)
OwnAnswers ==
  ~session => \A k \in Live("facts") \ deleted :
    LET clauses == ClausesOf[rows["facts"][k].text] IN
    /\ \A a \in Answers(k) :
         /\ a.of = rows["facts"][k].text
         /\ \E i \in DOMAIN clauses : a.says \in Says[clauses[i]]
    /\ \A i \in DOMAIN clauses : Says[clauses[i]] \subseteq Shown =>
         \E a \in Answers(k) : a.says \in Says[clauses[i]]

(* DELETE:FACT:PK leaves the clauses of the fact to the next fact that gets *)
(* its key.  Reading a file again does not: every clause still belongs to   *)
(* the fact that it came with unless that one was deleted by key.           *)
ClausesHaveTheirFact ==
  \A c \in Live("clauses") : LET row == rows["clauses"][c] IN
    \/ row.rel \in deleted
    \/ row.rel \in Live("facts") /\ rows["facts"][row.rel].text = row.of

(* The flags of a clause outlive it.  A clause whose key is new has its own *)
(* and no search leaves it out for want of them.                            *)
ClauseFlags ==
  \A c \in Live("clauses") :
    /\ flag["clauses"][c] # None
    /\ c \notin freed["clauses"] =>
         flag["clauses"][c] = FlagOf[rows["clauses"][c].text]

(* What a search for a word finds in excess of the facts with that word are *)
(* facts that have the number of a clause with it, or a number from which   *)
(* a fact has been deleted.                                                 *)
FoundForAReason ==
  \A w \in Words : \A k \in Found(w) :
    \/ w \in WordsOf[rows["facts"][k].text]
    \/ \E x \in Clauses : <<k, x>> \in given /\ w \in WordsOf[x]
    \/ k \in deleted \union freed["facts"]
=============================================================================
