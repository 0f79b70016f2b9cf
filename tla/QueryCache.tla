----------------------------- MODULE QueryCache -----------------------------
(***************************************************************************)
(* How a process of the "disk" engine searches: search_facts clears the    *)
(* query cache and then searches the net any number of times.  Each of     *)
(* these nets looks up three to five lists of words, here called           *)
(* questions; their facts pile up in one array of limited size.            *)
(*                                                                         *)
(* The cache remembers the rows that SQLite returned for a question, and   *)
(* the next lookup with equal hashes replays them.  It outlives a search   *)
(* and its database session.  Which nets a search consists of is decided   *)
(* by the rules that filter what they found, and left open here.           *)
(***************************************************************************)
EXTENDS Integers, Sequences, FiniteSets

CONSTANTS
  Questions,   (* Lists of words to look up.                                 *)
  Conditional, (* The one that finds the facts with conditional clauses.     *)
  Facts,       (* Facts that may be stored.                                  *)
  FactsOf,     (* Question -> the facts that contain one of its words.       *)
  Hash,        (* Question -> hash_n_1, hash_n_2, hash_n_3.                  *)
  CacheSize,   (* QUERY_CACHE_SIZE.                                          *)
  Limit,       (* Facts one net may find.                                    *)
  Margin,      (* A net this close to the limit has found too much.          *)
  MinLookups,  (* The lookups of a net.                                      *)
  MaxLookups

ASSUME QueryCacheAssumption ==
  /\ Conditional \in Questions
  /\ IsFiniteSet(Facts)
  /\ FactsOf \in [Questions -> SUBSET Facts]
  /\ Hash \in [Questions -> Int \X Int \X Int]
  /\ CacheSize \in Nat \ {0}
  /\ Limit \in Nat /\ Margin \in Nat \ {0}
  /\ MinLookups \in Nat /\ MaxLookups \in Nat

VARIABLES
  db,        (* The facts that are stored.                                   *)
  cache,     (* query_cache_list.                                            *)
  phase,     (* Where search_facts is: "deep" is a net over Conditional.     *)
  asked,     (* The questions of this net, and how many lookups they were.   *)
  lookups,
  found,     (* Its facts, and position: how many, a fact found twice        *)
  position,  (* counting twice.                                              *)
  tooMuch,   (* A lookup of it has answered TOOMUCH.                         *)
  mixed,     (* History: an entry of another question was replayed in it.    *)
  partial    (* History: facts were left out of it that TOOMUCH may not      *)
             (* report: an incomplete entry was replayed, or a deep net was  *)
             (* cut off.                                                     *)

net == <<asked, lookups, found, position, tooMuch, mixed, partial>>
vars == <<db, cache, phase, net>>

(* "of" and "cut" are history: whose rows these are, and whether the limit  *)
(* left some of them out.                                                   *)
Entry == [hash : Int \X Int \X Int, of : Questions, rows : SUBSET Facts,
          cut : BOOLEAN]

Fresh ==
  /\ asked' = {} /\ lookups' = 0
  /\ found' = {} /\ position' = 0
  /\ tooMuch' = FALSE /\ mixed' = FALSE /\ partial' = FALSE

Init ==
  /\ db \in SUBSET Facts
  /\ cache = <<>> /\ phase = "idle"
  /\ asked = {} /\ lookups = 0
  /\ found = {} /\ position = 0
  /\ tooMuch = FALSE /\ mixed = FALSE /\ partial = FALSE

-----------------------------------------------------------------------------
(* Other sessions, of this process or another, add and delete facts.        *)
ChangeFacts ==
  /\ phase = "idle"
  /\ db' \in SUBSET Facts
  /\ UNCHANGED <<cache, phase, net>>

(* Refuted variant: search_facts without universal_clear_cache.             *)
BeginSearchWarm ==
  /\ phase = "idle"
  /\ phase' = "search"
  /\ UNCHANGED <<cache, db, net>>

(* search_facts: universal_clear_cache comes first.                         *)
BeginSearch ==
  /\ phase = "idle"
  /\ phase' = "search"
  /\ cache' = <<>>
  /\ UNCHANGED <<db, net>>

EndSearch ==
  /\ phase = "search"
  /\ phase' = "idle"
  /\ UNCHANGED <<db, cache, net>>

(* search_in_net begins with position 0, for words or, in a deep search,    *)
(* for the facts with conditional clauses.                                  *)
BeginNet ==
  /\ phase = "search"
  /\ phase' \in {"net", "deep"}
  /\ UNCHANGED <<db, cache, net>>

EndNet ==
  /\ \/ phase = "net" /\ lookups >= MinLookups
     \/ phase = "deep" /\ lookups = 1
  /\ phase' = "search"
  /\ Fresh
  /\ UNCHANGED <<db, cache>>

-----------------------------------------------------------------------------
(* One lookup, disk_search_facts_for_words_in_net.                          *)

(* Refuted variant: one hash in place of two.                               *)
MatchesFirst(e, q) == e.hash[1] = Hash[q][1]

(* find_query_cache_entry compares the second hash twice and the third      *)
(* never.                                                                   *)
Matches(e, q) ==
  e.hash[1] = Hash[q][1] /\ e.hash[2] = Hash[q][2] /\ e.hash[2] = Hash[q][2]

Full == Len(cache) >= CacheSize
Matching(q) == {i \in DOMAIN cache : Matches(cache[i], q)}

(* callback_get_facts, called for each of the rows: it takes them in any    *)
(* order until the array is full.                                           *)
Takes(rows, taken) ==
  /\ taken \subseteq rows
  /\ IF Cardinality(rows) <= Limit - position
       THEN taken = rows
       ELSE Cardinality(taken) = Limit - position

(* Refuted variant: no margin, TOOMUCH when the array has overflowed.       *)
IsTooMuchLate(n) == n > Limit

IsTooMuch(n) == n > Limit - Margin

(* The facts taken go into the array.  A deep net ignores what the lookup   *)
(* answers, and search_in_net goes by the succ_1 .. succ_5 that it has not  *)
(* initialised then.                                                        *)
Collect(q, taken) ==
  /\ asked' = asked \union {q}
  /\ lookups' = lookups + 1
  /\ found' = found \union taken
  /\ position' = position + Cardinality(taken)
  /\ IF phase = "deep"
       THEN tooMuch' \in BOOLEAN
       ELSE tooMuch' = (tooMuch \/ IsTooMuch(position'))
  /\ UNCHANGED <<db, phase>>

(* The last entry that matches is replayed.                                 *)
Replay(q) ==
  /\ ~Full
  /\ \E i \in Matching(q) :
       /\ \A j \in Matching(q) : j <= i
       /\ \E taken \in SUBSET cache[i].rows :
            /\ Takes(cache[i].rows, taken)
            /\ Collect(q, taken)
            /\ partial' = (\/ partial \/ cache[i].cut
                           \/ phase = "deep" /\ taken # cache[i].rows)
       /\ mixed' = (mixed \/ cache[i].of # q)
  /\ UNCHANGED cache

(* Refuted variant: a full cache is not emptied.                            *)
QueryNoClear(q) ==
  /\ Full \/ Matching(q) = {}
  /\ LET rows == FactsOf[q] \intersect db IN
     \E taken \in SUBSET rows :
       /\ Takes(rows, taken)
       /\ Collect(q, taken)
       /\ partial' = (partial \/ (phase = "deep" /\ taken # rows))
       /\ cache' = Append(cache,
            [hash |-> Hash[q], of |-> q, rows |-> taken, cut |-> taken # rows])
  /\ UNCHANGED mixed

(* No entry matches, or the cache is full: then it is emptied, whatever it  *)
(* has.  A new entry gets the rows that SQLite returns, up to the limit of  *)
(* the net they are looked up in.                                           *)
Query(q) ==
  /\ Full \/ Matching(q) = {}
  /\ LET rows == FactsOf[q] \intersect db IN
     \E taken \in SUBSET rows :
       /\ Takes(rows, taken)
       /\ Collect(q, taken)
       /\ partial' = (partial \/ (phase = "deep" /\ taken # rows))
       /\ cache' = Append(IF Full THEN <<>> ELSE cache,
            [hash |-> Hash[q], of |-> q, rows |-> taken, cut |-> taken # rows])
  /\ UNCHANGED mixed

Lookup(q) ==
  /\ \/ phase = "net" /\ lookups < MaxLookups
     \/ phase = "deep" /\ lookups = 0 /\ q = Conditional
  /\ Replay(q) \/ Query(q)

Next ==
  \/ ChangeFacts \/ BeginSearch \/ EndSearch \/ BeginNet \/ EndNet
  \/ \E q \in Questions : Lookup(q)

Spec == Init /\ [][Next]_vars

-----------------------------------------------------------------------------
(* Properties.                                                              *)

(* Every variable keeps its type; in particular query_cache_list never      *)
(* grows beyond the QUERY_CACHE_SIZE entries it was allocated for, nor a    *)
(* net beyond the limit of its array.                                       *)
TypeOK ==
  /\ db \subseteq Facts
  /\ cache \in Seq(Entry) /\ Len(cache) <= CacheSize
  /\ phase \in {"idle", "search", "net", "deep"}
  /\ asked \subseteq Questions /\ lookups \in Nat
  /\ found \subseteq Facts
  /\ position \in 0..Limit
  /\ tooMuch \in BOOLEAN /\ mixed \in BOOLEAN /\ partial \in BOOLEAN

(* The cache survives the database session it was filled in, and facts are  *)
(* added and deleted by other sessions before the next one.  Nevertheless   *)
(* an entry that a search can replay holds what the database would answer   *)
(* to the entry's question now, unless the limit has cut it off.            *)
EntriesAreCurrent ==
  phase # "idle" =>
    \A i \in DOMAIN cache : LET e == cache[i] IN
      /\ e.hash = Hash[e.of]
      /\ e.rows \subseteq FactsOf[e.of] \intersect db
      /\ ~e.cut => e.rows = FactsOf[e.of] \intersect db

(* A net that does not answer TOOMUCH has found every fact its questions    *)
(* ask for, however many of them came from the cache and whenever that was  *)
(* emptied, unless it replayed the entry of another question or one that an *)
(* earlier net of the search had cut off.                                   *)
AnswersComplete ==
  ~tooMuch /\ ~mixed /\ ~partial =>
    found = UNION {FactsOf[q] \intersect db : q \in asked}

(* What a net finds are facts of the database as it is now, for one of its  *)
(* questions or one with the same number of letters and the same sum of     *)
(* first letters.                                                           *)
OnlyAlike ==
  \A f \in found : f \in db /\ \E q \in asked, r \in Questions :
    /\ f \in FactsOf[r]
    /\ Hash[r][1] = Hash[q][1] /\ Hash[r][2] = Hash[q][2]

(* What the comment "check whether there is a matching entry" and the three *)
(* hashes kept for it intend: a net finds facts of its own questions only.  *)
AnswersOwnQuestion ==
  found \subseteq UNION {FactsOf[q] : q \in asked}
=============================================================================
