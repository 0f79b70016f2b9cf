# FreeHAL, a TLA+ model

FreeHAL is a dialogue program. Its server, `src/trunk/hal2012`, answers the
lines of network clients from a database of facts. This directory models the
server's concurrent and persistent parts, checks them with TLC on small
instances and proves the main safety properties with TLAPS for every instance.

Paths below are relative to `src/trunk/hal2012/`.

## The system

One **server** process accepts clients. For every client it starts one
**child** process and three threads: t1 copies the child's stdout to the
console, t2 the child's stderr to the client, t3 the client's lines to the
child's stdin. t2 is also the lock service for the database. The child runs a
**command loop**; a sentence makes it start a **Perl interpreter** that runs the
dialogue logic (compiled from the `.hal` files) and exchanges **signals** with
it. Facts live in **SQLite files** on disk (engine "disk") or in memory (engine
"ram"), and their texts in the **source files** they were imported from.

| Component | State | Operations | Interacts with | What is hard |
|---|---|---|---|---|
| Database lock (`hal2012-server.cpp`, `-util.cpp`, `-sql.cpp`) | `lock_db`, two pipes and two threads per connection | LOCK:DB, UNLOCK:DB, copying lines, EXIT, disconnect | child and clients by lines, other connections by `lock_db` | test and set apart; echoes among commands; departures and deaths |
| Disk fact store (`hal2012-disk.c`, `.h`) | SQLite tables; static counters per process | begin, end, add, delete by key and by file, search | all children through the files | counters stale after another process' session; ignored errors; remains of deleted rows |
| Command loop and statements (`hal2012-server-thread.cpp`) | the input, `output_by_signal` | CSV, DELETE, REINDEX, READ, GET, REPLACE, QUESTION, LEARN, TALK | lock, store, Perl | waiting for an answer that does not come |
| IPC (`hal2012-ipc.cpp`, `-perl5.cpp`, `-util.hal`) | queue of signals, handler threads, stash of answers | send, fetch, handle | child and Perl by pipes | unsynchronised queue; answers matched by type |
| Import and sources (`hal2012-talk.cpp`, `-xml.cpp`, `-pro.cpp`) | source files; a fact's row names its file and line | read a file, edit or delete a line, convert a .pro file; Perl appends what it learns | store, Perl | several transactions per file; files change without a session; line numbers and file ids go stale or collide |
| Search and query cache (`hal2012-universal.c`, `-disk.c`) | `query_cache_list`, a list in memory, and the array a net of lookups fills | clear, look up, store and replay entries, cut off | store | entries found by hashes, outlive their session, may be incomplete |
| RAM store (`hal2012-ram.c`) | arrays | as the disk store | one process | first key |
| Tagger, grammar, parser 2012 | word lists, grammar | tag, reduce, parse | handler threads | shared lazily created tagger |
| Phrase database 2012 | prefix index on disk | insert, search, filter | BOINC application | - |
| HAL scripts | context of the dialogue | answer, learn | IPC | language logic |
| Java rewrite (`src/trunk/FreehalCore`, `FreehalApp`) | own database | own | none with the server | separate program |

The rest (compiler for `.hal`, download, Wikipedia, CGI, Qt clients, vendored
code, word lists) is listed in `PROJECT.json` with the reason it is left out.

What makes the components correct:

* lock: a child is in a session only with a grant of its own, no two are at
  once, no release takes away a foreign lock, a taken lock is given back; a
  child whose client fools it with the text of an echo harms no other;
* store: a key a caller was told stands for its fact until it is deleted; a
  column names the word it was filled with; a fact is found by its words;
  deleted facts do not show through;
* statements and IPC: every request is answered once, by its own answer, and
  a statement ends;
* clauses: a stored fact has rows of its own clauses, all of them and in order,
  and a search answers what they say;
* import: the rows of a file are its lines, and a row leads to its own line;
  what is learned is stored, what is deleted stays deleted;
* query cache: a replayed answer is what the database would answer now to
  that question, and a search that does not report TOOMUCH has found all.

## Modules

| Module | Models |
|---|---|
| `SessionLock` | what a child relies on between `network_lock` and `network_unlock`: a grant, a session, a release |
| `DbLock` | the database lock: server threads, children, clients; implements `SessionLock` |
| `DbLock_proofs` | inductive invariant, theorems and refinement of `DbLock` |
| `MCDbLock`, `DbLock*.cfg` | instances of `DbLock` |
| `KnowledgeBase` | what users of the store rely on: a fact gets a key nobody has and keeps it |
| `FactStore` | the disk engine's tables and counters; implements `KnowledgeBase` |
| `FactStore_proofs` | inductive invariant, theorems and refinement of `FactStore` |
| `MCFactStore`, `FactStore.cfg` | an instance of `FactStore` |
| `ClauseStore` | facts with clauses in the disk engine; sessions as transactions, with crashes |
| `ClauseStore_proofs` | inductive invariant and theorems of `ClauseStore` |
| `MCClauseStore`, `ClauseStore.cfg` | an instance of `ClauseStore` |
| `QueryCache` | a search: nets of lookups over the query cache |
| `QueryCache_proofs` | inductive invariant and theorems of `QueryCache` |
| `MCQueryCache`, `QueryCache*.cfg` | instances of `QueryCache` |
| `FactSource` | rows of facts and the lines of the source files they come from |
| `FactSource_proofs` | inductive invariant and theorems of `FactSource` |
| `MCFactSource`, `FactSource*.cfg` | instances of `FactSource` |
| `Ipc` | a statement: answer thread, handler threads, the queue of signals, Perl |
| `Ipc_proofs` | inductive invariant and theorems of `Ipc` |
| `MCIpc`, `Ipc*.cfg` | instances of `Ipc` |

Definitions that vary another one the way a mistake in the code would
("Refuted variant") stand before the definition they vary. No specification
uses them; they document which mistake each property tells apart.

### DbLock

| Code | Model |
|---|---|
| `lock_db` | `lock_db` |
| t2 in `stream_process_to_network`: loop condition, `getline`, `while (is_locked)`, `set_locked(true)` and echo | `t2[c]`: `top`, `read`, `poll`, `set`; actions `T2Top`, `T2Eof`, `T2Forward`, `T2LockRequest`, `T2Poll`, `T2Set`, `T2Unlock` |
| t3 in `stream_network_to_process` | `t3`, `NetworkLine`, `Disconnect` |
| the `tcp::iostream` both threads share | `stream` |
| `strstr` in `network_lock`, `network_unlock` | `LooksLikeLock`, `LooksLikeUnlock`, `TakeEcho` |
| pipes | `stdin`, `stderr` (queues without limit; the protocol keeps them short) |
| command loop, `sql_begin`, `sql_end`, `network_lock`, `network_unlock` | `child[c]`, `Command`, `SqlBegin`, `NetworkLock`, `PrintInSession`, `SqlEnd`, `NetworkUnlock`, `Finish`, `Exit`, `Ignore`, `ChildEof` |
| SIGPIPE on a write to a dead child | `Feed` sets `up` to `FALSE` |

`boost::bind` copies `do_exit` and `lock_request` into each thread. So t2 never
learns of an EXIT that t3 has copied, and t3 never holds lines back while its
child waits for the lock: both follow from the source and are modelled. t3
copies any line, and what tells lines apart is what the child makes of them
(`ClientLine`): an EXIT, a line with the text `LOCK:DB` or `UNLOCK:DB` somewhere
in it (`SAYSLOCK`, `SAYSUNLOCK`), or any other (`CMD`). The command loop may take
each but EXIT for a command, or drop it (`Ignore`); a child that waits for an
echo takes a line with the text for it, whoever sent it. That line may be a
sentence of the client, which lets its child into a session without a grant;
`fooled` records those children. `SessionsOf` says how many sessions a command
opens; a command is otherwise the lines it takes and prints. `owner`, `raced`
and `fooled` are history variables. The write of t2 to its client's socket is
taken to return: t2 has no step that waits for the client to read.

`SessionLock` forgets the pipes and the threads. A connection that has the flag
is at one of four stages, told by what its child does (`SessionStage`): it waits
for the echo (`granted`), is in its session (`inside`), has asked for the release
(`leaving`) or is dead and keeps the flag (`lost`). What is promised (`Promise`)
is exclusive grants until two t2 have raced, each connection's own order of
grant, session and release until the server stops, and nothing after that. A
fooled child is a stray there (`Stray`): nothing is promised of where it is, and
nothing of the others is taken back for it.

A child has one session at a time: the command loop waits for its statement,
and Perl for the answer to each database request before it sends another. Two
handlers of one child may still open sessions together (a file reading that is
not awaited, beside a request) and then read one stdin; that, and the questions
a child puts to its client (GET_WORD_TYPE), which read it too, are not modelled.

### FactStore

| Code | Model |
|---|---|
| tables `facts`, `word`, `rel_fact_flag`, `rel_word_fact` | `facts`, `idOf`, `flag`, `index` |
| `disk_cache_facts`, `disk_cache_wordid` per process, -1 when cold | `cacheF`, `cacheW`, `Cold` |
| `get_last_pk`, `get_last_wordid` | relations `LastPk(p, k)`, `LastWordId(p, n)`; the uninitialised buffer read on an empty table is any element of `Garbage` |
| `sql_set_word` (`INSERT OR IGNORE`), a batch of them | `StoreWords(ids, ws, n)`: a word gets its first id that is free and not taken earlier in the batch |
| `gen_sql_add_entry`, `gen_sql_add_verb_flags`, `gen_sql_add_word_fact_relations` | `InsertFact`, `InsertFlags`, `InsertIndex` |
| `NOT_UNIQUE` of `sql_execute`, which makes the counter cold | `NotUnique` |
| `disk_add_fact`, `disk_del_record`, `disk_delete_everything_from` | `AddFact`, `DelRecord`, `DeleteEverythingFrom` |
| `disk_begin`, `disk_end`, a new process | `Begin`, `End`, `NewProcess` |

SQLite runs a batch statement by statement and stops at the first error; what
ran before stays, inside the session's transaction. A fact is a name for its
texts: `EntryWords` are the seven texts of its row, `IndexWords` what
`detect_words` makes of them. `told`, `freed` and `late` are history variables;
a key is `late` when its fact was numbered by a warm word counter that another
process' session has overtaken.

`AnswersAreFresh` is the refinement: `told` behaves as `known` of
`KnowledgeBase`.

### ClauseStore

| Code | Model |
|---|---|
| tables `facts`, `clauses` | `rows["facts"]`, `rows["clauses"]`; a clause's `rel` is the key of its fact |
| `rel_fact_flag`, `rel_clause_flag`, `rel_word_fact` | `flag`, `index`; the third component of an index row is its column `table` |
| `disk_cache_facts`, `disk_cache_clauses` | `last` |
| `get_last_pk` | `LastPk` |
| `disk_add_fact`, `disk_add_clause` with `sql_execute` | `Insert` |
| `add_xml_fact` | `AddFact`, then `AddClause` for each clause (`todo`) |
| `disk_del_record`, `disk_delete_everything_from` | `DelRecord`, `DeleteEverythingFrom` |
| `disk_begin` (BEGIN), `disk_end` (COMMIT), the rollback of a process that dies | `Begin`, `End`, `Crash`; `disk` is what is committed |
| `gen_sql_get_clauses_for_rel`, `gen_sql_get_facts_for_words` | the rows `ClausesFor`, `Found` |
| SELECT DISTINCT and what `callback_get_facts` takes of the rows | the set `Answers`; `Shown` |
| the columns of a row, which may be NULL where a word was lost | `says`, one of `Says[text]` |

The sessions follow one another, and the counters start cold with each: the
counters of several processes are in `FactStore`. The words a fact is indexed
by are given; how words get their ids is in `FactStore`, too, and what a row
still says of its text when words are lost is any element of `Says[text]`. The
rows of a fact's clauses (`ClausesFor`) have no order but their keys; what a
search answers from them (`Answers`) is a set: rows that say the same are one
answer, and a row without a verb, or with nothing else, is none. The second part
of that query, over the table `linking`, is left out, and so is its limit of
8000 clauses. `deleted`, `freed` and `given` are history variables, and so are the
fields `text` and `of` of a row. Three things of the code show in the
properties: deletion by key leaves the fact's clauses, which the next fact with
that key inherits (`deleted`); flags and index rows outlive both kinds of
deletion (`freed`); and no search looks at the column `table` of the index, so
that the number of a clause selects the fact with the same number (`given`).

### QueryCache

| Code | Model |
|---|---|
| `query_cache_list`, `QUERY_CACHE_SIZE` | `cache`, `CacheSize` |
| `search_facts`, which clears the cache first | `BeginSearch`, `EndSearch` |
| `search_in_net`: three to five lookups that share one array | `BeginNet`, `EndNet`, `Lookup` |
| a deep search, over the facts with conditional clauses | `phase = "deep"` |
| `find_query_cache_entry` | `Matches`, `Matching`: two hashes of three |
| `disk_search_facts_for_words_in_net` | `Replay`, `Query` |
| `callback_get_facts` and the limit of the array | `Takes` |
| TOOMUCH, ten facts before the array is full | `IsTooMuch`, `Margin` |

Which nets a search consists of, and how it filters what they find, is left
open: any sequence of nets with any questions. `mixed` and `partial` are
history variables. A net that is cut off stores an incomplete entry, which a
later net of the same search replays (`partial`); a deep net compares
`succ_1` to `succ_5` without having set them, so what it reports is open.
`callback_get_facts` skips a row without a verb; facts are taken to have one
(`ClauseStore` has the skipping, for clauses).

### FactSource

| Code | Model |
|---|---|
| table `facts` with the columns of file and line; table `files` | `db` and, for the session, `work`; `name` |
| `fileid` of a file's name | `FileId`, not injective |
| the .xml files | `source` |
| `DELETE:FACT:PK`, `REPLACE:PROFACT:PK` | `BeginDelete`, `BeginReplace`, `EndEdit` |
| `fact_replace_in_source`: read the file, truncate it, write it back | `TakeSource`, `PutSource` |
| `hal2012_add_xml_file`: delete the file's rows and note its name in one session | `ReadFile`, `BeginClear`, `EndClear`, `AddName` |
| `add_xml_fact_file`, `use_xml_fact`: a session for each 15000 lines | `BeginAdd`, `EndBatch`, `BeginBatch`; `NextBatch`, `Batch` |
| `save_facts` of `hal2012-database-management.hal` (Perl): append a line, have the file read | `Learn` |
| `hal2012_add_pro_file` | `BeginConvert`, `Convert` |
| a process dies, or waits for ever for the echo of its release | `Crash`, `CommitOnly` |
| `lock_db` left set by them; the server started anew | `session = Lost`; `Restart` |

`op[p]` is where thread or process `p` is in its command. A session sees and
changes `work`, which replaces `db` when it ends; that sessions exclude each
other is what `DbLock` shows of processes that have not raced and whose clients
do not fool them. As there, the lock of a child that dies with it, or that was
granted to it while it waited, may stay set (`Lost`): then nobody gets a session
any more until the server is started anew. A child whose client has left commits
in `sql_end` and then waits for ever for the echo of its UNLOCK:DB, which its t2
no longer reads (`CommitOnly`). Both may happen at any step of a command. `removed`,
`doubt`, `alone` and `gone` are history variables: `doubt` and `removed` name
the reasons for which the rows of a file may differ from its lines, and `alone`
holds the processes that have cleared a file which nobody else was reading, so
that their reading of it puts it out of doubt.

The replacement text of an edit is never written, because the static `added`
that decides about it is never set: `PutSource` only removes the line. A key
without a row makes the handlers look past the end of an empty name, which
kills the process or comes to nothing; the latter is modelled, the former is
`Crash`. The new key of a row is the largest in use plus one; the counters that
give it are in `FactStore`. The session that REPLACE opens once more at its end
changes nothing and is left out. Lines that the import skips are left out, as
are the flags of facts with a condition, which the import does not set.

### Ipc

| Code | Model |
|---|---|
| `hal2012_server_statement`: queue the input, join the answer thread, poll `output_by_signal`, show it | `main`, `output`; `Begin`, `Show` |
| `perl5_execute`: launch, a thread per signal, joins above five threads, end | `reader`, `threads`; `Launch`, `Receive`, `JoinFull`, `Finish` |
| `hal2012_handle_signal` | `at[s]`; `Store` for an output, else `Work` and the answer |
| `hal2012_send_signal` | `Push` |
| `hal2012_send_signals`, line by line | `Test`, `Set`, `Deliver`, `LoopEnds`, `Clear`, `Reset` |
| `signals_to_child`, `running` | `queue`, `running` |
| the shell of `hal2012.hal` | `PerlStep`: any number of `Ask` (send and fetch), `Tell` (an output, or `reread_pro_file`, which fetches nothing), then `Exit` |
| `hal2012_fetch_signal`, `stdin_responses` | `want`, `Fetch`, `stash` |
| pipes | `toReader`, `toPerl` |

A signal is its number, and its answer has the same number, so that `answer`
records whose answer a request got: the code only compares types. What Perl
does between signals is any choice of signals; what a handler does before it
answers is one step, which it need not take: it may wait for the database lock
or for the client.

`signals_to_child` is a vector without a lock. Its single operations are steps,
and `MayTear` and the second alternative of `Push` add what the race can do
besides: the child may crash when two threads are at the vector and one changes
it, and of two elements added together one may be lost. The races on
`output_by_signal` (two outputs stored at once) are taken as one store after
the other.

`raced`, `missed`, `torn`, `killer` and `overtaken` are history variables: they
name the ways in which the code loses, doubles or misplaces a signal, and the
properties say that there are no others.

Left out because no statement reaches it: the second and third try of a
statement (the first ends with an output or never), the refusal of a repeated
input (its time is reset by every answer), and the end of Perl after 10000
foreign lines.

## Runs

| Run | Module, cfg | Bounds | Shows |
|---|---|---|---|
| `dblock_safety` | `MCDbLock`, `DbLock.cfg` | 2 connections, both may leave and die, 2 lines from one client and 1 from the other, of any of four kinds, commands with 1 or 2 sessions | types, `SessionWasGranted`, `ExclusiveUnlessRaced`, `FlagMatchesOwner`, the refinement `ServesSessions` |
| `dblock_live` | `MCDbLock`, `DbLockLive.cfg` | 2 connections, one may leave, the other's child may die, 1 line each | `LockReleased` under `FairSpec` |
| `dblock_race` | `MCDbLock`, `DbLockRace.cfg` | 2 connections, nobody leaves or dies | `NoConcurrentSessions` is violated (see findings) |
| `factstore` | `MCFactStore`, `FactStore.cfg` | 2 processes, 3 facts of 2 files, 3 keys, 28 ids | all properties of `FactStore` |
| `ipc` | `MCIpc`, `Ipc.cfg` | 2 statements, 3 signals, one type of request, joins above 2 threads | types, `OwnAnswers`, `SentOnce`, `NothingLost`, `OnlyUnfetchedKills`, `ShowsLastOutput`; `AnswerArrives` under `FairSpec` |
| `ipc_ends` | `MCIpc`, `IpcEnds.cfg` | 1 statement, 2 signals | `StatementEnds` is violated (see findings) |
| `querycache` | `MCQueryCache`, `QueryCache.cfg` | 5 questions, 4 facts, 3 entries, 6 facts per net, 3 to 5 lookups | types, `EntriesAreCurrent`, `AnswersComplete`, `OnlyAlike` |
| `querycache_hash` | `MCQueryCache`, `QueryCacheHash.cfg` | the same | `AnswersOwnQuestion` is violated (see findings) |
| `factsource` | `MCFactSource`, `FactSource.cfg` | 2 processes, 3 files of which 2 share an id, 3 commands, 1 crash, batches of 2 lines | types, `SourceAgrees`, `RowsLeadToLines`; `LearnedIsStored` under `FairSpec` |
| `factsource_delete` | `MCFactSource`, `FactSourceDelete.cfg` | 1 process, 1 file, 3 commands | `DeletedStaysDeleted` is violated (see findings) |
| `factsource_ids` | `MCFactSource`, `FactSourceIds.cfg` | 1 process, 3 files, 3 commands | `ClearsOneFile` is violated (see findings) |
| `clausestore` | `MCClauseStore`, `ClauseStore.cfg` | 3 facts of 2 files with 2, 2 equal and no clauses, 5 keys, 3 adds; any number of sessions, deletions and crashes | types, `OwnClauses`, `OwnAnswers`, `ClausesHaveTheirFact`, `ClauseFlags`, `FoundForAReason` |

Why the bounds are enough to be interesting. In `DbLock` two connections are
the least that can exclude or race, a second line lets a command arrive while
its predecessor waits for an echo or be taken for that echo, and two sessions
per command let an old echo meet a new request. That only one client sends two
lines keeps the run short; with two from each it visits 5.9 million states and
finds no error either. In `FactStore` two processes suffice for a stale counter;
the three facts share words (the columns of one overlap the index of another),
two come from one file, and three keys allow a key to be freed and used again;
28 ids are enough for four adds. In `Ipc` three signals are three handler threads
at once: a file reading whose answer nobody fetches, a request beside it, and a
third to receive a stray answer or to be shown; the second statement gets what
the first leaves behind. The code's limit of five threads is lowered to two so
that the join of a full vector happens. In `QueryCache` the words
are chosen for their hashes, computed as the code does: cat and cow agree in
the two that are compared and differ in the third, crab differs in one that is
compared, and the empty question has no facts; three entries fill up within a
net, and six facts per net are reached by three lookups. In `FactSource` two
processes suffice to interleave a reading with a deletion, an edit, a lesson, a
conversion or another reading; three commands are two of those and the one that
shows the damage; a file of two lines that learns a third needs a second batch
and two files share an id. In `ClauseStore` three adds use a key again after a
deletion by key or of a file, so that inherited clauses, flags and index rows
occur; one fact has two equal clauses and one a clause that may lose its verb,
so that answers are fewer than rows, and five keys hold the clauses of two facts.

`ConnSymmetry` and `ProcSymmetry` are used for invariants and for the two
refinements, never for liveness. The variables of `KnowledgeBase` do not mention
processes, and `SessionLock` treats all clients alike.

`CHECK_DEADLOCK FALSE`: clients need not send anything, counters reach their
bounds, the stores have nothing to do without a caller, a full table of the
instance refuses further rows, and a statement may wait for ever, so all these
systems may stop.

Fairness (`DbLock!Fairness`): weak fairness of each t2 and of each child. Both
are ordinary threads and processes that the operating system runs when they
can run; polling t2 need not win a race, so strong fairness is not assumed.
Nothing is assumed of clients, departures and deaths. `Ipc!Fairness`: weak
fairness of the main thread's display, the answer thread, each handler thread
and Perl, which are threads and a process that nothing stops but what they wait
for; that Perl's script comes to its end is part of it (the number of its
signals is bounded). Nothing is assumed of a handler's work (`Work`): a
database_request opens a session, which waits for ever when `lock_db` was left
set, and a question waits for the client. `AnswerArrives` and `StatementEnds`
therefore except a work that never ends (`Stuck`). No new statement need begin. `FactSource!Fairness`: weak
fairness of the steps of each process once it has a command. Whoever holds the
session ends it and waits only for its t2 to echo the release, which a t2 whose
client is there does; the child for which it does not is `CommitOnly`, and
`LearnedIsStored` excepts what comes after it. Commands are finitely many, so
weak fairness is enough for a process to get its turn; the polling of `DbLock`,
which may lose a race for ever against endless commands, is not part of it.
Nothing is assumed of new commands, deaths and `Restart`.

## What is proved

`DbLock_proofs` (for any set of connections, any number of lines, any command
table): `TypeCorrect`, `GrantsAreGenuine`, `MutualExclusion`, `FlagIsOwned` and
`Implementation`, the refinement of `SessionLock`.
The properties are not inductive: nothing in them says why an echo in a pipe
means what the child takes it for. The invariant `IInv` says that every
connection is in one of seven phases (`Free`, `Requested`, `Acquiring`,
`Granted`, `InSession`, `Releasing`, `Released`), each of which fixes which lock
messages are in the two pipes and where t2 and the child are; a child that waits
for a grant then has at most one echo that looks like one. That holds of children
that are not fooled (`Handshake`); a fooled child may be ahead of its t2 by any
number of sessions. What is left of the order for it, and for all, is `Ordered`:
requests and releases take turns in what a child has printed (`Turns`), so that
a t2 that clears the flag had set it before, and no release takes away a foreign
lock whatever clients send. The third part, `OneOwner`, says that the flag has at
most one owner and a t2 about to set it is alone, unless two t2 have raced. The
refinement rests on the last two: the phases say at which stage the child of an
owner can be, and so that a step of t2 or of a child that is not fooled takes its
connection one stage on (`T2Stage`, `ChildStage`, `CrashStage`) or none; any step
of a fooled one is a step of a stray; `OneOwner` says that a grant finds all
others out.

`FactStore_proofs` (for any processes, words, facts and bounds): `TypeCorrect`,
`AnswersAreStored`, `ColumnsAreRight`, `LossIsBounded`, `FactsAreFound`,
`RemainsStayAway` and `Implementation`, the refinement of `KnowledgeBase`. The
invariant `IInv` is the conjunction of the types, of `Numbering` (a warm key
counter of the process in session is behind the table by one at most: it holds
the key before the last one it gave), of `ToldExactly` (callers were told what
the table holds, neither more nor less), of `IndexUsed` (index rows have ids in
use) and of the strengthened properties. `Numbering` is what the others need:
the next key is free (`NewKeyIsFree`), and this is why the discarded error of
the insert is harmless. The lemmas `NewId` and `StoreWordsFacts` say what a
batch of `INSERT OR IGNORE` does to the ids.

`QueryCache_proofs` (for any questions, facts and hashes, any size of the cache
and any limit): `TypeCorrect`, `CacheIsCurrent`, `NothingMissed`,
`NothingForeign`. `NothingMissed` is about nets that have replayed only entries of
their own questions, and complete ones (`mixed`, `partial`). The invariant adds `NetStarts` to the properties: a net starts
from an empty array. The argument goes from the entries to the answers: the
cache is empty when a search begins and facts change only between searches, so
entries are current; a net that was not cut off adds up complete entries. The
lemmas `TakesBounds` and `TakesAll` say that the array never overflows and that
rows are left out only if the lookup answers TOOMUCH, which is what the margin
is for.

`ClauseStore_proofs` (for any facts, clauses, words, flags, files and bounds):
`TypeCorrect`, `ClausesAreOwn`, `AnswersAreOwn`, `ClausesKeepTheirFact`,
`ClausesHaveFlags`, `NothingElseFound`. A crash brings the committed tables back, so the invariant
says the same of two states, the tables and the committed ones: `Sound` takes
the tables as parameters. `ClausesAreOwn` holds between sessions only; what is
inductive is `Own`, that the clauses of a fact are those it has already got, and
`Pending`, that those still to be added are the last ones of it. A clause gets
its place by its key, and `Numbering` is what makes a new key the largest.
Deleting a file keeps `Own` because a clause and its fact are of one file
(`HaveFact`). `AnswersAreOwn` follows from `ClausesAreOwn`, from the flags, without
which the join drops a row, and from `Saying`, that a row says what its text may
say; `EachRanked` finds the row of a clause: rows that are as many as the clauses
and have different ranks have every rank.

`Ipc_proofs` (for any types of requests, signals, statements and any limit of
handler threads): `TypeCorrect`, `AnswersAreOwn`, `NothingSentTwice`,
`NoAnswerLost`, `OnlyUnfetched`, `LastOutputShown`. None of them is inductive:
they compare what Perl has got with what is still underway. The invariant first
says that at most one thread is past the test of `running` (`OneSender`, unless
two have raced), so that an element of the queue is either before the index of
that thread and has been sent, or has not (`Unsent`). A signal that has not been
sent is in no pipe and not among the answers put aside (`NotSent`), one that was
sent is in one place (`Sent`), and only Perl's last request may be without an
answer (`Answered`). `Reached`, the part about losses, says that whoever has
queued a signal is still to test `running` or finds a thread in its loop; it is
lost exactly where `missed` is set. `InOrder`, which is what
`LastOutputShown` rests on, says that lines are stored in the order in which
they were sent, because `Arrival` keeps the signals in the pipe in theirs. The
lemmas `Moved...` say once what a step of a handler thread leaves alone; one
lemma per action does the rest.

`FactSource_proofs` (for any processes, files, ids of files, facts, batch size,
number of commands and crashes): `TypeCorrect`, `Agreement`, `RowsLead`. What the
properties say of a file at rest is said by `Agrees` of a file that is being
read, edited or left behind: `Table` is the rows as they will be when the
session ends, `Text` the lines of a file while its editor has it in memory, and
`Owed` says that a fact of a line is stored or among the lines a reader has
still to add. `Fits(e, f)` lists the numbers `e` that the present lines had when
the file was read; a line taken out leaves the others their numbers
(`TakenOut`), and those before the first line removed are still where they were.
`Apart` says that rows have lines of their own and that what is to be added comes
after them. Two more parts carry the interleavings: `Working` says what a session
has changed in the table, so that its end or the death of its process has a known
effect, and `Reading` that of two who read files of one id at the same time both
leave them in doubt; `Named` that a row's id leads to a file with that id. There
is one lemma per action for each part. `Ranked` counts: rows with numbers of
their own that match an increasing list are as many, and the place of each is
that of its number.

Assumptions: `DbLockAssumption`, `FactStoreAssumption`, `QueryCacheAssumption`,
`ClauseStoreAssumption`, `FactSourceAssumption` and `IpcAssumption`, the shape of
the constants. `FactSourceAssumption` wants batches of two lines at least; the
code's have 15000.
Model-checked only: liveness (`LockReleased`, `AnswerArrives`,
`LearnedIsStored`), which is out of the provers' reach. Every other property
that a passing run checks is a theorem.

## Findings

* `hal2012-server.cpp:145`: two t2 threads can both leave the polling loop
  before either sets `lock_db`; two children are then in database sessions at
  once. `NoConcurrentSessions`, run `dblock_race`.
* `hal2012-server-thread.cpp:195`: a statement whose Perl ends without an output
  (an empty line, `/gen list`) waits for ever; its three tries and the text
  "Unable to get an answer. Try again later." are never reached.
  `StatementEnds`, run `ipc_ends`.
* `hal2012-disk.c:1351`: the query cache compares the second hash twice and the
  third never; two questions with the same sum of first letters and number of
  letters share an entry. `AnswersOwnQuestion`, run `querycache_hash`.
* `hal2012-talk.cpp:82`: a line is found by the number it had when the file was
  read; after an earlier deletion in the file the next one removes a neighbour,
  and a fact reported as deleted returns. `DeletedStaysDeleted`, run
  `factsource_delete`.
* `hal2012-universal.c:3729`: the id of a file is a sum of letters; reading
  `spiele.xml` deletes the facts of `tobias.xml`. `ClearsOneFile`, run
  `factsource_ids`.

Things the model of the store shows without contradicting any document: the
first new word of a process with a cold counter is lost (its column is NULL,
`OnlySubjectLost` bounds this), a process overtaken by another may lose columns
and index rows of the facts it adds next (`late`), and a fact under a key used
before may show the flags of its predecessor and be found by its words
(`freed`).

## Not modelled

* RAM store: a store in memory of one process; keys by counting and no deletion
  by file, nothing interleaves or survives.
* Which nets a search makes, tagger, grammar, the reasoning over phrases, the
  `.hal` scripts: sequential rewriting of German and English text. What matters
  about it are the strings, which no finite instance represents.
* Compiler, start-up, download, CGI, Qt clients, database viewer: conversions
  and input or output without state that another component relies on.
* BOINC application, FreehalCore and the Android application: separate programs
  that share no state with the server.
* Vendored code and word lists: third-party code and data. SQLite is modelled
  from how the server uses it: single statements, batches that stop at the
  first error, transactions.
* In the modelled parts: initialisation with its progress reports, questions to
  the user, REINDEX, CSV, synonyms and linking, SQLite errors other than a key
  that is not unique. `PROJECT.json` names them by component.

## Plan

1. `DbLock`, 2. `KnowledgeBase` and `FactStore`, 3. `Ipc`, 4. `QueryCache`,
   5. `FactSource`, 6. `ClauseStore`: modelled, checked and proved.
7. Composition of `DbLock` with the stores without the assumption of exclusive
   sessions, for which the runs of SQLITE_BUSY have to be modelled.
8. The bounded reduction of `hal2012-grammar2012.cpp`, the phrase database
   2012 and the store of FreehalCore.
