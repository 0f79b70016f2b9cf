----------------------------- MODULE FactSource -----------------------------
(***************************************************************************)
(* The facts of the database and the source files they come from.  A row   *)
(* of the table facts names its file and its line, the number of the fact  *)
(* in the file; so a fact that is deleted can be deleted in its source, or *)
(* it would return when the file is read again.                            *)
(*                                                                         *)
(* Files and tables are changed by                                         *)
(*   DELETE:FACT:PK       a row and its line, in one session,              *)
(*   REPLACE:PROFACT:PK   a line, in one session; then the file is read,   *)
(*   READ:XML             the rows of a file are deleted in one session    *)
(*                        and added in later ones, Batch lines each,       *)
(*   save_facts (Perl)    a line is appended without a session; then the   *)
(*                        file is read,                                    *)
(*   add_pro_file         the file is written anew from its .pro file,     *)
(*                        without a session.                               *)
(* A session is exclusive, as DbLock has it for processes that did not     *)
(* race, whose clients did not fool them and whose server lives, and a     *)
(* transaction: what a process does in it comes into effect when it ends,  *)
(* and not at all when the process dies.  Files are changed at once.  A    *)
(* lock whose holder died, or whose client left, stays set: nobody opens a *)
(* session again before the server and its children are started anew.      *)
(***************************************************************************)
EXTENDS Integers, Sequences, FiniteSets

CONSTANTS
  Procs,    (* Threads and processes that carry out one command at a time.   *)
  Files,    (* The .xml files.                                               *)
  Facts,    (* What their lines may say.                                     *)
  FileId,   (* File -> fileid(its name), the sum of its letters.             *)
  Source,   (* File -> its lines at first.                                   *)
  Pro,      (* File -> the lines of its .pro file; none: there is no such.   *)
  Learnt,   (* File -> the facts that may be appended to it.                 *)
  Batch,    (* A session adds this many lines of a file at most, 15000.      *)
  None,     (* No row, no process, no name.                                  *)
  Lost,     (* The session of a process that cannot give the lock back.      *)
  MaxKey,   (* Bound: largest key.                                           *)
  MaxOps,   (* Bound: number of commands.                                    *)
  MaxCrash  (* Bound: number of crashes.                                     *)

Keys == 1..MaxKey
Row == [fact : Facts, file : Files, line : Nat \ {0}]
Id == {FileId[f] : f \in Files}

ASSUME FactSourceAssumption ==
  /\ FileId \in [Files -> Int]
  /\ Source \in [Files -> Seq(Facts)] /\ Pro \in [Files -> Seq(Facts)]
  /\ Learnt \in [Files -> SUBSET Facts]
  /\ Batch \in Nat /\ Batch >= 2
  /\ MaxKey \in Nat /\ MaxOps \in Nat /\ MaxCrash \in Nat
  /\ None \notin Procs /\ None \notin Row /\ None \notin Files
  /\ Lost \notin Procs /\ Lost # None

VARIABLES
  source,   (* The files.                                                    *)
  db,       (* Table facts: key -> row.  "file" of a row is history, the     *)
            (* column is FileId[file].                                       *)
  name,     (* Table files: id -> the first file that was read under it.     *)
  session,  (* The process in a session, None, or Lost.                      *)
  work,     (* The table facts as the session sees it.                       *)
  op,       (* What each process is doing.                                   *)
  ops,      (* How many commands were given, and how many processes died.    *)
  crashes,
  removed,  (* History: file -> the least line that was removed from it      *)
            (* since it was read; those before it are where they were.       *)
  doubt,    (* History: files that the table need not agree with, see        *)
            (* SourceAgrees.                                                 *)
  alone,    (* History: the processes that have cleared a file of which      *)
            (* nobody else was adding lines, or has cleared it since.        *)
  gone      (* History: facts a client was told are deleted.                 *)

history == <<removed, doubt, alone, gone>>
vars == <<source, db, name, session, work, op, ops, crashes, history>>

Idle == [at |-> "idle", file |-> None]

(* What a process is doing and what it holds meanwhile: the row whose line  *)
(* it takes out, what it does next, the lines it has read and the number of *)
(* the one that the next session begins with.                               *)
Op ==
  {Idle} \union [at : {"read", "clear", "cleared"}, file : Files]
  \union [at : {"take"}, file : Files, row : Row, next : {"idle", "read"}]
  \union [at : {"put"}, file : Files, row : Row, next : {"idle", "read"},
          lines : Seq(Facts)]
  \union [at : {"end"}, file : Files, next : {"idle", "read"}]
  \union [at : {"end"}, file : {None}, next : {"idle"}]
  \union [at : {"add", "more"}, file : Files, lines : Seq(Facts), n : Nat \ {0}]
  \union [at : {"convert"}, file : Files, n : Nat]

(* One file, or none, has been read in an earlier run.                      *)
Init ==
  \E before \in Files \union {None} :
    LET lines == IF before = None THEN <<>> ELSE Source[before] IN
    /\ Len(lines) <= MaxKey
    /\ source = Source
    /\ db = [k \in Keys |->
         IF k \in DOMAIN lines THEN [fact |-> lines[k], file |-> before, line |-> k]
         ELSE None]
    /\ work = db
    /\ name = [i \in Id |->
         IF before # None /\ FileId[before] = i THEN before ELSE None]
    /\ session = None
    /\ op = [p \in Procs |-> Idle]
    /\ ops = 0 /\ crashes = 0
    /\ removed = [f \in Files |-> 0]
    /\ doubt = Files \ {before} /\ alone = {} /\ gone = {}

-----------------------------------------------------------------------------
Used(table) == {k \in Keys : table[k] # None}
RowsOf(table, f) == {k \in Used(table) : table[k].file = f}

(* The files that the column fileid cannot tell from f.                     *)
SameId(f) == {g \in Files : FileId[g] = FileId[f]}

(* key is the last in use, from which get_last_pk counts.                   *)
LastKey(table, key) ==
  IF Used(table) = {} THEN key = 0
  ELSE key \in Used(table) /\ \A k \in Used(table) : k <= key

At(p, steps) == op[p].at \in steps

(* A client, or Perl, gives p a new command.                                *)
Command(p) == At(p, {"idle"}) /\ ops < MaxOps /\ ops' = ops + 1

(* disk_begin: BEGIN; disk_end: COMMIT.                                     *)
Enter(p) == session = None /\ session' = p
Leave(p) == session = p /\ session' = None /\ db' = work

-----------------------------------------------------------------------------
(* Editing a source file by the key of a row: fact_replace_in_source.       *)

(* Refuted variant: without a row the handler returns at once.              *)
EditReturn(k, next) ==
  IF db[k] = None THEN Idle
    ELSE [at |-> "take", file |-> name[FileId[db[k].file]], row |-> db[k],
          next |-> next]

(* disk_get_source: the name that the table files has for the row's id, and *)
(* its line.  The handlers do not ask whether there is such a row; without  *)
(* one they look past the end of an empty name, which kills the process or  *)
(* comes to nothing.                                                        *)
Edit(k, next) ==
  IF db[k] = None THEN [at |-> "end", file |-> None, next |-> "idle"]
    ELSE [at |-> "take", file |-> name[FileId[db[k].file]], row |-> db[k],
          next |-> next]

(* DELETE:FACT:PK: sql_begin, disk_del_record.                              *)
BeginDelete(p, k) ==
  /\ Command(p) /\ Enter(p)
  /\ work' = [db EXCEPT ![k] = None]
  /\ op' = [op EXCEPT ![p] = Edit(k, "idle")]
  /\ UNCHANGED <<source, db, name, crashes, history>>

(* REPLACE:PROFACT:PK: sql_begin, disk_get_source.                          *)
BeginReplace(p, k) ==
  /\ Command(p) /\ Enter(p)
  /\ work' = db
  /\ op' = [op EXCEPT ![p] = Edit(k, "read")]
  /\ UNCHANGED <<source, db, name, crashes, history>>

(* The file is read, closed and opened for writing, which empties it.       *)
TakeSource(p) ==
  /\ At(p, {"take"})
  /\ op' = [op EXCEPT ![p] =
       [at |-> "put", file |-> @.file, row |-> @.row, next |-> @.next,
        lines |-> source[@.file]]]
  /\ source' = [source EXCEPT ![op[p].file] = <<>>]
  /\ UNCHANGED <<db, name, session, work, ops, crashes, history>>

(* Refuted variants: nothing is written after the line that was found, and  *)
(* lines that count from 0.                                                 *)
WithoutRest(lines, n) == SubSeq(lines, 1, n - 1)

WithoutFromZero(lines, n) ==
  IF n - 1 \in DOMAIN lines
    THEN SubSeq(lines, 1, n - 2) \o SubSeq(lines, n, Len(lines)) ELSE lines

(* All lines but the n-th.  The replacement is not written: the variable    *)
(* that decides about it, a static one, is never set.                       *)
Without(lines, n) ==
  IF n \in DOMAIN lines
    THEN SubSeq(lines, 1, n - 1) \o SubSeq(lines, n + 1, Len(lines)) ELSE lines

(* A row leads to the line that it was read from unless an earlier one has  *)
(* been removed since or its id has the name of another file.               *)
Leads(row, file) ==
  row.file = file /\ (removed[file] = 0 \/ row.line < removed[file])

PutSource(p) ==
  /\ At(p, {"put"})
  /\ LET file == op[p].file  row == op[p].row  lines == op[p].lines IN
     /\ source' = [source EXCEPT ![file] = Without(lines, row.line)]
     /\ removed' = [removed EXCEPT ![file] =
          IF row.line \in DOMAIN lines /\ (@ = 0 \/ row.line < @) THEN row.line ELSE @]
     /\ doubt' = IF Leads(row, file) /\ op[p].next = "idle" THEN doubt
                 ELSE doubt \union {file, row.file}
  /\ op' = [op EXCEPT ![p] = [at |-> "end", file |-> @.file, next |-> @.next]]
  /\ UNCHANGED <<db, name, session, work, ops, crashes, alone, gone>>

(* sql_end.  The client is told DELETED:SUCCESS, or the file is read.       *)
EndEdit(p) ==
  /\ At(p, {"end"})
  /\ Leave(p)
  /\ op' = [op EXCEPT ![p] =
       IF @.next = "read" THEN [at |-> "read", file |-> @.file] ELSE Idle]
  /\ gone' = gone \union {db[k].fact : k \in Used(db) \ Used(work)}
  /\ UNCHANGED <<source, name, work, ops, crashes, removed, doubt, alone>>

-----------------------------------------------------------------------------
(* Reading a file: hal2012_add_xml_file.                                    *)

(* READ:XML, LIST:XML.                                                      *)
ReadFile(p, f) ==
  /\ Command(p)
  /\ op' = [op EXCEPT ![p] = [at |-> "read", file |-> f]]
  /\ UNCHANGED <<source, db, name, session, work, crashes, history>>

(* The others that are between their first session with a file of this id   *)
(* and their last.                                                          *)
Readers(p, f) ==
  {q \in Procs \ {p} : At(q, {"clear", "cleared", "add", "more"}) /\ op[q].file \in SameId(f)}

(* disk_delete_everything_from: the rows with the id of the file.           *)
DropRows(f) ==
  [k \in Keys |-> IF db[k] # None /\ db[k].file \in SameId(f) THEN None ELSE db[k]]

(* The first session: disk_delete_everything_from, disk_add_filename.       *)
BeginClear(p) ==
  /\ At(p, {"read"}) /\ Enter(p)
  /\ LET f == op[p].file  others == Readers(p, f) IN
     /\ work' = DropRows(f)
     /\ op' = [op EXCEPT ![p] = [at |-> "clear", file |-> f]]
     /\ doubt' = doubt \union SameId(f)
     /\ alone' = (alone \ others) \union (IF others = {} THEN {p} ELSE {})
  /\ UNCHANGED <<source, db, name, ops, crashes, removed, gone>>

(* gen_sql_add_filename: the first name of an id stays.                     *)
AddName(f) == name' = [name EXCEPT ![FileId[f]] = IF @ = None THEN f ELSE @]

(* Refuted variant: the thread returns after the first session.             *)
EndClearReturn(p) ==
  /\ At(p, {"clear"})
  /\ Leave(p) /\ AddName(op[p].file)
  /\ op' = [op EXCEPT ![p] = Idle]
  /\ UNCHANGED <<source, work, ops, crashes, history>>

EndClear(p) ==
  /\ At(p, {"clear"})
  /\ Leave(p) /\ AddName(op[p].file)
  /\ op' = [op EXCEPT ![p] = [at |-> "cleared", file |-> @.file]]
  /\ UNCHANGED <<source, work, ops, crashes, history>>

(* use_xml_fact: with the lines Batch, 2 * Batch, ... a new session begins. *)
NextBatch(n) == IF n = 1 THEN Batch ELSE n + Batch

LastOfBatch(n, lines) ==
  IF NextBatch(n) <= Len(lines) THEN NextBatch(n) - 1 ELSE Len(lines)

(* add_xml_fact for line n and those after it, in one session.              *)
AddLines(p, lines, n) == \E key \in 0..MaxKey :
  LET f == op[p].file
      m == LastOfBatch(n, lines)
      LineOf(k) == n - 1 + k - key
  IN
  /\ LastKey(db, key)
  /\ key + (m - n) + 1 <= MaxKey
  /\ work' = [k \in Keys |->
       IF k > key /\ LineOf(k) <= m
         THEN [fact |-> lines[LineOf(k)], file |-> f, line |-> LineOf(k)] ELSE db[k]]
  /\ op' = [op EXCEPT ![p] =
       [at |-> "add", file |-> f, lines |-> lines, n |-> NextBatch(n)]]

(* add_xml_fact_file: the next session begins, the file is read.            *)
BeginAdd(p) ==
  /\ At(p, {"cleared"}) /\ Enter(p)
  /\ AddLines(p, source[op[p].file], 1)
  /\ LET f == op[p].file IN
     /\ removed' = [removed EXCEPT ![f] = 0]
     /\ doubt' = IF p \in alone THEN doubt \ {f} ELSE doubt
     /\ alone' = alone \ {p}
  /\ UNCHANGED <<source, db, name, ops, crashes, gone>>

EndBatch(p) ==
  /\ At(p, {"add"})
  /\ Leave(p)
  /\ op' = [op EXCEPT ![p] =
       IF @.n <= Len(@.lines)
         THEN [at |-> "more", file |-> @.file, lines |-> @.lines, n |-> @.n]
         ELSE Idle]
  /\ UNCHANGED <<source, name, work, ops, crashes, history>>

BeginBatch(p) ==
  /\ At(p, {"more"}) /\ Enter(p)
  /\ AddLines(p, op[p].lines, op[p].n)
  /\ UNCHANGED <<source, db, name, ops, crashes, history>>

-----------------------------------------------------------------------------
(* Writing files without a session.                                         *)

(* save_facts: the line is appended, and reread_xml_file reads the file.    *)
Learn(p, f) == \E fact \in Learnt[f] :
  /\ Command(p)
  /\ source' = [source EXCEPT ![f] = Append(@, fact)]
  /\ op' = [op EXCEPT ![p] = [at |-> "read", file |-> f]]
  /\ doubt' = doubt \union {f}
  /\ gone' = gone \ {fact}
  /\ UNCHANGED <<db, name, session, work, crashes, removed, alone>>

(* hal2012_add_pro_file: the file is emptied, whether or not there is a     *)
(* .pro file, ...                                                           *)
BeginConvert(p, f) ==
  /\ Command(p)
  /\ source' = [source EXCEPT ![f] = <<>>]
  /\ op' = [op EXCEPT ![p] =
       IF Pro[f] = <<>> THEN Idle ELSE [at |-> "convert", file |-> f, n |-> 0]]
  /\ doubt' = doubt \union {f}
  /\ UNCHANGED <<db, name, session, work, crashes, removed, alone, gone>>

(* ... and written line by line.                                            *)
Convert(p) ==
  /\ At(p, {"convert"})
  /\ LET f == op[p].file  n == op[p].n + 1 IN
     /\ source' = [source EXCEPT ![f] = SubSeq(Pro[f], 1, n)]
     /\ op' = [op EXCEPT ![p] = IF n < Len(Pro[f]) THEN [at |-> "convert", file |-> f, n |-> n]
                             ELSE Idle]
     /\ doubt' = doubt \union {f}
     /\ gone' = gone \ {Pro[f][n]}
  /\ UNCHANGED <<db, name, session, work, ops, crashes, removed, alone>>

-----------------------------------------------------------------------------
(* A process ends in the middle of its command: it dies, or waits for ever  *)
(* for an echo that t2, which has ended with its client, does not send.     *)
Leaves(p) ==
  /\ ~At(p, {"idle"}) /\ crashes < MaxCrash
  /\ crashes' = crashes + 1
  /\ op' = [op EXCEPT ![p] = Idle]
  /\ doubt' = IF op[p].file = None THEN doubt ELSE doubt \union SameId(op[p].file)
  /\ alone' = alone \ {p}
  /\ UNCHANGED <<source, work, ops, removed, gone>>

(* Its session is rolled back; what it did to files stays, and so do its    *)
(* earlier sessions.  The lock that it holds stays set, and so does one     *)
(* that was granted to it while it waited.                                  *)
Crash(p) ==
  /\ Leaves(p)
  /\ session' \in IF session = p THEN {Lost}
                  ELSE IF session = None /\ At(p, {"read", "cleared", "more"})
                    THEN {None, Lost} ELSE {session}
  /\ UNCHANGED <<db, name>>

(* sql_end commits before it gives the lock back, and gets only so far.     *)
CommitOnly(p) ==
  /\ Leaves(p)
  /\ At(p, {"end", "clear", "add"})
  /\ session' = Lost /\ db' = work
  /\ IF At(p, {"clear"}) THEN AddName(op[p].file) ELSE UNCHANGED name

(* The server and its children are started anew.                            *)
Restart ==
  /\ session = Lost /\ session' = None
  /\ op' = [p \in Procs |-> Idle]
  /\ doubt' = doubt \union {f \in Files : \E p \in Procs : op[p].file \in SameId(f)}
  /\ alone' = {}
  /\ UNCHANGED <<source, db, name, work, ops, crashes, removed, gone>>

Step(p) ==
  \/ TakeSource(p) \/ PutSource(p) \/ EndEdit(p)
  \/ BeginClear(p) \/ EndClear(p) \/ BeginAdd(p) \/ EndBatch(p) \/ BeginBatch(p)
  \/ Convert(p)

Next ==
  \/ \E p \in Procs :
       \/ \E k \in Keys : BeginDelete(p, k) \/ BeginReplace(p, k)
       \/ \E f \in Files : ReadFile(p, f) \/ Learn(p, f) \/ BeginConvert(p, f)
       \/ Step(p)
       \/ Crash(p) \/ CommitOnly(p)
  \/ Restart

Spec == Init /\ [][Next]_vars

(* A process carries out its command: nothing holds it up but the session   *)
(* of another, or a lock that is lost, and commands are finitely many.      *)
(* Nobody has to start the server anew.                                     *)
Fairness == \A p \in Procs : WF_vars(Step(p))
FairSpec == Spec /\ Fairness

-----------------------------------------------------------------------------
(* Properties.                                                              *)

(* The variables keep their types, and a session is that of the process     *)
(* which is about to end it.                                                *)
TypeOK ==
  /\ source \in [Files -> Seq(Facts)]
  /\ db \in [Keys -> Row \union {None}] /\ work \in [Keys -> Row \union {None}]
  /\ name \in [Id -> Files \union {None}]
  /\ session \in Procs \union {None, Lost}
  /\ op \in [Procs -> Op]
  /\ \A p \in Procs : At(p, {"take", "put", "end", "clear", "add"}) <=> session = p
  /\ ops \in 0..MaxOps /\ crashes \in 0..MaxCrash
  /\ removed \in [Files -> Nat]
  /\ doubt \subseteq Files /\ alone \subseteq Procs /\ gone \subseteq Facts

(* Nobody is between reading or writing a file of this id and the end of    *)
(* the session that goes with it.                                           *)
Quiet(f) ==
  \A p \in Procs : ~At(p, {"take", "put", "end", "clear", "cleared", "add", "more"})
                   \/ op[p].file \notin SameId(f)

(* A row's place among the rows of its file.                                *)
Place(k) == Cardinality({j \in RowsOf(db, db[k].file) : db[j].line <= db[k].line})

(* A file is read in several sessions, and in between its rows and lines    *)
(* are deleted, from other sessions and without one.  Nevertheless the rows *)
(* of a file are its lines, each once and in their order, except for files  *)
(* with reason to doubt: since it was last read with no other reading of it *)
(* beside, from start to end, a line was appended or replaced or the file   *)
(* converted, a line was removed by a row that no longer led to it, another *)
(* file with its id was read, or a process died that was busy with it.      *)
SourceAgrees == \A f \in Files \ doubt : Quiet(f) =>
  /\ Cardinality(RowsOf(db, f)) = Len(source[f])
  /\ \A k \in RowsOf(db, f) : source[f][Place(k)] = db[k].fact

(* The line of a row is the one that a delete or an edit by key changes.    *)
(* For the rows of such a file it is still their own as long as no line     *)
(* before it has been removed.                                              *)
RowsLeadToLines == \A f \in Files \ doubt : Quiet(f) =>
  \A k \in RowsOf(db, f) : removed[f] = 0 \/ db[k].line < removed[f] =>
    source[f][db[k].line] = db[k].fact

(* What a sentence teaches is appended to a file without a session and      *)
(* stored when the file is read, at last: the fact comes into the table     *)
(* unless, before that, it leaves the file, a process dies or the database  *)
(* lock is left set by a process that is gone.                              *)
LearnedIsStored ==
  \A p \in Procs, f \in Files, n \in 0..MaxCrash : \A fact \in Learnt[f] :
    LET InSource == \E i \in DOMAIN source[f] : source[f][i] = fact
        InTable == \E k \in RowsOf(db, f) : db[k].fact = fact
    IN At(p, {"read"}) /\ op[p].file = f /\ InSource /\ crashes = n
         ~> InTable \/ ~InSource \/ crashes > n \/ session = Lost

(* "DELETED:SUCCESS": what a client was told is deleted does not come back  *)
(* unless it is learned again.                                              *)
DeletedStaysDeleted == \A k \in Used(db) : db[k].fact \notin gone

(* "Clearing DB: .xml file ...": to read a file removes no row of another.  *)
ClearsOneFile ==
  [][\A p \in Procs : EndClear(p) =>
       \A k \in Used(db) : db[k].file # op[p].file => db'[k] = db[k]]_vars
=============================================================================
