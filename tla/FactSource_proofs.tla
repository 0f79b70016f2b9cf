------------------------- MODULE FactSource_proofs --------------------------
(* What the runs check of FactSource, for any processes, files and lines.   *)
EXTENDS FactSource, TLAPS, FiniteSetTheorems

-----------------------------------------------------------------------------
(* The inductive invariant.                                                 *)

SessionSteps == {"take", "put", "end", "clear", "add"}
ReaderSteps == {"clear", "cleared", "add", "more"}

(* The rows as they will be when the session ends.  While the line of a row *)
(* has not been taken out yet they are those before the session.            *)
Table ==
  IF session \in Procs /\ At(session, {"end", "clear", "add"}) THEN work ELSE db

(* The lines of a file, which are in the memory of the process that is      *)
(* writing it anew for a while.                                             *)
Text(f) ==
  IF session \in Procs /\ At(session, {"put"}) /\ op[session].file = f
    THEN op[session].lines ELSE source[f]

RowIn(table, k, f) == table[k] # None /\ table[k].file = f

(* p is between two sessions that add lines of f.                           *)
Adds(p, f) == At(p, {"add", "more"}) /\ op[p].file = f
Pending(p, f, v) == Adds(p, f) /\ op[p].n <= v /\ v <= Len(op[p].lines)

(* Every id that is in use has a name, and the name has that id.            *)
Named ==
  /\ \A k \in Keys : db[k] # None => name[FileId[db[k].file]] # None
  /\ \A i \in Id : name[i] # None => FileId[name[i]] = i
  /\ \A p \in Procs :
       At(p, {"cleared", "add", "more"}) => name[FileId[op[p].file]] # None

(* What the session of p changes in the table.                              *)
Deletes(row) == \E k \in Keys : db[k] = row /\ work = [db EXCEPT ![k] = None]

Working(p) ==
  /\ At(p, {"take", "put"}) =>
       /\ op[p].row.file \in SameId(op[p].file)
       /\ op[p].next = "idle" => Deletes(op[p].row)
       /\ op[p].next = "read" => work = db
  /\ At(p, {"end"}) => \A k \in Keys : work[k] # db[k] =>
       /\ op[p].file # None /\ work[k] = None
       /\ db[k] # None /\ db[k].file \in SameId(op[p].file)
  /\ At(p, {"clear"}) => work = DropRows(op[p].file)
  /\ At(p, {"add"}) => \A k \in Keys : work[k] # db[k] =>
       db[k] = None /\ RowIn(work, k, op[p].file)

(* Two that read files of one id at the same time leave both in doubt.      *)
Reading(p) ==
  /\ At(p, {"clear", "cleared"}) => SameId(op[p].file) \subseteq doubt
  /\ At(p, {"add", "more"}) =>
       /\ SameId(op[p].file) \ {op[p].file} \subseteq doubt
       /\ op[p].file \notin doubt => Readers(p, op[p].file) = {}
  /\ p \in alone =>
       /\ At(p, {"clear", "cleared"}) /\ Readers(p, op[p].file) = {}
       /\ At(p, {"cleared"}) =>
            \A k \in Keys : db[k] # None => db[k].file \notin SameId(op[p].file)

(* Rows of a file have lines of their own, and those that are still to be   *)
(* added come after them.                                                   *)
Apart(f) ==
  /\ \A j, k \in Keys :
       RowIn(Table, j, f) /\ RowIn(Table, k, f) /\ Table[j].line = Table[k].line
         => j = k
  /\ \A p \in Procs : Adds(p, f) =>
       \A k \in Keys : RowIn(Table, k, f) => Table[k].line < op[p].n

(* The fact x of line v is stored or will be.                               *)
Owed(f, v, x) ==
  \/ \E k \in Keys : RowIn(Table, k, f) /\ Table[k].line = v /\ Table[k].fact = x
  \/ \E p \in Procs : Pending(p, f, v) /\ op[p].lines[v] = x

(* The lines of f are those that its rows had when the file was read, in    *)
(* that order: e has the numbers that they had then.                        *)
Fits(e, f) ==
  /\ Len(e) = Len(Text(f))
  /\ \A i, j \in 1..Len(e) : i < j => e[i] < e[j]
  /\ \A i \in 1..Len(e) : Owed(f, e[i], Text(f)[i])
  /\ \A v \in Nat, x \in Facts :
       Owed(f, v, x) => \E i \in 1..Len(e) : e[i] = v /\ Text(f)[i] = x
  /\ \A i \in 1..Len(e) : removed[f] = 0 \/ e[i] < removed[f] => e[i] = i

Listed(f) == \E e \in Seq(Nat) : Fits(e, f)

Agrees(f) == Apart(f) /\ Listed(f)

(* There is a line left to write of a file that is converted.               *)
Writing == \A p \in Procs : At(p, {"convert"}) => op[p].n < Len(Pro[op[p].file])

IInv ==
  /\ TypeOK /\ Named
  /\ \A p \in Procs : Working(p) /\ Reading(p)
  /\ \A f \in Files \ doubt : Agrees(f)
  /\ Writing

-----------------------------------------------------------------------------
(* What a process holds in each step.                                       *)
LEMMA OpTypes ==
  ASSUME NEW o \in Op
  PROVE  /\ o.at \in {"idle", "read", "convert"} \union SessionSteps \union ReaderSteps
         /\ o.at \notin {"idle", "end"} => o.file \in Files
         /\ o.at \in {"take", "put"} => o.row \in Row /\ o.next \in {"idle", "read"}
         /\ o.at = "put" => o.lines \in Seq(Facts)
         /\ o.at = "end" => o.next \in {"idle", "read"} /\ (o.file \in Files \/ o.file = None)
         /\ o.at = "end" /\ o.file = None => o.next = "idle"
         /\ o.at \in {"add", "more"} => o.lines \in Seq(Facts) /\ o.n \in Nat \ {0}
         /\ o.at = "convert" => o.n \in Nat
         /\ o.at = "idle" => o = Idle
<1> DEFINE L == Seq(Facts)
<1> HIDE DEF L
<1>1. o \in {Idle} \union [at : {"read", "clear", "cleared"}, file : Files]
  \union [at : {"take"}, file : Files, row : Row, next : {"idle", "read"}]
  \union [at : {"put"}, file : Files, row : Row, next : {"idle", "read"}, lines : L]
  \union [at : {"end"}, file : Files, next : {"idle", "read"}]
  \union [at : {"end"}, file : {None}, next : {"idle"}]
  \union [at : {"add", "more"}, file : Files, lines : L, n : Nat \ {0}]
  \union [at : {"convert"}, file : Files, n : Nat]
  BY DEF Op, L
<1>2. CASE o = Idle
  BY <1>2 DEF Idle
<1>3. CASE o \in [at : {"read", "clear", "cleared"}, file : Files]
  BY <1>3 DEF SessionSteps, ReaderSteps
<1>4. CASE o \in [at : {"take"}, file : Files, row : Row, next : {"idle", "read"}]
  BY <1>4 DEF SessionSteps, ReaderSteps
<1>5. CASE o \in [at : {"put"}, file : Files, row : Row, next : {"idle", "read"}, lines : L]
  BY <1>5 DEF SessionSteps, ReaderSteps, L
<1>6. CASE o \in [at : {"end"}, file : Files, next : {"idle", "read"}]
  <2>1. None \notin Files
    BY FactSourceAssumption
  <2> QED
    BY <1>6, <2>1 DEF SessionSteps, ReaderSteps
<1>7. CASE o \in [at : {"end"}, file : {None}, next : {"idle"}]
  BY <1>7 DEF SessionSteps, ReaderSteps
<1>8. CASE o \in [at : {"add", "more"}, file : Files, lines : L, n : Nat \ {0}]
  BY <1>8 DEF SessionSteps, ReaderSteps, L
<1>9. CASE o \in [at : {"convert"}, file : Files, n : Nat]
  BY <1>9 DEF SessionSteps, ReaderSteps
<1> QED
  BY <1>1, <1>2, <1>3, <1>4, <1>5, <1>6, <1>7, <1>8, <1>9

(* The records that are in Op.                                              *)
LEMMA OpMade ==
  ASSUME NEW f \in Files
  PROVE  /\ Idle \in Op /\ [at |-> "end", file |-> None, next |-> "idle"] \in Op
         /\ \A s \in {"read", "clear", "cleared"} : [at |-> s, file |-> f] \in Op
         /\ \A next \in {"idle", "read"} : [at |-> "end", file |-> f, next |-> next] \in Op
         /\ \A row \in Row, next \in {"idle", "read"} :
              [at |-> "take", file |-> f, row |-> row, next |-> next] \in Op
         /\ \A row \in Row, next \in {"idle", "read"}, lines \in Seq(Facts) :
              [at |-> "put", file |-> f, row |-> row, next |-> next, lines |-> lines] \in Op
         /\ \A s \in {"add", "more"}, lines \in Seq(Facts), n \in Nat \ {0} :
              [at |-> s, file |-> f, lines |-> lines, n |-> n] \in Op
         /\ \A n \in Nat : [at |-> "convert", file |-> f, n |-> n] \in Op
BY DEF Op

(* A session is that of the process which is about to end it, and the other *)
(* variables are typed when the changed ones are.                           *)
LEMMA Types ==
  ASSUME TypeOK, NEW p \in Procs, NEW o \in Op, op' = [op EXCEPT ![p] = o],
         session' \in {session, p, None, Lost},
         o.at \in SessionSteps <=> session' = p,
         session' = session \/ session \in {p, None},
         source' \in [Files -> Seq(Facts)],
         db' \in [Keys -> Row \union {None}], work' \in [Keys -> Row \union {None}],
         name' \in [Id -> Files \union {None}],
         ops' \in 0..MaxOps, crashes' \in 0..MaxCrash, removed' \in [Files -> Nat],
         doubt' \subseteq Files, alone' \subseteq Procs, gone' \subseteq Facts
  PROVE  TypeOK'
<1>1. op' \in [Procs -> Op] /\ session' \in Procs \union {None, Lost}
  BY DEF TypeOK
<1>2. ASSUME NEW q \in Procs
      PROVE  At(q, SessionSteps)' <=> session' = q
  <2>1. At(q, SessionSteps) <=> session = q
    BY DEF TypeOK, SessionSteps
  <2>2. op \in [Procs -> Op] /\ None \notin Procs /\ Lost \notin Procs
    BY FactSourceAssumption DEF TypeOK
  <2>3. CASE q = p
    BY <2>2, <2>3 DEF At
  <2>4. CASE q # p
    BY <2>1, <2>2, <2>4 DEF At
  <2> QED
    BY <2>3, <2>4
<1> QED
  BY <1>1, <1>2 DEF TypeOK, SessionSteps

(* Only the process in a session is in a step of one.                       *)
LEMMA Holder ==
  ASSUME TypeOK, NEW p \in Procs
  PROVE  /\ op[p] \in Op
         /\ At(p, SessionSteps) <=> session = p
         /\ None \notin Procs /\ None \notin Files /\ None \notin Row
BY FactSourceAssumption DEF TypeOK, SessionSteps

LEMMA HolderNext ==
  ASSUME TypeOK', NEW p \in Procs
  PROVE  At(p, SessionSteps)' <=> session' = p
BY DEF TypeOK, SessionSteps

-----------------------------------------------------------------------------
(* What an edit by key begins with.                                         *)
LEMMA EditOp ==
  ASSUME TypeOK, Named, NEW k \in Keys, NEW next \in {"idle", "read"}
  PROVE  /\ Edit(k, next) \in Op
         /\ \/ /\ db[k] = None
               /\ Edit(k, next) = [at |-> "end", file |-> None, next |-> "idle"]
            \/ /\ db[k] \in Row /\ db[k] # None /\ name[FileId[db[k].file]] \in Files
               /\ db[k].file \in SameId(name[FileId[db[k].file]])
               /\ Edit(k, next) = [at |-> "take", file |-> name[FileId[db[k].file]],
                                   row |-> db[k], next |-> next]
<1>1. CASE db[k] = None
  BY <1>1 DEF Edit, Op
<1>2. CASE db[k] # None
  <2>1. db[k] \in Row
    BY <1>2 DEF TypeOK
  <2>2. db[k].file \in Files
    BY <2>1 DEF Row
  <2>3. FileId[db[k].file] \in Id
    BY <2>2 DEF Id
  <2>4. name[FileId[db[k].file]] \in Files /\ FileId[name[FileId[db[k].file]]] = FileId[db[k].file]
    BY <1>2, <2>3 DEF TypeOK, Named
  <2>5. Edit(k, next) = [at |-> "take", file |-> name[FileId[db[k].file]],
                         row |-> db[k], next |-> next]
    BY <1>2 DEF Edit
  <2> QED
    BY <1>2, <2>1, <2>2, <2>4, <2>5, OpMade DEF SameId
<1> QED
  BY <1>1, <1>2

(* The other lines stay in their order.                                     *)
LEMMA WithoutLine ==
  ASSUME NEW S, NEW lines \in Seq(S), NEW n \in 1..Len(lines)
  PROVE  /\ Without(lines, n) \in Seq(S)
         /\ Len(Without(lines, n)) = Len(lines) - 1
         /\ \A i \in 1..(Len(lines) - 1) :
              Without(lines, n)[i] = IF i < n THEN lines[i] ELSE lines[i + 1]
<1> DEFINE a == SubSeq(lines, 1, n - 1)
           b == SubSeq(lines, n + 1, Len(lines))
<1>1. Without(lines, n) = a \o b
  <2>1. DOMAIN lines = 1..Len(lines)
    OBVIOUS
  <2> QED
    BY <2>1 DEF Without
<1>2. a \in Seq(S) /\ b \in Seq(S)
  OBVIOUS
<1>3. Len(a) = n - 1 /\ Len(b) = Len(lines) - n
  OBVIOUS
<1>4. \A i \in 1..(n - 1) : a[i] = lines[i]
  OBVIOUS
<1>5. \A i \in 1..(Len(lines) - n) : b[i] = lines[n + i]
  OBVIOUS
<1> HIDE DEF a, b
<1>6. a \o b \in Seq(S) /\ Len(a \o b) = Len(a) + Len(b)
  BY <1>2
<1>7. \A i \in 1..(Len(a) + Len(b)) : (a \o b)[i] = IF i <= Len(a) THEN a[i] ELSE b[i - Len(a)]
  BY <1>2
<1>8. ASSUME NEW i \in 1..(Len(lines) - 1)
      PROVE  (a \o b)[i] = IF i < n THEN lines[i] ELSE lines[i + 1]
  <2>1. (a \o b)[i] = IF i <= Len(a) THEN a[i] ELSE b[i - Len(a)]
    BY <1>3, <1>7
  <2>2. CASE i < n
    BY <1>3, <1>4, <2>1, <2>2
  <2>3. CASE ~(i < n)
    <3>1. i - Len(a) \in 1..(Len(lines) - n) /\ n + (i - Len(a)) = i + 1 /\ ~(i <= Len(a))
      BY <1>3, <2>3
    <3> QED
      BY <1>5, <2>1, <2>3, <3>1
  <2> QED
    BY <2>2, <2>3
<1>9. Len(a \o b) = Len(lines) - 1
  BY <1>3, <1>6
<1> QED
  BY <1>1, <1>6, <1>8, <1>9

LEMMA WithoutType ==
  ASSUME NEW lines \in Seq(Facts), NEW n \in Nat
  PROVE  Without(lines, n) \in Seq(Facts)
<1>1. CASE n \in 1..Len(lines)
  BY <1>1, WithoutLine
<1>2. CASE n \notin 1..Len(lines)
  BY <1>2 DEF Without
<1> QED
  BY <1>1, <1>2

(* The lines n, n + 1, ... of a session get rows of their own, at keys that *)
(* were free.                                                               *)
LEMMA LinesAdded ==
  ASSUME TypeOK, NEW p \in Procs, NEW lines \in Seq(Facts), NEW n \in Nat \ {0},
         op[p].file \in Files, AddLines(p, lines, n)
  PROVE  LET f == op[p].file  next == NextBatch(n) IN
         /\ next \in Nat \ {0} /\ n < next
         /\ op' = [op EXCEPT ![p] =
                     [at |-> "add", file |-> f, lines |-> lines, n |-> next]]
         /\ work' \in [Keys -> Row \union {None}]
         /\ \A k \in Keys : work'[k] # db[k] =>
              /\ db[k] = None /\ work'[k] \in Row /\ work'[k].file = f
              /\ n <= work'[k].line /\ work'[k].line < next
              /\ work'[k].line <= Len(lines) /\ work'[k].fact = lines[work'[k].line]
         /\ \A j, k \in Keys :
              work'[j] # db[j] /\ work'[k] # db[k] /\ work'[j].line = work'[k].line
                => j = k
         /\ \A v \in Nat : n <= v /\ v < next /\ v <= Len(lines) =>
              \E k \in Keys : /\ db[k] = None
                              /\ work'[k] = [fact |-> lines[v], file |-> f, line |-> v]
<1> DEFINE f == op[p].file
           next == NextBatch(n)
           m == LastOfBatch(n, lines)
<1>1. next \in Nat \ {0} /\ n < next
  BY FactSourceAssumption DEF NextBatch
<1>2. Len(lines) \in Nat
  OBVIOUS
<1>3. m \in Nat /\ m <= Len(lines) /\ m < next
      /\ \A v \in Nat : v < next /\ v <= Len(lines) => v <= m
  BY <1>1, <1>2 DEF LastOfBatch
<1> HIDE DEF next, m
<1>4. PICK key \in 0..MaxKey :
        /\ LastKey(db, key)
        /\ key + (m - n) + 1 <= MaxKey
        /\ work' = [k \in Keys |->
             IF k > key /\ n - 1 + k - key <= m
               THEN [fact |-> lines[n - 1 + k - key], file |-> f, line |-> n - 1 + k - key]
               ELSE db[k]]
        /\ op' = [op EXCEPT ![p] =
             [at |-> "add", file |-> f, lines |-> lines, n |-> next]]
  BY DEF AddLines, m, next
<1>5. f \in Files /\ MaxKey \in Nat /\ None \notin Row
  BY FactSourceAssumption
<1>6. \A k \in Keys : k > key => db[k] = None
  BY <1>4, <1>5 DEF LastKey, Used, Keys
<1> DEFINE New(k) == k > key /\ n - 1 + k - key <= m
           Line(k) == n - 1 + k - key
<1>7. \A k \in Keys : New(k) =>
        /\ Line(k) \in Nat \ {0} /\ n <= Line(k) /\ Line(k) < next /\ Line(k) <= Len(lines)
  BY <1>1, <1>2, <1>3, <1>4, <1>5 DEF Keys
<1>8. \A k \in Keys : New(k) => lines[Line(k)] \in Facts
  BY <1>7, <1>2
<1>9. \A k \in Keys :
        /\ New(k) => work'[k] = [fact |-> lines[Line(k)], file |-> f, line |-> Line(k)]
        /\ ~New(k) => work'[k] = db[k]
  BY <1>4
<1>10. \A j, k \in Keys : New(j) /\ New(k) /\ Line(j) = Line(k) => j = k
  BY <1>4, <1>5 DEF Keys
<1>11. \A v \in Nat : n <= v /\ v < next /\ v <= Len(lines) =>
         \E k \in Keys : New(k) /\ Line(k) = v
  <2> SUFFICES ASSUME NEW v \in Nat, n <= v, v < next, v <= Len(lines)
               PROVE  \E k \in Keys : New(k) /\ Line(k) = v
    OBVIOUS
  <2>1. v <= m
    BY <1>3
  <2>2. key + (v - n) + 1 \in Keys /\ key + (v - n) + 1 > key
    BY <1>3, <1>4, <1>5, <2>1 DEF Keys
  <2>3. n - 1 + (key + (v - n) + 1) - key = v
    <3>1. key \in Int /\ n \in Int /\ v \in Int
      BY <1>5
    <3> QED
      BY <3>1
  <2> QED
    BY <2>1, <2>2, <2>3
<1>12. \A k \in Keys : New(k) => db[k] = None
  BY <1>6
<1> HIDE DEF New, Line
<1>13. \A k \in Keys : New(k) => work'[k] \in Row
  <2>1. \A x \in Facts, v \in Nat \ {0} : [fact |-> x, file |-> f, line |-> v] \in Row
    BY <1>5 DEF Row
  <2> HIDE DEF f
  <2> QED
    BY <1>7, <1>8, <1>9, <2>1
<1>14. work' \in [Keys -> Row \union {None}]
  <2>1. \A k \in Keys : work'[k] \in Row \union {None}
    BY <1>9, <1>13 DEF TypeOK
  <2>2. \E g : work' = [k \in Keys |-> g[k]]
    <3>1. work' = [k \in Keys |-> work'[k]]
      BY <1>4
    <3> QED
      BY <3>1
  <2> QED
    BY <2>1, <2>2
<1>15. \A k \in Keys : work'[k] # db[k] =>
         /\ New(k) /\ db[k] = None /\ work'[k] \in Row /\ work'[k].file = f
         /\ work'[k].line = Line(k)
         /\ n <= work'[k].line /\ work'[k].line < next
         /\ work'[k].line <= Len(lines) /\ work'[k].fact = lines[work'[k].line]
  <2> SUFFICES ASSUME NEW k \in Keys, work'[k] # db[k]
               PROVE  /\ New(k) /\ db[k] = None /\ work'[k] \in Row
                      /\ work'[k].file = f /\ work'[k].line = Line(k)
                      /\ work'[k].fact = lines[Line(k)]
    BY <1>7
  <2>1. New(k)
    BY <1>9
  <2>2. work'[k] = [fact |-> lines[Line(k)], file |-> f, line |-> Line(k)]
    BY <1>9, <2>1
  <2> QED
    BY <1>12, <1>13, <2>1, <2>2
<1>16. \A v \in Nat : n <= v /\ v < next /\ v <= Len(lines) =>
         \E k \in Keys : /\ db[k] = None
                         /\ work'[k] = [fact |-> lines[v], file |-> f, line |-> v]
  BY <1>9, <1>11, <1>12
<1>17. \A j, k \in Keys :
         work'[j] # db[j] /\ work'[k] # db[k] /\ work'[j].line = work'[k].line
           => j = k
  BY <1>10, <1>15
<1>18. op' = [op EXCEPT ![p] = [at |-> "add", file |-> f, lines |-> lines, n |-> next]]
  BY <1>4
<1> QED
  BY <1>1, <1>14, <1>15, <1>16, <1>17, <1>18 DEF next

-----------------------------------------------------------------------------
(* The variables keep their types.                                          *)
LEMMA TypesStep ==
  ASSUME TypeOK, Named, Writing, [Next]_vars
  PROVE  TypeOK'
<1>1. TypeOK /\ None \notin Procs /\ None \notin Files /\ MaxCrash \in Nat /\ MaxOps \in Nat
  BY FactSourceAssumption
<1> USE DEF SessionSteps
<1>2. ASSUME NEW p \in Procs, NEW k \in Keys, BeginDelete(p, k) \/ BeginReplace(p, k)
      PROVE  TypeOK'
  <2>1. /\ Edit(k, "idle") \in Op /\ Edit(k, "idle").at \in {"take", "end"}
        /\ Edit(k, "read") \in Op /\ Edit(k, "read").at \in {"take", "end"}
    BY <1>1, EditOp
  <2>2. ops' \in 0..MaxOps /\ session = None /\ session' = p
    BY <1>1, <1>2 DEF TypeOK, BeginDelete, BeginReplace, Command, Enter
  <2>3. work' \in [Keys -> Row \union {None}]
    BY <1>1, <1>2 DEF TypeOK, BeginDelete, BeginReplace
  <2>4. CASE BeginDelete(p, k)
    <3> DEFINE o == Edit(k, "idle")
    <3>1. op' = [op EXCEPT ![p] = o] /\ o \in Op /\ o.at \in SessionSteps
      BY <2>1, <2>4 DEF BeginDelete
    <3> HIDE DEF o
    <3>2. UNCHANGED <<source, db, name, crashes, removed, doubt, alone, gone>>
      BY <2>4 DEF BeginDelete, history
    <3> QED
      BY <1>1, <2>2, <2>3, <3>1, <3>2, Types DEF TypeOK
  <2>5. CASE BeginReplace(p, k)
    <3> DEFINE o == Edit(k, "read")
    <3>1. op' = [op EXCEPT ![p] = o] /\ o \in Op /\ o.at \in SessionSteps
      BY <2>1, <2>5 DEF BeginReplace
    <3> HIDE DEF o
    <3>2. UNCHANGED <<source, db, name, crashes, removed, doubt, alone, gone>>
      BY <2>5 DEF BeginReplace, history
    <3> QED
      BY <1>1, <2>2, <2>3, <3>1, <3>2, Types DEF TypeOK
  <2> QED
    BY <1>2, <2>4, <2>5
<1>3. ASSUME NEW p \in Procs, TakeSource(p)
      PROVE  TypeOK'
  <2>1. session = p /\ op[p] \in Op /\ op[p].at = "take"
    BY <1>1, <1>3, Holder DEF TakeSource, At
  <2>2. op[p].file \in Files /\ op[p].row \in Row /\ op[p].next \in {"idle", "read"}
    BY <2>1, OpTypes
  <2>3. source[op[p].file] \in Seq(Facts)
    BY <2>2 DEF TypeOK
  <2> DEFINE o == [at |-> "put", file |-> op[p].file, row |-> op[p].row,
                   next |-> op[p].next, lines |-> source[op[p].file]]
  <2>4. o \in Op /\ o.at \in SessionSteps
    BY <2>2, <2>3, OpMade
  <2>5. op' = [op EXCEPT ![p] = o]
    BY <1>3 DEF TakeSource
  <2> HIDE DEF o
  <2>6. source' \in [Files -> Seq(Facts)]
    BY <1>3, <2>2 DEF TypeOK, TakeSource
  <2>7. UNCHANGED <<db, name, session, work, ops, crashes, removed, doubt, alone, gone>>
    BY <1>3 DEF TakeSource, history
  <2> QED
    BY <1>1, <2>1, <2>4, <2>5, <2>6, <2>7, Types DEF TypeOK
<1>4. ASSUME NEW p \in Procs, PutSource(p)
      PROVE  TypeOK'
  <2>1. session = p /\ op[p] \in Op /\ op[p].at = "put"
    BY <1>1, <1>4, Holder DEF PutSource, At
  <2>2. /\ op[p].file \in Files /\ op[p].row \in Row /\ op[p].next \in {"idle", "read"}
        /\ op[p].lines \in Seq(Facts)
    BY <2>1, OpTypes
  <2>3. op[p].row.line \in Nat \ {0} /\ op[p].row.file \in Files
    BY <2>2 DEF Row
  <2> DEFINE o == [at |-> "end", file |-> op[p].file, next |-> op[p].next]
  <2>4. o \in Op /\ o.at \in SessionSteps
    BY <2>2, OpMade
  <2>5. op' = [op EXCEPT ![p] = o]
    BY <1>4 DEF PutSource
  <2> HIDE DEF o
  <2>6. source' \in [Files -> Seq(Facts)]
    <3>1. Without(op[p].lines, op[p].row.line) \in Seq(Facts)
      BY <2>2, <2>3, WithoutType
    <3> QED
      BY <1>4, <2>2, <3>1 DEF TypeOK, PutSource
  <2>7. removed' \in [Files -> Nat] /\ doubt' \subseteq Files
    BY <1>4, <2>2, <2>3 DEF TypeOK, PutSource
  <2>8. UNCHANGED <<db, name, session, work, ops, crashes, alone, gone>>
    BY <1>4 DEF PutSource
  <2> QED
    BY <1>1, <2>1, <2>4, <2>5, <2>6, <2>7, <2>8, Types DEF TypeOK
<1>5. ASSUME NEW p \in Procs, EndEdit(p)
      PROVE  TypeOK'
  <2>1. session = p /\ op[p] \in Op /\ op[p].at = "end"
    BY <1>1, <1>5, Holder DEF EndEdit, At
  <2> DEFINE o == IF op[p].next = "read" THEN [at |-> "read", file |-> op[p].file]
                  ELSE Idle
  <2>2. o \in Op /\ o.at \notin SessionSteps
    <3>1. CASE op[p].next = "read"
      <4>1. op[p].file \in Files
        BY <2>1, <3>1, OpTypes
      <4> QED
        BY <3>1, <4>1, OpMade
    <3>2. CASE op[p].next # "read"
      BY <3>2 DEF Op, Idle
    <3> QED
      BY <3>1, <3>2
  <2>3. op' = [op EXCEPT ![p] = o]
    BY <1>5 DEF EndEdit
  <2> HIDE DEF o
  <2>4. session' = None /\ db' = work
    BY <1>5 DEF EndEdit, Leave
  <2>5. gone' \subseteq Facts
    <3>1. \A k \in Used(db) : db[k].fact \in Facts
      BY <1>1 DEF TypeOK, Used, Row
    <3> QED
      BY <1>5, <3>1 DEF EndEdit, TypeOK
  <2>6. UNCHANGED <<source, name, work, ops, crashes, removed, doubt, alone>>
    BY <1>5 DEF EndEdit
  <2> QED
    BY <1>1, <2>1, <2>2, <2>3, <2>4, <2>5, <2>6, Types DEF TypeOK
<1>6. ASSUME NEW p \in Procs, NEW f \in Files, ReadFile(p, f) \/ Learn(p, f)
      PROVE  TypeOK'
  <2> DEFINE o == [at |-> "read", file |-> f]
  <2>1. o \in Op /\ o.at \notin SessionSteps
    BY OpMade
  <2>2. op' = [op EXCEPT ![p] = o] /\ session # p /\ session' = session
    BY <1>1, <1>6, Holder DEF ReadFile, Learn, Command, At
  <2> HIDE DEF o
  <2>3. ops' \in 0..MaxOps
    BY <1>1, <1>6 DEF TypeOK, ReadFile, Learn, Command
  <2>4. UNCHANGED <<db, name, work, crashes, removed, alone>>
    BY <1>6 DEF ReadFile, Learn, history
  <2>5. source' \in [Files -> Seq(Facts)] /\ doubt' \subseteq Files /\ gone' \subseteq Facts
    <3>1. CASE ReadFile(p, f)
      BY <1>1, <3>1 DEF ReadFile, history, TypeOK
    <3>2. CASE Learn(p, f)
      <4>1. PICK fact \in Learnt[f] : /\ source' = [source EXCEPT ![f] = Append(@, fact)]
                                      /\ doubt' = doubt \union {f} /\ gone' = gone \ {fact}
        BY <3>2 DEF Learn
      <4>2. fact \in Facts
        BY FactSourceAssumption
      <4>3. Append(source[f], fact) \in Seq(Facts)
        BY <4>2 DEF TypeOK
      <4> QED
        BY <4>1, <4>3 DEF TypeOK
    <3> QED
      BY <1>6, <3>1, <3>2
  <2> QED
    BY <1>1, <2>1, <2>2, <2>3, <2>4, <2>5, Types DEF TypeOK
<1>7. ASSUME NEW p \in Procs, NEW f \in Files, BeginConvert(p, f)
      PROVE  TypeOK'
  <2> DEFINE o == IF Pro[f] = <<>> THEN Idle ELSE [at |-> "convert", file |-> f, n |-> 0]
  <2>1. o \in Op /\ o.at \notin SessionSteps
    BY OpMade DEF Idle, SessionSteps
  <2>2. op' = [op EXCEPT ![p] = o] /\ session # p /\ session' = session
    BY <1>1, <1>7, Holder DEF BeginConvert, Command, At
  <2> HIDE DEF o
  <2>3. ops' \in 0..MaxOps
    BY <1>1, <1>7 DEF TypeOK, BeginConvert, Command
  <2>4. UNCHANGED <<db, name, work, crashes, removed, alone, gone>>
    BY <1>7 DEF BeginConvert
  <2>5. source' \in [Files -> Seq(Facts)] /\ doubt' \subseteq Files
    BY <1>1, <1>7 DEF BeginConvert, TypeOK
  <2> QED
    BY <1>1, <2>1, <2>2, <2>3, <2>4, <2>5, Types DEF TypeOK
<1>8. ASSUME NEW p \in Procs, Convert(p)
      PROVE  TypeOK'
  <2>1. session # p /\ op[p] \in Op /\ op[p].at = "convert"
    BY <1>1, <1>8, Holder DEF Convert, At
  <2> DEFINE f == op[p].file
             n == op[p].n + 1
             o == IF n < Len(Pro[f]) THEN [at |-> "convert", file |-> f, n |-> n] ELSE Idle
  <2>2. f \in Files /\ n \in Nat \ {0}
    BY <2>1, OpTypes
  <2>3. o \in Op /\ o.at \notin SessionSteps
    <3>1. [at |-> "convert", file |-> f, n |-> n] \in Op /\ Idle \in Op
      BY <2>2, OpMade
    <3> HIDE DEF n
    <3> QED
      BY <3>1 DEF Idle
  <2>4. op' = [op EXCEPT ![p] = o]
    BY <1>8 DEF Convert
  <2> HIDE DEF o
  <2>5. source' \in [Files -> Seq(Facts)] /\ doubt' \subseteq Files /\ gone' \subseteq Facts
    <3>1. SubSeq(Pro[f], 1, n) \in Seq(Facts)
      <4>1. Pro[f] \in Seq(Facts)
        BY <2>2, FactSourceAssumption
      <4>2. op[p].n < Len(Pro[f])
        BY <2>1 DEF Writing, At
      <4>3. n <= Len(Pro[f])
        BY <2>1, <4>1, <4>2, OpTypes
      <4> HIDE DEF n
      <4> QED
        BY <2>2, <4>1, <4>3
    <3> QED
      BY <1>1, <1>8, <2>2, <3>1 DEF Convert, TypeOK
  <2>6. UNCHANGED <<db, name, session, work, ops, crashes, removed, alone>>
    BY <1>8 DEF Convert
  <2> QED
    BY <1>1, <2>1, <2>3, <2>4, <2>5, <2>6, Types DEF TypeOK
<1>9. ASSUME NEW p \in Procs, BeginClear(p)
      PROVE  TypeOK'
  <2>1. op[p] \in Op /\ op[p].at = "read" /\ session = None /\ session' = p
    BY <1>1, <1>9, Holder DEF BeginClear, Enter, At
  <2> DEFINE f == op[p].file
             o == [at |-> "clear", file |-> f]
  <2>2. f \in Files
    BY <2>1, OpTypes
  <2>3. o \in Op /\ o.at \in SessionSteps
    BY <2>2, OpMade
  <2>4. op' = [op EXCEPT ![p] = o]
    BY <1>9 DEF BeginClear
  <2> HIDE DEF o
  <2>5. work' \in [Keys -> Row \union {None}] /\ doubt' \subseteq Files /\ alone' \subseteq Procs
    BY <1>1, <1>9 DEF BeginClear, DropRows, SameId, TypeOK
  <2>6. UNCHANGED <<source, db, name, ops, crashes, removed, gone>>
    BY <1>9 DEF BeginClear
  <2> QED
    BY <1>1, <2>1, <2>3, <2>4, <2>5, <2>6, Types DEF TypeOK
<1>10. ASSUME NEW p \in Procs, EndClear(p)
      PROVE  TypeOK'
  <2>1. session = p /\ op[p] \in Op /\ op[p].at = "clear"
    BY <1>1, <1>10, Holder DEF EndClear, At
  <2> DEFINE f == op[p].file
             o == [at |-> "cleared", file |-> f]
  <2>2. f \in Files
    BY <2>1, OpTypes
  <2>3. o \in Op /\ o.at \notin SessionSteps
    BY <2>2, OpMade
  <2>4. op' = [op EXCEPT ![p] = o]
    BY <1>10 DEF EndClear
  <2> HIDE DEF o
  <2>5. session' = None /\ db' = work
    BY <1>10 DEF EndClear, Leave
  <2>6. name' \in [Id -> Files \union {None}]
    BY <1>1, <1>10, <2>2 DEF EndClear, AddName, TypeOK
  <2>7. UNCHANGED <<source, work, ops, crashes, removed, doubt, alone, gone>>
    BY <1>10 DEF EndClear, history
  <2> QED
    BY <1>1, <2>1, <2>3, <2>4, <2>5, <2>6, <2>7, Types DEF TypeOK
<1>11. ASSUME NEW p \in Procs, NEW lines \in Seq(Facts), NEW n \in Nat \ {0},
              op[p].file \in Files, Enter(p), AddLines(p, lines, n),
              removed' \in [Files -> Nat], doubt' \subseteq Files, alone' \subseteq Procs,
              UNCHANGED <<source, db, name, ops, crashes, gone>>
      PROVE  TypeOK'
  <2> DEFINE o == [at |-> "add", file |-> op[p].file, lines |-> lines, n |-> NextBatch(n)]
  <2>1. /\ op' = [op EXCEPT ![p] = o] /\ NextBatch(n) \in Nat \ {0}
        /\ work' \in [Keys -> Row \union {None}]
    BY <1>1, <1>11, LinesAdded
  <2>2. o \in Op /\ o.at \in SessionSteps
    BY <1>11, <2>1, OpMade
  <2> HIDE DEF o
  <2>3. session = None /\ session' = p
    BY <1>11 DEF Enter
  <2> QED
    BY <1>1, <1>11, <2>1, <2>2, <2>3, Types DEF TypeOK
<1>12. ASSUME NEW p \in Procs, BeginAdd(p)
      PROVE  TypeOK'
  <2>1. op[p] \in Op /\ op[p].at = "cleared"
    BY <1>1, <1>12, Holder DEF BeginAdd, At
  <2>2. op[p].file \in Files
    BY <2>1, OpTypes
  <2>3. source[op[p].file] \in Seq(Facts)
    BY <2>2 DEF TypeOK
  <2>4. removed' \in [Files -> Nat] /\ doubt' \subseteq Files /\ alone' \subseteq Procs
    BY <1>1, <1>12, <2>2 DEF BeginAdd, TypeOK
  <2>5. Enter(p) /\ AddLines(p, source[op[p].file], 1)
        /\ UNCHANGED <<source, db, name, ops, crashes, gone>>
    BY <1>12 DEF BeginAdd
  <2> QED
    BY <1>11, <2>2, <2>3, <2>4, <2>5
<1>13. ASSUME NEW p \in Procs, BeginBatch(p)
      PROVE  TypeOK'
  <2>1. op[p] \in Op /\ op[p].at = "more"
    BY <1>1, <1>13, Holder DEF BeginBatch, At
  <2>2. op[p].file \in Files /\ op[p].lines \in Seq(Facts) /\ op[p].n \in Nat \ {0}
    BY <2>1, OpTypes
  <2>3. Enter(p) /\ AddLines(p, op[p].lines, op[p].n)
        /\ UNCHANGED <<source, db, name, ops, crashes, removed, doubt, alone, gone>>
    BY <1>13 DEF BeginBatch, history
  <2> QED
    BY <1>1, <1>11, <2>2, <2>3 DEF TypeOK
<1>14. ASSUME NEW p \in Procs, EndBatch(p)
      PROVE  TypeOK'
  <2>1. session = p /\ op[p] \in Op /\ op[p].at = "add"
    BY <1>1, <1>14, Holder DEF EndBatch, At
  <2> DEFINE o == IF op[p].n <= Len(op[p].lines)
                    THEN [at |-> "more", file |-> op[p].file, lines |-> op[p].lines,
                          n |-> op[p].n]
                    ELSE Idle
  <2>2. op[p].file \in Files /\ op[p].lines \in Seq(Facts) /\ op[p].n \in Nat \ {0}
    BY <2>1, OpTypes
  <2>3. o \in Op /\ o.at \notin SessionSteps
    BY <2>2, OpMade DEF Idle
  <2>4. op' = [op EXCEPT ![p] = o]
    BY <1>14 DEF EndBatch
  <2> HIDE DEF o
  <2>5. session' = None /\ db' = work
    BY <1>14 DEF EndBatch, Leave
  <2>6. UNCHANGED <<source, name, work, ops, crashes, removed, doubt, alone, gone>>
    BY <1>14 DEF EndBatch, history
  <2> QED
    BY <1>1, <2>1, <2>3, <2>4, <2>5, <2>6, Types DEF TypeOK
<1>15. ASSUME NEW p \in Procs, Leaves(p), session' \in {session, None, Lost},
              session' # p, session' = session \/ session \in {p, None},
              db' \in [Keys -> Row \union {None}], name' \in [Id -> Files \union {None}]
      PROVE  TypeOK'
  <2>1. Idle \in Op /\ Idle.at \notin SessionSteps
    BY DEF Op, Idle, SessionSteps
  <2>2. op' = [op EXCEPT ![p] = Idle]
    BY <1>15 DEF Leaves
  <2>3. doubt' \subseteq Files /\ alone' \subseteq Procs
    BY <1>1, <1>15 DEF Leaves, TypeOK, SameId
  <2>4. crashes' \in 0..MaxCrash
    BY <1>1, <1>15 DEF TypeOK, Leaves
  <2>5. UNCHANGED <<source, work, ops, removed, gone>>
    BY <1>15 DEF Leaves
  <2> QED
    BY <1>1, <1>15, <2>1, <2>2, <2>3, <2>4, <2>5, Types DEF TypeOK
<1>16. ASSUME NEW p \in Procs, Crash(p)
      PROVE  TypeOK'
  <2>1. Leaves(p) /\ UNCHANGED <<db, name>>
    BY <1>16 DEF Crash
  <2>2. /\ session' \in {session, None, Lost} /\ session' # p
        /\ session' = session \/ session \in {p, None}
    BY <1>16, FactSourceAssumption DEF Crash
  <2> QED
    BY <1>1, <1>15, <2>1, <2>2 DEF TypeOK
<1>17. ASSUME NEW p \in Procs, CommitOnly(p)
      PROVE  TypeOK'
  <2>1. Leaves(p) /\ session' = Lost /\ db' = work
    BY <1>17 DEF CommitOnly
  <2>2. session = p /\ session' # p /\ op[p].at \in {"end", "clear", "add"}
    BY <1>1, <1>17, <2>1, Holder, FactSourceAssumption DEF CommitOnly, At, SessionSteps
  <2>3. name' \in [Id -> Files \union {None}]
    <3>1. op[p].at = "clear" => op[p].file \in Files
      BY <1>1, Holder, OpTypes
    <3> QED
      BY <1>1, <1>17, <3>1 DEF CommitOnly, AddName, At, TypeOK
  <2> QED
    BY <1>1, <1>15, <2>1, <2>2, <2>3 DEF TypeOK
<1>18. ASSUME Restart
      PROVE  TypeOK'
  <2>1. op' = [q \in Procs |-> Idle] /\ session = Lost /\ session' = None
    BY <1>18 DEF Restart
  <2>2. op' \in [Procs -> Op]
    BY <2>1 DEF Op
  <2>3. \A q \in Procs : ~At(q, {"take", "put", "end", "clear", "add"})' /\ session' # q
    BY <2>1, FactSourceAssumption DEF At, Idle
  <2>4. doubt' \subseteq Files /\ alone' \subseteq Procs
    BY <1>1, <1>18 DEF Restart, TypeOK
  <2>5. UNCHANGED <<source, db, name, work, ops, crashes, removed, gone>>
    BY <1>18 DEF Restart
  <2> QED
    BY <1>1, <2>1, <2>2, <2>3, <2>4, <2>5 DEF TypeOK
<1>19. CASE UNCHANGED vars
  BY <1>1, <1>19 DEF vars, history, TypeOK, At
<1> QED
  BY <1>2, <1>3, <1>4, <1>5, <1>6, <1>7, <1>8, <1>9, <1>10, <1>12, <1>13, <1>14,
     <1>16, <1>17, <1>18, <1>19 DEF Next, Step
-----------------------------------------------------------------------------
(* What a step does to the process that takes it, and that it leaves the    *)
(* others alone.                                                            *)
Only(p, o) == op'[p] = o /\ \A q \in Procs \ {p} : op'[q] = op[q]

LEMMA OnlyOne ==
  ASSUME TypeOK, NEW p \in Procs, NEW o, op' = [op EXCEPT ![p] = o]
  PROVE  Only(p, o)
BY DEF TypeOK, Only

LEMMA BeginEditEffect ==
  ASSUME TypeOK, Named, NEW p \in Procs, NEW k \in Keys,
         BeginDelete(p, k) \/ BeginReplace(p, k)
  PROVE  /\ op[p].at = "idle" /\ session = None /\ session' = p
         /\ \A q \in Procs \ {p} : op'[q] = op[q]
         /\ op'[p].at \in {"take", "end"}
         /\ op'[p].at = "end" => work' = db /\ op'[p].file = None
         /\ op'[p].at = "take" =>
              /\ db[k] # None /\ op'[p].row = db[k] /\ db[k].file \in SameId(op'[p].file)
              /\ \/ op'[p].next = "idle" /\ work' = [db EXCEPT ![k] = None]
                 \/ op'[p].next = "read" /\ work' = db
         /\ UNCHANGED <<source, db, name, removed, doubt, alone>>
<1>1. /\ op[p].at = "idle" /\ session = None /\ session' = p
      /\ UNCHANGED <<source, db, name, removed, doubt, alone>>
  BY DEF BeginDelete, BeginReplace, Command, At, Enter, history
<1>2. ASSUME NEW next \in {"idle", "read"}, op' = [op EXCEPT ![p] = Edit(k, next)],
             next = "idle" => work' = [db EXCEPT ![k] = None],
             next = "read" => work' = db
      PROVE  /\ \A q \in Procs \ {p} : op'[q] = op[q]
             /\ op'[p].at \in {"take", "end"}
             /\ op'[p].at = "end" => work' = db /\ op'[p].file = None
             /\ op'[p].at = "take" =>
                  /\ db[k] # None /\ op'[p].row = db[k]
                  /\ db[k].file \in SameId(op'[p].file)
                  /\ \/ op'[p].next = "idle" /\ work' = [db EXCEPT ![k] = None]
                     \/ op'[p].next = "read" /\ work' = db
  <2>1. op'[p] = Edit(k, next) /\ \A q \in Procs \ {p} : op'[q] = op[q]
    BY <1>2, OnlyOne DEF Only
  <2>2. CASE /\ db[k] = None
             /\ Edit(k, next) = [at |-> "end", file |-> None, next |-> "idle"]
    <3>1. work' = db
      BY <1>2, <2>2 DEF TypeOK
    <3> QED
      BY <2>1, <2>2, <3>1
  <2>3. CASE /\ db[k] \in Row /\ db[k] # None /\ name[FileId[db[k].file]] \in Files
             /\ db[k].file \in SameId(name[FileId[db[k].file]])
             /\ Edit(k, next) = [at |-> "take", file |-> name[FileId[db[k].file]],
                                 row |-> db[k], next |-> next]
    BY <1>2, <2>1, <2>3
  <2> QED
    BY <2>2, <2>3, EditOp
<1>3. CASE BeginDelete(p, k)
  BY <1>1, <1>2, <1>3 DEF BeginDelete
<1>4. CASE BeginReplace(p, k)
  BY <1>1, <1>2, <1>4 DEF BeginReplace
<1> QED
  BY <1>3, <1>4

LEMMA TakeSourceEffect ==
  ASSUME TypeOK, NEW p \in Procs, TakeSource(p)
  PROVE  /\ op[p].at = "take" /\ session = p /\ op[p].file \in Files
         /\ \A q \in Procs \ {p} : op'[q] = op[q]
         /\ op'[p].at = "put" /\ op'[p].file = op[p].file /\ op'[p].row = op[p].row
         /\ op'[p].next = op[p].next /\ op'[p].lines = source[op[p].file]
         /\ \A f \in Files \ {op[p].file} : source'[f] = source[f]
         /\ UNCHANGED <<db, name, session, work, removed, doubt, alone>>
<1>1. op[p].at = "take" /\ session = p /\ op[p].file \in Files
  BY Holder, OpTypes DEF TakeSource, At, SessionSteps
<1>2. Only(p, [at |-> "put", file |-> op[p].file, row |-> op[p].row,
               next |-> op[p].next, lines |-> source[op[p].file]])
  BY OnlyOne DEF TakeSource
<1>3. UNCHANGED <<db, name, session, work, removed, doubt, alone>>
  BY DEF TakeSource, history
<1>4. \A f \in Files \ {op[p].file} : source'[f] = source[f]
  BY DEF TakeSource, TypeOK
<1> QED
  BY <1>1, <1>2, <1>3, <1>4 DEF Only

LEMMA PutSourceEffect ==
  ASSUME TypeOK, NEW p \in Procs, PutSource(p)
  PROVE  LET file == op[p].file  row == op[p].row  lines == op[p].lines IN
         /\ op[p].at = "put" /\ session = p /\ file \in Files /\ row \in Row
         /\ lines \in Seq(Facts) /\ op[p].next \in {"idle", "read"}
         /\ \A q \in Procs \ {p} : op'[q] = op[q]
         /\ op'[p].at = "end" /\ op'[p].file = file /\ op'[p].next = op[p].next
         /\ source'[file] = Without(lines, row.line)
         /\ \A f \in Files \ {file} : source'[f] = source[f] /\ removed'[f] = removed[f]
         /\ removed'[file] =
              IF row.line \in 1..Len(lines) /\ (removed[file] = 0 \/ row.line < removed[file])
                THEN row.line ELSE removed[file]
         /\ doubt' = IF Leads(row, file) /\ op[p].next = "idle" THEN doubt
                     ELSE doubt \union {file, row.file}
         /\ UNCHANGED <<db, name, session, work, alone>>
<1> DEFINE file == op[p].file
           row == op[p].row
           lines == op[p].lines
<1>1. /\ op[p].at = "put" /\ session = p /\ file \in Files /\ row \in Row
      /\ lines \in Seq(Facts) /\ op[p].next \in {"idle", "read"}
  BY Holder, OpTypes DEF PutSource, At, SessionSteps
<1>2. Only(p, [at |-> "end", file |-> file, next |-> op[p].next])
  BY OnlyOne DEF PutSource
<1>3. UNCHANGED <<db, name, session, work, alone>>
  BY DEF PutSource
<1>4. source'[file] = Without(lines, row.line) /\ \A f \in Files \ {file} : source'[f] = source[f]
  BY <1>1 DEF PutSource, TypeOK
<1>5. /\ removed'[file] =
           IF row.line \in 1..Len(lines) /\ (removed[file] = 0 \/ row.line < removed[file])
             THEN row.line ELSE removed[file]
      /\ \A f \in Files \ {file} : removed'[f] = removed[f]
  BY <1>1 DEF PutSource, TypeOK
<1>6. doubt' = IF Leads(row, file) /\ op[p].next = "idle" THEN doubt
               ELSE doubt \union {file, row.file}
  BY DEF PutSource
<1> QED
  BY <1>1, <1>2, <1>3, <1>4, <1>5, <1>6 DEF Only

LEMMA EndEditEffect ==
  ASSUME TypeOK, NEW p \in Procs, EndEdit(p)
  PROVE  /\ op[p].at = "end" /\ session = p /\ session' = None /\ db' = work
         /\ \A q \in Procs \ {p} : op'[q] = op[q]
         /\ op'[p].at \in {"idle", "read"}
         /\ UNCHANGED <<source, name, work, removed, doubt, alone>>
<1>1. op[p].at = "end" /\ session = p /\ session' = None /\ db' = work
  BY DEF EndEdit, At, Leave
<1>2. Only(p, IF op[p].next = "read" THEN [at |-> "read", file |-> op[p].file] ELSE Idle)
  BY OnlyOne DEF EndEdit
<1>3. UNCHANGED <<source, name, work, removed, doubt, alone>>
  BY DEF EndEdit
<1> QED
  BY <1>1, <1>2, <1>3 DEF Only, Idle

(* The steps that neither begin nor end a session.                          *)
LEMMA WritingEffect ==
  ASSUME TypeOK, NEW p \in Procs, NEW f \in Files,
         \/ ReadFile(p, f) \/ Learn(p, f) \/ BeginConvert(p, f)
         \/ Convert(p) /\ f = op[p].file
  PROVE  /\ op[p].at \in {"idle", "convert"} /\ session # p
         /\ \A q \in Procs \ {p} : op'[q] = op[q]
         /\ op'[p].at \in {"idle", "read", "convert"}
         /\ \A g \in Files \ {f} : source'[g] = source[g]
         /\ \/ source' = source /\ doubt' = doubt
            \/ doubt' = doubt \union {f}
         /\ UNCHANGED <<db, name, session, work, removed, alone>>
<1>1. /\ op[p].at \in {"idle", "convert"}
      /\ UNCHANGED <<db, name, session, work, removed, alone>>
  BY DEF ReadFile, Learn, BeginConvert, Convert, Command, At, history
<1>2. session # p
  BY <1>1, Holder DEF At, SessionSteps
<1>3. /\ \A g \in Files \ {f} : source'[g] = source[g]
      /\ \/ source' = source /\ doubt' = doubt
         \/ doubt' = doubt \union {f}
  BY DEF ReadFile, Learn, BeginConvert, Convert, TypeOK, history
<1>4. /\ op'[p].at \in {"idle", "read", "convert"}
      /\ \A q \in Procs \ {p} : op'[q] = op[q]
  <2>1. CASE ReadFile(p, f) \/ Learn(p, f)
    <3>1. Only(p, [at |-> "read", file |-> f])
      BY <2>1, OnlyOne DEF ReadFile, Learn
    <3> QED
      BY <3>1 DEF Only
  <2>2. CASE BeginConvert(p, f)
    <3>1. Only(p, IF Pro[f] = <<>> THEN Idle ELSE [at |-> "convert", file |-> f, n |-> 0])
      BY <2>2, OnlyOne DEF BeginConvert
    <3> QED
      BY <3>1 DEF Only, Idle
  <2>3. CASE Convert(p)
    <3> DEFINE o == IF op[p].n + 1 < Len(Pro[op[p].file])
                      THEN [at |-> "convert", file |-> op[p].file, n |-> op[p].n + 1]
                      ELSE Idle
    <3>1. Only(p, o)
      BY <2>3, OnlyOne DEF Convert
    <3>2. o.at \in {"idle", "convert"}
      BY DEF Idle
    <3> HIDE DEF o
    <3> QED
      BY <3>1, <3>2 DEF Only
  <2> QED
    BY <2>1, <2>2, <2>3
<1> QED
  BY <1>1, <1>2, <1>3, <1>4

LEMMA BeginClearEffect ==
  ASSUME TypeOK, NEW p \in Procs, BeginClear(p)
  PROVE  LET f == op[p].file  others == Readers(p, f) IN
         /\ op[p].at = "read" /\ session = None /\ session' = p /\ f \in Files
         /\ \A q \in Procs \ {p} : op'[q] = op[q]
         /\ op'[p].at = "clear" /\ op'[p].file = f /\ work' = DropRows(f)
         /\ doubt' = doubt \union SameId(f)
         /\ alone' = (alone \ others) \union (IF others = {} THEN {p} ELSE {})
         /\ UNCHANGED <<source, db, name, removed>>
<1>1. /\ op[p].at = "read" /\ session = None /\ session' = p
      /\ UNCHANGED <<source, db, name, removed>>
  BY DEF BeginClear, At, Enter
<1>2. op[p].file \in Files
  BY <1>1, Holder, OpTypes
<1>3. Only(p, [at |-> "clear", file |-> op[p].file])
  BY OnlyOne DEF BeginClear
<1>4. /\ work' = DropRows(op[p].file) /\ doubt' = doubt \union SameId(op[p].file)
      /\ alone' = (alone \ Readers(p, op[p].file))
                    \union (IF Readers(p, op[p].file) = {} THEN {p} ELSE {})
  BY DEF BeginClear
<1> QED
  BY <1>1, <1>2, <1>3, <1>4 DEF Only

LEMMA EndClearEffect ==
  ASSUME TypeOK, NEW p \in Procs, EndClear(p)
  PROVE  LET f == op[p].file IN
         /\ op[p].at = "clear" /\ session = p /\ session' = None /\ db' = work /\ f \in Files
         /\ \A q \in Procs \ {p} : op'[q] = op[q]
         /\ op'[p].at = "cleared" /\ op'[p].file = f
         /\ name'[FileId[f]] = IF name[FileId[f]] = None THEN f ELSE name[FileId[f]]
         /\ \A i \in Id \ {FileId[f]} : name'[i] = name[i]
         /\ UNCHANGED <<source, work, removed, doubt, alone>>
<1>1. /\ op[p].at = "clear" /\ session = p /\ session' = None /\ db' = work
      /\ UNCHANGED <<source, work, removed, doubt, alone>>
  BY DEF EndClear, At, Leave, history
<1>2. op[p].file \in Files
  BY <1>1, Holder, OpTypes
<1>3. Only(p, [at |-> "cleared", file |-> op[p].file])
  BY OnlyOne DEF EndClear
<1>4. name' = [name EXCEPT ![FileId[op[p].file]] = IF @ = None THEN op[p].file ELSE @]
  BY DEF EndClear, AddName
<1>5. FileId[op[p].file] \in Id
  BY <1>2 DEF Id
<1>6. /\ name'[FileId[op[p].file]] =
           IF name[FileId[op[p].file]] = None THEN op[p].file ELSE name[FileId[op[p].file]]
      /\ \A i \in Id \ {FileId[op[p].file]} : name'[i] = name[i]
  BY <1>4, <1>5 DEF TypeOK
<1> QED
  BY <1>1, <1>2, <1>3, <1>6 DEF Only

(* The two steps that begin a session which adds lines.                     *)
LEMMA BeginLinesEffect ==
  ASSUME TypeOK, NEW p \in Procs, BeginAdd(p) \/ BeginBatch(p)
  PROVE  /\ BeginAdd(p) => op[p].at = "cleared"
         /\ BeginBatch(p) => op[p].at = "more"
         /\ session = None /\ session' = p
         /\ op[p].file \in Files
         /\ \E lines \in Seq(Facts), n \in Nat \ {0} :
              /\ AddLines(p, lines, n)
              /\ op' = [op EXCEPT ![p] = [at |-> "add", file |-> op[p].file,
                                          lines |-> lines, n |-> NextBatch(n)]]
              /\ BeginAdd(p) => lines = source[op[p].file] /\ n = 1
              /\ BeginBatch(p) => lines = op[p].lines /\ n = op[p].n
         /\ \A q \in Procs \ {p} : op'[q] = op[q]
         /\ op'[p].at = "add" /\ op'[p].file = op[p].file
         /\ \A f \in Files \ {op[p].file} : removed'[f] = removed[f]
         /\ BeginAdd(p) => /\ removed'[op[p].file] = 0
                           /\ doubt' = IF p \in alone THEN doubt \ {op[p].file} ELSE doubt
                           /\ alone' = alone \ {p}
         /\ BeginBatch(p) => UNCHANGED <<removed, doubt, alone>>
         /\ UNCHANGED <<source, db, name>>
<1>1. /\ BeginAdd(p) => op[p].at = "cleared"
      /\ BeginBatch(p) => op[p].at = "more"
      /\ session = None /\ session' = p
      /\ UNCHANGED <<source, db, name>>
  BY DEF BeginAdd, BeginBatch, At, Enter
<1>2. op[p].file \in Files
  BY <1>1, Holder, OpTypes
<1>3. \E lines \in Seq(Facts), n \in Nat \ {0} :
        /\ AddLines(p, lines, n)
        /\ BeginAdd(p) => lines = source[op[p].file] /\ n = 1
        /\ BeginBatch(p) => lines = op[p].lines /\ n = op[p].n
  <2>1. CASE BeginAdd(p)
    <3>1. source[op[p].file] \in Seq(Facts)
      BY <1>2 DEF TypeOK
    <3>2. ~BeginBatch(p)
      BY <2>1 DEF BeginAdd, BeginBatch, At
    <3> QED
      BY <2>1, <3>1, <3>2 DEF BeginAdd
  <2>2. CASE BeginBatch(p)
    <3>1. op[p].at = "more"
      BY <2>2 DEF BeginBatch, At
    <3>2. op[p].lines \in Seq(Facts) /\ op[p].n \in Nat \ {0}
      BY <3>1, Holder, OpTypes
    <3>3. ~BeginAdd(p)
      BY <3>1 DEF BeginAdd, At
    <3> QED
      BY <2>2, <3>2, <3>3 DEF BeginBatch
  <2> QED
    BY <2>1, <2>2
<1>4. PICK lines \in Seq(Facts), n \in Nat \ {0} :
        /\ AddLines(p, lines, n)
        /\ BeginAdd(p) => lines = source[op[p].file] /\ n = 1
        /\ BeginBatch(p) => lines = op[p].lines /\ n = op[p].n
  BY <1>3
<1>5. op' = [op EXCEPT ![p] = [at |-> "add", file |-> op[p].file,
                               lines |-> lines, n |-> NextBatch(n)]]
  BY <1>4 DEF AddLines
<1>6. Only(p, [at |-> "add", file |-> op[p].file, lines |-> lines, n |-> NextBatch(n)])
  BY <1>5, OnlyOne
<1>7. BeginAdd(p) => /\ removed'[op[p].file] = 0
                     /\ doubt' = IF p \in alone THEN doubt \ {op[p].file} ELSE doubt
                     /\ alone' = alone \ {p}
  BY <1>2 DEF BeginAdd, TypeOK
<1>8. BeginBatch(p) => UNCHANGED <<removed, doubt, alone>>
  BY DEF BeginBatch, history
<1>9. \A f \in Files \ {op[p].file} : removed'[f] = removed[f]
  BY DEF BeginAdd, BeginBatch, TypeOK, history
<1>10. /\ \A q \in Procs \ {p} : op'[q] = op[q]
       /\ op'[p].at = "add" /\ op'[p].file = op[p].file
  BY <1>6 DEF Only
<1>11. \E ll \in Seq(Facts), nn \in Nat \ {0} :
         /\ AddLines(p, ll, nn)
         /\ op' = [op EXCEPT ![p] = [at |-> "add", file |-> op[p].file,
                                     lines |-> ll, n |-> NextBatch(nn)]]
         /\ BeginAdd(p) => ll = source[op[p].file] /\ nn = 1
         /\ BeginBatch(p) => ll = op[p].lines /\ nn = op[p].n
  BY <1>4, <1>5, Zenon
<1> QED
  BY <1>1, <1>2, <1>7, <1>8, <1>9, <1>10, <1>11, Zenon

LEMMA EndBatchEffect ==
  ASSUME TypeOK, NEW p \in Procs, EndBatch(p)
  PROVE  /\ op[p].at = "add" /\ session = p /\ session' = None /\ db' = work
         /\ op[p].file \in Files
         /\ \A q \in Procs \ {p} : op'[q] = op[q]
         /\ \/ /\ op'[p].at = "more" /\ op'[p].file = op[p].file
               /\ op'[p].lines = op[p].lines /\ op'[p].n = op[p].n
            \/ op'[p].at = "idle" /\ ~(op[p].n <= Len(op[p].lines))
         /\ UNCHANGED <<source, name, work, removed, doubt, alone>>
<1>1. /\ op[p].at = "add" /\ session = p /\ session' = None /\ db' = work
      /\ UNCHANGED <<source, name, work, removed, doubt, alone>>
  BY DEF EndBatch, At, Leave, history
<1>2. op[p].file \in Files
  BY <1>1, Holder, OpTypes
<1>3. Only(p, IF op[p].n <= Len(op[p].lines)
                THEN [at |-> "more", file |-> op[p].file, lines |-> op[p].lines,
                      n |-> op[p].n]
                ELSE Idle)
  BY OnlyOne DEF EndBatch
<1> QED
  BY <1>1, <1>2, <1>3 DEF Only, Idle

LEMMA LeavesEffect ==
  ASSUME TypeOK, NEW p \in Procs, Leaves(p)
  PROVE  /\ op[p].at # "idle"
         /\ \A q \in Procs \ {p} : op'[q] = op[q]
         /\ op'[p].at = "idle"
         /\ doubt' = IF op[p].file = None THEN doubt ELSE doubt \union SameId(op[p].file)
         /\ alone' = alone \ {p}
         /\ UNCHANGED <<source, work, removed>>
<1>1. Only(p, Idle)
  BY OnlyOne DEF Leaves
<1> QED
  BY <1>1 DEF Only, Leaves, At, Idle

LEMMA CrashEffect ==
  ASSUME TypeOK, NEW p \in Procs, Crash(p)
  PROVE  /\ Leaves(p)
         /\ session = p => session' = Lost
         /\ session # p => session' = session \/ (session = None /\ session' = Lost)
         /\ UNCHANGED <<db, name>>
BY DEF Crash

(* What is committed is what the session left.                              *)
LEMMA CommitOnlyEffect ==
  ASSUME TypeOK, NEW p \in Procs, CommitOnly(p)
  PROVE  LET f == op[p].file IN
         /\ Leaves(p) /\ op[p].at \in {"end", "clear", "add"}
         /\ session = p /\ session' = Lost /\ db' = work
         /\ op[p].at = "clear" =>
              /\ f \in Files
              /\ name'[FileId[f]] = IF name[FileId[f]] = None THEN f ELSE name[FileId[f]]
              /\ \A i \in Id \ {FileId[f]} : name'[i] = name[i]
         /\ op[p].at # "clear" => name' = name
<1> DEFINE f == op[p].file
<1>1. /\ Leaves(p) /\ op[p].at \in {"end", "clear", "add"}
      /\ session' = Lost /\ db' = work
  BY DEF CommitOnly, At
<1>2. session = p
  BY <1>1, Holder DEF At, SessionSteps
<1>3. op[p].at # "clear" => name' = name
  BY DEF CommitOnly, At
<1>4. ASSUME op[p].at = "clear"
      PROVE  /\ f \in Files
             /\ name'[FileId[f]] = IF name[FileId[f]] = None THEN f ELSE name[FileId[f]]
             /\ \A i \in Id \ {FileId[f]} : name'[i] = name[i]
  <2>1. f \in Files
    BY <1>4, Holder, OpTypes
  <2>2. name' = [name EXCEPT ![FileId[f]] = IF @ = None THEN f ELSE @]
    BY <1>4 DEF CommitOnly, AddName, At
  <2>3. FileId[f] \in Id
    BY <2>1 DEF Id
  <2> QED
    BY <2>1, <2>2, <2>3 DEF TypeOK
<1> QED
  BY <1>1, <1>2, <1>3, <1>4

LEMMA RestartEffect ==
  ASSUME TypeOK, Restart
  PROVE  /\ session = Lost /\ session' = None /\ Lost \notin Procs
         /\ \A q \in Procs : op'[q] = Idle /\ op'[q].at = "idle"
         /\ doubt \subseteq doubt'
         /\ \A f \in Files \ doubt' : \A q \in Procs : op[q].file \notin SameId(f)
         /\ alone' = {}
         /\ UNCHANGED <<source, db, name, work, removed>>
BY FactSourceAssumption DEF Restart, Idle, SameId

-----------------------------------------------------------------------------
(* The ids in use keep their names, and a conversion ends with its file.    *)
LEMMA NamedKept ==
  ASSUME Named, NEW p \in Procs, \A q \in Procs \ {p} : op'[q] = op[q],
         name' = name, \A k \in Keys : db'[k] # None => RowIn(db, k, db'[k].file) \/
                                         name[FileId[db'[k].file]] # None,
         op'[p].at \in {"cleared", "add", "more"} =>
           op[p].at \in {"cleared", "add", "more"} /\ op'[p].file = op[p].file
  PROVE  Named'
<1>1. \A k \in Keys : db'[k] # None => name'[FileId[db'[k].file]] # None
  BY DEF Named, RowIn
<1>2. \A i \in Id : name'[i] # None => FileId[name'[i]] = i
  BY DEF Named
<1>3. ASSUME NEW q \in Procs, At(q, {"cleared", "add", "more"})'
      PROVE  name'[FileId[op'[q].file]] # None
  <2>1. op'[q].at \in {"cleared", "add", "more"}
    BY <1>3 DEF At
  <2>2. op[q].at \in {"cleared", "add", "more"} /\ op'[q].file = op[q].file
    BY <2>1
  <2> QED
    BY <2>2 DEF Named, At
<1> QED
  BY <1>1, <1>2, <1>3 DEF Named

LEMMA NamedStep ==
  ASSUME TypeOK, Named, \A p \in Procs : Working(p), [Next]_vars
  PROVE  Named'
<1>1. TypeOK /\ Named
  OBVIOUS
<1>2. db' = db => \A k \in Keys : db'[k] # None =>
        RowIn(db, k, db'[k].file) \/ name[FileId[db'[k].file]] # None
  BY DEF RowIn
<1>3. ASSUME NEW p \in Procs, NEW k \in Keys, BeginDelete(p, k) \/ BeginReplace(p, k)
      PROVE  Named'
  BY <1>1, <1>2, <1>3, BeginEditEffect, NamedKept
<1>4. ASSUME NEW p \in Procs, TakeSource(p)
      PROVE  Named'
  BY <1>1, <1>2, <1>4, TakeSourceEffect, NamedKept
<1>5. ASSUME NEW p \in Procs, PutSource(p)
      PROVE  Named'
  BY <1>1, <1>2, <1>5, PutSourceEffect, NamedKept
<1>6. ASSUME NEW p \in Procs, EndEdit(p)
      PROVE  Named'
  <2>1. \A k \in Keys : work[k] # db[k] => work[k] = None
    BY <1>6, EndEditEffect DEF Working, At
  <2>2. \A k \in Keys : db'[k] # None => RowIn(db, k, db'[k].file)
    BY <1>1, <1>6, <2>1, EndEditEffect DEF RowIn
  <2> QED
    BY <1>1, <1>6, <2>2, EndEditEffect, NamedKept
<1>7. ASSUME NEW p \in Procs, NEW f \in Files,
             \/ ReadFile(p, f) \/ Learn(p, f) \/ BeginConvert(p, f)
             \/ Convert(p) /\ f = op[p].file
      PROVE  Named'
  BY <1>1, <1>2, <1>7, WritingEffect, NamedKept
<1>8. ASSUME NEW p \in Procs, BeginClear(p)
      PROVE  Named'
  BY <1>1, <1>2, <1>8, BeginClearEffect, NamedKept
<1>9. ASSUME NEW p \in Procs, op[p].at = "clear", db' = work, op[p].file \in Files,
             \A q \in Procs \ {p} : op'[q] = op[q],
             (op'[p].at = "cleared" /\ op'[p].file = op[p].file) \/ op'[p].at = "idle",
             name'[FileId[op[p].file]] =
               IF name[FileId[op[p].file]] = None THEN op[p].file ELSE name[FileId[op[p].file]],
             \A i \in Id \ {FileId[op[p].file]} : name'[i] = name[i]
      PROVE  Named'
  <2> DEFINE f == op[p].file
  <2>1. /\ op[p].at = "clear" /\ db' = work /\ f \in Files
        /\ \A q \in Procs \ {p} : op'[q] = op[q]
        /\ (op'[p].at = "cleared" /\ op'[p].file = f) \/ op'[p].at = "idle"
        /\ name'[FileId[f]] = IF name[FileId[f]] = None THEN f ELSE name[FileId[f]]
        /\ \A i \in Id \ {FileId[f]} : name'[i] = name[i]
    BY <1>9
  <2>2. work = DropRows(f)
    BY <2>1 DEF Working, At
  <2>3. \A g \in Files : FileId[g] \in Id
    BY DEF Id
  <2>4. \A i \in Id : name[i] # None => name'[i] = name[i]
    BY <2>1
  <2>5. \A i \in Id : name'[i] # None => FileId[name'[i]] = i
    BY <1>1, <2>1 DEF Named
  <2>6. name'[FileId[f]] # None
    BY <2>1, FactSourceAssumption
  <2>7. ASSUME NEW k \in Keys, db'[k] # None
        PROVE  name'[FileId[db'[k].file]] # None
    <3>1. db'[k] = db[k] /\ db[k] # None
      BY <2>1, <2>2, <2>7 DEF DropRows
    <3>2. db[k].file \in Files
      BY <1>1, <3>1 DEF TypeOK, Row
    <3> QED
      BY <1>1, <2>3, <2>4, <3>1, <3>2 DEF Named
  <2>8. ASSUME NEW q \in Procs, At(q, {"cleared", "add", "more"})'
        PROVE  name'[FileId[op'[q].file]] # None
    <3>1. CASE q = p
      BY <2>1, <2>6, <2>8, <3>1 DEF At
    <3>2. CASE q # p
      <4>1. op'[q] = op[q] /\ op[q].at \in {"cleared", "add", "more"}
        BY <2>1, <2>8, <3>2 DEF At
      <4>2. op[q].file \in Files
        BY <1>1, <4>1, Holder, OpTypes
      <4>3. name[FileId[op[q].file]] # None
        BY <1>1, <4>1 DEF Named, At
      <4> QED
        BY <2>3, <2>4, <4>1, <4>2, <4>3
    <3> QED
      BY <3>1, <3>2
  <2> QED
    BY <2>5, <2>7, <2>8 DEF Named
<1>10. ASSUME NEW p \in Procs, BeginAdd(p) \/ BeginBatch(p)
       PROVE  Named'
  <2>1. /\ op[p].at \in {"cleared", "more"} /\ db' = db /\ name' = name
        /\ \A q \in Procs \ {p} : op'[q] = op[q]
        /\ op'[p].at = "add" /\ op'[p].file = op[p].file
    BY <1>1, <1>10, BeginLinesEffect
  <2> QED
    BY <1>1, <1>2, <2>1, NamedKept
<1>11. ASSUME NEW p \in Procs, EndBatch(p)
       PROVE  Named'
  <2>1. /\ op[p].at = "add" /\ db' = work /\ name' = name
        /\ \A q \in Procs \ {p} : op'[q] = op[q]
        /\ (op'[p].at = "more" /\ op'[p].file = op[p].file) \/ op'[p].at = "idle"
    BY <1>1, <1>11, EndBatchEffect
  <2>2. \A k \in Keys : work[k] # db[k] => RowIn(work, k, op[p].file)
    BY <2>1 DEF Working, At
  <2>3. name[FileId[op[p].file]] # None
    BY <1>1, <2>1 DEF Named, At
  <2>4. \A k \in Keys : db'[k] # None =>
          RowIn(db, k, db'[k].file) \/ name[FileId[db'[k].file]] # None
    BY <2>1, <2>2, <2>3 DEF RowIn
  <2> QED
    BY <1>1, <2>1, <2>4, NamedKept
<1>12. ASSUME NEW p \in Procs, Crash(p)
       PROVE  Named'
  <2>1. db' = db /\ name' = name /\ op'[p].at = "idle" /\ \A q \in Procs \ {p} : op'[q] = op[q]
    BY <1>1, <1>12, CrashEffect, LeavesEffect
  <2> QED
    BY <1>1, <1>2, <2>1, NamedKept
<1>13. CASE UNCHANGED vars
  BY <1>1, <1>13 DEF vars, Named, At
<1>14. ASSUME NEW p \in Procs, Convert(p)
       PROVE  op[p].file \in Files
  BY <1>1, <1>14, Holder, OpTypes DEF Convert, At
<1>15. ASSUME NEW p \in Procs, EndClear(p)
       PROVE  Named'
  BY <1>1, <1>9, <1>15, EndClearEffect
<1>16. ASSUME NEW p \in Procs, CommitOnly(p)
       PROVE  Named'
  <2> DEFINE f == op[p].file
  <2>1. /\ op[p].at \in {"end", "clear", "add"} /\ db' = work
        /\ \A q \in Procs \ {p} : op'[q] = op[q]
        /\ op'[p].at = "idle"
    BY <1>1, <1>16, CommitOnlyEffect, LeavesEffect
  <2>2. CASE op[p].at = "clear"
    <3>1. /\ f \in Files
          /\ name'[FileId[f]] = IF name[FileId[f]] = None THEN f ELSE name[FileId[f]]
          /\ \A i \in Id \ {FileId[f]} : name'[i] = name[i]
      BY <1>1, <1>16, <2>2, CommitOnlyEffect
    <3> QED
      BY <1>9, <2>1, <2>2, <3>1
  <2>3. CASE op[p].at # "clear"
    <3>1. name' = name
      BY <1>1, <1>16, <2>3, CommitOnlyEffect
    <3>2. \A k \in Keys : db'[k] # None =>
            RowIn(db, k, db'[k].file) \/ name[FileId[db'[k].file]] # None
      <4>1. CASE op[p].at = "end"
        <5>1. \A k \in Keys : work[k] # db[k] => work[k] = None
          BY <4>1 DEF Working, At
        <5> QED
          BY <2>1, <5>1 DEF RowIn
      <4>2. CASE op[p].at = "add"
        <5>1. \A k \in Keys : work[k] # db[k] => RowIn(work, k, f)
          BY <4>2 DEF Working, At
        <5>2. name[FileId[f]] # None
          BY <1>1, <4>2 DEF Named, At
        <5> QED
          BY <2>1, <5>1, <5>2 DEF RowIn
      <4> QED
        BY <2>1, <2>3, <4>1, <4>2
    <3> QED
      BY <1>1, <2>1, <3>1, <3>2, NamedKept
  <2> QED
    BY <2>2, <2>3
<1>17. ASSUME Restart
       PROVE  Named'
  <2>1. db' = db /\ name' = name /\ \A q \in Procs : op'[q].at = "idle"
    BY <1>1, <1>17, RestartEffect
  <2> QED
    BY <1>1, <2>1 DEF Named, At
<1> QED
  BY <1>3, <1>4, <1>5, <1>6, <1>7, <1>8, <1>10, <1>11, <1>12, <1>13, <1>14, <1>15,
     <1>16, <1>17
  DEF Next, Step

LEMMA WritingStep ==
  ASSUME TypeOK, Named, Writing, [Next]_vars
  PROVE  Writing'
<1>1. TypeOK /\ Named
  OBVIOUS
<1>2. ASSUME NEW p \in Procs, \A q \in Procs \ {p} : op'[q] = op[q],
             op'[p].at = "convert" => op'[p].n < Len(Pro[op'[p].file])
      PROVE  Writing'
  <2> SUFFICES ASSUME NEW q \in Procs, op'[q].at = "convert"
               PROVE  op'[q].n < Len(Pro[op'[q].file])
    BY DEF Writing, At
  <2>1. CASE q = p
    BY <1>2, <2>1
  <2>2. CASE q # p
    <3>1. op'[q] = op[q]
      BY <1>2, <2>2
    <3>2. op[q].at = "convert"
      BY <3>1
    <3>3. op[q].n < Len(Pro[op[q].file])
      BY <3>2 DEF Writing, At
    <3> QED
      BY <3>1, <3>3
  <2> QED
    BY <2>1, <2>2
<1>3. ASSUME NEW p \in Procs, NEW k \in Keys, BeginDelete(p, k) \/ BeginReplace(p, k)
      PROVE  Writing'
  BY <1>1, <1>2, <1>3, BeginEditEffect
<1>4. ASSUME NEW p \in Procs, TakeSource(p)
      PROVE  Writing'
  BY <1>1, <1>2, <1>4, TakeSourceEffect
<1>5. ASSUME NEW p \in Procs, PutSource(p)
      PROVE  Writing'
  BY <1>1, <1>2, <1>5, PutSourceEffect
<1>6. ASSUME NEW p \in Procs, EndEdit(p)
      PROVE  Writing'
  BY <1>1, <1>2, <1>6, EndEditEffect
<1>7. ASSUME NEW p \in Procs, NEW f \in Files, ReadFile(p, f) \/ Learn(p, f)
      PROVE  Writing'
  <2>1. op' = [op EXCEPT ![p] = [at |-> "read", file |-> f]]
    BY <1>7 DEF ReadFile, Learn
  <2>2. Only(p, [at |-> "read", file |-> f])
    BY <1>1, <2>1, OnlyOne
  <2> QED
    BY <1>2, <2>2 DEF Only
<1>8. ASSUME NEW p \in Procs, NEW f \in Files, BeginConvert(p, f)
      PROVE  Writing'
  <2>1. Only(p, IF Pro[f] = <<>> THEN Idle ELSE [at |-> "convert", file |-> f, n |-> 0])
    BY <1>1, <1>8, OnlyOne DEF BeginConvert
  <2>2. op'[p].at = "convert" => op'[p].n < Len(Pro[op'[p].file])
    <3>1. CASE Pro[f] = <<>>
      BY <2>1, <3>1 DEF Only, Idle
    <3>2. CASE Pro[f] # <<>>
      <4>1. Pro[f] \in Seq(Facts)
        BY FactSourceAssumption
      <4>2. 0 < Len(Pro[f])
        BY <3>2, <4>1
      <4> QED
        BY <2>1, <3>2, <4>2 DEF Only
    <3> QED
      BY <3>1, <3>2
  <2> QED
    BY <1>2, <2>1, <2>2 DEF Only
<1>9. ASSUME NEW p \in Procs, Convert(p)
      PROVE  Writing'
  <2> DEFINE n == op[p].n + 1
             f == op[p].file
  <2>1. Only(p, IF n < Len(Pro[f]) THEN [at |-> "convert", file |-> f, n |-> n] ELSE Idle)
    BY <1>1, <1>9, OnlyOne DEF Convert
  <2> HIDE DEF n, f
  <2>2. op'[p].at = "convert" => op'[p].n < Len(Pro[op'[p].file])
    <3>1. CASE n < Len(Pro[f])
      BY <2>1, <3>1 DEF Only
    <3>2. CASE ~(n < Len(Pro[f]))
      BY <2>1, <3>2 DEF Only, Idle
    <3> QED
      BY <3>1, <3>2
  <2> QED
    BY <1>2, <2>1, <2>2 DEF Only
<1>10. ASSUME NEW p \in Procs, BeginClear(p)
       PROVE  Writing'
  BY <1>1, <1>2, <1>10, BeginClearEffect
<1>11. ASSUME NEW p \in Procs, EndClear(p)
       PROVE  Writing'
  BY <1>1, <1>2, <1>11, EndClearEffect
<1>12. ASSUME NEW p \in Procs, BeginAdd(p) \/ BeginBatch(p)
       PROVE  Writing'
  <2>1. /\ \A q \in Procs \ {p} : op'[q] = op[q]
        /\ op'[p].at = "add"
    BY <1>1, <1>12, BeginLinesEffect
  <2> QED
    BY <1>2, <2>1
<1>13. ASSUME NEW p \in Procs, EndBatch(p)
       PROVE  Writing'
  <2>1. /\ \A q \in Procs \ {p} : op'[q] = op[q]
        /\ op'[p].at \in {"more", "idle"}
    BY <1>1, <1>13, EndBatchEffect
  <2> QED
    BY <1>2, <2>1
<1>14. ASSUME NEW p \in Procs, Crash(p) \/ CommitOnly(p)
       PROVE  Writing'
  <2>1. op'[p].at = "idle" /\ \A q \in Procs \ {p} : op'[q] = op[q]
    BY <1>1, <1>14, CrashEffect, CommitOnlyEffect, LeavesEffect
  <2> QED
    BY <1>2, <2>1
<1>15. ASSUME Restart
       PROVE  Writing'
  BY <1>1, <1>15, RestartEffect DEF Writing, At
<1>16. CASE UNCHANGED vars
  BY <1>16 DEF vars, Writing, At
<1> QED
  BY <1>3, <1>4, <1>5, <1>6, <1>7, <1>8, <1>9, <1>10, <1>11, <1>12, <1>13, <1>14, <1>15,
     <1>16
  DEF Next, Step

-----------------------------------------------------------------------------
(* What a session has changed so far is what its process is to change.      *)

(* Only the process in a session can have changed anything.                 *)
LEMMA WorkingAlone ==
  ASSUME TypeOK', NEW p \in Procs, session' \in {None, Lost, p}, Working(p)',
         None \notin Procs
  PROVE  \A q \in Procs : Working(q)'
<1> SUFFICES ASSUME NEW q \in Procs, q # p
             PROVE  Working(q)'
  OBVIOUS
<1>1. ~At(q, SessionSteps)'
  BY HolderNext, FactSourceAssumption
<1> QED
  BY <1>1 DEF Working, At, SessionSteps

LEMMA WorkingKept ==
  ASSUME \A q \in Procs : Working(q), NEW p \in Procs,
         \A q \in Procs \ {p} : op'[q] = op[q],
         op'[p].at \notin SessionSteps, UNCHANGED <<db, work>>
  PROVE  \A q \in Procs : Working(q)'
<1> SUFFICES ASSUME NEW q \in Procs
             PROVE  Working(q)'
  OBVIOUS
<1>1. CASE q = p
  BY <1>1 DEF Working, At, SessionSteps
<1>2. CASE q # p
  <2>1. op'[q] = op[q] /\ Working(q)
    BY <1>2
  <2> QED
    BY <2>1 DEF Working, At, Deletes, DropRows, RowIn
<1> QED
  BY <1>1, <1>2

LEMMA WorkingStep ==
  ASSUME TypeOK, TypeOK', Named, \A p \in Procs : Working(p), [Next]_vars
  PROVE  \A p \in Procs : Working(p)'
<1>1. TypeOK /\ TypeOK' /\ Named /\ None \notin Procs /\ None \notin Row
  BY FactSourceAssumption
<1>2. ASSUME NEW p \in Procs, NEW k \in Keys, BeginDelete(p, k) \/ BeginReplace(p, k)
      PROVE  \A q \in Procs : Working(q)'
  <2>1. /\ session' = p /\ op'[p].at \in {"take", "end"} /\ db' = db
        /\ op'[p].at = "end" => work' = db
        /\ op'[p].at = "take" =>
              /\ db[k] # None /\ op'[p].row = db[k] /\ db[k].file \in SameId(op'[p].file)
              /\ \/ op'[p].next = "idle" /\ work' = [db EXCEPT ![k] = None]
                 \/ op'[p].next = "read" /\ work' = db
    BY <1>1, <1>2, BeginEditEffect
  <2>2. CASE op'[p].at = "end"
    <3>1. Working(p)'
      BY <2>1, <2>2 DEF Working, At
    <3> QED
      BY <1>1, <2>1, <3>1, WorkingAlone
  <2>3. CASE op'[p].at = "take"
    <3>1. op'[p].row.file \in SameId(op'[p].file)
      BY <2>1, <2>3
    <3>2. op'[p].next = "idle" => Deletes(op[p].row)'
      BY <2>1, <2>3 DEF Deletes
    <3>3. op'[p].next = "read" => work' = db'
      BY <2>1, <2>3
    <3>4. Working(p)'
      BY <2>3, <3>1, <3>2, <3>3 DEF Working, At, SameId
    <3> QED
      BY <1>1, <2>1, <3>4, WorkingAlone
  <2> QED
    BY <2>1, <2>2, <2>3
<1>3. ASSUME NEW p \in Procs, TakeSource(p)
      PROVE  \A q \in Procs : Working(q)'
  <2>1. /\ op[p].at = "take" /\ session' = p
        /\ op'[p].at = "put" /\ op'[p].file = op[p].file /\ op'[p].row = op[p].row
        /\ op'[p].next = op[p].next /\ UNCHANGED <<db, work>>
    BY <1>1, <1>3, TakeSourceEffect
  <2>2. Working(p)'
    BY <2>1 DEF Working, At, Deletes, SameId
  <2> QED
    BY <1>1, <2>1, <2>2, WorkingAlone
<1>4. ASSUME NEW p \in Procs, PutSource(p)
      PROVE  \A q \in Procs : Working(q)'
  <2>1. /\ op[p].at = "put" /\ session' = p /\ op[p].file \in Files
        /\ op[p].row \in Row /\ op[p].next \in {"idle", "read"}
        /\ op'[p].at = "end" /\ op'[p].file = op[p].file /\ UNCHANGED <<db, work>>
    BY <1>1, <1>4, PutSourceEffect
  <2>2. op[p].row.file \in SameId(op[p].file)
    BY <2>1 DEF Working, At
  <2>3. op[p].file # None
    BY <2>1, FactSourceAssumption
  <2>4. ASSUME NEW k \in Keys, work[k] # db[k]
        PROVE  work[k] = None /\ db[k] # None /\ db[k].file \in SameId(op[p].file)
    <3>1. op[p].next = "idle"
      BY <2>1, <2>4 DEF Working, At
    <3>2. PICK c \in Keys : db[c] = op[p].row /\ work = [db EXCEPT ![c] = None]
      BY <2>1, <3>1 DEF Working, At, Deletes
    <3>3. k = c
      BY <2>4, <3>2 DEF TypeOK
    <3> QED
      BY <1>1, <2>1, <2>2, <3>2, <3>3 DEF TypeOK
  <2>5. Working(p)'
    BY <2>1, <2>3, <2>4 DEF Working, At, SameId
  <2> QED
    BY <1>1, <2>1, <2>5, WorkingAlone
<1>5. ASSUME NEW p \in Procs, EndEdit(p)
      PROVE  \A q \in Procs : Working(q)'
  <2>1. session' = None /\ op'[p].at \in {"idle", "read"}
    BY <1>1, <1>5, EndEditEffect
  <2>2. Working(p)'
    BY <2>1 DEF Working, At
  <2> QED
    BY <1>1, <2>1, <2>2, WorkingAlone
<1>6. ASSUME NEW p \in Procs, NEW f \in Files,
             \/ ReadFile(p, f) \/ Learn(p, f) \/ BeginConvert(p, f)
             \/ Convert(p) /\ f = op[p].file
      PROVE  \A q \in Procs : Working(q)'
  BY <1>1, <1>6, WritingEffect, WorkingKept DEF SessionSteps
<1>7. ASSUME NEW p \in Procs, BeginClear(p)
      PROVE  \A q \in Procs : Working(q)'
  <2>1. /\ session' = p /\ op'[p].at = "clear" /\ op'[p].file = op[p].file
        /\ work' = DropRows(op[p].file) /\ db' = db
    BY <1>1, <1>7, BeginClearEffect
  <2>2. Working(p)'
    BY <2>1 DEF Working, At, DropRows, SameId
  <2> QED
    BY <1>1, <2>1, <2>2, WorkingAlone
<1>8. ASSUME NEW p \in Procs, EndClear(p)
      PROVE  \A q \in Procs : Working(q)'
  <2>1. session' = None /\ op'[p].at = "cleared"
    BY <1>1, <1>8, EndClearEffect
  <2>2. Working(p)'
    BY <2>1 DEF Working, At
  <2> QED
    BY <1>1, <2>1, <2>2, WorkingAlone
<1>9. ASSUME NEW p \in Procs, BeginAdd(p) \/ BeginBatch(p)
      PROVE  \A q \in Procs : Working(q)'
  <2>1. /\ session' = p /\ op[p].file \in Files
        /\ op'[p].at = "add" /\ op'[p].file = op[p].file /\ db' = db
        /\ \E lines \in Seq(Facts), n \in Nat \ {0} : AddLines(p, lines, n)
    BY <1>1, <1>9, BeginLinesEffect
  <2>2. PICK lines \in Seq(Facts), n \in Nat \ {0} : AddLines(p, lines, n)
    BY <2>1
  <2>3. \A k \in Keys : work'[k] # db[k] =>
          db[k] = None /\ work'[k] \in Row /\ work'[k].file = op[p].file
    BY <1>1, <2>1, <2>2, LinesAdded
  <2>4. Working(p)'
    BY <1>1, <2>1, <2>3 DEF Working, At, RowIn
  <2> QED
    BY <1>1, <2>1, <2>4, WorkingAlone
<1>10. ASSUME NEW p \in Procs, EndBatch(p)
       PROVE  \A q \in Procs : Working(q)'
  <2>1. session' = None /\ op'[p].at \in {"more", "idle"}
    BY <1>1, <1>10, EndBatchEffect
  <2>2. Working(p)'
    BY <2>1 DEF Working, At
  <2> QED
    BY <1>1, <2>1, <2>2, WorkingAlone
<1>11. ASSUME NEW p \in Procs, Crash(p)
       PROVE  \A q \in Procs : Working(q)'
  BY <1>1, <1>11, CrashEffect, LeavesEffect, WorkingKept DEF SessionSteps
<1>12. CASE UNCHANGED vars
  BY <1>12 DEF vars, Working, At, Deletes, DropRows, RowIn
<1>13. ASSUME NEW p \in Procs, Convert(p)
       PROVE  op[p].file \in Files
  BY <1>1, <1>13, Holder, OpTypes DEF Convert, At
<1>14. ASSUME NEW p \in Procs, CommitOnly(p)
       PROVE  \A q \in Procs : Working(q)'
  <2>1. session' = Lost /\ op'[p].at = "idle"
    BY <1>1, <1>14, CommitOnlyEffect, LeavesEffect
  <2>2. Working(p)'
    BY <2>1 DEF Working, At
  <2> QED
    BY <1>1, <2>1, <2>2, WorkingAlone
<1>15. ASSUME Restart
       PROVE  \A q \in Procs : Working(q)'
  BY <1>1, <1>15, RestartEffect DEF Working, At
<1> QED
  BY <1>2, <1>3, <1>4, <1>5, <1>6, <1>7, <1>8, <1>9, <1>10, <1>11, <1>12, <1>13, <1>14,
     <1>15
  DEF Next, Step

-----------------------------------------------------------------------------
(* Who reads a file of an id of which others read one knows of it.          *)
LEMMA InReaders ==
  ASSUME NEW p, NEW f, NEW q
  PROVE  q \in Readers(p, f) <=>
           q \in Procs /\ q # p /\ op[q].at \in ReaderSteps /\ op[q].file \in SameId(f)
BY DEF Readers, At, ReaderSteps

LEMMA ReadersSame ==
  ASSUME NEW p \in Procs, NEW f, \A q \in Procs \ {p} : op'[q] = op[q]
  PROVE  Readers(p, f)' = Readers(p, f)
BY DEF Readers, At, SameId

(* What p does keeps what the others know.                                  *)
LEMMA ReadingOthers ==
  ASSUME TypeOK, \A q \in Procs : Reading(q), NEW p \in Procs,
         \A q \in Procs \ {p} : op'[q] = op[q],
         alone' \ {p} \subseteq alone,
         \A g \in doubt \ doubt' : Readers(p, g) = {},
         op'[p].at \in ReaderSteps =>
           \/ op[p].at \in ReaderSteps /\ op'[p].file = op[p].file
           \/ /\ SameId(op'[p].file) \subseteq doubt'
              /\ alone' \intersect Readers(p, op'[p].file) = {},
         \A k \in Keys : db'[k] # None =>
           \/ db[k] # None /\ db[k].file = db'[k].file
           \/ op[p].at \in ReaderSteps /\ db'[k].file = op[p].file
  PROVE  \A q \in Procs \ {p} : Reading(q)'
<1> SUFFICES ASSUME NEW q \in Procs \ {p}
             PROVE  Reading(q)'
  OBVIOUS
<1>1. op'[q] = op[q] /\ Reading(q) /\ op[q] \in Op
  BY Holder
<1> DEFINE f == op[q].file
<1>2. ASSUME op[q].at \in ReaderSteps
      PROVE  /\ f \in Files /\ \A g \in SameId(f) : q \in Readers(p, g) /\ g \in Files
             /\ \A g \in SameId(f) : g \in doubt => g \in doubt'
  <2>1. f \in Files
    BY <1>1, <1>2, OpTypes DEF ReaderSteps
  <2>2. \A g \in SameId(f) : q \in Readers(p, g) /\ g \in Files
    BY <1>2, <2>1, InReaders DEF SameId
  <2> QED
    BY <2>1, <2>2
<1>3. ASSUME op[q].at \in ReaderSteps, Readers(q, f) = {},
             f \notin doubt' \/ q \in alone'
      PROVE  Readers(q, f)' = {}
  <2> SUFFICES ASSUME NEW r \in Readers(q, f)'
               PROVE  FALSE
    OBVIOUS
  <2>1. r \in Procs /\ r # q /\ op'[r].at \in ReaderSteps /\ op'[r].file \in SameId(f)
    BY DEF Readers, At, ReaderSteps, SameId
  <2>2. r = p
    <3>1. r # p => r \in Readers(q, f)
      BY <2>1, InReaders
    <3> QED
      BY <1>3, <3>1
  <2>3. ~(op[p].at \in ReaderSteps /\ op'[p].file = op[p].file)
    BY <1>3, <2>1, <2>2, InReaders
  <2>4. /\ SameId(op'[p].file) \subseteq doubt'
        /\ alone' \intersect Readers(p, op'[p].file) = {}
    BY <2>1, <2>2, <2>3
  <2>5. f \in SameId(op'[p].file) /\ q \in Readers(p, op'[p].file)
    BY <1>2, <1>3, <2>1, <2>2, InReaders DEF SameId
  <2> QED
    BY <1>3, <2>4, <2>5
<1>4. op[q].at \in {"clear", "cleared"} => SameId(f) \subseteq doubt'
  BY <1>1, <1>2 DEF Reading, At, ReaderSteps
<1>5. op[q].at \in {"add", "more"} => SameId(f) \ {f} \subseteq doubt'
  BY <1>1, <1>2 DEF Reading, At, ReaderSteps
<1>6. op[q].at \in {"add", "more"} /\ f \notin doubt' => Readers(q, f)' = {}
  <2> SUFFICES ASSUME op[q].at \in {"add", "more"}, f \notin doubt'
               PROVE  Readers(q, f)' = {}
    OBVIOUS
  <2>1. op[q].at \in ReaderSteps
    BY DEF ReaderSteps
  <2>2. f \in SameId(f) /\ f \notin doubt
    BY <1>2, <2>1 DEF SameId
  <2>3. Readers(q, f) = {}
    BY <1>1, <2>2 DEF Reading, At
  <2> QED
    BY <1>3, <2>1, <2>2, <2>3
<1>7. q \in alone' =>
        /\ op[q].at \in {"clear", "cleared"} /\ Readers(q, f)' = {}
        /\ op[q].at = "cleared" =>
             \A k \in Keys : db'[k] # None => db'[k].file \notin SameId(f)
  <2> SUFFICES ASSUME q \in alone'
               PROVE  /\ op[q].at \in {"clear", "cleared"} /\ Readers(q, f)' = {}
                      /\ op[q].at = "cleared" =>
                           \A k \in Keys : db'[k] # None => db'[k].file \notin SameId(f)
    OBVIOUS
  <2>1. q \in alone
    OBVIOUS
  <2>2. /\ op[q].at \in {"clear", "cleared"} /\ Readers(q, f) = {}
        /\ op[q].at = "cleared" =>
             \A k \in Keys : db[k] # None => db[k].file \notin SameId(f)
    BY <1>1, <2>1 DEF Reading, At
  <2>3. op[q].at \in ReaderSteps
    BY <2>2 DEF ReaderSteps
  <2>4. Readers(q, f)' = {}
    BY <1>3, <2>2, <2>3
  <2>5. op[p].at \in ReaderSteps => op[p].file \notin SameId(f)
    BY <2>2, InReaders
  <2> QED
    BY <2>2, <2>4, <2>5
<1>8. SameId(op[q].file)' = SameId(f)
  BY <1>1 DEF SameId
<1> QED
  BY <1>1, <1>4, <1>5, <1>6, <1>7, <1>8 DEF Reading, At

(* A process that reads no file after its step.                             *)
LEMMA ReadingKept ==
  ASSUME TypeOK, \A q \in Procs : Reading(q), NEW p \in Procs,
         \A q \in Procs \ {p} : op'[q] = op[q],
         op'[p].at \notin ReaderSteps, p \notin alone',
         alone' \subseteq alone, doubt \subseteq doubt',
         \A k \in Keys : db'[k] # None =>
           \/ db[k] # None /\ db[k].file = db'[k].file
           \/ op[p].at \in ReaderSteps /\ db'[k].file = op[p].file
  PROVE  \A q \in Procs : Reading(q)'
<1>1. \A q \in Procs \ {p} : Reading(q)'
  BY ReadingOthers
<1>2. Reading(p)'
  BY DEF Reading, At, ReaderSteps
<1> QED
  BY <1>1, <1>2

LEMMA ReadingStep ==
  ASSUME TypeOK, Named, \A p \in Procs : Working(p), \A p \in Procs : Reading(p),
         [Next]_vars
  PROVE  \A p \in Procs : Reading(p)'
<1>1. TypeOK /\ Named /\ \A q \in Procs : Reading(q)
  OBVIOUS
<1>2. \A q \in Procs : op[q].at \notin {"clear", "cleared"} => q \notin alone
  BY DEF Reading, At
<1> USE DEF ReaderSteps
<1>3. ASSUME NEW p \in Procs, NEW k \in Keys, BeginDelete(p, k) \/ BeginReplace(p, k)
      PROVE  \A q \in Procs : Reading(q)'
  <2>1. /\ op[p].at = "idle" /\ op'[p].at \in {"take", "end"}
        /\ \A q \in Procs \ {p} : op'[q] = op[q]
        /\ UNCHANGED <<db, doubt, alone>>
    BY <1>1, <1>3, BeginEditEffect
  <2> QED
    BY <1>1, <1>2, <2>1, ReadingKept
<1>4. ASSUME NEW p \in Procs, TakeSource(p)
      PROVE  \A q \in Procs : Reading(q)'
  <2>1. /\ op[p].at = "take" /\ op'[p].at = "put"
        /\ \A q \in Procs \ {p} : op'[q] = op[q]
        /\ UNCHANGED <<db, doubt, alone>>
    BY <1>1, <1>4, TakeSourceEffect
  <2> QED
    BY <1>1, <1>2, <2>1, ReadingKept
<1>5. ASSUME NEW p \in Procs, PutSource(p)
      PROVE  \A q \in Procs : Reading(q)'
  <2>1. /\ op[p].at = "put" /\ op'[p].at = "end"
        /\ \A q \in Procs \ {p} : op'[q] = op[q]
        /\ doubt \subseteq doubt' /\ UNCHANGED <<db, alone>>
    BY <1>1, <1>5, PutSourceEffect
  <2> QED
    BY <1>1, <1>2, <2>1, ReadingKept
<1>6. ASSUME NEW p \in Procs, EndEdit(p)
      PROVE  \A q \in Procs : Reading(q)'
  <2>1. /\ op[p].at = "end" /\ op'[p].at \in {"idle", "read"} /\ db' = work
        /\ \A q \in Procs \ {p} : op'[q] = op[q]
        /\ UNCHANGED <<doubt, alone>>
    BY <1>1, <1>6, EndEditEffect
  <2>2. \A k \in Keys : work[k] # db[k] => work[k] = None
    BY <2>1 DEF Working, At
  <2>3. \A k \in Keys : db'[k] # None => db[k] # None /\ db[k].file = db'[k].file
    BY <2>1, <2>2
  <2> QED
    BY <1>1, <1>2, <2>1, <2>3, ReadingKept
<1>7. ASSUME NEW p \in Procs, NEW f \in Files,
             \/ ReadFile(p, f) \/ Learn(p, f) \/ BeginConvert(p, f)
             \/ Convert(p) /\ f = op[p].file
      PROVE  \A q \in Procs : Reading(q)'
  <2>1. /\ op[p].at \in {"idle", "convert"} /\ op'[p].at \in {"idle", "read", "convert"}
        /\ \A q \in Procs \ {p} : op'[q] = op[q]
        /\ doubt \subseteq doubt' /\ UNCHANGED <<db, alone>>
    BY <1>1, <1>7, WritingEffect
  <2> QED
    BY <1>1, <1>2, <2>1, ReadingKept
<1>8. ASSUME NEW p \in Procs, BeginClear(p)
      PROVE  \A q \in Procs : Reading(q)'
  <2> DEFINE f == op[p].file
             others == Readers(p, f)
  <2>1. /\ op[p].at = "read" /\ f \in Files
        /\ \A q \in Procs \ {p} : op'[q] = op[q]
        /\ op'[p].at = "clear" /\ op'[p].file = f
        /\ doubt' = doubt \union SameId(f)
        /\ alone' = (alone \ others) \union (IF others = {} THEN {p} ELSE {})
        /\ db' = db
    BY <1>1, <1>8, BeginClearEffect
  <2>2. alone' \ {p} \subseteq alone /\ p \notin others /\ p \notin alone
    BY <1>2, <2>1, InReaders
  <2>3. alone' \intersect others = {} /\ (p \in alone' => others = {})
    BY <2>1, <2>2
  <2>4. SameId(op'[p].file) \subseteq doubt'
    BY <2>1
  <2>5. alone' \intersect Readers(p, op'[p].file) = {}
    BY <2>1, <2>3
  <2>6. \A q \in Procs \ {p} : Reading(q)'
    BY <1>1, <2>1, <2>2, <2>4, <2>5, ReadingOthers
  <2>7. Readers(p, f)' = Readers(p, f)
    BY <2>1, ReadersSame DEF Readers, At, SameId
  <2>8. Readers(p, op[p].file)' = Readers(p, f) /\ SameId(op[p].file)' = SameId(f)
    BY <2>1, <2>7 DEF SameId
  <2>9. Reading(p)'
    BY <2>1, <2>3, <2>8 DEF Reading, At
  <2> QED
    BY <2>6, <2>9
<1>9. ASSUME NEW p \in Procs, EndClear(p)
      PROVE  \A q \in Procs : Reading(q)'
  <2>1. /\ op[p].at = "clear" /\ op[p].file \in Files /\ db' = work
        /\ \A q \in Procs \ {p} : op'[q] = op[q]
        /\ op'[p].at = "cleared" /\ op'[p].file = op[p].file
        /\ UNCHANGED <<doubt, alone>>
    BY <1>1, <1>9, EndClearEffect
  <2>2. work = DropRows(op[p].file)
    BY <2>1 DEF Working, At
  <2>3. \A k \in Keys : db'[k] # None =>
          db[k] # None /\ db'[k] = db[k] /\ db[k].file \notin SameId(op[p].file)
    BY <2>1, <2>2 DEF DropRows
  <2>4. \A q \in Procs \ {p} : Reading(q)'
    BY <1>1, <2>1, <2>3, ReadingOthers
  <2>5. Readers(p, op[p].file)' = Readers(p, op[p].file)
        /\ SameId(op[p].file)' = SameId(op[p].file)
    BY <2>1 DEF Readers, At, SameId
  <2>6. Reading(p)
    OBVIOUS
  <2>7. Reading(p)'
    BY <2>1, <2>3, <2>5, <2>6 DEF Reading, At
  <2> QED
    BY <2>4, <2>7
<1>10. ASSUME NEW p \in Procs, BeginAdd(p) \/ BeginBatch(p)
       PROVE  \A q \in Procs : Reading(q)'
  <2>1. /\ BeginAdd(p) => op[p].at = "cleared"
        /\ BeginBatch(p) => op[p].at = "more"
        /\ op[p].file \in Files
        /\ \A q \in Procs \ {p} : op'[q] = op[q]
        /\ op'[p].at = "add" /\ op'[p].file = op[p].file
        /\ BeginAdd(p) => /\ doubt' = IF p \in alone THEN doubt \ {op[p].file} ELSE doubt
                          /\ alone' = alone \ {p}
        /\ BeginBatch(p) => doubt' = doubt /\ alone' = alone
        /\ db' = db
    BY <1>1, <1>10, BeginLinesEffect
  <2>2. Readers(p, op[p].file)' = Readers(p, op[p].file)
        /\ SameId(op[p].file)' = SameId(op[p].file)
    BY <2>1 DEF Readers, At, SameId
  <2>3. Reading(p)
    OBVIOUS
  <2>4. p \in alone => Readers(p, op[p].file) = {}
    BY <2>3 DEF Reading
  <2>5. p \notin alone'
    BY <1>2, <1>10, <2>1
  <2>6. \A g \in doubt \ doubt' : Readers(p, g) = {}
    BY <1>10, <2>1, <2>4
  <2>7. \A q \in Procs \ {p} : Reading(q)'
    <3>1. alone' \ {p} \subseteq alone
      BY <1>10, <2>1
    <3>2. op[p].at \in ReaderSteps
      BY <1>10, <2>1
    <3> QED
      BY <1>1, <2>1, <2>6, <3>1, <3>2, ReadingOthers
  <2>8. SameId(op[p].file) \ {op[p].file} \subseteq doubt'
    <3>1. CASE BeginAdd(p)
      <4>1. SameId(op[p].file) \subseteq doubt
        BY <2>1, <2>3, <3>1 DEF Reading, At
      <4> QED
        BY <2>1, <3>1, <4>1
    <3>2. CASE BeginBatch(p)
      BY <2>1, <2>3, <3>2 DEF Reading, At
    <3> QED
      BY <1>10, <3>1, <3>2
  <2>9. op[p].file \notin doubt' => Readers(p, op[p].file) = {}
    <3>1. CASE BeginAdd(p)
      <4>1. op[p].file \in doubt
        BY <2>1, <2>3, <3>1 DEF Reading, At, SameId
      <4> QED
        BY <2>1, <2>4, <3>1, <4>1
    <3>2. CASE BeginBatch(p)
      BY <2>1, <2>3, <3>2 DEF Reading, At
    <3> QED
      BY <1>10, <3>1, <3>2
  <2>10. Reading(p)'
    BY <2>1, <2>2, <2>5, <2>8, <2>9 DEF Reading, At
  <2> QED
    BY <2>7, <2>10
<1>11. ASSUME NEW p \in Procs, EndBatch(p)
       PROVE  \A q \in Procs : Reading(q)'
  <2>1. /\ op[p].at = "add" /\ db' = work
        /\ \A q \in Procs \ {p} : op'[q] = op[q]
        /\ (op'[p].at = "more" /\ op'[p].file = op[p].file) \/ op'[p].at = "idle"
        /\ UNCHANGED <<doubt, alone>>
    BY <1>1, <1>11, EndBatchEffect
  <2>2. \A k \in Keys : work[k] # db[k] => RowIn(work, k, op[p].file)
    BY <2>1 DEF Working, At
  <2>3. \A k \in Keys : db'[k] # None =>
          \/ db[k] # None /\ db[k].file = db'[k].file
          \/ op[p].at \in ReaderSteps /\ db'[k].file = op[p].file
    BY <2>1, <2>2 DEF RowIn
  <2>4. \A q \in Procs \ {p} : Reading(q)'
    BY <1>1, <2>1, <2>3, ReadingOthers
  <2>5. Readers(p, op[p].file)' = Readers(p, op'[p].file)
        /\ SameId(op[p].file)' = SameId(op'[p].file)
    BY <2>1 DEF Readers, At, SameId
  <2>6. Reading(p) /\ p \notin alone
    BY <1>2, <2>1
  <2>7. Reading(p)'
    BY <2>1, <2>5, <2>6 DEF Reading, At
  <2> QED
    BY <2>4, <2>7
<1>12. ASSUME NEW p \in Procs, Crash(p)
       PROVE  \A q \in Procs : Reading(q)'
  <2>1. /\ op'[p].at = "idle" /\ alone' = alone \ {p} /\ doubt \subseteq doubt' /\ db' = db
        /\ \A q \in Procs \ {p} : op'[q] = op[q]
    BY <1>1, <1>12, CrashEffect, LeavesEffect
  <2> QED
    BY <1>1, <2>1, ReadingKept
<1>13. CASE UNCHANGED vars
  BY <1>13 DEF vars, history, Reading, At, Readers, SameId
<1>14. ASSUME NEW p \in Procs, Convert(p)
       PROVE  op[p].file \in Files
  BY <1>1, <1>14, Holder, OpTypes DEF Convert, At
<1>15. ASSUME NEW p \in Procs, CommitOnly(p)
       PROVE  \A q \in Procs : Reading(q)'
  <2>1. /\ op'[p].at = "idle" /\ alone' = alone \ {p} /\ doubt \subseteq doubt'
        /\ db' = work /\ op[p].at \in {"end", "clear", "add"}
        /\ \A q \in Procs \ {p} : op'[q] = op[q]
    BY <1>1, <1>15, CommitOnlyEffect, LeavesEffect
  <2>2. Working(p)
    OBVIOUS
  <2>3. \A k \in Keys : db'[k] # None =>
          \/ db[k] # None /\ db[k].file = db'[k].file
          \/ op[p].at \in ReaderSteps /\ db'[k].file = op[p].file
    <3>1. CASE op[p].at = "end"
      <4>1. \A k \in Keys : work[k] # db[k] => work[k] = None
        BY <2>2, <3>1 DEF Working, At
      <4> QED
        BY <2>1, <4>1
    <3>2. CASE op[p].at = "clear"
      <4>1. work = DropRows(op[p].file)
        BY <2>2, <3>2 DEF Working, At
      <4> QED
        BY <2>1, <4>1 DEF DropRows
    <3>3. CASE op[p].at = "add"
      <4>1. \A k \in Keys : work[k] # db[k] => RowIn(work, k, op[p].file)
        BY <2>2, <3>3 DEF Working, At
      <4> QED
        BY <2>1, <3>3, <4>1 DEF RowIn
    <3> QED
      BY <2>1, <3>1, <3>2, <3>3
  <2> QED
    BY <1>1, <2>1, <2>3, ReadingKept
<1>16. ASSUME Restart
       PROVE  \A q \in Procs : Reading(q)'
  <2>1. alone' = {} /\ \A q \in Procs : op'[q].at = "idle"
    BY <1>1, <1>16, RestartEffect
  <2> QED
    BY <2>1 DEF Reading, At
<1> QED
  BY <1>3, <1>4, <1>5, <1>6, <1>7, <1>8, <1>9, <1>10, <1>11, <1>12, <1>13, <1>14, <1>15,
     <1>16
  DEF Next, Step

-----------------------------------------------------------------------------
(* The rows of a file without doubt are its lines.                          *)

LEMMA TableHeld ==
  ASSUME NEW p \in Procs, session = p
  PROVE  /\ Table = IF op[p].at \in {"end", "clear", "add"} THEN work ELSE db
         /\ \A f : Text(f) = IF op[p].at = "put" /\ op[p].file = f THEN op[p].lines
                             ELSE source[f]
BY FactSourceAssumption DEF Table, Text, At

LEMMA TableFree ==
  ASSUME session \in {None, Lost}
  PROVE  Table = db /\ \A f : Text(f) = source[f]
BY FactSourceAssumption DEF Table, Text

LEMMA TableHeldNext ==
  ASSUME NEW p \in Procs, session' = p
  PROVE  /\ Table' = IF op'[p].at \in {"end", "clear", "add"} THEN work' ELSE db'
         /\ \A f : Text(f)' = IF op'[p].at = "put" /\ op'[p].file = f THEN op'[p].lines
                              ELSE source'[f]
BY FactSourceAssumption DEF Table, Text, At

LEMMA TableFreeNext ==
  ASSUME session' \in {None, Lost}
  PROVE  Table' = db' /\ \A f : Text(f)' = source'[f]
BY FactSourceAssumption DEF Table, Text

(* A step that neither another's session is involved in.                    *)
LEMMA TableKept ==
  ASSUME TypeOK, NEW p \in Procs, session # p, session' = session,
         \A q \in Procs \ {p} : op'[q] = op[q], UNCHANGED <<db, work>>
  PROVE  /\ Table' = Table
         /\ \A f : source'[f] = source[f] => Text(f)' = Text(f)
<1>1. CASE session \in {None, Lost}
  BY <1>1, TableFree, TableFreeNext
<1>2. CASE session \notin {None, Lost}
  <2>1. session \in Procs \ {p} /\ op'[session] = op[session]
    BY <1>2 DEF TypeOK
  <2> QED
    BY <2>1, TableHeld, TableHeldNext
<1> QED
  BY <1>1, <1>2

(* What is stored, written and read of a file stays.                        *)
Unmoved(f) ==
  /\ \A k \in Keys : RowIn(Table, k, f) \/ RowIn(Table, k, f)' => Table'[k] = Table[k]
  /\ Text(f)' = Text(f) /\ removed'[f] = removed[f]
  /\ \A q \in Procs : Adds(q, f)' =>
       Adds(q, f) /\ op'[q].n = op[q].n /\ op'[q].lines = op[q].lines
  /\ \A q \in Procs : Adds(q, f) /\ op[q].n <= Len(op[q].lines) =>
       Adds(q, f)' /\ op'[q].n = op[q].n /\ op'[q].lines = op[q].lines

LEMMA OwedKept ==
  ASSUME TypeOK, NEW f, Unmoved(f), NEW v \in Nat, NEW x
  PROVE  Owed(f, v, x)' <=> Owed(f, v, x)
<1>1. (\E k \in Keys : RowIn(Table, k, f)' /\ Table'[k].line = v /\ Table'[k].fact = x)
        <=> (\E k \in Keys : RowIn(Table, k, f) /\ Table[k].line = v /\ Table[k].fact = x)
  <2>1. \A k \in Keys : RowIn(Table, k, f) \/ RowIn(Table, k, f)' => Table'[k] = Table[k]
    BY DEF Unmoved
  <2>2. \A k \in Keys : Table'[k] = Table[k] => (RowIn(Table, k, f)' <=> RowIn(Table, k, f))
    BY DEF RowIn
  <2> QED
    BY <2>1, <2>2
<1>2. ASSUME NEW q \in Procs
      PROVE  Pending(q, f, v)' /\ op'[q].lines[v] = x <=> Pending(q, f, v) /\ op[q].lines[v] = x
  <2>1. CASE Pending(q, f, v)'
    BY <2>1 DEF Unmoved, Pending
  <2>2. CASE Pending(q, f, v)
    <3>1. op[q].at \in {"add", "more"} /\ op[q].n <= v /\ v <= Len(op[q].lines)
      BY <2>2 DEF Pending, Adds, At
    <3>2. op[q].lines \in Seq(Facts) /\ op[q].n \in Nat
      BY <3>1, Holder, OpTypes
    <3>3. op[q].n <= Len(op[q].lines)
      BY <3>1, <3>2
    <3>4. Adds(q, f)' /\ op'[q].n = op[q].n /\ op'[q].lines = op[q].lines
      BY <2>2, <3>3 DEF Unmoved, Pending
    <3> QED
      BY <2>2, <3>4 DEF Pending
  <2> QED
    BY <2>1, <2>2
<1> QED
  BY <1>1, <1>2 DEF Owed

LEMMA AgreesKept ==
  ASSUME TypeOK, NEW f \in Files, Unmoved(f), Agrees(f)
  PROVE  Agrees(f)'
<1>1. Apart(f)'
  <2>1. ASSUME NEW j \in Keys, NEW k \in Keys,
               RowIn(Table, j, f)', RowIn(Table, k, f)', Table'[j].line = Table'[k].line
        PROVE  j = k
    <3>1. Table'[j] = Table[j] /\ Table'[k] = Table[k]
      BY <2>1 DEF Unmoved
    <3>2. RowIn(Table, j, f) /\ RowIn(Table, k, f)
      BY <2>1, <3>1 DEF RowIn
    <3> QED
      BY <2>1, <3>1, <3>2 DEF Agrees, Apart
  <2>2. ASSUME NEW q \in Procs, Adds(q, f)', NEW k \in Keys, RowIn(Table, k, f)'
        PROVE  Table'[k].line < op'[q].n
    <3>1. Table'[k] = Table[k] /\ Adds(q, f) /\ op'[q].n = op[q].n
      BY <2>2 DEF Unmoved
    <3>2. RowIn(Table, k, f)
      BY <2>2, <3>1 DEF RowIn
    <3> QED
      BY <3>1, <3>2 DEF Agrees, Apart
  <2> QED
    BY <2>1, <2>2 DEF Apart
<1>2. PICK e \in Seq(Nat) : Fits(e, f)
  BY DEF Agrees, Listed
<1>3. Text(f)' = Text(f) /\ removed'[f] = removed[f]
  BY DEF Unmoved
<1>4. \A i \in 1..Len(e) : e[i] \in Nat
  BY <1>2
<1>5. \A i \in 1..Len(e) : Owed(f, e[i], Text(f)[i])'
  <2> SUFFICES ASSUME NEW i \in 1..Len(e)
               PROVE  Owed(f, e[i], Text(f)[i])'
    OBVIOUS
  <2>1. PICK v, x : v \in Nat /\ v = e[i] /\ x = Text(f)[i]
    BY <1>4
  <2>2. Owed(f, v, x)
    BY <1>2, <2>1 DEF Fits
  <2>3. Owed(f, v, x)'
    BY <2>1, <2>2, OwedKept
  <2>4. v = e[i] /\ x = (Text(f)')[i]
    BY <1>3, <2>1
  <2> QED
    BY <2>3, <2>4 DEF Owed
<1>6. \A v \in Nat, x \in Facts :
        Owed(f, v, x)' => \E i \in 1..Len(e) : e[i] = v /\ Text(f)'[i] = x
  BY <1>2, <1>3, OwedKept DEF Fits
<1>7. Fits(e, f)'
  BY <1>2, <1>3, <1>5, <1>6 DEF Fits
<1> QED
  BY <1>1, <1>2, <1>7 DEF Agrees, Listed

LEMMA UnmovedBy ==
  ASSUME NEW p \in Procs, NEW f, \A q \in Procs \ {p} : op'[q] = op[q],
         ~Adds(p, f), ~Adds(p, f)',
         \A k \in Keys : RowIn(Table, k, f) \/ RowIn(Table, k, f)' => Table'[k] = Table[k],
         Text(f)' = Text(f), removed'[f] = removed[f]
  PROVE  Unmoved(f)
<1>1. ASSUME NEW q \in Procs, Adds(q, f) \/ Adds(q, f)'
      PROVE  Adds(q, f) /\ Adds(q, f)' /\ op'[q] = op[q]
  <2>1. q # p
    BY <1>1
  <2>2. op'[q] = op[q]
    BY <2>1
  <2> QED
    BY <1>1, <2>2 DEF Adds, At
<1> QED
  BY <1>1 DEF Unmoved

LEMMA AgreesEdit ==
  ASSUME IInv, NEW p \in Procs, NEW f \in Files \ doubt',
         \/ \E k \in Keys : BeginDelete(p, k) \/ BeginReplace(p, k)
         \/ TakeSource(p) \/ EndEdit(p)
  PROVE  Agrees(f)'
<1>1. TypeOK /\ Named /\ None \notin Procs /\ (f \notin doubt => Agrees(f))
  BY FactSourceAssumption DEF IInv
<1>2. CASE \E k \in Keys : BeginDelete(p, k) \/ BeginReplace(p, k)
  <2>1. PICK k \in Keys : BeginDelete(p, k) \/ BeginReplace(p, k)
    BY <1>2
  <2>2. /\ op[p].at = "idle" /\ session = None /\ session' = p
        /\ \A q \in Procs \ {p} : op'[q] = op[q]
        /\ op'[p].at \in {"take", "end"}
        /\ op'[p].at = "end" => work' = db
        /\ UNCHANGED <<source, db, removed, doubt>>
    BY <1>1, <2>1, BeginEditEffect
  <2>3. Table = db /\ Text(f) = source[f]
    BY <2>2, TableFree
  <2>4. Table' = db /\ Text(f)' = source[f]
    BY <2>2, TableHeldNext
  <2>5. ~Adds(p, f) /\ ~Adds(p, f)'
    BY <2>2 DEF Adds, At
  <2>6. Unmoved(f)
    BY <2>2, <2>3, <2>4, <2>5, UnmovedBy
  <2> QED
    BY <1>1, <2>2, <2>6, AgreesKept
<1>3. CASE TakeSource(p)
  <2>1. /\ op[p].at = "take" /\ session = p /\ session' = p /\ op[p].file \in Files
        /\ \A q \in Procs \ {p} : op'[q] = op[q]
        /\ op'[p].at = "put" /\ op'[p].file = op[p].file
        /\ op'[p].lines = source[op[p].file]
        /\ \A g \in Files \ {op[p].file} : source'[g] = source[g]
        /\ UNCHANGED <<db, removed, doubt>>
    BY <1>1, <1>3, TakeSourceEffect
  <2>2. Table = db /\ Text(f) = source[f]
    BY <2>1, TableHeld
  <2>3. Table' = db /\ Text(f)' = source[f]
    BY <2>1, TableHeldNext
  <2>4. ~Adds(p, f) /\ ~Adds(p, f)'
    BY <2>1 DEF Adds, At
  <2>5. Unmoved(f)
    BY <2>1, <2>2, <2>3, <2>4, UnmovedBy
  <2> QED
    BY <1>1, <2>1, <2>5, AgreesKept
<1>4. CASE EndEdit(p)
  <2>1. /\ op[p].at = "end" /\ session = p /\ session' = None /\ db' = work
        /\ \A q \in Procs \ {p} : op'[q] = op[q]
        /\ op'[p].at \in {"idle", "read"}
        /\ UNCHANGED <<source, removed, doubt>>
    BY <1>1, <1>4, EndEditEffect
  <2>2. Table = work /\ Text(f) = source[f]
    BY <2>1, TableHeld
  <2>3. Table' = work /\ Text(f)' = source[f]
    BY <2>1, TableFreeNext
  <2>4. ~Adds(p, f) /\ ~Adds(p, f)'
    BY <2>1 DEF Adds, At
  <2>5. Unmoved(f)
    BY <2>1, <2>2, <2>3, <2>4, UnmovedBy
  <2> QED
    BY <1>1, <2>1, <2>5, AgreesKept
<1> QED
  BY <1>2, <1>3, <1>4

LEMMA AgreesWriting ==
  ASSUME IInv, NEW p \in Procs, NEW g \in Files, NEW f \in Files \ doubt',
         \/ ReadFile(p, g) \/ Learn(p, g) \/ BeginConvert(p, g)
         \/ Convert(p) /\ g = op[p].file
  PROVE  Agrees(f)'
<1>1. TypeOK /\ (f \notin doubt => Agrees(f))
  BY DEF IInv
<1>2. /\ op[p].at \in {"idle", "convert"} /\ session # p
      /\ \A q \in Procs \ {p} : op'[q] = op[q]
      /\ op'[p].at \in {"idle", "read", "convert"}
      /\ \A h \in Files \ {g} : source'[h] = source[h]
      /\ \/ source' = source /\ doubt' = doubt
         \/ doubt' = doubt \union {g}
      /\ UNCHANGED <<db, session, work, removed>>
  BY <1>1, WritingEffect
<1>3. source'[f] = source[f] /\ f \notin doubt
  BY <1>2
<1>4. Table' = Table /\ Text(f)' = Text(f)
  BY <1>1, <1>2, <1>3, TableKept
<1>5. ~Adds(p, f) /\ ~Adds(p, f)'
  BY <1>2 DEF Adds, At
<1>6. Unmoved(f)
  BY <1>2, <1>4, <1>5, UnmovedBy
<1> QED
  BY <1>1, <1>3, <1>6, AgreesKept

LEMMA AgreesClear ==
  ASSUME IInv, NEW p \in Procs, NEW f \in Files \ doubt', BeginClear(p) \/ EndClear(p)
  PROVE  Agrees(f)'
<1>1. TypeOK /\ (f \notin doubt => Agrees(f))
  BY DEF IInv
<1>2. CASE BeginClear(p)
  <2>1. /\ op[p].at = "read" /\ session = None /\ session' = p /\ op[p].file \in Files
        /\ \A q \in Procs \ {p} : op'[q] = op[q]
        /\ op'[p].at = "clear" /\ work' = DropRows(op[p].file)
        /\ doubt' = doubt \union SameId(op[p].file)
        /\ UNCHANGED <<source, db, removed>>
    BY <1>1, <1>2, BeginClearEffect
  <2>2. Table = db /\ Text(f) = source[f]
    BY <2>1, TableFree
  <2>3. Table' = DropRows(op[p].file) /\ Text(f)' = source[f]
    BY <2>1, TableHeldNext
  <2>4. f \notin SameId(op[p].file) /\ f \notin doubt
    BY <2>1
  <2>5. \A k \in Keys : RowIn(Table, k, f) \/ RowIn(Table, k, f)' => Table'[k] = Table[k]
    BY <2>2, <2>3, <2>4 DEF RowIn, DropRows
  <2>6. ~Adds(p, f) /\ ~Adds(p, f)'
    BY <2>1 DEF Adds, At
  <2>7. Unmoved(f)
    BY <2>1, <2>2, <2>3, <2>5, <2>6, UnmovedBy
  <2> QED
    BY <1>1, <2>4, <2>7, AgreesKept
<1>3. CASE EndClear(p)
  <2>1. /\ op[p].at = "clear" /\ session = p /\ session' = None /\ db' = work
        /\ \A q \in Procs \ {p} : op'[q] = op[q]
        /\ op'[p].at = "cleared"
        /\ UNCHANGED <<source, removed, doubt>>
    BY <1>1, <1>3, EndClearEffect
  <2>2. Table = work /\ Text(f) = source[f]
    BY <2>1, TableHeld
  <2>3. Table' = work /\ Text(f)' = source[f]
    BY <2>1, TableFreeNext
  <2>4. ~Adds(p, f) /\ ~Adds(p, f)'
    BY <2>1 DEF Adds, At
  <2>5. Unmoved(f)
    BY <2>1, <2>2, <2>3, <2>4, UnmovedBy
  <2> QED
    BY <1>1, <2>1, <2>5, AgreesKept
<1> QED
  BY <1>2, <1>3

LEMMA AgreesEndBatch ==
  ASSUME IInv, NEW p \in Procs, NEW f \in Files \ doubt', EndBatch(p)
  PROVE  Agrees(f)'
<1>1. TypeOK /\ (f \notin doubt => Agrees(f))
  BY DEF IInv
<1>2. /\ op[p].at = "add" /\ session = p /\ session' = None /\ db' = work
      /\ \A q \in Procs \ {p} : op'[q] = op[q]
      /\ \/ /\ op'[p].at = "more" /\ op'[p].file = op[p].file
            /\ op'[p].lines = op[p].lines /\ op'[p].n = op[p].n
         \/ op'[p].at = "idle" /\ ~(op[p].n <= Len(op[p].lines))
      /\ UNCHANGED <<source, removed, doubt>>
  BY <1>1, EndBatchEffect
<1>3. Table = work /\ Text(f) = source[f]
  BY <1>2, TableHeld
<1>4. Table' = work /\ Text(f)' = source[f]
  BY <1>2, TableFreeNext
<1>5. \A q \in Procs : Adds(q, f)' =>
        Adds(q, f) /\ op'[q].n = op[q].n /\ op'[q].lines = op[q].lines
  BY <1>2 DEF Adds, At
<1>6. \A q \in Procs : Adds(q, f) /\ op[q].n <= Len(op[q].lines) =>
        Adds(q, f)' /\ op'[q].n = op[q].n /\ op'[q].lines = op[q].lines
  BY <1>2 DEF Adds, At
<1>7. Unmoved(f)
  BY <1>2, <1>3, <1>4, <1>5, <1>6 DEF Unmoved
<1> QED
  BY <1>1, <1>2, <1>7, AgreesKept

(* What a process leaves undone, it does not owe to a file without doubt.   *)
LEMMA AgreesCrash ==
  ASSUME IInv, NEW p \in Procs, NEW f \in Files \ doubt', Crash(p) \/ CommitOnly(p)
  PROVE  Agrees(f)'
<1>1. TypeOK /\ (f \notin doubt => Agrees(f)) /\ None \notin Procs /\ Working(p)
  BY FactSourceAssumption DEF IInv
<1>2. /\ \A q \in Procs \ {p} : op'[q] = op[q]
      /\ op'[p].at = "idle"
      /\ doubt' = IF op[p].file = None THEN doubt ELSE doubt \union SameId(op[p].file)
      /\ UNCHANGED <<source, work, removed>>
      /\ session = p => session' = Lost
      /\ session # p => /\ session' = session \/ (session = None /\ session' = Lost)
                        /\ db' = db
      /\ db' = db \/ (db' = work /\ session = p /\ op[p].at \in {"end", "clear", "add"})
  <2>1. CASE Crash(p)
    BY <1>1, <2>1, CrashEffect, LeavesEffect
  <2>2. CASE CommitOnly(p)
    BY <1>1, <2>2, CommitOnlyEffect, LeavesEffect
  <2> QED
    BY <2>1, <2>2
<1>3. f \notin doubt /\ (op[p].file = None \/ f \notin SameId(op[p].file))
  BY <1>2
<1>4. f \in SameId(f)
  BY DEF SameId
<1>5. op[p].at \in {"add", "more", "put", "clear"} => op[p].file \in Files /\ op[p].file # f
      /\ op[p].file # None
  BY <1>1, <1>3, <1>4, Holder, OpTypes
<1>6. ~Adds(p, f) /\ ~Adds(p, f)'
  BY <1>2, <1>5 DEF Adds, At
<1>7. CASE session # p
  <2>1. Table' = Table /\ Text(f)' = Text(f)
    <3>1. CASE session' = session
      BY <1>1, <1>2, <1>7, <3>1, TableKept
    <3>2. CASE session = None /\ session' = Lost
      BY <1>2, <1>7, <3>2, TableFree, TableFreeNext
    <3> QED
      BY <1>2, <1>7, <3>1, <3>2
  <2>2. Unmoved(f)
    BY <1>2, <1>6, <2>1, UnmovedBy
  <2> QED
    BY <1>1, <1>3, <2>2, AgreesKept
<1>8. CASE session = p
  <2>1. Text(f) = source[f] /\ Table = IF op[p].at \in {"end", "clear", "add"} THEN work ELSE db
    BY <1>5, <1>8, TableHeld
  <2>2. Text(f)' = source[f] /\ Table' = db'
    BY <1>2, <1>8, TableFreeNext
  <2>3. ASSUME NEW k \in Keys, work[k] # db[k], op[p].at \in {"end", "clear", "add"}
        PROVE  ~RowIn(work, k, f) /\ ~RowIn(db, k, f)
    <3>1. CASE op[p].at = "end"
      BY <1>1, <1>3, <2>3, <3>1 DEF Working, At, RowIn
    <3>2. CASE op[p].at = "clear"
      BY <1>1, <1>3, <1>5, <2>3, <3>2 DEF Working, At, RowIn, DropRows
    <3>3. CASE op[p].at = "add"
      BY <1>1, <1>5, <2>3, <3>3 DEF Working, At, RowIn
    <3> QED
      BY <2>3, <3>1, <3>2, <3>3
  <2>4. \A k \in Keys : RowIn(Table, k, f) \/ RowIn(Table, k, f)' => Table'[k] = Table[k]
    <3>1. CASE db' = db
      BY <2>1, <2>2, <2>3, <3>1 DEF RowIn
    <3>2. CASE db' = work /\ op[p].at \in {"end", "clear", "add"}
      BY <2>1, <2>2, <3>2
    <3> QED
      BY <1>2, <3>1, <3>2
  <2>5. Unmoved(f)
    BY <1>2, <1>6, <2>1, <2>2, <2>4, UnmovedBy
  <2> QED
    BY <1>1, <1>3, <2>5, AgreesKept
<1> QED
  BY <1>7, <1>8

LEMMA AgreesRestart ==
  ASSUME IInv, NEW f \in Files \ doubt', Restart
  PROVE  Agrees(f)'
<1>1. TypeOK /\ (f \notin doubt => Agrees(f))
  BY DEF IInv
<1>2. /\ session = Lost /\ session' = None
      /\ \A q \in Procs : op'[q].at = "idle"
      /\ doubt \subseteq doubt'
      /\ \A q \in Procs : op[q].file \notin SameId(f)
      /\ UNCHANGED <<source, db, removed>>
  BY <1>1, RestartEffect
<1>3. Table' = Table /\ Text(f)' = Text(f)
  BY <1>2, TableFree, TableFreeNext
<1>4. \A q \in Procs : ~Adds(q, f) /\ ~Adds(q, f)'
  BY <1>2 DEF Adds, At, SameId
<1>5. Unmoved(f)
  BY <1>2, <1>3, <1>4 DEF Unmoved
<1> QED
  BY <1>1, <1>2, <1>5, AgreesKept

(* The same for the lines of a file.                                       *)
LEMMA WithoutText ==
  ASSUME NEW text \in Seq(Facts), NEW n \in 1..Len(text)
  PROVE  /\ Len(Without(text, n)) = Len(text) - 1
         /\ \A i \in 1..(Len(text) - 1) :
              Without(text, n)[i] = IF i < n THEN text[i] ELSE text[i + 1]
BY WithoutLine

(* The lines text had the numbers e once, and the n-th is where it was.     *)
Numbered(e, text, n) ==
  /\ Len(e) = Len(text)
  /\ \A i, j \in 1..Len(e) : i < j => e[i] < e[j]
  /\ n \in 1..Len(e) /\ e[n] = n
  /\ \A i \in 1..Len(e) : e[i] < n => e[i] = i

(* The lines t with the numbers d are those of text with the numbers e but  *)
(* for the n-th.                                                            *)
Others(e, text, n, d, t) ==
  /\ d \in Seq(Nat) /\ Len(d) = Len(t)
  /\ \A i, j \in 1..Len(d) : i < j => d[i] < d[j]
  /\ \A i \in 1..Len(d) : d[i] < n => d[i] = i
  /\ \A i \in 1..Len(d) :
       \E j \in 1..Len(e) : d[i] = e[j] /\ t[i] = text[j] /\ e[j] # n
  /\ \A j \in 1..Len(e) : e[j] # n =>
       \E i \in 1..Len(d) : d[i] = e[j] /\ t[i] = text[j]

(* A line is taken out, and the numbers that the other lines had stay with  *)
(* them.                                                                    *)
LEMMA TakenOut ==
  ASSUME NEW e \in Seq(Nat), NEW text \in Seq(Facts), NEW n \in Nat, Numbered(e, text, n)
  PROVE  Others(e, text, n, Without(e, n), Without(text, n))
<1> USE DEF Numbered
<1> DEFINE d == Without(e, n)
           t == Without(text, n)
           m == Len(e)
<1>1. m \in Nat /\ n \in Nat /\ n >= 1 /\ n <= m
  OBVIOUS
<1>2. /\ d \in Seq(Nat) /\ Len(d) = m - 1
      /\ \A i \in 1..(m - 1) : d[i] = IF i < n THEN e[i] ELSE e[i + 1]
  BY WithoutLine
<1>3. /\ Len(t) = m - 1
      /\ \A i \in 1..(m - 1) : t[i] = IF i < n THEN text[i] ELSE text[i + 1]
  <2>1. n \in 1..Len(text) /\ Len(text) = m
    OBVIOUS
  <2>2. PICK k \in 1..Len(text) : k = n
    BY <2>1
  <2>3. /\ Len(Without(text, k)) = Len(text) - 1
        /\ \A i \in 1..(Len(text) - 1) :
             Without(text, k)[i] = IF i < k THEN text[i] ELSE text[i + 1]
    BY ONLY text \in Seq(Facts), k \in 1..Len(text), WithoutText
  <2> QED
    BY <2>1, <2>2, <2>3
<1>4. \A i \in 1..m : e[i] \in Nat
  OBVIOUS
<1> HIDE DEF d, t, m
<1>5. \A i, j \in 1..m : i < j => e[i] < e[j]
  BY DEF m
<1>6. \A i \in 1..m : e[i] < n => e[i] = i
  BY DEF m
<1>7. \A i \in 1..m : (i < n => e[i] < n) /\ (i > n => e[i] > n)
  BY <1>1, <1>4, <1>5
<1>8. ASSUME NEW i \in 1..(m - 1), NEW j \in 1..(m - 1), i < j
      PROVE  d[i] < d[j]
  <2>1. CASE j < n
    <3>1. d[i] = e[i] /\ d[j] = e[j] /\ i \in 1..m /\ j \in 1..m
      BY <1>1, <1>2, <1>8, <2>1
    <3> QED
      BY <1>5, <1>8, <3>1
  <2>2. CASE ~(j < n) /\ i < n
    <3>1. d[i] = e[i] /\ d[j] = e[j + 1] /\ i \in 1..m /\ j + 1 \in 1..m /\ i < j + 1
      BY <1>1, <1>2, <1>8, <2>2
    <3> QED
      BY <1>5, <3>1
  <2>3. CASE ~(i < n)
    <3>1. d[i] = e[i + 1] /\ d[j] = e[j + 1] /\ i + 1 \in 1..m /\ j + 1 \in 1..m
          /\ i + 1 < j + 1
      BY <1>1, <1>2, <1>8, <2>3
    <3> QED
      BY <1>5, <3>1
  <2> QED
    BY <2>1, <2>2, <2>3
<1>9. ASSUME NEW i \in 1..(m - 1), d[i] < n
      PROVE  d[i] = i
  <2>2. CASE i < n
    <3>1. d[i] = e[i] /\ e[i] < n /\ i \in 1..m
      BY <1>1, <1>2, <1>7, <2>2
    <3> QED
      BY <1>6, <3>1
  <2>3. CASE ~(i < n)
    <3>1. i + 1 \in 1..m /\ i + 1 > n /\ d[i] = e[i + 1]
      BY <1>1, <1>2, <2>3
    <3>2. e[i + 1] > n /\ e[i + 1] \in Nat
      BY <1>4, <1>7, <3>1
    <3> QED
      BY <1>1, <1>9, <3>1, <3>2
  <2> QED
    BY <2>2, <2>3
<1>10. ASSUME NEW i \in 1..(m - 1)
       PROVE  \E j \in 1..m : d[i] = e[j] /\ t[i] = text[j] /\ e[j] # n
  <2>1. CASE i < n
    <3>1. i \in 1..m /\ d[i] = e[i] /\ t[i] = text[i] /\ e[i] < n
      BY <1>1, <1>2, <1>3, <1>7, <2>1
    <3>2. e[i] # n
      BY <1>1, <1>4, <3>1
    <3> QED
      BY <3>1, <3>2
  <2>2. CASE ~(i < n)
    <3>1. i + 1 \in 1..m /\ d[i] = e[i + 1] /\ t[i] = text[i + 1] /\ i + 1 > n
      BY <1>1, <1>2, <1>3, <2>2
    <3>2. e[i + 1] # n
      BY <1>1, <1>4, <1>7, <3>1
    <3> QED
      BY <3>1, <3>2
  <2> QED
    BY <2>1, <2>2
<1>11. ASSUME NEW j \in 1..m, e[j] # n
       PROVE  \E i \in 1..(m - 1) : d[i] = e[j] /\ t[i] = text[j]
  <2>1. j # n
    BY <1>11
  <2>2. CASE j < n
    <3>1. j \in 1..(m - 1)
      BY <1>1, <2>2
    <3>2. d[j] = e[j] /\ t[j] = text[j]
      BY <1>2, <1>3, <2>2, <3>1
    <3> QED
      BY <3>1, <3>2
  <2>3. CASE j > n
    <3>1. j - 1 \in 1..(m - 1) /\ ~(j - 1 < n) /\ (j - 1) + 1 = j
      BY <1>1, <2>3
    <3>2. PICK i \in 1..(m - 1) : ~(i < n) /\ i + 1 = j
      BY <3>1
    <3>3. d[i] = e[j] /\ t[i] = text[j]
      BY <1>2, <1>3, <3>2
    <3> QED
      BY <3>3
  <2> QED
    BY <1>1, <2>1, <2>2, <2>3
<1> QED
  BY <1>2, <1>3, <1>8, <1>9, <1>10, <1>11 DEF d, t, m, Others

LEMMA AgreesPut ==
  ASSUME IInv, NEW p \in Procs, NEW f \in Files \ doubt', PutSource(p)
  PROVE  Agrees(f)'
<1> DEFINE file == op[p].file
           row == op[p].row
           lines == op[p].lines
           n == op[p].row.line
<1>1. TypeOK /\ (f \notin doubt => Agrees(f)) /\ Working(p) /\ None \notin Row
  BY FactSourceAssumption DEF IInv
<1>2. /\ op[p].at = "put" /\ session = p /\ session' = p /\ file \in Files /\ row \in Row
      /\ lines \in Seq(Facts) /\ op[p].next \in {"idle", "read"}
      /\ \A q \in Procs \ {p} : op'[q] = op[q]
      /\ op'[p].at = "end"
      /\ source'[file] = Without(lines, n)
      /\ \A g \in Files \ {file} : source'[g] = source[g] /\ removed'[g] = removed[g]
      /\ removed'[file] =
           IF n \in 1..Len(lines) /\ (removed[file] = 0 \/ n < removed[file])
             THEN n ELSE removed[file]
      /\ doubt' = IF Leads(row, file) /\ op[p].next = "idle" THEN doubt
                  ELSE doubt \union {file, row.file}
      /\ UNCHANGED <<db, work>>
  BY <1>1, PutSourceEffect
<1> HIDE DEF file, row, lines, n
<1>3. Table = db /\ Text(f) = IF file = f THEN lines ELSE source[f]
  BY <1>2, TableHeld DEF file, lines
<1>4. Table' = work /\ Text(f)' = source'[f]
  BY <1>2, TableHeldNext
<1>5. ~Adds(p, f) /\ ~Adds(p, f)'
  BY <1>2 DEF Adds, At
<1>6. f \notin doubt
  BY <1>2
<1>7. /\ op[p].next = "read" => work = db
      /\ op[p].next = "idle" =>
           \E c \in Keys : db[c] = row /\ work = [db EXCEPT ![c] = None]
  BY <1>1, <1>2 DEF Working, At, Deletes, row
<1>8. CASE f # file
  <2>1. op[p].next = "idle" => row.file # f
    BY <1>2, <1>8 DEF Leads
  <2>2. \A k \in Keys : work[k] # db[k] => ~RowIn(db, k, f) /\ ~RowIn(work, k, f)
    <3> SUFFICES ASSUME NEW k \in Keys, work[k] # db[k]
                 PROVE  ~RowIn(db, k, f) /\ ~RowIn(work, k, f)
      OBVIOUS
    <3>1. op[p].next = "idle"
      BY <1>2, <1>7
    <3>2. PICK c \in Keys : db[c] = row /\ work = [db EXCEPT ![c] = None]
      BY <1>7, <3>1
    <3>3. k = c /\ work[k] = None
      BY <1>1, <3>2 DEF TypeOK
    <3> QED
      BY <2>1, <3>1, <3>2, <3>3 DEF RowIn
  <2>3. \A k \in Keys : RowIn(Table, k, f) \/ RowIn(Table, k, f)' => Table'[k] = Table[k]
    BY <1>3, <1>4, <2>2 DEF RowIn
  <2>4. Text(f)' = Text(f) /\ removed'[f] = removed[f]
    BY <1>2, <1>3, <1>4, <1>8
  <2>5. Unmoved(f)
    BY <1>2, <1>5, <2>3, <2>4, UnmovedBy
  <2> QED
    BY <1>1, <1>6, <2>5, AgreesKept
<1>9. CASE f = file
  <2>1. Leads(row, f) /\ op[p].next = "idle"
    BY <1>2, <1>9
  <2>2. row.file = f /\ (removed[f] = 0 \/ n < removed[f])
    BY <2>1 DEF Leads, n, row
  <2>3. n \in Nat /\ n # 0 /\ row.fact \in Facts /\ row # None /\ row.line = n
    BY <1>1, <1>2 DEF Row, n, row
  <2>4. PICK c \in Keys : db[c] = row /\ work = [db EXCEPT ![c] = None]
    BY <1>7, <2>1
  <2>5. \A k \in Keys : work[k] = IF k = c THEN None ELSE db[k]
    BY <1>1, <2>4 DEF TypeOK
  <2>6. RowIn(Table, c, f) /\ Table[c].line = n /\ Table[c].fact = row.fact
    BY <1>3, <2>2, <2>3, <2>4 DEF RowIn
  <2>7. Apart(f) /\ Text(f) = lines /\ Text(f)' = Without(lines, n)
    BY <1>1, <1>2, <1>3, <1>4, <1>6, <1>9 DEF Agrees
  <2>8. PICK e \in Seq(Nat) : Fits(e, f)
    BY <1>1, <1>6 DEF Agrees, Listed
  <2>9. /\ Len(e) = Len(lines)
        /\ \A i, j \in 1..Len(e) : i < j => e[i] < e[j]
        /\ \A i \in 1..Len(e) : Owed(f, e[i], lines[i])
        /\ \A v \in Nat, x \in Facts :
             Owed(f, v, x) => \E i \in 1..Len(e) : e[i] = v /\ lines[i] = x
        /\ \A i \in 1..Len(e) : removed[f] = 0 \/ e[i] < removed[f] => e[i] = i
    BY <2>7, <2>8 DEF Fits
  <2>10. n \in 1..Len(e) /\ e[n] = n
    <3>1. Owed(f, n, row.fact)
      BY <2>6 DEF Owed
    <3>2. PICK i \in 1..Len(e) : e[i] = n
      BY <2>3, <2>9, <3>1
    <3>3. e[i] = i
      BY <2>2, <2>9, <3>2
    <3> QED
      BY <3>2, <3>3
  <2>11. removed'[f] = n /\ removed[f] \in Nat
    BY <1>1, <1>2, <1>9, <2>2, <2>9, <2>10 DEF TypeOK
  <2>12. ASSUME NEW v \in Nat, NEW x
         PROVE  Owed(f, v, x)' <=> Owed(f, v, x) /\ v # n
    <3>1. \A q \in Procs : Pending(q, f, v)' /\ op'[q].lines[v] = x
                             <=> Pending(q, f, v) /\ op[q].lines[v] = x
      <4> SUFFICES ASSUME NEW q \in Procs
                   PROVE  Pending(q, f, v)' /\ op'[q].lines[v] = x
                            <=> Pending(q, f, v) /\ op[q].lines[v] = x
        OBVIOUS
      <4>1. CASE q = p
        BY <1>5, <4>1 DEF Pending
      <4>2. CASE q # p
        <5>1. op'[q] = op[q]
          BY <1>2, <4>2
        <5> QED
          BY <5>1 DEF Pending, Adds, At
      <4> QED
        BY <4>1, <4>2
    <3>2. \A q \in Procs : Pending(q, f, v) => v # n
      <4> SUFFICES ASSUME NEW q \in Procs, Pending(q, f, v)
                   PROVE  v # n
        OBVIOUS
      <4>1. Adds(q, f) /\ op[q].n <= v
        BY DEF Pending
      <4>2. op[q].n \in Nat
        BY <1>1, <4>1, Holder, OpTypes DEF Adds, At
      <4>3. n < op[q].n
        BY <2>6, <2>7, <4>1 DEF Apart
      <4> QED
        BY <2>3, <4>1, <4>2, <4>3
    <3>3. ASSUME NEW k \in Keys
          PROVE  RowIn(Table, k, f)' /\ Table'[k].line = v /\ Table'[k].fact = x
                   <=> RowIn(Table, k, f) /\ Table[k].line = v /\ Table[k].fact = x /\ v # n
      <4>1. CASE k = c
        BY <1>4, <2>5, <2>6, <4>1 DEF RowIn
      <4>2. CASE k # c
        <5>1. Table'[k] = Table[k]
          BY <1>3, <1>4, <2>5, <4>2
        <5>2. RowIn(Table, k, f) => Table[k].line # n
          BY <2>6, <2>7, <4>2 DEF Apart
        <5> QED
          BY <5>1, <5>2 DEF RowIn
      <4> QED
        BY <4>1, <4>2
    <3> QED
      BY <3>1, <3>2, <3>3 DEF Owed
  <2>19. PICK m \in Nat : m = n
    BY <2>3
  <2>20. PICK text \in Seq(Facts) : text = lines
    BY <1>2
  <2>22. PICK d, t : d = Without(e, m) /\ t = Without(text, m)
    OBVIOUS
  <2>13. /\ d \in Seq(Nat) /\ Len(d) = Len(t)
         /\ \A i, j \in 1..Len(d) : i < j => d[i] < d[j]
         /\ \A i \in 1..Len(d) : d[i] < m => d[i] = i
         /\ \A i \in 1..Len(d) :
              \E j \in 1..Len(e) : d[i] = e[j] /\ t[i] = text[j] /\ e[j] # m
         /\ \A j \in 1..Len(e) : e[j] # m =>
              \E i \in 1..Len(d) : d[i] = e[j] /\ t[i] = text[j]
    <3>1. /\ Len(e) = Len(text) /\ \A i, j \in 1..Len(e) : i < j => e[i] < e[j]
          /\ m \in 1..Len(e) /\ e[m] = m
      BY <2>9, <2>10, <2>19, <2>20
    <3>2. ASSUME NEW i \in 1..Len(e), e[i] < m
          PROVE  e[i] = i
      <4>1. e[i] \in Nat
        BY <2>8
      <4>2. removed[f] = 0 \/ e[i] < removed[f]
        BY <2>2, <2>11, <2>19, <3>2, <4>1
      <4> QED
        BY <2>9, <4>2
    <3>3. e \in Seq(Nat) /\ text \in Seq(Facts) /\ m \in Nat
      BY <2>8, <2>19, <2>20
    <3>4. Numbered(e, text, m)
      BY <3>1, <3>2 DEF Numbered
    <3>5. Others(e, text, m, Without(e, m), Without(text, m))
      BY <3>3, <3>4, TakenOut
    <3>6. Others(e, text, m, d, t)
      BY <2>22, <3>5
    <3> QED
      BY <3>6 DEF Others
  <2>14. Text(f)' = t
    BY <2>7, <2>19, <2>20, <2>22
  <2>15. \A i \in 1..Len(d) : Owed(f, d[i], Text(f)[i])'
    <3> SUFFICES ASSUME NEW i \in 1..Len(d)
                 PROVE  Owed(f, d[i], Text(f)[i])'
      OBVIOUS
    <3>1. PICK j \in 1..Len(e) : d[i] = e[j] /\ t[i] = lines[j] /\ e[j] # n
      BY <2>13, <2>19, <2>20
    <3>2. d[i] \in Nat
      <4>1. d \in Seq(Nat)
        BY <2>13
      <4>2. i \in 1..Len(d)
        OBVIOUS
      <4> QED
        BY ONLY <4>1, <4>2
    <3>3. PICK v, x : v \in Nat /\ v = d[i] /\ x = t[i]
      BY <3>2
    <3>4. Owed(f, v, x) /\ v # n
      BY <2>9, <3>1, <3>3
    <3>5. Owed(f, v, x)'
      BY <3>3, <2>12, <3>4
    <3>6. x = (Text(f)')[i]
      BY <2>14, <3>3
    <3> QED
      BY <3>3, <3>5, <3>6 DEF Owed
  <2>16. ASSUME NEW v \in Nat, NEW x \in Facts, Owed(f, v, x)'
         PROVE  \E i \in 1..Len(d) : d[i] = v /\ Text(f)'[i] = x
    <3>1. Owed(f, v, x) /\ v # n
      BY <2>12, <2>16
    <3>2. PICK j \in 1..Len(e) : e[j] = v /\ lines[j] = x
      BY <2>9, <3>1
    <3> QED
      BY <2>13, <2>14, <2>19, <2>20, <3>1, <3>2
  <2>17. Fits(d, f)'
    <3>1. Len(d) = Len(Text(f)')
      BY <2>13, <2>14
    <3>2. \A i \in 1..Len(d) : removed'[f] = 0 \/ d[i] < removed'[f] => d[i] = i
      BY <2>3, <2>11, <2>13, <2>19
    <3> QED
      BY <2>13, <2>15, <2>16, <3>1, <3>2 DEF Fits
  <2>18. Apart(f)'
    <3>1. \A k \in Keys : RowIn(Table, k, f)' => RowIn(Table, k, f) /\ Table'[k] = Table[k]
      BY <1>3, <1>4, <2>5 DEF RowIn
    <3>2. \A j, k \in Keys :
            RowIn(Table, j, f)' /\ RowIn(Table, k, f)' /\ Table'[j].line = Table'[k].line
              => j = k
      BY <2>7, <3>1 DEF Apart
    <3>3. ASSUME NEW q \in Procs, Adds(q, f)', NEW k \in Keys, RowIn(Table, k, f)'
          PROVE  Table'[k].line < op'[q].n
      <4>1. q # p
        BY <1>5, <3>3
      <4>2. op'[q] = op[q]
        BY <1>2, <4>1
      <4>3. Adds(q, f)
        BY <3>3, <4>2 DEF Adds, At
      <4> QED
        BY <2>7, <3>1, <3>3, <4>2, <4>3 DEF Apart
    <3> QED
      BY <3>2, <3>3 DEF Apart
  <2> QED
    BY <2>13, <2>17, <2>18 DEF Agrees, Listed
<1> QED
  BY <1>8, <1>9

(* The rows of f have lines of their own, before the n-th.                  *)
RowsBefore(f, n) ==
  /\ \A k \in Keys : RowIn(db, k, f) => db[k].line < n
  /\ \A j, k \in Keys :
       RowIn(db, j, f) /\ RowIn(db, k, f) /\ db[j].line = db[k].line => j = k

(* The fact x of line v is stored, or it is among the lines from the n-th.  *)
RowOrLine(f, lines, n, v, x) ==
  \/ \E k \in Keys : RowIn(db, k, f) /\ db[k].line = v /\ db[k].fact = x
  \/ n <= v /\ v <= Len(lines) /\ lines[v] = x

(* Nobody but p adds lines of f, and nobody else makes this step.           *)
OnlyAdds(p, f) == \A q \in Procs \ {p} : op'[q] = op[q] /\ ~Adds(q, f)

(* The lines n, n + 1, ... of f are to be stored beside the rows there are, *)
(* by p and nobody else.  Then a session with some of them begins.          *)
LEMMA LinesOwed ==
  ASSUME TypeOK, NEW p \in Procs, NEW f \in Files, op[p].file = f,
         NEW lines \in Seq(Facts), NEW n \in Nat \ {0}, AddLines(p, lines, n),
         session = None, session' = p, OnlyAdds(p, f), RowsBefore(f, n)
  PROVE  /\ Apart(f)'
         /\ \A v \in Nat : \A x : Owed(f, v, x)' <=> RowOrLine(f, lines, n, v, x)
<1> USE DEF RowsBefore
<1>1. PICK next : next = NextBatch(n)
  OBVIOUS
<1>2. /\ next \in Nat \ {0} /\ n < next
      /\ op' = [op EXCEPT ![p] =
                  [at |-> "add", file |-> f, lines |-> lines, n |-> next]]
      /\ \A k \in Keys : work'[k] # db[k] =>
           /\ db[k] = None /\ work'[k] \in Row /\ work'[k].file = f
           /\ n <= work'[k].line /\ work'[k].line < next
           /\ work'[k].line <= Len(lines) /\ work'[k].fact = lines[work'[k].line]
      /\ \A j, k \in Keys :
           work'[j] # db[j] /\ work'[k] # db[k] /\ work'[j].line = work'[k].line
             => j = k
      /\ \A v \in Nat : n <= v /\ v < next /\ v <= Len(lines) =>
           \E k \in Keys : /\ db[k] = None
                           /\ work'[k] = [fact |-> lines[v], file |-> f, line |-> v]
  BY <1>1, LinesAdded
<1>3. op'[p] = [at |-> "add", file |-> f, lines |-> lines, n |-> next]
  BY <1>2 DEF TypeOK
<1>4. Table' = work'
  BY <1>3, TableHeldNext
<1>5. \A q \in Procs : Adds(q, f)' => q = p
  <2> SUFFICES ASSUME NEW q \in Procs, Adds(q, f)', q # p
               PROVE  FALSE
    OBVIOUS
  <2>1. op'[q] = op[q] /\ ~Adds(q, f)
    BY DEF OnlyAdds
  <2> QED
    BY <2>1 DEF Adds, At
<1>6. Adds(p, f)' /\ op'[p].n = next /\ op'[p].lines = lines
  BY <1>3 DEF Adds, At
<1>7. None \notin Row /\ Len(lines) \in Nat
  BY FactSourceAssumption
<1>8. \A k \in Keys : db[k] # None => db[k] \in Row /\ db[k].line \in Nat
  BY DEF TypeOK, Row
<1>9. \A k \in Keys : work'[k] # db[k] => work'[k].line \in Nat /\ work'[k] # None
  BY <1>2, <1>7 DEF Row
<1>10. ASSUME NEW k \in Keys, RowIn(work', k, f)
       PROVE  \/ work'[k] # db[k]
              \/ work'[k] = db[k] /\ RowIn(db, k, f)
  BY <1>10 DEF RowIn
<1>11. Apart(f)'
  <2>1. ASSUME NEW j \in Keys, NEW k \in Keys, RowIn(work', j, f), RowIn(work', k, f),
               work'[j].line = work'[k].line
        PROVE  j = k
    <3>1. CASE work'[j] # db[j] /\ work'[k] # db[k]
      BY <1>2, <2>1, <3>1
    <3>2. CASE work'[j] = db[j] /\ work'[k] = db[k]
      <4>1. RowIn(db, j, f) /\ RowIn(db, k, f)
        BY <1>10, <2>1, <3>2
      <4> QED
        BY <2>1, <3>2, <4>1
    <3>3. CASE work'[j] = db[j] /\ work'[k] # db[k]
      <4>1. RowIn(db, j, f) /\ db[j].line \in Nat
        BY <1>8, <1>10, <2>1, <3>3 DEF RowIn
      <4>2. db[j].line < n /\ n <= work'[k].line /\ work'[k].line \in Nat
        BY <1>2, <1>9, <3>3, <4>1
      <4> QED
        BY <2>1, <3>3, <4>1, <4>2
    <3>4. CASE work'[j] # db[j] /\ work'[k] = db[k]
      <4>1. RowIn(db, k, f) /\ db[k].line \in Nat
        BY <1>8, <1>10, <2>1, <3>4 DEF RowIn
      <4>2. db[k].line < n /\ n <= work'[j].line /\ work'[j].line \in Nat
        BY <1>2, <1>9, <3>4, <4>1
      <4> QED
        BY <2>1, <3>4, <4>1, <4>2
    <3> QED
      BY <3>1, <3>2, <3>3, <3>4
  <2>2. ASSUME NEW k \in Keys, RowIn(work', k, f)
        PROVE  work'[k].line < next
    <3>1. CASE work'[k] # db[k]
      BY <1>2, <3>1
    <3>2. CASE work'[k] = db[k]
      <4>1. RowIn(db, k, f) /\ db[k].line \in Nat
        BY <1>8, <1>10, <2>2, <3>2 DEF RowIn
      <4> QED
        BY <1>2, <3>2, <4>1
    <3> QED
      BY <3>1, <3>2
  <2>3. \A k \in Keys : RowIn(Table, k, f)' <=> RowIn(work', k, f)
    BY <1>4 DEF RowIn
  <2> QED
    BY <1>4, <1>5, <1>6, <2>1, <2>2, <2>3 DEF Apart
<1>12. ASSUME NEW v \in Nat, NEW x
       PROVE  Owed(f, v, x)' <=> RowOrLine(f, lines, n, v, x)
  <2>1. ASSUME NEW k \in Keys, RowIn(work', k, f), work'[k].line = v, work'[k].fact = x
        PROVE  \/ RowIn(db, k, f) /\ db[k].line = v /\ db[k].fact = x
               \/ n <= v /\ v <= Len(lines) /\ lines[v] = x
    BY <1>2, <1>10, <2>1
  <2>2. ASSUME NEW k \in Keys, RowIn(db, k, f), db[k].line = v, db[k].fact = x
        PROVE  RowIn(work', k, f) /\ work'[k].line = v /\ work'[k].fact = x
    <3>1. work'[k] = db[k]
      BY <1>2, <2>2 DEF RowIn
    <3> QED
      BY <2>2, <3>1 DEF RowIn
  <2>3. ASSUME n <= v, v <= Len(lines), lines[v] = x, v < next
        PROVE  \E k \in Keys : RowIn(work', k, f) /\ work'[k].line = v /\ work'[k].fact = x
    <3>1. PICK k \in Keys : /\ db[k] = None
                            /\ work'[k] = [fact |-> lines[v], file |-> f, line |-> v]
      BY <1>2, <2>3
    <3>2. work'[k].file = f /\ work'[k].line = v /\ work'[k].fact = x
      BY <2>3, <3>1
    <3>3. lines[v] \in Facts /\ v \in Nat \ {0}
      BY <1>7, <2>3
    <3>4. work'[k] # None
      BY <1>7, <3>1, <3>3 DEF Row
    <3> QED
      BY <3>2, <3>4 DEF RowIn
  <2>4. \A q \in Procs : Pending(q, f, v)' /\ op'[q].lines[v] = x
                           <=> q = p /\ next <= v /\ v <= Len(lines) /\ lines[v] = x
    BY <1>5, <1>6 DEF Pending
  <2>5. \A k \in Keys : /\ RowIn(Table, k, f)' <=> RowIn(work', k, f)
                        /\ Table'[k] = work'[k]
    BY <1>4 DEF RowIn
  <2>6. Owed(f, v, x)' <=>
          \/ \E k \in Keys : RowIn(work', k, f) /\ work'[k].line = v /\ work'[k].fact = x
          \/ next <= v /\ v <= Len(lines) /\ lines[v] = x
    BY <2>4, <2>5 DEF Owed
  <2>7. next <= v => n <= v
    BY <1>2
  <2>8. v < next \/ next <= v
    BY <1>2
  <2> QED
    BY <2>1, <2>2, <2>3, <2>6, <2>7, <2>8 DEF RowOrLine
<1> QED
  BY <1>11, <1>12

(* The files that lines are not stored of.                                  *)
LEMMA AgreesLinesElse ==
  ASSUME IInv, NEW p \in Procs, NEW f \in Files \ doubt', BeginAdd(p) \/ BeginBatch(p),
         f # op[p].file
  PROVE  Agrees(f)'
<1>1. TypeOK /\ (f \notin doubt => Agrees(f))
  BY DEF IInv
<1>2. /\ BeginAdd(p) => op[p].at = "cleared"
      /\ BeginBatch(p) => op[p].at = "more"
      /\ session = None /\ session' = p /\ op[p].file \in Files
      /\ \E lines \in Seq(Facts), n \in Nat \ {0} : AddLines(p, lines, n)
      /\ \A q \in Procs \ {p} : op'[q] = op[q]
      /\ op'[p].at = "add" /\ op'[p].file = op[p].file
      /\ \A g \in Files \ {op[p].file} : removed'[g] = removed[g]
      /\ BeginAdd(p) => doubt' = IF p \in alone THEN doubt \ {op[p].file} ELSE doubt
      /\ BeginBatch(p) => UNCHANGED doubt
      /\ UNCHANGED <<source, db>>
  BY <1>1, BeginLinesEffect
<1>3. f \notin doubt
  BY <1>2
<1>4. PICK lines \in Seq(Facts), n \in Nat \ {0} : AddLines(p, lines, n)
  BY <1>2
<1>5. \A k \in Keys : work'[k] # db[k] => db[k] = None /\ work'[k].file = op[p].file
  BY <1>1, <1>2, <1>4, LinesAdded
<1>6. Table = db /\ Text(f) = source[f]
  BY <1>2, TableFree
<1>7. Table' = work' /\ Text(f)' = source[f]
  BY <1>2, TableHeldNext
<1>8. \A k \in Keys : RowIn(Table, k, f) \/ RowIn(Table, k, f)' => Table'[k] = Table[k]
  BY <1>5, <1>6, <1>7 DEF RowIn
<1>9. ~Adds(p, f) /\ ~Adds(p, f)'
  BY <1>2 DEF Adds, At
<1>10. Unmoved(f)
  BY <1>2, <1>6, <1>7, <1>8, <1>9, UnmovedBy
<1> QED
  BY <1>1, <1>3, <1>10, AgreesKept

(* Nobody else adds lines of a file when it is read without doubt.          *)
LEMMA AddsAlone ==
  ASSUME NEW p \in Procs, NEW f \in Files, Readers(p, f) = {}
  PROVE  \A q \in Procs \ {p} : ~Adds(q, f)
<1> SUFFICES ASSUME NEW q \in Procs \ {p}, Adds(q, f)
             PROVE  FALSE
  OBVIOUS
<1>1. op[q].at \in ReaderSteps /\ op[q].file \in SameId(f)
  BY DEF Adds, At, ReaderSteps, SameId
<1> QED
  BY <1>1, InReaders

LEMMA AgreesBatch ==
  ASSUME IInv, NEW p \in Procs, NEW f \in Files \ doubt', BeginBatch(p)
  PROVE  Agrees(f)'
<1>1. TypeOK /\ (f \notin doubt => Agrees(f)) /\ Reading(p)
  BY DEF IInv
<1>2. CASE f # op[p].file
  BY <1>2, AgreesLinesElse
<1>3. CASE f = op[p].file
  <2>1. /\ op[p].at = "more" /\ session = None /\ session' = p
        /\ \E lines \in Seq(Facts), n \in Nat \ {0} :
             /\ AddLines(p, lines, n)
             /\ lines = op[p].lines /\ n = op[p].n
        /\ \A q \in Procs \ {p} : op'[q] = op[q]
        /\ op'[p].at = "add"
        /\ UNCHANGED <<source, removed, doubt>>
    BY <1>1, BeginLinesEffect
  <2>2. PICK lines \in Seq(Facts), n \in Nat \ {0} :
          AddLines(p, lines, n) /\ lines = op[p].lines /\ n = op[p].n
    BY <2>1
  <2>3. f \notin doubt /\ Agrees(f)
    BY <1>1, <2>1
  <2>4. \A q \in Procs \ {p} : ~Adds(q, f)
    <3>1. Readers(p, f) = {}
      BY <1>1, <1>3, <2>1, <2>3 DEF Reading, At
    <3> QED
      BY <3>1, AddsAlone
  <2>5. Table = db /\ Text(f) = source[f]
    BY <2>1, TableFree
  <2>6. Text(f)' = source[f]
    BY <2>1, TableHeldNext
  <2>7. Adds(p, f)
    BY <1>3, <2>1 DEF Adds, At
  <2>8. RowsBefore(f, n)
    <3>1. \A k \in Keys : RowIn(db, k, f) => db[k].line < n
      BY <2>2, <2>3, <2>5, <2>7 DEF Agrees, Apart
    <3>2. \A j, k \in Keys :
            RowIn(db, j, f) /\ RowIn(db, k, f) /\ db[j].line = db[k].line => j = k
      BY <2>3, <2>5 DEF Agrees, Apart
    <3> QED
      BY <3>1, <3>2 DEF RowsBefore
  <2>10. /\ Apart(f)'
         /\ \A v \in Nat : \A x : Owed(f, v, x)' <=> RowOrLine(f, lines, n, v, x)
    <3>1. op[p].file = f /\ session = None /\ session' = p /\ AddLines(p, lines, n)
      BY <1>3, <2>1, <2>2
    <3>2. OnlyAdds(p, f)
      BY <2>1, <2>4 DEF OnlyAdds
    <3> QED
      BY <1>1, <3>1, <3>2, <2>8, LinesOwed
  <2>11. ASSUME NEW v \in Nat, NEW x
         PROVE  Owed(f, v, x)' <=> Owed(f, v, x)
    <3>1. \A q \in Procs : Pending(q, f, v) /\ op[q].lines[v] = x
                             <=> q = p /\ n <= v /\ v <= Len(lines) /\ lines[v] = x
      BY <2>2, <2>4, <2>7 DEF Pending
    <3>2. Owed(f, v, x) <=> RowOrLine(f, lines, n, v, x)
      BY <2>5, <3>1 DEF Owed, RowOrLine
    <3> QED
      BY <2>10, <3>2
  <2>12. PICK e \in Seq(Nat) : Fits(e, f)
    BY <2>3 DEF Agrees, Listed
  <2>13. \A i \in 1..Len(e) : Owed(f, e[i], Text(f)[i])'
    <3> SUFFICES ASSUME NEW i \in 1..Len(e)
                 PROVE  Owed(f, e[i], Text(f)[i])'
      OBVIOUS
    <3>1. e[i] \in Nat
      BY <2>12
    <3>2. PICK v, x : v \in Nat /\ v = e[i] /\ x = Text(f)[i]
      BY <3>1
    <3>3. Owed(f, v, x)'
      BY <2>11, <2>12, <3>2 DEF Fits
    <3>4. x = (Text(f)')[i]
      BY <2>5, <2>6, <3>2
    <3> QED
      BY <3>2, <3>3, <3>4 DEF Owed
  <2>14. \A v \in Nat, x \in Facts :
           Owed(f, v, x)' => \E i \in 1..Len(e) : e[i] = v /\ Text(f)'[i] = x
    BY <2>5, <2>6, <2>11, <2>12 DEF Fits
  <2>15. Fits(e, f)'
    BY <2>1, <2>5, <2>6, <2>12, <2>13, <2>14 DEF Fits
  <2> QED
    BY <2>10, <2>12, <2>15 DEF Agrees, Listed
<1> QED
  BY <1>2, <1>3

(* Lines that have had their numbers since they were read.                  *)
LEMMA FirstNumbers ==
  ASSUME NEW m \in Nat
  PROVE  \E e \in Seq(Nat) : Len(e) = m /\ \A i \in 1..m : e[i] = i
<1> DEFINE e == [i \in 1..m |-> i]
<1>1. e \in Seq(Nat) /\ Len(e) = m /\ \A i \in 1..m : e[i] = i
  OBVIOUS
<1> QED
  BY <1>1

LEMMA AgreesAdd ==
  ASSUME IInv, NEW p \in Procs, NEW f \in Files \ doubt', BeginAdd(p)
  PROVE  Agrees(f)'
<1>1. TypeOK /\ Reading(p)
  BY DEF IInv
<1>2. CASE f # op[p].file
  BY <1>2, AgreesLinesElse
<1>3. CASE f = op[p].file
  <2>1. /\ op[p].at = "cleared" /\ session = None /\ session' = p
        /\ \E lines \in Seq(Facts), n \in Nat \ {0} :
             /\ AddLines(p, lines, n)
             /\ lines = source[op[p].file] /\ n = 1
        /\ \A q \in Procs \ {p} : op'[q] = op[q]
        /\ op'[p].at = "add"
        /\ removed'[op[p].file] = 0
        /\ doubt' = IF p \in alone THEN doubt \ {op[p].file} ELSE doubt
        /\ UNCHANGED source
    BY <1>1, BeginLinesEffect
  <2>2. PICK lines \in Seq(Facts), n \in Nat \ {0} :
          AddLines(p, lines, n) /\ lines = source[f] /\ n = 1
    BY <1>3, <2>1
  <2>3. p \in alone
    <3>1. SameId(f) \subseteq doubt
      BY <1>1, <1>3, <2>1 DEF Reading, At
    <3>2. f \in SameId(f)
      BY DEF SameId
    <3> QED
      BY <2>1, <3>1, <3>2
  <2>4. /\ Readers(p, f) = {}
        /\ \A k \in Keys : db[k] # None => db[k].file \notin SameId(f)
    BY <1>1, <1>3, <2>1, <2>3 DEF Reading, At
  <2>5. OnlyAdds(p, f)
    BY <2>1, <2>4, AddsAlone DEF OnlyAdds
  <2>6. \A k \in Keys : ~RowIn(db, k, f)
    BY <2>4 DEF RowIn, SameId
  <2>7. RowsBefore(f, n)
    BY <2>6 DEF RowsBefore
  <2>8. /\ Apart(f)'
        /\ \A v \in Nat : \A x : Owed(f, v, x)' <=> RowOrLine(f, lines, n, v, x)
    BY <1>1, <1>3, <2>1, <2>2, <2>5, <2>7, LinesOwed
  <2>9. Text(f)' = lines
    BY <2>1, <2>2, TableHeldNext
  <2>10. PICK e \in Seq(Nat) : Len(e) = Len(lines) /\ \A i \in 1..Len(lines) : e[i] = i
    <3>1. Len(lines) \in Nat
      OBVIOUS
    <3> QED
      BY <3>1, FirstNumbers
  <2>11. \A i \in 1..Len(e) : Owed(f, e[i], Text(f)[i])'
    <3> SUFFICES ASSUME NEW i \in 1..Len(e)
                 PROVE  Owed(f, e[i], Text(f)[i])'
      OBVIOUS
    <3>1. PICK v, x : v \in Nat /\ v = i /\ x = lines[i]
      OBVIOUS
    <3>2. RowOrLine(f, lines, n, v, x)
      BY <2>2, <2>10, <3>1 DEF RowOrLine
    <3>3. Owed(f, v, x)'
      BY <3>1, <2>8, <3>2
    <3>4. v = e[i] /\ x = (Text(f)')[i]
      BY <2>9, <2>10, <3>1
    <3> QED
      BY <3>3, <3>4 DEF Owed
  <2>12. ASSUME NEW v \in Nat, NEW x \in Facts, Owed(f, v, x)'
         PROVE  \E i \in 1..Len(e) : e[i] = v /\ Text(f)'[i] = x
    <3>1. RowOrLine(f, lines, n, v, x)
      BY <2>8, <2>12
    <3>2. v \in 1..Len(lines) /\ lines[v] = x
      BY <2>2, <2>6, <3>1 DEF RowOrLine
    <3> QED
      BY <2>9, <2>10, <3>2
  <2>13. Fits(e, f)'
    <3>1. \A i, j \in 1..Len(e) : i < j => e[i] < e[j]
      BY <2>10
    <3>2. Len(e) = Len(Text(f)') /\ \A i \in 1..Len(e) : e[i] = i
      BY <2>9, <2>10
    <3> QED
      BY <2>11, <2>12, <3>1, <3>2 DEF Fits
  <2> QED
    BY <2>8, <2>10, <2>13 DEF Agrees, Listed
<1> QED
  BY <1>2, <1>3

LEMMA AgreesStep ==
  ASSUME IInv, [Next]_vars
  PROVE  \A f \in Files \ doubt' : Agrees(f)'
<1> SUFFICES ASSUME NEW f \in Files \ doubt'
             PROVE  Agrees(f)'
  OBVIOUS
<1>1. CASE UNCHANGED vars
  <2>1. TypeOK /\ f \notin doubt /\ Agrees(f)
    BY <1>1 DEF IInv, vars, history
  <2>2. Unmoved(f)
    BY <1>1 DEF vars, history, Unmoved, RowIn, Table, Text, Adds, At
  <2> QED
    BY <2>1, <2>2, AgreesKept
<1>2. ASSUME NEW p \in Procs, NEW k \in Keys, BeginDelete(p, k) \/ BeginReplace(p, k)
      PROVE  Agrees(f)'
  BY <1>2, AgreesEdit
<1>3. ASSUME NEW p \in Procs, NEW g \in Files,
             ReadFile(p, g) \/ Learn(p, g) \/ BeginConvert(p, g)
      PROVE  Agrees(f)'
  BY <1>3, AgreesWriting
<1>4. ASSUME NEW p \in Procs, Convert(p)
      PROVE  Agrees(f)'
  <2>1. op[p].file \in Files
    BY <1>4, Holder, OpTypes DEF Convert, At, IInv
  <2> QED
    BY <1>4, <2>1, AgreesWriting
<1>5. ASSUME NEW p \in Procs, TakeSource(p) \/ EndEdit(p)
      PROVE  Agrees(f)'
  BY <1>5, AgreesEdit
<1>6. ASSUME NEW p \in Procs, BeginClear(p) \/ EndClear(p)
      PROVE  Agrees(f)'
  BY <1>6, AgreesClear
<1>7. ASSUME NEW p \in Procs,
             \/ PutSource(p) \/ BeginAdd(p) \/ EndBatch(p) \/ BeginBatch(p)
             \/ Crash(p) \/ CommitOnly(p)
      PROVE  Agrees(f)'
  BY <1>7, AgreesPut, AgreesAdd, AgreesEndBatch, AgreesBatch, AgreesCrash
<1>8. CASE Restart
  BY <1>8, AgreesRestart
<1> QED
  BY <1>1, <1>2, <1>3, <1>4, <1>5, <1>6, <1>7, <1>8 DEF Next, Step

-----------------------------------------------------------------------------
(* The inductive invariant holds.                                           *)
LEMMA InitInv == Init => IInv
<1> SUFFICES ASSUME Init
             PROVE  IInv
  OBVIOUS
<1>1. PICK before, lines :
        /\ before \in Files \union {None}
        /\ lines = IF before = None THEN <<>> ELSE Source[before]
        /\ Len(lines) <= MaxKey
        /\ source = Source
        /\ db = [k \in Keys |->
             IF k \in DOMAIN lines THEN [fact |-> lines[k], file |-> before, line |-> k]
             ELSE None]
        /\ work = db
        /\ name = [i \in Id |->
             IF before # None /\ FileId[before] = i THEN before ELSE None]
        /\ session = None
        /\ op = [p \in Procs |-> Idle]
        /\ ops = 0 /\ crashes = 0
        /\ removed = [f \in Files |-> 0]
        /\ doubt = Files \ {before} /\ alone = {} /\ gone = {}
  BY DEF Init
<1>2. /\ Source \in [Files -> Seq(Facts)] /\ MaxKey \in Nat /\ MaxOps \in Nat
      /\ MaxCrash \in Nat /\ None \notin Procs /\ None \notin Row /\ None \notin Files
  BY FactSourceAssumption
<1>3. lines \in Seq(Facts) /\ Len(lines) \in Nat /\ DOMAIN lines = 1..Len(lines)
  <2>1. lines \in Seq(Facts)
    <3>1. CASE before = None
      BY <1>1, <3>1
    <3>2. CASE before # None
      BY <1>1, <1>2, <3>2
    <3> QED
      BY <3>1, <3>2
  <2> QED
    BY <2>1
<1>4. ASSUME NEW k \in DOMAIN lines
      PROVE  /\ k \in Nat \ {0} /\ before \in Files /\ lines[k] \in Facts
             /\ [fact |-> lines[k], file |-> before, line |-> k] \in Row
  <2>1. before # None
    BY <1>1
  <2>2. k \in Nat \ {0} /\ lines[k] \in Facts /\ before \in Files
    BY <1>1, <1>3, <2>1
  <2> QED
    BY <2>2 DEF Row
<1>5. ASSUME NEW k \in Keys
      PROVE  /\ k \in DOMAIN lines =>
                  /\ db[k] = [fact |-> lines[k], file |-> before, line |-> k]
                  /\ db[k] \in Row /\ db[k] # None
                  /\ db[k].fact = lines[k] /\ db[k].file = before /\ db[k].line = k
             /\ k \notin DOMAIN lines => db[k] = None
  <2>1. /\ k \in DOMAIN lines => db[k] = [fact |-> lines[k], file |-> before, line |-> k]
        /\ k \notin DOMAIN lines => db[k] = None
    BY <1>1
  <2>2. ASSUME k \in DOMAIN lines
        PROVE  /\ db[k].fact = lines[k] /\ db[k].file = before /\ db[k].line = k
               /\ db[k] \in Row /\ db[k] # None
    <3>1. PICK r : r = [fact |-> lines[k], file |-> before, line |-> k]
      OBVIOUS
    <3>2. r.fact = lines[k] /\ r.file = before /\ r.line = k
      BY <3>1
    <3>3. r \in Row /\ r # None /\ db[k] = r
      BY <1>2, <1>4, <2>1, <2>2, <3>1
    <3> QED
      BY <3>2, <3>3
  <2> QED
    BY <2>1, <2>2
<1>6. db \in [Keys -> Row \union {None}]
  <2> DEFINE R(k) ==
        IF k \in DOMAIN lines THEN [fact |-> lines[k], file |-> before, line |-> k]
        ELSE None
  <2>1. \A k \in Keys : R(k) \in Row \union {None}
    BY <1>4
  <2>2. db = [k \in Keys |-> R(k)]
    BY <1>1
  <2> HIDE DEF R
  <2> QED
    BY <2>1, <2>2
<1>7. \A p \in Procs : op[p] = Idle /\ op[p].at = "idle"
  BY <1>1 DEF Idle
<1>8. TypeOK
  <2>1. op \in [Procs -> Op]
    BY <1>1 DEF Op
  <2>2. \A p \in Procs : At(p, {"take", "put", "end", "clear", "add"}) <=> session = p
    BY <1>1, <1>2, <1>7 DEF At
  <2>3. name \in [Id -> Files \union {None}]
    BY <1>1
  <2>4. ops \in 0..MaxOps /\ crashes \in 0..MaxCrash /\ removed \in [Files -> Nat]
    BY <1>1, <1>2
  <2> QED
    BY <1>1, <1>2, <1>6, <2>1, <2>2, <2>3, <2>4 DEF TypeOK
<1>9. Named
  <2>1. ASSUME NEW k \in Keys, db[k] # None
        PROVE  name[FileId[db[k].file]] # None
    <3>1. k \in DOMAIN lines
      BY <1>5, <2>1
    <3>2. db[k].file = before /\ before \in Files /\ before # None
      BY <1>2, <1>4, <1>5, <3>1
    <3>3. FileId[before] \in Id
      BY <3>2 DEF Id
    <3> QED
      BY <1>1, <3>2, <3>3
  <2>2. \A i \in Id : name[i] # None => FileId[name[i]] = i
    BY <1>1
  <2> QED
    BY <1>7, <2>1, <2>2 DEF Named, At
<1>10. \A p \in Procs : Working(p) /\ Reading(p)
  BY <1>1, <1>7 DEF Working, Reading, At
<1>11. ASSUME NEW f \in Files \ doubt
       PROVE  Agrees(f)
  <2>1. f = before /\ lines = source[f] /\ removed[f] = 0
    BY <1>1, <1>2
  <2>2. Table = db /\ Text(f) = lines
    BY <1>1, <2>1, TableFree
  <2>3. \A p \in Procs : ~Adds(p, f)
    BY <1>7 DEF Adds, At
  <2>4. \A k \in Keys :
          RowIn(db, k, f) <=> k \in 1..Len(lines)
    BY <1>3, <1>5, <2>1 DEF RowIn
  <2>5. \A k \in Keys : RowIn(db, k, f) => db[k].line = k /\ db[k].fact = lines[k]
    BY <1>3, <1>5, <2>4
  <2>6. Apart(f)
    BY <2>2, <2>3, <2>5 DEF Apart
  <2>7. \A v, x : Owed(f, v, x) <=> v \in 1..Len(lines) /\ lines[v] = x
    <3>1. 1..Len(lines) \subseteq Keys
      BY <1>1, <1>2, <1>3 DEF Keys
    <3>2. \A v, x : Owed(f, v, x) <=>
            \E k \in Keys : RowIn(db, k, f) /\ db[k].line = v /\ db[k].fact = x
      BY <2>2, <2>3 DEF Owed, Pending
    <3> QED
      BY <2>4, <2>5, <3>1, <3>2
  <2>8. PICK e \in Seq(Nat) : Len(e) = Len(lines) /\ \A i \in 1..Len(lines) : e[i] = i
    BY <1>3, FirstNumbers
  <2>9. Fits(e, f)
    BY <2>1, <2>2, <2>7, <2>8 DEF Fits
  <2> QED
    BY <2>6, <2>8, <2>9 DEF Agrees, Listed
<1>12. Writing
  BY <1>7 DEF Writing, At
<1> QED
  BY <1>8, <1>9, <1>10, <1>11, <1>12 DEF IInv

LEMMA NextInv == IInv /\ [Next]_vars => IInv'
<1> SUFFICES ASSUME IInv, [Next]_vars
             PROVE  IInv'
  OBVIOUS
<1>1. /\ TypeOK /\ Named /\ Writing
      /\ \A p \in Procs : Working(p)
      /\ \A p \in Procs : Reading(p)
  BY DEF IInv
<1>2. TypeOK'
  BY <1>1, TypesStep
<1>3. Named'
  BY <1>1, NamedStep
<1>4. Writing'
  BY <1>1, WritingStep
<1>5. \A p \in Procs : Working(p)'
  BY <1>1, <1>2, WorkingStep
<1>6. \A p \in Procs : Reading(p)'
  BY <1>1, ReadingStep
<1>7. \A f \in Files \ doubt' : Agrees(f)'
  BY AgreesStep
<1> QED
  BY <1>2, <1>3, <1>4, <1>5, <1>6, <1>7 DEF IInv

LEMMA Invariant == Spec => []IInv
<1>1. Init => IInv
  BY InitInv
<1>2. IInv /\ [Next]_vars => IInv'
  BY NextInv
<1> QED
  BY <1>1, <1>2, PTL DEF Spec

(* The variables keep their types, and a session is that of the process     *)
(* which is about to end it: whatever lines a file loses, however many keys *)
(* a session uses and whoever dies, no process is left with a row, a line   *)
(* number or lines of another kind than the handlers expect.                *)
THEOREM TypeCorrect == Spec => []TypeOK
<1>1. IInv => TypeOK
  BY DEF IInv
<1> QED
  BY <1>1, Invariant, PTL

-----------------------------------------------------------------------------
(* While nobody is busy with a file, the rows and lines that the invariant  *)
(* is about are those that are stored.                                      *)
LEMMA QuietRows ==
  ASSUME IInv, NEW f \in Files, Quiet(f)
  PROVE  /\ Text(f) = source[f]
         /\ \A k \in Keys :
              /\ RowIn(Table, k, f) <=> k \in RowsOf(db, f)
              /\ k \in RowsOf(db, f) => Table[k] = db[k]
         /\ \A p \in Procs : ~Adds(p, f)
<1>1. TypeOK /\ None \notin Procs
  BY FactSourceAssumption DEF IInv
<1>2. \A p \in Procs : op[p].at \in ReaderSteps \union SessionSteps => op[p].file \notin SameId(f)
  BY DEF Quiet, At, ReaderSteps, SessionSteps
<1>3. f \in SameId(f)
  BY DEF SameId
<1>4. \A p \in Procs : ~Adds(p, f)
  BY <1>2, <1>3 DEF Adds, At, ReaderSteps
<1>5. /\ Text(f) = source[f]
      /\ \A k \in Keys : RowIn(Table, k, f) \/ RowIn(db, k, f) => Table[k] = db[k]
  <2>1. CASE session \in {None, Lost}
    BY <2>1, TableFree
  <2>2. CASE session \notin {None, Lost}
    <3>1. PICK p \in Procs : session = p
      BY <1>1, <2>2 DEF TypeOK
    <3>2. op[p].at \in SessionSteps /\ op[p].file \notin SameId(f) /\ op[p] \in Op
      BY <1>1, <1>2, <3>1, Holder DEF At
    <3>3. /\ Table = IF op[p].at \in {"end", "clear", "add"} THEN work ELSE db
          /\ Text(f) = source[f]
      BY <1>3, <3>1, <3>2, TableHeld
    <3>4. op[p].file \in Files => f \notin SameId(op[p].file)
      BY <3>2 DEF SameId
    <3>5. Working(p)
      BY DEF IInv
    <3>6. ASSUME NEW k \in Keys, work[k] # db[k], op[p].at \in {"end", "clear", "add"}
          PROVE  ~RowIn(work, k, f) /\ ~RowIn(db, k, f)
      <4>1. CASE op[p].at = "end"
        <5>1. /\ op[p].file # None /\ work[k] = None
              /\ db[k] # None /\ db[k].file \in SameId(op[p].file)
          BY <3>5, <3>6, <4>1 DEF Working, At
        <5>2. op[p].file \in Files
          BY <3>2, <4>1, <5>1, OpTypes
        <5> QED
          BY <3>4, <5>1, <5>2 DEF RowIn
      <4>2. CASE op[p].at = "clear"
        <5>1. work = DropRows(op[p].file)
          BY <3>5, <4>2 DEF Working, At
        <5>2. op[p].file \in Files
          BY <3>2, <4>2, OpTypes
        <5> QED
          BY <3>4, <3>6, <5>1, <5>2 DEF RowIn, DropRows
      <4>3. CASE op[p].at = "add"
        <5>1. db[k] = None /\ work[k].file = op[p].file
          BY <3>5, <3>6, <4>3 DEF Working, At, RowIn
        <5> QED
          BY <1>3, <3>2, <5>1 DEF RowIn
      <4> QED
        BY <3>6, <4>1, <4>2, <4>3
    <3> QED
      BY <3>3, <3>6 DEF RowIn
  <2> QED
    BY <2>1, <2>2
<1>6. \A k \in Keys : RowIn(db, k, f) <=> k \in RowsOf(db, f)
  BY DEF RowIn, RowsOf, Used
<1>7. \A k \in Keys : RowIn(Table, k, f) <=> RowIn(db, k, f)
  BY <1>5 DEF RowIn
<1> QED
  BY <1>4, <1>5, <1>6, <1>7

(* Then its lines are those of its rows, in the order of the rows' lines.   *)
LEMMA QuietLines ==
  ASSUME IInv, NEW f \in Files \ doubt, Quiet(f)
  PROVE  /\ \A j, k \in RowsOf(db, f) : db[j].line = db[k].line => j = k
         /\ \E e \in Seq(Nat) :
              /\ Len(e) = Len(source[f])
              /\ \A i, j \in 1..Len(e) : i < j => e[i] < e[j]
              /\ \A i \in 1..Len(e) : \E k \in RowsOf(db, f) :
                   db[k].line = e[i] /\ db[k].fact = source[f][i]
              /\ \A k \in RowsOf(db, f) : \E i \in 1..Len(e) :
                   e[i] = db[k].line /\ source[f][i] = db[k].fact
              /\ \A i \in 1..Len(e) : removed[f] = 0 \/ e[i] < removed[f] => e[i] = i
<1>1. Apart(f) /\ Listed(f) /\ TypeOK
  BY DEF IInv, Agrees
<1>2. /\ Text(f) = source[f]
      /\ \A k \in Keys :
           /\ RowIn(Table, k, f) <=> k \in RowsOf(db, f)
           /\ k \in RowsOf(db, f) => Table[k] = db[k]
      /\ \A p \in Procs : ~Adds(p, f)
  BY QuietRows
<1>3. RowsOf(db, f) \subseteq Keys
  BY DEF RowsOf, Used
<1>4. \A v, x : Owed(f, v, x) <=>
        \E k \in RowsOf(db, f) : db[k].line = v /\ db[k].fact = x
  <2>1. \A v, x : Owed(f, v, x) <=>
          \E k \in Keys : RowIn(Table, k, f) /\ Table[k].line = v /\ Table[k].fact = x
    BY <1>2 DEF Owed, Pending
  <2> QED
    BY <1>2, <1>3, <2>1
<1>5. \A j, k \in RowsOf(db, f) : db[j].line = db[k].line => j = k
  BY <1>1, <1>2, <1>3 DEF Apart
<1>6. PICK e \in Seq(Nat) : Fits(e, f)
  BY <1>1 DEF Listed
<1>7. \A i \in 1..Len(e) : \E k \in RowsOf(db, f) :
        db[k].line = e[i] /\ db[k].fact = source[f][i]
  BY <1>2, <1>4, <1>6 DEF Fits
<1>8. ASSUME NEW k \in RowsOf(db, f)
      PROVE  \E i \in 1..Len(e) : e[i] = db[k].line /\ source[f][i] = db[k].fact
  <2>1. db[k] \in Row
    BY <1>1, <1>3 DEF TypeOK, RowsOf, Used
  <2>2. db[k].line \in Nat /\ db[k].fact \in Facts
    BY <2>1 DEF Row
  <2>3. Owed(f, db[k].line, db[k].fact)
    BY <1>4
  <2> QED
    BY <1>2, <1>6, <2>2, <2>3 DEF Fits
<1> QED
  BY <1>2, <1>5, <1>6, <1>7, <1>8 DEF Fits

(* The line of a row is the one that a delete or an edit by key changes:    *)
(* it is the row's own as long as no line before it has been removed, in a  *)
(* file without doubt.                                                      *)
THEOREM RowsLead == Spec => []RowsLeadToLines
<1>1. ASSUME IInv
      PROVE  RowsLeadToLines
  <2> SUFFICES ASSUME NEW f \in Files \ doubt, Quiet(f), NEW k \in RowsOf(db, f),
                      removed[f] = 0 \/ db[k].line < removed[f]
               PROVE  source[f][db[k].line] = db[k].fact
    BY DEF RowsLeadToLines
  <2>1. PICK e \in Seq(Nat) :
          /\ \A j \in RowsOf(db, f) : \E i \in 1..Len(e) :
               e[i] = db[j].line /\ source[f][i] = db[j].fact
          /\ \A i \in 1..Len(e) : removed[f] = 0 \/ e[i] < removed[f] => e[i] = i
    BY <1>1, QuietLines
  <2>2. PICK i \in 1..Len(e) : e[i] = db[k].line /\ source[f][i] = db[k].fact
    BY <2>1
  <2>3. e[i] = i
    BY <2>1, <2>2
  <2> QED
    BY <2>2, <2>3
<1> QED
  BY <1>1, Invariant, PTL

-----------------------------------------------------------------------------
(* Counting rows by their lines.                                            *)

(* The members of R have the numbers e, in their order, one each.           *)
Ranks(R, L, m, e) ==
  /\ \A j, k \in R : L[j] = L[k] => j = k
  /\ \A i, j \in 1..m : i < j => e[i] < e[j]
  /\ \A i \in 1..m : \E k \in R : L[k] = e[i]
  /\ \A k \in R : \E i \in 1..m : e[i] = L[k]

(* Those with the first n numbers, and those up to the number of k.         *)
FirstOf(R, L, n, e) == {k \in R : \E i \in 1..n : L[k] = e[i]}
UpTo(R, L, k) == {j \in R : L[j] <= L[k]}

(* The first i numbers of e are those of i members of R.                    *)
LEMMA FirstRows ==
  ASSUME NEW R, NEW L \in [R -> Nat], NEW m \in Nat, NEW e \in [1..m -> Nat],
         Ranks(R, L, m, e), NEW n \in 0..m
  PROVE  Cardinality(FirstOf(R, L, n, e)) = n
<1> USE DEF Ranks
<1> DEFINE S == {k \in R : \E i \in 1..n : L[k] = e[i]}
           F == [i \in 1..n |-> CHOOSE k \in R : L[k] = e[i]]
<1>1. n \in Nat /\ 1..n \subseteq 1..m
  OBVIOUS
<1>2. \A i \in 1..n : F[i] \in R /\ L[F[i]] = e[i]
  BY <1>1
<1>3. F \in [1..n -> S]
  BY <1>2
<1>4. \A i, j \in 1..n : F[i] = F[j] => i = j
  <2> SUFFICES ASSUME NEW i \in 1..n, NEW j \in 1..n, F[i] = F[j]
               PROVE  i = j
    OBVIOUS
  <2>1. e[i] = e[j]
    BY <1>2
  <2>2. e[i] \in Nat /\ e[j] \in Nat /\ i \in 1..m /\ j \in 1..m
    BY <1>1
  <2>3. ~(i < j) /\ ~(j < i)
    BY <2>1, <2>2
  <2> QED
    BY <2>3
<1>5. \A k \in S : \E i \in 1..n : F[i] = k
  <2> SUFFICES ASSUME NEW k \in S
               PROVE  \E i \in 1..n : F[i] = k
    OBVIOUS
  <2>1. PICK i \in 1..n : L[k] = e[i]
    OBVIOUS
  <2>2. F[i] \in R /\ L[F[i]] = L[k]
    BY <1>2, <2>1
  <2> QED
    BY <2>2
<1> HIDE DEF F
<1>6. F \in Bijection(1..n, S)
  BY <1>3, <1>4, <1>5 DEF Bijection, Injection, Surjection, IsInjective
<1>7. IsFiniteSet(1..n) /\ Cardinality(1..n) = n
  BY <1>1, FS_Interval
<1>8. S = FirstOf(R, L, n, e)
  BY DEF FirstOf
<1> QED
  BY <1>6, <1>7, <1>8, FS_Bijection DEF ExistsBijection

(* So there are m of them, and each one's place is that of its number.      *)
LEMMA Ranked ==
  ASSUME NEW R, NEW L \in [R -> Nat], NEW m \in Nat, NEW e \in [1..m -> Nat],
         Ranks(R, L, m, e)
  PROVE  /\ Cardinality(R) = m
         /\ \A k \in R, n \in 1..m : e[n] = L[k] => Cardinality(UpTo(R, L, k)) = n
<1>1. \A n \in 0..m : Cardinality(FirstOf(R, L, n, e)) = n
  BY FirstRows
<1> USE DEF Ranks
<1>2. R = FirstOf(R, L, m, e)
  BY DEF FirstOf
<1>3. Cardinality(R) = m
  <2>1. m \in 0..m
    OBVIOUS
  <2> QED
    BY <1>1, <1>2, <2>1
<1>4. ASSUME NEW k \in R, NEW n \in 1..m, e[n] = L[k]
      PROVE  Cardinality(UpTo(R, L, k)) = n
  <2>1. ASSUME NEW j \in R
        PROVE  L[j] <= L[k] <=> \E i \in 1..n : L[j] = e[i]
    <3>1. PICK i \in 1..m : e[i] = L[j]
      OBVIOUS
    <3>2. /\ n < i => e[n] < e[i]
          /\ \A h \in 1..m : h < n => e[h] < e[n]
      OBVIOUS
    <3>3. L[j] \in Nat /\ L[k] \in Nat
      OBVIOUS
    <3>4. ASSUME L[j] <= L[k]
          PROVE  i \in 1..n
      BY <1>4, <3>1, <3>2, <3>3, <3>4
    <3>5. ASSUME NEW h \in 1..n, L[j] = e[h]
          PROVE  L[j] <= L[k]
      <4>1. h \in 1..m /\ (h < n \/ h = n)
        OBVIOUS
      <4> QED
        BY <1>4, <3>2, <3>3, <3>5, <4>1
    <3> QED
      BY <3>1, <3>4, <3>5
  <2>2. UpTo(R, L, k) = FirstOf(R, L, n, e)
    BY <2>1 DEF UpTo, FirstOf
  <2>3. n \in 0..m
    OBVIOUS
  <2> QED
    BY <1>1, <2>2, <2>3
<1> QED
  BY <1>3, <1>4

(* A file is read in several sessions, and in between its rows and lines    *)
(* are deleted, from other sessions and without one.  Nevertheless the rows *)
(* of a file that is not in doubt are its lines, each once and in their     *)
(* order.                                                                   *)
THEOREM Agreement == Spec => []SourceAgrees
<1>1. ASSUME IInv
      PROVE  SourceAgrees
  <2> SUFFICES ASSUME NEW f \in Files \ doubt, Quiet(f)
               PROVE  /\ Cardinality(RowsOf(db, f)) = Len(source[f])
                      /\ \A k \in RowsOf(db, f) : source[f][Place(k)] = db[k].fact
    BY DEF SourceAgrees
  <2>1. TypeOK
    BY <1>1 DEF IInv
  <2>2. PICK R : R = RowsOf(db, f)
    OBVIOUS
  <2>3. PICK e \in Seq(Nat) :
          /\ Len(e) = Len(source[f])
          /\ \A i, j \in 1..Len(e) : i < j => e[i] < e[j]
          /\ \A i \in 1..Len(e) : \E k \in R : db[k].line = e[i] /\ db[k].fact = source[f][i]
          /\ \A k \in R : \E i \in 1..Len(e) :
               e[i] = db[k].line /\ source[f][i] = db[k].fact
    BY <1>1, <2>2, QuietLines
  <2>4. \A j, k \in R : db[j].line = db[k].line => j = k
    BY <1>1, <2>2, QuietLines
  <2>5. \A k \in R : db[k].line \in Nat /\ db[k].file = f
    BY <2>1, <2>2 DEF TypeOK, RowsOf, Used, Row
  <2>6. PICK L \in [R -> Nat] : \A k \in R : L[k] = db[k].line
    <3> DEFINE L == [k \in R |-> db[k].line]
    <3>1. L \in [R -> Nat] /\ \A k \in R : L[k] = db[k].line
      BY <2>5
    <3> QED
      BY <3>1
  <2>7. PICK m \in Nat : m = Len(e) /\ e \in [1..m -> Nat]
    <3>1. e \in Seq(Nat)
      BY <2>3
    <3>2. Len(e) \in Nat /\ e \in [1..Len(e) -> Nat]
      BY ONLY <3>1
    <3> QED
      BY <3>2
  <2>8. /\ Cardinality(R) = m
        /\ \A k \in R, n \in 1..m : e[n] = L[k] => Cardinality(UpTo(R, L, k)) = n
    <3>1. \A j, k \in R : L[j] = L[k] => j = k
      BY <2>4, <2>6
    <3>2. \A i, j \in 1..m : i < j => e[i] < e[j]
      BY <2>3, <2>7
    <3>3. \A i \in 1..m : \E k \in R : L[k] = e[i]
      <4>1. \A i \in 1..m : \E k \in R : db[k].line = e[i]
        BY <2>3, <2>7
      <4> QED
        BY <2>6, <4>1
    <3>4. \A k \in R : \E i \in 1..m : e[i] = L[k]
      <4>1. \A k \in R : \E i \in 1..m : e[i] = db[k].line
        BY <2>3, <2>7
      <4> QED
        BY <2>6, <4>1
    <3>5. Ranks(R, L, m, e)
      BY <3>1, <3>2, <3>3, <3>4 DEF Ranks
    <3> QED
      BY <2>7, <3>5, Ranked
  <2>9. ASSUME NEW k \in R
        PROVE  source[f][Place(k)] = db[k].fact
    <3>1. PICK n \in 1..m : e[n] = L[k] /\ source[f][n] = db[k].fact
      BY <2>3, <2>6, <2>7
    <3>2. Place(k) = Cardinality({j \in R : db[j].line <= db[k].line})
      BY <2>2, <2>5 DEF Place
    <3>3. {j \in R : db[j].line <= db[k].line} = UpTo(R, L, k)
      BY <2>6 DEF UpTo
    <3>4. Place(k) = n
      BY <2>8, <3>1, <3>2, <3>3
    <3> QED
      BY <3>1, <3>4
  <2> QED
    BY <2>2, <2>3, <2>7, <2>8, <2>9
<1> QED
  BY <1>1, Invariant, PTL
=============================================================================
