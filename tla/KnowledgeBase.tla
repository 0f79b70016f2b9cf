--------------------------- MODULE KnowledgeBase ---------------------------
(***************************************************************************)
(* What the users of the database rely on: a fact that is learned gets a   *)
(* key nobody else has, and keeps it until it is forgotten.                *)
(***************************************************************************)
EXTENDS Naturals

CONSTANTS
  Keys,   (* The keys of facts.      *)
  Facts,  (* The facts.              *)
  None    (* No fact has this key.   *)

VARIABLE known  (* The fact each key stands for, or None. *)

Init == known = [k \in Keys |-> None]

(* Callers keep the key: hal2012-xml.cpp and hal2012-sql-universal.cpp use  *)
(* it for the clauses of the fact and for _input_key.                       *)
Learn(k, f) ==
  /\ known[k] = None
  /\ known' = [known EXCEPT ![k] = f]

(* One fact, or all the facts of a file.                                    *)
Forget(gone) ==
  known' = [k \in Keys |-> IF k \in gone THEN None ELSE known[k]]

Next ==
  \/ \E k \in Keys, f \in Facts : Learn(k, f)
  \/ \E gone \in SUBSET Keys : Forget(gone)

Spec == Init /\ [][Next]_known
=============================================================================
