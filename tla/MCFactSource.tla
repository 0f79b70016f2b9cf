---------------------------- MODULE MCFactSource ----------------------------
(* Instances of FactSource for TLC.                                         *)
EXTENDS FactSource, TLC

(* As fileid has it: the first two files share theirs.                      *)
Ids == "tobias.xml" :> 1 @@ "spiele.xml" :> 1 @@ "facts.xml" :> 2

(* What the files say at first, with the .pro files, and what is learned.   *)
Lines ==
  "tobias.xml" :> <<"t1">> @@ "spiele.xml" :> <<"s1">> @@ "facts.xml" :> <<"f1", "f2">>

ProLines ==
  "tobias.xml" :> <<>> @@ "spiele.xml" :> <<>> @@ "facts.xml" :> <<"p1", "p2">>

Lessons == "tobias.xml" :> {} @@ "spiele.xml" :> {} @@ "facts.xml" :> {"n1"}

OfFiles(function) == [f \in Files |-> function[f]]
MCId == OfFiles(Ids)
MCSource == OfFiles(Lines)
MCPro == OfFiles(ProLines)
MCLearnt == OfFiles(Lessons)
=============================================================================
