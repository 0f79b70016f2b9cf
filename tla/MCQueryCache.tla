---------------------------- MODULE MCQueryCache ----------------------------
(* Instances of QueryCache for TLC.                                         *)
EXTENDS QueryCache, TLC

(* The words of a question, here one or none, and its three hashes.         *)
Hashes ==
  "cat" :> <<99, 3, 2252>> @@ "cow" :> <<99, 3, 2383>> @@
  "crab" :> <<99, 4, 2505>> @@ "" :> <<0, 0, 0>> @@
  "$$has_conditional_questionword$$" :> <<36, 32, 21973>>

(* Facts 1 to 4: "cats chase cows", "cows graze", "cats like crabs if ...", *)
(* "crabs crawl if ...".                                                    *)
Indexed ==
  "cat" :> {1, 3} @@ "cow" :> {1, 2} @@ "crab" :> {3, 4} @@ "" :> {} @@
  "$$has_conditional_questionword$$" :> {3, 4}
=============================================================================
