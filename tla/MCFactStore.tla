---------------------------- MODULE MCFactStore ----------------------------
(* An instance of FactStore for TLC: three facts from two files.            *)
EXTENDS FactStore, TLC

TextsHere == {"", "the cat", "cat", "the big dog", "big", "dog",
           "the old dog", "old", "pet", "is"}

(* "The cat is a pet." and its edited line "A cat can be the old dog." come *)
(* from one file, "The big dog is a pet." from another.                     *)
Entries ==
  [catpet |-> <<"the cat", "pet", "", "cat", "pet", "", "is">>,
   catdog |-> <<"cat", "the old dog", "", "cat", "dog", "", "is">>,
   dogpet |-> <<"the big dog", "pet", "", "dog", "pet", "", "is">>]

(* The tokens of the phrases from the last to the first, then the phrases.  *)
Indexed ==
  [catpet |-> <<"pet", "cat", "pet", "the cat", "is">>,
   catdog |-> <<"dog", "old", "cat", "the old dog", "cat", "is">>,
   dogpet |-> <<"pet", "dog", "big", "pet", "the big dog", "is">>]

Flags == [catpet |-> "00000", catdog |-> "00100", dogpet |-> "00000"]
Files == [catpet |-> "animals", catdog |-> "animals", dogpet |-> "pets"]

(* Processes are interchangeable.                                           *)
ProcSymmetry == Permutations(Procs)
=============================================================================
