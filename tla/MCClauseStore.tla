--------------------------- MODULE MCClauseStore ---------------------------
(* An instance of ClauseStore for TLC.                                      *)
EXTENDS ClauseStore, TLC

(* "cats sleep if it rains and if it is night", "cows sleep if it rains and  *)
(* if it rains", "it rains"                                                  *)
MCClausesOf ==
  "cats" :> <<"rain", "night">> @@ "cows" :> <<"rain", "rain">> @@ "rains" :> <<>>

(* The verb of "it is night" may be lost.                                    *)
MCSays ==
  "cats" :> {"cats"} @@ "cows" :> {"cows"} @@ "rains" :> {"rains"} @@
  "rain" :> {"rain"} @@ "night" :> {"night", "no verb"}

MCWordsOf ==
  "cats" :> {"cat"} @@ "cows" :> {"cow"} @@ "rains" :> {"rain"} @@
  "rain" :> {"rain"} @@ "night" :> {"night"}

MCFlagOf ==
  "cats" :> "00000" @@ "cows" :> "01000" @@ "rains" :> "00000" @@
  "rain" :> "00000" @@ "night" :> "10000"

MCFileOf == "cats" :> "facts.xml" @@ "cows" :> "tierwelt.xml" @@ "rains" :> "facts.xml"
=============================================================================
