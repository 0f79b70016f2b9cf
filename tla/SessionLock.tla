---------------------------- MODULE SessionLock ----------------------------
(***************************************************************************)
(* What a child may rely on between network_lock and network_unlock: one   *)
(* grant serves one database session, in the order grant, session,         *)
(* release, and while the grants are exclusive nobody is granted the lock  *)
(* before the one before has given it back.                                *)
(*                                                                         *)
(* The promise gets weaker and never stronger: exclusion is lost for good  *)
(* after a race between two grants, and everything is lost when the server *)
(* stops.  A client that stops waiting for its grants and releases is a    *)
(* stray: where it is says nothing any more, and the others still have     *)
(* among themselves what they were promised.                               *)
(***************************************************************************)
CONSTANT Clients  (* Those who open database sessions. *)

VARIABLES
  mode,   (* What is still promised.                *)
  strays, (* Clients that do not keep to the order. *)
  stage   (* Where each client is with its session. *)

Stages == {"out", "granted", "inside", "leaving", "lost"}

Init ==
  /\ mode = "exclusive"
  /\ strays = {}
  /\ stage = [c \in Clients |-> "out"]

Goto(c, from, to) ==
  /\ stage[c] \in from
  /\ stage' = [stage EXCEPT ![c] = to]
  /\ UNCHANGED <<mode, strays>>

Grant(c) ==
  /\ mode = "exclusive" => \A d \in Clients \ strays : stage[d] = "out"
  /\ Goto(c, {"out"}, "granted")

Enter(c) == Goto(c, {"granted"}, "inside")

Leave(c) == Goto(c, {"inside"}, "leaving")

Release(c) == Goto(c, {"leaving"}, "out")

(* A client that dies keeps what it was granted.                            *)
Die(c) == Goto(c, {"granted", "inside", "leaving"}, "lost")

(* A client goes astray, or moves when it already has.                      *)
Stray(c) ==
  /\ strays' = strays \union {c}
  /\ \E to \in Stages : stage' = [stage EXCEPT ![c] = to]
  /\ UNCHANGED mode

Race == mode = "exclusive" /\ mode' = "shared" /\ UNCHANGED <<strays, stage>>

Stop ==
  /\ mode' = "stopped"
  /\ strays' \in SUBSET Clients
  /\ stage' \in [Clients -> Stages]

Next ==
  \/ mode # "stopped" /\ \E c \in Clients :
       Grant(c) \/ Enter(c) \/ Leave(c) \/ Release(c) \/ Die(c) \/ Stray(c)
  \/ Race
  \/ Stop

Spec == Init /\ [][Next]_<<mode, strays, stage>>
=============================================================================
