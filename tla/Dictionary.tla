----------------------------- MODULE Dictionary -----------------------------
(***************************************************************************)
(* What a Lua table promises: a map from keys to values, in which an       *)
(* assignment changes the value of its key to the one assigned, and that   *)
(* of no other key; nothing else changes the map.                          *)
(***************************************************************************)
CONSTANTS Keys, Values, Nil

VARIABLES
  map,
  call    \* The last operation: the key and the value of an assignment, or <<>>.

Init ==
  /\ map = [k \in Keys |-> Nil]
  /\ call = <<>>

Assign(k, v) ==
  /\ call' = <<k, v>>
  /\ map' = [map EXCEPT ![k] = v]

\* A traversal, or the collector.
Other ==
  /\ call' = <<>>
  /\ UNCHANGED map

Next ==
  \/ Other
  \/ \E k \in Keys, v \in Values \cup {Nil} : Assign(k, v)

Spec == Init /\ [][Next]_<<map, call>>
=============================================================================
