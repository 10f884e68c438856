------------------------------ MODULE MCCalls ------------------------------
(***************************************************************************)
(* The slots of the Lua stack, with the sizes of the program; calls,       *)
(* errors and coroutines with limits in reach: with every kind of C        *)
(* function and one coroutine, and with two coroutines that resume each    *)
(* other and protect calls.                                                *)
(***************************************************************************)
EXTENDS Slots, Calls

CONSTANTS co1, co2

VARIABLE part

\* Functions that fit in the room there is, and functions that do not.
MCDepths == {LUA_MINSTACK, 8 * LUA_MINSTACK}

PartsInit == part \in {"slots", "one", "two"} /\ SlotsInit /\ Init

OneCoroutine == \A i \in DOMAIN cstack' : cstack'[i].t # co2
FewFrames ==
  /\ \A i \in DOMAIN cstack' : cstack'[i].what \notin {"plain", "xpcall"}
  /\ \A L \in Threads : th'[L].ci <= 3

PartsNext ==
  \/ part = "slots" /\ SlotsNext /\ UNCHANGED <<part, vars>>
  \/ part = "one" /\ Next /\ OneCoroutine /\ UNCHANGED <<part, slots>>
  \/ part = "two" /\ Next /\ FewFrames /\ UNCHANGED <<part, slots>>

PartsSpec == PartsInit /\ [][PartsNext]_<<part, slots, vars>>
=============================================================================
