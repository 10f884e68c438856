----------------------------- MODULE MCCollector -----------------------------
(***************************************************************************)
(* Heaps of two objects, the globals and the main thread.                  *)
(***************************************************************************)
EXTENDS Collector

MCSlots == {1}

MCKindSets ==
  {{"table", "weakvalue", "string", "closure"},
   {"weakkey", "string"}, {"weakvalue", "udata"}}
=============================================================================
