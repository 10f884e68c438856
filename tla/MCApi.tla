-------------------------------- MODULE MCApi --------------------------------
(***************************************************************************)
(* Frames of slots that hold garbage at first: one of three slots, for a   *)
(* function with an upvalue, one whose functions get upvalues, one that    *)
(* uses the registry and the globals, one with two tables, and one with a  *)
(* table that becomes the environment of a function.                       *)
(***************************************************************************)
EXTENDS Api

MCFrames ==
  {[slots |-> 3, initial |-> {"junk"}, upvalues |-> <<"num">>, literals |-> {"num"},
    pseudo |-> {LUA_GLOBALSINDEX - 1, LUA_GLOBALSINDEX - 2}, maxup |-> 1, tables |-> {}],
   [slots |-> 2, initial |-> {"junk"}, upvalues |-> <<>>, literals |-> {"num"},
    pseudo |-> {LUA_GLOBALSINDEX - 1}, maxup |-> 2, tables |-> {}],
   [slots |-> 2, initial |-> {"junk"}, upvalues |-> <<>>, literals |-> {"num"},
    pseudo |-> {LUA_REGISTRYINDEX, LUA_GLOBALSINDEX}, maxup |-> 0, tables |-> {}],
   [slots |-> 2, initial |-> {"nil"}, upvalues |-> <<>>, literals |-> {"nil", "str"},
    pseudo |-> {LUA_ENVIRONINDEX}, maxup |-> -1, tables |-> Tables],
   [slots |-> 2, initial |-> {"nil"}, upvalues |-> <<>>, literals |-> {"nil"},
    pseudo |-> {LUA_ENVIRONINDEX}, maxup |-> 0, tables |-> {"T2"}]}

\* The last call is no part of what the next one depends on.
View == <<frame, mem, top, objects>>
=============================================================================
