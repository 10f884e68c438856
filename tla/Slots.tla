------------------------------- MODULE Slots -------------------------------
(***************************************************************************)
(* The stack of the Lua state between and under the calls of               *)
(* src/src/interp.c.  The functions there push a function and its          *)
(* arguments, call it and leave its result, or its error message, where it *)
(* is.  Nobody asks for room with lua_checkstack: it is the calls of Lua   *)
(* functions that make the stack grow, and the collector that makes it     *)
(* shrink.                                                                 *)
(***************************************************************************)
EXTENDS Integers, TLAPS

CONSTANTS
  EvalFrame,  \* Least number of slots that a call of eval, load or save makes
              \* room for: in the program the 12 of the frame of eval.
  MaxTokens,  \* Greatest number of words in a line; bounds the model.
  Depths,     \* How many more slots the functions that eval calls may need;
              \* bounds the model.
  MaxTop      \* Slots in use from which on no call starts; bounds the model.

LUA_MINSTACK == 20
BASIC_STACK_SIZE == 2 * LUA_MINSTACK
EXTRA_STACK == 5

\* Slots of the frame of the main function of sudoku.lua.
MainFrame == 36

ASSUME FrameAssumption == EvalFrame \in 0..LUA_MINSTACK
ASSUME BoundsAssumption == MaxTokens \in Nat /\ Depths \subseteq Nat /\ MaxTop \in Nat

VARIABLES
  top,      \* Slots in use: the first free slot.
  last,     \* stack_last: the slots before it may be used.
  phase,    \* "idle" between calls, "pushing" the arguments, or "running".
  call,     \* The function of the call, or of the last one.
  words     \* Arguments pushed for it.

slots == <<top, last, phase, call, words>>

Requests == {"eval", "load", "save"}

-----------------------------------------------------------------------------
stacksize(l) == l + 1 + EXTRA_STACK

\* The frame of the base level reaches up to here.
GrantedTop == 1 + LUA_MINSTACK

\* luaD_checkstack and luaD_growstack: room for n slots above t.
luaD_checkstack(t, l, n) ==
  IF l - t > n THEN l
  ELSE IF n <= stacksize(l) THEN 2 * stacksize(l) ELSE stacksize(l) + n

frame_room_unchecked(t, l) == l

\* The room that entering a function makes for its frame (luaD_precall).
frame_room(t, l) == luaD_checkstack(t, l, EvalFrame)

\* A traversal of the stack halves it if it is mostly unused; used is the
\* largest slot in use or granted to a frame.
checkstacksizes(used, l) ==
  IF 4 * used < stacksize(l) /\ 2 * (BASIC_STACK_SIZE + EXTRA_STACK) < stacksize(l)
  THEN stacksize(l) \div 2
  ELSE l

Largest(a, b) == IF a > b THEN a ELSE b

\* What traversestack finds in use.
Used == Largest(IF phase = "running" THEN top + EvalFrame ELSE top, GrantedTop)

\* The slot of the function that is being called.
Func == top - words - 1

\* No push has gone beyond the array of slots; what the program does after such
\* a push is not defined, and no action is.
Defined == top <= stacksize(last)

-----------------------------------------------------------------------------
\* luaL_newstate and the rest of interp_init, which leaves nothing but a stack
\* that the library functions called by the main function have made grow.
SlotsInit ==
  /\ top = 1
  /\ last = luaD_checkstack(2 + MainFrame, BASIC_STACK_SIZE - 1, LUA_MINSTACK)
  /\ phase = "idle"
  /\ call = "eval"
  /\ words = 0

\* lua_getglobal, at the start of interp_eval, interp_load and interp_save.
Begin(f) ==
  /\ phase = "idle" /\ Defined
  /\ top < MaxTop
  /\ phase' = "pushing"
  /\ call' = f
  /\ top' = top + 1
  /\ words' = 0
  /\ UNCHANGED last

\* push_item, for a line of any number of words; a text for load.
Push ==
  /\ phase = "pushing" /\ Defined
  /\ \/ call = "eval" /\ words < MaxTokens
     \/ call = "load" /\ words = 0
  /\ top' = top + 1
  /\ words' = words + 1
  /\ UNCHANGED <<last, phase, call>>

\* lua_pcall enters the function.
Start ==
  /\ phase = "pushing" /\ Defined
  /\ call = "eval" => words > 0
  /\ call = "load" => words = 1
  /\ phase' = "running"
  /\ last' = frame_room(top, last)
  /\ UNCHANGED <<top, call, words>>

\* The function calls others, which need n more slots.
Deeper(n) ==
  /\ phase = "running"
  /\ last' = luaD_checkstack(top + EvalFrame, last, n)
  /\ UNCHANGED <<top, phase, call, words>>

\* The function returns or raises an error: its result or the message takes
\* the slot of the function.  Only interp_load asks for no result.
Finish(error) ==
  /\ phase = "running"
  /\ phase' = "idle"
  /\ top' = Func + (IF call = "load" /\ ~error THEN 0 ELSE 1)
  /\ UNCHANGED <<last, call, words>>

\* The collector traverses the stack: in the middle of the pushes, in the
\* function, and at the end of luaD_call when its frame is gone; twice in a
\* cycle and any number of times in all.
Collect ==
  /\ Defined
  /\ last' = checkstacksizes(Used, last)
  /\ UNCHANGED <<top, phase, call, words>>

SlotsNext ==
  \/ \E f \in Requests : Begin(f)
  \/ Push
  \/ Start
  \/ \E n \in Depths : Deeper(n)
  \/ \E error \in BOOLEAN : Finish(error)
  \/ Collect

SlotsSpec == SlotsInit /\ [][SlotsNext]_slots

-----------------------------------------------------------------------------
\* The state is well typed.
SlotsTypeOK ==
  /\ top \in Nat /\ last \in Nat /\ words \in Nat
  /\ phase \in {"idle", "pushing", "running"} /\ call \in Requests

\* Although every command leaves a slot behind and nothing asks for room, the
\* slots that interp.c pushes are slots of the stack, unless the line has more
\* words than the frame of eval has slots: each call has made room for the next
\* one, and the collector, wherever it runs, never takes too much back.
StackSafe == top > last => words > EvalFrame

\* "api_check(L, L->top < L->ci->top)" before every push (api_incr_top,
\* lapi.c:45), where "ci->top <= l->stack_last" (traversestack, lgc.c:262): no
\* push is beyond the stack, let alone beyond its array, for any line.
PushesFit == top <= stacksize(last)

\* Why: between calls there is always room for a line of EvalFrame words.
Reserve == phase = "idle" => last - top > EvalFrame

-----------------------------------------------------------------------------
(***************************************************************************)
(* StackSafe, for every size of the frame of eval up to LUA_MINSTACK,      *)
(* every number of commands, lines of any number of words and functions of *)
(* any depth.                                                              *)
(***************************************************************************)

\* The inductive invariant: there is room for the frame of eval above the slot
\* where the next call, or the current one, has its function, and above the
\* arguments of a function that has been entered.
SlotsInv ==
  /\ SlotsTypeOK
  /\ last >= BASIC_STACK_SIZE - 1
  /\ phase = "idle" => last > top + EvalFrame
  /\ phase # "idle" => top > words /\ last + words + 1 > top + EvalFrame
  /\ phase = "running" => last > top + EvalFrame

\* The room is what StackSafe needs.
LEMMA RoomIsEnough == SlotsInv => StackSafe /\ Reserve
<1>1. EvalFrame \in Nat
  BY FrameAssumption DEF LUA_MINSTACK
<1>2. QED
  BY <1>1 DEF SlotsInv, SlotsTypeOK, StackSafe, Reserve

\* A shrunk stack still has twice the slots that are used or granted, and the
\* basic size.
LEMMA Shrunk ==
  ASSUME NEW used \in Nat, NEW l \in Nat, l >= BASIC_STACK_SIZE - 1
  PROVE  /\ checkstacksizes(used, l) \in Nat
         /\ checkstacksizes(used, l) >= BASIC_STACK_SIZE - 1
         /\ checkstacksizes(used, l) = l \/ checkstacksizes(used, l) >= 2 * used
BY DEF checkstacksizes, stacksize, EXTRA_STACK, BASIC_STACK_SIZE, LUA_MINSTACK

\* luaD_checkstack never shrinks the stack, and makes the room asked for, also
\* above the last slots of the array if that room is smaller than the stack.
LEMMA Grown ==
  ASSUME NEW t \in Nat, NEW l \in Nat, NEW n \in Nat, t <= l \/ (t <= stacksize(l) /\ n < l)
  PROVE  /\ luaD_checkstack(t, l, n) \in Nat
         /\ luaD_checkstack(t, l, n) > t + n
         /\ luaD_checkstack(t, l, n) >= l
<1>1. CASE l - t > n
  BY <1>1 DEF luaD_checkstack
<1>2. CASE ~(l - t > n) /\ n <= stacksize(l)
  BY <1>2 DEF luaD_checkstack, stacksize, EXTRA_STACK
<1>3. CASE ~(l - t > n) /\ ~(n <= stacksize(l))
  BY <1>3 DEF luaD_checkstack, stacksize, EXTRA_STACK
<1>4. QED
  BY <1>1, <1>2, <1>3

\* Room above b is room above a lower slot, in a stack that has not shrunk.
LEMMA RoomBelow ==
  ASSUME NEW a \in Nat, NEW b \in Nat, NEW c \in Nat, NEW d \in Nat, NEW e \in Nat,
         a <= c, d <= b
  PROVE  /\ a > b + e => c > d + e
         /\ \A w \in Nat : a + w + 1 > b + e => c + w + 1 > d + e
OBVIOUS

\* Every step of a command, and of the collector, keeps the room.
LEMMA SlotsStep == SlotsInv /\ [SlotsNext]_slots => SlotsInv'
<1>1. SUFFICES ASSUME SlotsInv, [SlotsNext]_slots PROVE SlotsInv'
  OBVIOUS
<1>2. /\ EvalFrame \in Nat /\ EvalFrame <= 20
      /\ top \in Nat /\ last \in Nat /\ words \in Nat /\ last >= 39
  BY <1>1, FrameAssumption DEF SlotsInv, SlotsTypeOK, BASIC_STACK_SIZE, LUA_MINSTACK
<1>3. ASSUME NEW f \in Requests, Begin(f) PROVE SlotsInv'
  BY <1>1, <1>2, <1>3 DEF SlotsInv, SlotsTypeOK, Begin
<1>4. CASE Push
  BY <1>1, <1>2, <1>4 DEF SlotsInv, SlotsTypeOK, Push
<1>5. CASE Start
  <2>1. last' = luaD_checkstack(top, last, EvalFrame)
    BY <1>5 DEF Start, frame_room
  <2>2. top <= stacksize(last) /\ EvalFrame < last
    BY <1>2, <1>5 DEF Start, Defined
  <2>3. last' \in Nat /\ last' > top + EvalFrame /\ last' >= last
    BY <1>2, <2>1, <2>2, Grown
  <2>4. phase = "pushing" /\ phase' = "running" /\ UNCHANGED <<top, call, words>>
    BY <1>5 DEF Start
  <2>5. top > words /\ last + words + 1 > top + EvalFrame
    BY <1>1, <2>4 DEF SlotsInv
  <2>6. last' >= BASIC_STACK_SIZE - 1 /\ last' + words + 1 > top + EvalFrame
    <3>1. last' \in Nat /\ last <= last' /\ top <= top
      BY <1>2, <2>3
    <3>2. last' + words + 1 > top + EvalFrame
      BY <1>2, <2>5, <3>1, RoomBelow
    <3>3. last' >= BASIC_STACK_SIZE - 1
      BY <1>2, <3>1 DEF BASIC_STACK_SIZE, LUA_MINSTACK
    <3>4. QED BY <3>2, <3>3
  <2>7. SlotsTypeOK'
    BY <1>1, <2>3, <2>4 DEF SlotsInv, SlotsTypeOK
  <2>8. QED
    BY <2>3, <2>4, <2>5, <2>6, <2>7 DEF SlotsInv
<1>6. ASSUME NEW n \in Depths, Deeper(n) PROVE SlotsInv'
  <2>1. last' = luaD_checkstack(top + EvalFrame, last, n) /\ n \in Nat
    BY <1>6, BoundsAssumption DEF Deeper
  <2>2. phase = "running" /\ UNCHANGED <<top, phase, call, words>>
    BY <1>6 DEF Deeper
  <2>3. top + EvalFrame \in Nat /\ top + EvalFrame <= last
    BY <1>1, <1>2, <2>2 DEF SlotsInv
  <2>4. last' \in Nat /\ last' >= last
    BY <1>2, <2>1, <2>3, Grown
  <2>5. top > words /\ last + words + 1 > top + EvalFrame /\ last > top + EvalFrame
    BY <1>1, <2>2 DEF SlotsInv
  <2>6. /\ last' >= BASIC_STACK_SIZE - 1 /\ last' + words + 1 > top + EvalFrame
        /\ last' > top + EvalFrame
    <3>1. last' \in Nat /\ last <= last' /\ top <= top
      BY <1>2, <2>4
    <3>2. last' + words + 1 > top + EvalFrame /\ last' > top + EvalFrame
      BY <1>2, <2>5, <3>1, RoomBelow
    <3>3. last' >= BASIC_STACK_SIZE - 1
      BY <1>2, <3>1 DEF BASIC_STACK_SIZE, LUA_MINSTACK
    <3>4. QED BY <3>2, <3>3
  <2>7. SlotsTypeOK'
    BY <1>1, <2>2, <2>4 DEF SlotsInv, SlotsTypeOK
  <2>8. QED
    BY <2>2, <2>5, <2>6, <2>7 DEF SlotsInv
<1>7. ASSUME NEW error \in BOOLEAN, Finish(error) PROVE SlotsInv'
  <2>1. top' = top - words - 1 \/ top' = top - words
    <3>1. Func + 0 = top - words - 1 /\ Func + 1 = top - words
      BY <1>2 DEF Func
    <3>2. top' = Func + 0 \/ top' = Func + 1
      BY <1>7 DEF Finish
    <3>3. QED
      BY <3>1, <3>2
  <2>2. phase = "running" /\ phase' = "idle" /\ UNCHANGED <<last, call, words>>
    BY <1>7 DEF Finish
  <2>3. top > words /\ last > top + EvalFrame
    BY <1>1, <2>2 DEF SlotsInv
  <2>4. top' \in Nat /\ top' <= top
    BY <1>2, <2>1, <2>3
  <2>5. last' > top' + EvalFrame
    <3>1. last' = last /\ last <= last /\ top' <= top /\ top' \in Nat
      BY <1>2, <2>2, <2>4
    <3>2. last > top' + EvalFrame
      BY <1>2, <2>3, <3>1, RoomBelow
    <3>3. QED BY <3>1, <3>2
  <2>6. QED
    BY <1>1, <2>2, <2>4, <2>5 DEF SlotsInv, SlotsTypeOK
<1>8. CASE Collect
  <2>1. last' = checkstacksizes(Used, last) /\ UNCHANGED <<top, phase, call, words>>
    BY <1>8 DEF Collect
  <2>2. /\ Used \in Nat /\ Used >= top /\ Used >= 21
        /\ phase = "running" => Used >= top + EvalFrame
    BY <1>2 DEF Used, Largest, GrantedTop, LUA_MINSTACK
  <2>3. /\ last' \in Nat /\ last' >= BASIC_STACK_SIZE - 1
        /\ last' = last \/ last' >= 2 * Used
    BY <1>1, <1>2, <2>1, <2>2, Shrunk DEF SlotsInv
  <2>4. CASE last' = last
    BY <1>1, <2>1, <2>4 DEF SlotsInv, SlotsTypeOK
  <2>5. CASE last' >= 2 * Used
    <3>1. last' > top + EvalFrame
      BY <1>2, <2>2, <2>3, <2>5
    <3>2. QED
      BY <1>1, <1>2, <2>1, <2>3, <3>1 DEF SlotsInv, SlotsTypeOK
  <2>6. QED
    BY <2>3, <2>4, <2>5
<1>9. CASE UNCHANGED slots
  BY <1>1, <1>9 DEF slots, SlotsInv, SlotsTypeOK
<1>10. QED
  BY <1>1, <1>3, <1>4, <1>5, <1>6, <1>7, <1>8, <1>9 DEF SlotsNext

\* However many slots the commands before it have left behind, wherever the
\* collector runs and whatever has grown the stack, interp_eval, interp_load
\* and interp_save push nothing beyond it, but for a line of more words than the
\* frame of eval has slots, which there may be no room for.
THEOREM SlotsSafe == SlotsSpec => [](SlotsTypeOK /\ StackSafe /\ Reserve)
<1>1. SlotsInit => SlotsInv
  <2>1. EvalFrame \in Nat /\ EvalFrame <= 20
    BY FrameAssumption DEF LUA_MINSTACK
  <2>2. luaD_checkstack(2 + MainFrame, BASIC_STACK_SIZE - 1, LUA_MINSTACK) = 90
    BY DEF luaD_checkstack, stacksize, MainFrame, BASIC_STACK_SIZE, EXTRA_STACK, LUA_MINSTACK
  <2>3. QED
    BY <2>1, <2>2 DEF SlotsInit, SlotsInv, SlotsTypeOK, Requests, BASIC_STACK_SIZE, LUA_MINSTACK
<1>2. SlotsInv => SlotsTypeOK /\ StackSafe /\ Reserve
  BY RoomIsEnough DEF SlotsInv
<1>3. QED
  BY <1>1, <1>2, SlotsStep, PTL DEF SlotsSpec
=============================================================================
