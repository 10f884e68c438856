------------------------------ MODULE LuaValue ------------------------------
(***************************************************************************)
(* The values Lua programs compute with, and the operations of lvm.c that  *)
(* are defined on values alone.  A value is its type and its content; the  *)
(* content is always a sequence of integers, so that any two values can be *)
(* compared.  Numbers are integers, with NaN as the number without         *)
(* content: the programs considered here never leave them, because they    *)
(* neither divide nor raise to a negative power.  A string is a sequence   *)
(* of characters: 0..9 stand for the digits, 10 for the minus sign, 11 for *)
(* the text of NaN and what is above for letters.  Values of type table,   *)
(* function and name carry an index.  No value has a metatable here        *)
(* (module Metatables is about those), so that an operation without a      *)
(* meaning is an error.                                                    *)
(***************************************************************************)
EXTENDS Integers, Sequences

Val(ty, v) == [ty |-> ty, v |-> v]
Nil == Val("nil", <<>>)
Bool(b) == Val("boolean", IF b THEN <<1>> ELSE <<0>>)
Num(n) == Val("number", <<n>>)
NaN == Val("number", <<>>)
Str(s) == Val("string", s)
Table(i) == Val("table", <<i>>)
Closure(i) == Val("function", <<i>>)
Failed == Val("error", <<>>)

l_isfalse(x) == x \in {Nil, Bool(FALSE)}
isnumber(x) == x.ty = "number"

RECURSIVE Digits(_)
Digits(n) == IF n < 10 THEN <<n>> ELSE Append(Digits(n \div 10), n % 10)

(* lua_number2str, "%.14g" of an integer *)
number2str(x) ==
  IF x = NaN THEN <<11>>
  ELSE IF x.v[1] < 0 THEN <<10>> \o Digits(-(x.v[1])) ELSE Digits(x.v[1])

RECURSIVE FromDigits(_)
FromDigits(s) ==
  IF s = <<>> THEN 0
  ELSE 10 * FromDigits(SubSeq(s, 1, Len(s) - 1)) + s[Len(s)]

AllDigits(s) == s # <<>> /\ \A i \in DOMAIN s : s[i] \in 0..9

(* luaO_str2d, for the texts number2str writes *)
str2d(s) ==
  IF AllDigits(s) THEN Num(FromDigits(s))
  ELSE IF s # <<>> /\ s[1] = 10 /\ AllDigits(Tail(s)) THEN Num(-FromDigits(Tail(s)))
  ELSE IF s = <<11>> THEN NaN
  ELSE Failed

luaV_tonumber(x) ==
  CASE isnumber(x) -> x
    [] x.ty = "string" -> str2d(x.v)
    [] OTHER -> Failed

tostring(x) ==
  CASE x.ty = "string" -> x
    [] isnumber(x) -> Str(number2str(x))
    [] OTHER -> Failed

(* a - floor(a/b)*b *)
Modulo(a, b) ==
  CASE b > 0 -> Num(a % b)
    [] b < 0 -> Num(-((-a) % (-b)))
    [] OTHER -> NaN

luai_num(op, x, y) ==
  IF NaN \in {x, y} THEN NaN
  ELSE LET a == x.v[1]
           b == y.v[1]
       IN CASE op = "ADD" -> Num(a + b)
            [] op = "SUB" -> Num(a - b)
            [] op = "MUL" -> Num(a * b)
            [] op = "MOD" -> Modulo(a, b)
            [] op = "POW" -> Num(a ^ b)
            [] op = "UNM" -> Num(-a)

Arith(op, x, y) ==
  IF Failed \in {luaV_tonumber(x), luaV_tonumber(y)} THEN Failed
  ELSE luai_num(op, luaV_tonumber(x), luaV_tonumber(y))

(* the length of a string; the borders of a table *)
Length(x) == IF x.ty = "string" THEN Num(Len(x.v)) ELSE Failed

Borders(t) ==
  {n \in {0} \cup {k.v[1] : k \in {x \in DOMAIN t : isnumber(x)}} :
     n >= 0 /\ Num(n + 1) \notin DOMAIN t}

equalobj(x, y) == x = y /\ x # NaN

(* l_strcmp: strcoll of the "C" locale, and none of the texts holds a \0 *)
l_strless(s, t) ==
  \E i \in 1..Len(t) : /\ i <= Len(s) + 1
                       /\ \A j \in 1..(i - 1) : s[j] = t[j]
                       /\ i <= Len(s) => s[i] < t[i]

luaV_lessthan(x, y) ==
  IF x.ty # y.ty THEN Failed
  ELSE CASE isnumber(x) -> Bool(NaN \notin {x, y} /\ x.v[1] < y.v[1])
         [] x.ty = "string" -> Bool(l_strless(x.v, y.v))
         [] OTHER -> Failed

lessequal(x, y) ==
  IF x.ty # y.ty THEN Failed
  ELSE CASE isnumber(x) -> Bool(NaN \notin {x, y} /\ x.v[1] <= y.v[1])
         [] x.ty = "string" -> Bool(~l_strless(y.v, x.v))
         [] OTHER -> Failed
=============================================================================
