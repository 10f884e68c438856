------------------------------- MODULE Pattern -------------------------------
(***************************************************************************)
(* Pattern matching of the string library (src/src/lstrlib.c), with which  *)
(* the program reads boards and fills its help text.  The matcher tries    *)
(* the ways to match one after the other and keeps its captures in one     *)
(* place, which it has to restore whenever a way fails.  A pattern is a    *)
(* sequence of items, its character classes sets of characters.            *)
(***************************************************************************)
EXTENDS Integers, Sequences, SequencesExt, FiniteSets, FiniteSetsExt

CONSTANTS
  Chars,         \* The characters of the texts, a closing bracket among them.
  Nul,           \* The character after the end of a text.
  MaxCaptures,   \* LUA_MAXCAPTURES
  Inputs         \* The calls: a function (find, gmatch, gsub), a text, a
                 \* pattern, and the replacement of gsub.

\* As items, $ is the last one, and () is one item, never two.
WellFormed(q) ==
  \A p \in DOMAIN q : /\ q[p].op = "$" => p = Len(q)
                      /\ q[p].op = "(" => p = Len(q) \/ q[p + 1].op # ")"

\* What the constants have to be.
PatternAssumption ==
  /\ Nul \notin Chars /\ ")" \in Chars /\ MaxCaptures \in Nat \ {0}
  /\ \A i \in Inputs : i[1] \in {"find", "gmatch", "gsub"} /\ WellFormed(i[3])

VARIABLES
  text, pat, anchor,
  repl,      \* gsub: the replacement.
  mode,
  src,       \* The position the call has come to.
  found,     \* The matches so far: where they begin and end, their captures.
  out,       \* gsub: the result, piece by piece.
  max_s,     \* gsub: how many matches it may replace.
  pc

vars == <<text, pat, anchor, repl, mode, src, found, out, max_s, pc>>

\* Items: a class of characters with a suffix, or one of the special items.
Single(suffix, class) == [op |-> suffix, class |-> class, n |-> 0, b |-> Nul, e |-> Nul]
Special(op) == Single(op, {})
Back(n) == [Special("back") EXCEPT !.n = n]
Balance(b, e) == [Special("balance") EXCEPT !.b = b, !.e = e]

\* Replacements: a function, a table, or a text that names captures (%0: the
\* whole match).
Replacement(kind, uses) == [kind |-> kind, uses |-> uses]

CAP_UNFINISHED == -1
CAP_POSITION == -2

TextEnd == Len(text) + 1
At(s) == IF s \in 1..Len(text) THEN text[s] ELSE Nul

-----------------------------------------------------------------------------
(***************************************************************************)
(* The matcher.  It gives the end of the match, 0 if there is none, and    *)
(* the captures as it has left them: level of them are in use, the others  *)
(* are left over from ways that failed.                                    *)
(***************************************************************************)
NoCaptures == [level |-> 0, capture |-> [i \in 1..MaxCaptures |-> [init |-> 0, len |-> 0]]]

Ret(ms, e) == [ms |-> ms, e |-> e, error |-> FALSE]
Error(ms) == [ms |-> ms, e |-> 0, error |-> TRUE]
Decided(r) == r.e # 0 \/ r.error

singlematch(s, p) == s < TextEnd /\ text[s] \in pat[p].class

capture_to_close(ms) ==
  LET unfinished == {i \in 1..ms.level : ms.capture[i].len = CAP_UNFINISHED}
  IN  IF unfinished = {} THEN 0 ELSE Max(unfinished)

\* The bracket that closes the one at s, when cont are open before position k.
RECURSIVE Closing(_, _, _)
Closing(it, k, cont) ==
  CASE k >= TextEnd -> 0
    [] k < TextEnd /\ text[k] = it.e -> IF cont = 1 THEN k + 1 ELSE Closing(it, k + 1, cont - 1)
    [] k < TextEnd /\ text[k] # it.e /\ text[k] = it.b -> Closing(it, k + 1, cont + 1)
    [] OTHER -> Closing(it, k + 1, cont)

matchbalance(s, it) == IF At(s) # it.b THEN 0 ELSE Closing(it, s + 1, 1)

\* A capture is matched again; a position capture has no length to match.
match_capture(ms, s, i) ==
  LET c == ms.capture[i]
  IN  IF c.len >= 0 /\ TextEnd - s >= c.len
         /\ SubSeq(text, c.init, c.init + c.len - 1) = SubSeq(text, s, s + c.len - 1)
      THEN s + c.len ELSE 0

invalid_capture(ms, i) == i > ms.level \/ ms.capture[i].len = CAP_UNFINISHED

\* The longest run of the class of item p from s on.
run(s, p) == Max({i \in 0..(TextEnd - s) : \A k \in s..(s + i - 1) : singlematch(k, p)})

RECURSIVE match(_, _, _)

RECURSIVE max_expand(_, _, _, _)
max_expand(ms, s, p, i) ==
  LET r == match(ms, s + i, p + 1)
  IN  IF Decided(r) \/ i = 0 THEN r ELSE max_expand(r.ms, s, p, i - 1)

RECURSIVE min_expand(_, _, _)
min_expand(ms, s, p) ==
  LET r == match(ms, s, p + 1)
  IN  IF Decided(r) \/ ~singlematch(s, p) THEN r ELSE min_expand(r.ms, s + 1, p)

start_capture(ms, s, p, what) ==
  IF ms.level >= MaxCaptures THEN Error(ms)
  ELSE LET r == match([ms EXCEPT !.level = @ + 1,
                        !.capture[ms.level + 1] = [init |-> s, len |-> what]], s, p)
       IN  IF r.e = 0 THEN [r EXCEPT !.ms.level = @ - 1] ELSE r

end_capture_kept(ms, s, p) ==
  LET l == capture_to_close(ms)
  IN  IF l = 0 THEN Error(ms)
      ELSE match([ms EXCEPT !.capture[l].len = s - ms.capture[l].init], s, p)

end_capture(ms, s, p) ==
  LET l == capture_to_close(ms)
  IN  IF l = 0 THEN Error(ms)
      ELSE LET r == match([ms EXCEPT !.capture[l].len = s - ms.capture[l].init], s, p)
           IN  IF r.e = 0 THEN [r EXCEPT !.ms.capture[l].len = CAP_UNFINISHED] ELSE r

\* %f[class]: the class begins here.
frontier(s, class) == At(s - 1) \notin class /\ At(s) \in class

\* Items that match at s in one way, to the end e (0: not at all).
then(ms, e, p) == IF e = 0 THEN Ret(ms, 0) ELSE match(ms, e, p + 1)

match(ms, s, p) ==
  IF p > Len(pat) THEN Ret(ms, s)
  ELSE LET it == pat[p]
           m  == singlematch(s, p)
       IN  CASE it.op = "(" -> start_capture(ms, s, p + 1, CAP_UNFINISHED)
             [] it.op = "()" -> start_capture(ms, s, p + 1, CAP_POSITION)
             [] it.op = ")" -> end_capture(ms, s, p + 1)
             [] it.op = "back" -> IF invalid_capture(ms, it.n) THEN Error(ms)
                                  ELSE then(ms, match_capture(ms, s, it.n), p)
             [] it.op = "balance" -> then(ms, matchbalance(s, it), p)
             [] it.op = "frontier" -> then(ms, IF frontier(s, it.class) THEN s ELSE 0, p)
             [] it.op = "$" -> Ret(ms, IF s = TextEnd THEN s ELSE 0)
             [] it.op = "?" -> LET r == match(ms, s + 1, p + 1)
                               IN  IF m /\ Decided(r) THEN r
                                   ELSE match(IF m THEN r.ms ELSE ms, s, p + 1)
             [] it.op = "*" -> max_expand(ms, s, p, run(s, p))
             [] it.op = "+" -> IF m THEN max_expand(ms, s + 1, p, run(s + 1, p))
                               ELSE Ret(ms, 0)
             [] it.op = "-" -> min_expand(ms, s, p)
             [] OTHER -> then(ms, IF m THEN s + 1 ELSE 0, p)

\* The captures a successful match gives: the whole match if it has none.
push_captures(ms, s, e) ==
  IF ms.level = 0 THEN <<[init |-> s, len |-> e - s]>>
  ELSE SubSeq(ms.capture, 1, ms.level)

unfinished(caps) == \E i \in DOMAIN caps : caps[i].len = CAP_UNFINISHED

\* Whether capture i can be pushed: the first one stands for the whole match
\* when there is none.
push_onecapture(ms, i) ==
  IF i > ms.level THEN i = 1 ELSE ms.capture[i].len # CAP_UNFINISHED

-----------------------------------------------------------------------------
(***************************************************************************)
(* find, gmatch and gsub.                                                  *)
(***************************************************************************)
\* No item is one of SPECIALS, where a closing bracket is missing.
Literal ==
  \A p \in DOMAIN pat :
    \/ pat[p].op = ")"
    \/ pat[p].op = "one" /\ Cardinality(pat[p].class) = 1

Sought ==
  [p \in DOMAIN pat |->
     CHOOSE ch \in Chars : ch \in pat[p].class \/ (pat[p].op = ")" /\ ch = ")")]

\* The plain search: from the next place of its first character on.
RECURSIVE lmemfind(_, _)
lmemfind(s, p) ==
  LET first == {k \in s..(TextEnd - Len(p)) : text[k] = p[1]}
  IN  CASE p = <<>> -> s
        [] p # <<>> /\ first = {} -> 0
        [] OTHER -> IF SubSeq(text, Min(first), Min(first) + Len(p) - 1) = p THEN Min(first)
                    ELSE lmemfind(Min(first) + 1, p)

Match(s, e, ms) == [s |-> s, e |-> e, caps |-> push_captures(ms, s, e)]

Stop(why) == pc' = why /\ UNCHANGED <<text, pat, anchor, repl, mode, max_s>>

Go_on == UNCHANGED <<text, pat, anchor, repl, mode, max_s, pc>>

\* One position of the search of find (without anchor, for a plain text).
Find ==
  LET r == match(NoCaptures, src, 1)
      plain == lmemfind(src, Sought)
  IN  /\ mode = "find" /\ pc = "run"
      /\ out' = out
      /\ IF Literal /\ ~anchor
         THEN /\ found' = IF plain = 0 THEN <<>>
                          ELSE <<Match(plain, plain + Len(pat), NoCaptures)>>
              /\ src' = src
              /\ Stop("done")
         ELSE IF Decided(r)
         THEN /\ found' = IF r.error THEN <<>> ELSE <<Match(src, r.e, r.ms)>>
              /\ src' = src
              /\ Stop(IF r.error \/ unfinished(found'[1].caps) THEN "error" ELSE "done")
         ELSE /\ found' = found
              /\ src' = src + 1
              /\ IF src < TextEnd /\ ~anchor THEN Go_on ELSE Stop("done")

Gmatch_skips ==
  LET r == match(NoCaptures, src, 1)
  IN  /\ mode = "gmatch" /\ pc = "run" /\ src <= TextEnd
      /\ out' = out
      /\ CASE r.error -> found' = found /\ src' = src /\ Stop("error")
           [] r.e # 0 -> /\ found' = Append(found, Match(src, r.e, r.ms))
                         /\ src' = r.e + 1
                         /\ IF unfinished(Last(found').caps) THEN Stop("error") ELSE Go_on
           [] OTHER -> found' = found /\ src' = src + 1 /\ Go_on

\* One position of the search of a call of the iterator of gmatch; the last one
\* of a call that finds something leaves where the next call begins.
Gmatch ==
  LET r == match(NoCaptures, src, 1)
  IN  /\ mode = "gmatch" /\ pc = "run" /\ src <= TextEnd
      /\ out' = out
      /\ CASE r.error -> found' = found /\ src' = src /\ Stop("error")
           [] r.e # 0 -> /\ found' = Append(found, Match(src, r.e, r.ms))
                         /\ src' = IF r.e = src THEN r.e + 1 ELSE r.e
                         /\ IF unfinished(Last(found').caps) THEN Stop("error") ELSE Go_on
           [] OTHER -> found' = found /\ src' = src + 1 /\ Go_on

GmatchEnds ==
  /\ mode = "gmatch" /\ pc = "run" /\ src > TextEnd
  /\ UNCHANGED <<src, found, out>>
  /\ Stop("done")

\* The captures the replacement asks for: a function is given all of them, a
\* table is looked up with the first, a text takes those it names.
Asked(ms) ==
  CASE repl.kind = "function" -> 1..ms.level
    [] repl.kind = "table" -> {1}
    [] repl.kind = "text" -> repl.uses \ {0}

\* What add_value adds for a match: a text takes its place, and so does what a
\* function or table gives; the match itself stays when they give nothing.
add_value(s, e) ==
  {[s |-> s, e |-> e, new |-> b] : b \in IF repl.kind = "text" THEN {TRUE} ELSE BOOLEAN}

Rest == [s |-> src, e |-> TextEnd, new |-> FALSE]

\* One turn of the loop of gsub; a character that is no match is copied.
Gsub ==
  LET r == match(NoCaptures, src, 1)
      m == Match(src, r.e, r.ms)
  IN  /\ mode = "gsub" /\ pc = "run" /\ Len(found) < max_s
      /\ IF r.error \/ (r.e # 0 /\ \E i \in Asked(r.ms) : ~push_onecapture(r.ms, i))
         THEN UNCHANGED <<found, src, out>> /\ Stop("error")
         ELSE /\ found' = IF r.e # 0 THEN Append(found, m) ELSE found
              /\ \E added \in IF r.e # 0 THEN add_value(src, r.e) ELSE {Rest} :
                   LET out1 == IF r.e # 0 THEN Append(out, added) ELSE out
                   IN  \/ /\ r.e > src
                          /\ out' = out1 /\ src' = r.e
                          /\ IF anchor THEN Stop("rest") ELSE Go_on
                       \/ /\ r.e <= src /\ src < TextEnd
                          /\ out' = Append(out1, [s |-> src, e |-> src + 1, new |-> FALSE])
                          /\ src' = src + 1
                          /\ IF anchor THEN Stop("rest") ELSE Go_on
                       \/ /\ r.e <= src /\ src = TextEnd
                          /\ out' = out1 /\ src' = src
                          /\ Stop("rest")

\* The function or the table that gives a replacement may fail, or give no text.
GsubFails ==
  /\ mode = "gsub" /\ repl.kind # "text" /\ pc = "run" /\ Len(found) < max_s
  /\ match(NoCaptures, src, 1).e # 0
  /\ UNCHANGED <<src, found, out>>
  /\ Stop("error")

\* The rest of the text is copied.
GsubEnds ==
  /\ mode = "gsub"
  /\ pc = "rest" \/ (pc = "run" /\ Len(found) = max_s)
  /\ out' = Append(out, Rest)
  /\ UNCHANGED <<src, found>>
  /\ Stop("done")

-----------------------------------------------------------------------------
Init ==
  /\ \E i \in Inputs : mode = i[1] /\ text = i[2] /\ pat = i[3] /\ repl = i[4]
  /\ anchor \in (IF mode = "gmatch" THEN {FALSE} ELSE BOOLEAN)
  /\ src = 1 /\ found = <<>> /\ out = <<>> /\ pc = "run"
  /\ max_s \in (IF mode = "gsub" THEN {1, Len(text) + 1} ELSE {0})

Step == Find \/ Gmatch \/ GmatchEnds \/ Gsub \/ GsubFails \/ GsubEnds

\* A call that has returned.
Return == pc \in {"done", "error"} /\ UNCHANGED vars

Next == Step \/ Return

\* A call runs until it returns.
Looping == mode \in {"gmatch", "gsub"}
Fairness == WF_vars(Looping /\ Step)

Spec == Init /\ [][Next]_vars /\ Fairness

-----------------------------------------------------------------------------
(***************************************************************************)
(* What a pattern means: all ways to match from s on, the preferred ones   *)
(* first, each with captures of its own.  An error is a way that ends at   *)
(* -1.                                                                     *)
(***************************************************************************)
Way(e, caps) == <<[e |-> e, caps |-> caps]>>
Wrong == Way(-1, <<>>)

Repeats(s, p) == {i \in 0..(TextEnd - s) : \A k \in s..(s + i - 1) : singlematch(k, p)}
Upwards(n) == [i \in 1..(n + 1) |-> i - 1]

BalancedEnds(s, it) ==
  {e \in (s + 2)..TextEnd :
     /\ At(s) = it.b /\ At(e - 1) = it.e
     /\ Cardinality({k \in (s + 1)..(e - 1) : text[k] = it.e}) =
          1 + (IF it.b = it.e THEN 0 ELSE Cardinality({k \in (s + 1)..(e - 1) : text[k] = it.b}))}

RECURSIVE Ways(_, _, _)
Ways(s, p, caps) ==
  IF p > Len(pat) THEN Way(s, caps)
  ELSE LET it      == pat[p]
           open    == {i \in DOMAIN caps : caps[i].len = CAP_UNFINISHED}
           after(k) == Ways(k, p + 1, caps)
           each(ks) == FlattenSeq([i \in DOMAIN ks |-> after(s + ks[i])])
           most    == Max(Repeats(s, p))
           new(len) == IF Len(caps) = MaxCaptures THEN Wrong
                       ELSE Ways(s, p + 1, Append(caps, [init |-> s, len |-> len]))
       IN  CASE it.op = "(" -> new(CAP_UNFINISHED)
             [] it.op = "()" -> new(CAP_POSITION)
             [] it.op = ")" ->
                  IF open = {} THEN Wrong
                  ELSE Ways(s, p + 1, [caps EXCEPT ![Max(open)].len = s - caps[Max(open)].init])
             [] it.op = "back" ->
                  IF it.n \notin DOMAIN caps \/ it.n \in open THEN Wrong
                  ELSE LET c == caps[it.n]
                       IN  IF c.len # CAP_POSITION /\ s + c.len <= TextEnd
                              /\ \A k \in 0..(c.len - 1) : text[s + k] = text[c.init + k]
                           THEN after(s + c.len) ELSE <<>>
             [] it.op = "balance" ->
                  IF BalancedEnds(s, it) = {} THEN <<>> ELSE after(Min(BalancedEnds(s, it)))
             [] it.op = "frontier" ->
                  IF (s = 1 \/ text[s - 1] \notin it.class) /\ (s # TextEnd /\ text[s] \in it.class)
                  THEN after(s) ELSE <<>>
             [] it.op = "$" -> IF s = TextEnd THEN Way(s, caps) ELSE <<>>
             [] it.op = "?" -> each(Reverse(Upwards(Min({1, most}))))
             [] it.op = "*" -> each(Reverse(Upwards(most)))
             [] it.op = "+" -> each(Front(Reverse(Upwards(most))))
             [] it.op = "-" -> each(Upwards(most))
             [] OTHER -> IF most > 0 THEN after(s + 1) ELSE <<>>

Captures(ms) == SubSeq(ms.capture, 1, ms.level)

(***************************************************************************)
(* Properties.                                                             *)
(***************************************************************************)
\* The state is well typed.
TypeOK ==
  /\ src \in 1..(TextEnd + 1)
  /\ pc \in {"run", "rest", "done", "error"}
  /\ \A i \in DOMAIN found : 1 <= found[i].s /\ found[i].s <= found[i].e /\ found[i].e <= TextEnd

\* The matcher finds the first way in the order of preference, with its
\* captures and not with what is left of those of the ways that failed before;
\* it fails only if there is no way, and then its captures are as they were.
FirstWay ==
  pc = "run" /\ src <= TextEnd =>
    LET r == match(NoCaptures, src, 1)
        w == Ways(src, 1, <<>>)
    IN  CASE w = <<>> -> ~Decided(r) /\ r.ms.level = 0
          [] w # <<>> /\ w[1].e = -1 -> r.error
          [] OTHER -> ~r.error /\ r.e = w[1].e /\ Captures(r.ms) = w[1].caps

Can(s) == LET w == Ways(s, 1, <<>>) IN w # <<>> /\ w[1].e > 0
End(s) == Ways(s, 1, <<>>)[1].e

\* A pattern that is a text with closing brackets: there is no way to match it,
\* and find takes it for the text.
BracketText == Literal /\ ~anchor /\ \E p \in DOMAIN pat : pat[p].op = ")"
Occurs(s) == \A p \in DOMAIN pat : At(s + p - 1) = Sought[p]

\* find finds the leftmost match, if there is one: the plain search it makes
\* for a pattern without special characters finds what the matcher would find,
\* or, with closing brackets, the leftmost place of that text.
Leftmost ==
  mode = "find" /\ pc = "done" =>
    LET starts == {s \in 1..(IF anchor THEN 1 ELSE TextEnd) :
                     IF BracketText THEN Occurs(s) ELSE Can(s)}
        end(s) == IF BracketText THEN s + Len(pat) ELSE End(s)
    IN  IF starts = {} THEN found = <<>>
        ELSE found # <<>> /\ found[1].s = Min(starts) /\ found[1].e = end(Min(starts))

From(i) == IF i = 1 THEN 1
           ELSE LET m == found[i - 1] IN IF m.e = m.s THEN m.e + 1 ELSE m.e

\* gmatch and gsub find one match after the other, each the leftmost that
\* begins where the last one ended, or later if that one was empty: none is
\* left out, none overlaps, and no empty match is found twice.
Tiled ==
  Looping /\ ~anchor =>
    /\ \A i \in DOMAIN found :
         /\ found[i].e = End(found[i].s)
         /\ found[i].s = Min({s \in From(i)..TextEnd : Can(s)})
    /\ pc = "done" /\ (mode = "gsub" => Len(found) < max_s) =>
         ~\E s \in From(Len(found) + 1)..TextEnd : Can(s)

\* The pieces of the result of gsub are the whole text, in order: what is not
\* replaced is kept, what is replaced is a match, and a text replaces them all.
TextKept ==
  mode = "gsub" /\ pc = "done" =>
    /\ out[1].s = 1 /\ out[Len(out)].e = TextEnd
    /\ \A i \in 2..Len(out) : out[i].s = out[i - 1].e
    /\ \A i \in DOMAIN out : out[i].new =>
         \E k \in DOMAIN found : found[k].s = out[i].s /\ found[k].e = out[i].e
    /\ repl.kind = "text" => \A k \in DOMAIN found : \E i \in DOMAIN out :
         out[i] = [s |-> found[k].s, e |-> found[k].e, new |-> TRUE]

\* The loops of gmatch and gsub come to an end, whatever the pattern matches:
\* empty matches do not stop them.
Returns == Looping => <>(pc \in {"done", "error"})
=============================================================================
