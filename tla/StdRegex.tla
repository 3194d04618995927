------------------------------ MODULE StdRegex ------------------------------
(***************************************************************************)
(* src/stdlib/regex.HC: RegMatch, a backtracking matcher whose calls are   *)
(* counted: by depth, which every way out of RegMatchHere gives back, and  *)
(* in all.  It is compared with a matcher that follows every choice at     *)
(* once and keeps the set of places reached.                               *)
(*                                                                         *)
(* p and s are what is left of the pattern and of the text.  The text is   *)
(* followed by a terminator and then by whatever is in memory.  A class of *)
(* 4096 characters, where the scan for its end gives up, is left out.      *)
(***************************************************************************)
EXTENDS Integers, Sequences, FiniteSetsExt

CONSTANTS
    Letters,        \* the characters of texts
    Signs,          \* the characters that patterns have besides
    End,            \* the terminator of a string
    MaxDepth,       \* REG_MAX_DEPTH: 500
    MaxIter,        \* REG_MAX_ITER: 100000
    MaxPattern,     \* bound: the length of a pattern
    MaxText         \* bound: the length of a text

VARIABLE pattern    \* the pattern a client writes, character by character

Texts == UNION {[1 .. n -> Letters] : n \in 0 .. MaxText}
Behinds == {<<>>} \cup {<<c>> : c \in Letters}     \* bound: one character
Memory(t, b) == t \o <<End>> \o b \o [i \in 1 .. MaxPattern |-> End]

From(x, n) == SubSeq(x, n, Len(x))
Second(p) == IF Len(p) > 1 THEN p[2] ELSE End

-----------------------------------------------------------------------------
(* The matcher.  A call answers with the counters it leaves behind.        *)

Closes(p) == {n \in 2 .. Len(p) : p[n] = "]"}
RegMatchClass(p, c) == \E n \in 2 .. Min(Closes(p)) - 1 : p[n] = c
ClassRest(p) == From(p, Min(Closes(p)) + 1)

Answer(r, c) == [match |-> r, depth |-> c.depth, iter |-> c.iter]

RECURSIVE RegMatchHere(_, _, _), RegMatchStar(_, _, _, _)

RegMatchStar(ch, p, s, c) ==
    LET here == RegMatchHere(p, s, c)
    IN  IF here.match \/ s[1] = End \/ (s[1] # ch /\ ch # ".")
        THEN here
        ELSE RegMatchStar(ch, p, Tail(s), here)

InClass(p, s, c) ==
    IF Closes(p) = {} \/ s[1] = End \/ ~RegMatchClass(p, s[1])
    THEN Answer(FALSE, c)
    ELSE IF ClassRest(p) # <<>> /\ ClassRest(p)[1] = "*"
    THEN RegMatchStar(".", Tail(ClassRest(p)), s, c)
    ELSE RegMatchHere(ClassRest(p), Tail(s), c)

Takes(ch, s) == s[1] # End /\ (ch = "." \/ s[1] = ch)

OnceOrMore(p, s, c) ==
    IF Takes(p[1], s) THEN RegMatchStar(p[1], From(p, 3), Tail(s), c)
    ELSE Answer(FALSE, c)

Optional(p, s, c) ==
    LET with == RegMatchHere(From(p, 3), Tail(s), c)
    IN  IF ~Takes(p[1], s) THEN RegMatchHere(From(p, 3), s, c)
        ELSE IF with.match THEN with
        ELSE RegMatchHere(From(p, 3), s, with)

Once(p, s, c) ==
    IF p[1] = "." \/ s[1] = p[1] THEN RegMatchHere(Tail(p), Tail(s), c)
    ELSE Answer(FALSE, c)

\* RegMatchHere between _reg_depth++ and the _reg_depth-- of each return.
Body(p, s, c) ==
    IF c.depth > MaxDepth \/ c.iter > MaxIter THEN Answer(FALSE, c)
    ELSE IF p = <<>> THEN Answer(TRUE, c)
    ELSE IF p = <<"$">> THEN Answer(s[1] = End, c)
    ELSE IF p[1] = "[" THEN InClass(p, s, c)
    ELSE CASE Second(p) = "*" -> RegMatchStar(p[1], From(p, 3), s, c)
           [] Second(p) = "+" -> OnceOrMore(p, s, c)
           [] Second(p) = "?" -> Optional(p, s, c)
           [] OTHER -> Once(p, s, c)

Entered(c) == [depth |-> c.depth + 1, iter |-> c.iter + 1]

\* MUTANT of RegMatchHere: a call refused for its depth is not given back.
RefusedStaysCounted(p, s, c) ==
    LET x == Body(p, s, Entered(c))
    IN  IF c.depth = MaxDepth THEN x ELSE [x EXCEPT !.depth = @ - 1]

RegMatchHere(p, s, c) ==
    LET x == Body(p, s, Entered(c)) IN [x EXCEPT !.depth = @ - 1]

RECURSIVE Anywhere(_, _, _)
Anywhere(p, s, c) ==
    LET here == RegMatchHere(p, s, c)
    IN  IF here.match \/ s[1] = End THEN here ELSE Anywhere(p, Tail(s), here)

RegMatch(p, s) ==
    LET c == [depth |-> 0, iter |-> 0]
    IN  IF p # <<>> /\ p[1] = "^" THEN RegMatchHere(Tail(p), s, c)
                                  ELSE Anywhere(p, s, c)

-----------------------------------------------------------------------------
(* What a pattern means, from the code's reading of it: elements, each a   *)
(* set of characters and a sign that repeats it.                           *)

RECURSIVE Elements(_)
Elements(p) ==
    LET isClass == p[1] = "["
        chars == IF isClass THEN {c \in Letters : RegMatchClass(p, c)}
                 ELSE IF p[1] = "." THEN Letters
                 ELSE {p[1]} \cap Letters
        rest == IF isClass THEN ClassRest(p) ELSE Tail(p)
        sign == IF rest = <<>> \/ rest[1] \notin {"*", "+", "?"} THEN "once" ELSE rest[1]
    IN  IF p \in {<<>>, <<"$">>} THEN <<>>
        ELSE IF isClass /\ Closes(p) = {}
        THEN <<[class |-> TRUE, dot |-> FALSE, chars |-> {}, sign |-> "once"]>>
        ELSE <<[class |-> isClass, dot |-> p[1] = ".", chars |-> chars, sign |-> sign]>>
             \o Elements(IF sign = "once" THEN rest ELSE Tail(rest))

\* The places one character further, and any number of characters further.
OneOn(t, chars, S) == {i + 1 : i \in {j \in S : j < Len(t) /\ t[j + 1] \in chars}}
AnyOn(t, chars, S) ==
    {j \in 0 .. Len(t) : \E i \in S : i <= j /\ \A x \in i + 1 .. j : t[x] \in chars}

Behind(t, e, S) ==
    CASE e.sign = "once" -> OneOn(t, e.chars, S)
      [] e.sign = "?" -> S \cup OneOn(t, e.chars, S)
      [] e.sign = "+" -> AnyOn(t, e.chars, OneOn(t, e.chars, S))
      [] e.sign = "*" -> AnyOn(t, e.chars, S)

Anchored(p) == p # <<>> /\ p[1] = "^"
Free(p) == IF Anchored(p) THEN Tail(p) ELSE p

\* The places behind the first n elements.
Places(p, t, n) ==
    LET e == Elements(Free(p))
        at[i \in 0 .. Len(e)] ==
          IF i = 0 THEN (IF Anchored(p) THEN {0} ELSE 0 .. Len(t)) ELSE Behind(t, e[i], at[i - 1])
    IN  at[n]

Matches(p, t) ==
    LET found == Places(p, t, Len(Elements(Free(p))))
    IN  IF p # <<>> /\ p[Len(p)] = "$" THEN Len(t) \in found ELSE found # {}

-----------------------------------------------------------------------------
Init == pattern = <<>>

Write(c) ==
    /\ Len(pattern) < MaxPattern
    /\ pattern' = Append(pattern, c)

Next ==
    \/ \E c \in Letters \cup Signs : Write(c)
    \/ pattern # <<>> /\ pattern' = <<>>       \* another pattern

Spec == Init /\ [][Next]_pattern

-----------------------------------------------------------------------------
(* Properties.                                                             *)

\* What a class with a sign and a dot at the end of the text match is not what
\* the documentation says of them.
ClassRepeated(p) ==
    \E n \in DOMAIN Elements(Free(p)) :
        Elements(Free(p))[n].class /\ Elements(Free(p))[n].sign # "once"
DotAtEnd(p, t) ==
    \E n \in DOMAIN Elements(Free(p)) :
        /\ Elements(Free(p))[n].dot /\ Elements(Free(p))[n].sign = "once"
        /\ Len(t) \in Places(p, t, n - 1)

Deep(p) == Len(Elements(Free(p))) >= MaxDepth

\* Backtracking finds a match exactly if there is one, unless it gave up for the
\* length of the pattern or the number of calls; then it finds none that is not
\* there.  It reads nothing behind the text, whatever is there.
MatchesExactly ==
    \A t \in Texts, b \in Behinds :
        ~ClassRepeated(pattern) /\ ~DotAtEnd(pattern, t) =>
            LET x == RegMatch(pattern, Memory(t, b))
            IN  /\ x.match => Matches(pattern, t)
                /\ Matches(pattern, t) => x.match \/ Deep(pattern) \/ x.iter > MaxIter

\* What was counted on the way in is given back on every way out, and once the
\* limit is reached only the loops that had begun go on.
CallsAreBounded ==
    \A t \in Texts, b \in Behinds :
        LET x == RegMatch(pattern, Memory(t, b))
        IN  /\ x.depth = 0
            /\ x.iter <= MaxIter + (MaxDepth + 2) * (Len(t) + 1)

\* docs/docs.html: "." matches any single character, "*" and "+" repeat the previous
\* element, which may be a class.
MatchesAsDocumented ==
    \A t \in Texts :
        LET x == RegMatch(pattern, Memory(t, <<>>))
        IN  x.match <=> Matches(pattern, t)
=============================================================================
