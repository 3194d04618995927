--------------------------- MODULE FrontEndProofs ---------------------------
(***************************************************************************)
(* Theorems about the front end: about SemaEnv, for any names and bounds,  *)
(* when no nested scope declares a name twice, where EnvInv is inductive,  *)
(* so lookup is innermost; about the places of messages (LineCache), for   *)
(* texts of any length; about the directives, for any macros and files,    *)
(* which implement CondGroups because CondInv is inductive; and about the  *)
(* parser, for any text: BalanceInv is inductive, so what is accepted has  *)
(* its braces closed; about the scanners, for any text: ScanInv is         *)
(* inductive, so they agree where it does not part them; and about the     *)
(* names of any program: NameInv is inductive, so what Sema has checked is *)
(* what code is generated for; and about the formatter, for any text:      *)
(* FormatInv is inductive, so what it writes is read again as it was.      *)
(***************************************************************************)
EXTENDS SemaEnv, CommonLemmas, FiniteSetTheorems

CONSTANTS
  TextSize,                        \* bound: the length of a text, for LineCache
  Kinds, MaxTokens, MaxParseDepth, \* of Parser
  Macros, NoBody, Files, MainFile, AotMode, MaxInclude, MaxRead, \* of Preprocessor
  MaxBytes,                        \* of a character literal, for TextScan
  MaxOpen, MaxGap, MaxNest, Awkward         \* of Formatter

ASSUME TextSizeAssumption == TextSize \in Nat
ASSUME MaxIncludeAssumption == MaxInclude \in Nat \ {0}
ASSUME MaxBytesAssumption == MaxBytes \in Nat
ASSUME FormatAssumption == MaxOpen \in Nat /\ MaxGap \in Nat /\ MaxNest \in Nat

VARIABLES
  macros, files, conds, mode, depth, pp_errors, line, read,  \* Preprocessor
  line_offsets, last_query_offset, last_query_line, answer,  \* LineCache
  current, ahead, todo, errors, nested, reads,               \* Parser
  c, next, lex, comments, bytes, repl, fmt, miscounted, plain, parted, \* TextScan
  cur, nxt, new_line, on_directive, expected, brackets,      \* Formatter
  prev_kind_, indent_, paren_depth_, out

Places == INSTANCE LineCache WITH Size <- TextSize
Grammar == INSTANCE Parser
Scan == INSTANCE TextScan WITH depth <- comments
Format == INSTANCE Formatter WITH mode <- expected, open <- brackets
PP == INSTANCE Preprocessor
  WITH Names <- Macros, Undefined <- NoBody, errors <- pp_errors

\* Preprocessor: exactly the lines are taken whose groups have all chosen their
\* branch, which is why produce drops nothing; no file is read inside itself.
ImplementsGroups == PP!ImplementsGroups

\* LineCache: an offset is placed on its line whatever was asked before.
PlacedOnItsLine == Places!PlacedOnItsLine

\* Parser: what is accepted has its braces closed.
AcceptedIsBalanced == Grammar!AcceptedIsBalanced

\* TextScan: the REPL is within a comment or a literal exactly where the lexer is,
\* and the formatter finds the comment that the lexer skips.
ScannersAgree == Scan!TypeOK /\ Scan!ScannersAgree

\* Formatter: but for the texts that Awkward lets in, each token is written so that it
\* is read again as that token, not within a comment and on the line of a directive
\* only if it was.  docs/docs.html: "formatter mode tests verify formatting round-trips".
FormattingRoundTrips == Format!TypeOK /\ Format!RoundTrips

-----------------------------------------------------------------------------
(* The scopes.                                                             *)

\* Putting an element below a stack moves the others up.
LEMMA PutBelow ==
  ASSUME NEW S, NEW s \in Seq(S), NEW a \in S
  PROVE  /\ <<a>> \o s \in Seq(S)
         /\ Len(<<a>> \o s) = Len(s) + 1
         /\ (<<a>> \o s)[1] = a
         /\ \A k \in 1..Len(s) : (<<a>> \o s)[k + 1] = s[k]
OBVIOUS

\* The maximum is the element that bounds the others.
LEMMA MaxIs ==
  ASSUME NEW S, \A x \in S : x \in Nat, NEW k \in S, \A x \in S : x <= k
  PROVE  Max(S) = k
<1>1. k \in S /\ \A y \in S : k >= y
  OBVIOUS
<1>2. Max(S) \in S /\ \A y \in S : Max(S) >= y
  <2>1. \E x \in S : \A y \in S : x >= y
    BY <1>1
  <2> QED
    BY <2>1, Zenon DEF Max
<1> QED
  BY <1>1, <1>2

\* Numbers that bound a table of declarations stay good when it grows.
LEMMA Grows ==
  ASSUME TypeOK, NEW k \in 1..MaxDepth, home' = Append(home, k)
  PROVE  /\ Len(home) \in Nat /\ Len(home') = Len(home) + 1
         /\ home' \in Seq(1..MaxDepth)
         /\ home'[Fresh] = k
         /\ \A d \in 1..Len(home) : home'[d] = home[d] /\ d \in 1..Len(home')
         /\ Fresh \in 1..Len(home') /\ Fresh \in 0..Len(home') /\ Fresh # 0
         /\ \A d \in 0..Len(home) : d \in 0..Len(home')
<1>1. home \in Seq(1..MaxDepth)
  BY DEF TypeOK
<1>2. /\ home' \in Seq(1..MaxDepth) /\ Len(home') = Len(home) + 1
      /\ home'[Len(home) + 1] = k
      /\ \A d \in 1..Len(home) : home'[d] = home[d]
  BY <1>1, PushStack
<1>3. Len(home) \in Nat
  BY <1>1
<1> QED
  BY <1>2, <1>3 DEF Fresh

\* What TypeOK says of the elements.
LEMMA Elements ==
  ASSUME TypeOK
  PROVE  /\ Depth \in Nat \ {0} /\ Len(home) \in Nat
         /\ DOMAIN scopes = 1..Depth
         /\ \A k \in 1..Depth : scopes[k] \in [Names -> 0..Len(home)]
         /\ \A k \in 1..Depth, n \in Names : scopes[k][n] \in 0..Len(home)
         /\ \A n \in Names : /\ shadow[n] \in Seq(1..Len(home))
                             /\ Len(shadow[n]) \in Nat
                             /\ DOMAIN shadow[n] = 1..Len(shadow[n])
         /\ \A n \in Names : \A i \in DOMAIN shadow[n] : shadow[n][i] \in 1..Len(home)
         /\ \A d \in 1..Len(home) : home[d] \in 1..MaxDepth
<1>1. home \in Seq(1..MaxDepth) /\ scopes \in Seq([Names -> 0..Len(home)])
      /\ shadow \in [Names -> Seq(1..Len(home))] /\ Depth \in 1..MaxDepth
  BY DEF TypeOK
<1>2. /\ Depth \in Nat \ {0} /\ Len(home) \in Nat
      /\ DOMAIN scopes = 1..Depth
      /\ \A k \in 1..Depth : scopes[k] \in [Names -> 0..Len(home)]
  BY <1>1 DEF Depth
<1>3. \A n \in Names : /\ shadow[n] \in Seq(1..Len(home))
                       /\ Len(shadow[n]) \in Nat
                       /\ DOMAIN shadow[n] = 1..Len(shadow[n])
  BY <1>1
<1>4. \A n \in Names : \A i \in DOMAIN shadow[n] : shadow[n][i] \in 1..Len(home)
  BY <1>3
<1>5. \A d \in 1..Len(home) : home[d] \in 1..MaxDepth
  BY <1>1, ElementOfSeq
<1> QED
  BY <1>2, <1>3, <1>4, <1>5

\* A name whose stack, bindings and declarations a step leaves alone.
LEMMA Untouched ==
  ASSUME TypeOK, NEW n \in Names, Stacked(n), Depth' = Depth, shadow'[n] = shadow[n],
         \A k \in 1..Depth : scopes'[k][n] = scopes[k][n],
         \A d \in 1..Len(home) : home'[d] = home[d]
  PROVE  Stacked(n)'
<1>1. \A i \in DOMAIN shadow[n] : Made(n, i)' = Made(n, i)
  BY Elements DEF Made
<1>2. Depth \in Nat
  BY Elements
<1>3. \A i \in DOMAIN shadow'[n] : /\ Made(n, i)' \in 1..Depth'
                                   /\ scopes'[Made(n, i)'][n] # 0
  BY <1>1 DEF Stacked
<1>4. \A i, j \in DOMAIN shadow'[n] :
        i < j => Made(n, i)' < Made(n, j)' \/ (Made(n, i)' = 1 /\ Made(n, j)' = 1)
  BY <1>1 DEF Stacked
<1>5. ASSUME NEW k \in 1..Depth', scopes'[k][n] # 0
      PROVE  \E i \in DOMAIN shadow'[n] :
               /\ shadow'[n][i] = scopes'[k][n] /\ Made(n, i)' = k
               /\ \A j \in DOMAIN shadow'[n] : i < j => Made(n, j)' > k
  BY <1>1, <1>5 DEF Stacked
<1> QED
  BY <1>3, <1>4, <1>5 DEF Stacked

LEMMA PushScopeKeeps ==
  ASSUME EnvInv, pushScope
  PROVE  EnvInv'
<1>1. scopes \in Seq([Names -> 0..Len(home)]) /\ Nothing \in [Names -> 0..Len(home)]
      /\ Len(home) \in Nat /\ MaxDepth \in Nat
  BY EnvAssumption, Elements DEF EnvInv, TypeOK, Nothing
<1>2. /\ scopes' \in Seq([Names -> 0..Len(home)])
      /\ Depth' = Depth + 1 /\ Depth \in Nat \ {0}
      /\ scopes'[Depth + 1] = Nothing
      /\ \A k \in 1..Depth : scopes'[k] = scopes[k]
  BY <1>1, PushStack, Elements DEF pushScope, EnvInv, Depth
<1>3. TypeOK'
  BY <1>1, <1>2 DEF EnvInv, TypeOK, pushScope
<1>4. ASSUME NEW n \in Names
      PROVE  Stacked(n)'
  <2>1. Stacked(n) /\ UNCHANGED <<shadow, home>>
    BY DEF EnvInv, pushScope
  <2>2. \A i \in DOMAIN shadow[n] : Made(n, i)' = Made(n, i)
    BY <2>1 DEF Made
  <2>3. ASSUME NEW i \in DOMAIN shadow'[n]
        PROVE  Made(n, i)' \in 1..Depth' /\ scopes'[Made(n, i)'][n] # 0
    <3>1. Made(n, i) \in 1..Depth /\ scopes[Made(n, i)][n] # 0
      BY <2>1 DEF Stacked
    <3>2. Made(n, i)' = Made(n, i)
      BY <2>1, <2>2
    <3> QED
      BY <1>2, <3>1, <3>2
  <2>4. \A i, j \in DOMAIN shadow'[n] :
          i < j => Made(n, i)' < Made(n, j)' \/ (Made(n, i)' = 1 /\ Made(n, j)' = 1)
    BY <2>1, <2>2 DEF Stacked
  <2>5. ASSUME NEW k \in 1..Depth', scopes'[k][n] # 0
        PROVE  \E i \in DOMAIN shadow'[n] :
                 /\ shadow'[n][i] = scopes'[k][n] /\ Made(n, i)' = k
                 /\ \A j \in DOMAIN shadow'[n] : i < j => Made(n, j)' > k
    <3>1. k \in 1..Depth /\ scopes'[k] = scopes[k]
      BY <2>5, <1>2 DEF Nothing
    <3> QED
      BY <2>1, <2>2, <2>5, <3>1 DEF Stacked
  <2> QED
    BY <2>3, <2>4, <2>5 DEF Stacked
<1> QED
  BY <1>3, <1>4 DEF EnvInv

\* The scope closed made its binding last, so the binding is on top.
LEMMA PopScopeKeeps ==
  ASSUME EnvInv, popScope
  PROVE  EnvInv'
<1>1. TypeOK /\ Depth > 1 /\ home' = home /\ Depth \in Nat /\ Len(home) \in Nat
      /\ scopes \in Seq([Names -> 0..Len(home)])
  BY Elements DEF EnvInv, popScope, TypeOK
<1>2. /\ scopes' \in Seq([Names -> 0..Len(home)])
      /\ Depth' = Depth - 1
      /\ \A k \in 1..(Depth - 1) : scopes'[k] = scopes[k]
  BY <1>1, CutStack DEF popScope, Depth
<1>3. ASSUME NEW n \in Names
      PROVE  /\ shadow'[n] \in Seq(1..Len(home))
             /\ Len(shadow'[n]) <= Len(shadow[n])
             /\ \A i \in DOMAIN shadow'[n] : shadow'[n][i] = shadow[n][i]
             /\ \A i \in DOMAIN shadow'[n] : Made(n, i) < Depth
             /\ \A i \in DOMAIN shadow[n] : Made(n, i) < Depth => i \in DOMAIN shadow'[n]
  <2>1. Stacked(n) /\ shadow[n] \in Seq(1..Len(home)) /\ Len(shadow[n]) \in Nat
        /\ DOMAIN shadow[n] = 1..Len(shadow[n])
    BY <1>1, Elements DEF EnvInv
  <2>2. CASE scopes[Depth][n] # 0
    <3>1. PICK i \in DOMAIN shadow[n] :
             /\ shadow[n][i] = scopes[Depth][n] /\ Made(n, i) = Depth
             /\ \A j \in DOMAIN shadow[n] : i < j => Made(n, j) > Depth
      BY <2>1, <2>2, <1>1 DEF Stacked
    <3>2. i = Len(shadow[n])
      <4> DEFINE top == Len(shadow[n])
      <4>0. i \in 1..top /\ top \in Nat
        BY <2>1
      <4>1. top \in DOMAIN shadow[n] /\ i <= top
        BY <2>1, <4>0
      <4> HIDE DEF top
      <4>2. Made(n, top) \in 1..Depth
        BY <2>1, <4>1 DEF Stacked
      <4>3. ~(i < top)
        BY <3>1, <4>1, <4>2, <1>1
      <4> QED
        BY <4>0, <4>3 DEF top
    <3>3. shadow[n] # <<>> /\ lookup(n) = scopes[Depth][n]
      BY <3>1, <3>2 DEF lookup
    <3>4. shadow'[n] = SubSeq(shadow[n], 1, Len(shadow[n]) - 1)
      BY <2>2, <3>3 DEF popScope
    <3>5. /\ shadow'[n] \in Seq(1..Len(home))
          /\ Len(shadow'[n]) = Len(shadow[n]) - 1
          /\ \A j \in 1..(Len(shadow[n]) - 1) : shadow'[n][j] = shadow[n][j]
      BY <2>1, <3>3, <3>4, PopStack
    <3>6. DOMAIN shadow'[n] = 1..(Len(shadow[n]) - 1)
      BY <3>5
    <3>7. ASSUME NEW j \in 1..(Len(shadow[n]) - 1)
          PROVE  Made(n, j) < Depth
      <4>1. j \in DOMAIN shadow[n] /\ j < i
        BY <2>1, <3>2
      <4>2. Made(n, j) \in 1..Depth
        BY <2>1, <4>1 DEF Stacked
      <4> QED
        BY <2>1, <3>1, <4>1, <4>2, <1>1 DEF Stacked
    <3>8. ASSUME NEW j \in DOMAIN shadow[n], Made(n, j) < Depth
          PROVE  j \in DOMAIN shadow'[n]
      <4>1. j # i /\ j \in 1..Len(shadow[n])
        BY <2>1, <3>1, <3>8, <1>1
      <4> QED
        BY <2>1, <3>2, <3>6, <4>1
    <3>9. Len(shadow'[n]) <= Len(shadow[n])
      BY <2>1, <3>5
    <3> QED
      BY <3>5, <3>6, <3>7, <3>8, <3>9
  <2>3. CASE scopes[Depth][n] = 0
    <3>1. shadow'[n] = shadow[n]
      BY <2>3 DEF popScope
    <3>2. \A i \in DOMAIN shadow[n] : Made(n, i) \in 1..Depth /\ Made(n, i) # Depth
      BY <2>1, <2>3 DEF Stacked
    <3>3. \A i \in DOMAIN shadow[n] : Made(n, i) < Depth
      BY <3>2, <1>1
    <3> QED
      BY <2>1, <3>1, <3>3
  <2> QED
    BY <2>2, <2>3
<1>4. TypeOK'
  <2>1. shadow' \in [Names -> Seq(1..Len(home))]
    BY <1>3 DEF popScope
  <2>2. Depth' \in 1..MaxDepth
    BY <1>1, <1>2, EnvAssumption DEF TypeOK
  <2> QED
    BY <1>1, <1>2, <2>1, <2>2 DEF TypeOK
<1>5. ASSUME NEW n \in Names
      PROVE  Stacked(n)'
  <2>1. Stacked(n) /\ DOMAIN shadow'[n] \subseteq DOMAIN shadow[n]
    BY <1>1, <1>3, Elements DEF EnvInv
  <2>2. \A i \in DOMAIN shadow'[n] : Made(n, i)' = Made(n, i) /\ Made(n, i)' < Depth
    BY <1>1, <1>3 DEF Made
  <2>3. \A i \in DOMAIN shadow'[n] : Made(n, i)' \in 1..Depth'
                                     /\ scopes'[Made(n, i)'][n] # 0
    BY <2>1, <2>2, <1>1, <1>2 DEF Stacked
  <2>4. \A i, j \in DOMAIN shadow'[n] :
          i < j => Made(n, i)' < Made(n, j)' \/ (Made(n, i)' = 1 /\ Made(n, j)' = 1)
    BY <2>1, <2>2 DEF Stacked
  <2>5. ASSUME NEW k \in 1..Depth', scopes'[k][n] # 0
        PROVE  \E i \in DOMAIN shadow'[n] :
                 /\ shadow'[n][i] = scopes'[k][n] /\ Made(n, i)' = k
                 /\ \A j \in DOMAIN shadow'[n] : i < j => Made(n, j)' > k
    <3>1. k \in 1..Depth /\ k < Depth /\ scopes'[k] = scopes[k]
      BY <2>5, <1>1, <1>2
    <3>2. PICK i \in DOMAIN shadow[n] :
             /\ shadow[n][i] = scopes[k][n] /\ Made(n, i) = k
             /\ \A j \in DOMAIN shadow[n] : i < j => Made(n, j) > k
      BY <2>1, <2>5, <3>1 DEF Stacked
    <3>3. i \in DOMAIN shadow'[n] /\ shadow'[n][i] = shadow[n][i]
      BY <1>3, <3>1, <3>2
    <3> QED
      BY <2>1, <2>2, <3>1, <3>2, <3>3
  <2> QED
    BY <2>3, <2>4, <2>5 DEF Stacked
<1> QED
  BY <1>4, <1>5 DEF EnvInv

\* A declaration in scope k of a name that the scope does not bind yet, or in
\* the global scope: the scopes and the tables stay well formed, and the name
\* is bound to the new declaration.
LEMMA Bind ==
  ASSUME EnvInv, NEW n \in Names, NEW k \in 1..Depth,
         scopes' = [scopes EXCEPT ![k][n] = Fresh],
         home' = Append(home, k)
  PROVE  /\ scopes' \in Seq([Names -> 0..Len(home')])
         /\ Depth' = Depth
         /\ scopes'[k][n] = Fresh
         /\ \A j \in 1..Depth, m \in Names :
              (j # k \/ m # n) => scopes'[j][m] = scopes[j][m]
<1> DEFINE T == [Names -> 0..Len(home')]
           row == [scopes[k] EXCEPT ![n] = Fresh]
<1>1. TypeOK /\ k \in 1..MaxDepth
  BY Elements, EnvAssumption DEF EnvInv, TypeOK
<1>2. /\ Depth \in Nat \ {0} /\ DOMAIN scopes = 1..Depth
      /\ \A j \in 1..Depth : scopes[j] \in T
  <2>1. \A d \in 0..Len(home) : d \in 0..Len(home')
    BY <1>1, Grows
  <2>2. \A j \in 1..Depth : scopes[j] \in [Names -> 0..Len(home)]
    BY <1>1, Elements
  <2> QED
    BY <1>1, <2>1, <2>2, Elements
<1>3. scopes \in Seq(T)
  <2>1. [Names -> 0..Len(home)] \subseteq T
    <3>1. 0..Len(home) \subseteq 0..Len(home')
      BY <1>1, Grows
    <3> QED
      BY <3>1
  <2> QED
    BY <2>1, <1>1, SeqMonotonic DEF TypeOK
<1>4. row \in T /\ row[n] = Fresh /\ \A m \in Names : m # n => row[m] = scopes[k][m]
  BY <1>1, <1>2, Grows
<1>5. scopes' = [scopes EXCEPT ![k] = row]
  BY DEF row
<1> HIDE DEF row, T
<1>6. scopes' \in Seq(T) /\ Len(scopes') = Len(scopes)
      /\ \A j \in 1..Depth : scopes'[j] = IF j = k THEN row ELSE scopes[j]
  <2>1. k \in 1..Len(scopes)
    BY DEF Depth
  <2>2. scopes' \in Seq(T) /\ Len(scopes') = Len(scopes)
    BY <2>1, <1>3, <1>4, <1>5, ExceptSeq
  <2>3. \A j \in 1..Depth : scopes'[j] = IF j = k THEN row ELSE scopes[j]
    BY <1>2, <1>5
  <2> QED
    BY <2>2, <2>3
<1> QED
  BY <1>4, <1>6 DEF T, Depth

LEMMA DefineKeeps ==
  ASSUME EnvInv, ~Redeclare, NEW n \in Names, define(n)
  PROVE  EnvInv'
<1>1. /\ TypeOK /\ Depth \in Nat \ {0} /\ Depth \in 1..Depth /\ Depth \in 1..MaxDepth
      /\ home' = Append(home, Depth)
      /\ scopes' = [scopes EXCEPT ![Depth][n] = Fresh]
      /\ shadow' = [shadow EXCEPT ![n] = Append(@, Fresh)]
      /\ Depth = 1 \/ scopes[Depth][n] = 0
  BY Elements DEF EnvInv, define, TypeOK
<1>2. /\ scopes' \in Seq([Names -> 0..Len(home')])
      /\ Depth' = Depth
      /\ scopes'[Depth][n] = Fresh
      /\ \A j \in 1..Depth, m \in Names :
           (j # Depth \/ m # n) => scopes'[j][m] = scopes[j][m]
  BY <1>1, Bind
<1>3. /\ home' \in Seq(1..MaxDepth) /\ home'[Fresh] = Depth
      /\ \A d \in 1..Len(home) : home'[d] = home[d] /\ d \in 1..Len(home')
      /\ Fresh \in 1..Len(home') /\ Fresh # 0
  BY <1>1, Grows
<1>4. ASSUME NEW m \in Names
      PROVE  shadow[m] \in Seq(1..Len(home'))
  <2>1. 1..Len(home) \subseteq 1..Len(home')
    BY <1>3
  <2> QED
    BY <2>1, <1>1, Elements, SeqMonotonic
<1>5. /\ shadow'[n] \in Seq(1..Len(home'))
      /\ DOMAIN shadow'[n] = 1..(Len(shadow[n]) + 1)
      /\ DOMAIN shadow[n] = 1..Len(shadow[n]) /\ Len(shadow[n]) \in Nat
      /\ shadow'[n][Len(shadow[n]) + 1] = Fresh
      /\ \A i \in 1..Len(shadow[n]) : shadow'[n][i] = shadow[n][i]
  <2>1. shadow'[n] = Append(shadow[n], Fresh)
    BY <1>1 DEF TypeOK
  <2>2. Len(shadow'[n]) = Len(shadow[n]) + 1 /\ shadow'[n] \in Seq(1..Len(home'))
    BY <2>1, <1>3, <1>4, PushStack
  <2> QED
    BY <2>1, <2>2, <1>1, <1>3, <1>4, PushStack, Elements
<1>6. TypeOK'
  <2>1. shadow' \in [Names -> Seq(1..Len(home'))]
    BY <1>1, <1>4, <1>5 DEF TypeOK
  <2> QED
    BY <1>1, <1>2, <1>3, <2>1 DEF TypeOK
<1>7. ASSUME NEW m \in Names, m # n
      PROVE  Stacked(m)'
  <2>1. shadow'[m] = shadow[m] /\ Stacked(m)
    BY <1>1, <1>7 DEF TypeOK, EnvInv
  <2> QED
    BY <2>1, <1>1, <1>2, <1>3, <1>7, Untouched
<1>8. Stacked(n)'
  <2>0. PICK new \in Nat : new = Len(shadow[n]) + 1
    BY <1>5
  <2>1. Stacked(n) /\ \A i \in DOMAIN shadow[n] : Made(n, i) \in 1..Depth
    BY DEF EnvInv, Stacked
  <2>2. \A i \in DOMAIN shadow[n] : i \in DOMAIN shadow'[n] /\ i < new
                                    /\ Made(n, i)' = Made(n, i)
    BY <1>1, <1>3, <1>5, <2>0, Elements DEF Made
  <2>3. Made(n, new)' = Depth /\ new \in DOMAIN shadow'[n]
    BY <1>3, <1>5, <2>0 DEF Made
  <2>4. \A i \in DOMAIN shadow'[n] : i = new \/ i \in DOMAIN shadow[n]
    BY <1>5, <2>0
  <2>5. \A i \in DOMAIN shadow[n] : Made(n, i) < Depth \/ (Depth = 1 /\ Made(n, i) = 1)
    BY <1>1, <2>1 DEF Stacked
  <2>6. \A i \in DOMAIN shadow'[n] : Made(n, i)' \in 1..Depth'
                                     /\ scopes'[Made(n, i)'][n] # 0
    <3>1. ASSUME NEW i \in DOMAIN shadow[n]
          PROVE  Made(n, i)' \in 1..Depth' /\ scopes'[Made(n, i)'][n] # 0
      <4>1. Made(n, i)' = Made(n, i) /\ Made(n, i) \in 1..Depth /\ scopes[Made(n, i)][n] # 0
        BY <2>1, <2>2 DEF Stacked
      <4>2. CASE Made(n, i) = Depth
        BY <4>1, <4>2, <1>2, <1>3
      <4>3. CASE Made(n, i) # Depth
        BY <4>1, <4>3, <1>2
      <4> QED
        BY <4>2, <4>3
    <3>2. Made(n, new)' \in 1..Depth' /\ scopes'[Made(n, new)'][n] # 0
      BY <2>3, <1>1, <1>2, <1>3
    <3> QED
      BY <3>1, <3>2, <2>4
  <2>7. ASSUME NEW i \in DOMAIN shadow'[n], NEW j \in DOMAIN shadow'[n], i < j
        PROVE  Made(n, i)' < Made(n, j)' \/ (Made(n, i)' = 1 /\ Made(n, j)' = 1)
    <3>0. new \in Nat /\ i \in Nat /\ j \in Nat /\ DOMAIN shadow'[n] = 1..new
      BY <1>5, <2>0
    <3>1. i \in DOMAIN shadow[n]
      <4>1. i # new
        BY <2>7, <3>0
      <4> QED
        BY <2>4, <4>1
    <3>2. CASE j = new
      BY <3>1, <3>2, <2>2, <2>3, <2>5
    <3>3. CASE j \in DOMAIN shadow[n]
      BY <3>1, <3>3, <2>1, <2>2, <2>7 DEF Stacked
    <3> QED
      BY <2>4, <3>2, <3>3
  <2>8. ASSUME NEW k \in 1..Depth', scopes'[k][n] # 0
        PROVE  \E i \in DOMAIN shadow'[n] :
                 /\ shadow'[n][i] = scopes'[k][n] /\ Made(n, i)' = k
                 /\ \A j \in DOMAIN shadow'[n] : i < j => Made(n, j)' > k
    <3>1. CASE k = Depth
      <4>1. \A j \in DOMAIN shadow'[n] : ~(new < j)
        BY <1>5, <2>0
      <4> QED
        BY <3>1, <4>1, <2>0, <2>3, <1>2, <1>5
    <3>2. CASE k # Depth
      <4>1. k \in 1..Depth /\ k < Depth /\ scopes'[k][n] = scopes[k][n]
        BY <3>2, <1>1, <1>2
      <4>2. PICK i \in DOMAIN shadow[n] :
               /\ shadow[n][i] = scopes[k][n] /\ Made(n, i) = k
               /\ \A j \in DOMAIN shadow[n] : i < j => Made(n, j) > k
        BY <2>1, <2>8, <4>1 DEF Stacked
      <4>3. shadow'[n][i] = shadow[n][i]
        BY <1>5
      <4>4. \A j \in DOMAIN shadow'[n] : i < j => Made(n, j)' > k
        BY <2>2, <2>3, <2>4, <4>1, <4>2
      <4> QED
        BY <2>2, <4>1, <4>2, <4>3, <4>4
    <3> QED
      BY <3>1, <3>2
  <2> QED
    BY <2>6, <2>7, <2>8 DEF Stacked
<1> QED
  BY <1>6, <1>7, <1>8 DEF EnvInv

\* A global declared from inside goes below every declaration of its name, which
\* are all of inner scopes.
LEMMA DefineGlobalKeeps ==
  ASSUME EnvInv, ~Redeclare, NEW n \in Names, defineGlobal(n)
  PROVE  EnvInv'
<1>1. /\ TypeOK /\ Depth \in Nat \ {0} /\ 1 \in 1..Depth /\ 1 \in 1..MaxDepth
      /\ Depth \in 1..MaxDepth
      /\ home' = Append(home, 1)
      /\ scopes' = [scopes EXCEPT ![1][n] = Fresh]
      /\ shadow' = [shadow EXCEPT ![n] = <<Fresh>> \o @]
      /\ scopes[1][n] = 0
  BY Elements, EnvAssumption DEF EnvInv, defineGlobal, TypeOK
<1>2. /\ scopes' \in Seq([Names -> 0..Len(home')])
      /\ Depth' = Depth
      /\ scopes'[1][n] = Fresh
      /\ \A j \in 1..Depth, m \in Names :
           (j # 1 \/ m # n) => scopes'[j][m] = scopes[j][m]
  BY <1>1, Bind
<1>3. /\ home' \in Seq(1..MaxDepth) /\ home'[Fresh] = 1
      /\ \A d \in 1..Len(home) : home'[d] = home[d] /\ d \in 1..Len(home')
      /\ Fresh \in 1..Len(home') /\ Fresh # 0
  BY <1>1, Grows
<1>4. ASSUME NEW m \in Names
      PROVE  shadow[m] \in Seq(1..Len(home'))
  <2>1. 1..Len(home) \subseteq 1..Len(home')
    BY <1>3
  <2> QED
    BY <2>1, <1>1, Elements, SeqMonotonic
<1>5. /\ shadow'[n] \in Seq(1..Len(home'))
      /\ DOMAIN shadow'[n] = 1..(Len(shadow[n]) + 1)
      /\ DOMAIN shadow[n] = 1..Len(shadow[n]) /\ Len(shadow[n]) \in Nat
      /\ shadow'[n][1] = Fresh
      /\ \A i \in 1..Len(shadow[n]) : shadow'[n][i + 1] = shadow[n][i]
  <2>1. shadow'[n] = <<Fresh>> \o shadow[n]
    BY <1>1 DEF TypeOK
  <2>2. /\ shadow'[n] \in Seq(1..Len(home')) /\ Len(shadow'[n]) = Len(shadow[n]) + 1
        /\ shadow'[n][1] = Fresh
        /\ \A i \in 1..Len(shadow[n]) : shadow'[n][i + 1] = shadow[n][i]
    BY <2>1, <1>3, <1>4, PutBelow
  <2>3. DOMAIN shadow'[n] = 1..Len(shadow'[n])
    BY <2>2
  <2> QED
    BY <2>2, <2>3, <1>1, Elements
<1>6. TypeOK'
  <2>1. shadow' \in [Names -> Seq(1..Len(home'))]
    BY <1>1, <1>4, <1>5 DEF TypeOK
  <2> QED
    BY <1>1, <1>2, <1>3, <2>1 DEF TypeOK
<1>7. ASSUME NEW m \in Names, m # n
      PROVE  Stacked(m)'
  <2>1. shadow'[m] = shadow[m] /\ Stacked(m)
    BY <1>1, <1>7 DEF TypeOK, EnvInv
  <2> QED
    BY <2>1, <1>1, <1>2, <1>3, <1>7, Untouched
<1>8. Stacked(n)'
  <2>1. Stacked(n) /\ \A i \in DOMAIN shadow[n] : Made(n, i) \in 2..Depth
    <3>1. Stacked(n)
      BY DEF EnvInv
    <3>2. \A i \in DOMAIN shadow[n] : Made(n, i) \in 1..Depth /\ Made(n, i) # 1
      BY <1>1, <3>1 DEF Stacked
    <3> QED
      BY <1>1, <3>1, <3>2
  <2>2. \A i \in DOMAIN shadow[n] : /\ i + 1 \in DOMAIN shadow'[n]
                                    /\ Made(n, i + 1)' = Made(n, i)
    <3>1. ASSUME NEW i \in DOMAIN shadow[n]
          PROVE  i + 1 \in DOMAIN shadow'[n] /\ home'[shadow'[n][i + 1]] = home[shadow[n][i]]
      <4>1. i \in 1..Len(shadow[n]) /\ shadow'[n][i + 1] = shadow[n][i]
        BY <1>5
      <4>2. shadow[n][i] \in 1..Len(home)
        BY <1>1, Elements
      <4>3. home'[shadow[n][i]] = home[shadow[n][i]]
        BY <4>2, <1>3
      <4>4. i + 1 \in DOMAIN shadow'[n]
        BY <1>5
      <4> QED
        BY <4>1, <4>3, <4>4
    <3> QED
      BY <3>1 DEF Made
  <2>3. Made(n, 1)' = 1 /\ 1 \in DOMAIN shadow'[n]
    BY <1>3, <1>5 DEF Made
  <2>4. \A i \in DOMAIN shadow'[n] : i = 1 \/ \E h \in DOMAIN shadow[n] : i = h + 1
    <3>1. ASSUME NEW i \in DOMAIN shadow'[n], i # 1
          PROVE  i - 1 \in DOMAIN shadow[n] /\ i = (i - 1) + 1
      <4>1. shadow[n] \in Seq(1..Len(home)) /\ Len(shadow[n]) \in Nat
        BY <1>1, Elements
      <4>2. DOMAIN shadow[n] = 1..Len(shadow[n])
        BY <4>1
      <4>3. i \in 1..Len(shadow[n]) + 1
        BY <1>5
      <4> QED
        BY <3>1, <4>1, <4>2, <4>3
    <3> QED
      BY <3>1
  <2>5. \A i \in DOMAIN shadow'[n] : Made(n, i)' \in 1..Depth'
                                     /\ scopes'[Made(n, i)'][n] # 0
    <3>1. ASSUME NEW h \in DOMAIN shadow[n]
          PROVE  Made(n, h + 1)' \in 1..Depth' /\ scopes'[Made(n, h + 1)'][n] # 0
      <4>1. /\ Made(n, h + 1)' = Made(n, h) /\ Made(n, h) \in 1..Depth
            /\ Made(n, h) # 1 /\ scopes[Made(n, h)][n] # 0
        BY <2>1, <2>2, <1>1 DEF Stacked
      <4> QED
        BY <4>1, <1>2
    <3>2. Made(n, 1)' \in 1..Depth' /\ scopes'[Made(n, 1)'][n] # 0
      BY <2>3, <1>1, <1>2, <1>3
    <3> QED
      BY <3>1, <3>2, <2>4
  <2>6. ASSUME NEW i \in DOMAIN shadow'[n], NEW j \in DOMAIN shadow'[n], i < j
        PROVE  Made(n, i)' < Made(n, j)' \/ (Made(n, i)' = 1 /\ Made(n, j)' = 1)
    <3>0. i \in Nat \ {0} /\ j \in Nat \ {0} /\ DOMAIN shadow[n] \subseteq Nat
      BY <1>5
    <3>1. PICK h \in DOMAIN shadow[n] : j = h + 1
      BY <2>4, <2>6, <3>0
    <3>2. CASE i = 1
      BY <3>1, <3>2, <1>1, <2>1, <2>2, <2>3
    <3>3. CASE i # 1
      <4>1. PICK g \in DOMAIN shadow[n] : i = g + 1
        BY <2>4, <3>3
      <4>2. g < h
        BY <2>6, <3>0, <3>1, <4>1
      <4>3. Made(n, g) < Made(n, h) \/ (Made(n, g) = 1 /\ Made(n, h) = 1)
        BY <2>1, <4>2 DEF Stacked
      <4> QED
        BY <2>2, <3>1, <4>1, <4>3
    <3> QED
      BY <3>2, <3>3
  <2>7. ASSUME NEW k \in 1..Depth', scopes'[k][n] # 0
        PROVE  \E i \in DOMAIN shadow'[n] :
                 /\ shadow'[n][i] = scopes'[k][n] /\ Made(n, i)' = k
                 /\ \A j \in DOMAIN shadow'[n] : i < j => Made(n, j)' > k
    <3>1. CASE k = 1
      <4>1. \A j \in DOMAIN shadow'[n] : 1 < j => Made(n, j)' > 1
        <5>1. \A h \in DOMAIN shadow[n] : Made(n, h + 1)' > 1
          BY <2>1, <2>2, <1>1
        <5> QED
          BY <5>1, <2>4
      <4> QED
        BY <3>1, <4>1, <2>3, <1>2, <1>5
    <3>2. CASE k # 1
      <4>1. k \in 1..Depth /\ k > 1 /\ scopes'[k][n] = scopes[k][n]
        BY <3>2, <1>1, <1>2
      <4>2. PICK i \in DOMAIN shadow[n] :
               /\ shadow[n][i] = scopes[k][n] /\ Made(n, i) = k
               /\ \A j \in DOMAIN shadow[n] : i < j => Made(n, j) > k
        BY <2>1, <2>7, <4>1 DEF Stacked
      <4>3. shadow'[n][i + 1] = shadow[n][i] /\ i \in Nat \ {0}
        BY <1>5
      <4>4. ASSUME NEW j \in DOMAIN shadow'[n], i + 1 < j
            PROVE  Made(n, j)' > k
        <5>0. j # 1 /\ DOMAIN shadow[n] \subseteq Nat
          BY <4>3, <4>4, <1>5
        <5>1. PICK h \in DOMAIN shadow[n] : j = h + 1
          BY <2>4, <5>0
        <5>2. i < h
          BY <4>3, <4>4, <5>0, <5>1
        <5> QED
          BY <2>2, <4>2, <5>1, <5>2
      <4> QED
        BY <2>2, <4>1, <4>2, <4>3, <4>4
    <3> QED
      BY <3>1, <3>2
  <2> QED
    BY <2>5, <2>6, <2>7 DEF Stacked
<1> QED
  BY <1>6, <1>7, <1>8 DEF EnvInv

LEMMA InitEnv ==
  ASSUME Init
  PROVE  EnvInv
<1>1. home = <<>> /\ Len(home) = 0 /\ scopes = <<Nothing>> /\ Depth = 1
  BY DEF Init, Depth
<1>2. Nothing \in [Names -> 0..Len(home)]
  BY <1>1 DEF Nothing
<1>3. scopes \in Seq([Names -> 0..Len(home)])
  BY <1>1, <1>2
<1>4. shadow \in [Names -> Seq(1..Len(home))]
  BY DEF Init
<1>5. home \in Seq(1..MaxDepth) /\ Depth \in 1..MaxDepth
  BY <1>1, EnvAssumption
<1>6. ASSUME NEW n \in Names
      PROVE  Stacked(n)
  <2>1. shadow[n] = <<>> /\ DOMAIN shadow[n] = {}
    BY DEF Init
  <2>2. \A k \in 1..Depth : scopes[k][n] = 0
    BY <1>1 DEF Nothing
  <2> QED
    BY <2>1, <2>2 DEF Stacked
<1> QED
  BY <1>3, <1>4, <1>5, <1>6 DEF EnvInv, TypeOK

LEMMA StepEnv ==
  ASSUME EnvInv, ~Redeclare, [Next]_vars
  PROVE  EnvInv'
<1>1. CASE pushScope
  BY <1>1, PushScopeKeeps
<1>2. CASE popScope
  BY <1>2, PopScopeKeeps
<1>3. ASSUME NEW n \in Names, define(n)
      PROVE  EnvInv'
  BY <1>3, DefineKeeps
<1>4. ASSUME NEW n \in Names, defineGlobal(n)
      PROVE  EnvInv'
  BY <1>4, DefineGlobalKeeps
<1>5. CASE UNCHANGED vars
  BY <1>5 DEF vars, EnvInv, TypeOK, Stacked, Made, Depth
<1> QED
  BY <1>1, <1>2, <1>3, <1>4, <1>5 DEF Next

\* The stacks of declarations mirror the open scopes, in every program that
\* declares no name twice in a nested scope (Env.h, pushScope to defineGlobal).
THEOREM EnvInvariant ==
  ASSUME ~Redeclare
  PROVE  Spec => []EnvInv
<1>1. Init => EnvInv
  BY InitEnv
<1>2. EnvInv /\ [Next]_vars => EnvInv'
  BY StepEnv
<1> QED
  BY <1>1, <1>2, PTL DEF Spec

\* The scopes and stacks only ever hold declarations that were made.
THEOREM EnvTypeCorrectness ==
  ASSUME ~Redeclare
  PROVE  Spec => []TypeOK
<1>1. EnvInv => TypeOK
  BY DEF EnvInv
<1> QED
  BY <1>1, EnvInvariant, PTL

\* EnvInv puts the binding of the innermost scope on top of the stack, where
\* lookup reads it.
LEMMA InnermostOnTop ==
  ASSUME EnvInv
  PROVE  LookupIsInnermost
<1> SUFFICES ASSUME NEW n \in Names
             PROVE  lookup(n) = IF Binding(n) = {} THEN 0 ELSE scopes[Max(Binding(n))][n]
  BY DEF LookupIsInnermost
<1>1. /\ Stacked(n) /\ Len(shadow[n]) \in Nat /\ DOMAIN shadow[n] = 1..Len(shadow[n])
      /\ Depth \in Nat
  BY Elements DEF EnvInv
<1>2. CASE shadow[n] = <<>>
  <2>1. Binding(n) = {}
    BY <1>1, <1>2 DEF Binding, Stacked
  <2> QED
    BY <1>2, <2>1 DEF lookup
<1>3. CASE shadow[n] # <<>>
  <2>0. PICK top \in Nat : top = Len(shadow[n])
    BY <1>1
  <2>1. top \in DOMAIN shadow[n] /\ lookup(n) = shadow[n][top]
    BY <1>1, <1>3, <2>0 DEF lookup
  <2>2. PICK k \in 1..Depth : k = Made(n, top) /\ scopes[k][n] # 0
    BY <1>1, <2>1 DEF Stacked
  <2>3. \A j \in DOMAIN shadow[n] : Made(n, j) <= k
    <3>1. ASSUME NEW j \in DOMAIN shadow[n]
          PROVE  Made(n, j) <= k
      <4>1. j = top \/ j < top
        BY <1>1, <2>0
      <4>2. Made(n, j) \in 1..Depth /\ k \in Nat
        BY <1>1, <2>2 DEF Stacked
      <4>3. CASE j < top
        <5>1. Made(n, j) < Made(n, top) \/ (Made(n, j) = 1 /\ Made(n, top) = 1)
          BY <1>1, <2>1, <4>3 DEF Stacked
        <5> QED
          BY <2>2, <4>2, <5>1
      <4> QED
        BY <2>2, <4>1, <4>2, <4>3
    <3> QED
      BY <3>1
  <2>4. PICK i \in DOMAIN shadow[n] :
           /\ shadow[n][i] = scopes[k][n] /\ Made(n, i) = k
           /\ \A j \in DOMAIN shadow[n] : i < j => Made(n, j) > k
    BY <1>1, <2>2 DEF Stacked
  <2>5. i = top
    <3>1. i <= top /\ i \in Nat
      BY <1>1, <2>0
    <3>2. ~(i < top)
      BY <2>1, <2>2, <2>4
    <3> QED
      BY <3>1, <3>2
  <2>6. k \in Binding(n) /\ \A b \in Binding(n) : b <= k
    <3>1. ASSUME NEW b \in Binding(n)
          PROVE  b <= k
      <4>1. PICK j \in DOMAIN shadow[n] : Made(n, j) = b
        BY <1>1 DEF Binding, Stacked
      <4> QED
        BY <4>1, <2>3
    <3> QED
      BY <2>2, <3>1 DEF Binding
  <2>7. Max(Binding(n)) = k
    <3>1. \A b \in Binding(n) : b \in Nat
      BY DEF Binding
    <3> QED
      BY <2>6, <3>1, MaxIs
  <2> QED
    BY <2>1, <2>4, <2>5, <2>6, <2>7
<1> QED
  BY <1>2, <1>3

\* lookup, which never walks the scopes, finds the binding of the innermost
\* scope that has one (Env.h, lookup).
THEOREM LookupIsInnermostHolds ==
  ASSUME ~Redeclare
  PROVE  Spec => []LookupIsInnermost
<1>1. EnvInv => LookupIsInnermost
  BY InnermostOnTop
<1> QED
  BY <1>1, EnvInvariant, PTL

-----------------------------------------------------------------------------
(* What a name means after popScope.                                       *)

\* The meaning of a name was declared in an open scope, and in no scope outside
\* one that binds the name.
MeansOpen ==
  \A n \in Names :
    /\ lookup(n) # 0 => home[lookup(n)] \in 1..Depth
    /\ \A k \in 1..Depth :
         scopes[k][n] # 0 => lookup(n) # 0 /\ home[lookup(n)] >= k

LEMMA EnvInvMeansOpen == EnvInv => MeansOpen
<1> SUFFICES ASSUME EnvInv, NEW n \in Names
             PROVE  /\ lookup(n) # 0 => home[lookup(n)] \in 1..Depth
                    /\ \A k \in 1..Depth :
                         scopes[k][n] # 0 => lookup(n) # 0 /\ home[lookup(n)] >= k
  BY DEF MeansOpen
<1>1. /\ Stacked(n) /\ Len(shadow[n]) \in Nat /\ DOMAIN shadow[n] = 1..Len(shadow[n])
      /\ Depth \in Nat
      /\ \A i \in DOMAIN shadow[n] : shadow[n][i] \in 1..Len(home)
  BY Elements DEF EnvInv
<1>2. CASE shadow[n] = <<>>
  BY <1>1, <1>2 DEF lookup, Stacked
<1>3. CASE shadow[n] # <<>>
  <2>1. PICK top \in DOMAIN shadow[n] : top = Len(shadow[n])
    BY <1>1, <1>3
  <2>2. /\ lookup(n) = shadow[n][top] /\ lookup(n) # 0
        /\ home[lookup(n)] = Made(n, top) /\ Made(n, top) \in 1..Depth
    BY <1>1, <1>3, <2>1 DEF lookup, Made, Stacked
  <2>3. ASSUME NEW k \in 1..Depth, scopes[k][n] # 0
        PROVE  Made(n, top) >= k
    <3>1. PICK i \in DOMAIN shadow[n] : Made(n, i) = k
      BY <1>1, <2>3 DEF Stacked
    <3>2. i = top \/ i < top
      BY <1>1, <2>1
    <3>3. CASE i < top
      BY <1>1, <2>2, <2>3, <3>1, <3>3 DEF Stacked
    <3> QED
      BY <2>2, <3>1, <3>2, <3>3
  <2> QED
    BY <2>2, <2>3
<1> QED
  BY <1>2, <1>3

\* Only popScope closes a scope.
LEMMA ClosingStep ==
  ASSUME EnvInv, ~Redeclare, [Next]_vars, Len(scopes') < Depth
  PROVE  /\ popScope
         /\ Depth \in Nat /\ Depth' = Depth - 1
         /\ \A k \in 1..Depth' : scopes'[k] = scopes[k]
<1>0. TypeOK /\ Depth \in Nat \ {0} /\ scopes \in Seq([Names -> 0..Len(home)])
  BY Elements DEF EnvInv, TypeOK
<1>1. ~pushScope
  <2>1. Nothing \in [Names -> 0..Len(home)]
    BY <1>0, Elements DEF Nothing
  <2> QED
    BY <1>0, <2>1 DEF pushScope, Depth
<1>2. ASSUME NEW n \in Names
      PROVE  ~define(n) /\ ~defineGlobal(n)
  <2>1. Depth \in 1..Depth /\ 1 \in 1..Depth
    BY <1>0
  <2> QED
    BY <2>1, <1>0, Bind DEF define, defineGlobal, Depth
<1>3. scopes' # scopes
  BY <1>0 DEF Depth
<1>4. popScope
  BY <1>1, <1>2, <1>3 DEF Next, vars
<1>5. /\ Len(scopes') = Depth - 1
      /\ \A k \in 1..(Depth - 1) : scopes'[k] = scopes[k]
  BY <1>0, <1>4, CutStack DEF popScope, Depth
<1> QED
  BY <1>0, <1>4, <1>5 DEF Depth

\* Closing a scope takes every declaration made in it out of reach (Env.h,
\* popScope).
THEOREM PopForgetsHolds ==
  ASSUME ~Redeclare
  PROVE  Spec => PopForgets
<1>1. ASSUME EnvInv, MeansOpen', [Next]_vars
      PROVE  [Len(scopes') < Depth =>
                \A n \in Names : lookup(n)' # 0 => home[lookup(n)'] < Depth]_vars
  <2> SUFFICES ASSUME Len(scopes') < Depth, NEW n \in Names, lookup(n)' # 0
               PROVE  home[lookup(n)'] < Depth
    OBVIOUS
  <2>1. popScope /\ Depth \in Nat /\ Depth' = Depth - 1
    BY <1>1, ClosingStep
  <2>2. home'[lookup(n)'] \in 1..Depth'
    BY <1>1 DEF MeansOpen
  <2>3. home' = home
    BY <2>1 DEF popScope
  <2> QED
    BY <2>1, <2>2, <2>3
<1> QED
  BY <1>1, EnvInvariant, EnvInvMeansOpen, PTL DEF Spec, PopForgets

\* Closing a scope uncovers what it hid: a name bound in an open scope keeps a
\* meaning at least as inner (Env.h, popScope).
THEOREM PopRevealsHolds ==
  ASSUME ~Redeclare
  PROVE  Spec => PopReveals
<1>1. ASSUME EnvInv, MeansOpen', [Next]_vars
      PROVE  [Len(scopes') < Depth =>
                \A n \in Names : \A k \in 1..Len(scopes') :
                  scopes[k][n] # 0 => lookup(n)' # 0 /\ home[lookup(n)'] >= k]_vars
  <2> SUFFICES ASSUME Len(scopes') < Depth, NEW n \in Names, NEW k \in 1..Len(scopes'),
                      scopes[k][n] # 0
               PROVE  lookup(n)' # 0 /\ home[lookup(n)'] >= k
    OBVIOUS
  <2>1. popScope /\ k \in 1..Depth' /\ scopes'[k] = scopes[k]
    BY <1>1, ClosingStep DEF Depth
  <2>2. lookup(n)' # 0 /\ home'[lookup(n)'] >= k
    BY <1>1, <2>1 DEF MeansOpen
  <2> QED
    BY <2>1, <2>2 DEF popScope
<1> QED
  BY <1>1, EnvInvariant, EnvInvMeansOpen, PTL DEF Spec, PopReveals

\* popScope closes exactly its scope (Env.h, popScope).
THEOREM ClosingIsExactHolds ==
  ASSUME ~Redeclare
  PROVE  Spec => ClosingIsExact
BY PopForgetsHolds, PopRevealsHolds DEF ClosingIsExact

-----------------------------------------------------------------------------
(* The places.  What is remembered of a query is a line that begins at or  *)
(* before the offset that was asked.                                       *)

\* The lines as buildLineOffsets leaves them.
LinesTyped == line_offsets \in Seq(Places!Offsets) /\ line_offsets # <<>>
LinesAscend ==
  /\ line_offsets[1] = 0
  /\ \A i \in DOMAIN line_offsets : i > 1 => line_offsets[i - 1] < line_offsets[i]

\* Line n is the line of offset o.
IsLineOf(n, o) ==
  /\ n \in DOMAIN line_offsets /\ line_offsets[n] <= o
  /\ n < Len(line_offsets) => o < line_offsets[n + 1]

RememberedInOrder ==
  /\ last_query_offset \in Places!Offsets
  /\ last_query_line \in DOMAIN line_offsets
  /\ line_offsets[last_query_line] <= last_query_offset

Answered ==
  \E o \in Places!Offsets :
    \E n \in DOMAIN line_offsets : answer = <<o, n, (o - line_offsets[n]) + 1>> /\ IsLineOf(n, o)

PlacesInv == LinesTyped /\ LinesAscend /\ RememberedInOrder /\ Answered

LEMMA LinesAreNumbers ==
  ASSUME LinesTyped
  PROVE  /\ Len(line_offsets) \in Nat \ {0}
         /\ DOMAIN line_offsets = 1 .. Len(line_offsets)
         /\ \A k \in DOMAIN line_offsets : line_offsets[k] \in Nat
BY TextSizeAssumption DEF LinesTyped, Places!Offsets

\* Each line begins behind every earlier one.
LEMMA LaterIsHigher ==
  ASSUME LinesTyped, LinesAscend,
         NEW i \in DOMAIN line_offsets, NEW j \in DOMAIN line_offsets, i < j
  PROVE  line_offsets[i] < line_offsets[j]
<1> DEFINE Bad == {k \in Nat : k \in DOMAIN line_offsets /\ i < k /\ ~ line_offsets[i] < line_offsets[k]}
<1>1. /\ DOMAIN line_offsets = 1 .. Len(line_offsets) /\ Len(line_offsets) \in Nat
      /\ \A k \in DOMAIN line_offsets : line_offsets[k] \in Nat
  BY LinesAreNumbers
<1>2. SUFFICES ASSUME Bad # {} PROVE FALSE
  BY <1>1
<1>3. PICK k \in Bad : \A m \in Bad : k <= m
  BY <1>2, LeastExists
<1>4. k - 1 \in DOMAIN line_offsets /\ k \in DOMAIN line_offsets /\ k > 1
  BY <1>1, <1>3
<1>5. line_offsets[k - 1] < line_offsets[k]
  BY <1>4 DEF LinesAscend
<1>6. k - 1 = i \/ line_offsets[i] < line_offsets[k - 1]
  BY <1>1, <1>3, <1>4
<1>7. line_offsets[k] \in Nat /\ line_offsets[k - 1] \in Nat /\ line_offsets[i] \in Nat
  BY <1>1, <1>4
<1> QED
  BY <1>3, <1>4, <1>5, <1>6, <1>7

\* std::upper_bound finds the line.
LEMMA UpperBoundIsLine ==
  ASSUME LinesTyped, LinesAscend, NEW o \in Places!Offsets
  PROVE  IsLineOf(Places!upper_bound(o), o)
<1> DEFINE After == {k \in Nat : k \in DOMAIN line_offsets /\ o < line_offsets[k]}
           Meets(n) == \A i \in DOMAIN line_offsets : line_offsets[i] <= o <=> i <= n
<1>1. /\ DOMAIN line_offsets = 1 .. Len(line_offsets) /\ Len(line_offsets) \in Nat \ {0}
      /\ \A k \in DOMAIN line_offsets : line_offsets[k] \in Nat
  BY LinesAreNumbers
<1>2. o \in Nat /\ line_offsets[1] = 0
  BY DEF LinesAscend, Places!Offsets
<1>3. \E n \in 0 .. Len(line_offsets) : Meets(n)
  <2>1. CASE After = {}
    <3>1. Meets(Len(line_offsets))
      BY <1>1, <1>2, <2>1
    <3>2. Len(line_offsets) \in 0 .. Len(line_offsets)
      BY <1>1
    <3> HIDE DEF Meets
    <3> QED
      BY <3>1, <3>2
  <2>2. CASE After # {}
    <3>1. PICK k \in After : \A m \in After : k <= m
      BY <2>2, LeastExists
    <3>2. ASSUME NEW i \in DOMAIN line_offsets
          PROVE  line_offsets[i] <= o <=> i <= k - 1
      <4>1. i >= k => line_offsets[k] <= line_offsets[i]
        BY <1>1, <3>1, LaterIsHigher
      <4> QED
        BY <1>1, <1>2, <3>1, <4>1
    <3>3. Meets(k - 1)
      BY <3>2
    <3>4. k - 1 \in 0 .. Len(line_offsets)
      BY <1>1, <3>1
    <3> HIDE DEF Meets
    <3> QED
      BY <3>3, <3>4
  <2> QED
    BY <2>1, <2>2
<1>4. Places!upper_bound(o) \in 0 .. Len(line_offsets) /\ Meets(Places!upper_bound(o))
  <2> HIDE DEF Meets
  <2>1. Places!upper_bound(o) = CHOOSE n \in 0 .. Len(line_offsets) : Meets(n)
    BY DEF Places!upper_bound, Places!Lines, Meets
  <2> QED
    BY <1>3, <2>1
<1>5. 1 \in DOMAIN line_offsets
  BY <1>1
<1> QED
  BY <1>1, <1>2, <1>4, <1>5 DEF IsLineOf

\* The source manager places every offset on its line, for texts of any length and any
\* sequence of queries.
THEOREM PlacedOnItsLineHolds == Places!Spec => []PlacedOnItsLine
<1>1. Places!Init => PlacesInv
  <2> SUFFICES ASSUME Places!Init PROVE PlacesInv
    OBVIOUS
  <2>1. PICK n \in 0 .. TextSize : \E s \in [1 .. n -> 1 .. TextSize] : line_offsets = <<0>> \o s
    BY DEF Places!Init, Places!LineOffsets
  <2>2. PICK s \in [1 .. n -> 1 .. TextSize] : line_offsets = <<0>> \o s
    BY <2>1
  <2>3. s \in Seq(1 .. TextSize) /\ Len(s) \in Nat
    BY <2>2, TextSizeAssumption
  <2>4. /\ line_offsets \in Seq(Places!Offsets) /\ Len(line_offsets) = Len(s) + 1 /\ line_offsets[1] = 0
        /\ line_offsets # <<>>
    BY <2>2, <2>3, TextSizeAssumption DEF Places!Offsets
  <2>5. LinesTyped /\ LinesAscend
    BY <2>4 DEF Places!Init, Places!Increasing, LinesTyped, LinesAscend
  <2>6. last_query_offset = 0 /\ last_query_line = 1 /\ answer = <<0, 1, 1>>
    BY DEF Places!Init
  <2>7. 1 \in DOMAIN line_offsets /\ line_offsets[1] = 0 /\ 0 \in Places!Offsets
    BY <2>5, LinesAreNumbers, TextSizeAssumption DEF LinesAscend, Places!Offsets
  <2>8. IsLineOf(1, 0)
    <3>1. 1 < Len(line_offsets) => 0 < line_offsets[1 + 1]
      BY <2>5, <2>7, LinesAreNumbers, LaterIsHigher
    <3> QED
      BY <2>7, <3>1 DEF IsLineOf
  <2>9. answer = <<0, 1, (0 - line_offsets[1]) + 1>>
    BY <2>6, <2>7
  <2>10. Answered /\ RememberedInOrder
    BY <2>6, <2>7, <2>8, <2>9 DEF Answered, RememberedInOrder
  <2> QED
    BY <2>5, <2>10 DEF PlacesInv
<1>2. PlacesInv /\ [Places!Next]_Places!vars => PlacesInv'
  <2> SUFFICES ASSUME PlacesInv, [Places!Next]_Places!vars
               PROVE  PlacesInv'
    OBVIOUS
  <2>1. ASSUME NEW o \in Places!Offsets, Places!getLocation(o)
        PROVE  PlacesInv'
    <3>1. UNCHANGED line_offsets
      BY <2>1 DEF Places!getLocation
    <3>2. LinesTyped' /\ LinesAscend'
      BY <3>1 DEF PlacesInv, LinesTyped, LinesAscend, Places!Offsets
    <3>3. CASE Places!FollowsLast(o)
      <4>1. Places!Answer(o, last_query_line) /\ UNCHANGED <<last_query_offset, last_query_line>>
        BY <2>1, <3>3 DEF Places!getLocation
      <4>2. IsLineOf(last_query_line, o)
        BY <3>3, LinesAreNumbers DEF PlacesInv, RememberedInOrder, Places!FollowsLast, IsLineOf,
           Places!Offsets
      <4>3. Answered'
        BY <3>1, <4>1, <4>2 DEF Answered, IsLineOf, Places!Answer, Places!Offsets
      <4> QED
        BY <3>1, <3>2, <4>1, <4>3 DEF PlacesInv, RememberedInOrder, Places!Offsets
    <3>4. CASE ~ Places!FollowsLast(o)
      <4> DEFINE u == Places!upper_bound(o)
      <4>1. Places!Answer(o, u) /\ Places!Remember(o, u)
        BY <2>1, <3>4 DEF Places!getLocation
      <4>2. IsLineOf(u, o)
        BY UpperBoundIsLine DEF PlacesInv
      <4> HIDE DEF u
      <4>3. Answered' /\ RememberedInOrder'
        BY <3>1, <4>1, <4>2
           DEF Answered, IsLineOf, RememberedInOrder, Places!Answer, Places!Remember, Places!Offsets
      <4> QED
        BY <3>2, <4>3 DEF PlacesInv
    <3> QED
      BY <3>3, <3>4
  <2>2. CASE UNCHANGED Places!vars
    BY <2>2 DEF Places!vars, PlacesInv, LinesTyped, LinesAscend, RememberedInOrder, Answered,
       IsLineOf, Places!Offsets
  <2> QED
    BY <2>1, <2>2 DEF Places!Next
<1>3. PlacesInv => Places!PlacedOnItsLine
  <2> SUFFICES ASSUME PlacesInv PROVE Places!PlacedOnItsLine
    OBVIOUS
  <2>1. PICK o \in Places!Offsets :
          \E n \in DOMAIN line_offsets : answer = <<o, n, (o - line_offsets[n]) + 1>> /\ IsLineOf(n, o)
    BY DEF PlacesInv, Answered
  <2>2. PICK n \in DOMAIN line_offsets : answer = <<o, n, (o - line_offsets[n]) + 1>> /\ IsLineOf(n, o)
    BY <2>1
  <2>3. answer[1] = o /\ answer[2] = n /\ answer[3] = (o - line_offsets[n]) + 1
    BY <2>2
  <2>4. o \in Nat /\ line_offsets[n] \in Nat
    BY LinesAreNumbers DEF PlacesInv, Places!Offsets
  <2> QED
    BY <2>2, <2>3, <2>4 DEF IsLineOf, Places!PlacedOnItsLine, Places!Lines
<1> QED
  BY <1>1, <1>2, <1>3, PTL DEF Places!Spec, PlacedOnItsLine

-----------------------------------------------------------------------------
(* The directives.                                                         *)

States == {"Active", "SkipToElse", "SkipToEnd"}

\* Outside of the loops that skip all groups are active; inside of them all but
\* the last, which waits for a branch or for its end.
CondTyped ==
  /\ conds \in Seq(States) /\ depth \in Nat
  /\ mode \in {"produce", "skip", "toEnd", "over", "crashed"}
OthersActive == \A i \in 1 .. Len(conds) : i # Len(conds) => conds[i] = "Active"
CondsFit ==
  /\ mode = "produce" => depth = 0 /\ \A i \in 1 .. Len(conds) : conds[i] = "Active"
  /\ mode \in {"skip", "toEnd"} => depth # 0 /\ conds # <<>> /\ OthersActive
  /\ mode = "skip" => conds[Len(conds)] = "SkipToElse"
  /\ mode = "toEnd" => conds[Len(conds)] = "SkipToEnd"
Chained ==
  /\ files \in Seq(Files \cup {MainFile}) /\ Len(files) <= MaxInclude
  /\ \A i, j \in 1 .. Len(files) : i # j => files[i] # files[j]
CondInv == CondTyped /\ CondsFit /\ Chained

LEMMA FrontIs ==
  ASSUME NEW S, NEW s \in Seq(S), s # <<>>
  PROVE  /\ PP!Front(s) \in Seq(S) /\ Len(PP!Front(s)) = Len(s) - 1
         /\ Len(s) - 1 \in Nat
         /\ \A i \in 1 .. Len(PP!Front(s)) :
              PP!Front(s)[i] = s[i] /\ i \in 1 .. Len(s) /\ i # Len(s)
<1>1. PP!Front(s) = SubSeq(s, 1, Len(s) - 1)
  BY DEF PP!Front
<1>2. Len(s) \in Nat \ {0} /\ Len(s) - 1 \in Nat
  BY PopStack
<1> QED
  BY <1>1, <1>2, PopStack

LEMMA InitConds == PP!Init => CondInv
BY MaxIncludeAssumption DEF PP!Init, CondInv, CondTyped, CondsFit, Chained

\* The groups that are open.
Beyond == IF depth = 0 THEN 0 ELSE depth - 1
GroupsAre ==
  /\ PP!openGroups \in Seq({"on", "wait", "off"})
  /\ Len(PP!openGroups) = Len(conds) + Beyond
  /\ Len(conds) \in Nat /\ Beyond \in Nat
  /\ \A i \in 1 .. Len(conds) : PP!openGroups[i] = PP!GroupOf(conds[i])
  /\ \A i \in 1 .. Len(conds) + Beyond :
       i \notin 1 .. Len(conds) => PP!openGroups[i] = "off"

LEMMA OpenGroups == CondTyped /\ mode # "over" => GroupsAre
<1> SUFFICES ASSUME CondTyped, mode # "over" PROVE GroupsAre
  OBVIOUS
<1> DEFINE a == [i \in 1 .. Len(conds) |-> PP!GroupOf(conds[i])]
           b == [i \in 1 .. Beyond |-> "off"]
           G == {"on", "wait", "off"}
<1>1. Len(conds) \in Nat /\ Beyond \in Nat /\ DOMAIN conds = 1 .. Len(conds)
  BY DEF CondTyped, Beyond
<1>2. 1 .. depth - 1 = 1 .. Beyond
  BY DEF CondTyped, Beyond
<1>3. PP!openGroups = a \o b
  BY <1>1, <1>2 DEF PP!openGroups
<1>4. \A s : PP!GroupOf(s) \in G
  BY DEF PP!GroupOf
<1>5. a \in [1 .. Len(conds) -> G] /\ b \in [1 .. Beyond -> G]
  BY <1>4
<1>6. a \in Seq(G) /\ Len(a) = Len(conds) /\ b \in Seq(G) /\ Len(b) = Beyond
  BY <1>1, <1>5, FunctionIsSequence
<1>7. /\ \A i \in 1 .. Len(conds) : a[i] = PP!GroupOf(conds[i])
      /\ \A i \in 1 .. Beyond : b[i] = "off"
  OBVIOUS
<1> HIDE DEF a, b, G
<1>8. /\ a \o b \in Seq(G) /\ Len(a \o b) = Len(a) + Len(b)
      /\ \A i \in 1 .. Len(a) : (a \o b)[i] = a[i]
      /\ \A i \in 1 .. Len(a) + Len(b) : i \notin 1 .. Len(a) => (a \o b)[i] = b[i - Len(a)]
                                                           /\ i - Len(a) \in 1 .. Len(b)
  BY <1>6
<1> QED
  BY <1>1, <1>3, <1>6, <1>7, <1>8 DEF GroupsAre, G

\* What holds of the groups holds of them in the next state.
GroupsStand == CondTyped /\ mode # "over" => GroupsAre

LEMMA OpenGroupsNext == GroupsStand'
<1>1. GroupsStand
  BY OpenGroups DEF GroupsStand
<1> QED
  BY <1>1, PTL

LEMMA CondStep == CondInv /\ [PP!Next]_(PP!vars) => CondInv'
<1> SUFFICES ASSUME CondInv, [PP!Next]_(PP!vars) PROVE CondInv'
  OBVIOUS
<1> USE DEF PP!Producing, PP!Skipping, PP!Item
<1>1. CondTyped /\ CondsFit /\ Chained
  BY DEF CondInv
<1>2. PP!isActive <=> \A i \in 1 .. Len(conds) : conds[i] = "Active"
  BY <1>1 DEF PP!isActive, CondTyped
<1>3. UNCHANGED files => Chained'
  BY <1>1 DEF Chained
<1>4. UNCHANGED <<conds, mode, depth>> => CondTyped' /\ CondsFit'
  BY <1>1 DEF CondTyped, CondsFit, OthersActive
<1>5. ASSUME UNCHANGED <<files, conds, mode, depth>> PROVE CondInv'
  BY <1>3, <1>4, <1>5 DEF CondInv
<1>6. CASE PP!Word \/ PP!SkipItem
  BY <1>5, <1>6 DEF PP!Word, PP!SkipItem, PP!Passed
<1>7. ASSUME NEW n, NEW b, PP!Define(n, b) PROVE CondInv'
  BY <1>5, <1>7 DEF PP!Define
<1>8. ASSUME NEW f \in Files, PP!Include(f) PROVE CondInv'
  <2>1. UNCHANGED <<conds, mode, depth>>
    BY <1>8 DEF PP!Include
  <2>2. CASE UNCHANGED files
    BY <1>5, <2>1, <2>2
  <2>3. CASE /\ Len(files) < MaxInclude /\ f \notin PP!ToSet(files)
             /\ files' = Append(files, f)
    <3>1. \A i \in 1 .. Len(files) : files[i] # f
      BY <1>1, <2>3 DEF PP!ToSet, Chained
    <3>2. Chained'
      BY <1>1, <2>3, <3>1, MaxIncludeAssumption DEF Chained
    <3> QED
      BY <1>4, <2>1, <3>2 DEF CondInv
  <2> QED
    BY <1>1, <1>8, <2>2, <2>3, MaxIncludeAssumption DEF PP!Include, Chained
<1>9. ASSUME NEW b, PP!If(b) PROVE CondInv'
  <2>1. /\ mode = "produce" /\ PP!isActive /\ UNCHANGED files
        /\ \/ conds' = Append(conds, "Active") /\ UNCHANGED <<mode, depth>>
           \/ conds' = Append(conds, "SkipToElse") /\ mode' = "skip" /\ depth' = 1
    BY <1>1, <1>2, <1>9 DEF PP!If, PP!condPush, CondsFit
  <2>2. CondTyped'
    BY <1>1, <2>1 DEF CondTyped, States
  <2>3. CondsFit'
    BY <1>1, <1>2, <2>1 DEF CondTyped, CondsFit, OthersActive
  <2> QED
    BY <1>3, <2>1, <2>2, <2>3 DEF CondInv
<1>10. ASSUME NEW kind, PP!ElifElse(kind) PROVE CondInv'
  <2>1. CASE conds = <<>>
    BY <1>5, <1>10, <2>1 DEF PP!ElifElse
  <2>2. CASE conds # <<>>
    <3>1. /\ mode = "produce" /\ UNCHANGED files /\ mode' = "toEnd" /\ depth' = 1
          /\ conds' = [conds EXCEPT ![Len(conds)] = "SkipToEnd"]
      BY <1>10, <2>2 DEF PP!ElifElse, PP!condSetBack
    <3>2. Len(conds) \in 1 .. Len(conds) /\ Len(conds') = Len(conds) /\ conds' \in Seq(States)
      BY <1>1, <2>2, <3>1 DEF CondTyped, States
    <3>3. CondTyped'
      BY <3>1, <3>2 DEF CondTyped
    <3>4. \A i \in 1 .. Len(conds) : conds[i] = "Active"
      BY <1>1, <3>1 DEF CondsFit
    <3>5. /\ \A i \in 1 .. Len(conds') : i # Len(conds') => conds'[i] = "Active"
          /\ conds'[Len(conds')] = "SkipToEnd" /\ conds' # <<>>
      <4>1. \A i \in 1 .. Len(conds) : i # Len(conds) => conds'[i] = conds[i]
        BY <1>1, <3>1 DEF CondTyped
      <4>2. conds'[Len(conds)] = "SkipToEnd"
        BY <1>1, <3>1, <3>2 DEF CondTyped
      <4> QED
        BY <3>2, <3>4, <4>1, <4>2
    <3>6. CondsFit'
      BY <3>1, <3>5 DEF CondsFit, OthersActive
    <3> QED
      BY <1>3, <3>1, <3>3, <3>6 DEF CondInv
  <2> QED
    BY <2>1, <2>2
<1>11. CASE PP!Endif
  <2>1. CASE conds = <<>>
    BY <1>5, <1>11, <2>1 DEF PP!Endif
  <2>2. CASE conds # <<>>
    <3>1. mode = "produce" /\ UNCHANGED <<files, mode, depth>> /\ conds' = PP!Front(conds)
      BY <1>11, <2>2 DEF PP!Endif, PP!condPop
    <3>2. /\ conds' \in Seq(States) /\ Len(conds') = Len(conds) - 1
          /\ \A i \in 1 .. Len(conds') : conds'[i] = conds[i] /\ i \in 1 .. Len(conds)
      BY <1>1, <2>2, <3>1, FrontIs DEF CondTyped
    <3>3. CondTyped' /\ CondsFit'
      BY <1>1, <3>1, <3>2 DEF CondTyped, CondsFit
    <3> QED
      BY <1>3, <3>1, <3>3 DEF CondInv
  <2> QED
    BY <2>1, <2>2
<1> DEFINE Resumes(s) == /\ mode' = "produce" /\ depth' = 0 /\ UNCHANGED files
                         /\ conds' = s /\ mode \in {"skip", "toEnd"}
<1>12. ASSUME Resumes(PP!Front(conds)) PROVE CondInv'
  <2>1. conds # <<>> /\ OthersActive
    BY <1>1, <1>12 DEF CondsFit
  <2>2. /\ conds' \in Seq(States) /\ Len(conds') = Len(conds) - 1
        /\ \A i \in 1 .. Len(conds') : conds'[i] = conds[i] /\ i \in 1 .. Len(conds) /\ i # Len(conds)
    BY <1>1, <1>12, <2>1, FrontIs DEF CondTyped
  <2>3. CondTyped' /\ CondsFit'
    BY <1>1, <1>12, <2>1, <2>2 DEF CondTyped, CondsFit, OthersActive
  <2> QED
    BY <1>3, <1>12, <2>3 DEF CondInv
<1>13. ASSUME Resumes([conds EXCEPT ![Len(conds)] = "Active"]) PROVE CondInv'
  <2>1. conds # <<>> /\ OthersActive
    BY <1>1, <1>13 DEF CondsFit
  <2>2. /\ conds' \in Seq(States) /\ Len(conds') = Len(conds)
        /\ \A i \in 1 .. Len(conds') : conds'[i] = "Active"
    BY <1>1, <1>13, <2>1 DEF CondTyped, States, OthersActive
  <2>3. CondTyped' /\ CondsFit'
    BY <1>1, <1>13, <2>2 DEF CondTyped, CondsFit
  <2> QED
    BY <1>3, <1>13, <2>3 DEF CondInv
<1>14. ASSUME UNCHANGED <<files, conds, mode>>, mode \in {"skip", "toEnd"}, depth' \in Nat \ {0}
       PROVE  CondInv'
  BY <1>1, <1>3, <1>14 DEF CondInv, CondTyped, CondsFit, OthersActive
<1>15. CASE PP!SkipIf
  <2>1. depth' \in Nat \ {0}
    BY <1>1, <1>15 DEF PP!SkipIf, CondTyped
  <2> QED
    BY <1>14, <1>15, <2>1 DEF PP!SkipIf
<1>16. CASE PP!SkipEndif
  <2>1. CASE depth = 1
    BY <1>12, <1>16, <2>1 DEF PP!SkipEndif, PP!Resume, PP!condPop
  <2>2. CASE depth # 1
    <3>1. depth' \in Nat \ {0}
      BY <1>1, <1>16, <2>2 DEF PP!SkipEndif, CondTyped, CondsFit
    <3> QED
      BY <1>14, <1>16, <2>2, <3>1 DEF PP!SkipEndif
  <2> QED
    BY <2>1, <2>2
<1>17. CASE PP!SkipElse
  BY <1>5, <1>13, <1>17 DEF PP!SkipElse, PP!Resume, PP!condSetBack, PP!Passed
<1>18. ASSUME NEW b, PP!SkipElif(b) PROVE CondInv'
  BY <1>5, <1>13, <1>18 DEF PP!SkipElif, PP!Resume, PP!condSetBack, PP!Passed
<1>19. ASSUME NEW b, PP!Overflow(b) PROVE CondInv'
  BY <1>1, <1>3, <1>19 DEF PP!Overflow, CondInv, CondTyped, CondsFit
<1>20. CASE PP!EndOfFile
  <2>1. CASE Len(files) > 1
    <3>1. files' = PP!Front(files) /\ UNCHANGED <<conds, mode, depth>>
      BY <1>20, <2>1 DEF PP!EndOfFile
    <3>2. /\ files' \in Seq(Files \cup {MainFile}) /\ Len(files') = Len(files) - 1
          /\ \A i \in 1 .. Len(files') : files'[i] = files[i] /\ i \in 1 .. Len(files)
      BY <1>1, <2>1, <3>1, FrontIs DEF Chained
    <3>3. Chained'
      BY <1>1, <3>2, MaxIncludeAssumption DEF Chained
    <3> QED
      BY <1>4, <3>1, <3>3 DEF CondInv
  <2>2. CASE ~(Len(files) > 1)
    <3>1. UNCHANGED <<files, depth>> /\ mode' = "over"
      BY <1>20, <2>2 DEF PP!EndOfFile
    <3>2. conds' = conds \/ (conds' = PP!Front(conds) /\ conds # <<>>)
      BY <1>1, <1>20, <2>2 DEF PP!EndOfFile, CondsFit
    <3>3. conds' \in Seq(States)
      BY <1>1, <3>2, FrontIs DEF CondTyped
    <3>4. CondTyped' /\ CondsFit'
      BY <1>1, <3>1, <3>3 DEF CondTyped, CondsFit
    <3> QED
      BY <1>3, <3>1, <3>4 DEF CondInv
  <2> QED
    BY <2>1, <2>2
<1>21. CASE UNCHANGED PP!vars
  BY <1>5, <1>21 DEF PP!vars
<1> QED
  BY <1>6, <1>7, <1>8, <1>9, <1>10, <1>11, <1>15, <1>16, <1>17, <1>18, <1>19, <1>20, <1>21
     DEF PP!Next

-----------------------------------------------------------------------------
(* The steps, as steps of the groups.                                      *)

LEMMA ShorterIs ==
  ASSUME NEW S, NEW q \in Seq(S), q # <<>>, NEW t \in Seq(S), Len(t) = Len(q) - 1,
         \A i \in 1 .. Len(t) : t[i] = q[i]
  PROVE  t = PP!Front(q)
<1>1. t \in [1 .. Len(q) - 1 -> S]
  OBVIOUS
<1> QED
  BY <1>1, PoppedIs DEF PP!Front

\* Outside of the loops all groups are on; inside of them the last is not.
LEMMA GroupsOn ==
  /\ CondInv /\ mode = "produce" =>
       GroupsAre /\ PP!isActive /\ Len(PP!openGroups) = Len(conds) /\ PP!Abstract!AllOn
       /\ (PP!openGroups = <<>> <=> conds = <<>>)
       /\ (conds # <<>> => PP!openGroups[Len(PP!openGroups)] = "on")
  /\ CondInv /\ mode \in {"skip", "toEnd"} =>
       GroupsAre /\ ~PP!Abstract!AllOn /\ PP!openGroups # <<>>
       /\ (depth # 1 => PP!openGroups[Len(PP!openGroups)] = "off")
       /\ (mode = "toEnd" => PP!openGroups[Len(PP!openGroups)] = "off")
       /\ (depth = 1 /\ mode = "skip" => PP!openGroups[Len(PP!openGroups)] = "wait")
<1>1. ASSUME CondInv, mode = "produce"
      PROVE  GroupsAre /\ PP!isActive /\ Len(PP!openGroups) = Len(conds) /\ PP!Abstract!AllOn
             /\ (PP!openGroups = <<>> <=> conds = <<>>)
             /\ (conds # <<>> => PP!openGroups[Len(PP!openGroups)] = "on")
  <2>1. GroupsAre
    BY <1>1, OpenGroups DEF CondInv
  <2>2. Beyond = 0 /\ \A i \in 1 .. Len(conds) : conds[i] = "Active"
    BY <1>1 DEF CondInv, CondsFit, Beyond
  <2>3. Len(PP!openGroups) = Len(conds) /\ \A i \in 1 .. Len(conds) : PP!openGroups[i] = "on"
    BY <2>1, <2>2 DEF GroupsAre, PP!GroupOf
  <2>4. PP!Abstract!AllOn /\ PP!isActive
    BY <1>1, <2>1, <2>2, <2>3 DEF PP!Abstract!AllOn, PP!isActive, GroupsAre, CondInv, CondTyped
  <2> QED
    BY <1>1, <2>1, <2>3, <2>4 DEF GroupsAre, CondInv, CondTyped
<1>2. ASSUME CondInv, mode \in {"skip", "toEnd"}
      PROVE  GroupsAre /\ ~PP!Abstract!AllOn /\ PP!openGroups # <<>>
             /\ (depth # 1 => PP!openGroups[Len(PP!openGroups)] = "off")
             /\ (mode = "toEnd" => PP!openGroups[Len(PP!openGroups)] = "off")
             /\ (depth = 1 /\ mode = "skip" => PP!openGroups[Len(PP!openGroups)] = "wait")
  <2>1. GroupsAre
    BY <1>2, OpenGroups DEF CondInv
  <2>2. Len(conds) \in 1 .. Len(conds) /\ depth \in Nat \ {0} /\ Beyond = depth - 1
    BY <1>2 DEF CondInv, CondsFit, CondTyped, Beyond
  <2>3. /\ PP!openGroups[Len(conds)] \in {"wait", "off"}
        /\ mode = "skip" => PP!openGroups[Len(conds)] = "wait"
        /\ mode = "toEnd" => PP!openGroups[Len(conds)] = "off"
    BY <1>2, <2>1, <2>2 DEF GroupsAre, PP!GroupOf, CondInv, CondsFit
  <2>4. /\ Len(PP!openGroups) = Len(conds) + depth - 1 /\ Len(conds) + depth - 1 \in Nat
        /\ depth # 1 => PP!openGroups[Len(conds) + depth - 1] = "off"
    BY <2>1, <2>2 DEF GroupsAre
  <2>5. ~PP!Abstract!AllOn /\ PP!openGroups # <<>>
    BY <2>1, <2>2, <2>3, <2>4 DEF PP!Abstract!AllOn, GroupsAre
  <2> QED
    BY <1>2, <2>1, <2>2, <2>3, <2>4, <2>5
<1> QED
  BY <1>1, <1>2

LEMMA ItemCounts ==
  ASSUME NEW kind, NEW t, PP!Item(kind, t), mode # "over", mode' # "over"
  PROVE  PP!Abstract!Count(kind, t)
BY DEF PP!Item, PP!Abstract!Count

\* How the groups change when an entry of cond_stack_ is pushed, popped or set.
LEMMA GroupsChange ==
  ASSUME GroupsAre, GroupsAre', Beyond = 0, Beyond' = 0,
         conds \in Seq(States), conds' \in Seq(States)
  PROVE  /\ \A s : conds' = Append(conds, s) =>
              PP!openGroups' = Append(PP!openGroups, PP!GroupOf(s))
         /\ conds' = PP!Front(conds) /\ conds # <<>> =>
              PP!openGroups' = PP!Front(PP!openGroups)
         /\ \A s : conds' = [conds EXCEPT ![Len(conds)] = s] /\ conds # <<>> =>
              PP!openGroups' = [PP!openGroups EXCEPT ![Len(PP!openGroups)] = PP!GroupOf(s)]
<1> DEFINE g == PP!openGroups
           G == {"on", "wait", "off"}
<1>1. /\ g \in Seq(G) /\ Len(g) = Len(conds) /\ \A i \in 1 .. Len(conds) : g[i] = PP!GroupOf(conds[i])
      /\ g' \in Seq(G) /\ Len(g') = Len(conds') /\ \A i \in 1 .. Len(conds') : g'[i] = PP!GroupOf(conds'[i])
      /\ Len(conds) \in Nat
  BY DEF GroupsAre
<1> HIDE DEF g, G
<1>2. ASSUME NEW s, conds' = Append(conds, s)
      PROVE  g' = Append(g, PP!GroupOf(s))
  <2>1. /\ Len(conds') = Len(conds) + 1 /\ conds'[Len(conds')] = s
        /\ \A i \in 1 .. Len(conds) : conds'[i] = conds[i]
    BY <1>2
  <2>2. /\ Len(g') = Len(g) + 1 /\ g'[Len(g')] = PP!GroupOf(s)
        /\ \A i \in 1 .. Len(g) : g'[i] = g[i]
    BY <1>1, <2>1
  <2>3. g' = Append(g, g'[Len(g')])
    BY <1>1, <2>2, LongerIs
  <2> QED
    BY <2>2, <2>3
<1>3. ASSUME conds' = PP!Front(conds), conds # <<>>
      PROVE  g' = PP!Front(g)
  <2>1. /\ Len(conds') = Len(conds) - 1
        /\ \A i \in 1 .. Len(conds') : conds'[i] = conds[i] /\ i \in 1 .. Len(conds)
    BY <1>3, FrontIs
  <2>2. g # <<>> /\ Len(g') = Len(g) - 1 /\ \A i \in 1 .. Len(g') : g'[i] = g[i]
    BY <1>1, <1>3, <2>1
  <2> QED
    BY <1>1, <2>2, ShorterIs
<1>4. ASSUME NEW s, conds' = [conds EXCEPT ![Len(conds)] = s], conds # <<>>
      PROVE  g' = [g EXCEPT ![Len(g)] = PP!GroupOf(s)]
  <2>1. /\ Len(conds') = Len(conds) /\ conds'[Len(conds)] = s /\ Len(conds) \in 1 .. Len(conds)
        /\ \A i \in 1 .. Len(conds) : i # Len(conds) => conds'[i] = conds[i]
    BY <1>1, <1>4
  <2>2. /\ g # <<>> /\ Len(g') = Len(g) /\ g'[Len(g)] = PP!GroupOf(s)
        /\ \A i \in 1 .. Len(g) : i # Len(g) => g'[i] = g[i]
    BY <1>1, <2>1
  <2>3. g' = [g EXCEPT ![Len(g)] = g'[Len(g)]]
    BY <1>1, <2>2, TurnedIs
  <2> QED
    BY <2>2, <2>3
<1> QED
  BY <1>2, <1>3, <1>4 DEF g

LEMMA GroupStep ==
  CondInv /\ CondInv' /\ [PP!Next]_(PP!vars)
    => [PP!Abstract!Next]_(PP!Abstract!vars)
<1> SUFFICES ASSUME CondInv, CondInv', [PP!Next]_(PP!vars)
             PROVE  PP!Abstract!Next \/ UNCHANGED PP!Abstract!vars
  OBVIOUS
<1> USE DEF PP!Producing, PP!Skipping
<1>1. CondTyped /\ CondsFit /\ CondTyped' /\ CondsFit'
  BY DEF CondInv
<1>2. mode # "over" => GroupsAre
  BY <1>1, OpenGroups
<1>3. mode' # "over" => GroupsAre'
  BY <1>1, OpenGroupsNext DEF GroupsStand
<1>4. conds \in Seq(States) /\ conds' \in Seq(States)
  BY <1>1 DEF CondTyped
<1>0. /\ depth \in {0, 1} => Beyond = 0
      /\ depth' \in {0, 1} => Beyond' = 0
  <2>1. 1 - 1 = 0
    OBVIOUS
  <2> QED
    BY <2>1 DEF Beyond
<1>5. mode = "produce" => /\ GroupsAre /\ PP!isActive /\ PP!Abstract!AllOn /\ Beyond = 0
                          /\ (PP!openGroups = <<>> <=> conds = <<>>)
                          /\ (conds # <<>> => PP!openGroups[Len(PP!openGroups)] = "on")
  BY <1>1, GroupsOn DEF CondsFit, Beyond
<1>6. mode \in {"skip", "toEnd"} =>
        /\ GroupsAre /\ ~PP!Abstract!AllOn /\ PP!openGroups # <<>> /\ conds # <<>>
        /\ (depth # 1 => PP!openGroups[Len(PP!openGroups)] = "off")
        /\ (mode = "toEnd" => PP!openGroups[Len(PP!openGroups)] = "off")
        /\ (depth = 1 /\ mode = "skip" => PP!openGroups[Len(PP!openGroups)] = "wait")
  BY <1>1, GroupsOn DEF CondsFit
<1>7. UNCHANGED <<conds, mode, depth>> => UNCHANGED PP!openGroups
  BY DEF PP!openGroups
<1>8. ASSUME NEW t \in BOOLEAN, PP!Item("text", t), t <=> PP!Abstract!AllOn,
             UNCHANGED <<conds, mode, depth>>, mode # "over"
      PROVE  PP!Abstract!Next
  <2>1. PP!Abstract!Count("text", t)
    BY <1>8, ItemCounts
  <2>2. t = PP!Abstract!AllOn
    BY <1>8 DEF PP!Abstract!AllOn
  <2>3. PP!Abstract!Line
    BY <1>7, <1>8, <2>1, <2>2 DEF PP!Abstract!Line
  <2> QED
    BY <2>3 DEF PP!Abstract!Next
<1>9. PP!isActive \in BOOLEAN
  BY DEF PP!isActive
<1>10. CASE PP!Word
  BY <1>5, <1>8, <1>9, <1>10 DEF PP!Word
<1>11. CASE PP!SkipItem
  BY <1>6, <1>8, <1>11 DEF PP!SkipItem, PP!Passed
<1>12. ASSUME NEW n, NEW b, PP!Define(n, b) PROVE PP!Abstract!Next
  BY <1>5, <1>8, <1>9, <1>12 DEF PP!Define
<1>13. ASSUME NEW f, PP!Include(f) PROVE PP!Abstract!Next
  BY <1>5, <1>8, <1>9, <1>13 DEF PP!Include
\* Opening a group.
<1>14. ASSUME NEW h \in BOOLEAN, PP!Abstract!Open(h) PROVE PP!Abstract!Next
  BY <1>14 DEF PP!Abstract!Next
<1>15. ASSUME NEW d, PP!If(d) PROVE PP!Abstract!Next
  <2>1. /\ mode = "produce" /\ PP!Item("if", PP!isActive) /\ mode' # "over" /\ Beyond' = 0
        /\ \/ conds' = Append(conds, "Active")
           \/ conds' = Append(conds, "SkipToElse")
    <3>1. mode = "produce" /\ PP!isActive /\ PP!Item("if", PP!isActive) /\ Beyond = 0
      BY <1>5, <1>15 DEF PP!If
    <3>2. \/ conds' = Append(conds, "Active") /\ UNCHANGED <<mode, depth>>
          \/ conds' = Append(conds, "SkipToElse") /\ mode' = "skip" /\ depth' = 1
      BY <1>15, <3>1 DEF PP!If, PP!condPush
    <3>3. UNCHANGED depth => UNCHANGED Beyond
      BY DEF Beyond
    <3> QED
      BY <1>0, <3>1, <3>2, <3>3
  <2>2. PP!Abstract!Count("if", PP!Abstract!AllOn)
    <3>1. PP!Abstract!Count("if", PP!isActive)
      BY <1>9, <2>1, ItemCounts
    <3>2. PP!isActive = PP!Abstract!AllOn
      BY <1>5, <2>1 DEF PP!isActive, PP!Abstract!AllOn
    <3> QED
      BY <3>1, <3>2
  <2>3. /\ \A s : conds' = Append(conds, s) => PP!openGroups' = Append(PP!openGroups, PP!GroupOf(s))
    BY <1>3, <1>4, <1>5, <2>1, GroupsChange
  <2>4. CASE conds' = Append(conds, "Active")
    <3>1. PP!Abstract!Open(TRUE)
      BY <1>5, <2>1, <2>2, <2>3, <2>4 DEF PP!Abstract!Open, PP!GroupOf
    <3> QED
      BY <1>14, <3>1
  <2>5. CASE conds' = Append(conds, "SkipToElse")
    <3>1. PP!Abstract!Open(FALSE)
      BY <1>5, <2>1, <2>2, <2>3, <2>5 DEF PP!Abstract!Open, PP!GroupOf
    <3> QED
      BY <1>14, <3>1
  <2> QED
    BY <2>1, <2>4, <2>5
<1>16. CASE PP!SkipIf
  <2>1. /\ PP!Item("if", FALSE) /\ depth' = depth + 1 /\ UNCHANGED <<conds, mode>> /\ mode # "over"
        /\ depth \in Nat \ {0}
    BY <1>1, <1>16 DEF PP!SkipIf, CondTyped, CondsFit
  <2>2. PP!Abstract!Count("if", PP!Abstract!AllOn)
    <3>1. PP!Abstract!Count("if", FALSE)
      BY <2>1, ItemCounts
    <3>2. FALSE = PP!Abstract!AllOn
      BY <1>6, <1>16 DEF PP!SkipIf, PP!Abstract!AllOn
    <3> QED
      BY <3>1, <3>2
  <2>3. Beyond' = Beyond + 1 /\ Len(conds') = Len(conds)
    BY <2>1 DEF Beyond
  <2>4. /\ Len(PP!openGroups') = Len(PP!openGroups) + 1
        /\ PP!openGroups'[Len(PP!openGroups')] = "off"
        /\ \A i \in 1 .. Len(PP!openGroups) : PP!openGroups'[i] = PP!openGroups[i]
    BY <1>2, <1>3, <2>1, <2>3 DEF GroupsAre
  <2>5. PP!openGroups' = Append(PP!openGroups, PP!openGroups'[Len(PP!openGroups')])
    BY <1>2, <1>3, <2>1, <2>4, LongerIs DEF GroupsAre
  <2>6. PP!Abstract!Open(FALSE)
    BY <1>6, <1>16, <2>2, <2>4, <2>5 DEF PP!SkipIf, PP!Abstract!Open
  <2> QED
    BY <1>14, <2>6
\* Turning to another branch.
<1>17. PP!Abstract!Last(PP!openGroups) = PP!openGroups[Len(PP!openGroups)]
  BY DEF PP!Abstract!Last
<1>18. ASSUME NEW kind \in {"elif", "else"}, NEW h \in BOOLEAN, NEW d,
              PP!Item(kind, FALSE), mode # "over", mode' # "over",
              PP!openGroups # <<>>,
              \/ d = "on" /\ PP!Abstract!Turn("off")
              \/ d = "wait" /\ (kind = "else" \/ h) /\ PP!Abstract!Turn("on")
              \/ d = "wait" /\ kind = "elif" /\ ~h /\ UNCHANGED PP!openGroups
              \/ d = "off" /\ UNCHANGED PP!openGroups,
              d = PP!openGroups[Len(PP!openGroups)]
       PROVE  PP!Abstract!Next
  <2>1. PP!Abstract!Count(kind, FALSE)
    BY <1>18, ItemCounts
  <2>2. CASE kind = "elif"
    <3>1. PP!Abstract!Elif(h)
      BY <1>17, <1>18, <2>1, <2>2 DEF PP!Abstract!Elif
    <3> QED
      BY <3>1 DEF PP!Abstract!Next
  <2>3. CASE kind = "else"
    <3>1. PP!Abstract!Else
      BY <1>17, <1>18, <2>1, <2>3 DEF PP!Abstract!Else
    <3> QED
      BY <3>1 DEF PP!Abstract!Next
  <2> QED
    BY <2>2, <2>3
\* The group is turned to what the last entry is set to.
<1>19. ASSUME NEW s, conds' = [conds EXCEPT ![Len(conds)] = s], conds # <<>>,
              mode # "over", mode' # "over", Beyond = 0, Beyond' = 0
       PROVE  PP!Abstract!Turn(PP!GroupOf(s))
  <2>1. PP!openGroups' = [PP!openGroups EXCEPT ![Len(PP!openGroups)] = PP!GroupOf(s)]
    BY <1>2, <1>3, <1>4, <1>19, GroupsChange
  <2> QED
    BY <2>1 DEF PP!Abstract!Turn
<1>20. ASSUME NEW kind \in {"elif", "else", "endif"}, PP!Item(kind, FALSE),
              mode = "produce", conds = <<>>, UNCHANGED <<conds, mode, depth>>
       PROVE  PP!Abstract!Next
  <2>1. PP!Abstract!Count(kind, FALSE)
    BY <1>20, ItemCounts
  <2>2. PP!Abstract!Stray
    BY <1>5, <1>7, <1>20, <2>1 DEF PP!Abstract!Stray
  <2> QED
    BY <2>2 DEF PP!Abstract!Next
<1>21. ASSUME NEW kind \in {"elif", "else"}, PP!ElifElse(kind) PROVE PP!Abstract!Next
  <2>1. CASE conds = <<>>
    BY <1>20, <1>21, <2>1 DEF PP!ElifElse
  <2>2. CASE conds # <<>>
    <3>1. /\ mode = "produce" /\ mode' = "toEnd" /\ Beyond' = 0 /\ PP!Item(kind, FALSE)
          /\ conds' = [conds EXCEPT ![Len(conds)] = "SkipToEnd"]
      BY <1>0, <1>21, <2>2 DEF PP!ElifElse, PP!condSetBack
    <3>2. PP!Abstract!Turn("off")
      <4>1. PP!Abstract!Turn(PP!GroupOf("SkipToEnd"))
        BY <1>5, <1>19, <2>2, <3>1
      <4>2. PP!GroupOf("SkipToEnd") = "off"
        BY DEF PP!GroupOf
      <4> QED
        BY <4>1, <4>2
    <3> QED
      BY <1>5, <1>18, <2>2, <3>1, <3>2
  <2> QED
    BY <2>1, <2>2
\* The loop is left for the branch that holds, or goes on.
<1>22. ASSUME NEW kind \in {"elif", "else"}, NEW h \in BOOLEAN, PP!Item(kind, FALSE),
              mode \in {"skip", "toEnd"},
              IF mode = "skip" /\ depth = 1 /\ (kind = "else" \/ h)
              THEN conds' = [conds EXCEPT ![Len(conds)] = "Active"]
                   /\ mode' = "produce" /\ depth' = 0
              ELSE UNCHANGED <<conds, mode, depth>>
       PROVE  PP!Abstract!Next
  <2>1. CASE mode = "skip" /\ depth = 1 /\ (kind = "else" \/ h)
    <3>1. Beyond = 0 /\ Beyond' = 0 /\ mode' # "over"
      BY <1>22, <2>1 DEF Beyond
    <3>2. PP!Abstract!Turn("on")
      BY <1>6, <1>19, <1>22, <2>1, <3>1 DEF PP!GroupOf
    <3> QED
      BY <1>6, <1>18, <1>22, <2>1, <3>1, <3>2
  <2>2. CASE ~(mode = "skip" /\ depth = 1 /\ (kind = "else" \/ h))
    <3>1. UNCHANGED PP!openGroups /\ mode # "over" /\ mode' # "over"
      BY <1>7, <1>22, <2>2
    <3>2. CASE mode = "skip" /\ depth = 1
      BY <1>6, <1>18, <1>22, <2>2, <3>1, <3>2
    <3>3. CASE ~(mode = "skip" /\ depth = 1)
      <4>1. PP!openGroups[Len(PP!openGroups)] = "off"
        BY <1>6, <1>22, <3>3
      <4> QED
        BY <1>6, <1>18, <1>22, <3>1, <4>1
    <3> QED
      BY <3>2, <3>3
  <2> QED
    BY <2>1, <2>2
<1>23. CASE PP!SkipElse
  BY <1>22, <1>23 DEF PP!SkipElse, PP!Resume, PP!Passed, PP!condSetBack
<1>24. ASSUME NEW d, PP!SkipElif(d) PROVE PP!Abstract!Next
  <2>1. CASE mode = "skip" /\ depth = 1 /\ PP!Holds(d)
    BY <1>22, <1>24, <2>1 DEF PP!SkipElif, PP!Resume, PP!condSetBack
  <2>2. CASE ~(mode = "skip" /\ depth = 1 /\ PP!Holds(d))
    BY <1>22, <1>24, <2>2 DEF PP!SkipElif, PP!Passed
  <2> QED
    BY <2>1, <2>2
\* Closing a group.
<1>25. ASSUME PP!Item("endif", FALSE), mode # "over", mode' # "over",
              PP!openGroups # <<>>, PP!openGroups' = PP!Front(PP!openGroups)
       PROVE  PP!Abstract!Next
  <2>1. PP!Abstract!Count("endif", FALSE)
    BY <1>25, ItemCounts
  <2>2. PP!Abstract!Close
    BY <1>25, <2>1 DEF PP!Abstract!Close, PP!Front, PP!Abstract!Front
  <2> QED
    BY <2>2 DEF PP!Abstract!Next
<1>26. ASSUME conds' = PP!Front(conds), conds # <<>>, mode # "over", mode' # "over",
              Beyond = 0, Beyond' = 0, PP!Item("endif", FALSE), PP!openGroups # <<>>
       PROVE  PP!Abstract!Next
  <2>1. PP!openGroups' = PP!Front(PP!openGroups)
    BY <1>2, <1>3, <1>4, <1>26, GroupsChange
  <2> QED
    BY <1>25, <1>26, <2>1
<1>27. CASE PP!Endif
  <2>1. CASE conds = <<>>
    BY <1>20, <1>27, <2>1 DEF PP!Endif
  <2>2. CASE conds # <<>>
    <3>1. /\ mode = "produce" /\ UNCHANGED <<mode, depth>> /\ conds' = PP!Front(conds)
          /\ PP!Item("endif", FALSE)
      BY <1>27, <2>2 DEF PP!Endif, PP!condPop
    <3>2. Beyond' = Beyond
      BY <3>1 DEF Beyond
    <3> QED
      BY <1>5, <1>26, <2>2, <3>1, <3>2
  <2> QED
    BY <2>1, <2>2
<1>28. CASE PP!SkipEndif
  <2>1. CASE depth = 1
    <3>1. mode' = "produce" /\ Beyond = 0 /\ Beyond' = 0 /\ conds' = PP!Front(conds)
          /\ PP!Item("endif", FALSE) /\ mode \in {"skip", "toEnd"}
      BY <1>0, <1>28, <2>1 DEF PP!SkipEndif, PP!Resume, PP!condPop
    <3> QED
      BY <1>6, <1>26, <3>1
  <2>2. CASE depth # 1
    <3>1. /\ depth' = depth - 1 /\ UNCHANGED <<conds, mode>> /\ PP!Item("endif", FALSE)
          /\ mode \in {"skip", "toEnd"}
      BY <1>28, <2>2 DEF PP!SkipEndif
    <3>2. depth \in Nat \ {0, 1}
      BY <1>1, <2>2, <3>1 DEF CondTyped, CondsFit
    <3>3. Beyond' = Beyond - 1 /\ Len(conds') = Len(conds) /\ Beyond \in Nat \ {0}
      BY <3>1, <3>2 DEF Beyond
    <3>4. GroupsAre /\ GroupsAre'
      BY <1>2, <1>3, <3>1
    <3>5. /\ Len(PP!openGroups') = Len(PP!openGroups) - 1
          /\ \A i \in 1 .. Len(PP!openGroups') : PP!openGroups'[i] = PP!openGroups[i]
      BY <3>1, <3>3, <3>4 DEF GroupsAre
    <3>6. PP!openGroups' = PP!Front(PP!openGroups)
      BY <1>6, <3>1, <3>4, <3>5, ShorterIs DEF GroupsAre
    <3> QED
      BY <1>6, <1>25, <3>1, <3>6
  <2> QED
    BY <2>1, <2>2
<1>29. ASSUME NEW d, PP!Overflow(d) PROVE UNCHANGED PP!Abstract!vars
  <2>1. mode # "over" /\ mode' # "over" /\ UNCHANGED <<conds, depth, line, read>>
    BY <1>29 DEF PP!Overflow
  <2>2. UNCHANGED PP!openGroups
    BY <2>1 DEF PP!openGroups
  <2> QED
    BY <2>1, <2>2 DEF PP!Abstract!vars
<1>30. ASSUME UNCHANGED <<conds, mode, depth, line, read>> PROVE UNCHANGED PP!Abstract!vars
  BY <1>7, <1>30 DEF PP!Abstract!vars
<1>31. CASE PP!EndOfFile
  <2>1. CASE Len(files) > 1
    BY <1>30, <1>31, <2>1 DEF PP!EndOfFile
  <2>2. CASE ~(Len(files) > 1)
    <3>1. mode # "over" /\ mode' = "over" /\ UNCHANGED <<line, read>>
      BY <1>31, <2>2 DEF PP!EndOfFile
    <3>2. PP!openGroups' = <<>>
      BY <3>1 DEF PP!openGroups
    <3>3. PP!Abstract!Finish
      BY <3>1, <3>2 DEF PP!Abstract!Finish
    <3> QED
      BY <3>3 DEF PP!Abstract!Next
  <2> QED
    BY <2>1, <2>2
<1>32. CASE UNCHANGED PP!vars
  BY <1>30, <1>32 DEF PP!vars
<1> QED
  BY <1>10, <1>11, <1>12, <1>13, <1>15, <1>16, <1>21, <1>23, <1>24, <1>27, <1>28, <1>29, <1>31, <1>32
     DEF PP!Next

LEMMA GroupsInit == PP!Init => PP!Abstract!Init
<1> SUFFICES ASSUME PP!Init PROVE PP!Abstract!Init
  OBVIOUS
<1>1. conds = <<>> /\ mode = "produce" /\ depth = 0 /\ line = <<"none", FALSE>> /\ read = 0
  BY DEF PP!Init
<1>2. PP!openGroups = <<>>
  <2>1. CondInv
    BY InitConds
  <2>2. GroupsAre /\ Len(PP!openGroups) = 0
    BY <1>1, <2>1, GroupsOn
  <2> QED
    BY <2>2 DEF GroupsAre
<1> QED
  BY <1>1, <1>2 DEF PP!Abstract!Init

LEMMA CondInvHolds == PP!Spec => []CondInv
BY InitConds, CondStep, PTL DEF PP!Spec

LEMMA CondInvImplies == CondInv => PP!ProducesActive /\ PP!IncludesAreChains
<1> SUFFICES ASSUME CondInv PROVE PP!ProducesActive /\ PP!IncludesAreChains
  OBVIOUS
<1>1. PP!ProducesActive
  BY GroupsOn DEF PP!ProducesActive, PP!Producing
<1>2. PP!IncludesAreChains
  BY DEF PP!IncludesAreChains, CondInv, Chained
<1> QED
  BY <1>1, <1>2

THEOREM ImplementsGroupsHolds == PP!Spec => ImplementsGroups
<1>1. PP!Spec => []CondInv
  BY CondInvHolds
<1>2. PP!Spec => [](PP!ProducesActive /\ PP!IncludesAreChains)
  BY <1>1, CondInvImplies, PTL
<1>3. PP!Spec => PP!Abstract!Spec
  BY <1>1, GroupsInit, GroupStep, PTL DEF PP!Spec, PP!Abstract!Spec
<1> QED
  BY <1>2, <1>3, PTL DEF ImplementsGroups, PP!ImplementsGroups

-----------------------------------------------------------------------------
(* The grammar: the braces that are still to be read.                      *)

Opener == "{"
Closer == "}"
Colon == ":"

\* The rules and the tokens that a rule may leave to be parsed; those apart that
\* read braces, or any token.
PlainRules ==
  {"(", ")", ":", ";", "optional;", "aType", "arguments", "base", "block",
   "body", "caseBody", "cases", "catch", "classBody", "condition", "declaration",
   "declarator", "enumerators", "expression", "fields", "initialStep",
   "initializer", "labelled", "lastStep", "leave", "member", "memberEnd",
   "members", "moreArguments", "moreEnumerators", "moreParameters", "moreValues",
   "name", "operators", "optionalName", "orElse", "parameter", "parameters",
   "postfix", "primary", "sharedMembers", "siblingValue", "siblings", "statement",
   "unary", "unit", "values", "while"}

Rules == PlainRules \cup {"take", "synchronize", Opener, Closer}

At(s, e) == {i \in 1 .. Len(s) : s[i] = e}
Count(s, e) == Cardinality(At(s, e))

LEMMA CountIsNat ==
  ASSUME NEW s \in Seq(Rules), NEW e
  PROVE  IsFiniteSet(At(s, e)) /\ Count(s, e) \in Nat
<1>1. IsFiniteSet(1 .. Len(s)) /\ At(s, e) \subseteq 1 .. Len(s)
  BY FS_Interval DEF At
<1> QED
  BY <1>1, FS_Subset, FS_CardinalityType DEF Count

LEMMA CountNone ==
  ASSUME NEW s \in Seq(Rules), NEW e, \A i \in 1 .. Len(s) : s[i] # e
  PROVE  Count(s, e) = 0
<1>1. At(s, e) = {}
  BY DEF At
<1> QED
  BY <1>1, FS_EmptySet DEF Count

LEMMA CountOne ==
  ASSUME NEW s \in Seq(Rules), NEW e, NEW k \in 1 .. Len(s),
         \A i \in 1 .. Len(s) : s[i] = e <=> i = k
  PROVE  Count(s, e) = 1
<1>1. At(s, e) = {k}
  BY DEF At
<1> QED
  BY <1>1, FS_Singleton DEF Count

LEMMA PairSize ==
  ASSUME NEW k, NEW m, k # m
  PROVE  Cardinality({k, m}) = 2
<1> DEFINE M == {m}
<1>1. IsFiniteSet(M) /\ Cardinality(M) = 1 /\ k \notin M
  BY FS_Singleton
<1>2. M \cup {k} = {k, m}
  OBVIOUS
<1> HIDE DEF M
<1>3. Cardinality(M \cup {k}) = Cardinality(M) + 1
  BY <1>1, FS_AddElement, Zenon
<1> QED
  BY <1>1, <1>2, <1>3

LEMMA CountTwo ==
  ASSUME NEW s \in Seq(Rules), NEW e, NEW k \in 1 .. Len(s), NEW m \in 1 .. Len(s), k # m,
         \A i \in 1 .. Len(s) : s[i] = e <=> (i = k \/ i = m)
  PROVE  Count(s, e) = 2
<1>1. At(s, e) = {k, m}
  BY DEF At
<1>2. Cardinality({k, m}) = 2
  BY PairSize
<1> QED
  BY <1>1, <1>2 DEF Count

LEMMA CountJoined ==
  ASSUME NEW r \in Seq(Rules), NEW s \in Seq(Rules), NEW e
  PROVE  Count(r \o s, e) = Count(r, e) + Count(s, e)
<1> DEFINE S == At(s, e)
           T == {Len(r) + i : i \in S}
           f == [i \in S |-> Len(r) + i]
<1>1. /\ r \o s \in Seq(Rules) /\ Len(r \o s) = Len(r) + Len(s) /\ Len(r) \in Nat /\ Len(s) \in Nat
      /\ \A i \in 1 .. Len(r) : (r \o s)[i] = r[i]
      /\ \A i \in 1 .. Len(s) : (r \o s)[Len(r) + i] = s[i]
  OBVIOUS
<1>2. At(r \o s, e) = At(r, e) \cup T
  <2>1. ASSUME NEW i \in 1 .. Len(r) + Len(s), i \notin 1 .. Len(r)
        PROVE  i - Len(r) \in 1 .. Len(s) /\ i = Len(r) + (i - Len(r))
    BY <1>1, <2>1
  <2> QED
    BY <1>1, <2>1 DEF At
<1>3. At(r, e) \cap T = {}
  BY <1>1 DEF At
<1>4. IsFiniteSet(S) /\ IsFiniteSet(At(r, e))
  BY CountIsNat
<1>5. f \in Bijection(S, T)
  BY <1>1 DEF At, Bijection, Injection, Surjection, IsInjective
<1>6. IsFiniteSet(T) /\ Cardinality(T) = Cardinality(S)
  BY <1>4, <1>5, FS_Bijection DEF ExistsBijection
<1>7. Cardinality(At(r, e) \cup T)
        = Cardinality(At(r, e)) + Cardinality(T) - Cardinality(At(r, e) \cap T)
  BY <1>4, <1>6, FS_Union
<1>8. Cardinality(At(r, e)) \in Nat /\ Cardinality(S) \in Nat
  BY CountIsNat DEF Count
<1>9. Cardinality(At(r, e) \cap T) = 0
  BY <1>3, FS_EmptySet
<1>10. Cardinality(At(r \o s, e)) = Cardinality(At(r, e)) + Cardinality(T) - 0
  BY <1>2, <1>7, <1>9
<1> HIDE DEF S, T
<1>11. Cardinality(At(r \o s, e)) = Cardinality(At(r, e)) + Cardinality(S)
  BY <1>6, <1>8, <1>10
<1> QED
  BY <1>11 DEF Count, S

-----------------------------------------------------------------------------
(* The rules.                                                              *)

LEMMA Distinct ==
  /\ Opener # Closer /\ Opener # "take" /\ Closer # "take"
  /\ Opener # "synchronize" /\ Closer # "synchronize" /\ "take" # "synchronize"
  BY DEF Opener, Closer

\* What reading current changes of the braces that are open.
Opening(t) == IF t = Opener THEN 1 ELSE IF t = Closer THEN -1 ELSE 0
\* The braces that what is still to be parsed leaves open, with what it takes first.
Ahead(s, t) == Count(s, Opener) - Count(s, Closer) + (IF s # <<>> /\ s[1] = "take" THEN Opening(t) ELSE 0)

\* A rule that takes does so first, or second at the colon of a label.
TakesFirst(s, second) ==
  \A k \in 1 .. Len(s) : s[k] = "take" => k = 1 \/ (k = 2 /\ s[1] = "take" /\ second = <<Colon>>)
SkipsNothing(s) == \A k \in 1 .. Len(s) : s[k] # "synchronize"

BalanceInv ==
  /\ todo \in Seq(Rules)
  /\ nested \in Int
  /\ TakesFirst(todo, ahead)
  /\ ahead = <<>> \/ \E t : ahead = <<t>>
  /\ ~errors => nested + Ahead(todo, current) = 0 /\ SkipsNothing(todo)

\* What may be put in the place of the innermost rule.
Fits(r) ==
  /\ r \in Seq(Rules)
  /\ TakesFirst(r, ahead)
  /\ Ahead(r, current) = 0
  /\ SkipsNothing(r)

LEMMA JoinIs ==
  ASSUME NEW r \in Seq(Rules), NEW s \in Seq(Rules), s # <<>>
  PROVE  /\ r \o Tail(s) \in Seq(Rules)
         /\ Len(r \o Tail(s)) = Len(r) + Len(s) - 1 /\ Len(r) \in Nat /\ Len(s) \in Nat
         /\ \A i \in 1 .. Len(r) : (r \o Tail(s))[i] = r[i]
         /\ \A i \in 2 .. Len(s) : (r \o Tail(s))[Len(r) + i - 1] = s[i]
         /\ \A i \in 1 .. Len(r \o Tail(s)) :
              i \in 1 .. Len(r) \/ (i - Len(r) + 1 \in 2 .. Len(s))
         /\ Tail(s) \in Seq(Rules) /\ s = <<s[1]>> \o Tail(s)
OBVIOUS

\* Without its first element, which is no brace, a sequence has the same braces.
LEMMA CountTail ==
  ASSUME NEW s \in Seq(Rules), s # <<>>, NEW e
  PROVE  Count(s, e) = (IF s[1] = e THEN 1 ELSE 0) + Count(Tail(s), e)
<1>1. PICK r : r = <<s[1]>>
  OBVIOUS
<1>2. s = r \o Tail(s) /\ Tail(s) \in Seq(Rules)
  BY <1>1, JoinIs
<1>3. r \in Seq(Rules) /\ Len(r) = 1 /\ r[1] = s[1] /\ 1 \in 1 .. Len(r)
  BY <1>1
<1>4. Count(r \o Tail(s), e) = Count(r, e) + Count(Tail(s), e)
  BY <1>2, <1>3, CountJoined
<1>5. Count(Tail(s), e) \in Nat
  BY <1>2, CountIsNat
<1>6. CASE s[1] = e
  <2>1. \A i \in 1 .. Len(r) : r[i] = e <=> i = 1
    BY <1>3, <1>6
  <2>2. Count(r, e) = 1
    BY <1>3, <2>1, CountOne
  <2> QED
    BY <1>2, <1>4, <1>6, <2>2
<1>7. CASE s[1] # e
  <2>1. Count(r, e) = 0
    BY <1>3, <1>7, CountNone
  <2> QED
    BY <1>2, <1>4, <1>5, <1>7, <2>1
<1> QED
  BY <1>6, <1>7

\* A list of rules that opens what it closes, and takes nothing.
Level(b) ==
  /\ b \in Seq(PlainRules \cup {Opener, Closer})
  /\ Count(b, Opener) = Count(b, Closer)

LEMMA RulesAre ==
  /\ PlainRules \subseteq Rules /\ PlainRules \cup {Opener, Closer} \subseteq Rules
  /\ "take" \notin PlainRules \cup {Opener, Closer}
  /\ "synchronize" \notin PlainRules \cup {Opener, Closer}
  /\ Opener \notin PlainRules /\ Closer \notin PlainRules
  /\ "take" \in Rules /\ Opener \in Rules /\ Closer \in Rules
BY DEF Rules, PlainRules, Opener, Closer

LEMMA SeqOfMore ==
  ASSUME NEW S, NEW T, S \subseteq T, NEW s \in Seq(S) PROVE s \in Seq(T)
OBVIOUS

LEMMA PlainIsLevel ==
  ASSUME NEW b \in Seq(PlainRules) PROVE Level(b)
<1>1. b \in Seq(Rules) /\ b \in Seq(PlainRules \cup {Opener, Closer})
  BY RulesAre, SeqOfMore
<1>2. \A i \in 1 .. Len(b) : b[i] # Opener /\ b[i] # Closer
  BY RulesAre
<1>3. Count(b, Opener) = 0 /\ Count(b, Closer) = 0
  BY <1>1, <1>2, CountNone
<1> QED
  BY <1>1, <1>3 DEF Level

LEMMA BodyIsLevel ==
  ASSUME NEW x \in PlainRules PROVE Level(<<Opener, x, Closer>>)
<1>1. PICK b : b = <<Opener, x, Closer>>
  OBVIOUS
<1>2. Len(b) = 3 /\ b[1] = Opener /\ b[2] = x /\ b[3] = Closer
  BY <1>1
<1>3. b \in Seq(PlainRules \cup {Opener, Closer})
  BY <1>1
<1>4. b \in Seq(Rules)
  BY <1>3, RulesAre, SeqOfMore
<1>5. x # Opener /\ x # Closer
  BY RulesAre
<1>6. \A i \in 1 .. Len(b) : (b[i] = Opener <=> i = 1) /\ (b[i] = Closer <=> i = 3)
  BY <1>2, <1>5, Distinct
<1>7. 1 \in 1 .. Len(b) /\ 3 \in 1 .. Len(b)
  BY <1>2
<1>8. Count(b, Opener) = 1 /\ Count(b, Closer) = 1
  BY <1>4, <1>6, <1>7, CountOne
<1> QED
  BY <1>1, <1>3, <1>8 DEF Level

LEMMA FitsJoin ==
  ASSUME NEW a, NEW b, Fits(a), Level(b) PROVE Fits(a \o b)
<1>1. /\ a \in Seq(Rules) /\ b \in Seq(Rules) /\ b \in Seq(PlainRules \cup {Opener, Closer})
  BY RulesAre, SeqOfMore DEF Fits, Level
<1> DEFINE q == a \o b
<1>2. /\ q \in Seq(Rules) /\ Len(q) = Len(a) + Len(b) /\ Len(a) \in Nat /\ Len(b) \in Nat
      /\ \A i \in 1 .. Len(a) : q[i] = a[i]
      /\ \A i \in 1 .. Len(q) : i \notin 1 .. Len(a) => q[i] = b[i - Len(a)]
      /\ \A i \in 1 .. Len(q) : i \notin 1 .. Len(a) => i - Len(a) \in 1 .. Len(b)
  BY <1>1
<1>3. \A e : Count(q, e) = Count(a, e) + Count(b, e)
  BY <1>1, CountJoined
<1>4. \A i \in 1 .. Len(b) : b[i] # "take" /\ b[i] # "synchronize"
  BY <1>1, RulesAre
<1> HIDE DEF q
<1>5. TakesFirst(q, ahead)
  <2>1. SUFFICES ASSUME NEW k \in 1 .. Len(q), q[k] = "take"
        PROVE  k = 1 \/ (k = 2 /\ q[1] = "take" /\ ahead = <<Colon>>)
    BY DEF TakesFirst
  <2>2. k \in 1 .. Len(a)
    BY <1>2, <1>4, <2>1
  <2>3. a[k] = "take" /\ 1 \in 1 .. Len(a)
    BY <1>2, <2>1, <2>2
  <2> QED
    BY <1>2, <2>2, <2>3 DEF TakesFirst, Fits
<1>6. SkipsNothing(q)
  BY <1>2, <1>4 DEF SkipsNothing, Fits
<1>7. (q # <<>> /\ q[1] = "take") <=> (a # <<>> /\ a[1] = "take")
  <2>1. CASE a = <<>>
    <3>1. Len(a) = 0 /\ (q # <<>> => 1 \in 1 .. Len(q))
      BY <1>2, <2>1
    <3> QED
      BY <1>2, <1>4, <2>1, <3>1
  <2>2. CASE a # <<>>
    <3>1. 1 \in 1 .. Len(a) /\ q # <<>>
      BY <1>1, <1>2, <2>2
    <3> QED
      BY <1>2, <2>2, <3>1
  <2> QED
    BY <2>1, <2>2
<1>8. /\ Count(a, Opener) \in Nat /\ Count(a, Closer) \in Nat
      /\ Count(b, Opener) \in Nat /\ Count(b, Closer) \in Nat
      /\ Count(b, Opener) = Count(b, Closer) /\ Opening(current) \in Int
  BY <1>1, CountIsNat DEF Level, Opening
<1>9. Count(q, Opener) - Count(q, Closer) = Count(a, Opener) - Count(a, Closer)
  BY <1>3, <1>8
<1>10. Ahead(q, current) = Ahead(a, current)
  BY <1>7, <1>9 DEF Ahead
<1> QED
  BY <1>2, <1>5, <1>6, <1>10 DEF Fits, q

LEMMA NothingFits == Fits(<<>>)
<1>1. PICK a : a = <<>>
  OBVIOUS
<1>2. a \in Seq(Rules) /\ Len(a) = 0
  BY <1>1
<1>3. Count(a, Opener) = 0 /\ Count(a, Closer) = 0
  <2>1. \A e : \A i \in 1 .. Len(a) : a[i] # e
    BY <1>2
  <2> QED
    BY <1>2, <2>1, CountNone
<1> QED
  BY <1>1, <1>2, <1>3 DEF Fits, TakesFirst, SkipsNothing, Ahead

LEMMA LevelFits ==
  ASSUME NEW b, Level(b) PROVE Fits(b)
<1>1. Fits(<<>> \o b)
  BY NothingFits, FitsJoin
<1>2. <<>> \o b = b
  BY DEF Level
<1> QED
  BY <1>1, <1>2

LEMMA TakeFits ==
  ASSUME NEW b, Level(b), Opening(current) = 0 PROVE Fits(<<"take">> \o b)
<1>1. PICK a : a = <<"take">>
  OBVIOUS
<1>2. a \in Seq(Rules) /\ Len(a) = 1 /\ a[1] = "take"
  BY <1>1, RulesAre
<1>3. Count(a, Opener) = 0 /\ Count(a, Closer) = 0
  BY <1>2, Distinct, CountNone
<1>4. Fits(a)
  BY <1>2, <1>3, Distinct DEF Fits, TakesFirst, SkipsNothing, Ahead
<1> QED
  BY <1>1, <1>4, FitsJoin

LEMMA InitBalance == Grammar!Init => BalanceInv
<1> SUFFICES ASSUME Grammar!Init PROVE BalanceInv
  OBVIOUS
<1>1. todo = <<"unit">> /\ nested = 0 /\ ahead = <<>> /\ errors = FALSE
  BY DEF Grammar!Init
<1>2. todo \in Seq(PlainRules)
  BY <1>1 DEF PlainRules
<1>3. Fits(todo)
  BY <1>2, PlainIsLevel, LevelFits
<1> QED
  BY <1>1, <1>3 DEF BalanceInv, Fits

\* What is put in the place of the innermost rule brings its own braces.
LEMMA Joining ==
  ASSUME NEW s \in Seq(Rules), s # <<>>, s[1] \notin {"take", Opener, Closer}, NEW a, NEW t,
         TakesFirst(s, a), NEW r \in Seq(Rules), TakesFirst(r, a)
  PROVE  /\ r \o Tail(s) \in Seq(Rules)
         /\ TakesFirst(r \o Tail(s), a)
         /\ SkipsNothing(s) /\ SkipsNothing(r) => SkipsNothing(r \o Tail(s))
         /\ Ahead(r \o Tail(s), t) = Ahead(r, t) + Ahead(s, t)
         /\ Ahead(s, t) \in Int
<1> DEFINE q == r \o Tail(s)
<1>1. /\ q \in Seq(Rules)
      /\ Len(q) = Len(r) + Len(s) - 1 /\ Len(r) \in Nat /\ Len(s) \in Nat
      /\ \A i \in 1 .. Len(r) : q[i] = r[i]
      /\ \A i \in 2 .. Len(s) : q[Len(r) + i - 1] = s[i]
      /\ Tail(s) \in Seq(Rules)
  BY JoinIs
<1>2. \A i \in 2 .. Len(s) : s[i] # "take"
  BY <1>1 DEF TakesFirst
<1>3. ASSUME NEW i \in 1 .. Len(q), i \notin 1 .. Len(r)
      PROVE  \E j \in 2 .. Len(s) : q[i] = s[j]
  <2> DEFINE j == i - Len(r) + 1
  <2>1. j \in 2 .. Len(s) /\ Len(r) + j - 1 = i
    BY <1>1, <1>3
  <2> HIDE DEF j, q
  <2> QED
    BY <1>1, <2>1
<1>4. \A e : Count(q, e) = Count(r, e) + Count(Tail(s), e)
  BY <1>1, CountJoined
<1>5. (q # <<>> /\ q[1] = "take") <=> (r # <<>> /\ r[1] = "take")
  <2>1. CASE r = <<>>
    <3>1. Len(r) = 0
      BY <2>1
    <3>2. q # <<>> => 2 \in 2 .. Len(s) /\ Len(r) + 2 - 1 = 1
      BY <1>1, <3>1
    <3> HIDE DEF q
    <3> QED
      BY <1>1, <1>2, <2>1, <3>2
  <2>2. CASE r # <<>>
    <3>1. 1 \in 1 .. Len(r) /\ q # <<>>
      BY <1>1, <2>2
    <3> HIDE DEF q
    <3> QED
      BY <1>1, <2>2, <3>1
  <2> QED
    BY <2>1, <2>2
<1> HIDE DEF q
<1>6. TakesFirst(q, a)
  <2>1. SUFFICES ASSUME NEW k \in 1 .. Len(q), q[k] = "take"
        PROVE  k = 1 \/ (k = 2 /\ q[1] = "take" /\ a = <<Colon>>)
    BY DEF TakesFirst
  <2>2. k \in 1 .. Len(r)
    BY <1>2, <1>3, <2>1
  <2>3. r[k] = "take" /\ 1 \in 1 .. Len(r)
    BY <1>1, <2>1, <2>2
  <2> QED
    BY <1>1, <2>2, <2>3 DEF TakesFirst
<1>7. SkipsNothing(s) /\ SkipsNothing(r) => SkipsNothing(q)
  <2>1. SUFFICES ASSUME SkipsNothing(s), SkipsNothing(r), NEW k \in 1 .. Len(q)
        PROVE  q[k] # "synchronize"
    BY DEF SkipsNothing
  <2>2. CASE k \in 1 .. Len(r)
    BY <1>1, <2>1, <2>2 DEF SkipsNothing
  <2>3. CASE k \notin 1 .. Len(r)
    <3>1. PICK j \in 2 .. Len(s) : q[k] = s[j]
      BY <1>3, <2>3
    <3>2. j \in 1 .. Len(s)
      BY <1>1
    <3> QED
      BY <2>1, <3>1, <3>2 DEF SkipsNothing
  <2> QED
    BY <2>2, <2>3
<1>8. /\ Count(s, Opener) = Count(Tail(s), Opener) /\ Count(s, Closer) = Count(Tail(s), Closer)
      /\ Count(Tail(s), Opener) \in Nat /\ Count(Tail(s), Closer) \in Nat
      /\ Count(r, Opener) \in Nat /\ Count(r, Closer) \in Nat
  <2>1. \A e : s[1] # e => Count(s, e) = 0 + Count(Tail(s), e)
    BY CountTail
  <2>2. \A e : Count(Tail(s), e) \in Nat /\ Count(r, e) \in Nat
    BY <1>1, CountIsNat
  <2>3. Count(s, Opener) = 0 + Count(Tail(s), Opener) /\ Count(s, Closer) = 0 + Count(Tail(s), Closer)
    BY <2>1
  <2> QED
    BY <2>2, <2>3
<1>9. Opening(t) \in Int
  BY DEF Opening
<1>10. Ahead(s, t) = Count(s, Opener) - Count(s, Closer) + 0
  BY DEF Ahead
<1>11. Count(q, Opener) = Count(r, Opener) + Count(s, Opener) /\ Count(q, Closer) = Count(r, Closer) + Count(s, Closer)
  BY <1>4, <1>8
<1>12. Ahead(q, t) = Ahead(r, t) + Ahead(s, t)
  <2>1. CASE r # <<>> /\ r[1] = "take"
    BY <1>5, <1>8, <1>9, <1>10, <1>11, <2>1 DEF Ahead
  <2>2. CASE ~(r # <<>> /\ r[1] = "take")
    BY <1>5, <1>8, <1>9, <1>10, <1>11, <2>2 DEF Ahead
  <2> QED
    BY <2>1, <2>2
<1> QED
  BY <1>1, <1>6, <1>7, <1>8, <1>10, <1>12 DEF q

\* A rule is replaced by what it goes on to do.
LEMMA Replacing ==
  ASSUME BalanceInv, todo # <<>>, Head(todo) \notin {"take", Opener, Closer},
         NEW r \in Seq(Rules), TakesFirst(r, ahead),
         ~errors' => Ahead(r, current) = 0 /\ SkipsNothing(r),
         todo' = r \o Tail(todo), Grammar!Stay, errors' = errors \/ errors' = TRUE
  PROVE  BalanceInv'
<1>1. /\ UNCHANGED <<current, ahead, nested>> /\ todo \in Seq(Rules) /\ nested \in Int
      /\ TakesFirst(todo, ahead) /\ todo[1] = Head(todo)
      /\ ahead = <<>> \/ \E t : ahead = <<t>>
  BY DEF Grammar!Stay, BalanceInv
<1>2. /\ todo' \in Seq(Rules) /\ TakesFirst(todo', ahead)
      /\ SkipsNothing(todo) /\ SkipsNothing(r) => SkipsNothing(todo')
      /\ Ahead(todo', current) = Ahead(r, current) + Ahead(todo, current)
      /\ Ahead(todo, current) \in Int
  BY <1>1, Joining
<1>3. ~errors' => nested + Ahead(todo', current) = 0 /\ SkipsNothing(todo')
  BY <1>1, <1>2 DEF BalanceInv
<1> QED
  BY <1>1, <1>2, <1>3 DEF BalanceInv

\* A token is read that was to be taken or expected.
LEMMA Dropping ==
  ASSUME NEW s \in Seq(Rules), s # <<>>, NEW a, TakesFirst(s, a), NEW t, NEW u,
         s[1] = "take" \/ s[1] = t, a = <<Colon>> => u = Colon
  PROVE  /\ Tail(s) \in Seq(Rules)
         /\ TakesFirst(Tail(s), <<>>)
         /\ SkipsNothing(s) => SkipsNothing(Tail(s))
         /\ Ahead(s, t) = Opening(t) + Ahead(Tail(s), u)
         /\ Ahead(Tail(s), u) \in Int
<1> DEFINE q == Tail(s)
<1>1. /\ q \in Seq(Rules) /\ Len(q) = Len(s) - 1 /\ Len(s) \in Nat
      /\ \A i \in 1 .. Len(q) : q[i] = s[i + 1] /\ i + 1 \in 1 .. Len(s)
  OBVIOUS
<1> HIDE DEF q
<1>2. \A k \in 1 .. Len(q) : q[k] = "take" => k = 1 /\ a = <<Colon>>
  <2>1. SUFFICES ASSUME NEW k \in 1 .. Len(q), q[k] = "take" PROVE k = 1 /\ a = <<Colon>>
    OBVIOUS
  <2>2. s[k + 1] = "take" /\ k + 1 \in 1 .. Len(s) /\ k + 1 # 1
    BY <1>1, <2>1
  <2>3. k + 1 = 2 /\ a = <<Colon>>
    BY <2>2 DEF TakesFirst
  <2> QED
    BY <2>3
<1>3. TakesFirst(q, <<>>)
  BY <1>2 DEF TakesFirst
<1>4. SkipsNothing(s) => SkipsNothing(q)
  BY <1>1 DEF SkipsNothing
<1>5. q # <<>> /\ q[1] = "take" => Opening(u) = 0
  <2>1. SUFFICES ASSUME q # <<>>, q[1] = "take" PROVE Opening(u) = 0
    OBVIOUS
  <2>2. 1 \in 1 .. Len(q)
    BY <1>1, <2>1
  <2>3. u = Colon
    BY <1>2, <2>1, <2>2
  <2> QED
    BY <2>3 DEF Opening, Colon, Opener, Closer
<1>6. /\ Count(s, Opener) = (IF s[1] = Opener THEN 1 ELSE 0) + Count(q, Opener)
      /\ Count(s, Closer) = (IF s[1] = Closer THEN 1 ELSE 0) + Count(q, Closer)
  BY CountTail DEF q
<1>7. Count(q, Opener) \in Nat /\ Count(q, Closer) \in Nat
  BY <1>1, CountIsNat
<1>8. Ahead(q, u) = Count(q, Opener) - Count(q, Closer)
  BY <1>5, <1>7 DEF Ahead
<1>9. CASE s[1] = "take"
  <2>1. Ahead(s, t) = Count(q, Opener) - Count(q, Closer) + Opening(t) /\ Opening(t) \in Int
    BY <1>6, <1>7, <1>9, Distinct DEF Ahead, Opening
  <2> QED
    BY <1>1, <1>3, <1>4, <1>7, <1>8, <2>1 DEF q
<1>10. CASE s[1] = t /\ t # "take"
  <2>1. Ahead(s, t) = Count(q, Opener) - Count(q, Closer) + Opening(t) /\ Opening(t) \in Int
    BY <1>6, <1>7, <1>10, Distinct DEF Ahead, Opening
  <2> QED
    BY <1>1, <1>3, <1>4, <1>7, <1>8, <2>1 DEF q
<1> QED
  BY <1>9, <1>10

\* What consume does to the tokens.
LEMMA ConsumeIs ==
  ASSUME BalanceInv, Grammar!consume
  PROVE  /\ nested' = nested + Opening(current)
         /\ ahead' = <<>>
         /\ ahead = <<Colon>> => current' = Colon
<1>1. ahead = <<>> \/ \E t : ahead = <<t>>
  BY DEF BalanceInv
<1>2. nested \in Int
  BY DEF BalanceInv
<1>3. nested' = nested + Opening(current)
  <2>1. nested' = CASE current = Opener -> nested + 1
                    [] current = Closer -> nested - 1
                    [] OTHER -> nested
    BY DEF Grammar!consume, Opener, Closer
  <2> QED
    BY <1>2, <2>1, Distinct DEF Opening
<1>4. CASE ahead = <<>>
  BY <1>3, <1>4 DEF Grammar!consume
<1>5. CASE ahead # <<>>
  <2>1. PICK t : ahead = <<t>>
    BY <1>1, <1>5
  <2>2. current' = Head(ahead) /\ ahead' = Tail(ahead)
    BY <1>5 DEF Grammar!consume
  <2> QED
    BY <1>3, <2>1, <2>2
<1> QED
  BY <1>4, <1>5

LEMMA Consuming ==
  ASSUME BalanceInv, todo # <<>>, todo[1] = "take" \/ todo[1] = current,
         Grammar!consume, todo' = Tail(todo), errors' = errors
  PROVE  BalanceInv'
<1>1. /\ nested' = nested + Opening(current) /\ ahead' = <<>>
      /\ ahead = <<Colon>> => current' = Colon
  BY ConsumeIs
<1>2. todo \in Seq(Rules) /\ TakesFirst(todo, ahead) /\ nested \in Int /\ Opening(current) \in Int
  BY DEF BalanceInv, Opening
<1>3. /\ todo' \in Seq(Rules) /\ TakesFirst(todo', <<>>)
      /\ SkipsNothing(todo) => SkipsNothing(todo')
      /\ Ahead(todo, current) = Opening(current) + Ahead(todo', current')
      /\ Ahead(todo', current') \in Int
  BY <1>1, <1>2, Dropping
<1>4. ~errors' => nested' + Ahead(todo', current') = 0 /\ SkipsNothing(todo')
  BY <1>1, <1>2, <1>3 DEF BalanceInv
<1> QED
  BY <1>1, <1>2, <1>3, <1>4 DEF BalanceInv

\* An error is reported, and nothing is read.
LEMMA Failing ==
  ASSUME BalanceInv, todo # <<>>, Grammar!Stay, todo' = Tail(todo), errors' = TRUE
  PROVE  BalanceInv'
<1>1. UNCHANGED <<current, ahead, nested>> /\ todo \in Seq(Rules) /\ TakesFirst(todo, ahead)
  BY DEF BalanceInv, Grammar!Stay
<1>2. /\ todo' \in Seq(Rules) /\ Len(todo') = Len(todo) - 1 /\ Len(todo) \in Nat
      /\ \A i \in 1 .. Len(todo') : todo'[i] = todo[i + 1] /\ i + 1 \in 1 .. Len(todo)
  BY <1>1
<1>3. \A k \in 1 .. Len(todo') : todo'[k] = "take" => k = 1
  BY <1>1, <1>2 DEF TakesFirst
<1>4. TakesFirst(todo', ahead)
  BY <1>3 DEF TakesFirst
<1> QED
  BY <1>1, <1>2, <1>4 DEF BalanceInv

\* Nothing but tokens that are skipped after an error.
LEMMA Skipping ==
  ASSUME BalanceInv, Grammar!synchronize PROVE BalanceInv'
<1>1. /\ todo # <<>> /\ todo[1] = "synchronize" /\ errors' = errors /\ todo \in Seq(Rules)
      /\ TakesFirst(todo, ahead) /\ nested \in Int /\ 1 \in 1 .. Len(todo)
  <2>1. Grammar!Doing("synchronize") /\ errors' = errors
    BY DEF Grammar!synchronize
  <2> QED
    BY <2>1 DEF Grammar!Doing, BalanceInv
<1>2. errors' /\ errors
  BY <1>1 DEF BalanceInv, SkipsNothing
<1>3. \A k \in 1 .. Len(todo) : todo[k] # "take"
  BY <1>1, Distinct DEF TakesFirst
<1>4. /\ Tail(todo) \in Seq(Rules) /\ Len(Tail(todo)) = Len(todo) - 1 /\ Len(todo) \in Nat
      /\ \A i \in 1 .. Len(Tail(todo)) : Tail(todo)[i] = todo[i + 1] /\ i + 1 \in 1 .. Len(todo)
  BY <1>1
<1>5. \A a : TakesFirst(todo, a) /\ TakesFirst(Tail(todo), a)
  BY <1>3, <1>4 DEF TakesFirst
<1>6. todo' = todo \/ todo' = Tail(todo)
  BY DEF Grammar!synchronize
<1>7. todo' \in Seq(Rules) /\ TakesFirst(todo', ahead')
  BY <1>1, <1>4, <1>5, <1>6
<1>8. CASE Grammar!Stay
  BY <1>1, <1>2, <1>7, <1>8 DEF Grammar!Stay, BalanceInv
<1>9. CASE Grammar!consume
  <2>1. nested' \in Int /\ ahead' = <<>>
    BY <1>1, <1>9, ConsumeIs DEF Opening
  <2> QED
    BY <1>2, <1>7, <2>1 DEF BalanceInv
<1> QED
  BY <1>8, <1>9 DEF Grammar!synchronize

\* A token is looked at.
LEMMA Peeking ==
  ASSUME BalanceInv, Grammar!Peek PROVE BalanceInv'
<1>1. /\ todo # <<>> /\ todo[1] # "take" /\ UNCHANGED <<current, todo, errors, nested>>
      /\ todo \in Seq(Rules) /\ TakesFirst(todo, ahead) /\ 1 \in 1 .. Len(todo)
  BY DEF Grammar!Peek, Grammar!LooksAhead, Grammar!Doing, BalanceInv
<1>2. \E t : ahead' = <<t>>
  BY DEF Grammar!Peek
<1>3. TakesFirst(todo', ahead')
  BY <1>1 DEF TakesFirst
<1> QED
  BY <1>1, <1>2, <1>3 DEF BalanceInv

LEMMA Expecting ==
  ASSUME BalanceInv, Grammar!Expect PROVE BalanceInv'
<1>1. todo # <<>> /\ todo[1] = Head(todo) /\ todo' = Tail(todo) /\ todo \in Seq(Rules)
  BY DEF Grammar!Expect, BalanceInv
<1>2. CASE current = Head(todo)
  BY <1>1, <1>2, Consuming DEF Grammar!Expect
<1>3. CASE current # Head(todo)
  BY <1>1, <1>3, Failing DEF Grammar!Expect
<1> QED
  BY <1>2, <1>3

LEMMA Taking ==
  ASSUME BalanceInv, Grammar!Take PROVE BalanceInv'
<1>1. todo # <<>> /\ todo[1] = "take" /\ todo \in Seq(Rules)
  BY DEF Grammar!Take, Grammar!Doing, BalanceInv
<1> QED
  BY <1>1, Consuming DEF Grammar!Take

-----------------------------------------------------------------------------
(* What the rules go on to do.                                             *)

\* The innermost rule is r, no token.
IsRule(r) == r \in PlainRules /\ Grammar!Doing(r)

LEMMA Going ==
  ASSUME BalanceInv, NEW x, IsRule(x), NEW r, Fits(r), Grammar!Then(r) PROVE BalanceInv'
<1>1. todo # <<>> /\ Head(todo) \notin {"take", Opener, Closer}
  BY RulesAre DEF IsRule, Grammar!Doing
<1>2. /\ r \in Seq(Rules) /\ TakesFirst(r, ahead)
      /\ Ahead(r, current) = 0 /\ SkipsNothing(r)
  BY DEF Fits
<1>3. todo' = r \o Tail(todo) /\ Grammar!Stay /\ errors' = errors
  BY DEF Grammar!Then
<1> QED
  BY <1>1, <1>2, <1>3, Replacing

LEMMA Complaining ==
  ASSUME BalanceInv, NEW x, IsRule(x), NEW r \in Seq(PlainRules \cup {"synchronize"}),
         Grammar!Complain(r)
  PROVE  BalanceInv'
<1>1. r \in Seq(Rules) /\ \A k \in 1 .. Len(r) : r[k] # "take"
  BY RulesAre, SeqOfMore, Distinct DEF Rules
<1>2. TakesFirst(r, ahead)
  BY <1>1 DEF TakesFirst
<1>3. /\ todo # <<>> /\ Head(todo) \notin {"take", Opener, Closer} /\ errors' = TRUE
      /\ todo' = r \o Tail(todo) /\ Grammar!Stay
  BY RulesAre DEF IsRule, Grammar!Doing, Grammar!Complain
<1> QED
  BY <1>1, <1>2, <1>3, Replacing

\* The ways in which a list of rules fits.
Plainly(r) == r \in Seq(PlainRules)
TakesPlain(r) == r \in Seq(Rules) /\ r # <<>> /\ r[1] = "take" /\ Tail(r) \in Seq(PlainRules)

LEMMA PlainFits ==
  ASSUME NEW r, Plainly(r) \/ (TakesPlain(r) /\ current # Opener /\ current # Closer)
  PROVE  Fits(r)
<1>1. CASE Plainly(r)
  BY <1>1, PlainIsLevel, LevelFits DEF Plainly
<1>2. CASE TakesPlain(r) /\ current # Opener /\ current # Closer
  <2>1. r = <<"take">> \o Tail(r)
    BY <1>2 DEF TakesPlain
  <2>2. Level(Tail(r))
    BY <1>2, PlainIsLevel DEF TakesPlain
  <2>3. Opening(current) = 0
    BY <1>2 DEF Opening
  <2> QED
    BY <2>1, <2>2, <2>3, TakeFits
<1> QED
  BY <1>1, <1>2

LEMMA GoingPlainly ==
  ASSUME BalanceInv, NEW x, IsRule(x), NEW r, Grammar!Then(r),
         Plainly(r) \/ (TakesPlain(r) /\ current # Opener /\ current # Closer)
  PROVE  BalanceInv'
BY PlainFits, Going

LEMMA LeavingFits ==
  ASSUME NEW r, Fits(r) PROVE Fits(Append(r, "leave"))
<1>1. <<"leave">> \in Seq(PlainRules)
  BY DEF PlainRules
<1>2. Fits(r \o <<"leave">>)
  BY <1>1, PlainIsLevel, FitsJoin
<1>3. Append(r, "leave") = r \o <<"leave">>
  BY DEF Fits
<1> QED
  BY <1>2, <1>3

LEMMA Guarding ==
  ASSUME BalanceInv, NEW x \in PlainRules, NEW r, Fits(r), Grammar!Guarded(x, r)
  PROVE  BalanceInv'
<1>1. Fits(Append(r, "leave"))
  BY LeavingFits
<1>2. IsRule(x) /\ Grammar!Then(Append(r, "leave"))
  BY DEF Grammar!Guarded, IsRule
<1> QED
  BY <1>1, <1>2, Going

LEMMA Refusing ==
  ASSUME BalanceInv, NEW x \in PlainRules, Grammar!Refused(x)
  PROVE  BalanceInv'
<1>1. IsRule(x) /\ Grammar!Complain(<<>>)
  BY DEF Grammar!Refused, IsRule
<1>2. <<>> \in Seq(PlainRules \cup {"synchronize"})
  OBVIOUS
<1> QED
  BY <1>1, <1>2, Complaining

LEMMA PlainLists ==
  /\ Plainly(<<>>)
  /\ Plainly(<<"unary", "operators">>)
  /\ Plainly(<<"primary", "postfix">>)
  /\ Plainly(<<"expression", "moreArguments">>)
  /\ Plainly(<<"statement", "block">>)
  /\ Plainly(<<"statement", "caseBody">>)
  /\ Plainly(<<"statement">>)
  /\ Plainly(<<"expression", ";">>)
  /\ Plainly(<<"declaration">>)
  /\ Plainly(<<"expression">>)
  /\ Plainly(<<"aType", "name", "declarator">>)
  /\ Plainly(<<"siblings">>)
  /\ Plainly(<<"expression", "moreValues">>)
  /\ Plainly(<<";">>)
  /\ Plainly(<<"parameter">>)
  /\ Plainly(<<"aType", "optionalName", "siblingValue", "moreParameters">>)
  /\ Plainly(<<"member", "members">>)
  /\ Plainly(<<"aType", "name", "memberEnd">>)
  /\ Plainly(<<"aType", "name", ";", "sharedMembers">>)
  /\ Plainly(<<"aType", "name", ";", "fields">>)
  /\ Plainly(<<"name", "siblingValue", "moreEnumerators">>)
  /\ Plainly(<<"declaration", "unit">>)
  /\ Plainly(<<"statement", "unit">>)
BY DEF Plainly, PlainRules

LEMMA TakingLists ==
  /\ TakesPlain(<<"take">>)
  /\ TakesPlain(<<"take", "unary", "operators">>)
  /\ TakesPlain(<<"take", "arguments", ")", "postfix">>)
  /\ TakesPlain(<<"take", "expression", "moreArguments">>)
  /\ TakesPlain(<<"take", "expression", ")">>)
  /\ TakesPlain(<<"take", "(", "expression", ")", "statement", "orElse">>)
  /\ TakesPlain(<<"take", "(", "initialStep", "condition", ";", "lastStep", ")", "statement">>)
  /\ TakesPlain(<<"take", "(", "expression", ")", "statement">>)
  /\ TakesPlain(<<"take", "statement", "while", "(", "expression", ")", ";">>)
  /\ TakesPlain(<<"take", "condition", ";">>)
  /\ TakesPlain(<<"take", "expression", ":", "caseBody", "cases">>)
  /\ TakesPlain(<<"take", "statement">>)
  /\ TakesPlain(<<"take", "declaration">>)
  /\ TakesPlain(<<"take", "name", "base", "classBody">>)
  /\ TakesPlain(<<"take", "parameters", ")", "body">>)
  /\ TakesPlain(<<"take", "initializer", "siblings">>)
  /\ TakesPlain(<<"take", "values">>)
  /\ TakesPlain(<<"take", "enumerators">>)
  /\ TakesPlain(<<"take", "name", "siblingValue", "siblings">>)
  /\ TakesPlain(<<"take", "expression">>)
  /\ TakesPlain(<<"take", "parameter">>)
  /\ TakesPlain(<<"take", "name">>)
  /\ TakesPlain(<<"take", "member", "members">>)
BY DEF TakesPlain, Rules, PlainRules

LEMMA OperatorsKeep == BalanceInv /\ Grammar!parseOperators => BalanceInv'
<1> SUFFICES ASSUME BalanceInv, Grammar!parseOperators PROVE BalanceInv'
  OBVIOUS
<1>1. CASE Grammar!Doing("operators")
  <2>1. IsRule("operators")
    BY <1>1 DEF IsRule, PlainRules
  <2> QED
    BY <1>1, <2>1, PlainLists, TakingLists, GoingPlainly
       DEF Grammar!parseOperators, Grammar!Done, Grammar!Doing, Opener, Closer
<1> QED
  BY <1>1 DEF Grammar!parseOperators

LEMMA PostfixKeeps == BalanceInv /\ Grammar!parsePostfix => BalanceInv'
<1> SUFFICES ASSUME BalanceInv, Grammar!parsePostfix PROVE BalanceInv'
  OBVIOUS
<1>1. CASE Grammar!Doing("postfix")
  <2>1. IsRule("postfix")
    BY <1>1 DEF IsRule, PlainRules
  <2> QED
    BY <1>1, <2>1, PlainLists, TakingLists, GoingPlainly
       DEF Grammar!parsePostfix, Grammar!Done, Grammar!Doing, Opener, Closer
<1> QED
  BY <1>1 DEF Grammar!parsePostfix

LEMMA ArgumentsKeep == BalanceInv /\ Grammar!parseArguments => BalanceInv'
<1> SUFFICES ASSUME BalanceInv, Grammar!parseArguments PROVE BalanceInv'
  OBVIOUS
<1>1. CASE Grammar!Doing("arguments")
  <2>1. IsRule("arguments")
    BY <1>1 DEF IsRule, PlainRules
  <2> QED
    BY <1>1, <2>1, PlainLists, TakingLists, GoingPlainly
       DEF Grammar!parseArguments, Grammar!Done, Grammar!Doing, Opener, Closer
<1>2. CASE Grammar!Doing("moreArguments")
  <2>1. IsRule("moreArguments")
    BY <1>2 DEF IsRule, PlainRules
  <2> QED
    BY <1>2, <2>1, PlainLists, TakingLists, GoingPlainly
       DEF Grammar!parseArguments, Grammar!Done, Grammar!Doing, Opener, Closer
<1> QED
  BY <1>1, <1>2 DEF Grammar!parseArguments

LEMMA BlockKeeps == BalanceInv /\ Grammar!parseCompoundStmt => BalanceInv'
<1> SUFFICES ASSUME BalanceInv, Grammar!parseCompoundStmt PROVE BalanceInv'
  OBVIOUS
<1>1. CASE Grammar!Doing("block")
  <2>1. IsRule("block")
    BY <1>1 DEF IsRule, PlainRules
  <2> QED
    BY <1>1, <2>1, PlainLists, TakingLists, GoingPlainly
       DEF Grammar!parseCompoundStmt, Grammar!Done, Grammar!Doing, Opener, Closer
<1> QED
  BY <1>1 DEF Grammar!parseCompoundStmt

LEMMA PartsKeep == BalanceInv /\ Grammar!parseParts => BalanceInv'
<1> SUFFICES ASSUME BalanceInv, Grammar!parseParts PROVE BalanceInv'
  OBVIOUS
<1>1. CASE Grammar!Doing("orElse")
  <2>1. IsRule("orElse")
    BY <1>1 DEF IsRule, PlainRules
  <2> QED
    BY <1>1, <2>1, PlainLists, TakingLists, GoingPlainly
       DEF Grammar!parseParts, Grammar!Done, Grammar!Doing, Opener, Closer
<1>2. CASE Grammar!Doing("labelled")
  <2>1. IsRule("labelled")
    BY <1>2 DEF IsRule, PlainRules
  <2> QED
    BY <1>2, <2>1, PlainLists, TakingLists, GoingPlainly
       DEF Grammar!parseParts, Grammar!Done, Grammar!Doing, Opener, Closer
<1>3. CASE Grammar!Doing("initialStep")
  <2>1. IsRule("initialStep")
    BY <1>3 DEF IsRule, PlainRules
  <2> QED
    BY <1>3, <2>1, PlainLists, TakingLists, GoingPlainly
       DEF Grammar!parseParts, Grammar!Done, Grammar!Doing, Opener, Closer
<1>4. CASE Grammar!Doing("condition")
  <2>1. IsRule("condition")
    BY <1>4 DEF IsRule, PlainRules
  <2> QED
    BY <1>4, <2>1, PlainLists, TakingLists, GoingPlainly
       DEF Grammar!parseParts, Grammar!Done, Grammar!Doing, Opener, Closer
<1>5. CASE Grammar!Doing("lastStep")
  <2>1. IsRule("lastStep")
    BY <1>5 DEF IsRule, PlainRules
  <2> QED
    BY <1>5, <2>1, PlainLists, TakingLists, GoingPlainly
       DEF Grammar!parseParts, Grammar!Done, Grammar!Doing, Opener, Closer
<1> QED
  BY <1>1, <1>2, <1>3, <1>4, <1>5 DEF Grammar!parseParts

LEMMA UnionKeeps == BalanceInv /\ Grammar!parseUnionDecl => BalanceInv'
<1> SUFFICES ASSUME BalanceInv, Grammar!parseUnionDecl PROVE BalanceInv'
  OBVIOUS
<1>1. CASE Grammar!Doing("fields")
  <2>1. IsRule("fields")
    BY <1>1 DEF IsRule, PlainRules
  <2> QED
    BY <1>1, <2>1, PlainLists, TakingLists, GoingPlainly
       DEF Grammar!parseUnionDecl, Grammar!Done, Grammar!Doing, Opener, Closer
<1> QED
  BY <1>1 DEF Grammar!parseUnionDecl

LEMMA EnumKeeps == BalanceInv /\ Grammar!parseEnumDecl => BalanceInv'
<1> SUFFICES ASSUME BalanceInv, Grammar!parseEnumDecl PROVE BalanceInv'
  OBVIOUS
<1>1. CASE Grammar!Doing("enumerators")
  <2>1. IsRule("enumerators")
    BY <1>1 DEF IsRule, PlainRules
  <2> QED
    BY <1>1, <2>1, PlainLists, TakingLists, GoingPlainly
       DEF Grammar!parseEnumDecl, Grammar!Done, Grammar!Doing, Opener, Closer
<1>2. CASE Grammar!Doing("moreEnumerators")
  <2>1. IsRule("moreEnumerators")
    BY <1>2 DEF IsRule, PlainRules
  <2> QED
    BY <1>2, <2>1, PlainLists, TakingLists, GoingPlainly
       DEF Grammar!parseEnumDecl, Grammar!Done, Grammar!Doing, Opener, Closer
<1> QED
  BY <1>1, <1>2 DEF Grammar!parseEnumDecl

LEMMA SemicolonKeeps == BalanceInv /\ Grammar!matchSemicolon => BalanceInv'
<1> SUFFICES ASSUME BalanceInv, Grammar!matchSemicolon PROVE BalanceInv'
  OBVIOUS
<1>1. CASE Grammar!Doing("optional;")
  <2>1. IsRule("optional;")
    BY <1>1 DEF IsRule, PlainRules
  <2> QED
    BY <1>1, <2>1, PlainLists, TakingLists, GoingPlainly
       DEF Grammar!matchSemicolon, Grammar!Done, Grammar!Doing, Opener, Closer
<1> QED
  BY <1>1 DEF Grammar!matchSemicolon

LEMMA UnitKeeps == BalanceInv /\ Grammar!parse => BalanceInv'
<1> SUFFICES ASSUME BalanceInv, Grammar!parse PROVE BalanceInv'
  OBVIOUS
<1>1. IsRule("unit")
  BY DEF IsRule, PlainRules, Grammar!parse
<1>2. \/ Grammar!Done
      \/ Grammar!Then(<<"declaration", "unit">>)
      \/ Grammar!Then(<<"statement", "unit">>)
  BY DEF Grammar!parse
<1> QED
  BY <1>1, <1>2, PlainLists, GoingPlainly DEF Grammar!Done

LEMMA TypeKeeps == BalanceInv /\ Grammar!parseType => BalanceInv'
<1> SUFFICES ASSUME BalanceInv, Grammar!parseType PROVE BalanceInv'
  OBVIOUS
<1>1. "aType" \in PlainRules
  BY DEF PlainRules
<1>2. CASE Grammar!Refused("aType")
  BY <1>1, <1>2, Refusing
<1>3. CASE current = "type" /\ Grammar!Guarded("aType", <<"take">>)
  <2>1. Fits(<<"take">>)
    BY <1>3, PlainLists, TakingLists, PlainFits DEF Opener, Closer
  <2> QED
    BY <1>1, <1>3, <2>1, Guarding
<1>4. CASE Grammar!Doing("aType") /\ Grammar!Complain(<<>>)
  <2>1. <<>> \in Seq(PlainRules \cup {"synchronize"})
    OBVIOUS
  <2> QED
    BY <1>1, <1>4, <2>1, Complaining DEF IsRule
<1> QED
  BY <1>2, <1>3, <1>4 DEF Grammar!parseType

LEMMA ExpressionKeeps == BalanceInv /\ Grammar!parseExpr => BalanceInv'
<1> SUFFICES ASSUME BalanceInv, Grammar!parseExpr PROVE BalanceInv'
  OBVIOUS
<1>1. "expression" \in PlainRules
  BY DEF PlainRules
<1>2. CASE Grammar!Refused("expression")
  BY <1>1, <1>2, Refusing
<1>3. CASE Grammar!Guarded("expression", <<"unary", "operators">>)
  <2>1. Fits(<<"unary", "operators">>)
    BY <1>3, PlainLists, TakingLists, PlainFits DEF Opener, Closer
  <2> QED
    BY <1>1, <1>3, <2>1, Guarding
<1> QED
  BY <1>2, <1>3 DEF Grammar!parseExpr

LEMMA UnaryKeeps == BalanceInv /\ Grammar!parseUnary => BalanceInv'
<1> SUFFICES ASSUME BalanceInv, Grammar!parseUnary PROVE BalanceInv'
  OBVIOUS
<1>1. "unary" \in PlainRules
  BY DEF PlainRules
<1>2. CASE Grammar!Refused("unary")
  BY <1>1, <1>2, Refusing
<1>3. CASE Grammar!Guarded("unary", <<"primary", "postfix">>)
  <2>1. Fits(<<"primary", "postfix">>)
    BY <1>3, PlainLists, TakingLists, PlainFits DEF Opener, Closer
  <2> QED
    BY <1>1, <1>3, <2>1, Guarding
<1> QED
  BY <1>2, <1>3 DEF Grammar!parseUnary

LEMMA PrimaryKeeps == BalanceInv /\ Grammar!parsePrimary => BalanceInv'
<1> SUFFICES ASSUME BalanceInv, Grammar!parsePrimary PROVE BalanceInv'
  OBVIOUS
<1>1. "primary" \in PlainRules
  BY DEF PlainRules
<1>2. CASE Grammar!Refused("primary")
  BY <1>1, <1>2, Refusing
<1>3. CASE current = "name" /\ Grammar!Guarded("primary", <<"take">>)
  <2>1. Fits(<<"take">>)
    BY <1>3, PlainLists, TakingLists, PlainFits DEF Opener, Closer
  <2> QED
    BY <1>1, <1>3, <2>1, Guarding
<1>4. CASE current = "(" /\ Grammar!Guarded("primary", <<"take", "expression", ")">>)
  <2>1. Fits(<<"take", "expression", ")">>)
    BY <1>4, PlainLists, TakingLists, PlainFits DEF Opener, Closer
  <2> QED
    BY <1>1, <1>4, <2>1, Guarding
<1>5. CASE Grammar!Doing("primary") /\ Grammar!Complain(<<"take">>)
  <2>1. <<"take">> \in Seq(Rules) /\ TakesFirst(<<"take">>, ahead)
    BY RulesAre DEF TakesFirst
  <2>2. todo # <<>> /\ Head(todo) \notin {"take", Opener, Closer}
    BY <1>1, <1>5, RulesAre DEF Grammar!Doing
  <2> QED
    BY <1>5, <2>1, <2>2, Replacing DEF Grammar!Complain
<1> QED
  BY <1>2, <1>3, <1>4, <1>5 DEF Grammar!parsePrimary

\* The lists that open a body and close it.
LEMMA BodyFits ==
  ASSUME NEW r \in Seq(Rules), NEW k \in 1 .. Len(r), NEW m \in 1 .. Len(r),
         \A i \in 1 .. Len(r) :
           /\ r[i] = Opener <=> i = k
           /\ r[i] = Closer <=> i = m
           /\ r[i] # "synchronize" /\ (r[i] = "take" => i = 1),
         r[1] = "take" => current # Opener /\ current # Closer
  PROVE  Fits(r)
<1>1. Count(r, Opener) = 1 /\ Count(r, Closer) = 1
  BY CountOne
<1>2. TakesFirst(r, ahead) /\ SkipsNothing(r)
  BY DEF TakesFirst, SkipsNothing
<1>3. Ahead(r, current) = 0
  BY <1>1 DEF Ahead, Opening
<1> QED
  BY <1>2, <1>3 DEF Fits

LEMMA BodyThenFits ==
  ASSUME NEW x \in PlainRules, NEW y \in PlainRules
  PROVE  Fits(<<Opener, x, Closer, y>>)
<1>1. PICK r : r = <<Opener, x, Closer, y>>
  OBVIOUS
<1>2. r \in Seq(Rules)
  BY <1>1, RulesAre
<1>3. \A i \in 1 .. Len(r) :
        /\ r[i] = Opener <=> i = 1
        /\ r[i] = Closer <=> i = 3
        /\ r[i] # "synchronize" /\ (r[i] = "take" => i = 1)
  BY <1>1, RulesAre, Distinct
<1>4. 1 \in 1 .. Len(r) /\ 3 \in 1 .. Len(r) /\ r[1] = Opener
  BY <1>1
<1>5. Fits(r)
  BY <1>2, <1>3, <1>4, Distinct, BodyFits
<1> QED
  BY <1>1, <1>5

LEMMA BodyOfFits ==
  ASSUME NEW x \in PlainRules, NEW y \in PlainRules, NEW z \in PlainRules,
         current # Opener, current # Closer
  PROVE  Fits(<<"take", x, Opener, y, Closer, z>>)
<1>1. PICK r : r = <<"take", x, Opener, y, Closer, z>>
  OBVIOUS
<1>2. r \in Seq(Rules)
  BY <1>1, RulesAre
<1>3. \A i \in 1 .. Len(r) :
        /\ r[i] = Opener <=> i = 3
        /\ r[i] = Closer <=> i = 5
        /\ r[i] # "synchronize" /\ (r[i] = "take" => i = 1)
  BY <1>1, RulesAre, Distinct
<1>4. 3 \in 1 .. Len(r) /\ 5 \in 1 .. Len(r) /\ r[1] = "take"
  BY <1>1
<1>5. Fits(r)
  BY <1>2, <1>3, <1>4, Distinct, BodyFits
<1> QED
  BY <1>1, <1>5

LEMMA BodyFirstFits ==
  ASSUME NEW x \in PlainRules, NEW y \in PlainRules, NEW z \in PlainRules,
         current # Opener, current # Closer
  PROVE  Fits(<<"take", Opener, x, Closer, y, z>>)
<1>1. PICK r : r = <<"take", Opener, x, Closer, y, z>>
  OBVIOUS
<1>2. r \in Seq(Rules)
  BY <1>1, RulesAre
<1>3. \A i \in 1 .. Len(r) :
        /\ r[i] = Opener <=> i = 2
        /\ r[i] = Closer <=> i = 4
        /\ r[i] # "synchronize" /\ (r[i] = "take" => i = 1)
  BY <1>1, RulesAre, Distinct
<1>4. 2 \in 1 .. Len(r) /\ 4 \in 1 .. Len(r) /\ r[1] = "take"
  BY <1>1
<1>5. Fits(r)
  BY <1>2, <1>3, <1>4, Distinct, BodyFits
<1> QED
  BY <1>1, <1>5

LEMMA BodyLastFits ==
  ASSUME NEW x \in PlainRules, NEW y \in PlainRules, NEW z \in PlainRules, NEW w \in PlainRules,
         current # Opener, current # Closer
  PROVE  Fits(<<"take", x, y, z, Opener, w, Closer>>)
<1>1. PICK r : r = <<"take", x, y, z, Opener, w, Closer>>
  OBVIOUS
<1>2. r \in Seq(Rules)
  BY <1>1, RulesAre
<1>3. \A i \in 1 .. Len(r) :
        /\ r[i] = Opener <=> i = 5
        /\ r[i] = Closer <=> i = 7
        /\ r[i] # "synchronize" /\ (r[i] = "take" => i = 1)
  BY <1>1, RulesAre, Distinct
<1>4. 5 \in 1 .. Len(r) /\ 7 \in 1 .. Len(r) /\ r[1] = "take"
  BY <1>1
<1>5. Fits(r)
  BY <1>2, <1>3, <1>4, Distinct, BodyFits
<1> QED
  BY <1>1, <1>5

LEMMA BracedFit ==
  /\ Fits(<<"{", "members", "}", "optional;">>)
  /\ current # Opener /\ current # Closer =>
       /\ Fits(<<"take", "(", "expression", ")", "{", "cases", "}">>)
       /\ Fits(<<"take", "name", "{", "fields", "}", "optional;">>)
       /\ Fits(<<"take", "optionalName", "{", "enumerators", "}", "optional;">>)
       /\ Fits(<<"take", "{", "sharedMembers", "}", "optional;", "members">>)
<1>1. /\ "members" \in PlainRules /\ "optional;" \in PlainRules /\ "(" \in PlainRules
      /\ "expression" \in PlainRules /\ ")" \in PlainRules /\ "cases" \in PlainRules
      /\ "name" \in PlainRules /\ "fields" \in PlainRules /\ "optionalName" \in PlainRules
      /\ "enumerators" \in PlainRules /\ "sharedMembers" \in PlainRules
  BY DEF PlainRules
<1>2. Fits(<<Opener, "members", Closer, "optional;">>)
  BY <1>1, BodyThenFits
<1>3. ASSUME current # Opener, current # Closer
      PROVE  /\ Fits(<<"take", "(", "expression", ")", Opener, "cases", Closer>>)
             /\ Fits(<<"take", "name", Opener, "fields", Closer, "optional;">>)
             /\ Fits(<<"take", "optionalName", Opener, "enumerators", Closer, "optional;">>)
             /\ Fits(<<"take", Opener, "sharedMembers", Closer, "optional;", "members">>)
  BY <1>1, <1>3, BodyOfFits, BodyFirstFits, BodyLastFits
<1> QED
  BY <1>2, <1>3 DEF Opener, Closer

LEMMA CompoundFits ==
  /\ Level(Grammar!Compound) /\ Fits(Grammar!Compound)
  /\ current # Opener /\ current # Closer =>
       Fits(<<"take">> \o Grammar!Compound \o <<"catch">> \o Grammar!Compound)
<1>1. "block" \in PlainRules /\ <<"catch">> \in Seq(PlainRules)
  BY DEF PlainRules
<1>2. Grammar!Compound = <<Opener, "block", Closer>>
  BY DEF Grammar!Compound, Opener, Closer
<1>3. Level(Grammar!Compound) /\ Level(<<"catch">>)
  BY <1>1, <1>2, BodyIsLevel, PlainIsLevel
<1>4. ASSUME current # Opener, current # Closer
      PROVE  Fits(<<"take">> \o Grammar!Compound \o <<"catch">> \o Grammar!Compound)
  <2>1. Fits(<<"take">>)
    BY <1>4, TakingLists, PlainFits
  <2>2. Fits(<<"take">> \o Grammar!Compound)
    BY <1>3, <2>1, FitsJoin
  <2>3. Fits((<<"take">> \o Grammar!Compound) \o <<"catch">>)
    BY <1>3, <2>2, FitsJoin
  <2> QED
    BY <1>3, <2>3, FitsJoin
<1> QED
  BY <1>3, <1>4, LevelFits

\* A label takes its name and the colon that has been looked at.
LEMMA LabelFits ==
  ASSUME current # Opener, current # Closer, ahead = <<Colon>>
  PROVE  Fits(<<"take", "take", "labelled">>)
<1>1. PICK r : r = <<"take", "take", "labelled">>
  OBVIOUS
<1>2. Len(r) = 3 /\ r[1] = "take" /\ r[2] = "take" /\ r[3] = "labelled"
  BY <1>1
<1>3. r \in Seq(Rules)
  BY <1>1 DEF Rules, PlainRules
<1>4. "labelled" # Opener /\ "labelled" # Closer
  BY DEF Opener, Closer
<1>5. \A i \in 1 .. Len(r) : r[i] # Opener /\ r[i] # Closer /\ r[i] # "synchronize"
  BY <1>2, <1>4, Distinct
<1>6. Count(r, Opener) = 0 /\ Count(r, Closer) = 0
  BY <1>3, <1>5, CountNone
<1>7. TakesFirst(r, ahead)
  BY <1>2 DEF TakesFirst
<1>8. Ahead(r, current) = 0
  BY <1>6 DEF Ahead, Opening
<1> QED
  BY <1>1, <1>3, <1>5, <1>7, <1>8 DEF Fits, SkipsNothing

\* An initializer list takes the brace that opens it.
LEMMA InitializerFits ==
  ASSUME current = Opener PROVE Fits(<<"take", "values", "}">>)
<1>1. PICK r : r = <<"take", "values", Closer>>
  OBVIOUS
<1>2. Len(r) = 3 /\ r[1] = "take" /\ r[2] = "values" /\ r[3] = Closer
  BY <1>1
<1>3. "values" # Opener /\ "values" # Closer /\ "values" \in Rules
  BY DEF Opener, Closer, Rules, PlainRules
<1>4. r \in Seq(Rules)
  BY <1>1, <1>3, RulesAre
<1>5. \A i \in 1 .. Len(r) : r[i] # Opener /\ (r[i] = Closer <=> i = 3) /\ r[i] # "synchronize"
  BY <1>2, <1>3, Distinct
<1>6. Count(r, Opener) = 0 /\ Count(r, Closer) = 1
  <2>1. Count(r, Opener) = 0
    BY <1>4, <1>5, CountNone
  <2>2. 3 \in 1 .. Len(r)
    BY <1>2
  <2>3. Count(r, Closer) = 1
    BY <1>4, <1>5, <2>2, CountOne
  <2> QED
    BY <2>1, <2>3
<1>7. TakesFirst(r, ahead)
  BY <1>2, <1>3, Distinct DEF TakesFirst
<1>8. Ahead(r, current) = 0
  BY <1>2, <1>6 DEF Ahead, Opening
<1>9. r = <<"take", "values", "}">>
  BY <1>1 DEF Closer
<1> QED
  BY <1>4, <1>5, <1>7, <1>8, <1>9 DEF Fits, SkipsNothing

LEMMA StatementFits ==
  ASSUME BalanceInv, Grammar!Doing("statement"), Grammar!Ready
  PROVE  Fits(Grammar!StatementForm)
<1>1. current = "name" /\ Grammar!Next1(":") => ahead = <<Colon>>
  BY DEF BalanceInv, Grammar!Next1, Colon
<1>2. ASSUME current = "name", Grammar!Next1(":") PROVE Fits(<<"take", "take", "labelled">>)
  BY <1>1, <1>2, LabelFits DEF Opener, Closer
<1>3. ASSUME current \in {"switch", "try"}
      PROVE  /\ Fits(<<"take", "(", "expression", ")", "{", "cases", "}">>)
             /\ Fits(<<"take">> \o Grammar!Compound \o <<"catch">> \o Grammar!Compound)
  <2>1. current # Opener /\ current # Closer
    BY <1>3 DEF Opener, Closer
  <2> QED
    BY <2>1, BracedFit, CompoundFits
<1>5. ASSUME current \in {"if", "for", "while", "do", "return"}
      PROVE  /\ Fits(<<"take", "(", "expression", ")", "statement", "orElse">>)
             /\ Fits(<<"take", "(", "initialStep", "condition", ";", "lastStep", ")", "statement">>)
             /\ Fits(<<"take", "(", "expression", ")", "statement">>)
             /\ Fits(<<"take", "statement", "while", "(", "expression", ")", ";">>)
             /\ Fits(<<"take", "condition", ";">>)
  <2>1. current # Opener /\ current # Closer
    BY <1>5 DEF Opener, Closer
  <2> QED
    BY <2>1, TakingLists, PlainFits
<1>6. Fits(<<"declaration">>) /\ Fits(<<"expression", ";">>)
  BY PlainLists, PlainFits
<1> QED
  BY <1>2, <1>3, <1>5, <1>6, CompoundFits DEF Grammar!StatementForm
LEMMA StatementKeeps == BalanceInv /\ Grammar!parseStmt => BalanceInv'
<1> SUFFICES ASSUME BalanceInv, Grammar!parseStmt PROVE BalanceInv'
  OBVIOUS
<1>1. "statement" \in PlainRules
  BY DEF PlainRules
<1>2. CASE Grammar!Ready /\ Grammar!Guarded("statement", Grammar!StatementForm)
  <2>1. Grammar!Doing("statement")
    BY <1>2 DEF Grammar!Guarded
  <2> QED
    BY <1>1, <1>2, <2>1, StatementFits, Guarding
<1>3. CASE Grammar!Doing("statement")
           /\ (Grammar!Complain(<<"synchronize">>) \/ Grammar!Complain(<<>>))
  <2>1. /\ <<"synchronize">> \in Seq(PlainRules \cup {"synchronize"})
        /\ <<>> \in Seq(PlainRules \cup {"synchronize"})
    OBVIOUS
  <2>2. IsRule("statement")
    BY <1>1, <1>3 DEF IsRule
  <2> QED
    BY <1>3, <2>1, <2>2, Complaining
<1> QED
  BY <1>2, <1>3 DEF Grammar!parseStmt

LEMMA SwitchKeeps == BalanceInv /\ Grammar!parseSwitchStmt => BalanceInv'
<1> SUFFICES ASSUME BalanceInv, Grammar!parseSwitchStmt PROVE BalanceInv'
  OBVIOUS
<1>1. CASE Grammar!Doing("cases")
  <2>1. IsRule("cases")
    BY <1>1 DEF IsRule, PlainRules
  <2>2. <<"synchronize", "cases">> \in Seq(PlainRules \cup {"synchronize"})
    BY DEF PlainRules
  <2>3. \/ Grammar!Then(<<>>)
        \/ current = "case" /\ Grammar!Then(<<"take", "expression", ":", "caseBody", "cases">>)
        \/ Grammar!Complain(<<"synchronize", "cases">>)
    BY <1>1 DEF Grammar!parseSwitchStmt, Grammar!Done, Grammar!Doing
  <2> QED
    BY <2>1, <2>2, <2>3, PlainLists, TakingLists, GoingPlainly, Complaining DEF Opener, Closer
<1>2. CASE Grammar!Doing("caseBody")
  <2>1. IsRule("caseBody")
    BY <1>2 DEF IsRule, PlainRules
  <2>2. Grammar!Then(<<>>) \/ Grammar!Then(<<"statement", "caseBody">>)
    BY <1>2 DEF Grammar!parseSwitchStmt, Grammar!Done, Grammar!Doing
  <2> QED
    BY <2>1, <2>2, PlainLists, GoingPlainly
<1> QED
  BY <1>1, <1>2 DEF Grammar!parseSwitchStmt

LEMMA DeclarationKeeps == BalanceInv /\ Grammar!parseDecl => BalanceInv'
<1> SUFFICES ASSUME BalanceInv, Grammar!parseDecl PROVE BalanceInv'
  OBVIOUS
<1>1. IsRule("declaration")
  BY DEF IsRule, PlainRules, Grammar!parseDecl
<1>2. \/ current = "public" /\ Grammar!Then(<<"take", "declaration">>)
      \/ current = "class" /\ Grammar!Then(<<"take", "name", "base", "classBody">>)
      \/ current = "union"
           /\ Grammar!Then(<<"take", "name", "{", "fields", "}", "optional;">>)
      \/ current = "enum"
           /\ Grammar!Then(<<"take", "optionalName", "{", "enumerators", "}", "optional;">>)
      \/ Grammar!Then(<<"aType", "name", "declarator">>)
  BY DEF Grammar!parseDecl
<1>3. current \in {"public", "class", "union", "enum"} => current # Opener /\ current # Closer
  BY DEF Opener, Closer
<1> QED
  BY <1>1, <1>2, <1>3, PlainLists, TakingLists, BracedFit, GoingPlainly, Going

LEMMA DeclaratorKeeps == BalanceInv /\ Grammar!parseVarOrFuncDecl => BalanceInv'
<1> SUFFICES ASSUME BalanceInv, Grammar!parseVarOrFuncDecl PROVE BalanceInv'
  OBVIOUS
<1>1. CASE Grammar!Doing("initializer")
  <2>1. IsRule("initializer")
    BY <1>1 DEF IsRule, PlainRules
  <2>2. \/ current = "{" /\ Grammar!Then(<<"take", "values", "}">>)
        \/ Grammar!Then(<<"expression">>)
    BY <1>1 DEF Grammar!parseVarOrFuncDecl, Grammar!Doing
  <2>3. current = "{" => Fits(<<"take", "values", "}">>)
    BY InitializerFits DEF Opener
  <2> QED
    BY <2>1, <2>2, <2>3, PlainLists, GoingPlainly, Going
<1>2. CASE Grammar!Doing("declarator")
  <2>1. IsRule("declarator")
    BY <1>2 DEF IsRule, PlainRules
  <2> QED
    BY <1>2, <2>1, PlainLists, TakingLists, GoingPlainly
       DEF Grammar!parseVarOrFuncDecl, Grammar!Done, Grammar!Doing, Opener, Closer
<1>3. CASE Grammar!Doing("values")
  <2>1. IsRule("values")
    BY <1>3 DEF IsRule, PlainRules
  <2> QED
    BY <1>3, <2>1, PlainLists, TakingLists, GoingPlainly
       DEF Grammar!parseVarOrFuncDecl, Grammar!Done, Grammar!Doing, Opener, Closer
<1>4. CASE Grammar!Doing("moreValues")
  <2>1. IsRule("moreValues")
    BY <1>4 DEF IsRule, PlainRules
  <2> QED
    BY <1>4, <2>1, PlainLists, TakingLists, GoingPlainly
       DEF Grammar!parseVarOrFuncDecl, Grammar!Done, Grammar!Doing, Opener, Closer
<1>5. CASE Grammar!Doing("siblings")
  <2>1. IsRule("siblings")
    BY <1>5 DEF IsRule, PlainRules
  <2> QED
    BY <1>5, <2>1, PlainLists, TakingLists, GoingPlainly
       DEF Grammar!parseVarOrFuncDecl, Grammar!Done, Grammar!Doing, Opener, Closer
<1>6. CASE Grammar!Doing("siblingValue")
  <2>1. IsRule("siblingValue")
    BY <1>6 DEF IsRule, PlainRules
  <2> QED
    BY <1>6, <2>1, PlainLists, TakingLists, GoingPlainly
       DEF Grammar!parseVarOrFuncDecl, Grammar!Done, Grammar!Doing, Opener, Closer
<1> QED
  BY <1>1, <1>2, <1>3, <1>4, <1>5, <1>6 DEF Grammar!parseVarOrFuncDecl

LEMMA FunctionKeeps == BalanceInv /\ Grammar!parseFuncDecl => BalanceInv'
<1> SUFFICES ASSUME BalanceInv, Grammar!parseFuncDecl PROVE BalanceInv'
  OBVIOUS
<1>1. CASE Grammar!Doing("body")
  <2>1. IsRule("body")
    BY <1>1 DEF IsRule, PlainRules
  <2>2. Grammar!Then(Grammar!Compound) \/ Grammar!Then(<<";">>)
    BY <1>1 DEF Grammar!parseFuncDecl, Grammar!Doing
  <2> QED
    BY <2>1, <2>2, PlainLists, CompoundFits, GoingPlainly, Going
<1>2. CASE Grammar!Doing("parameters")
  <2>1. IsRule("parameters")
    BY <1>2 DEF IsRule, PlainRules
  <2> QED
    BY <1>2, <2>1, PlainLists, TakingLists, GoingPlainly
       DEF Grammar!parseFuncDecl, Grammar!Done, Grammar!Doing, Opener, Closer
<1>3. CASE Grammar!Doing("parameter")
  <2>1. IsRule("parameter")
    BY <1>3 DEF IsRule, PlainRules
  <2> QED
    BY <1>3, <2>1, PlainLists, TakingLists, GoingPlainly
       DEF Grammar!parseFuncDecl, Grammar!Done, Grammar!Doing, Opener, Closer
<1>4. CASE Grammar!Doing("moreParameters")
  <2>1. IsRule("moreParameters")
    BY <1>4 DEF IsRule, PlainRules
  <2> QED
    BY <1>4, <2>1, PlainLists, TakingLists, GoingPlainly
       DEF Grammar!parseFuncDecl, Grammar!Done, Grammar!Doing, Opener, Closer
<1>5. CASE Grammar!Doing("optionalName")
  <2>1. IsRule("optionalName")
    BY <1>5 DEF IsRule, PlainRules
  <2> QED
    BY <1>5, <2>1, PlainLists, TakingLists, GoingPlainly
       DEF Grammar!parseFuncDecl, Grammar!Done, Grammar!Doing, Opener, Closer
<1> QED
  BY <1>1, <1>2, <1>3, <1>4, <1>5 DEF Grammar!parseFuncDecl

LEMMA ClassKeeps == BalanceInv /\ Grammar!parseClassDecl => BalanceInv'
<1> SUFFICES ASSUME BalanceInv, Grammar!parseClassDecl PROVE BalanceInv'
  OBVIOUS
<1>1. CASE Grammar!Doing("base")
  <2>1. IsRule("base")
    BY <1>1 DEF IsRule, PlainRules
  <2>2. \/ current = ":" /\ Grammar!Then(<<"take", "name">>)
        \/ Grammar!Then(<<>>)
    BY <1>1 DEF Grammar!parseClassDecl, Grammar!Done, Grammar!Doing
  <2> QED
    BY <2>1, <2>2, PlainLists, TakingLists, GoingPlainly DEF Opener, Closer
<1>2. CASE Grammar!Doing("classBody")
  <2>1. IsRule("classBody")
    BY <1>2 DEF IsRule, PlainRules
  <2>2. \/ current = ";" /\ Grammar!Then(<<"take">>)
        \/ Grammar!Then(<<"{", "members", "}", "optional;">>)
    BY <1>2 DEF Grammar!parseClassDecl, Grammar!Done, Grammar!Doing
  <2>3. current = ";" => current # Opener /\ current # Closer
    BY DEF Opener, Closer
  <2> QED
    BY <2>1, <2>2, <2>3, TakingLists, BracedFit, GoingPlainly, Going
<1>3. CASE Grammar!Doing("members")
  <2>1. IsRule("members")
    BY <1>3 DEF IsRule, PlainRules
  <2>2. \/ Grammar!Then(<<>>)
        \/ current \in {"class", "union"}
             /\ Grammar!Then(<<"take", "{", "sharedMembers", "}", "optional;", "members">>)
        \/ current = "public" /\ Grammar!Then(<<"take", "member", "members">>)
        \/ Grammar!Then(<<"member", "members">>)
    BY <1>3 DEF Grammar!parseClassDecl, Grammar!Done, Grammar!Doing
  <2>3. current \in {"class", "union", "public"} => current # Opener /\ current # Closer
    BY DEF Opener, Closer
  <2> QED
    BY <2>1, <2>2, <2>3, PlainLists, TakingLists, BracedFit, GoingPlainly, Going
<1>4. CASE Grammar!Doing("member")
  <2>1. IsRule("member")
    BY <1>4 DEF IsRule, PlainRules
  <2>2. \/ Grammar!Then(<<"aType", "name", "memberEnd">>)
        \/ Grammar!Complain(<<"synchronize">>)
    BY <1>4 DEF Grammar!parseClassDecl, Grammar!Done, Grammar!Doing
  <2>3. <<"synchronize">> \in Seq(PlainRules \cup {"synchronize"})
    OBVIOUS
  <2> QED
    BY <2>1, <2>2, <2>3, PlainLists, GoingPlainly, Complaining
<1>5. CASE Grammar!Doing("memberEnd")
  <2>1. IsRule("memberEnd")
    BY <1>5 DEF IsRule, PlainRules
  <2>2. \/ current = "(" /\ Grammar!Then(<<"take", "parameters", ")", "body">>)
        \/ Grammar!Then(<<";">>)
    BY <1>5 DEF Grammar!parseClassDecl, Grammar!Done, Grammar!Doing
  <2> QED
    BY <2>1, <2>2, PlainLists, TakingLists, GoingPlainly DEF Opener, Closer
<1>6. CASE Grammar!Doing("sharedMembers")
  <2>1. IsRule("sharedMembers")
    BY <1>6 DEF IsRule, PlainRules
  <2>2. \/ Grammar!Then(<<>>)
        \/ Grammar!Then(<<"aType", "name", ";", "sharedMembers">>)
        \/ Grammar!Complain(<<"synchronize", "sharedMembers">>)
    BY <1>6 DEF Grammar!parseClassDecl, Grammar!Done, Grammar!Doing
  <2>3. <<"synchronize", "sharedMembers">> \in Seq(PlainRules \cup {"synchronize"})
    BY DEF PlainRules
  <2> QED
    BY <2>1, <2>2, <2>3, PlainLists, GoingPlainly, Complaining
<1> QED
  BY <1>1, <1>2, <1>3, <1>4, <1>5, <1>6 DEF Grammar!parseClassDecl

LEMMA BalanceStep == BalanceInv /\ [Grammar!Next]_(Grammar!vars) => BalanceInv'
<1> SUFFICES ASSUME BalanceInv, [Grammar!Next]_(Grammar!vars) PROVE BalanceInv'
  OBVIOUS
<1>1. CASE UNCHANGED Grammar!vars
  BY <1>1 DEF Grammar!vars, BalanceInv
<1>2. CASE Grammar!Leave
  <2>1. IsRule("leave") /\ Grammar!Then(<<>>)
    BY <1>2 DEF Grammar!Leave, Grammar!Done, IsRule, PlainRules
  <2> QED
    BY <2>1, PlainLists, GoingPlainly
<1> QED
  BY <1>1, <1>2, Peeking, Taking, Expecting, Skipping, TypeKeeps, ExpressionKeeps, OperatorsKeep,
     UnaryKeeps, PostfixKeeps, ArgumentsKeep, PrimaryKeeps, StatementKeeps, BlockKeeps, SwitchKeeps,
     PartsKeep, DeclarationKeeps, DeclaratorKeeps, FunctionKeeps, ClassKeeps, UnionKeeps, EnumKeeps,
     SemicolonKeeps, UnitKeeps DEF Grammar!Next

\* Whatever the text, for any limit of the depth: what is parsed to its end without
\* an error has its braces closed.
THEOREM AcceptedIsBalancedHolds == Grammar!Spec => []AcceptedIsBalanced
<1>1. BalanceInv => AcceptedIsBalanced
  <2> SUFFICES ASSUME BalanceInv, todo = <<>>, ~errors PROVE nested = 0
    BY DEF AcceptedIsBalanced, Grammar!AcceptedIsBalanced, Grammar!Ended
  <2>1. \A e : Count(todo, e) = 0
    <3>1. todo \in Seq(Rules) /\ \A e : \A i \in 1 .. Len(todo) : todo[i] # e
      BY DEF BalanceInv
    <3> QED
      BY <3>1, CountNone
  <2>2. Ahead(todo, current) = 0 /\ nested \in Int /\ nested + Ahead(todo, current) = 0
    BY <2>1 DEF Ahead, BalanceInv
  <2> QED
    BY <2>2
<1> QED
  BY <1>1, InitBalance, BalanceStep, PTL DEF Grammar!Spec

-----------------------------------------------------------------------------
(* The scanners of one text.  They are in the same mode, but each skips     *)
(* what it took together with an earlier character: Skipping says how far  *)
(* they may differ in that.                                                *)

Literals == {"string", "char", "long"}
ScanTyped ==
  /\ lex \in Scan!Scanner /\ repl \in Scan!Scanner /\ fmt \in Scan!Scanner
  /\ bytes \in 0 .. MaxBytes /\ comments \in 0 .. 2
  /\ c \in Scan!Characters /\ next \in Scan!Characters
  /\ plain \in BOOLEAN /\ parted \in BOOLEAN
\* What lexer and REPL still skip: the second character of a comment's sign, or
\* what a backslash takes, where \x takes two characters more for the lexer.
SkipsTogether ==
  /\ lex.mode \in {"line", "block", "code"} => lex.skip \in {0, 1}
  /\ lex.mode \in {"block", "code"} => lex.skip = repl.skip
  /\ lex.mode = "line" => repl.skip = 0 /\ (lex.skip = 1 => c = "/")
  /\ lex.mode = "block" /\ lex.skip = 1 => c = "*"
  /\ lex.mode = "code" /\ lex.skip = 1 => c = "/" /\ ~plain
  /\ lex.mode \in Literals =>
       <<lex.skip, repl.skip>> \in {<<0, 0>>, <<1, 1>>, <<3, 1>>, <<2, 0>>, <<1, 0>>}
  /\ lex.skip = 3 => c = "x"
InStep ==
  /\ repl.mode = Scan!SameMode(lex.mode)
  /\ comments = IF lex.mode = "block" THEN 1 ELSE 0
  /\ miscounted = FALSE
  /\ SkipsTogether
  /\ plain => /\ fmt.mode = repl.mode /\ lex.mode # "block"
              /\ fmt.skip = IF lex.mode \in Literals THEN repl.skip ELSE 0
ScanInv == ScanTyped /\ (~ parted => InStep)

LEMMA ScannerIs ==
  ASSUME NEW s \in Scan!Scanner
  PROVE  s.mode \in {"code", "line", "block", "string", "char", "long"} /\ s.skip \in 0 .. 3
BY DEF Scan!Scanner, Scan!Modes

LEMMA ScannerIn ==
  ASSUME NEW s \in Scan!Scanner, NEW m
  PROVE  s = Scan!In(m) <=> s.mode = m /\ s.skip = 0
BY DEF Scan!Scanner, Scan!Modes, Scan!In

LEMMA ScannerSkips ==
  ASSUME NEW s \in Scan!Scanner, s.skip > 0
  PROVE  /\ [s EXCEPT !.skip = s.skip - 1].mode = s.mode
         /\ [s EXCEPT !.skip = s.skip - 1].skip = s.skip - 1
         /\ [s EXCEPT !.skip = s.skip - 1] \in Scan!Scanner
BY DEF Scan!Scanner, Scan!Modes

LEMMA ScannersMade ==
  /\ \A m : Scan!In(m).mode = m /\ Scan!In(m).skip = 0
  /\ \A m, n : Scan!Taking(m, n).mode = m /\ Scan!Taking(m, n).skip = n
  /\ \A m \in Scan!Modes : Scan!In(m) \in Scan!Scanner
  /\ \A m \in Scan!Modes, n \in 0 .. 3 : Scan!Taking(m, n) \in Scan!Scanner
  /\ Scan!Modes = {"code", "line", "block", "string", "char", "long"}
BY DEF Scan!Scanner, Scan!Modes, Scan!In, Scan!Taking

\* What the lexer does next, by the mode it is in.
LEMMA LexMoves ==
  ASSUME lex \in Scan!Scanner
  PROVE  /\ Scan!LexStep \in Scan!Scanner
         /\ lex.skip > 0 => Scan!LexStep.mode = lex.mode /\ Scan!LexStep.skip = lex.skip - 1
         /\ lex.skip = 0 /\ lex.mode = "code" => Scan!LexStep = Scan!LexCode
         /\ lex.skip = 0 /\ lex.mode = "block" => Scan!LexStep = Scan!LexBlock
         /\ lex.skip = 0 /\ lex.mode = "string" => Scan!LexStep = Scan!LexString
         /\ lex.skip = 0 /\ lex.mode = "char" => Scan!LexStep = Scan!LexChar
         /\ lex.skip = 0 /\ lex.mode = "line" =>
              Scan!LexStep = Scan!In(IF c = "newline" THEN "code" ELSE "line")
         /\ lex.skip = 0 /\ lex.mode = "long" =>
              Scan!LexStep = Scan!In(IF c \in {"'", "newline"} THEN "code" ELSE "long")
<1>1. CASE lex.skip > 0
  BY <1>1, ScannerSkips DEF Scan!LexStep
<1>2. CASE lex.skip = 0 /\ lex.mode = "code"
  <2>1. Scan!LexStep = Scan!LexCode
    BY <1>2 DEF Scan!LexStep
  <2>2. Scan!LexCode \in Scan!Scanner
    BY ScannersMade DEF Scan!LexCode
  <2> QED
    BY <1>2, <2>1, <2>2
<1>3. CASE lex.skip = 0 /\ lex.mode = "block"
  <2>1. Scan!LexStep = Scan!LexBlock
    BY <1>3 DEF Scan!LexStep
  <2>2. Scan!LexBlock \in Scan!Scanner
    BY ScannersMade DEF Scan!LexBlock
  <2> QED
    BY <1>3, <2>1, <2>2
<1>4. CASE lex.skip = 0 /\ lex.mode = "string"
  <2>1. Scan!LexStep = Scan!LexString
    BY <1>4 DEF Scan!LexStep
  <2>2. Scan!LexString \in Scan!Scanner
    BY ScannersMade DEF Scan!LexString, Scan!EscapeLength
  <2> QED
    BY <1>4, <2>1, <2>2
<1>5. CASE lex.skip = 0 /\ lex.mode = "char"
  <2>1. Scan!LexStep = Scan!LexChar
    BY <1>5 DEF Scan!LexStep
  <2>2. Scan!LexChar \in Scan!Scanner
    BY ScannersMade DEF Scan!LexChar, Scan!EscapeLength
  <2> QED
    BY <1>5, <2>1, <2>2
<1>6. CASE lex.skip = 0 /\ lex.mode \in {"line", "long"}
  BY <1>6, ScannersMade DEF Scan!LexStep
<1>7. /\ lex.mode \in {"code", "line", "block", "string", "char", "long"}
      /\ lex.skip > 0 \/ lex.skip = 0
  BY ScannerIs
<1> QED
  BY <1>1, <1>2, <1>3, <1>4, <1>5, <1>6, <1>7

LEMMA ReplMoves ==
  ASSUME repl \in Scan!Scanner
  PROVE  /\ Scan!ReplStep \in Scan!Scanner
         /\ c = "newline" => Scan!ReplStep = Scan!In(IF repl.mode = "line" THEN "code" ELSE repl.mode)
         /\ c # "newline" /\ repl.skip > 0 =>
              Scan!ReplStep.mode = repl.mode /\ Scan!ReplStep.skip = repl.skip - 1
         /\ c # "newline" /\ repl.skip = 0 =>
              /\ repl.mode = "code" => Scan!ReplStep = Scan!ReplCode
              /\ repl.mode = "block" =>
                   Scan!ReplStep = IF c = "*" /\ next = "/" THEN Scan!Taking("code", 1) ELSE repl
              /\ repl.mode = "string" =>
                   Scan!ReplStep = IF c = "\\" THEN Scan!Taking("string", 1)
                                   ELSE IF c = "quote" THEN Scan!In("code") ELSE repl
              /\ repl.mode = "char" =>
                   Scan!ReplStep = IF c = "\\" THEN Scan!Taking("char", 1)
                                   ELSE IF c = "'" THEN Scan!In("code") ELSE repl
              /\ repl.mode \in {"line", "long"} => Scan!ReplStep = repl
<1>1. Scan!ReplCode \in Scan!Scanner
  BY ScannersMade DEF Scan!ReplCode
<1>2. CASE c = "newline"
  BY <1>2, ScannersMade, ScannerIs DEF Scan!ReplStep
<1>3. CASE c # "newline" /\ repl.skip > 0
  BY <1>3, ScannerSkips DEF Scan!ReplStep
<1>4. CASE c # "newline" /\ repl.skip = 0
  <2> DEFINE Inner ==
         CASE repl.mode = "block" /\ c = "*" /\ next = "/" -> Scan!Taking("code", 1)
           [] repl.mode \in {"string", "char"} /\ c = "\\" -> Scan!Taking(repl.mode, 1)
           [] repl.mode = "string" /\ c = "quote" -> Scan!In("code")
           [] repl.mode = "char" /\ c = "'" -> Scan!In("code")
           [] repl.mode = "code" -> Scan!ReplCode
           [] OTHER -> repl
  <2>1. Scan!ReplStep = Inner
    <3> HIDE DEF Inner
    <3>1. Scan!ReplStep =
            CASE c = "newline" -> Scan!In(IF repl.mode = "line" THEN "code" ELSE repl.mode)
              [] c # "newline" /\ repl.skip > 0 -> [repl EXCEPT !.skip = repl.skip - 1]
              [] OTHER -> Inner
      BY DEF Scan!ReplStep, Inner
    <3> QED
      BY <1>4, <3>1
  <2>2. CASE repl.mode = "code"
    BY <1>1, <1>4, <2>1, <2>2
  <2>3. CASE repl.mode = "block"
    BY <1>4, <2>1, <2>3, ScannersMade
  <2>4. CASE repl.mode = "string"
    BY <1>4, <2>1, <2>4, ScannersMade
  <2>5. CASE repl.mode = "char"
    BY <1>4, <2>1, <2>5, ScannersMade
  <2>6. CASE repl.mode \in {"line", "long"}
    BY <1>4, <2>1, <2>6
  <2>7. repl.mode \in {"code", "line", "block", "string", "char", "long"}
    BY ScannerIs
  <2> HIDE DEF Inner
  <2> QED
    BY <2>2, <2>3, <2>4, <2>5, <2>6, <2>7
<1>5. repl.skip > 0 \/ repl.skip = 0
  BY ScannerIs
<1> QED
  BY <1>2, <1>3, <1>4, <1>5

LEMMA FmtMoves ==
  ASSUME fmt \in Scan!Scanner
  PROVE  /\ Scan!FmtStep \in Scan!Scanner
         /\ c = "newline" => Scan!FmtStep = Scan!In("code")
         /\ c # "newline" /\ fmt.skip > 0 =>
              Scan!FmtStep.mode = fmt.mode /\ Scan!FmtStep.skip = fmt.skip - 1
         /\ c # "newline" /\ fmt.skip = 0 =>
              /\ fmt.mode = "code" =>
                   Scan!FmtStep = IF c = "quote" THEN Scan!In("string")
                                  ELSE IF c = "'" THEN Scan!In("char")
                                  ELSE IF c = "/" /\ next = "/" THEN Scan!In("line") ELSE fmt
              /\ fmt.mode = "string" =>
                   Scan!FmtStep = IF c = "\\" THEN Scan!Taking("string", 1)
                                   ELSE IF c = "quote" THEN Scan!In("code") ELSE fmt
              /\ fmt.mode = "char" =>
                   Scan!FmtStep = IF c = "\\" THEN Scan!Taking("char", 1)
                                   ELSE IF c = "'" THEN Scan!In("code") ELSE fmt
              /\ fmt.mode \in {"line", "block", "long"} => Scan!FmtStep = fmt
<1>2. CASE c = "newline"
  BY <1>2, ScannersMade, ScannerIs DEF Scan!FmtStep
<1>3. CASE c # "newline" /\ fmt.skip > 0
  BY <1>3, ScannerSkips DEF Scan!FmtStep
<1>4. CASE c # "newline" /\ fmt.skip = 0
  <2> DEFINE Inner ==
         CASE fmt.mode \in {"string", "char"} /\ c = "\\" -> Scan!Taking(fmt.mode, 1)
           [] fmt.mode = "string" /\ c = "quote" -> Scan!In("code")
           [] fmt.mode = "char" /\ c = "'" -> Scan!In("code")
           [] fmt.mode = "code" /\ c = "quote" -> Scan!In("string")
           [] fmt.mode = "code" /\ c = "'" -> Scan!In("char")
           [] fmt.mode = "code" /\ c = "/" /\ next = "/" -> Scan!In("line")
           [] OTHER -> fmt
  <2>1. Scan!FmtStep = Inner
    <3> HIDE DEF Inner
    <3>1. Scan!FmtStep =
            CASE c = "newline" -> Scan!In("code")
              [] c # "newline" /\ fmt.skip > 0 -> [fmt EXCEPT !.skip = fmt.skip - 1]
              [] OTHER -> Inner
      BY DEF Scan!FmtStep, Inner
    <3> QED
      BY <1>4, <3>1
  <2>2. CASE fmt.mode = "code"
    BY <1>4, <2>1, <2>2, ScannersMade
  <2>4. CASE fmt.mode = "string"
    BY <1>4, <2>1, <2>4, ScannersMade
  <2>5. CASE fmt.mode = "char"
    BY <1>4, <2>1, <2>5, ScannersMade
  <2>6. CASE fmt.mode \in {"line", "block", "long"}
    BY <1>4, <2>1, <2>6
  <2>7. fmt.mode \in {"code", "line", "block", "string", "char", "long"}
    BY ScannerIs
  <2> HIDE DEF Inner
  <2> QED
    BY <2>2, <2>4, <2>5, <2>6, <2>7
<1>5. fmt.skip > 0 \/ fmt.skip = 0
  BY ScannerIs
<1> QED
  BY <1>2, <1>3, <1>4, <1>5

LEMMA ScanTypedNext ==
  ASSUME ScanInv, Scan!Step
  PROVE  ScanTyped'
<1>1. lex' \in Scan!Scanner /\ repl' \in Scan!Scanner /\ fmt' \in Scan!Scanner
  BY LexMoves, ReplMoves, FmtMoves DEF ScanInv, ScanTyped, Scan!Step
<1>4. bytes' \in 0 .. MaxBytes
  BY MaxBytesAssumption DEF ScanInv, ScanTyped, Scan!Step, Scan!BytesAfter
<1>5. comments' \in 0 .. 2
  BY ScannerIn DEF ScanInv, ScanTyped, Scan!Step, InStep, Scan!DepthAfter, Scan!Nested
<1>6. c' \in Scan!Characters /\ next' \in Scan!Characters
  BY DEF ScanInv, ScanTyped, Scan!Step
<1>8. plain' \in BOOLEAN
  <2>1. plain' = IF c = "newline" THEN lex'.mode = "code" ELSE plain /\ lex'.mode # "block"
    BY DEF Scan!Step
  <2> QED
    BY <2>1, Zenon
<1>7. parted' \in BOOLEAN
  <2>1. parted' = (parted \/ Scan!Parting)
    BY DEF Scan!Step
  <2> QED
    BY <2>1, Zenon
<1> QED
  BY <1>1, <1>4, <1>5, <1>6, <1>7, <1>8 DEF ScanTyped

LEMMA InStepNext ==
  ASSUME ScanInv, Scan!Step, ~ parted'
  PROVE  InStep'
<1>1. /\ ScanTyped /\ InStep /\ ~ Scan!Parting
      /\ lex' = Scan!LexStep /\ comments' = Scan!DepthAfter
      /\ repl' = Scan!ReplStep /\ fmt' = Scan!FmtStep
      /\ miscounted' = (Scan!Delimits(lex) # Scan!Delimits(repl))
      /\ plain' = (IF c = "newline" THEN lex'.mode = "code" ELSE plain /\ lex'.mode # "block")
      /\ c' = next /\ next' \in Scan!Characters
  BY DEF Scan!Step, ScanInv
<1> USE DEF ScanTyped, InStep, SkipsTogether, Literals, Scan!SameMode
<1>2. miscounted' = FALSE
  BY <1>1, ScannerIs, ScannerIn DEF Scan!Delimits
<1>3. plain' => IF c = "newline" THEN lex'.mode = "code" ELSE plain /\ lex'.mode # "block"
  BY <1>1
<1>4. lex' \in Scan!Scanner /\ repl' \in Scan!Scanner /\ fmt' \in Scan!Scanner
  BY <1>1, LexMoves, ReplMoves, FmtMoves
<1>9. /\ lex.mode \in {"code", "line", "block", "string", "char", "long"}
      /\ lex.skip > 0 \/ lex.skip = 0
  BY <1>1, ScannerIs
<1>5. CASE lex.mode = "code"
  <2>1. CASE lex.skip > 0
    <3>1. c = "/" /\ ~ plain /\ repl.mode = "code" /\ lex.skip = 1 /\ repl.skip = 1
      BY <1>1, <1>5, <2>1
    <3>2. lex'.mode = "code" /\ lex'.skip = 0 /\ repl'.mode = "code" /\ repl'.skip = 0
      BY <1>1, <1>5, <3>1, LexMoves, ReplMoves
    <3>3. comments' = comments
      BY <1>1, <1>5, <3>1, ScannerIn DEF Scan!DepthAfter, Scan!Nested
    <3> QED
      BY <1>1, <1>2, <1>3, <1>5, <3>1, <3>2, <3>3
  <2>2. CASE lex.skip = 0
    <3>1. repl.mode = "code" /\ repl.skip = 0 /\ (plain => fmt.mode = "code" /\ fmt.skip = 0)
      BY <1>1, <1>5, <2>2
    <3>2. /\ lex'.mode = IF c = "/" /\ next = "/" THEN "line"
                         ELSE IF c = "/" /\ next = "*" THEN "block"
                         ELSE IF c = "quote" THEN "string" ELSE IF c = "'" THEN "char" ELSE "code"
          /\ lex'.skip = IF c = "/" /\ next \in {"/", "*"} THEN 1 ELSE 0
      BY <1>1, <1>5, <2>2, LexMoves, ScannersMade DEF Scan!LexCode
    <3>3. /\ repl'.mode = lex'.mode
          /\ repl'.skip = IF c = "/" /\ next = "*" THEN 1 ELSE 0
      <4>1. CASE c = "newline"
        BY <1>1, <3>1, <3>2, <4>1, ReplMoves, ScannersMade
      <4>2. CASE c # "newline"
        BY <1>1, <3>1, <3>2, <4>2, ReplMoves, ScannersMade DEF Scan!ReplCode
      <4> QED
        BY <4>1, <4>2
    <3>4. plain' /\ c # "newline" => fmt'.mode = lex'.mode /\ fmt'.skip = 0
      BY <1>1, <1>3, <3>1, <3>2, FmtMoves, ScannersMade
    <3>5. c = "newline" => fmt'.mode = lex'.mode /\ fmt'.skip = 0
      BY <1>1, <3>1, <3>2, FmtMoves, ScannersMade
    <3>6. comments' = IF c = "/" /\ next = "*" THEN 1 ELSE comments
      BY <1>1, <1>5, <2>2, ScannerIn DEF Scan!DepthAfter, Scan!Nested
    <3> QED
      BY <1>1, <1>2, <1>3, <1>5, <2>2, <3>1, <3>2, <3>3, <3>4, <3>5, <3>6
  <2> QED
    BY <1>9, <2>1, <2>2
<1>6. CASE lex.mode = "line"
  <2>1. comments' = comments
    BY <1>1, <1>6, ScannerIn DEF Scan!DepthAfter, Scan!Nested
  <2>2. CASE lex.skip > 0
    BY <1>1, <1>2, <1>3, <1>6, <2>1, <2>2, LexMoves, ReplMoves, FmtMoves, ScannersMade
  <2>3. CASE lex.skip = 0
    BY <1>1, <1>2, <1>3, <1>6, <2>1, <2>3, LexMoves, ReplMoves, FmtMoves, ScannersMade
  <2> QED
    BY <1>9, <2>2, <2>3
<1>7. CASE lex.mode = "block"
  <2>1. repl.mode = "block" /\ repl.skip = lex.skip /\ ~ plain
    BY <1>1, <1>7
  <2>2. CASE lex.skip > 0
    <3>1. comments' = comments
      BY <1>1, <1>7, <2>2, ScannerIn DEF Scan!DepthAfter, Scan!Nested
    <3>2. lex'.mode = "block" /\ lex'.skip = 0 /\ repl'.mode = "block" /\ repl'.skip = 0
      BY <1>1, <1>7, <2>1, <2>2, LexMoves, ReplMoves
    <3> QED
      BY <1>1, <1>2, <1>3, <1>7, <2>1, <2>2, <3>1, <3>2
  <2>3. CASE lex.skip = 0
    <3>1. ~ (c = "/" /\ next = "*")
      BY <1>1, <1>7, <2>3, ScannerIn DEF Scan!Parting, Scan!Nested
    <3>2. comments' = IF c = "*" /\ next = "/" THEN 0 ELSE 1
      BY <1>1, <1>7, <2>3, <3>1, ScannerIn DEF Scan!DepthAfter, Scan!Nested
    <3>3. /\ lex'.mode = IF c = "*" /\ next = "/" THEN "code" ELSE "block"
          /\ lex'.skip = IF c = "*" /\ next = "/" THEN 1 ELSE 0
      BY <1>1, <1>7, <2>3, <3>1, LexMoves, ScannersMade DEF Scan!LexBlock
    <3>4. repl'.mode = lex'.mode /\ repl'.skip = lex'.skip
      BY <1>1, <2>1, <2>3, <3>3, ReplMoves, ScannersMade
    <3> QED
      BY <1>1, <1>2, <1>3, <1>7, <2>1, <2>3, <3>2, <3>3, <3>4
  <2> QED
    BY <1>9, <2>2, <2>3
<1>8. CASE lex.mode \in Literals
  <2>1. comments' = comments
    BY <1>1, <1>8, ScannerIn DEF Scan!DepthAfter, Scan!Nested
  <2>2. repl.mode \in {"string", "char"} /\ (plain => fmt.mode = repl.mode /\ fmt.skip = repl.skip)
    BY <1>1, <1>8
  <2>3. CASE lex.skip > 0
    <3>1. lex'.mode = lex.mode /\ lex'.skip = lex.skip - 1
      BY <1>1, <2>3, LexMoves
    <3>2. repl.skip = 0 /\ lex.skip \in {1, 2} => c \notin {"quote", "'", "\\", "newline"}
      BY <1>1, <1>8 DEF Scan!Parting
    <3>3. repl'.mode = repl.mode /\ repl'.skip = 0
      BY <1>1, <1>8, <2>2, <2>3, <3>2, ReplMoves, ScannersMade
    <3>4. plain' => c # "newline" /\ plain
      BY <1>3, <1>8, <3>1
    <3>5. plain' => fmt'.mode = fmt.mode /\ fmt'.skip = 0
      <4>1. fmt' = Scan!FmtStep /\ fmt \in Scan!Scanner /\ (repl.skip = 0 \/ repl.skip = 1)
        BY <1>1, <1>8
      <4>2. CASE repl.skip = 0
        <5>1. lex.skip \in {1, 2} \/ c = "x"
          BY <1>1, <1>8, <2>3, <4>2
        <5>2. c \notin {"quote", "'", "\\"}
          BY <3>2, <4>2, <5>1
        <5> QED
          BY <2>2, <3>4, <4>1, <4>2, <5>2, FmtMoves
      <4>3. CASE repl.skip = 1
        BY <2>2, <3>4, <4>1, <4>3, FmtMoves
      <4> QED
        BY <4>1, <4>2, <4>3
    <3> QED
      BY <1>1, <1>2, <1>3, <1>8, <2>1, <2>2, <2>3, <3>1, <3>2, <3>3, <3>4, <3>5
  <2>4. CASE lex.skip = 0
    <3>1. repl.skip = 0 /\ (plain => fmt.skip = 0)
      BY <1>1, <1>8, <2>4
    <3>2. c # "newline" /\ (lex.mode = "long" => c # "\\")
      BY <1>1, <1>8, <2>4, ScannerIn DEF Scan!Parting
    <3>3. CASE c = "\\"
      <4>1. /\ lex'.mode \in {lex.mode, "long"} /\ lex'.skip \in {1, 3}
            /\ Scan!SameMode(lex'.mode) = Scan!SameMode(lex.mode)
            /\ lex'.skip = 3 => next = "x"
        BY <1>1, <1>8, <2>4, <3>2, <3>3, LexMoves, ScannersMade
           DEF Scan!LexString, Scan!LexChar, Scan!EscapeLength
      <4>2. repl'.mode = repl.mode /\ repl'.skip = 1
        BY <1>1, <2>2, <3>1, <3>3, ReplMoves, ScannersMade
      <4>3. plain' => fmt'.mode = fmt.mode /\ fmt'.skip = 1 /\ plain
        BY <1>1, <1>3, <2>2, <3>1, <3>3, FmtMoves, ScannersMade
      <4> QED
        BY <1>1, <1>2, <1>8, <2>1, <2>2, <3>3, <4>1, <4>2, <4>3
    <3>4. CASE c # "\\"
      <4>1. /\ lex'.mode = "code" <=> c = IF lex.mode = "string" THEN "quote" ELSE "'"
            /\ lex'.mode \in {lex.mode, "long", "code"} /\ lex'.skip = 0
            /\ lex'.mode # "code" => Scan!SameMode(lex'.mode) = Scan!SameMode(lex.mode)
        BY <1>1, <1>8, <2>4, <3>2, <3>4, LexMoves, ScannersMade
           DEF Scan!LexString, Scan!LexChar
      <4>2. /\ repl'.mode = IF lex'.mode = "code" THEN "code" ELSE repl.mode
            /\ repl'.skip = 0
        BY <1>1, <1>8, <2>2, <3>1, <3>2, <3>4, <4>1, ReplMoves, ScannersMade
      <4>3. plain' => /\ fmt'.mode = IF lex'.mode = "code" THEN "code" ELSE fmt.mode
                      /\ fmt'.skip = 0 /\ plain
        BY <1>1, <1>3, <1>8, <2>2, <3>1, <3>2, <3>4, <4>1, FmtMoves, ScannersMade
      <4> QED
        BY <1>1, <1>2, <1>8, <2>1, <2>2, <3>2, <3>4, <4>1, <4>2, <4>3
    <3> QED
      BY <3>3, <3>4
  <2> QED
    BY <1>9, <2>3, <2>4
<1>10. lex.mode \in {"code", "line", "block"} \/ lex.mode \in Literals
  BY <1>9
<1>11. CASE lex.mode \in Literals
  BY <1>8, <1>11
<1> HIDE DEF ScanTyped, InStep, SkipsTogether, Literals, Scan!SameMode
<1> QED
  BY <1>10, <1>5, <1>6, <1>7, <1>11

\* The scanners: on any text, as long as it has nothing that Parting names, the REPL asks
\* for more lines exactly where the lexer is within a comment or a literal, takes the same
\* delimiters, and the formatter finds the comment of a line.
THEOREM ScannersAgreeHolds == Scan!Spec => []ScannersAgree
<1>1. Scan!Init => ScanInv
  <2> SUFFICES ASSUME Scan!Init PROVE ScanInv
    OBVIOUS
  <2>1. lex.mode = "code" /\ lex.skip = 0 /\ repl = lex /\ fmt = lex /\ lex \in Scan!Scanner
    BY ScannersMade DEF Scan!Init
  <2>2. ScanTyped
    <3>1. bytes \in 0 .. MaxBytes /\ comments \in 0 .. 2
      BY MaxBytesAssumption DEF Scan!Init
    <3>2. plain \in BOOLEAN /\ parted \in BOOLEAN
      BY Zenon DEF Scan!Init
    <3>3. c \in Scan!Characters /\ next \in Scan!Characters
      BY DEF Scan!Init
    <3> QED
      BY <2>1, <3>1, <3>2, <3>3 DEF ScanTyped
  <2>3. InStep
    BY <2>1 DEF Scan!Init, InStep, SkipsTogether, Literals, Scan!SameMode
  <2> QED
    BY <2>2, <2>3 DEF ScanInv
<1>2. ScanInv /\ [Scan!Step]_(Scan!vars) => ScanInv'
  <2>1. CASE Scan!Step
    BY <2>1, ScanTypedNext, InStepNext DEF ScanInv
  <2>2. CASE UNCHANGED Scan!vars
    BY <2>2 DEF Scan!vars, ScanInv, ScanTyped, InStep, SkipsTogether
  <2> QED
    BY <2>1, <2>2
<1>3. ScanInv => ScannersAgree
  BY DEF ScanInv, ScanTyped, InStep, ScannersAgree, Scan!TypeOK, Scan!ScannersAgree
<1> QED
  BY <1>1, <1>2, <1>3, PTL DEF Scan!Spec

-----------------------------------------------------------------------------
(* What names stand for.                                                   *)
(*                                                                         *)
(* f is the depth that Sema's scopes reach when it has done what is left   *)
(* of env_ops: the invariant relates both tables to the scopes that will   *)
(* be open then, for those that will not be are on their way out.          *)

VARIABLES
  tops, env_ops, open, kinds, fields, locals                       \* NameWalk

Walk == INSTANCE NameWalk
  WITH ExceptCode <- "__except_code", Other <- "main", todo <- env_ops

\* NameWalk: code is generated for what Sema has checked, as long as no
\* declaration of the name has gone out of scope.
NamesMeanTheSame == Walk!NamesMeanTheSame

\* The name under which a handler finds the exception code.
CatchName == "__except_code"

\* What a declaration may declare, at the top level and in a function.
TopKinds == {"func", "global", "method"}
LocalKinds == {"local", "static"}
KindSet == {<<k, n>> : k \in TopKinds \cup LocalKinds \cup {"gone"}, n \in Names \cup {"main"}}

\* A task that declares a local, and one that declares a name of the top level.
LocalTask(t) == \E n \in Names, k \in LocalKinds : t = <<"define", n, k>>
TopTask(tp, t) ==
  \E n \in Names \ {CatchName}, k \in TopKinds :
    /\ t = <<"define", n, k>>
    /\ k = "func" => tp[n] = "func"
    /\ k = "global" => tp[n] = "var"

\* The tasks t that Sema may have left at depth d, and the depth f they lead to: none,
\* those that declare a in the scope it is in or in one it opens, and those that begin
\* with a name of the top level.
Inner(t, a, d, f) ==
  \/ t = <<a>> /\ f = d
  \/ t = <<a, <<"pop">> >> /\ f + 1 = d
  \/ t = <<a, <<"push">> >> /\ f = d + 1
Entering(t, a, d, f) ==
  \/ t = << <<"push">>, a>> /\ f = d + 1
  \/ t = << <<"push">>, a, <<"pop">> >> /\ f = d
  \/ t = << <<"push">>, a, <<"push">> >> /\ f = d + 2
Outer(t, a, f) ==
  \/ t = <<a>> /\ f = 1
  \/ t = <<a, <<"push">> >> /\ f = 2
  \/ \E b : LocalTask(b) /\ t = <<a, <<"push">>, b>> /\ f = 2
Remaining(tp, t, d, f) ==
  \/ t = <<>> /\ f = d
  \/ t = << <<"pop">> >> /\ f + 1 = d
  \/ t = << <<"pop">>, <<"pop">> >> /\ f + 2 = d
  \/ t = << <<"push">> >> /\ f = d + 1
  \/ \E a : LocalTask(a) /\ ((d >= 2 /\ Inner(t, a, d, f)) \/ Entering(t, a, d, f))
  \/ \E a : TopTask(tp, a) /\ d = 1 /\ Outer(t, a, f)

\* The heads and tails of short sequences.
LEMMA HeadsTails ==
  /\ \A a : Head(<<a>>) = a /\ Tail(<<a>>) = <<>> /\ <<a>> # <<>>
  /\ \A a, b : Head(<<a, b>>) = a /\ Tail(<<a, b>>) = <<b>> /\ <<a, b>> # <<>>
  /\ \A a, b, e : Head(<<a, b, e>>) = a /\ Tail(<<a, b, e>>) = <<b, e>> /\ <<a, b, e>> # <<>>
OBVIOUS

\* A declaration is neither an opening nor a closing of a scope.
LEMMA TaskIs ==
  /\ \A tp, a : LocalTask(a) \/ TopTask(tp, a) => a[1] = "define"
  /\ << "push" >>[1] = "push" /\ << "pop" >>[1] = "pop"
BY DEF LocalTask, TopTask

\* Opening a scope leaves less to do.
LEMMA RemainingPush ==
  ASSUME NEW tp, NEW t, NEW d \in Nat \ {0}, NEW f \in Nat \ {0}, Remaining(tp, t, d, f), t # <<>>,
         Head(t) = <<"push">>
  PROVE  Remaining(tp, Tail(t), d + 1, f)
<1>1. CASE t = << <<"push">> >> /\ f = d + 1
  BY <1>1, HeadsTails DEF Remaining
<1>2. ASSUME NEW a, LocalTask(a), Entering(t, a, d, f)
      PROVE  Remaining(tp, Tail(t), d + 1, f)
  <2>1. Inner(Tail(t), a, d + 1, f)
    <3>1. CASE t = << <<"push">>, a>> /\ f = d + 1
      BY <3>1, HeadsTails DEF Inner
    <3>2. CASE t = << <<"push">>, a, <<"pop">> >> /\ f = d
      BY <3>2, HeadsTails DEF Inner
    <3>3. CASE t = << <<"push">>, a, <<"push">> >> /\ f = d + 2
      <4>1. Tail(t) = <<a, <<"push">> >> /\ f = (d + 1) + 1
        BY <3>3, HeadsTails
      <4> QED
        BY <4>1 DEF Inner
    <3> QED
      BY <1>2, <3>1, <3>2, <3>3 DEF Entering
  <2>2. d + 1 >= 2
    OBVIOUS
  <2> QED
    BY <1>2, <2>1, <2>2 DEF Remaining
<1>3. \A a : LocalTask(a) \/ TopTask(tp, a) => a # <<"push">>
  BY TaskIs
<1>4. <<"push">> # <<"pop">>
  BY TaskIs
<1>5. \A a : (Inner(t, a, d, f) \/ Outer(t, a, f)) => Head(t) = a
  BY HeadsTails DEF Inner, Outer
<1>6. t # << <<"pop">> >> /\ t # << <<"pop">>, <<"pop">> >>
  BY <1>4, HeadsTails
<1> QED
  BY <1>1, <1>2, <1>3, <1>5, <1>6 DEF Remaining

\* Closing a scope, which is then none of those that stay.
LEMMA RemainingPop ==
  ASSUME NEW tp, NEW t, NEW d \in Nat \ {0}, NEW f \in Nat \ {0}, Remaining(tp, t, d, f), t # <<>>,
         Head(t) = <<"pop">>
  PROVE  Remaining(tp, Tail(t), d - 1, f) /\ f < d
<1>1. \A a : LocalTask(a) \/ TopTask(tp, a) => a # <<"pop">>
  BY TaskIs
<1>2. <<"push">> # <<"pop">>
  BY TaskIs
<1>3. \A a : Inner(t, a, d, f) \/ Outer(t, a, f) => Head(t) = a
  BY HeadsTails DEF Inner, Outer
<1>4. \A a : Entering(t, a, d, f) => Head(t) = <<"push">>
  BY HeadsTails DEF Entering
<1>5. t # << <<"push">> >>
  BY <1>2, HeadsTails
<1>6. \/ t = << <<"pop">> >> /\ f + 1 = d
      \/ t = << <<"pop">>, <<"pop">> >> /\ f + 2 = d
  BY <1>1, <1>2, <1>3, <1>4, <1>5 DEF Remaining
<1>7. CASE t = << <<"pop">> >> /\ f + 1 = d
  <2>1. Tail(t) = <<>> /\ f = d - 1
    BY <1>7, HeadsTails
  <2> QED
    BY <2>1 DEF Remaining
<1>8. CASE t = << <<"pop">>, <<"pop">> >> /\ f + 2 = d
  <2>1. Tail(t) = << <<"pop">> >> /\ f + 1 = d - 1
    BY <1>8, HeadsTails
  <2> QED
    BY <2>1 DEF Remaining
<1> QED
  BY <1>6, <1>7, <1>8

\* Declaring a name: locals in the scope of a function, others at the top level.
LEMMA RemainingDefine ==
  ASSUME NEW tp, NEW t, NEW d \in Nat \ {0}, NEW f \in Nat \ {0}, Remaining(tp, t, d, f), t # <<>>,
         Head(t)[1] = "define"
  PROVE  /\ Remaining(tp, Tail(t), d, f)
         /\ (LocalTask(Head(t)) /\ d >= 2) \/ (TopTask(tp, Head(t)) /\ d = 1)
<1>1. <<"push">>[1] # "define" /\ <<"pop">>[1] # "define"
  BY TaskIs
<1>2. ASSUME NEW a, LocalTask(a), d >= 2, Inner(t, a, d, f)
      PROVE  Remaining(tp, Tail(t), d, f) /\ Head(t) = a
  <2>1. CASE t = <<a>> /\ f = d
    BY <2>1, HeadsTails DEF Remaining
  <2>2. CASE t = <<a, <<"pop">> >> /\ f + 1 = d
    BY <2>2, HeadsTails DEF Remaining
  <2>3. CASE t = <<a, <<"push">> >> /\ f = d + 1
    BY <2>3, HeadsTails DEF Remaining
  <2> QED
    BY <1>2, <2>1, <2>2, <2>3 DEF Inner
<1>3. ASSUME NEW a, TopTask(tp, a), d = 1, Outer(t, a, f)
      PROVE  Remaining(tp, Tail(t), d, f) /\ Head(t) = a
  <2>1. CASE t = <<a>> /\ f = 1
    BY <1>3, <2>1, HeadsTails DEF Remaining
  <2>2. CASE t = <<a, <<"push">> >> /\ f = 2
    BY <1>3, <2>2, HeadsTails DEF Remaining
  <2>3. ASSUME NEW b, LocalTask(b), t = <<a, <<"push">>, b>>, f = 2
        PROVE  Remaining(tp, Tail(t), d, f) /\ Head(t) = a
    <3>1. Head(t) = a /\ Tail(t) = << <<"push">>, b>> /\ f = d + 1
      BY <1>3, <2>3, HeadsTails
    <3>2. Entering(Tail(t), b, d, f)
      BY <3>1 DEF Entering
    <3> QED
      BY <2>3, <3>1, <3>2 DEF Remaining
  <2> QED
    BY <1>3, <2>1, <2>2, <2>3 DEF Outer
<1>4. \A a : Entering(t, a, d, f) => Head(t) = <<"push">>
  BY HeadsTails DEF Entering
<1>5. t # << <<"push">> >> /\ t # << <<"pop">> >> /\ t # << <<"pop">>, <<"pop">> >>
  BY <1>1, HeadsTails
<1> QED
  BY <1>1, <1>2, <1>3, <1>4, <1>5 DEF Remaining

\* The constructs that the walk goes through.
ConstructKinds == {"class", "func", "block", "catch"}
Constructs == [kind : ConstructKinds, together : SUBSET Names]

\* How many scopes a construct is.
Weight(kind) == IF kind = "class" THEN 0 ELSE IF kind = "catch" THEN 2 ELSE 1

\* The constructs o, opened at the depths at, lead to depth f; a function is at the
\* top level or in a class, everything else in a function.
Nested(o, at, f) ==
  /\ o \in Seq(Constructs) /\ at \in Seq(Nat \ {0}) /\ Len(at) = Len(o)
  /\ o = <<>> => f = 1
  /\ \A k \in 1..Len(o) :
       /\ k = 1 => at[k] = 1
       /\ k = Len(o) => f = at[k] + Weight(o[k].kind)
       /\ k > 1 => at[k] = at[k - 1] + Weight(o[k - 1].kind)
       /\ \A j \in 1..k - 1 : at[j] + Weight(o[j].kind) <= at[k]
       /\ at[k] + Weight(o[k].kind) <= f
       /\ o[k].kind \in {"class", "func"} => at[k] = 1
       /\ o[k].kind \in {"block", "catch"} => at[k] >= 2
  /\ IF \E k \in 1..Len(o) : o[k].kind = "func" THEN f >= 2 ELSE f = 1

\* What Nested says of the parts.
LEMMA NestedParts ==
  ASSUME NEW o, NEW at, NEW f \in Nat, Nested(o, at, f)
  PROVE  /\ Len(o) \in Nat /\ Len(at) = Len(o) /\ DOMAIN o = 1..Len(o)
         /\ \A k \in 1..Len(o) : /\ o[k].kind \in ConstructKinds /\ at[k] \in Nat \ {0}
                                 /\ Weight(o[k].kind) \in 0..2
<1>1. /\ Len(o) \in Nat /\ Len(at) = Len(o) /\ DOMAIN o = 1..Len(o)
      /\ \A k \in 1..Len(o) : o[k] \in Constructs /\ at[k] \in Nat \ {0}
  BY DEF Nested
<1> QED
  BY <1>1 DEF Constructs, Weight

\* A construct is entered.
LEMMA NestedOpen ==
  ASSUME NEW o, NEW at, NEW f \in Nat \ {0}, Nested(o, at, f), NEW e \in Constructs,
         e.kind \in {"class", "func"} => f = 1,
         e.kind = "class" => o = <<>>,
         e.kind \in {"block", "catch"} => f >= 2
  PROVE  Nested(Append(o, e), Append(at, f), f + Weight(e.kind))
<1> DEFINE n == Len(o)
           p == Append(o, e)
           q == Append(at, f)
           g == f + Weight(e.kind)
<1>1. /\ n \in Nat /\ Len(at) = n
      /\ \A k \in 1..n : o[k].kind \in ConstructKinds /\ at[k] \in Nat \ {0}
                         /\ Weight(o[k].kind) \in 0..2
  BY NestedParts
<1>2. o \in Seq(Constructs) /\ at \in Seq(Nat \ {0})
  BY DEF Nested
<1>3. /\ p \in Seq(Constructs) /\ Len(p) = n + 1 /\ p[n + 1] = e
      /\ \A k \in 1..n : p[k] = o[k]
  BY <1>2, PushStack
<1>4. /\ q \in Seq(Nat \ {0}) /\ Len(q) = n + 1 /\ q[n + 1] = f
      /\ \A k \in 1..n : q[k] = at[k]
  BY <1>1, <1>2, PushStack
<1>5. Weight(e.kind) \in 0..2 /\ e.kind \in ConstructKinds /\ g \in Nat
  BY DEF Weight, Constructs
<1>6. n = 0 => f = 1
  BY <1>2 DEF Nested
<1> HIDE DEF n, p, q
<1>7. ASSUME NEW k \in 1..n + 1
      PROVE  /\ k = 1 => q[k] = 1
             /\ k = n + 1 => g = q[k] + Weight(p[k].kind)
             /\ k > 1 => q[k] = q[k - 1] + Weight(p[k - 1].kind)
             /\ \A j \in 1..k - 1 : q[j] + Weight(p[j].kind) <= q[k]
             /\ q[k] + Weight(p[k].kind) <= g
             /\ p[k].kind \in {"class", "func"} => q[k] = 1
             /\ p[k].kind \in {"block", "catch"} => q[k] >= 2
  <2>1. CASE k \in 1..n
    <3>1. /\ q[k] = at[k] /\ p[k] = o[k]
          /\ \A j \in 1..k - 1 : j \in 1..n /\ q[j] = at[j] /\ p[j] = o[j]
          /\ k > 1 => k - 1 \in 1..k - 1
      BY <1>1, <1>3, <1>4, <2>1
    <3>2. /\ k = 1 => at[k] = 1
          /\ k > 1 => at[k] = at[k - 1] + Weight(o[k - 1].kind)
          /\ \A j \in 1..k - 1 : at[j] + Weight(o[j].kind) <= at[k]
          /\ at[k] + Weight(o[k].kind) <= f
          /\ o[k].kind \in {"class", "func"} => at[k] = 1
          /\ o[k].kind \in {"block", "catch"} => at[k] >= 2
      BY <2>1 DEF Nested, n
    <3>3. q[k] + Weight(p[k].kind) <= g
      BY <1>1, <1>5, <2>1, <3>1, <3>2
    <3>4. k # n + 1
      BY <1>1, <2>1
    <3> QED
      BY <3>1, <3>2, <3>3, <3>4
  <2>2. CASE k = n + 1
    <3>1. q[k] = f /\ p[k] = e
      BY <1>3, <1>4, <2>2
    <3>2. ASSUME NEW j \in 1..n
          PROVE  q[j] + Weight(p[j].kind) <= f
      BY <1>3, <1>4 DEF Nested, n
    <3>3. n > 0 => f = q[n] + Weight(p[n].kind)
      <4>1. n > 0 => n \in 1..n /\ f = at[n] + Weight(o[n].kind)
        BY <1>1 DEF Nested, n
      <4> QED
        BY <1>3, <1>4, <4>1
    <3>4. k - 1 = n /\ (k > 1 => n > 0) /\ (k = 1 => n = 0)
      BY <1>1, <2>2
    <3> QED
      BY <1>5, <1>6, <3>1, <3>2, <3>3, <3>4
  <2> QED
    BY <1>1, <2>1, <2>2
<1>8. p # <<>>
  BY <1>1, <1>3
<1>9. IF \E k \in 1..n + 1 : p[k].kind = "func" THEN g >= 2 ELSE g = 1
  <2>1. IF \E k \in 1..n : o[k].kind = "func" THEN f >= 2 ELSE f = 1
    BY DEF Nested, n
  <2>2. CASE e.kind = "func"
    BY <1>1, <1>3, <2>2 DEF Weight
  <2>3. CASE e.kind = "class"
    <3>1. n = 0 /\ f = 1 /\ g = 1
      BY <2>3 DEF n, Weight
    <3>2. \A k \in 1..n + 1 : p[k].kind # "func"
      BY <1>3, <2>3, <3>1
    <3> QED
      BY <3>1, <3>2
  <2>4. CASE e.kind \in {"block", "catch"}
    <3>1. PICK k \in 1..n : o[k].kind = "func"
      BY <2>1, <2>4
    <3>2. k \in 1..n + 1 /\ p[k].kind = "func"
      BY <1>1, <1>3, <3>1
    <3> QED
      BY <1>5, <2>4, <3>2
  <2> QED
    BY <1>5, <2>2, <2>3, <2>4 DEF ConstructKinds
<1> QED
  BY <1>3, <1>4, <1>7, <1>8, <1>9 DEF Nested, p, q

\* The innermost construct is left, and the depth is again that of its beginning.
LEMMA NestedClose ==
  ASSUME NEW o, NEW at, NEW f \in Nat \ {0}, Nested(o, at, f), o # <<>>
  PROVE  LET n == Len(o) IN
         /\ n \in Nat \ {0} /\ at[n] \in Nat \ {0} /\ f = at[n] + Weight(o[n].kind)
         /\ o[n].kind \in ConstructKinds
         /\ o[n].kind = "func" => at[n] = 1
         /\ Nested(SubSeq(o, 1, n - 1), SubSeq(at, 1, n - 1), at[n])
<1> DEFINE n == Len(o)
           p == SubSeq(o, 1, n - 1)
           q == SubSeq(at, 1, n - 1)
<1>1. /\ n \in Nat /\ Len(at) = n
      /\ \A k \in 1..n : o[k].kind \in ConstructKinds /\ at[k] \in Nat \ {0}
                         /\ Weight(o[k].kind) \in 0..2
  BY NestedParts
<1>2. o \in Seq(Constructs) /\ at \in Seq(Nat \ {0})
  BY DEF Nested
<1>3. n # 0 /\ at # <<>>
  BY <1>1, <1>2
<1>4. /\ p \in Seq(Constructs) /\ Len(p) = n - 1
      /\ \A k \in 1..n - 1 : p[k] = o[k]
  BY <1>2, PopStack
<1>5. /\ q \in Seq(Nat \ {0}) /\ Len(q) = n - 1
      /\ \A k \in 1..n - 1 : q[k] = at[k]
  BY <1>1, <1>2, <1>3, PopStack
<1> HIDE DEF p, q
<1>6. ASSUME NEW k \in 1..n
      PROVE  /\ k = 1 => at[k] = 1
             /\ k = n => f = at[k] + Weight(o[k].kind)
             /\ k > 1 => at[k] = at[k - 1] + Weight(o[k - 1].kind)
             /\ \A j \in 1..k - 1 : at[j] + Weight(o[j].kind) <= at[k]
             /\ o[k].kind \in {"class", "func"} => at[k] = 1
             /\ o[k].kind \in {"block", "catch"} => at[k] >= 2
  BY DEF Nested
<1>7. n \in 1..n /\ n - 1 \in Nat
  BY <1>1, <1>3
<1>8. IF \E k \in 1..n : o[k].kind = "func" THEN f >= 2 ELSE f = 1
  BY DEF Nested
<1> HIDE DEF n
<1>9. ASSUME NEW k \in 1..n - 1
      PROVE  /\ k = 1 => q[k] = 1
             /\ k = n - 1 => at[n] = q[k] + Weight(p[k].kind)
             /\ k > 1 => q[k] = q[k - 1] + Weight(p[k - 1].kind)
             /\ \A j \in 1..k - 1 : q[j] + Weight(p[j].kind) <= q[k]
             /\ q[k] + Weight(p[k].kind) <= at[n]
             /\ p[k].kind \in {"class", "func"} => q[k] = 1
             /\ p[k].kind \in {"block", "catch"} => q[k] >= 2
  <2>1. /\ k \in 1..n /\ q[k] = at[k] /\ p[k] = o[k]
        /\ \A j \in 1..k - 1 : j \in 1..n - 1 /\ q[j] = at[j] /\ p[j] = o[j]
        /\ k > 1 => k - 1 \in 1..k - 1
        /\ k = n - 1 => n > 1 /\ n - 1 = k
    BY <1>1, <1>4, <1>5
  <2> QED
    BY <1>6, <1>7, <2>1
<1>10. p = <<>> => at[n] = 1
  BY <1>1, <1>3, <1>4, <1>6, <1>7
<1>11. IF \E k \in 1..n - 1 : p[k].kind = "func" THEN at[n] >= 2 ELSE at[n] = 1
  <2>1. CASE \E k \in 1..n - 1 : p[k].kind = "func"
    <3>1. PICK k \in 1..n - 1 : o[k].kind = "func"
      BY <1>4, <2>1
    <3>2. at[k] + Weight(o[k].kind) <= at[n] /\ at[k] \in Nat \ {0} /\ k \in 1..n
      BY <1>1, <1>6, <1>7, <3>1
    <3> QED
      BY <1>1, <1>7, <2>1, <3>1, <3>2 DEF Weight
  <2>2. CASE ~ \E k \in 1..n - 1 : p[k].kind = "func"
    <3>1. \A k \in 1..n - 1 : o[k].kind # "func"
      BY <1>4, <2>2
    <3>2. CASE o[n].kind \in {"class", "func"}
      BY <1>6, <1>7, <2>2, <3>2
    <3>3. CASE o[n].kind \in {"block", "catch"}
      <4>1. \A k \in 1..n : o[k].kind # "func"
        <5>1. \A k \in 1..n : k = n \/ k \in 1..n - 1
          BY <1>1
        <5> QED
          BY <3>1, <3>3, <5>1
      <4>2. f = 1
        BY <1>8, <4>1
      <4>3. f = at[n] + Weight(o[n].kind) /\ at[n] >= 2 /\ at[n] \in Nat /\ Weight(o[n].kind) \in 0..2
        BY <1>1, <1>6, <1>7, <3>3
      <4> QED
        BY <4>2, <4>3
    <3> QED
      BY <1>1, <1>7, <3>2, <3>3 DEF ConstructKinds
  <2> QED
    BY <2>1, <2>2
<1>12. Nested(p, q, at[n])
  BY <1>4, <1>5, <1>9, <1>10, <1>11 DEF Nested
<1> QED
  BY <1>1, <1>3, <1>6, <1>7, <1>12 DEF n, p, q

\* A construct that only declares names together with others stays where it is.
LEMMA NestedTogether ==
  ASSUME NEW o, NEW at, NEW f \in Nat \ {0}, Nested(o, at, f), o # <<>>, NEW n \in Names
  PROVE  LET p == [o EXCEPT ![Len(o)].together = @ \cup {n}]
         IN  Nested(p, at, f) /\ Len(p) = Len(o) /\ \A k \in 1..Len(o) : p[k].kind = o[k].kind
<1> DEFINE m == Len(o)
           e == [o[m] EXCEPT !.together = @ \cup {n}]
           p == [o EXCEPT ![m] = e]
<1>1. o \in Seq(Constructs) /\ m \in Nat /\ m \in 1..m
  BY DEF Nested
<1>2. o[m] \in Constructs
  BY <1>1
<1>3. e \in Constructs /\ e.kind = o[m].kind
  BY <1>2 DEF Constructs
<1> HIDE DEF e
<1>4. p \in Seq(Constructs) /\ Len(p) = m
  BY <1>1, <1>3, ExceptSeq
<1>5. \A k \in 1..m : p[k].kind = o[k].kind
  BY <1>1, <1>3
<1> HIDE DEF p
<1>6. p = <<>> <=> o = <<>>
  BY <1>1, <1>4
<1>7. Nested(p, at, f)
  <2>1. /\ at \in Seq(Nat \ {0}) /\ Len(at) = m
        /\ \A k \in 1..m :
             /\ k = 1 => at[k] = 1
             /\ k = m => f = at[k] + Weight(o[k].kind)
             /\ k > 1 => at[k] = at[k - 1] + Weight(o[k - 1].kind)
             /\ \A j \in 1..k - 1 : at[j] + Weight(o[j].kind) <= at[k]
             /\ at[k] + Weight(o[k].kind) <= f
             /\ o[k].kind \in {"class", "func"} => at[k] = 1
             /\ o[k].kind \in {"block", "catch"} => at[k] >= 2
        /\ IF \E k \in 1..m : o[k].kind = "func" THEN f >= 2 ELSE f = 1
    BY DEF Nested
  <2> HIDE DEF m
  <2>2. ASSUME NEW k \in 1..m
        PROVE  /\ k = 1 => at[k] = 1
               /\ k = m => f = at[k] + Weight(p[k].kind)
               /\ k > 1 => at[k] = at[k - 1] + Weight(p[k - 1].kind)
               /\ \A j \in 1..k - 1 : at[j] + Weight(p[j].kind) <= at[k]
               /\ at[k] + Weight(p[k].kind) <= f
               /\ p[k].kind \in {"class", "func"} => at[k] = 1
               /\ p[k].kind \in {"block", "catch"} => at[k] >= 2
    <3>1. p[k].kind = o[k].kind /\ \A j \in 1..k - 1 : j \in 1..m /\ p[j].kind = o[j].kind
      BY <1>1, <1>5
    <3>2. k > 1 => k - 1 \in 1..k - 1
      BY <1>1
    <3> QED
      BY <2>1, <3>1, <3>2
  <2>3. IF \E k \in 1..m : p[k].kind = "func" THEN f >= 2 ELSE f = 1
    BY <1>5, <2>1
  <2> QED
    BY <1>4, <1>6, <2>1, <2>2, <2>3 DEF Nested
<1> QED
  BY <1>4, <1>5, <1>7 DEF p, e

\* The locals called n that the function has declared, and the static ones.
MadeIn(kd, n) == {i \in DOMAIN kd : kd[i][1] \in LocalKinds /\ kd[i][2] = n}
StaticsIn(kd, n) == {i \in MadeIn(kd, n) : kd[i][1] = "static"}

\* Declaration i of n is still bound when only f scopes are left.
Stays(sc, i, n, f) == \E k \in 1..Len(sc) : k <= f /\ sc[k][n] = i

\* A binding of an inner scope is later than one of an outer scope.
Rising(sc) ==
  \A n \in Names : \A j, k \in 1..Len(sc) :
    j < k /\ sc[j][n] # 0 /\ sc[k][n] # 0 => sc[j][n] < sc[k][n]

\* The global scope binds what is declared at the top level, the others bind locals.
Bound(sc, kd, f) ==
  \A n \in Names : \A k \in 1..Len(sc) :
    k <= f /\ sc[k][n] # 0 =>
      /\ sc[k][n] \in DOMAIN kd /\ kd[sc[k][n]][2] = n
      /\ kd[sc[k][n]][1] \in IF k = 1 THEN TopKinds ELSE LocalKinds

\* What is declared at the top level stays bound, and is what the text says.
TopKept(tp, sc, kd) ==
  \A i \in DOMAIN kd : kd[i][1] \in TopKinds =>
    /\ kd[i][2] \in Names \ {CatchName} /\ sc[1][kd[i][2]] # 0
    /\ kd[i][1] = "func" => tp[kd[i][2]] = "func"
    /\ kd[i][1] = "global" => tp[kd[i][2]] = "var"

\* The table of locals has the latest declaration of a name, unless one of its
\* declarations goes out of scope or there are two statics.
Latest(sc, kd, lc, f) ==
  \A n \in Names :
    (\A i, j \in StaticsIn(kd, n) : i = j) =>
      /\ lc[n] # 0 => lc[n] \in MadeIn(kd, n)
      /\ (\A i \in MadeIn(kd, n) : Stays(sc, i, n, f)) => \A i \in MadeIn(kd, n) : i <= lc[n]

\* A catch clause binds the exception code in the first of its scopes.
CatchTask == <<"define", CatchName, "local">>
Caught(o, at, sc, t) ==
  \A k \in 1..Len(o) : o[k].kind = "catch" =>
    \/ at[k] + 1 \in 1..Len(sc) /\ sc[at[k] + 1][CatchName] # 0
    \/ k = Len(o) /\ t = << <<"push">>, CatchTask, <<"push">> >> /\ Len(sc) = at[k]
    \/ k = Len(o) /\ t = <<CatchTask, <<"push">> >> /\ Len(sc) = at[k] + 1

\* The bindings in scopes sc of the declarations kd, when depth f is to be reached.
Table(sc, kd) ==
  /\ kd \in Seq(KindSet) /\ Len(kd) \in Nat /\ DOMAIN kd = 1..Len(kd)
  /\ Len(sc) \in Nat \ {0} /\ \A k \in 1..Len(sc), n \in Names : sc[k][n] \in 0..Len(kd)
Tables(tp, sc, kd, lc, f) ==
  /\ Table(sc, kd) /\ DOMAIN lc = Names
  /\ Rising(sc) /\ Bound(sc, kd, f) /\ TopKept(tp, sc, kd) /\ Latest(sc, kd, lc, f)

\* A scope is opened.
LEMMA TablesPush ==
  ASSUME NEW tp, NEW sc, NEW kd, NEW lc, NEW f \in Nat \ {0}, Tables(tp, sc, kd, lc, f),
         NEW s2, Len(s2) = Len(sc) + 1,
         \A k \in 1..Len(sc), n \in Names : s2[k][n] = sc[k][n],
         \A n \in Names : s2[Len(sc) + 1][n] = 0
  PROVE  Tables(tp, s2, kd, lc, f)
<1> DEFINE d == Len(sc)
<1>1. Table(sc, kd) /\ d \in Nat \ {0}
  BY DEF Tables, Table
<1>2. \A k \in 1..d + 1, n \in Names :
        s2[k][n] # 0 => k \in 1..d /\ s2[k][n] = sc[k][n]
  <2>1. \A k \in 1..d + 1 : k = d + 1 \/ k \in 1..d
    BY <1>1
  <2> QED
    BY <2>1
<1>3. 1..d \subseteq 1..d + 1 /\ 1 \in 1..d
  BY <1>1
<1>4. Table(s2, kd)
  BY <1>1, <1>2 DEF Table
<1>5. Rising(s2)
  BY <1>2 DEF Tables, Rising
<1>6. Bound(s2, kd, f)
  BY <1>2 DEF Tables, Bound
<1>7. TopKept(tp, s2, kd)
  BY <1>3 DEF Tables, TopKept
<1>8. \A n \in Names : \A i \in MadeIn(kd, n) : Stays(s2, i, n, f) => Stays(sc, i, n, f)
  <2>1. \A n \in Names : \A i \in MadeIn(kd, n) : i # 0
    BY <1>1 DEF MadeIn, Table
  <2> QED
    BY <1>2, <2>1 DEF Stays
<1>9. Latest(s2, kd, lc, f)
  BY <1>8 DEF Tables, Latest
<1> QED
  BY <1>4, <1>5, <1>6, <1>7, <1>9 DEF Tables

\* A scope is closed that is not among those that stay.
LEMMA TablesPop ==
  ASSUME NEW tp, NEW sc, NEW kd, NEW lc, NEW f \in Nat \ {0}, Tables(tp, sc, kd, lc, f), f < Len(sc),
         NEW s2, Len(s2) = Len(sc) - 1,
         \A k \in 1..Len(sc) - 1, n \in Names : s2[k][n] = sc[k][n]
  PROVE  Tables(tp, s2, kd, lc, f)
<1> DEFINE d == Len(sc)
<1>1. Table(sc, kd) /\ d \in Nat \ {0} /\ d > 1
  BY DEF Tables, Table
<1>2. \A k \in 1..d - 1 : k \in 1..d
  BY <1>1
<1>3. 1 \in 1..d - 1 /\ \A k \in 1..d : k <= f => k \in 1..d - 1
  BY <1>1
<1>4. Table(s2, kd)
  BY <1>1, <1>2 DEF Table
<1>5. Rising(s2)
  BY <1>2 DEF Tables, Rising
<1>6. Bound(s2, kd, f)
  BY <1>2 DEF Tables, Bound
<1>7. TopKept(tp, s2, kd)
  BY <1>3 DEF Tables, TopKept
<1>8. \A n \in Names : \A i \in MadeIn(kd, n) : Stays(s2, i, n, f) => Stays(sc, i, n, f)
  BY <1>2 DEF Stays
<1>9. Latest(s2, kd, lc, f)
  BY <1>8 DEF Tables, Latest
<1> QED
  BY <1>4, <1>5, <1>6, <1>7, <1>9 DEF Tables

\* A name is declared in the innermost scope.
Declared(tp, sc, kd, n, kind, s2, k2) ==
  /\ k2 = Append(kd, <<kind, n>>)
  /\ Len(s2) = Len(sc) /\ s2[Len(sc)][n] = Len(kd) + 1
  /\ \A k \in 1..Len(sc), m \in Names : k # Len(sc) \/ m # n => s2[k][m] = sc[k][m]
  /\ IF kind \in TopKinds
     THEN /\ Len(sc) = 1 /\ n # CatchName
          /\ kind = "func" => tp[n] = "func"
          /\ kind = "global" => tp[n] = "var"
     ELSE Len(sc) >= 2
LEMMA TablesGrow ==
  ASSUME NEW tp, NEW sc, NEW kd, NEW lc, NEW f \in Nat \ {0}, Tables(tp, sc, kd, lc, f),
         NEW n \in Names, NEW kind \in TopKinds \cup LocalKinds,
         NEW s2, NEW k2, Declared(tp, sc, kd, n, kind, s2, k2)
  PROVE  /\ Table(s2, k2) /\ Rising(s2) /\ Bound(s2, k2, f) /\ TopKept(tp, s2, k2)
         /\ Len(k2) = Len(kd) + 1 /\ k2[Len(kd) + 1] = <<kind, n>>
         /\ \A i \in 1..Len(kd) : k2[i] = kd[i]
         /\ DOMAIN kd = 1..Len(kd) /\ DOMAIN k2 = 1..Len(kd) + 1
<1> USE DEF Declared
<1> DEFINE d == Len(sc)
           l == Len(kd)
<1>1. /\ Table(sc, kd) /\ d \in Nat \ {0} /\ l \in Nat /\ d \in 1..d /\ kd \in Seq(KindSet)
      /\ DOMAIN kd = 1..l
      /\ \A k \in 1..d, m \in Names : sc[k][m] \in 0..l
  BY DEF Tables, Table
<1>2. <<kind, n>> \in KindSet
  BY DEF KindSet
<1>3. /\ k2 \in Seq(KindSet) /\ Len(k2) = l + 1 /\ k2[l + 1] = <<kind, n>>
      /\ \A i \in 1..l : k2[i] = kd[i]
  BY <1>1, <1>2, PushStack
<1>4. DOMAIN k2 = 1..l + 1
  BY <1>3
<1>5. \A k \in 1..d, m \in Names : s2[k][m] = IF k = d /\ m = n THEN l + 1 ELSE sc[k][m]
  OBVIOUS
<1> HIDE DEF d, l
<1>6. Table(s2, k2)
  <2>1. ASSUME NEW k \in 1..d, NEW m \in Names
        PROVE  s2[k][m] \in 0..l + 1
    <3>1. sc[k][m] \in 0..l /\ l \in Nat
      BY <1>1
    <3> QED
      BY <1>5, <3>1
  <2>2. Len(k2) = l + 1 /\ Len(k2) \in Nat /\ Len(s2) = d /\ Len(s2) \in Nat \ {0}
    BY <1>1, <1>3 DEF d
  <2> QED
    BY <1>3, <1>4, <2>1, <2>2 DEF Table
<1>7. Rising(s2)
  <2>1. ASSUME NEW m \in Names, NEW j \in 1..d, NEW k \in 1..d, j < k, s2[j][m] # 0, s2[k][m] # 0
        PROVE  s2[j][m] < s2[k][m]
    <3>1. s2[j][m] = sc[j][m] /\ j # d /\ sc[j][m] \in 0..l
      BY <1>1, <1>5, <2>1
    <3>2. CASE k = d /\ m = n
      BY <1>1, <1>5, <3>1, <3>2
    <3>3. CASE ~ (k = d /\ m = n)
      <4>1. s2[k][m] = sc[k][m]
        BY <1>5, <3>3
      <4> QED
        BY <2>1, <3>1, <4>1 DEF Tables, Rising, d
    <3> QED
      BY <3>2, <3>3
  <2> QED
    BY <2>1 DEF Rising, d
<1>8. Bound(s2, k2, f)
  <2>1. ASSUME NEW m \in Names, NEW k \in 1..d, k <= f, s2[k][m] # 0
        PROVE  /\ s2[k][m] \in DOMAIN k2 /\ k2[s2[k][m]][2] = m
               /\ k2[s2[k][m]][1] \in IF k = 1 THEN TopKinds ELSE LocalKinds
    <3>1. CASE k = d /\ m = n
      <4>1. s2[k][m] = l + 1 /\ l + 1 \in DOMAIN k2 /\ k2[l + 1] = <<kind, n>>
        BY <1>1, <1>3, <1>4, <1>5, <3>1
      <4>2. kind \in IF k = 1 THEN TopKinds ELSE LocalKinds
        BY <1>1, <3>1 DEF d, TopKinds, LocalKinds
      <4> QED
        BY <3>1, <4>1, <4>2
    <3>2. CASE ~ (k = d /\ m = n)
      <4>1. s2[k][m] = sc[k][m]
        BY <1>5, <3>2
      <4>2. sc[k][m] \in 1..l
        BY <1>1, <2>1, <4>1
      <4>3. k2[sc[k][m]] = kd[sc[k][m]] /\ sc[k][m] \in DOMAIN k2
        BY <1>1, <1>3, <1>4, <4>2
      <4>4. /\ kd[sc[k][m]][2] = m
            /\ kd[sc[k][m]][1] \in IF k = 1 THEN TopKinds ELSE LocalKinds
        BY <2>1, <4>1 DEF Tables, Bound, d
      <4> QED
        BY <4>1, <4>3, <4>4
    <3> QED
      BY <3>1, <3>2
  <2> QED
    BY <2>1 DEF Bound, d
<1>9. TopKept(tp, s2, k2)
  <2>1. ASSUME NEW i \in 1..l + 1, k2[i][1] \in TopKinds
        PROVE  /\ k2[i][2] \in Names \ {CatchName} /\ s2[1][k2[i][2]] # 0
               /\ k2[i][1] = "func" => tp[k2[i][2]] = "func"
               /\ k2[i][1] = "global" => tp[k2[i][2]] = "var"
    <3>1. CASE i = l + 1
      <4>1. k2[i][1] = kind /\ k2[i][2] = n
        BY <1>3, <3>1
      <4>2. s2[1][n] = l + 1 /\ l + 1 # 0
        BY <1>1, <1>5, <2>1, <4>1 DEF d
      <4> QED
        BY <2>1, <4>1, <4>2
    <3>2. CASE i # l + 1
      <4>1. i \in 1..l /\ k2[i] = kd[i] /\ i \in DOMAIN kd
        BY <1>1, <1>3, <3>2
      <4>2. /\ kd[i][2] \in Names \ {CatchName} /\ sc[1][kd[i][2]] # 0
            /\ kd[i][1] = "func" => tp[kd[i][2]] = "func"
            /\ kd[i][1] = "global" => tp[kd[i][2]] = "var"
        BY <2>1, <4>1 DEF Tables, TopKept
      <4>3. 1 \in 1..d /\ l + 1 # 0
        BY <1>1
      <4>4. s2[1][kd[i][2]] # 0
        BY <1>5, <4>2, <4>3
      <4> QED
        BY <4>1, <4>2, <4>4
    <3> QED
      BY <3>1, <3>2
  <2> QED
    BY <1>4, <2>1 DEF TopKept
<1> QED
  BY <1>1, <1>3, <1>4, <1>6, <1>7, <1>8, <1>9 DEF l

\* A local gets its entry, or that of the static of the same name; a name of the top
\* level gets none.
Entered(lc, kd, n, kind, l2) ==
  \E first :
    l2 = IF kind \in LocalKinds
         THEN [lc EXCEPT ![n] = IF kind = "static" /\ StaticsIn(kd, n) # {}
                                THEN first ELSE Len(kd) + 1]
         ELSE lc
LEMMA LatestGrow ==
  ASSUME NEW tp, NEW sc, NEW kd, NEW lc, NEW f \in Nat \ {0}, Table(sc, kd), DOMAIN lc = Names,
         Latest(sc, kd, lc, f),
         NEW n \in Names, NEW kind \in TopKinds \cup LocalKinds,
         NEW s2, NEW k2, Declared(tp, sc, kd, n, kind, s2, k2),
         NEW l2, Entered(lc, kd, n, kind, l2)
  PROVE  Latest(s2, k2, l2, f) /\ DOMAIN l2 = Names
<1> DEFINE d == Len(sc)
           l == Len(kd)
<1>1. l \in Nat /\ d \in Nat \ {0} /\ Table(sc, kd) /\ kd \in Seq(KindSet)
  BY DEF Table
<1>2. <<kind, n>> \in KindSet
  BY DEF KindSet
<1>3. /\ Len(k2) = l + 1 /\ k2[l + 1] = <<kind, n>> /\ \A i \in 1..l : k2[i] = kd[i]
      /\ DOMAIN kd = 1..l /\ DOMAIN k2 = 1..l + 1
  <2>1. k2 \in Seq(KindSet) /\ Len(k2) = l + 1 /\ k2[l + 1] = <<kind, n>> /\ \A i \in 1..l : k2[i] = kd[i]
    BY <1>2, <1>1, PushStack DEF Declared
  <2> QED
    BY <1>1, <2>1
<1>4. /\ Len(s2) = d /\ s2[d][n] = l + 1
      /\ \A k \in 1..d, m \in Names : k # d \/ m # n => s2[k][m] = sc[k][m]
  BY DEF Declared
<1>5. PICK first :
        l2 = IF kind \in LocalKinds
             THEN [lc EXCEPT ![n] = IF kind = "static" /\ StaticsIn(kd, n) # {}
                                    THEN first ELSE l + 1]
             ELSE lc
  BY DEF Entered
<1>6. DOMAIN l2 = Names
  BY <1>5
<1> USE <1>3, <1>4, <1>6
<1>7. TopKinds \cap LocalKinds = {}
  BY DEF TopKinds, LocalKinds
<1> SUFFICES ASSUME NEW m \in Names, \A i, j \in StaticsIn(k2, m) : i = j
             PROVE  /\ l2[m] # 0 => l2[m] \in MadeIn(k2, m)
                    /\ (\A i \in MadeIn(k2, m) : Stays(s2, i, m, f))
                       => \A i \in MadeIn(k2, m) : i <= l2[m]
  BY DEF Latest
<1>8. \A i \in MadeIn(kd, m) : i \in 1..l /\ i \in MadeIn(k2, m)
  <2>1. \A i \in 1..l : i \in 1..l + 1 /\ k2[i] = kd[i]
    BY <1>1
  <2> QED
    BY <2>1 DEF MadeIn
<1>9. StaticsIn(kd, m) \subseteq StaticsIn(k2, m)
  BY <1>8 DEF StaticsIn, MadeIn
<1>10. CASE m = n /\ kind \in LocalKinds
  <2>1. l + 1 \in MadeIn(k2, n)
    BY <1>1, <1>10 DEF MadeIn
  <2>2. ~ (kind = "static" /\ StaticsIn(kd, n) # {})
    <3>1. ASSUME kind = "static", NEW i \in StaticsIn(kd, n)
          PROVE  FALSE
      <4>1. l + 1 \in StaticsIn(k2, m)
        BY <1>10, <2>1, <3>1 DEF StaticsIn
      <4>2. i \in StaticsIn(k2, m) /\ i \in 1..l
        BY <1>8, <1>9, <1>10, <3>1 DEF StaticsIn
      <4> QED
        BY <1>1, <4>1, <4>2
    <3> QED
      BY <3>1
  <2>3. l2[m] = l + 1
    BY <1>10, <1>5, <2>2
  <2>4. \A i \in MadeIn(k2, m) : i <= l + 1
    BY <1>1 DEF MadeIn
  <2> QED
    BY <1>10, <2>1, <2>3, <2>4
<1>11. CASE ~ (m = n /\ kind \in LocalKinds)
  <2>1. l2[m] = lc[m]
    BY <1>11, <1>5
  <2>2. MadeIn(k2, m) = MadeIn(kd, m)
    <3>1. ASSUME NEW i \in MadeIn(k2, m)
          PROVE  i \in MadeIn(kd, m)
      <4>1. i # l + 1
        BY <1>7, <1>11, <3>1 DEF MadeIn
      <4>2. i \in 1..l + 1
        BY <3>1 DEF MadeIn
      <4>3. i \in 1..l
        BY <1>1, <4>1, <4>2
      <4> QED
        BY <3>1, <4>3 DEF MadeIn
    <3> QED
      BY <1>8, <3>1
  <2>3. ASSUME NEW i \in MadeIn(k2, m), Stays(s2, i, m, f)
        PROVE  Stays(sc, i, m, f)
    <3>1. i \in 1..l
      BY <1>8, <2>2
    <3>2. PICK k \in 1..d : k <= f /\ s2[k][m] = i
      BY <2>3 DEF Stays
    <3>3. k # d \/ m # n
      BY <1>1, <3>1, <3>2
    <3> QED
      BY <3>2, <3>3 DEF Stays
  <2>4. \A i, j \in StaticsIn(kd, m) : i = j
    BY <1>9
  <2> QED
    BY <2>1, <2>2, <2>3, <2>4 DEF Latest
<1> QED
  BY <1>10, <1>11

\* Fewer scopes are to stay.
LEMMA TablesShallower ==
  ASSUME NEW tp, NEW sc, NEW kd, NEW lc, NEW f \in Nat \ {0}, Tables(tp, sc, kd, lc, f),
         NEW g \in Nat \ {0}, g <= f
  PROVE  Tables(tp, sc, kd, lc, g)
<1>1. Len(sc) \in Nat /\ \A k \in 1..Len(sc) : k <= g => k <= f
  BY DEF Tables, Table
<1>2. Bound(sc, kd, g)
  BY <1>1 DEF Tables, Bound
<1>3. \A n \in Names : \A i \in MadeIn(kd, n) : Stays(sc, i, n, g) => Stays(sc, i, n, f)
  BY <1>1 DEF Stays
<1>4. Latest(sc, kd, lc, g)
  BY <1>3 DEF Tables, Latest
<1> QED
  BY <1>2, <1>4 DEF Tables

\* A handler ends: the declaration of its code goes out of scope.
LEMMA TablesCatch ==
  ASSUME NEW tp, NEW sc, NEW kd, NEW lc, NEW f \in Nat \ {0}, Tables(tp, sc, kd, lc, f),
         NEW g \in Nat \ {0}, g < f, g + 1 \in 1..Len(sc), CatchName \in Names,
         sc[g + 1][CatchName] # 0
  PROVE  Tables(tp, sc, kd, [lc EXCEPT ![CatchName] = 0], g)
<1> DEFINE l2 == [lc EXCEPT ![CatchName] = 0]
           i == sc[g + 1][CatchName]
<1>1. Tables(tp, sc, kd, lc, g)
  BY TablesShallower
<1>2. g + 1 <= f /\ g + 1 # 1
  OBVIOUS
<1>3. i \in MadeIn(kd, CatchName)
  BY <1>2 DEF Tables, Bound, MadeIn
<1>4. ~ Stays(sc, i, CatchName, g)
  <2>1. ASSUME NEW k \in 1..Len(sc), k <= g, sc[k][CatchName] = i
        PROVE  FALSE
    <3>1. k < g + 1 /\ sc[k][CatchName] # 0
      BY <2>1
    <3>2. sc[k][CatchName] < i
      BY <3>1 DEF Tables, Rising
    <3>3. i \in Nat
      BY DEF Tables, Table
    <3> QED
      BY <2>1, <3>2, <3>3
  <2> QED
    BY <2>1 DEF Stays
<1>5. l2[CatchName] = 0 /\ DOMAIN l2 = Names /\ \A m \in Names : m # CatchName => l2[m] = lc[m]
  BY DEF Tables
<1> HIDE DEF i, l2
<1>6. Latest(sc, kd, l2, g)
  <2> SUFFICES ASSUME NEW m \in Names, \A a, b \in StaticsIn(kd, m) : a = b
               PROVE  /\ l2[m] # 0 => l2[m] \in MadeIn(kd, m)
                      /\ (\A a \in MadeIn(kd, m) : Stays(sc, a, m, g))
                         => \A a \in MadeIn(kd, m) : a <= l2[m]
    BY DEF Latest
  <2>1. CASE m = CatchName
    BY <1>3, <1>4, <1>5, <2>1
  <2>2. CASE m # CatchName
    BY <1>1, <1>5, <2>2 DEF Tables, Latest
  <2> QED
    BY <2>1, <2>2
<1> QED
  BY <1>1, <1>5, <1>6 DEF Tables, l2

\* A function ends: its locals are gone, and so is the table.
Ended(kd) ==
  [i \in DOMAIN kd |-> IF kd[i][1] \in LocalKinds THEN <<"gone", "main">> ELSE kd[i]]
LEMMA TablesFunc ==
  ASSUME NEW tp, NEW sc, NEW kd, NEW lc, NEW f \in Nat \ {0}, Tables(tp, sc, kd, lc, f)
  PROVE  Tables(tp, sc, Ended(kd), [n \in Names |-> 0], 1)
<1> DEFINE k2 == Ended(kd)
           l == Len(kd)
<1>1. /\ kd \in Seq(KindSet) /\ l \in Nat /\ DOMAIN kd = 1..l
      /\ Len(sc) \in Nat \ {0} /\ \A k \in 1..Len(sc), n \in Names : sc[k][n] \in 0..l
  BY DEF Tables, Table
<1>2. \A i \in 1..l : kd[i] \in KindSet
  BY <1>1
<1>3. <<"gone", "main">> \in KindSet /\ TopKinds \cap LocalKinds = {} /\ "gone" \notin LocalKinds \cup TopKinds
  BY DEF KindSet, LocalKinds, TopKinds
<1>4. \A i \in 1..l : k2[i] = IF kd[i][1] \in LocalKinds THEN <<"gone", "main">> ELSE kd[i]
  BY <1>1 DEF Ended
<1>5. k2 \in [1..l -> KindSet]
  BY <1>1, <1>2, <1>3 DEF Ended
<1> HIDE DEF k2
<1>6. k2 \in Seq(KindSet) /\ Len(k2) = l /\ DOMAIN k2 = 1..l
  BY <1>1, <1>5
<1> HIDE DEF l
<1>7. Table(sc, k2)
  BY <1>1, <1>6 DEF Table
<1>8. \A i \in 1..l : /\ k2[i][1] \notin LocalKinds
                      /\ kd[i][1] \in TopKinds => k2[i] = kd[i]
                      /\ k2[i][1] \in TopKinds => k2[i] = kd[i]
  BY <1>3, <1>4
<1>9. \A n \in Names : MadeIn(k2, n) = {}
  BY <1>6, <1>8 DEF MadeIn
<1>10. Bound(sc, k2, 1)
  <2> SUFFICES ASSUME NEW n \in Names, NEW k \in 1..Len(sc), k <= 1, sc[k][n] # 0
               PROVE  /\ sc[k][n] \in DOMAIN k2 /\ k2[sc[k][n]][2] = n
                      /\ k2[sc[k][n]][1] \in IF k = 1 THEN TopKinds ELSE LocalKinds
    BY DEF Bound
  <2>1. k = 1 /\ k <= f
    BY <1>1
  <2>2. sc[k][n] \in DOMAIN kd /\ kd[sc[k][n]][2] = n /\ kd[sc[k][n]][1] \in TopKinds
    BY <2>1 DEF Tables, Bound
  <2> QED
    BY <1>1, <1>6, <1>8, <2>1, <2>2
<1>11. TopKept(tp, sc, k2)
  <2>1. \A i \in 1..l : k2[i][1] \in TopKinds => k2[i] = kd[i]
    BY <1>8
  <2> QED
    BY <1>1, <1>6, <2>1 DEF Tables, TopKept
<1>12. Latest(sc, k2, [n \in Names |-> 0], 1)
  BY <1>9 DEF Latest
<1> QED
  BY <1>7, <1>10, <1>11, <1>12 DEF Tables, k2

\* More scopes are to be opened.
LEMMA TablesDeeper ==
  ASSUME NEW tp, NEW sc, NEW kd, NEW lc, NEW f \in Nat \ {0}, Tables(tp, sc, kd, lc, f),
         f = Len(sc), NEW g \in Nat \ {0}
  PROVE  f <= g => Tables(tp, sc, kd, lc, g)
<1> SUFFICES ASSUME f <= g PROVE Tables(tp, sc, kd, lc, g)
  OBVIOUS
<1>1. Len(sc) \in Nat /\ \A k \in 1..Len(sc) : k <= f /\ k <= g
  BY DEF Tables, Table
<1>2. Bound(sc, kd, g)
  BY <1>1 DEF Tables, Bound
<1>3. \A n \in Names : \A i \in MadeIn(kd, n) : Stays(sc, i, n, g) => Stays(sc, i, n, f)
  BY <1>1 DEF Stays
<1>4. Latest(sc, kd, lc, g)
  BY <1>3 DEF Tables, Latest
<1> QED
  BY <1>2, <1>4 DEF Tables

\* A declaration enters both tables.
LEMMA TablesDefine ==
  ASSUME NEW tp, NEW sc, NEW kd, NEW lc, NEW f \in Nat \ {0}, Tables(tp, sc, kd, lc, f),
         NEW n \in Names, NEW kind \in TopKinds \cup LocalKinds,
         NEW s2, NEW k2, Declared(tp, sc, kd, n, kind, s2, k2),
         NEW l2, Entered(lc, kd, n, kind, l2)
  PROVE  Tables(tp, s2, k2, l2, f)
<1>1. Table(s2, k2) /\ Rising(s2) /\ Bound(s2, k2, f) /\ TopKept(tp, s2, k2)
  BY TablesGrow
<1>2. Table(sc, kd) /\ DOMAIN lc = Names /\ Latest(sc, kd, lc, f)
  BY DEF Tables
<1>3. Latest(s2, k2, l2, f) /\ DOMAIN l2 = Names
  BY <1>2, LatestGrow
<1> QED
  BY <1>1, <1>3 DEF Tables

-----------------------------------------------------------------------------
(* What holds between two operations of the walk.                          *)

Walked(tp, sc, t, o, kd, lc, f, at) ==
  /\ Remaining(tp, t, Len(sc), f)
  /\ Nested(o, at, f)
  /\ Caught(o, at, sc, t)
  /\ Tables(tp, sc, kd, lc, f)

\* When nothing is left to do the depth is reached.
LEMMA RemainingNone ==
  ASSUME NEW tp, NEW d, NEW f, Remaining(tp, <<>>, d, f)
  PROVE  f = d
<1>1. \A a : <<>> # <<a>>
  BY HeadsTails
<1>2. \A a, b : <<>> # <<a, b>>
  BY HeadsTails
<1>3. \A a, b, e : <<>> # <<a, b, e>>
  BY HeadsTails
<1>4. \A a : ~ Inner(<<>>, a, d, f) /\ ~ Entering(<<>>, a, d, f) /\ ~ Outer(<<>>, a, f)
  BY <1>1, <1>2, <1>3 DEF Inner, Entering, Outer
<1> QED
  BY <1>1, <1>2, <1>4 DEF Remaining

\* The declaration of the exception code is that of a local.
LEMMA CatchTasks ==
  /\ LocalTask(CatchTask) <=> CatchName \in Names
  /\ CatchTask[1] = "define" /\ CatchTask # <<"push">> /\ CatchTask # <<"pop">>
<1>1. CatchName \in Names => LocalTask(CatchTask)
  BY DEF LocalTask, CatchTask, LocalKinds
<1>2. LocalTask(CatchTask) => CatchName \in Names
  <2>1. \A n, k : CatchTask = <<"define", n, k>> => n = CatchName
    <3>1. \A a, b, n, k, m, j : <<a, n, k>> = <<b, m, j>> => n = m
      <4>1. \A a, n, k : <<a, n, k>>[2] = n
        OBVIOUS
      <4> QED
        BY <4>1
    <3> QED
      BY <3>1 DEF CatchTask
  <2> QED
    BY <2>1 DEF LocalTask
<1>3. CatchTask[1] = "define" /\ <<"push">>[1] = "push" /\ <<"pop">>[1] = "pop"
  BY DEF CatchTask
<1> QED
  BY <1>1, <1>2, <1>3

\* Sema opens a scope.
LEMMA WalkedPush ==
  ASSUME NEW tp, NEW sc, NEW t, NEW o, NEW kd, NEW lc, NEW f \in Nat \ {0}, NEW at,
         Walked(tp, sc, t, o, kd, lc, f, at), t # <<>>, Head(t) = <<"push">>,
         NEW s2, Len(s2) = Len(sc) + 1,
         \A k \in 1..Len(sc), n \in Names : s2[k][n] = sc[k][n],
         \A n \in Names : s2[Len(sc) + 1][n] = 0,
         CatchName \in Names
  PROVE  Walked(tp, s2, Tail(t), o, kd, lc, f, at)
<1>1. Len(sc) \in Nat \ {0} /\ Tables(tp, s2, kd, lc, f)
  BY TablesPush DEF Walked, Tables, Table
<1>2. Remaining(tp, Tail(t), Len(s2), f)
  BY <1>1, RemainingPush DEF Walked
<1>3. Caught(o, at, s2, Tail(t))
  <2> SUFFICES ASSUME NEW k \in 1..Len(o), o[k].kind = "catch"
               PROVE  \/ at[k] + 1 \in 1..Len(s2) /\ s2[at[k] + 1][CatchName] # 0
                      \/ /\ k = Len(o) /\ Tail(t) = <<CatchTask, <<"push">> >>
                         /\ Len(s2) = at[k] + 1
    BY DEF Caught
  <2>1. CASE at[k] + 1 \in 1..Len(sc) /\ sc[at[k] + 1][CatchName] # 0
    BY <1>1, <2>1
  <2>2. CASE k = Len(o) /\ t = << <<"push">>, CatchTask, <<"push">> >> /\ Len(sc) = at[k]
    BY <2>2, HeadsTails
  <2>3. ~ (t = <<CatchTask, <<"push">> >>)
    BY HeadsTails, CatchTasks
  <2> QED
    BY <2>1, <2>2, <2>3 DEF Walked, Caught
<1> QED
  BY <1>1, <1>2, <1>3 DEF Walked

\* Sema closes a scope.
LEMMA WalkedPop ==
  ASSUME NEW tp, NEW sc, NEW t, NEW o, NEW kd, NEW lc, NEW f \in Nat \ {0}, NEW at,
         Walked(tp, sc, t, o, kd, lc, f, at), t # <<>>, Head(t) = <<"pop">>,
         NEW s2, Len(s2) = Len(sc) - 1,
         \A k \in 1..Len(sc) - 1, n \in Names : s2[k][n] = sc[k][n],
         CatchName \in Names
  PROVE  Walked(tp, s2, Tail(t), o, kd, lc, f, at)
<1>1. Len(sc) \in Nat \ {0}
  BY DEF Walked, Tables, Table
<1>2. Remaining(tp, Tail(t), Len(s2), f) /\ f < Len(sc)
  BY <1>1, RemainingPop DEF Walked
<1>3. Tables(tp, s2, kd, lc, f)
  BY <1>2, TablesPop DEF Walked
<1>4. Caught(o, at, s2, Tail(t))
  <2> SUFFICES ASSUME NEW k \in 1..Len(o), o[k].kind = "catch"
               PROVE  at[k] + 1 \in 1..Len(s2) /\ s2[at[k] + 1][CatchName] # 0
    BY DEF Caught
  <2>1. at[k] \in Nat \ {0} /\ at[k] + 2 <= f
    <3>1. at[k] \in Nat \ {0}
      BY NestedParts DEF Walked
    <3>2. at[k] + Weight(o[k].kind) <= f
      BY DEF Walked, Nested
    <3> QED
      BY <3>1, <3>2 DEF Weight
  <2>2. t # << <<"push">>, CatchTask, <<"push">> >> /\ t # <<CatchTask, <<"push">> >>
    BY HeadsTails, CatchTasks, TaskIs
  <2>3. sc[at[k] + 1][CatchName] # 0
    BY <2>2 DEF Walked, Caught
  <2>4. at[k] + 1 \in 1..Len(sc) - 1
    BY <1>1, <1>2, <2>1
  <2> QED
    BY <2>3, <2>4
<1> QED
  BY <1>2, <1>3, <1>4 DEF Walked

\* Sema declares a name.
LEMMA WalkedDefine ==
  ASSUME NEW tp, NEW sc, NEW t, NEW o, NEW kd, NEW lc, NEW f \in Nat \ {0}, NEW at,
         Walked(tp, sc, t, o, kd, lc, f, at), t # <<>>, Head(t)[1] = "define",
         NEW n, n = Head(t)[2], NEW kind, kind = Head(t)[3],
         NEW s2, Len(s2) = Len(sc), s2[Len(sc)][n] = Len(kd) + 1,
         \A k \in 1..Len(sc), m \in Names :
           k # Len(sc) \/ m # n => s2[k][m] = sc[k][m],
         NEW l2, Entered(lc, kd, n, kind, l2), CatchName \in Names
  PROVE  n \in Names /\ Walked(tp, s2, Tail(t), o, Append(kd, <<kind, n>>), l2, f, at)
<1>1. Len(sc) \in Nat \ {0} /\ Len(kd) \in Nat
  BY DEF Walked, Tables, Table
<1>2. /\ Remaining(tp, Tail(t), Len(s2), f)
      /\ (LocalTask(Head(t)) /\ Len(sc) >= 2) \/ (TopTask(tp, Head(t)) /\ Len(sc) = 1)
  BY <1>1, RemainingDefine DEF Walked
<1>3. TopKinds \cap LocalKinds = {}
  BY DEF TopKinds, LocalKinds
<1>4. \A m, k : Head(t) = <<"define", m, k>> => m = n /\ k = kind
  OBVIOUS
<1>5. /\ n \in Names /\ kind \in TopKinds \cup LocalKinds
      /\ IF kind \in TopKinds
         THEN /\ Len(sc) = 1 /\ n # CatchName
              /\ kind = "func" => tp[n] = "func"
              /\ kind = "global" => tp[n] = "var"
         ELSE Len(sc) >= 2
  <2>1. CASE LocalTask(Head(t)) /\ Len(sc) >= 2
    <3>1. n \in Names /\ kind \in LocalKinds
      BY <1>4, <2>1 DEF LocalTask
    <3> QED
      BY <1>3, <2>1, <3>1
  <2>2. CASE TopTask(tp, Head(t)) /\ Len(sc) = 1
    <3>1. /\ n \in Names \ {CatchName} /\ kind \in TopKinds
          /\ kind = "func" => tp[n] = "func"
          /\ kind = "global" => tp[n] = "var"
      BY <1>4, <2>2 DEF TopTask
    <3> QED
      BY <2>2, <3>1
  <2> QED
    BY <1>2, <2>1, <2>2
<1>6. Tables(tp, s2, Append(kd, <<kind, n>>), l2, f)
  <2>1. Declared(tp, sc, kd, n, kind, s2, Append(kd, <<kind, n>>))
    BY <1>5 DEF Declared
  <2> QED
    BY <1>5, <2>1, TablesDefine DEF Walked
<1>7. Caught(o, at, s2, Tail(t))
  <2> SUFFICES ASSUME NEW k \in 1..Len(o), o[k].kind = "catch"
               PROVE  at[k] + 1 \in 1..Len(s2) /\ s2[at[k] + 1][CatchName] # 0
    BY DEF Caught
  <2>1. t # << <<"push">>, CatchTask, <<"push">> >>
    BY HeadsTails, TaskIs
  <2>2. CASE at[k] + 1 \in 1..Len(sc) /\ sc[at[k] + 1][CatchName] # 0
    BY <1>1, <2>2
  <2>3. CASE k = Len(o) /\ t = <<CatchTask, <<"push">> >> /\ Len(sc) = at[k] + 1
    <3>1. n = CatchName
      BY <2>3, HeadsTails DEF CatchTask
    <3> QED
      BY <1>1, <2>3, <3>1
  <2> QED
    BY <2>1, <2>2, <2>3 DEF Walked, Caught
<1> QED
  BY <1>2, <1>5, <1>6, <1>7 DEF Walked

\* In the text every handler has its scope.
LEMMA CaughtText ==
  ASSUME NEW o, NEW at, NEW sc, Caught(o, at, sc, <<>>), NEW k \in 1..Len(o),
         o[k].kind = "catch"
  PROVE  at[k] + 1 \in 1..Len(sc) /\ sc[at[k] + 1][CatchName] # 0
<1>1. <<>> # << <<"push">>, CatchTask, <<"push">> >> /\ <<>> # <<CatchTask, <<"push">> >>
  BY HeadsTails
<1> QED
  BY <1>1 DEF Caught

\* The walk comes to a declaration.
LEMMA WalkedText ==
  ASSUME NEW tp, NEW sc, NEW o, NEW kd, NEW lc, NEW f \in Nat \ {0}, NEW at,
         Walked(tp, sc, <<>>, o, kd, lc, f, at),
         NEW t, Remaining(tp, t, Len(sc), f)
  PROVE  Walked(tp, sc, t, o, kd, lc, f, at)
<1>1. Caught(o, at, sc, t)
  BY CaughtText DEF Walked, Caught
<1> QED
  BY <1>1 DEF Walked

\* The walk comes to a construct.
LEMMA WalkedOpen ==
  ASSUME NEW tp, NEW sc, NEW o, NEW kd, NEW lc, NEW f \in Nat \ {0}, NEW at,
         Walked(tp, sc, <<>>, o, kd, lc, f, at),
         NEW e \in Constructs,
         e.kind \in {"class", "func"} => f = 1,
         e.kind = "class" => o = <<>>,
         e.kind \in {"block", "catch"} => f >= 2,
         NEW t, Remaining(tp, t, Len(sc), f + Weight(e.kind)),
         e.kind = "catch" => t = << <<"push">>, CatchTask, <<"push">> >>
  PROVE  Walked(tp, sc, t, Append(o, e), kd, lc, f + Weight(e.kind), Append(at, f))
<1> DEFINE n == Len(o)
           p == Append(o, e)
           q == Append(at, f)
           g == f + Weight(e.kind)
<1>1. Weight(e.kind) \in 0..2 /\ g \in Nat \ {0} /\ f <= g
  BY DEF Weight
<1>2. f = Len(sc)
  BY RemainingNone DEF Walked
<1>3. Nested(p, q, g)
  BY NestedOpen DEF Walked
<1>4. Tables(tp, sc, kd, lc, g)
  BY <1>1, <1>2, TablesDeeper DEF Walked
<1>5. o \in Seq(Constructs) /\ at \in Seq(Nat \ {0}) /\ n \in Nat /\ Len(at) = n
  BY DEF Walked, Nested
<1>6. /\ Len(p) = n + 1 /\ p[n + 1] = e /\ q[n + 1] = f
      /\ \A k \in 1..n : p[k] = o[k] /\ q[k] = at[k]
  BY <1>5, PushStack
<1>7. Caught(o, at, sc, <<>>)
  BY DEF Walked
<1> HIDE DEF p, q, n, g
<1>8. Caught(p, q, sc, t)
  <2> SUFFICES ASSUME NEW k \in 1..n + 1, p[k].kind = "catch"
               PROVE  \/ q[k] + 1 \in 1..Len(sc) /\ sc[q[k] + 1][CatchName] # 0
                      \/ /\ k = n + 1 /\ t = << <<"push">>, CatchTask, <<"push">> >>
                         /\ Len(sc) = q[k]
    BY <1>6 DEF Caught
  <2>1. CASE k = n + 1
    BY <1>2, <1>6, <2>1
  <2>2. CASE k # n + 1
    <3>1. k \in 1..n
      BY <1>5, <2>2
    <3>2. at[k] + 1 \in 1..Len(sc) /\ sc[at[k] + 1][CatchName] # 0
      BY <1>6, <1>7, <3>1, CaughtText DEF n
    <3> QED
      BY <1>6, <3>1, <3>2
  <2> QED
    BY <2>1, <2>2
<1> QED
  BY <1>3, <1>4, <1>8 DEF Walked, p, q, g

\* The walk comes to variables that are declared together.
LEMMA WalkedTogether ==
  ASSUME NEW tp, NEW sc, NEW o, NEW kd, NEW lc, NEW f \in Nat \ {0}, NEW at,
         Walked(tp, sc, <<>>, o, kd, lc, f, at), o # <<>>, NEW n \in Names,
         NEW t, Remaining(tp, t, Len(sc), f)
  PROVE  Walked(tp, sc, t, [o EXCEPT ![Len(o)].together = @ \cup {n}], kd, lc, f, at)
<1> DEFINE p == [o EXCEPT ![Len(o)].together = @ \cup {n}]
<1>1. Nested(p, at, f) /\ Len(p) = Len(o) /\ \A k \in 1..Len(o) : p[k].kind = o[k].kind
  BY NestedTogether DEF Walked
<1> HIDE DEF p
<1>2. Caught(p, at, sc, t)
  BY <1>1, CaughtText DEF Walked, Caught
<1> QED
  BY <1>1, <1>2 DEF Walked, p

\* The innermost construct ends.
AfterTable(kind, lc) ==
  IF kind = "catch" THEN [lc EXCEPT ![CatchName] = 0]
  ELSE IF kind = "func" THEN [n \in Names |-> 0] ELSE lc
LEMMA WalkedClose ==
  ASSUME NEW tp, NEW sc, NEW o, NEW kd, NEW lc, NEW f \in Nat \ {0}, NEW at,
         Walked(tp, sc, <<>>, o, kd, lc, f, at), o # <<>>, CatchName \in Names,
         NEW kind, kind = o[Len(o)].kind, NEW t,
         t = IF kind = "class" THEN <<>>
             ELSE IF kind = "catch" THEN << <<"pop">>, <<"pop">> >> ELSE << <<"pop">> >>
  PROVE  \E g \in Nat \ {0} : \E q :
           Walked(tp, sc, t, SubSeq(o, 1, Len(o) - 1), IF kind = "func" THEN Ended(kd) ELSE kd,
                  AfterTable(kind, lc), g, q)
<1> DEFINE n == Len(o)
           p == SubSeq(o, 1, n - 1)
           q == SubSeq(at, 1, n - 1)
           g == at[n]
<1>1. /\ n \in Nat \ {0} /\ g \in Nat \ {0} /\ f = g + Weight(kind) /\ kind \in ConstructKinds
      /\ kind = "func" => g = 1
      /\ Nested(p, q, g)
  BY NestedClose DEF Walked
<1>2. f = Len(sc)
  BY RemainingNone DEF Walked
<1>3. Caught(o, at, sc, <<>>) /\ Tables(tp, sc, kd, lc, f) /\ o \in Seq(Constructs)
      /\ at \in Seq(Nat \ {0}) /\ Len(at) = n
  BY DEF Walked, Nested
<1>4. /\ Len(p) = n - 1 /\ \A k \in 1..n - 1 : p[k] = o[k] /\ q[k] = at[k]
  BY <1>1, <1>3, PopStack
<1> HIDE DEF p, q, n
<1>5. Remaining(tp, t, Len(sc), g)
  BY <1>1, <1>2 DEF Remaining, Weight
<1>6. Caught(p, q, sc, t)
  <2> SUFFICES ASSUME NEW k \in 1..n - 1, p[k].kind = "catch"
               PROVE  q[k] + 1 \in 1..Len(sc) /\ sc[q[k] + 1][CatchName] # 0
    BY <1>4 DEF Caught
  <2>1. k \in 1..n /\ p[k] = o[k] /\ q[k] = at[k]
    BY <1>1, <1>4
  <2>2. at[k] + 1 \in 1..Len(sc) /\ sc[at[k] + 1][CatchName] # 0
    BY <1>3, <2>1, CaughtText DEF n
  <2> QED
    BY <2>1, <2>2
<1>7. Tables(tp, sc, IF kind = "func" THEN Ended(kd) ELSE kd, AfterTable(kind, lc), g)
  <2>1. CASE kind = "func"
    BY <1>1, <1>3, <2>1, TablesFunc DEF AfterTable
  <2>2. CASE kind = "catch"
    <3>1. n \in 1..Len(o) /\ g < f
      BY <1>1, <2>2 DEF n, Weight
    <3>2. at[n] + 1 \in 1..Len(sc) /\ sc[at[n] + 1][CatchName] # 0
      BY <1>3, <2>2, <3>1, CaughtText DEF n
    <3> QED
      BY <1>1, <1>3, <2>2, <3>1, <3>2, TablesCatch DEF AfterTable
  <2>3. CASE kind \in {"class", "block"}
    <3>1. g <= f
      BY <1>1, <2>3 DEF Weight
    <3>2. AfterTable(kind, lc) = lc
      BY <2>3 DEF AfterTable
    <3> QED
      BY <1>1, <1>3, <2>3, <3>1, <3>2, TablesShallower
  <2> QED
    BY <1>1, <2>1, <2>2, <2>3 DEF ConstructKinds
<1> QED
  BY <1>1, <1>5, <1>6, <1>7 DEF Walked, p, n

\* The inductive invariant behind NamesMeanTheSame.
NameInv ==
  /\ EnvInv /\ Len(kinds) = Len(home)
  /\ \E f \in Nat \ {0} : \E at : Walked(tops, scopes, env_ops, open, kinds, locals, f, at)

-----------------------------------------------------------------------------
(* The scopes of the walk are those of Env.                                *)

\* pushScope.
LEMMA WalkPushScope ==
  ASSUME EnvInv, ~Redeclare, Walk!pushScope
  PROVE  /\ EnvInv' /\ Len(home') = Len(home) /\ Len(scopes') = Len(scopes) + 1
         /\ \A k \in 1..Len(scopes), n \in Names : scopes'[k][n] = scopes[k][n]
         /\ \A n \in Names : scopes'[Len(scopes) + 1][n] = 0
<1>1. pushScope
  BY DEF pushScope, Walk!pushScope, Depth, Walk!Depth, Nothing, Walk!Nothing
<1>2. EnvInv'
  BY <1>1, StepEnv DEF Next
<1>3. scopes \in Seq([Names -> 0..Len(home)]) /\ Len(home) \in Nat
  BY Elements DEF EnvInv, TypeOK
<1>4. Nothing \in [Names -> 0..Len(home)] /\ \A n \in Names : Nothing[n] = 0
  BY <1>3 DEF Nothing
<1>5. /\ Len(scopes') = Len(scopes) + 1 /\ scopes'[Len(scopes) + 1] = Nothing
      /\ \A k \in 1..Len(scopes) : scopes'[k] = scopes[k]
  BY <1>1, <1>3, <1>4, PushStack DEF pushScope
<1> QED
  BY <1>1, <1>2, <1>4, <1>5 DEF pushScope

\* popScope.
LEMMA WalkPopScope ==
  ASSUME EnvInv, ~Redeclare, Walk!popScope
  PROVE  /\ EnvInv' /\ Len(home') = Len(home) /\ Len(scopes') = Len(scopes) - 1
         /\ \A k \in 1..Len(scopes) - 1, n \in Names : scopes'[k][n] = scopes[k][n]
<1>1. popScope
  BY DEF popScope, Walk!popScope, Depth, Walk!Depth, lookup, Walk!lookup
<1>2. EnvInv'
  BY <1>1, StepEnv DEF Next
<1>3. scopes \in Seq([Names -> 0..Len(home)]) /\ Len(scopes) > 1 /\ scopes # <<>>
  BY <1>1, Elements DEF EnvInv, TypeOK, popScope, Depth
<1>4. Len(scopes') = Len(scopes) - 1 /\ \A k \in 1..Len(scopes) - 1 : scopes'[k] = scopes[k]
  BY <1>1, <1>3, PopStack DEF popScope, Depth
<1> QED
  BY <1>1, <1>2, <1>4 DEF popScope

\* define.
LEMMA WalkDefine ==
  ASSUME EnvInv, ~Redeclare, NEW n \in Names, Walk!define(n)
  PROVE  /\ EnvInv' /\ Len(home') = Len(home) + 1 /\ Len(scopes') = Len(scopes)
         /\ scopes'[Len(scopes)][n] = Len(home) + 1
         /\ \A k \in 1..Len(scopes), m \in Names :
              k # Len(scopes) \/ m # n => scopes'[k][m] = scopes[k][m]
<1>1. define(n)
  BY DEF define, Walk!define, Depth, Walk!Depth, Fresh, Walk!Fresh
<1>2. EnvInv'
  BY <1>1, StepEnv DEF Next
<1>3. /\ scopes \in Seq([Names -> 0..Len(home)]) /\ Len(home) \in Nat /\ Len(scopes) \in Nat \ {0}
      /\ home \in Seq(1..MaxDepth) /\ Depth \in 1..MaxDepth
  BY Elements DEF EnvInv, TypeOK, Depth
<1>4. Len(home') = Len(home) + 1
  BY <1>1, <1>3, PushStack DEF define
<1>5. scopes' = [scopes EXCEPT ![Len(scopes)][n] = Len(home) + 1]
  BY <1>1 DEF define, Depth, Fresh
<1>6. Len(scopes) \in DOMAIN scopes /\ DOMAIN scopes = 1..Len(scopes)
      /\ \A k \in 1..Len(scopes) : DOMAIN scopes[k] = Names
  BY <1>3
<1>7. DOMAIN scopes' = 1..Len(scopes)
  BY <1>5, <1>6
<1>8. scopes' \in Seq([Names -> 0..Len(home')])
  BY <1>2 DEF EnvInv, TypeOK
<1>9. Len(scopes') = Len(scopes)
  BY <1>3, <1>7, <1>8
<1> QED
  BY <1>2, <1>4, <1>5, <1>6, <1>9

\* A step that leaves Env alone.
LEMMA WalkEnvSame ==
  ASSUME EnvInv, ~Redeclare, UNCHANGED Walk!vars
  PROVE  EnvInv' /\ scopes' = scopes /\ home' = home
<1>1. UNCHANGED vars
  BY DEF vars, Walk!vars
<1> QED
  BY <1>1, StepEnv DEF vars

\* What is declared is a name.
LEMMA DefineNames ==
  ASSUME NameInv, env_ops # <<>>, Head(env_ops)[1] = "define"
  PROVE  Head(env_ops)[2] \in Names
<1>0. PICK f \in Nat \ {0} : \E at : Walked(tops, scopes, env_ops, open, kinds, locals, f, at)
  BY DEF NameInv
<1>1. PICK at : Walked(tops, scopes, env_ops, open, kinds, locals, f, at)
  BY <1>0
<1>2. Len(scopes) \in Nat \ {0}
  BY <1>1 DEF Walked, Tables, Table
<1>3. LocalTask(Head(env_ops)) \/ TopTask(tops, Head(env_ops))
  BY <1>1, <1>2, RemainingDefine DEF Walked
<1> QED
  BY <1>1, <1>3 DEF LocalTask, TopTask

\* NameWalk's Push.
LEMMA PushNames ==
  ASSUME NameInv, ~Redeclare, CatchName \in Names, Walk!Push
  PROVE  NameInv'
<1>0. PICK f \in Nat \ {0} : \E at : Walked(tops, scopes, env_ops, open, kinds, locals, f, at)
  BY DEF NameInv
<1>1. PICK at : Walked(tops, scopes, env_ops, open, kinds, locals, f, at)
  BY <1>0
<1>2. /\ env_ops # <<>> /\ Head(env_ops) = <<"push">> /\ Walk!pushScope
      /\ env_ops' = Tail(env_ops)
      /\ UNCHANGED <<tops, open, kinds, locals>>
  BY DEF Walk!Push
<1>3. /\ EnvInv' /\ Len(home') = Len(home) /\ Len(scopes') = Len(scopes) + 1
      /\ \A k \in 1..Len(scopes), n \in Names : scopes'[k][n] = scopes[k][n]
      /\ \A n \in Names : scopes'[Len(scopes) + 1][n] = 0
  BY <1>2, WalkPushScope DEF NameInv
<1>4. Walked(tops, scopes', env_ops', open, kinds, locals, f, at)
  BY <1>1, <1>2, <1>3, WalkedPush
<1> QED
  BY <1>1, <1>2, <1>3, <1>4 DEF NameInv

\* NameWalk's Pop.
LEMMA PopNames ==
  ASSUME NameInv, ~Redeclare, CatchName \in Names, Walk!Pop
  PROVE  NameInv'
<1>0. PICK f \in Nat \ {0} : \E at : Walked(tops, scopes, env_ops, open, kinds, locals, f, at)
  BY DEF NameInv
<1>1. PICK at : Walked(tops, scopes, env_ops, open, kinds, locals, f, at)
  BY <1>0
<1>2. /\ env_ops # <<>> /\ Head(env_ops) = <<"pop">> /\ Walk!popScope
      /\ env_ops' = Tail(env_ops)
      /\ UNCHANGED <<tops, open, kinds, locals>>
  BY DEF Walk!Pop
<1>3. /\ EnvInv' /\ Len(home') = Len(home) /\ Len(scopes') = Len(scopes) - 1
      /\ \A k \in 1..Len(scopes) - 1, n \in Names : scopes'[k][n] = scopes[k][n]
  BY <1>2, WalkPopScope DEF NameInv
<1>4. Walked(tops, scopes', env_ops', open, kinds, locals, f, at)
  BY <1>1, <1>2, <1>3, WalkedPop
<1> QED
  BY <1>1, <1>2, <1>3, <1>4 DEF NameInv

\* NameWalk's sets of declarations.
LEMMA StaticsAre == \A n \in Names : /\ Walk!MadeHere(n) = MadeIn(kinds, n)
                                     /\ Walk!Statics(n) = StaticsIn(kinds, n)
BY DEF Walk!MadeHere, Walk!Statics, Walk!IsLocal, MadeIn, StaticsIn, LocalKinds

\* NameWalk's Define.
LEMMA DefineInNames ==
  ASSUME NameInv, ~Redeclare, CatchName \in Names, Walk!Define
  PROVE  NameInv'
<1>0. PICK f \in Nat \ {0} : \E at : Walked(tops, scopes, env_ops, open, kinds, locals, f, at)
  BY DEF NameInv
<1>1. PICK at : Walked(tops, scopes, env_ops, open, kinds, locals, f, at)
  BY <1>0
<1> DEFINE n == Head(env_ops)[2]
           kind == Head(env_ops)[3]
<1>2. /\ env_ops # <<>> /\ Head(env_ops)[1] = "define" /\ Walk!define(n)
      /\ kinds' = Append(kinds, <<kind, n>>) /\ env_ops' = Tail(env_ops)
      /\ UNCHANGED <<tops, open>>
  BY DEF Walk!Define
<1>3. n \in Names
  BY <1>2, DefineNames
<1>4. /\ EnvInv' /\ Len(home') = Len(home) + 1 /\ Len(scopes') = Len(scopes)
      /\ scopes'[Len(scopes)][n] = Len(home) + 1
      /\ \A k \in 1..Len(scopes), m \in Names :
           k # Len(scopes) \/ m # n => scopes'[k][m] = scopes[k][m]
  BY <1>2, <1>3, WalkDefine DEF NameInv
<1>5. Len(kinds) = Len(home)
  BY DEF NameInv
<1>6. Entered(locals, kinds, n, kind, locals')
  <2>1. locals' = IF kind \in {"local", "static"}
                  THEN [locals EXCEPT ![n] = IF kind = "static" /\ Walk!Statics(n) # {}
                                             THEN Walk!Min(Walk!Statics(n)) ELSE Walk!Fresh]
                  ELSE locals
    BY DEF Walk!Define
  <2>2. Walk!Fresh = Len(kinds) + 1
    BY <1>5 DEF Walk!Fresh
  <2> HIDE DEF n, kind
  <2> QED
    BY <1>3, <2>1, <2>2, StaticsAre DEF Entered, LocalKinds
<1>7. n = Head(env_ops)[2] /\ kind = Head(env_ops)[3]
  OBVIOUS
<1> HIDE DEF n, kind
<1>8. Walked(tops, scopes', env_ops', open, kinds', locals', f, at)
  <2>1. /\ Len(scopes') = Len(scopes) /\ scopes'[Len(scopes)][n] = Len(kinds) + 1
        /\ \A k \in 1..Len(scopes), m \in Names :
             k # Len(scopes) \/ m # n => scopes'[k][m] = scopes[k][m]
    BY <1>4, <1>5
  <2>2. env_ops # <<>> /\ Head(env_ops)[1] = "define"
    BY <1>2
  <2>3. Walked(tops, scopes', Tail(env_ops), open, Append(kinds, <<kind, n>>), locals', f, at)
    BY <1>1, <1>6, <1>7, <2>1, <2>2, WalkedDefine
  <2> QED
    BY <1>2, <2>3
<1>9. Len(kinds') = Len(home')
  <2>1. kinds \in Seq(KindSet) /\ Len(kinds) \in Nat
    BY <1>1 DEF Walked, Tables, Table
  <2> QED
    BY <1>2, <1>4, <1>5, <2>1
<1> QED
  BY <1>1, <1>2, <1>4, <1>8, <1>9 DEF NameInv

\* In the text the depth is reached, and a function is a scope.
LEMMA WithinDepth ==
  ASSUME NEW tp, NEW sc, NEW kd, NEW lc, NEW f \in Nat \ {0}, NEW at,
         Walked(tp, sc, <<>>, open, kd, lc, f, at)
  PROVE  /\ f = Len(sc) /\ open \in Seq(Constructs)
         /\ IF Walk!Within("func") THEN f >= 2 /\ open # <<>> ELSE f = 1
<1>1. f = Len(sc)
  BY RemainingNone DEF Walked
<1>2. /\ open \in Seq(Constructs) /\ DOMAIN open = 1..Len(open)
      /\ IF \E k \in 1..Len(open) : open[k].kind = "func" THEN f >= 2 ELSE f = 1
  BY DEF Walked, Nested
<1> QED
  BY <1>1, <1>2 DEF Walk!Within

\* A new construct.
LEMMA ConstructIs ==
  \A kind \in ConstructKinds : Walk!Construct(kind) \in Constructs /\ Walk!Construct(kind).kind = kind
BY DEF Walk!Construct, Constructs

\* An operation of the text leaves Env and its declarations alone.
LEMMA TextKeeps ==
  ASSUME NameInv, ~Redeclare, Walk!Env_unchanged, tops' = tops,
         \E f \in Nat \ {0} : \E at : Walked(tops, scopes, env_ops', open', kinds, locals', f, at)
  PROVE  NameInv'
<1>1. EnvInv' /\ scopes' = scopes /\ home' = home /\ kinds' = kinds
  BY WalkEnvSame DEF NameInv, Walk!Env_unchanged, Walk!vars
<1> QED
  BY <1>1 DEF NameInv

\* NameWalk's declarations.
LEMMA DefiningIs ==
  /\ \A n, kind : Walk!Defining(n, kind) = <<"define", n, kind>>
  /\ \A n \in Names, kind \in LocalKinds : LocalTask(Walk!Defining(n, kind))
  /\ \A tp : \A n \in Names \ {CatchName}, kind \in TopKinds :
       (kind = "func" => tp[n] = "func") /\ (kind = "global" => tp[n] = "var")
       => TopTask(tp, Walk!Defining(n, kind))
  /\ Walk!Ids = Names \ {CatchName}
BY DEF Walk!Defining, LocalTask, TopTask, Walk!Ids, CatchName

\* analyze collects a function.
LEMMA CollectNames ==
  ASSUME NameInv, ~Redeclare, NEW n \in Walk!Ids, Walk!Collect(n)
  PROVE  NameInv'
<1>0. PICK f \in Nat \ {0} : \E at : Walked(tops, scopes, env_ops, open, kinds, locals, f, at)
  BY DEF NameInv
<1>1. PICK at : Walked(tops, scopes, env_ops, open, kinds, locals, f, at)
  BY <1>0
<1>2. /\ env_ops = <<>> /\ open = <<>> /\ tops[n] = "func"
      /\ env_ops' = <<Walk!Defining(n, "func")>>
      /\ Walk!Env_unchanged /\ UNCHANGED <<tops, open, locals>>
  BY DEF Walk!Collect
<1>3. Walked(tops, scopes, <<>>, open, kinds, locals, f, at)
  BY <1>1, <1>2
<1>4. f = 1 /\ Len(scopes) = 1
  BY <1>2, <1>3, WithinDepth DEF Walk!Within
<1>5. TopTask(tops, Walk!Defining(n, "func"))
  BY <1>2, DefiningIs DEF TopKinds
<1>6. Remaining(tops, env_ops', Len(scopes), f)
  BY <1>2, <1>4, <1>5 DEF Remaining, Outer
<1> QED
  BY <1>1, <1>2, <1>3, <1>6, TextKeeps, WalkedText

\* A variable of the top level.
LEMMA GlobalVarNames ==
  ASSUME NameInv, ~Redeclare, NEW n \in Walk!Ids, Walk!GlobalVar(n)
  PROVE  NameInv'
<1>0. PICK f \in Nat \ {0} : \E at : Walked(tops, scopes, env_ops, open, kinds, locals, f, at)
  BY DEF NameInv
<1>1. PICK at : Walked(tops, scopes, env_ops, open, kinds, locals, f, at)
  BY <1>0
<1>2. /\ env_ops = <<>> /\ open = <<>> /\ tops[n] = "var"
      /\ env_ops' = <<Walk!Defining(n, "global")>>
      /\ Walk!Env_unchanged /\ UNCHANGED <<tops, open, locals>>
  BY DEF Walk!GlobalVar, Walk!Walking
<1>3. Walked(tops, scopes, <<>>, open, kinds, locals, f, at)
  BY <1>1, <1>2
<1>4. f = 1 /\ Len(scopes) = 1
  BY <1>2, <1>3, WithinDepth DEF Walk!Within
<1>5. TopTask(tops, Walk!Defining(n, "global"))
  BY <1>2, DefiningIs DEF TopKinds
<1>6. Remaining(tops, env_ops', Len(scopes), f)
  BY <1>2, <1>4, <1>5 DEF Remaining, Outer
<1> QED
  BY <1>1, <1>2, <1>3, <1>6, TextKeeps, WalkedText

\* A declaration statement.
LEMMA DeclareNames ==
  ASSUME NameInv, ~Redeclare, NEW n \in Walk!Ids, NEW kind \in {"local", "static"},
         Walk!Declare(n, kind)
  PROVE  NameInv'
<1>0. PICK f \in Nat \ {0} : \E at : Walked(tops, scopes, env_ops, open, kinds, locals, f, at)
  BY DEF NameInv
<1>1. PICK at : Walked(tops, scopes, env_ops, open, kinds, locals, f, at)
  BY <1>0
<1>2. /\ env_ops = <<>> /\ Walk!Within("func")
      /\ env_ops' = <<Walk!Defining(n, kind)>>
      /\ Walk!Env_unchanged /\ UNCHANGED <<tops, open, locals>>
  BY DEF Walk!Declare, Walk!InBody, Walk!Walking
<1>3. Walked(tops, scopes, <<>>, open, kinds, locals, f, at)
  BY <1>1, <1>2
<1>4. f >= 2 /\ Len(scopes) = f
  BY <1>2, <1>3, WithinDepth
<1>5. LocalTask(Walk!Defining(n, kind))
  BY DefiningIs DEF LocalKinds
<1>6. Remaining(tops, env_ops', Len(scopes), f)
  BY <1>2, <1>4, <1>5 DEF Remaining, Inner
<1> QED
  BY <1>1, <1>2, <1>3, <1>6, TextKeeps, WalkedText

\* Several variables in one statement.
LEMMA DeclareSeveralNames ==
  ASSUME NameInv, ~Redeclare, NEW n \in Walk!Ids, Walk!DeclareSeveral(n)
  PROVE  NameInv'
<1>0. PICK f \in Nat \ {0} : \E at : Walked(tops, scopes, env_ops, open, kinds, locals, f, at)
  BY DEF NameInv
<1>1. PICK at : Walked(tops, scopes, env_ops, open, kinds, locals, f, at)
  BY <1>0
<1>2. /\ env_ops = <<>> /\ Walk!Within("func")
      /\ env_ops' = << <<"push">>, Walk!Defining(n, "local"), <<"pop">> >>
      /\ open' = [open EXCEPT ![Len(open)].together = @ \cup {n}]
      /\ Walk!Env_unchanged /\ UNCHANGED <<tops, locals>>
  BY DEF Walk!DeclareSeveral, Walk!InBody, Walk!Walking
<1>3. Walked(tops, scopes, <<>>, open, kinds, locals, f, at)
  BY <1>1, <1>2
<1>4. open # <<>> /\ Len(scopes) = f
  BY <1>2, <1>3, WithinDepth
<1>5. LocalTask(Walk!Defining(n, "local")) /\ n \in Names
  BY DefiningIs DEF LocalKinds
<1>6. Entering(env_ops', Walk!Defining(n, "local"), Len(scopes), f)
  BY <1>2, <1>4 DEF Entering
<1>7. Remaining(tops, env_ops', Len(scopes), f)
  BY <1>5, <1>6 DEF Remaining
<1>8. Walked(tops, scopes, env_ops', open', kinds, locals, f, at)
  BY <1>2, <1>3, <1>4, <1>5, <1>7, WalkedTogether
<1> QED
  BY <1>1, <1>2, <1>8, TextKeeps

\* A class begins.
LEMMA OpenClassNames ==
  ASSUME NameInv, ~Redeclare, NEW fs, Walk!OpenClass(fs)
  PROVE  NameInv'
<1>0. PICK f \in Nat \ {0} : \E at : Walked(tops, scopes, env_ops, open, kinds, locals, f, at)
  BY DEF NameInv
<1>1. PICK at : Walked(tops, scopes, env_ops, open, kinds, locals, f, at)
  BY <1>0
<1>2. /\ env_ops = <<>> /\ open = <<>> /\ env_ops' = env_ops
      /\ open' = <<Walk!Construct("class")>>
      /\ Walk!Env_unchanged /\ UNCHANGED <<tops, locals>>
  BY DEF Walk!OpenClass, Walk!Walking
<1>3. Walked(tops, scopes, <<>>, open, kinds, locals, f, at)
  BY <1>1, <1>2
<1>4. f = 1 /\ Len(scopes) = 1
  BY <1>2, <1>3, WithinDepth DEF Walk!Within
<1> DEFINE e == Walk!Construct("class")
<1>5. e \in Constructs /\ e.kind = "class" /\ open' = Append(open, e)
  BY <1>2, ConstructIs DEF ConstructKinds
<1> HIDE DEF e
<1>6. Weight(e.kind) = 0 /\ f + Weight(e.kind) \in Nat \ {0}
  BY <1>5 DEF Weight
<1>7. Remaining(tops, <<>>, Len(scopes), f + Weight(e.kind))
  BY <1>4, <1>6 DEF Remaining
<1>8. Walked(tops, scopes, <<>>, open', kinds, locals, f + Weight(e.kind), Append(at, f))
  BY <1>2, <1>3, <1>4, <1>5, <1>7, WalkedOpen
<1> QED
  BY <1>1, <1>2, <1>6, <1>8, TextKeeps

\* A block begins.
LEMMA OpenBlockNames ==
  ASSUME NameInv, ~Redeclare, Walk!OpenBlock
  PROVE  NameInv'
<1>0. PICK f \in Nat \ {0} : \E at : Walked(tops, scopes, env_ops, open, kinds, locals, f, at)
  BY DEF NameInv
<1>1. PICK at : Walked(tops, scopes, env_ops, open, kinds, locals, f, at)
  BY <1>0
<1>2. /\ env_ops = <<>> /\ Walk!Within("func")
      /\ env_ops' = << <<"push">> >>
      /\ open' = Append(open, Walk!Construct("block"))
      /\ Walk!Env_unchanged /\ UNCHANGED <<tops, locals>>
  BY DEF Walk!OpenBlock, Walk!InBody, Walk!Walking
<1>3. Walked(tops, scopes, <<>>, open, kinds, locals, f, at)
  BY <1>1, <1>2
<1>4. f >= 2 /\ Len(scopes) = f
  BY <1>2, <1>3, WithinDepth
<1> DEFINE e == Walk!Construct("block")
<1>5. e \in Constructs /\ e.kind = "block"
  BY ConstructIs DEF ConstructKinds
<1>6. open' = Append(open, e)
  BY <1>2
<1> HIDE DEF e
<1>7. Weight(e.kind) = 1 /\ f + Weight(e.kind) \in Nat \ {0}
  BY <1>5 DEF Weight
<1>8. Remaining(tops, env_ops', Len(scopes), f + Weight(e.kind))
  BY <1>2, <1>4, <1>7 DEF Remaining
<1>9. Walked(tops, scopes, env_ops', open', kinds, locals, f + Weight(e.kind), Append(at, f))
  BY <1>3, <1>4, <1>5, <1>6, <1>8, WalkedOpen
<1> QED
  BY <1>1, <1>2, <1>7, <1>9, TextKeeps

\* A handler begins.
LEMMA OpenCatchNames ==
  ASSUME NameInv, ~Redeclare, CatchName \in Names, Walk!OpenCatch
  PROVE  NameInv'
<1>0. PICK f \in Nat \ {0} : \E at : Walked(tops, scopes, env_ops, open, kinds, locals, f, at)
  BY DEF NameInv
<1>1. PICK at : Walked(tops, scopes, env_ops, open, kinds, locals, f, at)
  BY <1>0
<1>2. /\ env_ops = <<>> /\ Walk!Within("func")
      /\ env_ops' = << <<"push">>, CatchTask, <<"push">> >>
      /\ open' = Append(open, Walk!Construct("catch"))
      /\ Walk!Env_unchanged /\ UNCHANGED <<tops, locals>>
  BY DefiningIs DEF Walk!OpenCatch, Walk!InBody, Walk!Walking, CatchTask, CatchName
<1>3. Walked(tops, scopes, <<>>, open, kinds, locals, f, at)
  BY <1>1, <1>2
<1>4. f >= 2 /\ Len(scopes) = f
  BY <1>2, <1>3, WithinDepth
<1> DEFINE e == Walk!Construct("catch")
<1>5. e \in Constructs /\ e.kind = "catch"
  BY ConstructIs DEF ConstructKinds
<1>6. open' = Append(open, e)
  BY <1>2
<1> HIDE DEF e
<1>7. Weight(e.kind) = 2 /\ f + Weight(e.kind) \in Nat \ {0}
  BY <1>5 DEF Weight
<1>8. Remaining(tops, env_ops', Len(scopes), f + Weight(e.kind))
  <2>1. Entering(env_ops', CatchTask, Len(scopes), f + 2)
    BY <1>2, <1>4 DEF Entering
  <2> QED
    BY <1>7, <2>1, CatchTasks DEF Remaining
<1>9. Walked(tops, scopes, env_ops', open', kinds, locals, f + Weight(e.kind), Append(at, f))
  BY <1>2, <1>3, <1>4, <1>5, <1>6, <1>8, WalkedOpen
<1> QED
  BY <1>1, <1>2, <1>7, <1>9, TextKeeps

\* Short sequences, put together.
LEMMA TwoOrThree ==
  /\ \A b : <<>> \o <<b>> = <<b>>
  /\ \A a, b : <<a>> \o <<b>> = <<a, b>>
  /\ \A a, b, e : <<a, b>> \o <<e>> = <<a, b, e>>
  /\ \A a : <<a>> \o <<>> = <<a>>
  /\ \A a, b : <<a, b>> \o <<>> = <<a, b>>
<1>1. ASSUME NEW S, NEW s \in Seq(S)
      PROVE  /\ Len(s) = 2 => s = <<s[1], s[2]>>
             /\ Len(s) = 3 => s = <<s[1], s[2], s[3]>>
  OBVIOUS
<1>2. \A a, b : <<a>> \o <<b>> = <<a, b>>
  <2> TAKE a, b
  <2> DEFINE s == <<a>> \o <<b>>
  <2>1. <<a>> \in Seq({a, b}) /\ <<b>> \in Seq({a, b})
    OBVIOUS
  <2>2. s \in Seq({a, b}) /\ Len(s) = 2 /\ s[1] = a /\ s[2] = b
    BY <2>1
  <2> HIDE DEF s
  <2>3. s = <<a, b>>
    BY <1>1, <2>2
  <2> QED
    BY <2>3 DEF s
<1>3. \A a, b, e : <<a, b>> \o <<e>> = <<a, b, e>>
  <2> TAKE a, b, e
  <2> DEFINE s == <<a, b>> \o <<e>>
  <2>1. <<a, b>> \in Seq({a, b, e}) /\ <<e>> \in Seq({a, b, e})
    OBVIOUS
  <2>2. s \in Seq({a, b, e}) /\ Len(s) = 3 /\ s[1] = a /\ s[2] = b /\ s[3] = e
    BY <2>1
  <2> HIDE DEF s
  <2>3. s = <<a, b, e>>
    BY <1>1, <2>2
  <2> QED
    BY <2>3 DEF s
<1>4. \A b : <<>> \o <<b>> = <<b>>
  OBVIOUS
<1>5. \A a : <<a>> \o <<>> = <<a>>
  OBVIOUS
<1>6. \A a, b : <<a, b>> \o <<>> = <<a, b>>
  OBVIOUS
<1> QED
  BY <1>2, <1>3, <1>4, <1>5, <1>6

\* A function or a method begins.
LEMMA OpenFuncNames ==
  ASSUME NameInv, ~Redeclare, NEW n \in Walk!Ids \cup {"main"}, NEW ps \in SUBSET Walk!Ids,
         Walk!OpenFunc(n, ps)
  PROVE  NameInv'
<1>0. PICK f \in Nat \ {0} : \E at : Walked(tops, scopes, env_ops, open, kinds, locals, f, at)
  BY DEF NameInv
<1>1. PICK at : Walked(tops, scopes, env_ops, open, kinds, locals, f, at)
  BY <1>0
<1> DEFINE kind == IF open = <<>> THEN "func" ELSE "method"
           a == Walk!Defining(n, kind)
           b == Walk!Defining(CHOOSE p \in ps : TRUE, "local")
           own == Walk!OwnName(n, kind)
           params == Walk!Params(ps)
<1>2. /\ env_ops = <<>> /\ ~ Walk!Within("func")
      /\ open = <<>> /\ n # "main" => tops[n] = "func"
      /\ env_ops' = own \o << <<"push">> >> \o params
      /\ open' = Append(open, Walk!Construct("func"))
      /\ Walk!Env_unchanged /\ UNCHANGED <<tops, locals>>
  BY DEF Walk!OpenFunc, Walk!MayBegin, Walk!EnterFunc, Walk!Walking
<1>3. Walked(tops, scopes, <<>>, open, kinds, locals, f, at)
  BY <1>1, <1>2
<1>4. f = 1 /\ Len(scopes) = f
  BY <1>2, <1>3, WithinDepth
<1> DEFINE e == Walk!Construct("func")
<1>5. e \in Constructs /\ e.kind = "func"
  BY ConstructIs DEF ConstructKinds
<1>6. open' = Append(open, e)
  BY <1>2
<1>7. own = <<>> \/ (own = <<a>> /\ TopTask(tops, a))
  <2>1. n # "main" => n \in Names \ {CatchName}
    BY DefiningIs
  <2>2. kind \in TopKinds /\ kind # "global"
    BY DEF TopKinds
  <2>3. n # "main" /\ kind = "func" => tops[n] = "func"
    BY <1>2
  <2> HIDE DEF kind
  <2>4. n # "main" => TopTask(tops, a)
    BY <2>1, <2>2, <2>3, DefiningIs
  <2> QED
    BY <2>4 DEF Walk!OwnName
<1>8. params = <<>> \/ (params = <<b>> /\ LocalTask(b))
  <2>1. ps # {} => (CHOOSE p \in ps : TRUE) \in ps
    OBVIOUS
  <2>2. ps # {} => LocalTask(b)
    BY <2>1, DefiningIs DEF LocalKinds
  <2> QED
    BY <2>2 DEF Walk!Params
<1> HIDE DEF e, a, b, own, params
<1>9. Weight(e.kind) = 1 /\ f + Weight(e.kind) \in Nat \ {0} /\ f + Weight(e.kind) = 2
  BY <1>4, <1>5 DEF Weight
<1>10. Remaining(tops, env_ops', Len(scopes), 2)
  <2>1. CASE own = <<>> /\ params = <<>>
    <3>1. env_ops' = << <<"push">> >>
      BY <1>2, <2>1, TwoOrThree
    <3> QED
      BY <1>4, <3>1 DEF Remaining
  <2>2. CASE own = <<>> /\ params = <<b>> /\ LocalTask(b)
    <3>1. env_ops' = << <<"push">>, b>>
      BY <1>2, <2>2, TwoOrThree
    <3>2. Entering(env_ops', b, Len(scopes), 2)
      BY <1>4, <3>1 DEF Entering
    <3> QED
      BY <2>2, <3>2 DEF Remaining
  <2>3. CASE own = <<a>> /\ TopTask(tops, a) /\ params = <<>>
    <3>1. env_ops' = <<a, <<"push">> >>
      BY <1>2, <2>3, TwoOrThree
    <3>2. Outer(env_ops', a, 2)
      BY <3>1 DEF Outer
    <3> QED
      BY <1>4, <2>3, <3>2 DEF Remaining
  <2>4. CASE own = <<a>> /\ TopTask(tops, a) /\ params = <<b>> /\ LocalTask(b)
    <3>1. env_ops' = <<a, <<"push">>, b>>
      <4>1. env_ops' = (<<a>> \o << <<"push">> >>) \o <<b>>
        BY <1>2, <2>4
      <4>2. <<a>> \o << <<"push">> >> = <<a, <<"push">> >>
        BY TwoOrThree
      <4>3. <<a, <<"push">> >> \o <<b>> = <<a, <<"push">>, b>>
        BY TwoOrThree
      <4> QED
        BY <4>1, <4>2, <4>3
    <3>2. Outer(env_ops', a, 2)
      BY <2>4, <3>1 DEF Outer
    <3> QED
      BY <1>4, <2>4, <3>2 DEF Remaining
  <2> QED
    BY <1>7, <1>8, <2>1, <2>2, <2>3, <2>4
<1>11. Walked(tops, scopes, env_ops', open', kinds, locals, f + Weight(e.kind), Append(at, f))
  BY <1>3, <1>4, <1>5, <1>6, <1>9, <1>10, WalkedOpen
<1> QED
  BY <1>1, <1>2, <1>9, <1>11, TextKeeps

\* A construct ends.
LEMMA CloseNames ==
  ASSUME NameInv, ~Redeclare, CatchName \in Names, Walk!Close
  PROVE  NameInv'
<1>0. PICK f \in Nat \ {0} : \E at : Walked(tops, scopes, env_ops, open, kinds, locals, f, at)
  BY DEF NameInv
<1>1. PICK at : Walked(tops, scopes, env_ops, open, kinds, locals, f, at)
  BY <1>0
<1> DEFINE kind == open[Len(open)].kind
<1>2. /\ env_ops = <<>> /\ open # <<>>
      /\ env_ops' = CASE kind = "class" -> <<>>
                      [] kind = "catch" -> << <<"pop">>, <<"pop">> >>
                      [] OTHER -> << <<"pop">> >>
      /\ locals' = Walk!LocalsAfter(kind)
      /\ kinds' = IF kind = "func"
                  THEN [i \in DOMAIN kinds |-> IF Walk!IsLocal(i) THEN Walk!Gone ELSE kinds[i]]
                  ELSE kinds
      /\ open' = SubSeq(open, 1, Len(open) - 1)
      /\ UNCHANGED Walk!vars /\ tops' = tops
  BY DEF Walk!Close, Walk!Walking, Walk!Innermost
<1>3. Walked(tops, scopes, <<>>, open, kinds, locals, f, at)
  BY <1>1, <1>2
<1>4. EnvInv' /\ scopes' = scopes /\ home' = home /\ Len(kinds) = Len(home)
  BY <1>2, WalkEnvSame DEF NameInv
<1>5. locals' = AfterTable(kind, locals)
  BY <1>2 DEF Walk!LocalsAfter, AfterTable, Walk!NoLocals, CatchName
<1>6. kinds' = IF kind = "func" THEN Ended(kinds) ELSE kinds
  BY <1>2 DEF Ended, Walk!IsLocal, Walk!Gone, LocalKinds
<1> HIDE DEF kind
<1>7. env_ops' = IF kind = "class" THEN <<>>
                 ELSE IF kind = "catch" THEN << <<"pop">>, <<"pop">> >> ELSE << <<"pop">> >>
  BY <1>2
<1>8. \E g \in Nat \ {0} : \E q : Walked(tops, scopes, env_ops', open', kinds', locals', g, q)
  <2>1. \E g \in Nat \ {0} : \E q :
          Walked(tops, scopes, env_ops', SubSeq(open, 1, Len(open) - 1),
                 IF kind = "func" THEN Ended(kinds) ELSE kinds, AfterTable(kind, locals), g, q)
    <3>1. kind = open[Len(open)].kind
      BY DEF kind
    <3> QED
      BY <1>2, <1>3, <1>7, <3>1, WalkedClose
  <2> QED
    BY <1>2, <1>5, <1>6, <2>1
<1>9. Len(kinds') = Len(kinds)
  <2>1. kinds \in Seq(KindSet)
    BY <1>1 DEF Walked, Tables, Table
  <2>2. PICK g \in Nat \ {0} : \E q : Walked(tops, scopes, env_ops', open', kinds', locals', g, q)
    BY <1>8
  <2>3. DOMAIN kinds' = 1..Len(kinds') /\ Len(kinds') \in Nat
    BY <2>2 DEF Walked, Tables, Table
  <2>4. DOMAIN kinds' = 1..Len(kinds) /\ Len(kinds) \in Nat
    BY <1>6, <2>1 DEF Ended
  <2> QED
    BY <2>3, <2>4
<1> QED
  BY <1>1, <1>2, <1>4, <1>8, <1>9 DEF NameInv

-----------------------------------------------------------------------------
(* What the invariant says of a name in the body of a function.            *)

\* lookup finds the binding of the innermost scope that has one.
LEMMA LookupFinds ==
  ASSUME EnvInv, NEW n \in Names
  PROVE  /\ lookup(n) = 0 => \A k \in 1..Depth : scopes[k][n] = 0
         /\ lookup(n) # 0 => \E k \in 1..Depth :
              /\ scopes[k][n] = lookup(n)
              /\ \A j \in 1..Depth : scopes[j][n] # 0 => j <= k
<1>1. Stacked(n) /\ Len(shadow[n]) \in Nat /\ DOMAIN shadow[n] = 1..Len(shadow[n]) /\ Depth \in Nat
  BY Elements DEF EnvInv
<1>2. MeansOpen
  BY EnvInvMeansOpen
<1>3. CASE lookup(n) # 0
  <2>1. shadow[n] # <<>> /\ lookup(n) = shadow[n][Len(shadow[n])]
    BY <1>3 DEF lookup
  <2>2. PICK top \in DOMAIN shadow[n] : top = Len(shadow[n])
    BY <1>1, <2>1
  <2>3. PICK k \in 1..Depth : k = home[lookup(n)] /\ k = Made(n, top) /\ scopes[k][n] # 0
    BY <1>1, <2>1, <2>2 DEF Stacked, Made
  <2>4. \A j \in 1..Depth : scopes[j][n] # 0 => j <= k
    BY <1>2, <2>3 DEF MeansOpen
  <2>5. PICK i \in DOMAIN shadow[n] :
           /\ shadow[n][i] = scopes[k][n] /\ Made(n, i) = k
           /\ \A j \in DOMAIN shadow[n] : i < j => Made(n, j) > k
    BY <1>1, <2>3 DEF Stacked
  <2>6. i = top
    <3>1. i <= top /\ i \in Nat /\ top \in Nat
      BY <1>1, <2>2
    <3>2. ~ (i < top)
      BY <2>2, <2>3, <2>5
    <3> QED
      BY <3>1, <3>2
  <2> QED
    BY <1>3, <2>1, <2>2, <2>4, <2>5, <2>6
<1>4. CASE lookup(n) = 0
  BY <1>2, <1>4 DEF MeansOpen
<1> QED
  BY <1>3, <1>4

\* The invariant implies the property: a name that is declared in the function is bound
\* last where the table of locals has it, and another is bound at the top level alone.
LEMMA NamesHold ==
  ASSUME NameInv, CatchName \in Names
  PROVE  NamesMeanTheSame
<1> SUFFICES ASSUME Walk!InBody, NEW n \in Names, Walk!SemaTakes(n) # Walk!Unknown, ~ Walk!Parted(n)
             PROVE  Walk!CodeTakes(n) = Walk!SemaTakes(n)
  BY DEF NamesMeanTheSame, Walk!NamesMeanTheSame
<1>1. PICK f \in Nat \ {0} : \E at : Walked(tops, scopes, env_ops, open, kinds, locals, f, at)
  BY DEF NameInv
<1>2. PICK at : Walked(tops, scopes, env_ops, open, kinds, locals, f, at)
  BY <1>1
<1>3. /\ env_ops = <<>>
      /\ \A m \in Names \ {CatchName} : tops[m] = "func" => lookup(m) # 0
  BY DefiningIs DEF Walk!InBody, Walk!Walking, lookup, Walk!lookup
<1>4. Walked(tops, scopes, <<>>, open, kinds, locals, f, at)
  BY <1>2, <1>3
<1>5. f = Depth /\ Tables(tops, scopes, kinds, locals, f) /\ Depth \in Nat \ {0}
      /\ Table(scopes, kinds) /\ EnvInv
  BY <1>4, WithinDepth DEF Walked, Depth, Tables, Table, NameInv
<1>6. /\ kinds \in Seq(KindSet) /\ DOMAIN kinds = 1..Len(kinds) /\ Len(kinds) \in Nat
      /\ \A k \in 1..Depth, m \in Names : scopes[k][m] \in 0..Len(kinds)
  BY <1>5 DEF Table, Depth
<1>7. Walk!lookup(n) = lookup(n)
  BY DEF lookup, Walk!lookup
<1>8. TopKinds \cap LocalKinds = {}
  BY DEF TopKinds, LocalKinds
<1>9. \A k \in 1..Depth : scopes[k][n] # 0 =>
        /\ scopes[k][n] \in DOMAIN kinds /\ kinds[scopes[k][n]][2] = n
        /\ kinds[scopes[k][n]][1] \in IF k = 1 THEN TopKinds ELSE LocalKinds
  BY <1>5 DEF Tables, Bound, Depth
<1>10. /\ \A i \in MadeIn(kinds, n) : Stays(scopes, i, n, f)
       /\ \A i, j \in StaticsIn(kinds, n) : i = j
       /\ \A i \in DOMAIN kinds : kinds[i] # <<"method", n>>
       /\ n # CatchName /\ tops[n] = "var" => \E i \in DOMAIN kinds : kinds[i] = <<"global", n>>
  <2>1. /\ \A i \in MadeIn(kinds, n) : Walk!StillBound(i)
        /\ ~ (Cardinality(StaticsIn(kinds, n)) > 1)
        /\ \A i \in DOMAIN kinds : kinds[i] # <<"method", n>>
        /\ n # CatchName /\ tops[n] = "var" => \E i \in DOMAIN kinds : kinds[i] = <<"global", n>>
    <3>1. Walk!Cardinality(StaticsIn(kinds, n)) = Cardinality(StaticsIn(kinds, n))
      BY DEF Walk!Cardinality, Cardinality
    <3>2. Walk!MadeHere(n) = MadeIn(kinds, n) /\ Walk!Statics(n) = StaticsIn(kinds, n)
      BY StaticsAre
    <3> QED
      BY <3>1, <3>2 DEF Walk!Parted, CatchName
  <2>2. \A i \in MadeIn(kinds, n) : Stays(scopes, i, n, f)
    <3>1. \A i \in MadeIn(kinds, n) : kinds[i][2] = n
      BY DEF MadeIn
    <3>2. Walk!Depth = Len(scopes) /\ Len(scopes) \in Nat
      BY <1>5 DEF Walk!Depth, Depth
    <3> QED
      BY <1>5, <2>1, <3>1, <3>2 DEF Stays, Walk!StillBound, Depth
  <2>3. ASSUME NEW i \in StaticsIn(kinds, n), NEW j \in StaticsIn(kinds, n), i # j
        PROVE  FALSE
    <3>1. IsFiniteSet(StaticsIn(kinds, n))
      <4>1. StaticsIn(kinds, n) \subseteq 1..Len(kinds)
        BY <1>6 DEF StaticsIn, MadeIn
      <4>2. IsFiniteSet(1..Len(kinds))
        BY <1>6, FS_Interval
      <4> QED
        BY <4>1, <4>2, FS_Subset, Zenon
    <3>2. Cardinality(StaticsIn(kinds, n)) >= 2
      <4>1. {i, j} \in SUBSET StaticsIn(kinds, n)
        BY <2>3
      <4>2. Cardinality({i, j}) = 2
        BY <2>3, PairSize
      <4>3. Cardinality({i, j}) <= Cardinality(StaticsIn(kinds, n))
        BY <3>1, <4>1, FS_Subset, Zenon
      <4> QED
        BY <4>2, <4>3
    <3>3. Cardinality(StaticsIn(kinds, n)) \in Nat
      BY <3>1, FS_CardinalityType
    <3> QED
      BY <2>1, <3>2, <3>3
  <2> QED
    BY <2>1, <2>2, <2>3
<1>11. /\ locals[n] # 0 => locals[n] \in MadeIn(kinds, n)
       /\ \A i \in MadeIn(kinds, n) : i <= locals[n]
  BY <1>5, <1>10 DEF Tables, Latest
<1>12. CASE \E i : i \in MadeIn(kinds, n)
  <2>1. locals[n] # 0 /\ locals[n] \in MadeIn(kinds, n) /\ locals[n] \in Nat
    <3>1. \A i \in MadeIn(kinds, n) : i \in Nat \ {0}
      BY <1>6 DEF MadeIn
    <3> QED
      BY <1>11, <1>12, <3>1
  <2>2. PICK k \in 1..Depth : scopes[k][n] = locals[n]
    BY <1>10, <2>1 DEF Stays, Depth
  <2>3. lookup(n) # 0
    BY <1>5, <2>1, <2>2, LookupFinds
  <2>4. PICK j \in 1..Depth : scopes[j][n] = lookup(n) /\ k <= j
    BY <1>5, <2>1, <2>2, <2>3, LookupFinds
  <2>5. j = k
    <3>1. SUFFICES ASSUME k < j PROVE FALSE
      BY <1>5, <2>4
    <3>2. scopes[k][n] < scopes[j][n]
      BY <1>5, <2>1, <2>2, <2>3, <2>4, <3>1 DEF Tables, Rising, Depth
    <3>3. scopes[j][n] \in MadeIn(kinds, n)
      <4>1. j # 1
        BY <1>5, <3>1
      <4> QED
        BY <1>9, <2>3, <2>4, <4>1 DEF MadeIn
    <3>4. scopes[j][n] <= locals[n] /\ scopes[j][n] \in Nat
      BY <1>6, <1>11, <3>3
    <3> QED
      BY <2>1, <2>2, <3>2, <3>4
  <2>6. lookup(n) = locals[n]
    BY <2>2, <2>4, <2>5
  <2>7. kinds[locals[n]][1] \in {"local", "static"}
    BY <2>1 DEF MadeIn, LocalKinds
  <2> QED
    BY <1>7, <2>1, <2>6, <2>7 DEF Walk!CodeTakes, Walk!SemaTakes, Walk!Entity, Walk!IsLocal
<1>13. CASE ~ \E i : i \in MadeIn(kinds, n)
  <2>1. locals[n] = 0
    BY <1>11, <1>13
  <2>2. \A k \in 1..Depth : scopes[k][n] # 0 => k = 1
    BY <1>9, <1>13 DEF MadeIn
  <2>3. TopKept(tops, scopes, kinds)
    BY <1>5 DEF Tables
  <2>4. CASE lookup(n) # 0
    <3>1. lookup(n) = scopes[1][n] /\ 1 \in 1..Depth /\ scopes[1][n] # 0
      BY <1>5, <2>2, <2>4, LookupFinds
    <3> DEFINE i == lookup(n)
    <3>2. i \in DOMAIN kinds /\ kinds[i][2] = n /\ kinds[i][1] \in TopKinds
      BY <1>9, <3>1
    <3>3. kinds[i] \in KindSet
      BY <1>6, <3>2
    <3>4. kinds[i] = <<kinds[i][1], n>>
      BY <3>2, <3>3 DEF KindSet
    <3>5. kinds[i][1] \in {"func", "global"}
      BY <1>10, <3>2, <3>4 DEF TopKinds
    <3>6. /\ n # CatchName
          /\ kinds[i][1] = "func" => tops[n] = "func"
          /\ kinds[i][1] = "global" => tops[n] = "var"
      BY <2>3, <3>2 DEF TopKept
    <3>7. Walk!SemaTakes(n) = kinds[i]
      BY <1>7, <2>4, <3>5 DEF Walk!SemaTakes, Walk!Entity, Walk!IsLocal
    <3> HIDE DEF i
    <3>8. CASE kinds[i][1] = "func"
      BY <2>1, <3>4, <3>6, <3>7, <3>8 DEF Walk!CodeTakes, CatchName
    <3>9. CASE kinds[i][1] = "global"
      BY <2>1, <3>4, <3>6, <3>7, <3>9 DEF Walk!CodeTakes, CatchName
    <3> QED
      BY <3>5, <3>8, <3>9
  <2>5. CASE lookup(n) = 0
    <3>1. n # CatchName => tops[n] # "func"
      BY <1>3, <2>5
    <3>2. n # CatchName => tops[n] # "var"
      <4> SUFFICES ASSUME n # CatchName, tops[n] = "var" PROVE FALSE
        OBVIOUS
      <4>1. PICK i \in DOMAIN kinds : kinds[i] = <<"global", n>>
        BY <1>10
      <4>2. scopes[1][n] # 0
        BY <2>3, <4>1 DEF TopKept, TopKinds
      <4> QED
        BY <1>5, <2>5, <4>2, LookupFinds
    <3> QED
      BY <1>7, <2>1, <2>5, <3>1, <3>2 DEF Walk!CodeTakes, Walk!SemaTakes, CatchName
  <2> QED
    BY <2>4, <2>5
<1> QED
  BY <1>12, <1>13

\* Every step of the walk keeps the invariant.
LEMMA WalkStep ==
  ASSUME NameInv, ~Redeclare, CatchName \in Names,
         [Walk!WalkNext]_<<Walk!vars, Walk!walkVars>>
  PROVE  NameInv'
<1>1. CASE Walk!Push
  BY <1>1, PushNames
<1>2. CASE Walk!Pop
  BY <1>2, PopNames
<1>3. CASE Walk!Define
  BY <1>3, DefineInNames
<1>4. CASE \E n \in Walk!Ids : Walk!Collect(n)
  BY <1>4, CollectNames
<1>5. CASE \E n \in Walk!Ids : Walk!GlobalVar(n)
  BY <1>5, GlobalVarNames
<1>6. CASE \E n \in Walk!Ids : Walk!DeclareSeveral(n)
  BY <1>6, DeclareSeveralNames
<1>7. CASE \E fs \in SUBSET Walk!Ids : Walk!OpenClass(fs)
  BY <1>7, OpenClassNames
<1>8. CASE \E n \in Walk!Ids \cup {"main"}, ps \in SUBSET Walk!Ids : Walk!OpenFunc(n, ps)
  BY <1>8, OpenFuncNames
<1>9. CASE Walk!OpenBlock
  BY <1>9, OpenBlockNames
<1>10. CASE Walk!OpenCatch
  BY <1>10, OpenCatchNames
<1>11. CASE Walk!Close
  BY <1>11, CloseNames
<1>12. CASE \E n \in Walk!Ids, kind \in {"local", "static"} : Walk!Declare(n, kind)
  BY <1>12, DeclareNames
<1>13. CASE UNCHANGED <<Walk!vars, Walk!walkVars>>
  <2>1. EnvInv' /\ scopes' = scopes /\ home' = home
    BY <1>13, WalkEnvSame DEF NameInv
  <2>2. UNCHANGED <<tops, env_ops, open, kinds, locals>>
    BY <1>13 DEF Walk!walkVars
  <2> QED
    BY <2>1, <2>2 DEF NameInv
<1> QED
  BY <1>1, <1>2, <1>3, <1>4, <1>5, <1>6, <1>7, <1>8, <1>9, <1>10, <1>11, <1>12, <1>13
     DEF Walk!WalkNext

\* The walk begins with it.
LEMMA WalkStart ==
  ASSUME Walk!WalkInit
  PROVE  NameInv
<1>1. /\ scopes = << [n \in Names |-> 0] >> /\ home = <<>> /\ env_ops = <<>> /\ open = <<>>
      /\ kinds = <<>> /\ locals = [n \in Names |-> 0] /\ Walk!Init
  BY DEF Walk!WalkInit, Walk!Init, Walk!Nothing, Walk!NoLocals
<1>2. EnvInv
  <2>1. Init
    BY <1>1 DEF Init, Walk!Init, Nothing, Walk!Nothing
  <2> QED
    BY <2>1, InitEnv
<1>3. Len(scopes) = 1 /\ scopes[1] = [n \in Names |-> 0] /\ Len(kinds) = 0 /\ Len(open) = 0
      /\ DOMAIN kinds = {} /\ 1..Len(scopes) = {1}
  BY <1>1
<1>4. Remaining(tops, env_ops, Len(scopes), 1)
  BY <1>1, <1>3 DEF Remaining
<1>5. Nested(open, <<>>, 1)
  BY <1>1 DEF Nested
<1>6. Caught(open, <<>>, scopes, env_ops)
  BY <1>3 DEF Caught
<1>7. Table(scopes, kinds)
  BY <1>1, <1>3 DEF Table
<1>8. Rising(scopes) /\ Bound(scopes, kinds, 1) /\ TopKept(tops, scopes, kinds)
  BY <1>3 DEF Rising, Bound, TopKept
<1>9. Latest(scopes, kinds, locals, 1)
  BY <1>1, <1>3 DEF Latest, MadeIn
<1>10. Walked(tops, scopes, env_ops, open, kinds, locals, 1, <<>>)
  BY <1>1, <1>4, <1>5, <1>6, <1>7, <1>8, <1>9 DEF Walked, Tables
<1>11. 1 \in Nat \ {0} /\ Len(kinds) = Len(home)
  BY <1>1
<1> QED
  BY <1>2, <1>10, <1>11 DEF NameInv

\* The generated code takes an identifier for the same variable, function or field as
\* Sema has checked, in every program that declares no name twice in one nested scope
\* and as long as no declaration of the name has gone out of scope (LLVMCodegen's
\* locals_, visitIdentifier; Sema's Env).
THEOREM NamesMeanTheSameHolds ==
  ASSUME ~Redeclare, "__except_code" \in Names
  PROVE  Walk!WalkSpec => []NamesMeanTheSame
<1>1. CatchName \in Names
  BY DEF CatchName
<1>2. Walk!WalkInit => NameInv
  BY WalkStart
<1>3. NameInv /\ [Walk!WalkNext]_<<Walk!vars, Walk!walkVars>> => NameInv'
  BY <1>1, WalkStep
<1>4. NameInv => NamesMeanTheSame
  BY <1>1, NamesHold
<1> QED
  BY <1>2, <1>3, <1>4, PTL DEF Walk!WalkSpec

-----------------------------------------------------------------------------
(* The formatter.                                                          *)

\* An output at the beginning of a line, where a lexer would be within n comments.
OnNewLine(o, n) ==
  /\ o \in Format!Outputs /\ o.tail = "newline" /\ o.at_line_start_
  /\ o.text = "code" /\ o.nest = n /\ ~o.directive

\* An output whose last line is finished: nothing of it reaches into the next.
Finished(o) ==
  /\ o \in Format!Outputs
  /\ o.text # "garbled" /\ o.nest = 0
  /\ o.at_line_start_ => o.tail = "newline"
  /\ o.tail = "newline" => ~o.directive /\ o.text = "code"

\* What the emit functions change.
LEMMA Emits ==
  ASSUME NEW o \in Format!Outputs
  PROVE  /\ Format!emitRaw(o) \in Format!Outputs
         /\ Format!emitRaw(o).tail = "text" /\ ~Format!emitRaw(o).at_line_start_
         /\ Format!emitRaw(o).text = o.text /\ Format!emitRaw(o).directive = o.directive
         /\ Format!emitRaw(o).nest = o.nest
         /\ Format!emitSpace(o) \in Format!Outputs
         /\ Format!emitSpace(o).tail = (IF o.tail = "text" THEN "space" ELSE o.tail)
         /\ Format!emitSpace(o).at_line_start_ = o.at_line_start_
         /\ Format!emitSpace(o).text = o.text /\ Format!emitSpace(o).directive = o.directive
         /\ Format!emitSpace(o).nest = o.nest
         /\ Format!emitNewline(o) \in Format!Outputs
         /\ Format!emitNewline(o).tail = "newline" /\ Format!emitNewline(o).at_line_start_
         /\ Format!emitNewline(o).text = (IF o.text = "comment" THEN "code" ELSE o.text)
         /\ ~Format!emitNewline(o).directive /\ Format!emitNewline(o).nest = o.nest
<1> USE DEF Format!Outputs, Format!Tails
<1>1. /\ Format!emitRaw(o) \in Format!Outputs
      /\ Format!emitRaw(o).tail = "text" /\ ~Format!emitRaw(o).at_line_start_
      /\ Format!emitRaw(o).text = o.text /\ Format!emitRaw(o).directive = o.directive
      /\ Format!emitRaw(o).nest = o.nest
  BY DEF Format!emitRaw
<1>2. /\ Format!emitSpace(o) \in Format!Outputs
      /\ Format!emitSpace(o).tail = (IF o.tail = "text" THEN "space" ELSE o.tail)
      /\ Format!emitSpace(o).at_line_start_ = o.at_line_start_
      /\ Format!emitSpace(o).text = o.text /\ Format!emitSpace(o).directive = o.directive
      /\ Format!emitSpace(o).nest = o.nest
  BY DEF Format!emitSpace
<1>3. /\ Format!emitNewline(o) \in Format!Outputs
      /\ Format!emitNewline(o).tail = "newline" /\ Format!emitNewline(o).at_line_start_
      /\ Format!emitNewline(o).text = (IF o.text = "comment" THEN "code" ELSE o.text)
      /\ ~Format!emitNewline(o).directive /\ Format!emitNewline(o).nest = o.nest
  BY DEF Format!emitNewline
<1> QED
  BY <1>1, <1>2, <1>3

LEMMA Indents ==
  ASSUME NEW o \in Format!Outputs, NEW n
  PROVE  /\ Format!emitIndent(o, n) \in Format!Outputs
         /\ Format!emitIndent(o, n).tail \in {o.tail, "space"}
         /\ ~Format!emitIndent(o, n).at_line_start_
         /\ Format!emitIndent(o, n).text = o.text
         /\ Format!emitIndent(o, n).directive = o.directive
         /\ Format!emitIndent(o, n).nest = o.nest
BY DEF Format!Outputs, Format!Tails, Format!emitIndent

LEMMA LineIs ==
  ASSUME NEW l \in Format!LineKinds
  PROVE  /\ l.starts \in BOOLEAN /\ l.closes \in BOOLEAN
         /\ l.from \in 0 .. MaxNest /\ l.to \in 0 .. MaxNest
         /\ l.from = 0 /\ ~l.starts => l.to = 0 /\ ~l.closes
         /\ ~l.closes /\ (l.starts \/ l.from # 0) => l.to # 0
BY FormatAssumption DEF Format!LineKinds

LEMMA Copies ==
  ASSUME NEW o \in Format!Outputs, o.tail = "newline" => ~o.directive /\ o.text # "comment",
         o.text # "garbled", NEW l \in Format!LineKinds, o.nest = l.from
  PROVE  OnNewLine(Format!Copied(o, l), l.to)
<1> DEFINE r == IF o.tail = "newline" THEN o ELSE Format!emitNewline(o)
<1>1. /\ r \in Format!Outputs /\ r.tail = "newline" /\ r.text = "code" /\ ~r.directive
  BY Emits DEF Format!Outputs
<1>2. Format!Copied(o, l) = [r EXCEPT !.at_line_start_ = TRUE, !.nest = l.to, !.text = r.text]
  BY DEF Format!Copied
<1>3. l.to \in 0 .. MaxNest
  BY LineIs
<1> HIDE DEF r
<1> QED
  BY <1>1, <1>2, <1>3 DEF Format!Outputs, Format!Tails, OnNewLine

\* After n lines of a gap: nothing was copied, or as much as a lexer needs to be
\* within as many comments as in the text.
CopiedTo(s, o, g, n) ==
  /\ s \in [in_block : BOOLEAN, o : Format!Outputs]
  /\ \/ /\ ~s.in_block /\ s.o = o
        /\ \A j \in 1 .. n : ~g.lines[j].starts
     \/ /\ OnNewLine(s.o, g.lines[n].to)
        /\ s.in_block <=> g.lines[n].to # 0
        /\ n # 0 /\ \E j \in 1 .. n : g.lines[j].starts

LEMMA CopyLineIs ==
  ASSUME NEW s \in [in_block : BOOLEAN, o : Format!Outputs], NEW l \in Format!LineKinds
  PROVE  LET r == Format!CopyLine(s, l) IN
         /\ r.in_block = ((s.in_block \/ l.starts) /\ ~l.closes)
         /\ r.o = IF s.in_block \/ l.starts THEN Format!Copied(s.o, l) ELSE s.o
         /\ r.in_block \in BOOLEAN
         /\ r.o \in Format!Outputs => r \in [in_block : BOOLEAN, o : Format!Outputs]
<1>1. Format!Within(s, l) \in BOOLEAN /\ Format!Within(s, l) = ((s.in_block \/ l.starts) /\ ~l.closes)
  BY LineIs DEF Format!Within, Format!Copies
<1> QED
  BY <1>1 DEF Format!CopyLine, Format!Copies

LEMMA CopyLineKeeps ==
  ASSUME NEW o, Finished(o), NEW g \in Format!Gaps, NEW n \in 1 .. Len(g.lines), NEW s,
         CopiedTo(s, o, g, n - 1), ~Format!Reopens(g), ~Format!WithinDropped(g)
  PROVE  CopiedTo(Format!CopyLine(s, g.lines[n]), o, g, n)
<1> DEFINE l == g.lines[n]
           r == Format!CopyLine(s, l)
<1>1. /\ g.lines \in Seq(Format!LineKinds) /\ Len(g.lines) \in Nat
      /\ DOMAIN g.lines = 1 .. Len(g.lines) /\ n \in DOMAIN g.lines
      /\ Format!Commented(g)
  BY DEF Format!Gaps, Format!SeqOf
<1>2. l \in Format!LineKinds /\ l.from = IF n = 1 THEN g.tail ELSE g.lines[n - 1].to
  BY <1>1 DEF Format!Commented
<1>3. /\ l.starts \in BOOLEAN /\ l.closes \in BOOLEAN
      /\ l.from = 0 /\ ~l.starts => l.to = 0 /\ ~l.closes
      /\ ~l.closes /\ (l.starts \/ l.from # 0) => l.to # 0
  BY <1>2, LineIs
<1>4. s \in [in_block : BOOLEAN, o : Format!Outputs] /\ s.o \in Format!Outputs
  BY DEF CopiedTo
<1>5. /\ r.in_block = ((s.in_block \/ l.starts) /\ ~l.closes)
      /\ r.o = (IF s.in_block \/ l.starts THEN Format!Copied(s.o, l) ELSE s.o)
      /\ r.o \in Format!Outputs => r \in [in_block : BOOLEAN, o : Format!Outputs]
  BY <1>2, <1>4, CopyLineIs
<1>6. n \in 1 .. n /\ n # 0 /\ 1 .. n = 1 .. n - 1 \cup {n} /\ \A j \in 1 .. n : j \in DOMAIN g.lines
  BY <1>1
<1>7. (\E j \in 1 .. n : g.lines[j].starts) /\ l.closes => l.to = 0
  <2>1. ASSUME NEW j \in 1 .. n, g.lines[j].starts, l.closes
        PROVE  l.to = 0
    BY <1>1, <1>6, <2>1 DEF Format!Reopens, Format!Starts
  <2> QED
    BY <2>1
<1>8. ASSUME r.in_block = ~l.closes, r.o = Format!Copied(s.o, l), s.o.nest = l.from,
             s.o.tail = "newline" => ~s.o.directive /\ s.o.text # "comment",
             s.o.text # "garbled", l.starts \/ l.from # 0, \E j \in 1 .. n : g.lines[j].starts
      PROVE  CopiedTo(r, o, g, n)
  <2>1. OnNewLine(r.o, l.to)
    BY <1>2, <1>4, <1>8, Copies
  <2>2. r.o \in Format!Outputs
    BY <2>1 DEF OnNewLine
  <2>3. r.in_block <=> l.to # 0
    BY <1>3, <1>7, <1>8
  <2> QED
    BY <1>5, <1>6, <1>8, <2>1, <2>2, <2>3 DEF CopiedTo
<1> HIDE DEF r, l
<1>9. CASE ~s.in_block /\ s.o = o /\ \A j \in 1 .. n - 1 : ~g.lines[j].starts
  <2>1. CASE ~l.starts
    <3>1. r.o = o /\ ~r.in_block
      BY <1>5, <1>9, <2>1
    <3>2. o \in Format!Outputs
      BY DEF Finished
    <3>3. \A j \in 1 .. n : ~g.lines[j].starts
      BY <1>6, <1>9, <2>1 DEF l
    <3> QED
      BY <1>5, <3>1, <3>2, <3>3 DEF CopiedTo, r, l
  <2>2. CASE l.starts
    <3>1. l.from = 0
      <4>1. n \in Format!Starts(g)
        BY <1>1, <2>2 DEF Format!Starts, l
      <4>2. \A j \in Format!Starts(g) : n <= j
        BY <1>1, <1>3, <1>9 DEF Format!Starts
      <4> QED
        BY <4>1, <4>2 DEF Format!WithinDropped, l
    <3>2. \E j \in 1 .. n : g.lines[j].starts
      BY <1>6, <2>2 DEF l
    <3>3. r.in_block = ~l.closes /\ r.o = Format!Copied(s.o, l)
      BY <1>3, <1>5, <2>2
    <3>4. /\ s.o.nest = l.from /\ s.o.text # "garbled"
          /\ s.o.tail = "newline" => ~s.o.directive /\ s.o.text # "comment"
      BY <1>9, <3>1 DEF Finished
    <3> QED
      BY <1>8, <2>2, <3>2, <3>3, <3>4 DEF r, l
  <2> QED
    BY <1>3, <2>1, <2>2
<1>10. CASE /\ OnNewLine(s.o, g.lines[n - 1].to)
            /\ s.in_block <=> g.lines[n - 1].to # 0
            /\ n - 1 # 0 /\ \E j \in 1 .. n - 1 : g.lines[j].starts
  <2>1. l.from = g.lines[n - 1].to
    BY <1>2, <1>10
  <2>2. \E j \in 1 .. n : g.lines[j].starts
    BY <1>6, <1>10
  <2>3. CASE s.in_block \/ l.starts
    <3>1. r.in_block = ~l.closes /\ r.o = Format!Copied(s.o, l)
      BY <1>3, <1>5, <2>3
    <3>2. /\ s.o.nest = l.from /\ s.o.text # "garbled"
          /\ s.o.tail = "newline" => ~s.o.directive /\ s.o.text # "comment"
      BY <1>10, <2>1 DEF OnNewLine
    <3>3. l.starts \/ l.from # 0
      BY <1>10, <2>1, <2>3
    <3> QED
      BY <1>8, <2>2, <3>1, <3>2, <3>3 DEF r, l
  <2>4. CASE ~s.in_block /\ ~l.starts
    <3>1. l.from = 0 /\ l.to = 0
      BY <1>3, <1>10, <2>1, <2>4
    <3>2. r.o = s.o /\ ~r.in_block
      BY <1>5, <2>4
    <3>3. OnNewLine(r.o, l.to)
      BY <1>10, <2>1, <3>1, <3>2
    <3> QED
      BY <1>4, <1>5, <1>6, <2>2, <3>1, <3>2, <3>3 DEF CopiedTo, r, l
  <2> QED
    BY <1>3, <1>4, <2>3, <2>4
<1> QED
  BY <1>9, <1>10 DEF CopiedTo, r, l

\* What lies between two tokens leaves the output as it was, or begins a line.
LEMMA GapKeeps ==
  ASSUME NEW o, Finished(o), NEW g \in Format!Gaps, ~Format!EndsAtToken(g),
         ~Format!Reopens(g), ~Format!WithinDropped(g)
  PROVE  \/ OnNewLine(Format!emitBlockCommentsBefore(o, g), 0) /\ g.lines # <<>>
         \/ Format!emitBlockCommentsBefore(o, g) = o /\ Format!Starts(g) = {}
<1> DEFINE L == Len(g.lines)
           start == [in_block |-> FALSE, o |-> o]
           S == [in_block : BOOLEAN, o : Format!Outputs]
           G == [k \in 0 + 1 .. L |-> [s \in S |-> Format!CopyLine(s, g.lines[k])]]
           Body(f) == [n \in 0 .. L |->
                         IF n = 0 THEN start ELSE Format!CopyLine(f[n - 1], g.lines[n])]
           chosen == CHOOSE f : f = Body(f)
<1>1. /\ g.lines \in Seq(Format!LineKinds) /\ L \in Nat /\ DOMAIN g.lines = 1 .. L
  BY DEF Format!Gaps, Format!SeqOf
<1>2. start \in S
  BY DEF Finished
<1>3. \A s \in S, k \in 1 .. L : Format!CopyLine(s, g.lines[k]) \in S
  <2>1. TAKE s \in S, k \in 1 .. L
  <2>2. s.o \in Format!Outputs
    OBVIOUS
  <2>3. g.lines[k] \in Format!LineKinds /\ g.lines[k].to \in 0 .. MaxNest
    BY <1>1, LineIs
  <2>4. Format!Copied(s.o, g.lines[k]) \in Format!Outputs
    BY <2>2, <2>3 DEF Format!Copied, Format!emitNewline, Format!Outputs, Format!Tails
  <2>5. Format!CopyLine(s, g.lines[k]).o \in Format!Outputs
    BY <2>2, <2>3, <2>4, CopyLineIs
  <2> QED
    BY <2>3, <2>5, CopyLineIs
<1>4. G \in [0 + 1 .. L -> [S -> S]]
  BY <1>1, <1>3
<1>5. PICK w \in [0 .. L -> S] : Turns(w, G, start, 0, L)
  <2> DEFINE z == 0
  <2>1. G \in [z + 1 .. L -> [S -> S]] /\ start \in S /\ z \in Int /\ L \in Int /\ z <= L
    BY <1>1, <1>2, <1>4
  <2> HIDE DEF G, L, S, z, start
  <2>2. \E w \in [z .. L -> S] : Turns(w, G, start, z, L)
    BY <2>1, TurnsExist
  <2> QED
    BY <2>2 DEF z
<1>6. w[0] = start /\ \A k \in 1 .. L : w[k] = G[k][w[k - 1]]
  <2> HIDE DEF G, start, S
  <2> QED
    BY <1>5 DEF Turns
<1>7. \A k \in 1 .. L : G[k][w[k - 1]] = Format!CopyLine(w[k - 1], g.lines[k])
  <2>1. TAKE k \in 1 .. L
  <2>2. w[k - 1] \in S
    BY <1>1
  <2> HIDE DEF S
  <2> QED
    BY <2>2
<1> HIDE DEF G, start, S
<1>8. w = Body(w)
  <2>1. \A k \in 0 .. L : w[k] = IF k = 0 THEN start ELSE Format!CopyLine(w[k - 1], g.lines[k])
    <3>1. TAKE k \in 0 .. L
    <3>2. k # 0 => k \in 1 .. L
      BY <1>1
    <3> QED
      BY <1>6, <1>7, <3>2
  <2> QED
    BY <2>1
<1>9. chosen = Body(chosen)
  <2> HIDE DEF Body
  <2> QED
    BY <1>8
<1>10. Format!emitBlockCommentsBefore(o, g) = chosen[L].o
  BY DEF Format!emitBlockCommentsBefore, start
<1> HIDE DEF chosen
<1>11. /\ chosen[0] = start
       /\ \A n \in 1 .. L : chosen[n] = Format!CopyLine(chosen[n - 1], g.lines[n])
  BY <1>1, <1>9
<1> DEFINE T == {n \in 0 .. L : CopiedTo(chosen[n], o, g, n)}
<1>12. \A n \in 0 .. L : n \in T
  <2>1. 0 \in T
    <3>1. start \in [in_block : BOOLEAN, o : Format!Outputs] /\ ~start.in_block /\ start.o = o
      BY DEF start, Finished
    <3> QED
      BY <1>1, <1>11, <3>1 DEF CopiedTo
  <2>2. ASSUME NEW n \in 0 .. L - 1, n \in T
        PROVE  n + 1 \in T
    <3>1. n + 1 \in 1 .. L /\ (n + 1) - 1 = n /\ n + 1 \in 0 .. L
      BY <1>1
    <3>2. CopiedTo(Format!CopyLine(chosen[n], g.lines[n + 1]), o, g, n + 1)
      BY <2>2, <3>1, CopyLineKeeps
    <3>3. chosen[n + 1] = Format!CopyLine(chosen[n], g.lines[n + 1])
      BY <1>11, <3>1
    <3> QED
      BY <3>1, <3>2, <3>3
  <2> HIDE DEF T
  <2> QED
    BY <1>1, <2>1, <2>2, IntervalInduction
<1>13. CopiedTo(chosen[L], o, g, L)
  BY <1>1, <1>12
<1>14. (\E j \in 1 .. L : g.lines[j].starts) => g.lines[L].to = 0
  <2>1. Format!Starts(g) # {} => g.lines[Len(g.lines)].to = 0
    BY DEF Format!EndsAtToken, Format!Last
  <2> QED
    BY <1>1, <2>1 DEF Format!Starts
<1>15. (\A j \in 1 .. L : ~g.lines[j].starts) => Format!Starts(g) = {}
  BY <1>1 DEF Format!Starts
<1>16. L # 0 => g.lines # <<>>
  BY <1>1
<1> QED
  BY <1>10, <1>13, <1>14, <1>15, <1>16 DEF CopiedTo

-----------------------------------------------------------------------------
(* What is written before and after the text of a token.                   *)

LEMMA IndentsOrSpaces ==
  ASSUME Finished(out)
  PROVE  LET r == Format!IndentOrSpace(out) IN
         /\ r \in Format!Outputs /\ r.tail # "text"
         /\ r.text = out.text /\ r.directive = out.directive /\ r.nest = out.nest
<1>1. out \in Format!Outputs /\ (out.at_line_start_ => out.tail = "newline")
  BY DEF Finished
<1>2. CASE out.at_line_start_
  BY <1>1, <1>2, Indents DEF Format!IndentOrSpace
<1>3. CASE ~out.at_line_start_
  BY <1>1, <1>3, Emits DEF Format!IndentOrSpace
<1> QED
  BY <1>2, <1>3

\* A directive and } begin a line; nothing else does.
LEMMA BeginsLine ==
  ASSUME Finished(out), cur \in Format!Directives \cup {"rbrace"}
  PROVE  /\ Format!Reached \in Format!Outputs /\ Format!Reached.tail # "text"
         /\ Format!Reached.text = "code" /\ ~Format!Reached.directive
         /\ Format!Reached.nest = 0
<1> DEFINE r == Format!OnOwnLine(out)
<1>1. out \in Format!Outputs /\ out.text \in {"code", "comment"} /\ out.nest = 0
  BY DEF Finished, Format!Outputs
<1>2. /\ r \in Format!Outputs /\ r.tail = "newline" /\ r.text = "code" /\ ~r.directive
      /\ r.nest = 0
  <2>1. CASE out.at_line_start_
    BY <2>1 DEF Finished, Format!OnOwnLine
  <2>2. CASE ~out.at_line_start_
    BY <1>1, <2>2, Emits DEF Format!OnOwnLine
  <2> QED
    BY <2>1, <2>2
<1>3. CASE cur \in Format!Directives
  <2>1. Format!BeforeText(out) = r
    BY <1>3 DEF Format!BeforeText, Format!Directives
  <2> HIDE DEF r
  <2> QED
    BY <1>2, <2>1 DEF Format!Reached
<1>4. CASE cur = "rbrace"
  <2>1. Format!BeforeText(out) = Format!emitIndent(r, indent_ - 1)
    BY <1>4 DEF Format!BeforeText, Format!Directives
  <2> HIDE DEF r
  <2> QED
    BY <1>2, <2>1, Indents DEF Format!Reached
<1> QED
  BY <1>3, <1>4

LEMMA KeepsLine ==
  ASSUME Finished(out), cur \in Format!Tokens, cur \notin Format!Directives \cup {"rbrace"}
  PROVE  /\ Format!Reached \in Format!Outputs
         /\ Format!Reached.text = out.text /\ Format!Reached.directive = out.directive
         /\ Format!Reached.nest = 0
         /\ Format!Reached.tail = "text" => out.tail = "text"
         /\ Format!Reached.tail = "text" => cur # "<"
         /\ Format!Reached.tail = "text" => ~(prev_kind_ = "&" /\ cur = "&")
         /\ Format!Reached.tail = "text" =>
              ~(prev_kind_ \in Format!Words \cup Format!Directives /\ cur \in Format!Words)
<1> DEFINE o == out
           sp == Format!emitSpace(out)
           ind == Format!IndentOrSpace(out)
           r == Format!Reached
<1>1. /\ o \in Format!Outputs /\ (o.at_line_start_ => o.tail = "newline")
      /\ sp \in Format!Outputs /\ sp.tail # "text" /\ sp.text = o.text /\ sp.directive = o.directive
      /\ ind \in Format!Outputs /\ ind.tail # "text" /\ ind.text = o.text
      /\ ind.directive = o.directive /\ o.nest = 0 /\ sp.nest = 0 /\ ind.nest = 0
  <2>1. o \in Format!Outputs /\ (o.at_line_start_ => o.tail = "newline") /\ o.nest = 0
    BY DEF Finished
  <2>2. /\ sp \in Format!Outputs /\ sp.tail # "text" /\ sp.text = o.text
        /\ sp.directive = o.directive /\ sp.nest = 0
    BY <2>1, Emits
  <2> QED
    BY <2>1, <2>2, IndentsOrSpaces
<1> HIDE DEF sp, ind
<1>2. r \in {o, sp, ind}
  BY DEF Format!Reached, Format!BeforeText, Format!Unless, sp, ind, Format!Tokens, Format!Operands,
         Format!PrefixOps, Format!Directives, Format!Words
<1>3. cur = "<" => r = sp
  BY DEF Format!Reached, Format!BeforeText, sp
<1>4. prev_kind_ = "&" /\ cur = "&" => r = sp \/ out.at_line_start_
  BY DEF Format!Reached, Format!BeforeText, Format!Unless, Format!isBinaryOp, sp
<1>5. prev_kind_ \in Format!Words \cup Format!Directives /\ cur \in Format!Words => r = ind
  BY DEF Format!Reached, Format!BeforeText, Format!Words, Format!Directives, ind
<1> HIDE DEF r
<1> QED
  BY <1>1, <1>2, <1>3, <1>4, <1>5 DEF r

\* What is written after it, when the text of cur has been written at o.
LEMMA AfterIs ==
  ASSUME cur \in Format!Tokens, cur # "eof", NEW o \in Format!Outputs,
         o.tail = "text", ~o.at_line_start_, o.text = "code", o.nest = 0,
         NEW comment \in BOOLEAN, NEW tail \in 0 .. MaxNest, comment => cur = "semicolon",
         tail # 0 => cur # "#define"
  PROVE  LET r == Format!AfterText(o, comment, tail) IN
         /\ Finished(r)
         /\ r.text = "comment" => nxt \in {"rbrace", "eof"}
         /\ r.directive => o.directive \/ cur = "#if"
         /\ cur \in Format!OfDirective => r.directive = o.directive
         /\ cur = "#if" => r.directive
         /\ r.tail = "text" => /\ cur \notin {"<", ":"}
                               /\ cur = "-" => ~Format!isValueEnd(prev_kind_)
<1> DEFINE r == Format!AfterText(o, comment, tail)
           sp == Format!emitSpace(o)
           nl == Format!emitNewline(o)
           said == IF comment THEN [Format!emitRaw(Format!emitSpace(o)) EXCEPT !.text = "comment"]
                   ELSE o
           dir == [Format!emitSpace(o) EXCEPT !.directive = TRUE]
           def == [o EXCEPT !.nest = tail]
<1>1. /\ sp \in Format!Outputs /\ sp.tail = "space" /\ ~sp.at_line_start_ /\ sp.text = "code"
      /\ sp.directive = o.directive /\ sp.nest = 0
      /\ nl \in Format!Outputs /\ nl.tail = "newline" /\ nl.text = "code" /\ ~nl.directive
      /\ nl.nest = 0
  BY Emits
<1>2. Finished(o) /\ Finished(sp) /\ Finished(nl)
  BY <1>1 DEF Finished
<1>3. /\ said \in Format!Outputs /\ said.tail = "text" /\ ~said.at_line_start_
      /\ said.text \in {"code", "comment"} /\ said.directive = o.directive
      /\ said.nest = 0
  <2> DEFINE raw == Format!emitRaw(sp)
  <2>1. /\ raw \in Format!Outputs /\ raw.tail = "text" /\ ~raw.at_line_start_
        /\ raw.directive = o.directive /\ raw.nest = 0
    BY <1>1, Emits
  <2>2. said = IF comment THEN [raw EXCEPT !.text = "comment"] ELSE o
    OBVIOUS
  <2> HIDE DEF raw, said
  <2> QED
    BY <2>1, <2>2 DEF Format!Outputs, Format!Tails
<1>4. /\ dir \in Format!Outputs /\ dir.tail = "space" /\ ~dir.at_line_start_ /\ dir.text = "code"
      /\ dir.directive /\ dir.nest = 0
  <2>1. dir = [sp EXCEPT !.directive = TRUE]
    OBVIOUS
  <2> HIDE DEF sp, dir
  <2> QED
    BY <1>1, <2>1 DEF Format!Outputs, Format!Tails
<1>5. def \in Format!Outputs /\ def.text = "code" /\ (tail = 0 => def.nest = 0)
  BY DEF Format!Outputs, Format!Tails
<1> HIDE DEF sp, nl, said, dir, def
<1>6. CASE cur = "semicolon" /\ paren_depth_ = 0
  <2>1. r \in {said, Format!emitNewline(said)}
        /\ (r = said => nxt \in {"eof", "rbrace"} \/ r = Format!emitNewline(said))
    BY <1>6 DEF Format!AfterText, said, Format!Eof
  <2>2. LET m == Format!emitNewline(said) IN
        m \in Format!Outputs /\ m.tail = "newline" /\ m.text = "code" /\ ~m.directive /\ m.nest = 0
    BY <1>3, Emits
  <2>3. cur \notin Format!OfDirective
    BY <1>6 DEF Format!OfDirective
  <2> HIDE DEF r
  <2> QED
    BY <1>3, <1>6, <2>1, <2>2, <2>3 DEF Finished, r
<1>7. CASE cur = "#define"
  <2>1. r = Format!emitNewline(def)
    BY <1>7 DEF Format!AfterText, def
  <2>2. LET m == Format!emitNewline(def) IN
        m \in Format!Outputs /\ m.tail = "newline" /\ m.text = "code" /\ ~m.directive /\ m.nest = 0
    BY <1>5, <1>7, Emits
  <2>3. cur \notin Format!OfDirective
    BY <1>7 DEF Format!OfDirective
  <2> HIDE DEF r
  <2> QED
    BY <1>7, <2>1, <2>2, <2>3 DEF Finished, r
<1>8. CASE cur = "#if"
  <2>1. r = dir
    BY <1>8 DEF Format!AfterText, dir
  <2>2. cur \notin Format!OfDirective
    BY <1>8 DEF Format!OfDirective
  <2> HIDE DEF r
  <2> QED
    BY <1>4, <1>8, <2>1, <2>2 DEF Finished, r
<1>9. CASE cur \notin {"#define", "#if"} /\ ~(cur = "semicolon" /\ paren_depth_ = 0)
  <2>1. r \in {o, sp, nl}
    BY <1>9 DEF Format!AfterText, sp, nl, Format!Tokens, Format!Operands, Format!PrefixOps,
                Format!Directives, Format!Words
  <2>2. cur \in Format!OfDirective => r \in {o, sp}
    BY <1>9 DEF Format!AfterText, sp, Format!OfDirective
  <2>3. cur \in {"<", ":"} => r = sp
    BY <1>9 DEF Format!AfterText, sp
  <2>4. cur = "-" /\ Format!isValueEnd(prev_kind_) => r = sp
    BY <1>9 DEF Format!AfterText, Format!TakenAsBinary, sp
  <2> HIDE DEF r
  <2> QED
    BY <1>1, <1>2, <1>9, <2>1, <2>2, <2>3, <2>4 DEF r
<1> QED
  BY <1>6, <1>7, <1>8, <1>9

-----------------------------------------------------------------------------
(* The brackets.                                                           *)

Brackets == {"(", "if", "[", "lbrace", "init"}
Opens(k) == CASE k = "lbrace" -> {"lbrace", "init"} [] k = "(" -> {"(", "if"}
              [] k = "[" -> {"["} [] OTHER -> {}
Closes(k) == CASE k = "rbrace" -> {"lbrace", "init"} [] k = ")" -> {"(", "if"}
               [] k = "]" -> {"["} [] OTHER -> {}

\* How many of the open brackets are of K.
OpenOf(s, K) == Cardinality({i \in DOMAIN s : s[i] \in K})

LEMMA OpenOfBounds ==
  ASSUME NEW s \in Seq(Brackets), NEW K
  PROVE  /\ OpenOf(s, K) \in Nat /\ OpenOf(s, K) <= Len(s)
         /\ (\E i \in DOMAIN s : s[i] \in K) => OpenOf(s, K) # 0
<1> DEFINE D == {i \in DOMAIN s : s[i] \in K}
<1>1. Len(s) \in Nat /\ DOMAIN s = 1 .. Len(s)
  OBVIOUS
<1>2. IsFiniteSet(1 .. Len(s)) /\ Cardinality(1 .. Len(s)) = Len(s)
  BY <1>1, FS_Interval
<1>3. D \subseteq 1 .. Len(s)
  BY <1>1
<1>4. IsFiniteSet(D) /\ Cardinality(D) <= Len(s)
  BY <1>2, <1>3, FS_Subset
<1>5. Cardinality(D) \in Nat /\ (Cardinality(D) = 0 <=> D = {})
  BY <1>4, FS_CardinalityType, FS_EmptySet
<1> QED
  BY <1>4, <1>5 DEF OpenOf

LEMMA OpenOfAppend ==
  ASSUME NEW s \in Seq(Brackets), NEW b \in Brackets, NEW K
  PROVE  OpenOf(Append(s, b), K) = OpenOf(s, K) + (IF b \in K THEN 1 ELSE 0)
<1> DEFINE L == Len(s)
           t == Append(s, b)
           D == {i \in DOMAIN s : s[i] \in K}
           E == {i \in DOMAIN t : t[i] \in K}
<1>1. L \in Nat /\ DOMAIN s = 1 .. L /\ DOMAIN t = 1 .. L + 1
  OBVIOUS
<1>2. t[L + 1] = b /\ \A i \in 1 .. L : t[i] = s[i]
  BY PushStack
<1>3. IsFiniteSet(1 .. L)
  BY <1>1, FS_Interval
<1>4. D \subseteq 1 .. L
  BY <1>1
<1>5. IsFiniteSet(D) /\ L + 1 \notin D
  BY <1>1, <1>3, <1>4, FS_Subset
<1> HIDE DEF t
<1>6. E = IF b \in K THEN D \cup {L + 1} ELSE D
  BY <1>1, <1>2
<1> HIDE DEF D, E, L
<1>7. Cardinality(D \cup {L + 1}) = Cardinality(D) + 1 /\ Cardinality(D) \in Nat
  BY <1>5, FS_AddElement, FS_CardinalityType
<1>8. Cardinality(E) = Cardinality(D) + (IF b \in K THEN 1 ELSE 0)
  BY <1>6, <1>7
<1> QED
  BY <1>8 DEF OpenOf, D, E, t

LEMMA OpenOfFront ==
  ASSUME NEW s \in Seq(Brackets), s # <<>>, NEW K
  PROVE  LET f == Format!Front(s) IN
         /\ f \in Seq(Brackets) /\ Len(f) = Len(s) - 1 /\ s[Len(s)] \in Brackets
         /\ OpenOf(f, K) = OpenOf(s, K) - (IF s[Len(s)] \in K THEN 1 ELSE 0)
<1> DEFINE f == SubSeq(s, 1, Len(s) - 1)
           b == s[Len(s)]
<1>1. f \in Seq(Brackets) /\ Len(f) = Len(s) - 1 /\ b \in Brackets
  BY PopStack
<1>2. s = Append(f, b)
  BY PopStack, LongerIs
<1> HIDE DEF f, b
<1>3. OpenOf(s, K) = OpenOf(f, K) + (IF b \in K THEN 1 ELSE 0)
  BY <1>1, <1>2, OpenOfAppend
<1>4. OpenOf(f, K) \in Nat /\ OpenOf(s, K) \in Nat
  BY <1>1, OpenOfBounds
<1>5. Format!Front(s) = f
  BY DEF Format!Front, f
<1> QED
  BY <1>1, <1>3, <1>4, <1>5 DEF b

\* What a token that may come next does to the open brackets.
Moves(k, b) ==
  \/ \E x \in Opens(k) : b = Append(brackets, x) /\ Len(brackets) < MaxOpen
  \/ /\ brackets # <<>> /\ brackets[Len(brackets)] \in Closes(k)
     /\ b = Format!Front(brackets)
  \/ Opens(k) = {} /\ Closes(k) = {} /\ b = brackets

LEMMA FollowsMoves ==
  ASSUME NEW m, NEW k \in Format!Tokens, NEW there \in Format!Follows(m, k)
  PROVE  /\ Moves(k, there[2])
         /\ k = "." => nxt \in {"name", ")", "]"} /\ there[1] = "member"
         /\ k = "number" => m \in {"statement", "operand"}
<1>1. \A x \in Format!Opened("(") \cup Format!Opened("if") :
         x \in {Append(brackets, "("), Append(brackets, "if")} /\ Len(brackets) < MaxOpen
  BY DEF Format!Opened
<1>2. \A x \in Format!Opened("lbrace") \cup Format!Opened("init") :
         x \in {Append(brackets, "lbrace"), Append(brackets, "init")} /\ Len(brackets) < MaxOpen
  BY DEF Format!Opened
<1>3. \A x \in Format!Opened("[") : x = Append(brackets, "[") /\ Len(brackets) < MaxOpen
  BY DEF Format!Opened
<1>4. \A x : x # "lbrace" /\ Format!Top = x => brackets # <<>> /\ brackets[Len(brackets)] = x
  BY DEF Format!Top, Format!Last
<1>5. brackets # <<>> => Format!Top = brackets[Len(brackets)]
  BY DEF Format!Top, Format!Last
<1> USE DEF Format!Follows
<1>6. CASE k = "lbrace"
  <2>1. /\ Opens(k) = {"lbrace", "init"} /\ there[2] \in Format!Opened("lbrace") \cup Format!Opened("init")
    BY <1>6 DEF Opens, Format!Nested, Format!PrefixOps, Format!Eof
  <2> QED
    BY <1>2, <1>6, <2>1 DEF Moves
<1>7. CASE k = "("
  <2>1. /\ Opens(k) = {"(", "if"} /\ there[2] \in Format!Opened("(") \cup Format!Opened("if")
    BY <1>7 DEF Opens, Format!Nested, Format!PrefixOps, Format!Eof
  <2> QED
    BY <1>1, <1>7, <2>1 DEF Moves
<1>8. CASE k = "["
  <2>1. /\ Opens(k) = {"["} /\ there[2] \in Format!Opened("[")
    BY <1>8 DEF Opens, Format!Nested, Format!PrefixOps, Format!Eof
  <2> QED
    BY <1>3, <1>8, <2>1 DEF Moves
<1>9. CASE k = "rbrace"
  <2>1. /\ Closes(k) = {"lbrace", "init"} /\ there[2] = Format!Front(brackets)
        /\ (Format!Top = "lbrace" /\ brackets # <<>>) \/ Format!Top = "init"
    BY <1>9 DEF Closes, Format!Closing, Format!PrefixOps, Format!Eof
  <2> QED
    BY <1>4, <1>5, <1>9, <2>1 DEF Moves
<1>10. CASE k = ")"
  <2>1. /\ Closes(k) = {"(", "if"} /\ there[2] = Format!Front(brackets)
        /\ Format!Top \in {"(", "if"}
    BY <1>10 DEF Closes, Format!Closing, Format!PrefixOps, Format!Eof
  <2> QED
    BY <1>4, <1>10, <2>1 DEF Moves
<1>11. CASE k = "]"
  <2>1. Closes(k) = {"["} /\ there[2] = Format!Front(brackets) /\ Format!Top = "["
    BY <1>11 DEF Closes, Format!Closing, Format!PrefixOps, Format!Eof
  <2> QED
    BY <1>4, <1>11, <2>1 DEF Moves
<1>12. CASE k \notin {"lbrace", "rbrace", "(", ")", "[", "]"}
  <2>1. Opens(k) = {} /\ Closes(k) = {}
    BY <1>12 DEF Opens, Closes
  <2>2. \A x : Format!Here(x) = {x} \X {brackets}
    BY DEF Format!Here
  <2>3. \E y : there \in Format!Here(y)
    BY <1>12 DEF Format!PrefixOps, Format!Eof
  <2>4. k = "." => nxt \in {"name", ")", "]"} /\ there \in Format!Here("member")
    BY <1>12 DEF Format!PrefixOps, Format!Eof
  <2>5. k = "number" => m \in {"statement", "operand"}
    BY <1>12 DEF Format!PrefixOps, Format!Eof
  <2> QED
    BY <2>1, <2>2, <2>3, <2>4, <2>5 DEF Moves
<1> QED
  BY <1>6, <1>7, <1>8, <1>9, <1>10, <1>11, <1>12

-----------------------------------------------------------------------------
(* The invariant.                                                          *)

Turn(k, K) ==
  IF Opens(k) = K THEN 1 ELSE IF Closes(k) = K THEN -1 ELSE 0
Curly == {"lbrace", "init"}
Round == {"(", "if"}

\* The two counters are the numbers of brackets open before cur; brackets knows cur
\* and nxt already.
Counted ==
  /\ brackets \in Seq(Brackets) /\ Len(brackets) <= MaxOpen
  /\ indent_ \in 0 .. MaxOpen /\ paren_depth_ \in 0 .. MaxOpen
  /\ indent_ + Turn(cur, Curly) + Turn(nxt, Curly) = OpenOf(brackets, Curly)
  /\ paren_depth_ + Turn(cur, Round) + Turn(nxt, Round) = OpenOf(brackets, Round)
  /\ nxt \in {"lbrace", "("} =>
       brackets # <<>> /\ brackets[Len(brackets)] \in Opens(nxt)
  /\ nxt \in {"rbrace", ")"} => Len(brackets) < MaxOpen

\* What the grammar, the lines of directives and the texts that are left out tell of
\* neighbouring tokens.
Neighbours ==
  /\ cur \in Format!Tokens \cup {"begin"} /\ nxt \in Format!Tokens \cup {"begin"}
  /\ new_line \in BOOLEAN /\ on_directive \in BOOLEAN
  /\ nxt = "#if" => new_line
  /\ cur = "#if" => on_directive
  /\ on_directive /\ ~new_line /\ nxt # Format!Eof => nxt \in Format!OfDirective
  /\ on_directive /\ cur \notin {"#if", Format!Eof} => cur \in Format!OfDirective
  /\ nxt = "." => cur \in {"name", ")", "]"} /\ expected = "member"
  /\ cur = "." => nxt # "number"
  /\ cur = "-" /\ nxt \in {"-", "--"} => Format!isValueEnd(prev_kind_)
  /\ <<prev_kind_, cur>> \notin {<<"number", ".">>, <<".", "number">>}
  /\ nxt = "begin" => cur = "begin" /\ new_line
  /\ cur = "begin" => prev_kind_ = Format!Eof /\ ~on_directive

\* What has been written lets cur be written: it is behind no comment, on the line of
\* a directive only if cur is, and no sign that cur would join is at its end.
Written ==
  /\ Finished(out)
  /\ cur = "begin" => out.tail # "text" /\ out.text = "code" /\ ~out.directive
  /\ cur # Format!Eof =>
       /\ out.text = "comment" => cur = "rbrace"
       /\ out.directive => (on_directive /\ cur # "#if") \/ cur \in Format!Directives
       /\ on_directive /\ cur # "#if" => out.directive
       /\ out.tail = "text" => /\ prev_kind_ \notin {"<", ":"}
                               /\ ~(prev_kind_ = "-" /\ cur \in {"-", "--"})

FormatInv == Counted /\ Neighbours /\ Written

LEMMA FormatInit == ASSUME Format!Init PROVE FormatInv
<1> USE DEF Format!Init
<1>1. brackets \in Seq(Brackets) /\ Len(brackets) = 0 /\ OpenOf(brackets, Curly) = 0
      /\ OpenOf(brackets, Round) = 0
  <2>1. brackets \in Seq(Brackets) /\ Len(brackets) = 0
    OBVIOUS
  <2>2. \A K : OpenOf(brackets, K) \in Nat /\ OpenOf(brackets, K) <= Len(brackets)
    BY <2>1, OpenOfBounds
  <2>3. \A K : OpenOf(brackets, K) = 0
    BY <2>1, <2>2
  <2> QED
    BY <2>1, <2>3
<1>2. Turn("begin", Curly) = 0 /\ Turn("begin", Round) = 0
  BY DEF Turn, Opens, Closes, Curly, Round
<1>3. Counted
  <2>1. MaxOpen \in Nat
    BY FormatAssumption
  <2>2. cur = "begin" /\ nxt = "begin" /\ indent_ = 0 /\ paren_depth_ = 0
    OBVIOUS
  <2> QED
    BY <1>1, <1>2, <2>1, <2>2 DEF Counted
<1>4. Neighbours
  BY DEF Neighbours, Format!Eof
<1>5. Written
  <2>1. out \in Format!Outputs
    BY FormatAssumption DEF Format!Outputs, Format!Tails
  <2> QED
    BY <2>1 DEF Written, Finished, Format!Eof
<1> QED
  BY <1>3, <1>4, <1>5 DEF FormatInv

\* The next token, after a step that has written cur.
LEMMA ReadCounts ==
  ASSUME Counted, Neighbours, NEW k \in Format!Tokens, Format!Read(k),
         indent_' = indent_ + Turn(cur, Curly), paren_depth_' = paren_depth_ + Turn(cur, Round)
  PROVE  Counted'
<1> DEFINE B == brackets
           L == Len(brackets)
<1>1. PICK m : \E there \in Format!Follows(m, k) : expected' = there[1] /\ brackets' = there[2]
  BY DEF Format!Read
<1>2. Moves(k, brackets')
  BY <1>1, FollowsMoves
<1>3. cur' = nxt /\ nxt' = k
  BY DEF Format!Read
<1>4. MaxOpen \in Nat
  BY FormatAssumption
<1>5. /\ B \in Seq(Brackets) /\ L \in Nat /\ L <= MaxOpen
      /\ indent_ \in Int /\ paren_depth_ \in Int
      /\ indent_' + Turn(nxt, Curly) = OpenOf(B, Curly)
      /\ paren_depth_' + Turn(nxt, Round) = OpenOf(B, Round)
  BY DEF Counted
<1>6. \A K : OpenOf(B, K) \in Nat /\ OpenOf(B, K) <= L
  BY <1>5, OpenOfBounds
<1>7. \A x : Turn(x, Curly) = (IF x = "lbrace" THEN 1 ELSE IF x = "rbrace" THEN -1 ELSE 0)
             /\ Turn(x, Round) = (IF x = "(" THEN 1 ELSE IF x = ")" THEN -1 ELSE 0)
  BY DEF Turn, Opens, Closes, Curly, Round
<1>8. indent_' \in 0 .. MaxOpen
  <2>1. nxt = "lbrace" => OpenOf(B, Curly) # 0
    <3>1. nxt = "lbrace" => B # <<>> /\ B[L] \in Curly
      BY DEF Counted, Opens, Curly
    <3>2. B # <<>> => L \in DOMAIN B
      BY <1>5
    <3> QED
      BY <1>5, <3>1, <3>2, OpenOfBounds
  <2>2. nxt = "rbrace" => L < MaxOpen
    BY DEF Counted
  <2>3. OpenOf(B, Curly) \in Nat /\ OpenOf(B, Curly) <= L
    BY <1>6
  <2>4. indent_' \in Int /\ Turn(nxt, Curly) \in Int
    BY <1>5, <1>7
  <2> HIDE DEF B, L
  <2> QED
    BY <1>4, <1>5, <1>7, <2>1, <2>2, <2>3, <2>4
<1>9. paren_depth_' \in 0 .. MaxOpen
  <2>1. nxt = "(" => OpenOf(B, Round) # 0
    <3>1. nxt = "(" => B # <<>> /\ B[L] \in Round
      BY DEF Counted, Opens, Round
    <3>2. B # <<>> => L \in DOMAIN B
      BY <1>5
    <3> QED
      BY <1>5, <3>1, <3>2, OpenOfBounds
  <2>2. nxt = ")" => L < MaxOpen
    BY DEF Counted
  <2>3. OpenOf(B, Round) \in Nat /\ OpenOf(B, Round) <= L
    BY <1>6
  <2>4. paren_depth_' \in Int /\ Turn(nxt, Round) \in Int
    BY <1>5, <1>7
  <2> HIDE DEF B, L
  <2> QED
    BY <1>4, <1>5, <1>7, <2>1, <2>2, <2>3, <2>4
<1> HIDE DEF B, L
<1>10. /\ brackets' \in Seq(Brackets) /\ Len(brackets') <= MaxOpen
       /\ OpenOf(brackets', Curly) = OpenOf(B, Curly) + Turn(k, Curly)
       /\ OpenOf(brackets', Round) = OpenOf(B, Round) + Turn(k, Round)
       /\ k \in {"lbrace", "("} => brackets' # <<>> /\ brackets'[Len(brackets')] \in Opens(k)
       /\ k \in {"rbrace", ")"} => Len(brackets') < MaxOpen
  <2>1. CASE \E x \in Opens(k) : brackets' = Append(brackets, x) /\ Len(brackets) < MaxOpen
    <3>1. PICK x \in Opens(k) : brackets' = Append(brackets, x) /\ Len(brackets) < MaxOpen
      BY <2>1
    <3>2. /\ x \in Brackets /\ k \notin {"rbrace", ")"}
          /\ (x \in Curly <=> k = "lbrace") /\ (x \in Round <=> k = "(")
      BY <3>1 DEF Opens, Brackets, Curly, Round
    <3>3. /\ Append(B, x) \in Seq(Brackets) /\ Len(Append(B, x)) = L + 1
          /\ Append(B, x)[L + 1] = x
      <4>1. B \in Seq(Brackets) /\ x \in Brackets
        BY <1>5, <3>2
      <4> QED
        BY <4>1, PushStack DEF B, L
    <3>4. \A K : OpenOf(Append(B, x), K) = OpenOf(B, K) + (IF x \in K THEN 1 ELSE 0)
      BY <1>5, <3>2, OpenOfAppend
    <3>5. k = "rbrace" \/ k = ")" => FALSE
      BY <3>2
    <3>6. Len(brackets') = L + 1 /\ L < MaxOpen /\ brackets' = Append(B, x)
      BY <3>1, <3>3 DEF B, L
    <3>7. L + 1 <= MaxOpen /\ L + 1 # 0
      BY <1>4, <1>5, <3>6
    <3>8. brackets' # <<>> /\ brackets'[Len(brackets')] \in Opens(k)
      BY <3>1, <3>3, <3>6, <3>7
    <3> QED
      BY <1>7, <3>2, <3>3, <3>4, <3>5, <3>6, <3>7, <3>8
  <2>2. CASE /\ brackets # <<>> /\ brackets[Len(brackets)] \in Closes(k)
             /\ brackets' = Format!Front(brackets)
    <3> DEFINE x == brackets[Len(brackets)]
    <3>1. /\ x \in Closes(k) /\ k \notin {"lbrace", "("}
          /\ (x \in Curly <=> k = "rbrace") /\ (x \in Round <=> k = ")")
      BY <2>2 DEF Closes, Curly, Round
    <3> HIDE DEF x
    <3>2. /\ Format!Front(B) \in Seq(Brackets) /\ Len(Format!Front(B)) = L - 1
          /\ \A K : OpenOf(Format!Front(B), K) = OpenOf(B, K) - (IF x \in K THEN 1 ELSE 0)
      BY <1>5, <2>2, OpenOfFront DEF B, L, x
    <3>3. brackets' = Format!Front(B)
      BY <2>2 DEF B
    <3>4. L - 1 < MaxOpen
      BY <1>4, <1>5
    <3>5. L - 1 <= MaxOpen
      BY <1>4, <1>5
    <3>6. OpenOf(B, Curly) \in Int /\ OpenOf(B, Round) \in Int
      BY <1>6
    <3>7. /\ OpenOf(brackets', Curly) = OpenOf(B, Curly) - (IF x \in Curly THEN 1 ELSE 0)
          /\ OpenOf(brackets', Round) = OpenOf(B, Round) - (IF x \in Round THEN 1 ELSE 0)
      BY <3>2, <3>3
    <3> QED
      BY <1>7, <3>1, <3>2, <3>3, <3>4, <3>5, <3>6, <3>7
  <2>3. CASE Opens(k) = {} /\ Closes(k) = {} /\ brackets' = brackets
    <3>1. k \notin {"lbrace", "(", "rbrace", ")"}
      BY <2>3 DEF Opens, Closes
    <3>2. OpenOf(B, Curly) \in Int /\ OpenOf(B, Round) \in Int
      BY <1>6
    <3>3. brackets' = B /\ Turn(k, Curly) = 0 /\ Turn(k, Round) = 0
      BY <1>7, <2>3, <3>1 DEF B
    <3>4. OpenOf(B, Curly) = OpenOf(B, Curly) + 0 /\ OpenOf(B, Round) = OpenOf(B, Round) + 0
      BY <3>2
    <3>5. brackets' \in Seq(Brackets) /\ Len(brackets') <= MaxOpen
      BY <1>5, <3>3 DEF B, L
    <3> QED
      BY <3>1, <3>3, <3>4, <3>5
  <2> QED
    BY <1>2, <2>1, <2>2, <2>3 DEF Moves
<1>11. /\ indent_' + Turn(nxt, Curly) + Turn(k, Curly) = OpenOf(brackets', Curly)
       /\ paren_depth_' + Turn(nxt, Round) + Turn(k, Round) = OpenOf(brackets', Round)
  BY <1>5, <1>10
<1>12. /\ OpenOf(brackets, Curly)' = OpenOf(brackets', Curly)
       /\ OpenOf(brackets, Round)' = OpenOf(brackets', Round)
       /\ Turn(cur, Curly)' = Turn(nxt, Curly) /\ Turn(nxt, Curly)' = Turn(k, Curly)
       /\ Turn(cur, Round)' = Turn(nxt, Round) /\ Turn(nxt, Round)' = Turn(k, Round)
       /\ Opens(nxt)' = Opens(k)
  BY <1>3 DEF OpenOf, Turn, Opens, Closes, Curly, Round
<1> QED
  BY <1>3, <1>8, <1>9, <1>10, <1>11, <1>12 DEF Counted

LEMMA ReadNeighbours ==
  ASSUME Neighbours, NEW k \in Format!Tokens, Format!Read(k), new_line' \in BOOLEAN,
         "signs" \notin Awkward,
         prev_kind_' = IF cur = "begin" THEN prev_kind_ ELSE cur
  PROVE  Neighbours'
<1>1. cur' = nxt /\ nxt' = k /\ on_directive' = Format!NextOnDirective /\ nxt # Format!Eof
  BY DEF Format!Read
<1> DEFINE m == IF Format!NextOnDirective /\ new_line' THEN "statement" ELSE expected
<1>2. PICK there \in Format!Follows(m, k) : expected' = there[1] /\ brackets' = there[2]
  BY DEF Format!Read
<1>3. /\ k = "." => nxt \in {"name", ")", "]"} /\ expected' = "member"
      /\ k = "number" => m \in {"statement", "operand"}
  BY <1>2, FollowsMoves
<1>4. /\ k \in Format!Directives => new_line'
      /\ Format!NextOnDirective /\ new_line' => expected = "operator"
      /\ Format!NextOnDirective /\ ~new_line' => k \in Format!OfDirective
      /\ ~(nxt = "-" /\ k \in {"-", "--"} /\ ~Format!isValueEnd(cur))
  BY DEF Format!Read, Format!SignAfterSign
<1>5. Format!NextOnDirective = IF new_line THEN nxt = "#if" ELSE on_directive
  BY DEF Format!NextOnDirective
<1>6. /\ cur \in Format!Tokens \cup {"begin"} /\ nxt \in Format!Tokens \cup {"begin"}
      /\ new_line \in BOOLEAN /\ on_directive \in BOOLEAN
  BY DEF Neighbours
<1>7. on_directive' \in BOOLEAN
  BY <1>1, <1>5, <1>6
<1>8. nxt' = "#if" => new_line'
  BY <1>1, <1>4 DEF Format!Directives
<1>9. cur' = "#if" => on_directive'
  BY <1>1, <1>5 DEF Neighbours
<1>10. on_directive' /\ ~new_line' => nxt' \in Format!OfDirective
  BY <1>1, <1>4
<1>11. on_directive' /\ cur' # "#if" => cur' \in Format!OfDirective
  <2> SUFFICES ASSUME on_directive', cur' # "#if"
               PROVE  nxt \in Format!OfDirective
    BY <1>1
  <2>1. ~new_line /\ on_directive
    BY <1>1, <1>5, <1>6
  <2> QED
    BY <1>1, <2>1 DEF Neighbours
<1>12. nxt' = "." => cur' \in {"name", ")", "]"} /\ expected' = "member"
  BY <1>1, <1>3
<1>13. cur' = "." => nxt' # "number"
  <2> SUFFICES ASSUME nxt = ".", k = "number"
               PROVE  FALSE
    BY <1>1
  <2>1. expected = "member"
    BY DEF Neighbours
  <2> QED
    BY <1>3, <1>4, <2>1
<1>14. Format!isValueEnd(prev_kind_)' = Format!isValueEnd(prev_kind_')
  BY DEF Format!isValueEnd
<1>15. cur' = "-" /\ nxt' \in {"-", "--"} => Format!isValueEnd(prev_kind_')
  <2> SUFFICES ASSUME nxt = "-", k \in {"-", "--"}
               PROVE  Format!isValueEnd(prev_kind_')
    BY <1>1
  <2>1. Format!isValueEnd(cur)
    BY <1>4
  <2>2. cur # "begin"
    BY <2>1 DEF Format!isValueEnd
  <2> QED
    BY <2>1, <2>2
<1>16. <<prev_kind_', cur'>> \notin {<<"number", ".">>, <<".", "number">>}
  <2>1. CASE cur = "begin"
    <3>1. prev_kind_' = "eof"
      BY <2>1 DEF Neighbours, Format!Eof
    <3> QED
      BY <3>1
  <2>2. CASE cur # "begin"
    <3>1. nxt = "." => cur # "number"
      BY DEF Neighbours
    <3>2. cur = "." => nxt # "number"
      BY DEF Neighbours
    <3> QED
      BY <1>1, <2>2, <3>1, <3>2
  <2> QED
    BY <2>1, <2>2
<1>17. nxt' # "begin"
  BY <1>1 DEF Format!Tokens, Format!Operands, Format!PrefixOps, Format!Directives, Format!Words,
              Format!Eof
<1>18. cur' = "begin" => prev_kind_' = Format!Eof /\ ~on_directive'
  <2> SUFFICES ASSUME nxt = "begin"
               PROVE  prev_kind_' = Format!Eof /\ ~on_directive'
    BY <1>1
  <2>1. cur = "begin" /\ new_line
    BY DEF Neighbours
  <2>2. prev_kind_ = Format!Eof /\ ~on_directive
    BY <2>1 DEF Neighbours
  <2> QED
    BY <1>1, <1>5, <2>1, <2>2
<1>19. cur' \in Format!Tokens \cup {"begin"} /\ nxt' \in Format!Tokens \cup {"begin"}
  BY <1>1, <1>6
<1> QED
  BY <1>7, <1>8, <1>9, <1>10, <1>11, <1>12, <1>13, <1>14, <1>15, <1>16, <1>17, <1>18, <1>19
  DEF Neighbours, Format!Eof

-----------------------------------------------------------------------------
(* The steps.                                                              *)

\* What the lines between two tokens are, where the texts left out are.
LEMMA RestIs ==
  ASSUME Neighbours, NEW r \in Format!Rests, "directives" \notin Awkward, "comments" \notin Awkward
  PROVE  /\ r.comment \in BOOLEAN /\ (r.comment => cur = "semicolon")
         /\ r.gap \in Format!Gaps /\ r.gap.tail \in 0 .. MaxNest
         /\ ~Format!Reopens(r.gap) /\ ~Format!WithinDropped(r.gap) /\ ~Format!EndsAtToken(r.gap)
         /\ r.gap.tail # 0 => cur # "#define"
         /\ ~new_line => r.gap.lines = <<>>
         /\ on_directive /\ new_line /\ nxt \notin Format!Directives \cup {Format!Eof}
              => Format!Starts(r.gap) # {}
<1> DEFINE none == [tail |-> 0, lines |-> <<>>]
<1>1. /\ r.comment \in (IF cur = "semicolon" THEN BOOLEAN ELSE {FALSE})
      /\ r.gap \in (IF new_line THEN Format!Gaps ELSE {none})
      /\ ~Format!AfterDirective(r.gap) /\ ~Format!OpenCopied(r.gap)
  BY DEF Format!Rests
<1>2. none \in Format!Gaps
  <2>1. <<>> \in Format!SeqOf(Format!LineKinds, MaxGap)
    <3>1. 0 \in 0 .. MaxGap /\ <<>> \in [1 .. 0 -> Format!LineKinds]
      BY FormatAssumption
    <3> QED
      BY <3>1 DEF Format!SeqOf
  <2>2. Format!Commented(none)
    BY DEF Format!Commented
  <2>3. none \in [tail : 0 .. MaxNest, lines : Format!SeqOf(Format!LineKinds, MaxGap)]
    BY <2>1, FormatAssumption
  <2> HIDE DEF none
  <2> QED
    BY <2>2, <2>3 DEF Format!Gaps
<1>3. none.lines = <<>>
  OBVIOUS
<1>4. r.gap \in Format!Gaps
  BY <1>1, <1>2
<1>5. ~new_line => r.gap.lines = <<>>
  BY <1>1, <1>3
<1>6. r.gap.tail \in 0 .. MaxNest
  BY <1>4 DEF Format!Gaps
<1> HIDE DEF none
<1> QED
  BY <1>1, <1>4, <1>5, <1>6 DEF Format!AfterDirective, Format!OpenCopied

\* Where cur is to be written.
LEMMA WrittenHere ==
  ASSUME FormatInv, cur \notin {"begin", Format!Eof}
  PROVE  /\ Format!Reached \in Format!Outputs
         /\ Format!Reached.text = "code" /\ Format!Reached.nest = 0
         /\ Format!Reached.directive = (on_directive /\ cur # "#if")
         /\ Format!Reached.tail = "text" => ~Format!Glued(prev_kind_, cur)
<1> DEFINE r == Format!Reached
<1>1. Finished(out) /\ cur \in Format!Tokens
  BY DEF FormatInv, Written, Neighbours
<1>2. /\ out.text = "comment" => cur = "rbrace"
      /\ out.directive => (on_directive /\ cur # "#if") \/ cur \in Format!Directives
      /\ on_directive /\ cur # "#if" => out.directive
      /\ out.tail = "text" => /\ prev_kind_ \notin {"<", ":"}
                              /\ ~(prev_kind_ = "-" /\ cur \in {"-", "--"})
      /\ out.text \in {"code", "comment"} /\ out.directive \in BOOLEAN
  BY DEF FormatInv, Written, Finished, Format!Outputs
<1>3. on_directive \in BOOLEAN /\ (on_directive /\ cur # "#if" => cur \in Format!OfDirective)
  BY DEF FormatInv, Neighbours
<1>4. <<prev_kind_, cur>> \notin {<<"number", ".">>, <<".", "number">>}
  BY DEF FormatInv, Neighbours
<1>5. CASE cur \in Format!Directives \cup {"rbrace"}
  <2>1. r \in Format!Outputs /\ r.tail # "text" /\ r.text = "code" /\ ~r.directive /\ r.nest = 0
    BY <1>1, <1>5, BeginsLine
  <2>2. ~(on_directive /\ cur # "#if")
    BY <1>3, <1>5 DEF Format!OfDirective, Format!Directives
  <2>3. r.directive \in BOOLEAN
    BY <2>1 DEF Format!Outputs
  <2> HIDE DEF r
  <2> QED
    BY <1>3, <2>1, <2>2, <2>3 DEF r
<1>6. CASE cur \notin Format!Directives \cup {"rbrace"}
  <2>1. /\ r \in Format!Outputs /\ r.text = out.text /\ r.directive = out.directive /\ r.nest = 0
        /\ r.tail = "text" => out.tail = "text"
        /\ r.tail = "text" => cur # "<"
        /\ r.tail = "text" => ~(prev_kind_ = "&" /\ cur = "&")
        /\ r.tail = "text" =>
             ~(prev_kind_ \in Format!Words \cup Format!Directives /\ cur \in Format!Words)
    BY <1>1, <1>6, KeepsLine
  <2> HIDE DEF r
  <2>2. r.text = "code"
    BY <1>2, <1>6, <2>1
  <2>3. r.directive = (on_directive /\ cur # "#if")
    BY <1>2, <1>3, <1>6, <2>1
  <2>4. r.tail = "text" => ~Format!Glued(prev_kind_, cur)
    BY <1>2, <1>4, <2>1 DEF Format!Glued
  <2> QED
    BY <2>1, <2>2, <2>3, <2>4 DEF r
<1> QED
  BY <1>5, <1>6

LEMMA CountersTurn ==
  ASSUME Format!Write, Counted
  PROVE  indent_' = indent_ + Turn(cur, Curly) /\ paren_depth_' = paren_depth_ + Turn(cur, Round)
<1>1. /\ Turn(cur, Curly) = (IF cur = "lbrace" THEN 1 ELSE IF cur = "rbrace" THEN -1 ELSE 0)
      /\ Turn(cur, Round) = (IF cur = "(" THEN 1 ELSE IF cur = ")" THEN -1 ELSE 0)
  BY DEF Turn, Opens, Closes, Curly, Round
<1>2. indent_ \in Int /\ paren_depth_ \in Int
  BY DEF Counted
<1>3. /\ indent_' = CASE cur = "lbrace" -> indent_ + 1 [] cur = "rbrace" -> indent_ - 1
                      [] OTHER -> indent_
      /\ paren_depth_' = CASE cur = "(" -> paren_depth_ + 1 [] cur = ")" -> paren_depth_ - 1
                           [] OTHER -> paren_depth_
  BY DEF Format!Write
<1> QED
  BY <1>1, <1>2, <1>3

\* A turn of the loop leaves the output ready for the next token.
LEMMA WriteOutput ==
  ASSUME FormatInv, Format!Write, "directives" \notin Awkward, "comments" \notin Awkward
  PROVE  /\ Finished(out')
         /\ out'.text = "comment" => nxt \in {"rbrace", Format!Eof}
         /\ out'.directive =>
              /\ on_directive
              /\ new_line => nxt \in Format!Directives \cup {Format!Eof}
         /\ on_directive /\ ~new_line => out'.directive
         /\ out'.tail = "text" => /\ cur \notin {"<", ":"}
                                  /\ ~(cur = "-" /\ nxt \in {"-", "--"})
<1> DEFINE o == Format!emitRaw(Format!Reached)
<1>1. PICK r \in Format!Rests :
        out' = Format!emitBlockCommentsBefore(Format!AfterText(o, r.comment, r.gap.tail), r.gap)
  BY DEF Format!Write
<1> DEFINE a == Format!AfterText(o, r.comment, r.gap.tail)
<1>2. cur \notin {"begin", Format!Eof} /\ cur \in Format!Tokens /\ Neighbours
  BY DEF Format!Write, FormatInv, Neighbours
<1>3. /\ Format!Reached \in Format!Outputs
      /\ Format!Reached.text = "code" /\ Format!Reached.nest = 0
      /\ Format!Reached.directive = (on_directive /\ cur # "#if")
  BY <1>2, WrittenHere
<1>4. /\ o \in Format!Outputs /\ o.tail = "text" /\ ~o.at_line_start_ /\ o.text = "code"
      /\ o.directive = (on_directive /\ cur # "#if") /\ o.nest = 0
  BY <1>3, Emits
<1>5. /\ r.comment \in BOOLEAN /\ (r.comment => cur = "semicolon")
      /\ r.gap \in Format!Gaps /\ r.gap.tail \in 0 .. MaxNest
      /\ ~Format!Reopens(r.gap) /\ ~Format!WithinDropped(r.gap) /\ ~Format!EndsAtToken(r.gap)
      /\ r.gap.tail # 0 => cur # "#define"
      /\ ~new_line => r.gap.lines = <<>>
      /\ on_directive /\ new_line /\ nxt \notin Format!Directives \cup {Format!Eof}
           => Format!Starts(r.gap) # {}
  BY <1>2, RestIs
<1> HIDE DEF o
<1>6. /\ Finished(a)
      /\ a.text = "comment" => nxt \in {"rbrace", "eof"}
      /\ a.directive => o.directive \/ cur = "#if"
      /\ cur \in Format!OfDirective => a.directive = o.directive
      /\ cur = "#if" => a.directive
      /\ a.tail = "text" => /\ cur \notin {"<", ":"}
                            /\ cur = "-" => ~Format!isValueEnd(prev_kind_)
  <2>1. cur # "eof"
    BY <1>2 DEF Format!Eof
  <2>2. /\ r.comment \in BOOLEAN /\ r.gap.tail \in 0 .. MaxNest
        /\ r.comment => cur = "semicolon"
        /\ r.gap.tail # 0 => cur # "#define"
    BY <1>5
  <2> QED
    BY <1>2, <1>4, <2>1, <2>2, AfterIs
<1> HIDE DEF a
<1>7. \/ OnNewLine(out', 0) /\ r.gap.lines # <<>>
      \/ out' = a /\ Format!Starts(r.gap) = {}
  <2>1. out' = Format!emitBlockCommentsBefore(a, r.gap)
    BY <1>1 DEF a
  <2> QED
    BY <1>5, <1>6, <2>1, GapKeeps
<1>8. /\ on_directive \in BOOLEAN /\ new_line \in BOOLEAN
      /\ cur = "#if" => on_directive
      /\ on_directive /\ cur # "#if" => cur \in Format!OfDirective
      /\ cur = "-" /\ nxt \in {"-", "--"} => Format!isValueEnd(prev_kind_)
  BY <1>2 DEF Neighbours
<1>9. CASE OnNewLine(out', 0) /\ r.gap.lines # <<>>
  <2>1. Finished(out')
    BY <1>9 DEF OnNewLine, Finished
  <2>2. out'.text = "code" /\ ~out'.directive /\ out'.tail = "newline" /\ new_line
    BY <1>5, <1>8, <1>9 DEF OnNewLine
  <2> QED
    BY <2>1, <2>2
<1>10. CASE out' = a /\ Format!Starts(r.gap) = {}
  <2>1. a.directive => on_directive
    BY <1>4, <1>6, <1>8
  <2>2. on_directive /\ new_line => nxt \in Format!Directives \cup {Format!Eof}
    BY <1>5, <1>10
  <2>3. on_directive => a.directive
    BY <1>4, <1>6, <1>8
  <2> QED
    BY <1>6, <1>8, <1>10, <2>1, <2>2, <2>3 DEF Format!Eof
<1> QED
  BY <1>7, <1>9, <1>10

LEMMA WriteStep ==
  ASSUME FormatInv, Format!Write, Awkward = {}
  PROVE  FormatInv'
<1>1. cur \notin {"begin", Format!Eof} /\ prev_kind_' = cur /\ Counted /\ Neighbours
  BY DEF Format!Write, FormatInv
<1>2. /\ Finished(out')
      /\ out'.text = "comment" => nxt \in {"rbrace", Format!Eof}
      /\ out'.directive =>
           /\ on_directive
           /\ new_line => nxt \in Format!Directives \cup {Format!Eof}
      /\ on_directive /\ ~new_line => out'.directive
      /\ out'.tail = "text" => /\ cur \notin {"<", ":"}
                               /\ ~(cur = "-" /\ nxt \in {"-", "--"})
  BY WriteOutput
<1>3. indent_' = indent_ + Turn(cur, Curly) /\ paren_depth_' = paren_depth_ + Turn(cur, Round)
  BY <1>1, CountersTurn
<1>4. Finished(out)' = Finished(out')
  BY DEF Finished
<1>5. ASSUME new_line' \in BOOLEAN, NEW k \in Format!Tokens, Format!Read(k)
      PROVE  FormatInv'
  <2>1. Counted'
    BY <1>1, <1>3, <1>5, ReadCounts
  <2>2. Neighbours'
    BY <1>1, <1>5, ReadNeighbours
  <2>3. cur' = nxt /\ nxt # Format!Eof /\ on_directive' = Format!NextOnDirective
    BY <1>5 DEF Format!Read
  <2>4. Format!NextOnDirective = IF new_line THEN nxt = "#if" ELSE on_directive
    BY DEF Format!NextOnDirective
  <2>5. /\ new_line \in BOOLEAN /\ on_directive \in BOOLEAN
        /\ nxt = "#if" => new_line
        /\ nxt # "begin"
    BY <1>1 DEF Neighbours
  <2>6. on_directive' /\ nxt # "#if" => on_directive /\ ~new_line
    BY <2>3, <2>4, <2>5
  <2>7. out'.directive => (on_directive' /\ nxt # "#if") \/ nxt \in Format!Directives
    BY <1>2, <2>3, <2>4, <2>5
  <2>8. Written'
    BY <1>1, <1>2, <1>4, <2>3, <2>5, <2>6, <2>7 DEF Written, Format!Eof, Format!Directives
  <2> QED
    BY <2>1, <2>2, <2>8 DEF FormatInv
<1>6. CASE nxt = Format!Eof /\ cur' = Format!Eof
           /\ UNCHANGED <<nxt, new_line, expected, brackets, on_directive>>
  <2>1. Written'
    BY <1>2, <1>4, <1>6 DEF Written, Format!Eof
  <2>2. Neighbours'
    BY <1>1, <1>6 DEF Neighbours, Format!Eof, Format!OfDirective, Format!Tokens
  <2>3. Counted'
    <3>1. \A x, K : x = "eof" => Turn(x, Curly) = 0 /\ Turn(x, Round) = 0
      BY DEF Turn, Opens, Closes, Curly, Round
    <3>2. /\ brackets \in Seq(Brackets) /\ Len(brackets) <= MaxOpen /\ Len(brackets) \in Nat
          /\ indent_' + Turn(nxt, Curly) = OpenOf(brackets, Curly)
          /\ paren_depth_' + Turn(nxt, Round) = OpenOf(brackets, Round)
          /\ indent_ \in Int /\ paren_depth_ \in Int
          /\ Turn(cur, Curly) \in Int /\ Turn(cur, Round) \in Int
      BY <1>1, <1>3 DEF Counted, Turn
    <3>3. /\ OpenOf(brackets, Curly) \in 0 .. MaxOpen /\ OpenOf(brackets, Round) \in 0 .. MaxOpen
      <4>1. \A K : OpenOf(brackets, K) \in Nat /\ OpenOf(brackets, K) <= Len(brackets)
        BY <3>2, OpenOfBounds
      <4>2. MaxOpen \in Nat
        BY FormatAssumption
      <4> QED
        BY <3>2, <4>1, <4>2
    <3>4. nxt = "eof" /\ cur' = "eof" /\ nxt' = "eof" /\ brackets' = brackets
      BY <1>6 DEF Format!Eof
    <3>5. Turn(nxt, Curly) = 0 /\ Turn(nxt, Round) = 0
      BY <3>1, <3>4
    <3>6. indent_' \in Int /\ paren_depth_' \in Int
      BY <1>3, <3>2
    <3>7. indent_' = OpenOf(brackets, Curly) /\ paren_depth_' = OpenOf(brackets, Round)
      BY <3>2, <3>5, <3>6
    <3>8. /\ Turn(cur, Curly)' = 0 /\ Turn(nxt, Curly)' = 0
          /\ Turn(cur, Round)' = 0 /\ Turn(nxt, Round)' = 0
          /\ OpenOf(brackets, Curly)' = OpenOf(brackets, Curly)
          /\ OpenOf(brackets, Round)' = OpenOf(brackets, Round)
      BY <3>4 DEF Turn, Opens, Closes, Curly, Round, OpenOf
    <3> QED
      BY <3>2, <3>3, <3>4, <3>6, <3>7, <3>8 DEF Counted
  <2> QED
    BY <2>1, <2>2, <2>3 DEF FormatInv
<1> QED
  BY <1>5, <1>6 DEF Format!Write

LEMMA BeginStep ==
  ASSUME FormatInv, Format!Begin, Awkward = {}
  PROVE  FormatInv'
<1>1. /\ cur = "begin" /\ Counted /\ Neighbours /\ prev_kind_ = Format!Eof /\ ~on_directive
      /\ new_line' \in BOOLEAN /\ UNCHANGED <<prev_kind_, indent_, paren_depth_>>
  BY DEF Format!Begin, FormatInv, Neighbours
<1>2. PICK k \in Format!Tokens : Format!Read(k)
  BY DEF Format!Begin
<1>3. Finished(out) /\ out.tail # "text" /\ out.text = "code" /\ ~out.directive
  BY <1>1 DEF FormatInv, Written
<1>4. /\ Finished(out') /\ out'.tail # "text" /\ out'.text = "code" /\ ~out'.directive
  <2>1. PICK r \in Format!Rests :
          out' = IF nxt = "begin" THEN out ELSE Format!emitBlockCommentsBefore(out, r.gap)
    BY DEF Format!Begin
  <2>2. /\ r.gap \in Format!Gaps /\ ~Format!EndsAtToken(r.gap)
        /\ ~Format!Reopens(r.gap) /\ ~Format!WithinDropped(r.gap)
    BY <1>1, RestIs
  <2>3. \/ OnNewLine(Format!emitBlockCommentsBefore(out, r.gap), 0)
        \/ Format!emitBlockCommentsBefore(out, r.gap) = out
    BY <1>3, <2>2, GapKeeps
  <2>4. OnNewLine(out', 0) \/ out' = out
    BY <2>1, <2>3
  <2> QED
    BY <1>3, <2>4 DEF OnNewLine, Finished
<1>5. Counted'
  <2>1. Turn(cur, Curly) = 0 /\ Turn(cur, Round) = 0
    BY <1>1 DEF Turn, Opens, Closes, Curly, Round
  <2>2. indent_ \in Int /\ paren_depth_ \in Int
    BY <1>1 DEF Counted
  <2>3. indent_' = indent_ + Turn(cur, Curly) /\ paren_depth_' = paren_depth_ + Turn(cur, Round)
    BY <1>1, <2>1, <2>2
  <2> QED
    BY <1>1, <1>2, <2>3, ReadCounts
<1>6. Neighbours'
  BY <1>1, <1>2, ReadNeighbours
<1>7. cur' = nxt /\ on_directive' = Format!NextOnDirective
  BY <1>2 DEF Format!Read
<1>8. on_directive' => nxt = "#if"
  BY <1>1, <1>7 DEF Format!NextOnDirective, Neighbours
<1>9. Finished(out)' = Finished(out')
  BY DEF Finished
<1>10. Written'
  BY <1>4, <1>7, <1>8, <1>9 DEF Written
<1> QED
  BY <1>5, <1>6, <1>10 DEF FormatInv

\* Each token is written where it is read again as itself, however deeply brackets and
\* comments are nested and however many lines stand between the tokens; in every text
\* but those that SignAfterSign, AfterDirective and OpenCopied name.  It says nothing of
\* the comments, some of which are dropped.
THEOREM FormattingRoundTripsHolds ==
  ASSUME Awkward = {}
  PROVE  Format!Spec => []FormattingRoundTrips
<1>1. Format!Init => FormatInv
  BY FormatInit
<1>2. FormatInv /\ [Format!Next]_(Format!vars) => FormatInv'
  <2> SUFFICES ASSUME FormatInv, [Format!Next]_(Format!vars)
               PROVE  FormatInv'
    OBVIOUS
  <2>1. CASE Format!Begin
    BY <2>1, BeginStep
  <2>2. CASE Format!Write
    BY <2>2, WriteStep
  <2>3. CASE UNCHANGED Format!vars
    BY <2>3 DEF Format!vars, FormatInv, Counted, Neighbours, Written, Finished, OpenOf, Turn,
                Opens, Closes, Format!isValueEnd
  <2> QED
    BY <2>1, <2>2, <2>3 DEF Format!Next
<1>3. FormatInv => FormattingRoundTrips
  <2> SUFFICES ASSUME FormatInv
               PROVE  FormattingRoundTrips
    OBVIOUS
  <2>1. Format!TypeOK
    BY DEF FormatInv, Counted, Written, Finished, Format!TypeOK
  <2>2. Format!RoundTrips
    <3> SUFFICES ASSUME cur \notin {"begin", Format!Eof}
                 PROVE  /\ Format!Reached.text = "code" /\ Format!Reached.nest = 0
                        /\ Format!Reached.tail = "text" => ~Format!Glued(prev_kind_, cur)
                        /\ Format!Reached.directive <=> (on_directive /\ cur # "#if")
      BY DEF Format!RoundTrips
    <3> QED
      BY WrittenHere
  <2> QED
    BY <2>1, <2>2 DEF FormattingRoundTrips
<1> QED
  BY <1>1, <1>2, <1>3, PTL DEF Format!Spec
=============================================================================
