------------------------------ MODULE SemaEnv -------------------------------
(***************************************************************************)
(* Env, the scope environment of the semantic analyser: a stack of scopes  *)
(* and, beside it, for every name the stack of its declarations, so that   *)
(* lookup need not walk the scopes.  The tables of types are the same two  *)
(* structures again, with the same operations.                             *)
(*                                                                         *)
(* Declarations are numbered in the order Sema makes them; 0 is nullptr.   *)
(***************************************************************************)
EXTENDS Naturals, Sequences, FiniteSetsExt

CONSTANTS
  Names,      \* symbol names
  MaxDecls,   \* bound on declarations
  MaxDepth,   \* bound on nested scopes
  Redeclare   \* whether a nested scope may declare one name twice

ASSUME EnvAssumption == MaxDecls \in Nat /\ MaxDepth \in Nat \ {0} /\ Redeclare \in BOOLEAN

VARIABLES
  scopes,   \* scopes_: what each scope, innermost last, binds
  shadow,   \* shadow_: the declarations of each name, innermost last
  home      \* history: the depth at which each declaration was made

vars == <<scopes, shadow, home>>

Nothing == [n \in Names |-> 0]
Fresh == Len(home) + 1
Depth == Len(scopes)

lookup(n) == IF shadow[n] = <<>> THEN 0 ELSE shadow[n][Len(shadow[n])]

-----------------------------------------------------------------------------
pushScope ==
  /\ Depth < MaxDepth
  /\ scopes' = Append(scopes, Nothing)
  /\ UNCHANGED <<shadow, home>>

\* MUTANT of popScope: the stacks are left as they are.
popScopeKeepsBindings ==
  /\ Depth > 1
  /\ scopes' = SubSeq(scopes, 1, Depth - 1)
  /\ UNCHANGED <<shadow, home>>

\* A name is taken off its stack only if the scope's binding is on top there.
popScope ==
  /\ Depth > 1
  /\ shadow' = [n \in Names |->
                  IF scopes[Depth][n] # 0 /\ lookup(n) = scopes[Depth][n]
                  THEN SubSeq(shadow[n], 1, Len(shadow[n]) - 1)
                  ELSE shadow[n]]
  /\ scopes' = SubSeq(scopes, 1, Depth - 1)
  /\ UNCHANGED home

\* At top level Sema defines a function when it collects the declarations and
\* again when it analyses it, and a user's declaration may replace a builtin's.
define(n) ==
  /\ Len(home) < MaxDecls
  /\ Redeclare \/ Depth = 1 \/ scopes[Depth][n] = 0
  /\ scopes' = [scopes EXCEPT ![Depth][n] = Fresh]
  /\ shadow' = [shadow EXCEPT ![n] = Append(@, Fresh)]
  /\ home' = Append(home, Depth)

\* MUTANT of defineGlobal: the global hides what inner scopes declare.
defineGlobalOnTop(n) ==
  /\ Len(home) < MaxDecls
  /\ Redeclare \/ scopes[1][n] = 0
  /\ scopes' = [scopes EXCEPT ![1][n] = Fresh]
  /\ shadow' = [shadow EXCEPT ![n] = Append(@, Fresh)]
  /\ home' = Append(home, 1)

defineGlobal(n) ==
  /\ Len(home) < MaxDecls
  /\ Redeclare \/ scopes[1][n] = 0
  /\ scopes' = [scopes EXCEPT ![1][n] = Fresh]
  /\ shadow' = [shadow EXCEPT ![n] = <<Fresh>> \o @]
  /\ home' = Append(home, 1)

Init ==
  /\ scopes = <<Nothing>>
  /\ shadow = [n \in Names |-> <<>>]
  /\ home = <<>>

Next == pushScope \/ popScope \/ \E n \in Names : define(n) \/ defineGlobal(n)

Spec == Init /\ [][Next]_vars

-----------------------------------------------------------------------------
(* Properties.                                                             *)

\* The tables bind names to declarations that exist.
TypeOK ==
  /\ home \in Seq(1..MaxDepth)
  /\ scopes \in Seq([Names -> 0..Len(home)])
  /\ Depth \in 1..MaxDepth
  /\ shadow \in [Names -> Seq(1..Len(home))]

\* lookup finds, without walking the scopes, the binding of the innermost scope
\* that has one.
Binding(n) == {k \in 1..Depth : scopes[k][n] # 0}
LookupIsInnermost ==
  \A n \in Names :
    lookup(n) = IF Binding(n) = {} THEN 0 ELSE scopes[Max(Binding(n))][n]

\* popScope takes with it every declaration of its scope: what a name means
\* afterwards was declared in a scope that is still open.
PopForgets ==
  [][Len(scopes') < Depth =>
       \A n \in Names : lookup(n)' # 0 => home[lookup(n)'] < Depth]_vars

\* A declaration disappears only with the scope it was made in, never because an
\* inner scope that hid it was closed.
PopReveals ==
  [][Len(scopes') < Depth =>
       \A n \in Names : \A k \in 1..Len(scopes') :
         scopes[k][n] # 0 => lookup(n)' # 0 /\ home[lookup(n)'] >= k]_vars

\* popScope takes away the declarations of its scope, all and only.
ClosingIsExact == PopForgets /\ PopReveals

\* The inductive invariant behind LookupIsInnermost: the declarations on the
\* stack of a name were made in open scopes that bind the name, inner ones
\* higher (only the global scope may have made several), and the binding of
\* every open scope is there, below nothing but bindings of inner scopes.
Made(n, i) == home[shadow[n][i]]
Stacked(n) ==
  /\ \A i \in DOMAIN shadow[n] :
       /\ Made(n, i) \in 1..Depth
       /\ scopes[Made(n, i)][n] # 0
  /\ \A i, j \in DOMAIN shadow[n] :
       i < j => Made(n, i) < Made(n, j) \/ (Made(n, i) = 1 /\ Made(n, j) = 1)
  /\ \A k \in 1..Depth : scopes[k][n] # 0 =>
       \E i \in DOMAIN shadow[n] :
         /\ shadow[n][i] = scopes[k][n] /\ Made(n, i) = k
         /\ \A j \in DOMAIN shadow[n] : i < j => Made(n, j) > k
EnvInv == TypeOK /\ \A n \in Names : Stacked(n)
=============================================================================
