----------------------------- MODULE MethodCache ----------------------------
(***************************************************************************)
(* How a call p.m() of the interpreter finds its function: under the name  *)
(* of the static class of p and the method, then along the base classes;   *)
(* the function found is remembered.  Classes are declared at any time, by *)
(* run and by the declarations a function executes, and declared again.    *)
(***************************************************************************)
EXTENDS Naturals, Sequences, FiniteSets

CONSTANTS
  Classes,
  Methods,
  NoClass  \* no base class

VARIABLES
  functions_,     \* the methods that have a function: pairs of class and method
  class_decls_,   \* the base of each class, of those declared
  method_cache_,  \* the class whose function each call was found to run
  called          \* history: the call made last and what it ran

vars == <<functions_, class_decls_, method_cache_, called>>

NoEntry == [k \in {} |-> NoClass]
NoCall == <<>>
Hung == <<NoClass>>

Declared == DOMAIN class_decls_
HasFunction(c, m) == <<c, m>> \in functions_

\* The loop of evalCall: from a class that lacks the method to its base.
GoesOn(c, m) == c \in Declared /\ class_decls_[c] # NoClass /\ ~HasFunction(c, m)

\* The class it comes to in as many steps as there are classes; if it goes on
\* even then the bases form a cycle, and it goes on for ever.
Resolved(c, m) ==
  LET f[k \in 0 .. Cardinality(Classes)] ==
        IF k = 0 THEN c ELSE IF GoesOn(f[k - 1], m) THEN class_decls_[f[k - 1]] ELSE f[k - 1]
  IN f[Cardinality(Classes)]

Endless(c, m) == GoesOn(Resolved(c, m), m)

-----------------------------------------------------------------------------
\* MUTANT of DeclareClass: the cache is left as it is.
DeclareClassOnly(c, base, ms) ==
  /\ functions_' = functions_ \cup ({c} \X ms)
  /\ class_decls_' = [d \in Declared \cup {c} |-> IF d = c THEN base ELSE class_decls_[d]]
  /\ called' = NoCall /\ UNCHANGED method_cache_

\* A class that is declared again keeps the functions of its methods.
DeclareClass(c, base, ms) ==
  /\ functions_' = functions_ \cup ({c} \X ms)
  /\ class_decls_' = [d \in Declared \cup {c} |-> IF d = c THEN base ELSE class_decls_[d]]
  /\ method_cache_' = NoEntry
  /\ called' = NoCall

\* evalCall with a member access.
Call(c, m) ==
  /\ called # Hung
  /\ IF <<c, m>> \in DOMAIN method_cache_
       THEN called' = <<c, m, method_cache_[<<c, m>>]>> /\ UNCHANGED method_cache_
       ELSE IF Endless(c, m)
       THEN called' = Hung /\ UNCHANGED method_cache_
       ELSE /\ called' = <<c, m, Resolved(c, m)>>
            /\ method_cache_' = [k \in DOMAIN method_cache_ \cup {<<c, m>>} |->
                                   IF k = <<c, m>> THEN Resolved(c, m) ELSE method_cache_[k]]
  /\ UNCHANGED <<functions_, class_decls_>>

reset ==
  /\ functions_' = {} /\ class_decls_' = NoEntry /\ method_cache_' = NoEntry /\ called' = NoCall

-----------------------------------------------------------------------------
Init == functions_ = {} /\ class_decls_ = NoEntry /\ method_cache_ = NoEntry /\ called = NoCall

Next ==
  \/ \E c \in Classes, base \in Classes \cup {NoClass}, ms \in SUBSET Methods :
       called # Hung /\ DeclareClass(c, base, ms)
  \/ \E c \in Classes, m \in Methods : Call(c, m)
  \/ called # Hung /\ reset

Spec == Init /\ [][Next]_vars

-----------------------------------------------------------------------------
(* Properties.                                                             *)

\* What the cache remembers of a call is what the declarations of now say.
CacheIsCurrent ==
  \A k \in DOMAIN method_cache_ :
    ~Endless(k[1], k[2]) /\ method_cache_[k] = Resolved(k[1], k[2])

IsBase(c, d) == c \in Declared /\ class_decls_[c] = d
Path(s) == \A i \in 1 .. Len(s) - 1 : IsBase(s[i], s[i + 1])
Paths(c, d) ==
  {s \in UNION {[1 .. n -> Classes] : n \in 1 .. Cardinality(Classes)} :
     Path(s) /\ s[1] = c /\ s[Len(s)] = d}

\* A call runs the method of the nearest class along the bases that has one.
RunsNearest ==
  called \notin {NoCall, Hung} =>
    LET c == called[1]  m == called[2]  r == called[3]
    IN \E s \in Paths(c, r) :
         /\ \A i \in 1 .. Len(s) - 1 : ~HasFunction(s[i], m)
         /\ HasFunction(r, m) \/ r \notin Declared \/ class_decls_[r] = NoClass
=============================================================================
