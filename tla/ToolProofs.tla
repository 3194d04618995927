---------------------------- MODULE ToolProofs -----------------------------
(***************************************************************************)
(* Theorems about what surrounds the language.  The cache of compiled      *)
(* modules is sound for any number of compilers, of source texts and of    *)
(* contexts: CacheInv is inductive.  The cache of method calls remembers   *)
(* what the classes declared now say, for any classes and methods.  The    *)
(* language server serves the document changed last, and never shows an    *)
(* older text, for any documents, edits and messages: LspInv is inductive. *)
(* The session finds where each text ends, and runs the correct ones, for  *)
(* any programs and lengths: SessionInv is inductive.                      *)
(***************************************************************************)
EXTENDS JITCache, CommonLemmas, FiniteSetTheorems

CONSTANTS
  Classes, Methods,  \* what the programs of MethodCache declare
  NoClass,           \* no base class
  Uris, NoUri, MaxEdits, MaxInbox,  \* the documents and the pipe of LspServer
  Units, LongUnits, Garbage, MaxLines, HCC_HAS_READLINE  \* the programs typed and the lines of Repl

ASSUME ClassesAssumption == IsFiniteSet(Classes) /\ NoClass \notin Classes

ASSUME UrisAssumption == NoUri \notin Uris

VARIABLES
  functions_, class_decls_, method_cache_, called,                     \* MethodCache
  inbox, text, tree, pending, snapshot, due, initialized, lsp_pc,
  shown, editor, edits, recent,                                        \* LspServer
  acc, scan_st, errors, globals, hasMain, signal, eof, repl_pc, last   \* Repl

Method == INSTANCE MethodCache
Lsp == INSTANCE LspServer WITH pc <- lsp_pc
Session == INSTANCE Repl WITH pc <- repl_pc

\* What is remembered of a call is what the declarations of now say, and that is the
\* nearest method along the bases.
MethodsAreCurrent == Method!CacheIsCurrent /\ Method!RunsNearest

\* LspServer: the document changed last has its tree or gets it, a closed one
\* stays clear; diagnostics never go back to an older text.
DocumentsAreServed ==
  [](Lsp!RecentIsParsedOrPending /\ Lsp!ClosedStaysClear) /\ Lsp!NeverGoesBack

\* Repl: a text is handed over at the first line that leaves nothing open; a correct
\* expression with a value is evaluated once and printed; any other correct text is run,
\* unless a break is pending, and once, unless it is an expression without a value.
TextsAreAnswered ==
  Session!TextsAreShortest /\ Session!ValuesArePrinted /\ Session!CorrectTextsRun

-----------------------------------------------------------------------------
(* The cache of compiled modules.                                          *)

LEMMA InitCache == Init => CacheInv
  BY NotModules DEF Init, CacheInv, TypeOK, Files, Steps, PublishedWhole, RunsItsText,
     RenamesItsOwn, OwnFile

\* A step that leaves every file alone keeps what the files promise.
LEMMA QuietStep ==
  ASSUME CacheInv, Files_unchanged, NEW p \in Procs, NEW step \in Steps,
         Goto(p, step), step \notin {"write", "rename", "failed"},
         NEW s \in Sources, src' = [src EXCEPT ![p] = s],
         NEW c \in Contexts, ctx' = [ctx EXCEPT ![p] = c],
         NEW r \in Files, ran' = [ran EXCEPT ![p] = r],
         r # None => r \in Module /\ r.src = s,
         step # "ended" => r = None
  PROVE  CacheInv'
<1> USE DEF CacheInv, Files_unchanged, Goto, TypeOK
<1>1. TypeOK'
  OBVIOUS
<1>2. PublishedWhole'
  BY DEF PublishedWhole
<1>3. RunsItsText'
  BY DEF RunsItsText
<1>4. RenamesItsOwn'
  BY DEF RenamesItsOwn, Own
<1>5. (\A q \in Procs : OwnFile(q))'
  BY DEF OwnFile
<1>6. QED
  BY <1>1, <1>2, <1>3, <1>4, <1>5

\* Every step of a process that touches no file is such a step.
LEMMA QuietSteps ==
  ASSUME CacheInv, NEW p \in Procs,
         \/ Begin(p) \/ Parse(p) \/ Lookup(p) \/ ReadCached(p) \/ Generate(p)
         \/ RunOwn(p) \/ Exit(p) \/ Crash(p)
  PROVE  CacheInv'
<1>1. TypeOK /\ RunsItsText /\ PublishedWhole /\ OwnFile(p)
  BY DEF CacheInv
<1>2. src[p] \in Sources /\ ctx[p] \in Contexts /\ ran[p] \in Files /\ pc[p] \in Steps
  BY <1>1 DEF TypeOK
<1>3. /\ src = [src EXCEPT ![p] = src[p]]
      /\ ctx = [ctx EXCEPT ![p] = ctx[p]]
      /\ ran = [ran EXCEPT ![p] = ran[p]]
  BY <1>1 DEF TypeOK
<1>4. pc[p] # "ended" => ran[p] = None
  BY <1>1 DEF OwnFile
<1>5. None \in Files /\ None \notin Module
  BY NotModules DEF Files
<1>6. CASE Begin(p)
  <2>1. PICK s \in Sources : src' = [src EXCEPT ![p] = s]
    BY <1>6 DEF Begin
  <2>2. Files_unchanged /\ Goto(p, "parse") /\ ctx' = ctx /\ ran' = ran /\ ran[p] = None
    BY <1>4, <1>6 DEF Begin
  <2>3. QED
    BY <1>2, <1>3, <1>5, <2>1, <2>2, QuietStep DEF Steps
<1>7. CASE Parse(p)
  <2>1. PICK c \in Contexts : ctx' = [ctx EXCEPT ![p] = c]
    BY <1>7 DEF Parse
  <2>2. PICK step \in {"lookup", "ended"} : Goto(p, step)
    BY <1>7 DEF Parse
  <2>3. Files_unchanged /\ src' = src /\ ran' = ran /\ ran[p] = None
    BY <1>4, <1>7 DEF Parse
  <2>4. QED
    BY <1>2, <1>3, <1>5, <2>1, <2>2, <2>3, QuietStep DEF Steps
<1>8. CASE Lookup(p)
  <2>1. PICK step \in {"generate", "read"} : Goto(p, step)
    BY <1>8 DEF Lookup
  <2>2. Files_unchanged /\ src' = src /\ ctx' = ctx /\ ran' = ran /\ ran[p] = None
    BY <1>4, <1>8 DEF Lookup
  <2>3. QED
    BY <1>2, <1>3, <1>5, <2>1, <2>2, QuietStep DEF Steps
<1>9. CASE ReadCached(p)
  <2>1. Files_unchanged /\ src' = src /\ ctx' = ctx /\ ran[p] = None
    BY <1>4, <1>9 DEF ReadCached
  <2>2. CASE cache[src[p]] \in Module
    <3>1. /\ ran' = [ran EXCEPT ![p] = cache[src[p]]]
          /\ Goto(p, "ended")
      BY <1>9, <2>2 DEF ReadCached
    <3>2. cache[src[p]] # None /\ cache[src[p]] # Torn
      BY <2>2, NotModules
    <3>3. cache[src[p]].src = src[p]
      BY <1>1, <1>2, <3>2 DEF PublishedWhole
    <3>4. cache[src[p]] \in Files
      BY <2>2 DEF Files
    <3>5. QED
      BY <1>2, <1>3, <2>1, <2>2, <3>1, <3>3, <3>4, QuietStep DEF Steps
  <2>3. CASE cache[src[p]] \notin Module
    <3>1. Goto(p, "generate") /\ ran' = ran
      BY <1>9, <2>3 DEF ReadCached
    <3>2. QED
      BY <1>2, <1>3, <1>5, <2>1, <3>1, QuietStep DEF Steps
  <2>4. QED
    BY <2>2, <2>3
<1>10. CASE Generate(p)
  <2>1. PICK step \in {"open", "ended"} : Goto(p, step)
    BY <1>10 DEF Generate
  <2>2. Files_unchanged /\ src' = src /\ ctx' = ctx /\ ran' = ran /\ ran[p] = None
    BY <1>4, <1>10 DEF Generate
  <2>3. QED
    BY <1>2, <1>3, <1>5, <2>1, <2>2, QuietStep DEF Steps
<1>11. CASE RunOwn(p)
  <2>1. /\ ran' = [ran EXCEPT ![p] = Own(p)]
        /\ Goto(p, "ended") /\ Files_unchanged /\ src' = src /\ ctx' = ctx
    BY <1>11 DEF RunOwn
  <2>2. Own(p) \in Module /\ Own(p) \in Files /\ Own(p).src = src[p]
    BY <1>2 DEF Own, Module, Files
  <2>3. QED
    BY <1>2, <1>3, <2>1, <2>2, QuietStep DEF Steps
<1>12. CASE Exit(p)
  <2>1. /\ ran' = [ran EXCEPT ![p] = None]
        /\ Goto(p, "idle") /\ Files_unchanged /\ src' = src /\ ctx' = ctx
    BY <1>12 DEF Exit
  <2>2. QED
    BY <1>2, <1>3, <1>5, <2>1, QuietStep DEF Steps
<1>13. CASE Crash(p)
  <2>1. /\ Goto(p, "idle") /\ Files_unchanged /\ src' = src /\ ctx' = ctx
        /\ ran' = ran /\ ran[p] = None
    BY <1>4, <1>13 DEF Crash
  <2>2. QED
    BY <1>2, <1>3, <1>5, <2>1, QuietStep DEF Steps
<1>14. QED
  BY <1>6, <1>7, <1>8, <1>9, <1>10, <1>11, <1>12, <1>13

\* The steps of store: each process has a temporary file of its own.
LEMMA StoreSteps ==
  ASSUME CacheInv, NEW p \in Procs, OpenTmp(p) \/ WriteBitcode(p) \/ Rename(p)
  PROVE  CacheInv'
<1> USE NotModules DEF CacheInv, Goto, TypeOK
<1>1. CASE OpenTmp(p)
  <2>1. TypeOK'
    BY <1>1 DEF OpenTmp, Steps, Files
  <2>2. PublishedWhole' /\ RunsItsText'
    BY <1>1 DEF OpenTmp, PublishedWhole, RunsItsText
  <2>3. RenamesItsOwn'
    BY <1>1 DEF OpenTmp, RenamesItsOwn, Own
  <2>4. (\A q \in Procs : OwnFile(q))'
    BY <1>1 DEF OpenTmp, OwnFile
  <2>5. QED
    BY <2>1, <2>2, <2>3, <2>4
<1>2. CASE WriteBitcode(p)
  <2>1. TypeOK'
    <3>1. Own(p) \in Files
      BY DEF Own, Module, Files
    <3>2. tmp' \in [Sources \X Procs -> Files]
      BY <1>2, <3>1 DEF WriteBitcode
    <3>3. pc' \in [Procs -> Steps] /\ filled' \in BOOLEAN
      BY <1>2 DEF WriteBitcode, Steps
    <3>4. QED
      BY <1>2, <3>2, <3>3 DEF WriteBitcode
  <2>2. PublishedWhole' /\ RunsItsText'
    BY <1>2 DEF WriteBitcode, PublishedWhole, RunsItsText
  <2>3. RenamesItsOwn'
    BY <1>2 DEF WriteBitcode, RenamesItsOwn, Own
  <2>4. (\A q \in Procs : OwnFile(q))'
    BY <1>2 DEF WriteBitcode, OwnFile
  <2>5. QED
    BY <2>1, <2>2, <2>3, <2>4
<1>3. CASE Rename(p)
  <2>1. pc[p] \in {"rename", "failed"} /\ src[p] \in Sources
    BY <1>3 DEF Rename
  <2>2. \/ tmp[<<src[p], p>>] \in Module /\ tmp[<<src[p], p>>].src = src[p]
        \/ filled /\ tmp[<<src[p], p>>] = Torn
    <3>1. CASE pc[p] = "rename"
      <4>1. tmp[<<src[p], p>>] = Own(p)
        BY <3>1 DEF RenamesItsOwn
      <4>2. Own(p) \in Module /\ Own(p).src = src[p]
        BY DEF Own, Module
      <4>3. QED
        BY <4>1, <4>2
    <3>2. CASE pc[p] = "failed"
      BY <2>1, <3>2 DEF OwnFile
    <3>3. QED
      BY <2>1, <3>1, <3>2
  <2>3. TypeOK'
    <3>1. tmp[<<src[p], p>>] \in Files
      BY <2>1
    <3>2. cache' \in [Sources -> Files]
      BY <1>3, <2>1, <3>1 DEF Rename
    <3>3. tmp' \in [Sources \X Procs -> Files]
      BY <1>3 DEF Rename, Files
    <3>4. pc' \in [Procs -> Steps]
      BY <1>3 DEF Rename, Steps
    <3>5. QED
      BY <1>3, <3>2, <3>3, <3>4 DEF Rename
  <2>4. PublishedWhole'
    <3>1. filled' = filled
      BY <1>3 DEF Rename
    <3>2. cache' = cache \/ cache' = [cache EXCEPT ![src[p]] = tmp[<<src[p], p>>]]
      BY <1>3 DEF Rename
    <3>3. QED
      BY <2>2, <3>1, <3>2 DEF PublishedWhole
  <2>5. RunsItsText'
    BY <1>3 DEF Rename, RunsItsText
  <2>6. RenamesItsOwn'
    BY <1>3 DEF Rename, RenamesItsOwn, Own
  <2>7. (\A q \in Procs : OwnFile(q))'
    BY <1>3 DEF Rename, OwnFile
  <2>8. QED
    BY <2>3, <2>4, <2>5, <2>6, <2>7
<1>4. QED
  BY <1>1, <1>2, <1>3

LEMMA DeleteKeeps ==
  ASSUME CacheInv, NEW s \in Sources, Delete(s)
  PROVE  CacheInv'
<1> USE DEF CacheInv, Delete
<1>1. TypeOK'
  BY DEF TypeOK, Files
<1>2. PublishedWhole'
  BY DEF PublishedWhole, TypeOK
<1>3. RunsItsText' /\ RenamesItsOwn' /\ (\A q \in Procs : OwnFile(q))'
  BY DEF RunsItsText, RenamesItsOwn, Own, OwnFile
<1>4. QED
  BY <1>1, <1>2, <1>3

LEMMA CacheStep == CacheInv /\ [Next]_vars => CacheInv'
<1> SUFFICES ASSUME CacheInv, [Next]_vars PROVE CacheInv'
  OBVIOUS
<1>1. CASE UNCHANGED vars
  BY <1>1 DEF vars, CacheInv, TypeOK, PublishedWhole, RunsItsText, RenamesItsOwn, Own, OwnFile
<1>2. CASE \E p \in Procs : Begin(p) \/ Step(p) \/ Exit(p) \/ Crash(p)
  BY <1>2, QuietSteps, StoreSteps DEF Step
<1>3. CASE \E s \in Sources : Delete(s)
  BY <1>3, DeleteKeeps
<1>4. QED
  BY <1>1, <1>2, <1>3 DEF Next

\* CacheInv holds of every state of the specification.
THEOREM CacheInvariant == Spec => []CacheInv
  BY InitCache, CacheStep, PTL DEF Spec

\* Whatever other compilers do, wherever they are killed and however a write
\* fails, a process runs a whole module compiled from its own text (the
\* lookup, the check of what was read and the store under a temporary name).
THEOREM OwnTextRuns == Spec => []RunsItsText
<1>1. CacheInv => RunsItsText
  BY DEF CacheInv
<1>2. QED
  BY <1>1, CacheInvariant, PTL

\* A cached file is whole and of its key unless a write has failed: what the
\* renaming in store is for.
THEOREM CachedFilesAreWhole == Spec => []PublishedWhole
<1>1. CacheInv => PublishedWhole
  BY DEF CacheInv
<1>2. QED
  BY <1>1, CacheInvariant, PTL

-----------------------------------------------------------------------------
(* What a call resolves to depends on the declarations alone, and whatever *)
(* changes them empties the cache: Method!CacheIsCurrent is inductive.            *)

\* Calls do not change what is found.
LEMMA ResolvedStays ==
  ASSUME UNCHANGED <<functions_, class_decls_>>, NEW c, NEW m
  PROVE  Method!Resolved(c, m)' = Method!Resolved(c, m) /\ Method!Endless(c, m)' = Method!Endless(c, m)
BY DEF Method!Endless, Method!Resolved, Method!GoesOn, Method!HasFunction, Method!Declared

\* Nothing is remembered: nothing is stale.
LEMMA EmptyIsCurrent ==
  ASSUME method_cache_' = Method!NoEntry
  PROVE  Method!CacheIsCurrent'
BY DEF Method!CacheIsCurrent, Method!NoEntry

\* What a call remembers is what it found.
LEMMA CallKeepsCurrent ==
  ASSUME Method!CacheIsCurrent, NEW c, NEW m, Method!Call(c, m)
  PROVE  Method!CacheIsCurrent'
<1>1. UNCHANGED <<functions_, class_decls_>>
  BY DEF Method!Call
<1>2. CASE UNCHANGED method_cache_
  BY <1>1, <1>2, ResolvedStays DEF Method!CacheIsCurrent
<1>3. CASE /\ ~Method!Endless(c, m)
           /\ method_cache_' = [k \in DOMAIN method_cache_ \cup {<<c, m>>} |->
                                  IF k = <<c, m>> THEN Method!Resolved(c, m) ELSE method_cache_[k]]
  <2> SUFFICES ASSUME NEW k \in DOMAIN method_cache_'
               PROVE  /\ ~Method!Endless(k[1], k[2])'
                      /\ method_cache_'[k] = Method!Resolved(k[1], k[2])'
    BY DEF Method!CacheIsCurrent
  <2>1. CASE k = <<c, m>>
    <3>1. k[1] = c /\ k[2] = m /\ method_cache_'[k] = Method!Resolved(c, m)
      BY <1>3, <2>1
    <3> QED
      BY <1>1, <1>3, <3>1, ResolvedStays
  <2>2. CASE k # <<c, m>>
    <3>1. k \in DOMAIN method_cache_ /\ method_cache_'[k] = method_cache_[k]
      BY <1>3, <2>2
    <3>2. ~Method!Endless(k[1], k[2]) /\ method_cache_[k] = Method!Resolved(k[1], k[2])
      BY <3>1 DEF Method!CacheIsCurrent
    <3> QED
      BY <1>1, <3>1, <3>2, ResolvedStays
  <2> QED
    BY <2>1, <2>2
<1> QED
  BY <1>2, <1>3 DEF Method!Call

\* However classes are declared, and declared again, between calls: what the cache
\* remembers is what the loop over the bases would find now.
THEOREM CacheStaysCurrent == Method!Spec => []Method!CacheIsCurrent
<1>1. Method!Init => Method!CacheIsCurrent
  BY DEF Method!Init, Method!CacheIsCurrent, Method!NoEntry
<1>2. Method!CacheIsCurrent /\ [Method!Next]_(Method!vars) => Method!CacheIsCurrent'
  <2> SUFFICES ASSUME Method!CacheIsCurrent, [Method!Next]_(Method!vars)
               PROVE  Method!CacheIsCurrent'
    OBVIOUS
  <2>1. ASSUME NEW c, NEW base, NEW ms, Method!DeclareClass(c, base, ms)
        PROVE  Method!CacheIsCurrent'
    BY <2>1, EmptyIsCurrent DEF Method!DeclareClass
  <2>2. ASSUME NEW c, NEW m, Method!Call(c, m)
        PROVE  Method!CacheIsCurrent'
    BY <2>2, CallKeepsCurrent
  <2>3. CASE Method!reset
    BY <2>3, EmptyIsCurrent DEF Method!reset
  <2>4. CASE UNCHANGED Method!vars
    BY <2>4, ResolvedStays DEF Method!vars, Method!CacheIsCurrent
  <2> QED
    BY <2>1, <2>2, <2>3, <2>4 DEF Method!Next
<1> QED
  BY <1>1, <1>2, PTL DEF Method!Spec

-----------------------------------------------------------------------------
(***************************************************************************)
(* The loop over the bases, as a sequence of classes: it either comes to a *)
(* class where it stops before it has seen as many as there are, or it     *)
(* comes to one a second time and never stops.                             *)
(***************************************************************************)
DeclsTyped ==
  /\ Method!Declared \subseteq Classes
  /\ \A d \in Method!Declared : class_decls_[d] \in Classes \cup {NoClass}

LEMMA SameCardinality == \A S : Method!Cardinality(S) = Cardinality(S)
BY DEF Method!Cardinality, Cardinality

\* One round of the loop.
Onward(m) ==
  [d \in Classes |-> IF Method!GoesOn(d, m) THEN class_decls_[d] ELSE d]

LEMMA OnwardTyped ==
  ASSUME DeclsTyped, NEW m
  PROVE  Onward(m) \in [Classes -> Classes]
BY DEF Onward, DeclsTyped, Method!GoesOn

\* Resolved is where the rounds come to.
LEMMA ResolvedIs ==
  ASSUME DeclsTyped, NEW c \in Classes, NEW m
  PROVE  \E f \in [0 .. Cardinality(Classes) -> Classes] :
           /\ f[0] = c
           /\ \A k \in 1 .. Cardinality(Classes) : f[k] = Onward(m)[f[k - 1]]
           /\ Method!Resolved(c, m) = f[Cardinality(Classes)]
<1> DEFINE N == Cardinality(Classes)
           Body(f) == [k \in 0 .. N |->
                         IF k = 0 THEN c
                         ELSE IF Method!GoesOn(f[k - 1], m)
                         THEN class_decls_[f[k - 1]] ELSE f[k - 1]]
           chosen == CHOOSE f : f = Body(f)
<1>1. N \in Nat
  BY ClassesAssumption, FS_CardinalityType
<1>2. Method!Resolved(c, m) = chosen[N]
  BY SameCardinality DEF Method!Resolved
<1>3. PICK f \in [0 .. N -> Classes] :
        f[0] = c /\ \A k \in 1 .. N : f[k] = Onward(m)[f[k - 1]]
  <2>1. Onward(m) \in [Classes -> Classes]
    BY OnwardTyped
  <2> HIDE DEF N
  <2>2. \E f \in [0 .. N -> Classes] : Iterates(f, Onward(m), c, N)
    BY <1>1, <2>1, IterationExists
  <2> QED
    BY <2>2 DEF Iterates
<1>4. \A k \in 1 .. N : f[k - 1] \in Classes
  BY <1>1, <1>3
<1>41. \A k \in 1 .. N :
        f[k] = IF Method!GoesOn(f[k - 1], m) THEN class_decls_[f[k - 1]] ELSE f[k - 1]
  BY <1>3, <1>4 DEF Onward
<1>5. f = Body(f)
  BY <1>1, <1>3, <1>41
<1>6. chosen = Body(chosen)
  <2> HIDE DEF Body
  <2> QED
    BY <1>5
<1>7. /\ chosen[0] = c
      /\ \A k \in 1 .. N :
           chosen[k] = IF Method!GoesOn(chosen[k - 1], m)
                       THEN class_decls_[chosen[k - 1]] ELSE chosen[k - 1]
  <2> HIDE DEF chosen
  <2> QED
    BY <1>1, <1>6
<1>8. \A k \in 0 .. N : chosen[k] = f[k]
  <2> DEFINE Same == {k \in 0 .. N : chosen[k] = f[k]}
  <2> HIDE DEF chosen
  <2>1. 0 \in Same
    BY <1>1, <1>3, <1>7
  <2>2. ASSUME NEW k \in 0 .. N - 1, k \in Same
        PROVE  k + 1 \in Same
    <3>1. k + 1 \in 1 .. N /\ k + 1 \in 0 .. N /\ (k + 1) - 1 = k /\ chosen[k] = f[k]
      BY <1>1, <2>2
    <3> QED
      BY <1>41, <1>7, <3>1
  <2>3. \A k \in 0 .. N : k \in Same
    <3> HIDE DEF Same
    <3> QED
      BY <1>1, <2>1, <2>2, IntervalInduction
  <2> QED
    BY <2>3
<1> HIDE DEF chosen
<1> QED
  BY <1>1, <1>2, <1>3, <1>8

\* More places than classes: one class is in two of them.
LEMMA SomeRepeats ==
  ASSUME NEW n \in Nat, n = Cardinality(Classes), NEW f \in [0 .. n -> Classes]
  PROVE  \E i \in 0 .. n, j \in 0 .. n : i < j /\ f[i] = f[j]
<1>1. IsFiniteSet(0 .. n) /\ Cardinality(0 .. n) = n + 1
  BY FS_Interval
<1>2. IsFiniteSet(Classes) /\ Cardinality(Classes) < Cardinality(0 .. n)
  BY <1>1, ClassesAssumption
<1>3. \E x, y \in 0 .. n : x # y /\ f[x] = f[y]
  BY <1>1, <1>2, FS_PigeonHole, Zenon
<1> QED
  BY <1>3

\* A loop that stops has stopped before it saw as many classes as there are.
LEMMA StopsEarly ==
  ASSUME DeclsTyped, NEW m, NEW f \in [0 .. Cardinality(Classes) -> Classes],
         \A k \in 1 .. Cardinality(Classes) : f[k] = Onward(m)[f[k - 1]],
         ~ Method!GoesOn(f[Cardinality(Classes)], m)
  PROVE  \E n \in 0 .. Cardinality(Classes) - 1 :
           /\ ~ Method!GoesOn(f[n], m) /\ f[n] = f[Cardinality(Classes)]
           /\ \A k \in 0 .. n - 1 : Method!GoesOn(f[k], m)
<1> DEFINE N == Cardinality(Classes)
           Stops == {k \in 0 .. N : ~ Method!GoesOn(f[k], m)}
<1>1. N \in Nat
  BY ClassesAssumption, FS_CardinalityType
<1>2. N \in Stops /\ Stops \subseteq Nat
  BY <1>1
<1>3. f \in [0 .. N -> Classes] /\ \A k \in 1 .. N : f[k] = Onward(m)[f[k - 1]]
  OBVIOUS
<1>4. PICK n \in Stops : \A k \in Stops : n <= k
  <2> HIDE DEF Stops
  <2> QED
    BY <1>2, LeastExists
<1> SUFFICES n \in 0 .. N - 1 /\ f[n] = f[N] /\ \A k \in 0 .. n - 1 : Method!GoesOn(f[k], m)
  BY <1>4
<1> HIDE DEF N
<1>5. \A k \in 0 .. n - 1 : Method!GoesOn(f[k], m)
  BY <1>1, <1>4
<1>6. \A k \in n .. N : f[k] = f[n]
  <2> DEFINE Stays == {k \in n .. N : f[k] = f[n]}
  <2>1. n \in Nat /\ n \in Stays
    BY <1>1, <1>4
  <2>2. ASSUME NEW k \in n .. N - 1, k \in Stays
        PROVE  k + 1 \in Stays
    <3>1. k + 1 \in 1 .. N /\ k + 1 \in n .. N /\ (k + 1) - 1 = k /\ f[k] = f[n]
      BY <1>1, <1>4, <2>2
    <3>2. f[k + 1] = Onward(m)[f[n]] /\ f[n] \in Classes /\ ~ Method!GoesOn(f[n], m)
      BY <1>3, <1>4, <3>1
    <3> QED
      BY <3>1, <3>2 DEF Onward
  <2>3. \A k \in n .. N : k \in Stays
    <3> HIDE DEF Stays
    <3> QED
      BY <1>1, <2>1, <2>2, IntervalInduction
  <2> QED
    BY <2>3
<1>7. n # N
  <2> SUFFICES ASSUME n = N PROVE FALSE
    OBVIOUS
  <2>1. PICK i \in 0 .. N, j \in 0 .. N : i < j /\ f[i] = f[j]
    BY <1>1, <1>3, SomeRepeats DEF N
  <2>2. \A d \in 0 .. N - j : f[i + d] = f[j + d]
    <3> DEFINE Same == {d \in 0 .. N - j : f[i + d] = f[j + d]}
    <3>1. N - j \in Nat /\ 0 \in Same
      BY <1>1, <2>1
    <3>2. ASSUME NEW d \in 0 .. (N - j) - 1, d \in Same
          PROVE  d + 1 \in Same
      <4>1. /\ d + 1 \in 0 .. N - j /\ i + (d + 1) \in 1 .. N /\ j + (d + 1) \in 1 .. N
            /\ (i + (d + 1)) - 1 = i + d /\ (j + (d + 1)) - 1 = j + d
        <5> HIDE DEF Same
        <5> QED
          BY <1>1, <2>1
      <4>2. f[i + d] = f[j + d]
        BY <3>2
      <4>3. f[i + (d + 1)] = Onward(m)[f[i + d]] /\ f[j + (d + 1)] = Onward(m)[f[j + d]]
        BY <1>3, <4>1
      <4> QED
        BY <4>1, <4>2, <4>3
    <3>3. \A d \in 0 .. N - j : d \in Same
      <4> HIDE DEF Same
      <4> QED
        BY <3>1, <3>2, IntervalInduction
    <3> QED
      BY <3>3
  <2>3. /\ N - j \in 0 .. N - j /\ j + (N - j) = N /\ i + (N - j) \in 0 .. n - 1
    BY <1>1, <2>1
  <2>4. f[i + (N - j)] = f[N]
    BY <2>2, <2>3
  <2> QED
    BY <1>4, <1>5, <2>3, <2>4
<1> QED
  BY <1>1, <1>4, <1>5, <1>6, <1>7

-----------------------------------------------------------------------------
(* What a call runs.                                                       *)

CallInv ==
  /\ DeclsTyped
  /\ called \notin {Method!NoCall, Method!Hung} =>
       \E c \in Classes : \E m \in Methods :
         called = <<c, m, Method!Resolved(c, m)>> /\ ~ Method!Endless(c, m)

\* A loop that stops has found the nearest method.
LEMMA StopsAtNearest ==
  ASSUME DeclsTyped, NEW c \in Classes, NEW m, ~ Method!Endless(c, m)
  PROVE  \E s \in Method!Paths(c, Method!Resolved(c, m)) :
           /\ \A i \in 1 .. Len(s) - 1 : ~ Method!HasFunction(s[i], m)
           /\ \/ Method!HasFunction(Method!Resolved(c, m), m)
              \/ Method!Resolved(c, m) \notin Method!Declared
              \/ class_decls_[Method!Resolved(c, m)] = NoClass
<1> DEFINE N == Cardinality(Classes)
           r == Method!Resolved(c, m)
<1>1. PICK f \in [0 .. N -> Classes] :
        f[0] = c /\ (\A k \in 1 .. N : f[k] = Onward(m)[f[k - 1]]) /\ r = f[N]
  BY ResolvedIs
<1>2. ~ Method!GoesOn(r, m)
  BY DEF Method!Endless
<1>3. PICK n \in 0 .. N - 1 :
        f[n] = f[N] /\ \A k \in 0 .. n - 1 : Method!GoesOn(f[k], m)
  BY <1>1, <1>2, StopsEarly
<1>4. N \in Nat
  BY ClassesAssumption, FS_CardinalityType
<1>5. Method!Cardinality(Classes) = N
  BY SameCardinality
<1> HIDE DEF N, r
<1> DEFINE s == [i \in 1 .. n + 1 |-> f[i - 1]]
<1>6. s \in [1 .. n + 1 -> Classes] /\ n + 1 \in 1 .. N /\ Len(s) = n + 1
  BY <1>1, <1>3, <1>4
<1>7. \A i \in 1 .. n : s[i] = f[i - 1] /\ s[i + 1] = f[i] /\ Method!GoesOn(f[i - 1], m)
  BY <1>3, <1>4
<1>8. \A i \in 1 .. n : Method!IsBase(s[i], s[i + 1]) /\ ~ Method!HasFunction(s[i], m)
  <2> SUFFICES ASSUME NEW i \in 1 .. n
               PROVE  Method!IsBase(s[i], s[i + 1]) /\ ~ Method!HasFunction(s[i], m)
    OBVIOUS
  <2>1. i \in 1 .. N /\ f[i - 1] \in Classes /\ Method!GoesOn(f[i - 1], m)
    BY <1>1, <1>3, <1>4, <1>7
  <2>2. f[i] = class_decls_[f[i - 1]]
    BY <1>1, <2>1 DEF Onward
  <2> HIDE DEF s
  <2> QED
    BY <1>7, <2>1, <2>2 DEF Method!IsBase, Method!GoesOn
<1>9. s[1] = c /\ s[n + 1] = r
  BY <1>1, <1>3
<1> HIDE DEF s
<1>10. s \in Method!Paths(c, r)
  BY <1>4, <1>5, <1>6, <1>8, <1>9 DEF Method!Paths, Method!Path
<1>11. Method!HasFunction(r, m) \/ r \notin Method!Declared \/ class_decls_[r] = NoClass
  BY <1>2 DEF Method!GoesOn
<1> QED
  BY <1>6, <1>8, <1>10, <1>11 DEF r

LEMMA RunsTheNearest == CallInv => Method!RunsNearest
<1> SUFFICES ASSUME CallInv, called \notin {Method!NoCall, Method!Hung}
             PROVE  Method!RunsNearest
  BY DEF Method!RunsNearest
<1>1. PICK c \in Classes, m \in Methods :
        called = <<c, m, Method!Resolved(c, m)>> /\ ~ Method!Endless(c, m)
  BY DEF CallInv
<1>2. called[1] = c /\ called[2] = m /\ called[3] = Method!Resolved(c, m)
  BY <1>1
<1> QED
  BY <1>1, <1>2, StopsAtNearest DEF CallInv, Method!RunsNearest

LEMMA CallInit == Method!Init => CallInv
BY DEF Method!Init, CallInv, DeclsTyped, Method!NoEntry, Method!Declared

LEMMA CallStep == CallInv /\ Method!CacheIsCurrent /\ [Method!Next]_(Method!vars) => CallInv'
<1> SUFFICES ASSUME CallInv, Method!CacheIsCurrent, [Method!Next]_(Method!vars)
             PROVE  CallInv'
  OBVIOUS
<1>1. ASSUME NEW c \in Classes, NEW base \in Classes \cup {NoClass}, NEW ms,
             Method!DeclareClass(c, base, ms)
      PROVE  CallInv'
  BY <1>1 DEF Method!DeclareClass, CallInv, DeclsTyped, Method!Declared
<1>2. ASSUME NEW c \in Classes, NEW m \in Methods, Method!Call(c, m)
      PROVE  CallInv'
  <2>1. UNCHANGED <<functions_, class_decls_>>
    BY <1>2 DEF Method!Call
  <2>2. DeclsTyped'
    BY <2>1 DEF CallInv, DeclsTyped, Method!Declared
  <2>3. \/ called' = Method!Hung
        \/ called' = <<c, m, Method!Resolved(c, m)>> /\ ~ Method!Endless(c, m)
    BY <1>2 DEF Method!Call, Method!CacheIsCurrent
  <2>4. Method!Resolved(c, m)' = Method!Resolved(c, m)
        /\ Method!Endless(c, m)' = Method!Endless(c, m)
    BY <2>1, ResolvedStays
  <2> QED
    BY <2>2, <2>3, <2>4 DEF CallInv
<1>3. CASE Method!reset
  BY <1>3 DEF Method!reset, CallInv, DeclsTyped, Method!NoEntry, Method!Declared
<1>4. CASE UNCHANGED Method!vars
  <2>1. UNCHANGED <<functions_, class_decls_>> /\ called' = called
    BY <1>4 DEF Method!vars
  <2>2. DeclsTyped'
    BY <2>1 DEF CallInv, DeclsTyped, Method!Declared
  <2>3. CASE called \in {Method!NoCall, Method!Hung}
    BY <2>1, <2>2, <2>3 DEF CallInv
  <2>4. CASE called \notin {Method!NoCall, Method!Hung}
    <3>1. PICK c \in Classes, m \in Methods :
            called = <<c, m, Method!Resolved(c, m)>> /\ ~ Method!Endless(c, m)
      BY <2>4 DEF CallInv
    <3>2. Method!Resolved(c, m)' = Method!Resolved(c, m)
          /\ Method!Endless(c, m)' = Method!Endless(c, m)
      BY <2>1, ResolvedStays
    <3> QED
      BY <2>1, <2>2, <3>1, <3>2 DEF CallInv
  <2> QED
    BY <2>3, <2>4
<1> QED
  BY <1>1, <1>2, <1>3, <1>4 DEF Method!Next

\* Whatever is declared and called in any order: a call runs the method of the
\* nearest class along the bases, found now or remembered.
THEOREM MethodsAreCurrentHolds == Method!Spec => []MethodsAreCurrent
<1>1. Method!Init => CallInv
  BY CallInit
<1>2. CallInv /\ Method!CacheIsCurrent /\ [Method!Next]_(Method!vars) => CallInv'
  BY CallStep
<1>3. CallInv /\ Method!CacheIsCurrent => MethodsAreCurrent
  BY RunsTheNearest DEF MethodsAreCurrent
<1> QED
  BY <1>1, <1>2, <1>3, CacheStaysCurrent, PTL DEF Method!Spec

-----------------------------------------------------------------------------
(* The language server.                                                    *)

Texts == {"didOpen", "didChange"}
Sent == [method : Texts \cup {"didClose"}, uri : Uris, text : Nat]
        \cup [method : {"initialize", "hover", "shutdown", "eof"}, uri : {NoUri}, text : Nat]

LspTyped ==
  /\ inbox \in Seq(Sent)
  /\ text \in [Uris -> Nat] /\ tree \in [Uris -> Nat]
  /\ shown \in [Uris -> Nat] /\ editor \in [Uris -> Nat]
  /\ pending \in Uris \cup {NoUri} /\ recent \in Uris \cup {NoUri}
  /\ initialized \in BOOLEAN /\ edits \in Nat

\* Nothing is shown of, or parsed from, a text newer than the document's.
ShownAfterRead == \A u \in Uris : shown[u] <= text[u] /\ (text[u] = 0 => tree[u] = 0)

\* The texts in the pipe come in the order of the edits, after all that were read.
InOrder ==
  \A i \in 1 .. Len(inbox) : inbox[i].method \in Texts =>
    /\ inbox[i].text <= edits
    /\ \A u \in Uris : text[u] < inbox[i].text
    /\ \A j \in 1 .. Len(inbox) :
         i < j /\ inbox[j].method \in Texts => inbox[i].text < inbox[j].text
ReadBefore == \A u \in Uris : text[u] <= edits

\* The server is initialized by the first message.
Introduced == ~initialized => inbox # <<>> /\ inbox[1].method = "initialize"

\* Of a document closed in the editor the last message is didClose.
ClosingComes(u) ==
  \E i \in 1 .. Len(inbox) :
    /\ inbox[i].uri = u /\ inbox[i].method = "didClose"
    /\ \A j \in 1 .. Len(inbox) : i < j => inbox[j].uri # u
Closed(u) == text[u] = 0 /\ \A i \in 1 .. Len(inbox) : inbox[i].uri # u
ClosingInOrder == \A u \in Uris : editor[u] = 0 => ClosingComes(u) \/ Closed(u)

LspInv ==
  /\ LspTyped /\ ShownAfterRead /\ InOrder /\ ReadBefore /\ Introduced /\ ClosingInOrder
  /\ Lsp!RecentIsParsedOrPending

LEMMA InitLsp == Lsp!Init => LspInv
<1> SUFFICES ASSUME Lsp!Init PROVE LspInv
  OBVIOUS
<1>1. /\ inbox = <<[method |-> "initialize", uri |-> NoUri, text |-> 0]>>
      /\ text = [u \in Uris |-> 0] /\ tree = text /\ shown = text /\ editor = text
      /\ pending = NoUri /\ initialized = FALSE /\ edits = 0 /\ recent = NoUri
  BY DEF Lsp!Init, Lsp!Message
<1>2. Len(inbox) = 1 /\ inbox[1] = [method |-> "initialize", uri |-> NoUri, text |-> 0]
  BY <1>1
<1>3. LspTyped
  <2>1. [method |-> "initialize", uri |-> NoUri, text |-> 0] \in Sent
    BY DEF Sent
  <2>2. inbox \in Seq(Sent)
    BY <1>1, <2>1
  <2> QED
    BY <1>1, <2>2 DEF LspTyped
<1>4. ShownAfterRead /\ ReadBefore /\ Lsp!RecentIsParsedOrPending
  BY <1>1 DEF ShownAfterRead, ReadBefore, Lsp!RecentIsParsedOrPending
<1>5. InOrder /\ Introduced
  BY <1>1, <1>2 DEF InOrder, Texts, Introduced
<1>6. ClosingInOrder
  BY <1>1, <1>2, UrisAssumption DEF ClosingInOrder, Closed
<1> QED
  BY <1>3, <1>4, <1>5, <1>6 DEF LspInv

LEMMA LspClear == LspInv => Lsp!ClosedStaysClear
  BY DEF LspInv, LspTyped, Lsp!ClosedStaysClear, Lsp!Heard, ClosingInOrder, ClosingComes, Closed,
     ShownAfterRead

\* What the editor does: a message joins the pipe.
LEMMA Sending ==
  ASSUME LspInv, Lsp!Edit PROVE LspInv'
<1>1. /\ UNCHANGED <<text, tree, shown, pending, initialized, recent>>
      /\ LspTyped
  BY DEF Lsp!Edit, Lsp!docs, Lsp!timer, LspInv
<1>2. ASSUME NEW m \in Sent, inbox' = Append(inbox, m), edits' \in Nat, edits <= edits',
             editor' \in [Uris -> Nat],
             m.method \in Texts => edits < m.text /\ m.text <= edits',
             \A u \in Uris : editor'[u] = 0 =>
               \/ m.uri = u /\ m.method = "didClose"
               \/ m.uri # u /\ editor[u] = 0
      PROVE  LspInv'
  <2>1. /\ Len(inbox') = Len(inbox) + 1 /\ inbox' \in Seq(Sent) /\ Len(inbox) \in Nat
        /\ \A i \in 1 .. Len(inbox) : inbox'[i] = inbox[i]
        /\ inbox'[Len(inbox) + 1] = m
    BY <1>1, <1>2 DEF LspTyped
  <2>2. LspTyped'
    BY <1>1, <1>2, <2>1 DEF LspTyped
  <2>3. ShownAfterRead' /\ Lsp!RecentIsParsedOrPending'
    BY <1>1 DEF LspInv, ShownAfterRead, Lsp!RecentIsParsedOrPending
  <2>4. ReadBefore'
    BY <1>1, <1>2 DEF LspInv, LspTyped, ReadBefore
  <2>5. Introduced'
    BY <1>1, <2>1 DEF LspInv, Introduced
  <2>6. \A i \in 1 .. Len(inbox) : inbox[i] \in Sent /\ inbox[i].text \in Nat
    BY <1>1 DEF LspTyped, Sent
  <2>7. InOrder'
    <3>1. SUFFICES ASSUME NEW i \in 1 .. Len(inbox'), inbox'[i].method \in Texts
          PROVE  /\ inbox'[i].text <= edits'
                 /\ \A u \in Uris : text[u] < inbox'[i].text
                 /\ \A j \in 1 .. Len(inbox') :
                      i < j /\ inbox'[j].method \in Texts => inbox'[i].text < inbox'[j].text
      BY <1>1 DEF InOrder
    <3>2. ReadBefore /\ InOrder /\ text \in [Uris -> Nat] /\ edits \in Nat /\ m.text \in Nat
      BY <1>1, <1>2 DEF LspInv, LspTyped, Sent
    <3>3. CASE i = Len(inbox) + 1
      BY <1>2, <2>1, <3>1, <3>2, <3>3 DEF ReadBefore
    <3>4. CASE i \in 1 .. Len(inbox)
      <4>1. /\ inbox[i].text <= edits /\ inbox[i].text \in Nat
            /\ \A u \in Uris : text[u] < inbox[i].text
            /\ \A j \in 1 .. Len(inbox) :
                 i < j /\ inbox[j].method \in Texts => inbox[i].text < inbox[j].text
        BY <2>1, <2>6, <3>1, <3>2, <3>4 DEF InOrder
      <4>2. inbox'[i] = inbox[i]
        BY <2>1, <3>4
      <4>3. ASSUME NEW j \in 1 .. Len(inbox'), i < j, inbox'[j].method \in Texts
            PROVE  inbox[i].text < inbox'[j].text
        BY <1>2, <2>1, <3>2, <3>4, <4>1, <4>3
      <4> QED
        BY <1>2, <3>2, <4>1, <4>2, <4>3
    <3> QED
      BY <2>1, <3>3, <3>4
  <2>8. ClosingInOrder'
    <3>1. SUFFICES ASSUME NEW u \in Uris, editor'[u] = 0 PROVE ClosingComes(u)' \/ Closed(u)'
      BY DEF ClosingInOrder
    <3>2. CASE m.uri = u /\ m.method = "didClose"
      BY <2>1, <3>2 DEF ClosingComes
    <3>3. CASE m.uri # u /\ editor[u] = 0
      <4>1. ClosingComes(u) \/ Closed(u)
        BY <3>3 DEF LspInv, ClosingInOrder
      <4>2. ClosingComes(u) => ClosingComes(u)'
        BY <2>1, <3>3 DEF ClosingComes
      <4>3. Closed(u) => Closed(u)'
        BY <1>1, <2>1, <3>3 DEF Closed
      <4> QED
        BY <4>1, <4>2, <4>3
    <3> QED
      BY <1>2, <3>1, <3>2, <3>3
  <2> QED
    BY <2>2, <2>3, <2>4, <2>5, <2>7, <2>8 DEF LspInv
<1>3. CASE Lsp!Ask
  <2>1. PICK method \in {"hover", "shutdown", "eof"} :
          inbox' = Append(inbox, [method |-> method, uri |-> NoUri, text |-> 0])
          /\ UNCHANGED <<editor, edits>>
    BY <1>3 DEF Lsp!Ask, Lsp!Send, Lsp!Message, Lsp!client
  <2> DEFINE m == [method |-> method, uri |-> NoUri, text |-> 0]
  <2>2. m \in Sent /\ m.method \notin Texts /\ \A u \in Uris : m.uri # u
    BY UrisAssumption DEF Sent, Texts
  <2>3. edits \in Nat /\ editor \in [Uris -> Nat]
    BY <1>1 DEF LspTyped
  <2> QED
    BY <1>2, <2>1, <2>2, <2>3
<1>4. ASSUME NEW u \in Uris, NEW method \in Texts, Lsp!SendText(method, u)
      PROVE  LspInv'
  <2> DEFINE m == [method |-> method, uri |-> u, text |-> edits']
  <2>1. /\ edits' = edits + 1 /\ editor' = [editor EXCEPT ![u] = edits']
        /\ inbox' = Append(inbox, m) /\ edits \in Nat /\ editor \in [Uris -> Nat]
    BY <1>1, <1>4 DEF Lsp!SendText, Lsp!Send, Lsp!Message, LspTyped
  <2>2. m \in Sent /\ m.text = edits'
    BY <2>1 DEF Sent
  <2>3. \A v \in Uris : editor'[v] = 0 => m.uri # v /\ editor[v] = 0
    BY <2>1
  <2>4. edits' \in Nat /\ edits <= edits' /\ editor' \in [Uris -> Nat] /\ edits < edits'
        /\ edits' <= edits'
    BY <2>1
  <2> HIDE DEF m
  <2> QED
    BY <1>2, <2>1, <2>2, <2>3, <2>4
<1>5. ASSUME NEW u \in Uris, Lsp!Close(u)
      PROVE  LspInv'
  <2> DEFINE m == [method |-> "didClose", uri |-> u, text |-> 0]
  <2>1. /\ edits' = edits /\ editor' = [editor EXCEPT ![u] = 0]
        /\ inbox' = Append(inbox, m) /\ edits \in Nat /\ editor \in [Uris -> Nat]
    BY <1>1, <1>5 DEF Lsp!Close, Lsp!Send, Lsp!Message, LspTyped
  <2>2. m \in Sent /\ m.method \notin Texts /\ m.uri = u /\ m.method = "didClose"
    BY <2>1 DEF Sent, Texts
  <2>3. \A v \in Uris : editor'[v] = 0 => v = u \/ (m.uri # v /\ editor[v] = 0)
    BY <2>1
  <2>4. edits' \in Nat /\ edits <= edits' /\ editor' \in [Uris -> Nat]
    BY <2>1
  <2> HIDE DEF m
  <2> QED
    BY <1>2, <2>1, <2>2, <2>3, <2>4
<1> QED
  BY <1>3, <1>4, <1>5 DEF Lsp!Edit, Lsp!Open, Lsp!Change, Texts

\* A due parse.
LEMMA Flushing ==
  ASSUME LspInv, Lsp!Flush PROVE LspInv'
<1>1. UNCHANGED <<inbox, text, initialized, editor, edits, recent>> /\ LspTyped
  BY DEF Lsp!Flush, Lsp!client, LspInv
<1>2. InOrder' /\ ReadBefore' /\ Introduced'
  BY <1>1 DEF LspInv, InOrder, ReadBefore, Introduced
<1>3. ClosingInOrder'
  BY <1>1 DEF LspInv, ClosingInOrder, ClosingComes, Closed
<1>4. CASE UNCHANGED <<tree, shown, pending>>
  <2>1. LspTyped' /\ ShownAfterRead' /\ Lsp!RecentIsParsedOrPending'
    BY <1>1, <1>4 DEF LspInv, LspTyped, ShownAfterRead, Lsp!RecentIsParsedOrPending
  <2> QED
    BY <1>2, <1>3, <2>1 DEF LspInv
<1>5. CASE /\ pending \in Uris /\ pending' = NoUri
           /\ \/ /\ tree' = [tree EXCEPT ![pending] = text[pending]]
                 /\ shown' = [shown EXCEPT ![pending] = text[pending]]
              \/ UNCHANGED <<tree, shown>> /\ text[pending] = 0
  <2>1. LspTyped'
    BY <1>1, <1>5 DEF LspTyped
  <2>2. ShownAfterRead'
    <3>1. SUFFICES ASSUME NEW u \in Uris
          PROVE  shown'[u] <= text[u] /\ (text[u] = 0 => tree'[u] = 0)
      BY <1>1 DEF ShownAfterRead
    <3>2. /\ text[u] \in Nat /\ shown[u] <= text[u] /\ (text[u] = 0 => tree[u] = 0)
          /\ tree \in [Uris -> Nat] /\ shown \in [Uris -> Nat]
      BY <1>1 DEF LspInv, LspTyped, ShownAfterRead
    <3> QED
      BY <1>5, <3>2
  <2>3. Lsp!RecentIsParsedOrPending'
    BY <1>1, <1>5 DEF LspInv, LspTyped, ShownAfterRead, Lsp!RecentIsParsedOrPending
  <2> QED
    BY <1>2, <1>3, <2>1, <2>2, <2>3 DEF LspInv
<1> QED
  BY <1>1, <1>4, <1>5 DEF Lsp!Flush, Lsp!ParseAndPublish, LspTyped

\* A message is read.
LEMMA Handling ==
  ASSUME LspInv, Lsp!Handle PROVE LspInv'
<1> DEFINE m == inbox[1]
<1>1. /\ LspTyped /\ inbox # <<>> /\ inbox' = Tail(inbox) /\ UNCHANGED <<editor, edits>>
      /\ initialized' = (initialized \/ m.method = "initialize")
      /\ InOrder /\ ReadBefore /\ Introduced /\ ClosingInOrder /\ ShownAfterRead
      /\ Lsp!RecentIsParsedOrPending
  BY DEF Lsp!Handle, Lsp!client, LspInv
<1>2. /\ Len(inbox') = Len(inbox) - 1 /\ inbox' \in Seq(Sent) /\ Len(inbox) \in Nat \ {0}
      /\ \A i \in 1 .. Len(inbox') : inbox'[i] = inbox[i + 1] /\ i + 1 \in 1 .. Len(inbox)
      /\ \A i \in 2 .. Len(inbox) : inbox'[i - 1] = inbox[i] /\ i - 1 \in 1 .. Len(inbox')
      /\ m \in Sent
  BY <1>1 DEF LspTyped
<1>3. initialized'
  BY <1>1 DEF Introduced, LspTyped
<1>4. \/ m.method = "didOpen" /\ initialized /\ Lsp!DidOpen(m.uri, m.text)
      \/ m.method = "didChange" /\ initialized /\ Lsp!DidChange(m.uri, m.text)
      \/ m.method = "didClose" /\ initialized /\ Lsp!DidClose(m.uri)
      \/ m.method \notin Texts \cup {"didClose"} /\ UNCHANGED <<text, tree, shown, pending, recent>>
      \/ ~initialized /\ UNCHANGED <<text, tree, shown, pending, recent>>
  BY DEF Lsp!Handle, Lsp!docs, Lsp!timer, Texts
<1>5. ~initialized => m.method = "initialize"
  BY <1>1 DEF Introduced
<1>6. /\ m.text \in Nat
      /\ m.method \in Texts \cup {"didClose"} => m.uri \in Uris
      /\ m.method \notin Texts \cup {"didClose"} => m.uri = NoUri
  BY <1>2 DEF Sent, Texts
<1> HIDE DEF m
<1>7. \/ /\ m.method \in Texts /\ m.uri \in Uris
         /\ text' = [text EXCEPT ![m.uri] = m.text]
         /\ \/ /\ tree' = [tree EXCEPT ![m.uri] = m.text]
               /\ shown' = [shown EXCEPT ![m.uri] = m.text]
               /\ UNCHANGED <<pending, recent>>
            \/ UNCHANGED <<tree, shown>> /\ pending' = m.uri /\ recent' = m.uri
      \/ /\ m.method = "didClose" /\ m.uri \in Uris
         /\ text' = [text EXCEPT ![m.uri] = 0] /\ tree' = [tree EXCEPT ![m.uri] = 0]
         /\ shown' = [shown EXCEPT ![m.uri] = 0] /\ UNCHANGED <<pending, recent>>
      \/ /\ m.method \notin Texts /\ m.uri = NoUri
         /\ UNCHANGED <<text, tree, shown, pending, recent>>
  BY <1>4, <1>5, <1>6 DEF Texts, Lsp!DidOpen, Lsp!DidChange, Lsp!DidClose, Lsp!ParseAndPublish,
     Lsp!timer
<1>8. LspTyped'
  <2>1. initialized' \in BOOLEAN /\ inbox' \in Seq(Sent)
    BY <1>1, <1>2 DEF LspTyped
  <2>2. text' \in [Uris -> Nat] /\ tree' \in [Uris -> Nat] /\ shown' \in [Uris -> Nat]
    <3>1. text \in [Uris -> Nat] /\ tree \in [Uris -> Nat] /\ shown \in [Uris -> Nat]
      BY <1>1 DEF LspTyped
    <3>2. PICK t \in Nat, u \in Uris \cup {NoUri} :
            /\ text' = text \/ text' = [text EXCEPT ![u] = t]
            /\ tree' = tree \/ tree' = [tree EXCEPT ![u] = t]
            /\ shown' = shown \/ shown' = [shown EXCEPT ![u] = t]
      BY <1>6, <1>7
    <3> QED
      BY <3>1, <3>2
  <2>3. pending' \in Uris \cup {NoUri} /\ recent' \in Uris \cup {NoUri}
    BY <1>1, <1>7 DEF LspTyped
  <2> QED
    BY <1>1, <2>1, <2>2, <2>3 DEF LspTyped
<1>9. \A u \in Uris : text[u] \in Nat /\ shown[u] \in Nat /\ tree[u] \in Nat
  BY <1>1 DEF LspTyped
<1>10. m.method \in Texts =>
         /\ m.text <= edits
         /\ \A u \in Uris : text[u] < m.text
         /\ \A j \in 2 .. Len(inbox) : inbox[j].method \in Texts => m.text < inbox[j].text
  BY <1>1, <1>2 DEF InOrder, m
<1>11. ShownAfterRead'
  <2>1. SUFFICES ASSUME NEW u \in Uris
        PROVE  shown'[u] <= text'[u] /\ (text'[u] = 0 => tree'[u] = 0)
    BY DEF ShownAfterRead
  <2>2. shown[u] <= text[u] /\ (text[u] = 0 => tree[u] = 0)
    BY <1>1 DEF ShownAfterRead
  <2>3. m.method \in Texts => text[u] < m.text
    BY <1>10
  <2>4. text \in [Uris -> Nat] /\ tree \in [Uris -> Nat] /\ shown \in [Uris -> Nat]
    BY <1>1 DEF LspTyped
  <2> QED
    BY <1>6, <1>7, <1>9, <2>2, <2>3, <2>4
<1>12. ReadBefore'
  <2>1. SUFFICES ASSUME NEW u \in Uris PROVE text'[u] <= edits
    BY <1>1 DEF ReadBefore
  <2>2. text[u] <= edits /\ edits \in Nat /\ text \in [Uris -> Nat]
    BY <1>1 DEF ReadBefore, LspTyped
  <2> QED
    BY <1>6, <1>7, <1>10, <2>2
<1>13. Introduced'
  BY <1>3 DEF Introduced
<1>14. InOrder'
  <2>1. SUFFICES ASSUME NEW i \in 1 .. Len(inbox'), inbox'[i].method \in Texts
        PROVE  /\ inbox'[i].text <= edits
               /\ \A u \in Uris : text'[u] < inbox'[i].text
               /\ \A j \in 1 .. Len(inbox') :
                    i < j /\ inbox'[j].method \in Texts => inbox'[i].text < inbox'[j].text
    BY <1>1 DEF InOrder
  <2>2. /\ inbox'[i] = inbox[i + 1] /\ i + 1 \in 2 .. Len(inbox)
        /\ inbox[i + 1] \in Sent /\ inbox[i + 1].text \in Nat
    BY <1>1, <1>2, <2>1 DEF LspTyped, Sent
  <2>3. /\ inbox[i + 1].text <= edits
        /\ \A u \in Uris : text[u] < inbox[i + 1].text
        /\ \A j \in 1 .. Len(inbox) :
             i + 1 < j /\ inbox[j].method \in Texts => inbox[i + 1].text < inbox[j].text
    BY <1>1, <1>2, <2>1, <2>2 DEF InOrder
  <2>4. ASSUME NEW u \in Uris PROVE text'[u] < inbox[i + 1].text
    <3>1. text \in [Uris -> Nat] /\ text[u] < inbox[i + 1].text
      BY <1>1, <2>3 DEF LspTyped
    <3>2. m.method \in Texts => m.text < inbox[i + 1].text
      BY <1>10, <2>1, <2>2
    <3>3. 0 < inbox[i + 1].text
      BY <1>9, <2>2, <3>1
    <3> QED
      BY <1>7, <3>1, <3>2, <3>3
  <2>5. ASSUME NEW j \in 1 .. Len(inbox'), i < j, inbox'[j].method \in Texts
        PROVE  inbox[i + 1].text < inbox'[j].text
    BY <1>2, <2>1, <2>3, <2>5
  <2> QED
    BY <2>2, <2>3, <2>4, <2>5
<1>15. ClosingInOrder'
  <2>1. SUFFICES ASSUME NEW u \in Uris, editor[u] = 0 PROVE ClosingComes(u)' \/ Closed(u)'
    BY <1>1 DEF ClosingInOrder
  <2>2. text \in [Uris -> Nat]
    BY <1>1 DEF LspTyped
  <2>3. CASE Closed(u)
    <3>1. m.uri # u /\ text[u] = 0 /\ \A i \in 1 .. Len(inbox') : inbox'[i].uri # u
      BY <1>2, <2>3 DEF Closed, m
    <3>2. text'[u] = 0
      BY <1>7, <2>2, <3>1
    <3> QED
      BY <3>1, <3>2 DEF Closed
  <2>4. CASE ClosingComes(u)
    <3>1. PICK i \in 1 .. Len(inbox) :
            /\ inbox[i].uri = u /\ inbox[i].method = "didClose"
            /\ \A j \in 1 .. Len(inbox) : i < j => inbox[j].uri # u
      BY <2>4 DEF ClosingComes
    <3>2. CASE i = 1
      <4>1. m.uri = u /\ m.method = "didClose" /\ \A j \in 1 .. Len(inbox') : inbox'[j].uri # u
        BY <1>2, <3>1, <3>2 DEF m
      <4>2. text'[u] = 0
        BY <1>7, <2>2, <4>1, UrisAssumption DEF Texts
      <4> QED
        BY <4>1, <4>2 DEF Closed
    <3>3. CASE i # 1
      <4>1. i \in 2 .. Len(inbox)
        BY <1>2, <3>1, <3>3
      <4>2. i - 1 \in 1 .. Len(inbox') /\ inbox'[i - 1] = inbox[i]
        BY <1>2, <4>1
      <4>3. ASSUME NEW j \in 1 .. Len(inbox'), i - 1 < j PROVE inbox'[j].uri # u
        BY <1>2, <3>1, <4>3
      <4> QED
        BY <3>1, <4>2, <4>3 DEF ClosingComes
    <3> QED
      BY <3>2, <3>3
  <2> QED
    BY <1>1, <2>1, <2>3, <2>4 DEF ClosingInOrder
<1>16. Lsp!RecentIsParsedOrPending'
  <2>1. SUFFICES ASSUME recent' # NoUri, tree'[recent'] # text'[recent'] PROVE pending' = recent'
    BY DEF Lsp!RecentIsParsedOrPending
  <2>2. recent # NoUri /\ tree[recent] # text[recent] => pending = recent
    BY <1>1 DEF Lsp!RecentIsParsedOrPending
  <2>3. /\ text \in [Uris -> Nat] /\ tree \in [Uris -> Nat]
        /\ recent' \in Uris
    BY <1>1, <1>8, <2>1 DEF LspTyped
  <2> QED
    BY <1>7, <2>1, <2>2, <2>3
<1> QED
  BY <1>8, <1>11, <1>12, <1>13, <1>14, <1>15, <1>16 DEF LspInv

LEMMA LspStep == LspInv /\ [Lsp!Next]_(Lsp!vars) => LspInv'
<1>1. ASSUME LspInv, Lsp!Tick PROVE LspInv'
  BY <1>1 DEF Lsp!Tick, Lsp!docs, Lsp!client, LspInv, LspTyped, ShownAfterRead, InOrder, ReadBefore,
     Introduced, ClosingInOrder, ClosingComes, Closed, Lsp!RecentIsParsedOrPending
<1>2. ASSUME LspInv, UNCHANGED Lsp!vars PROVE LspInv'
  BY <1>2 DEF Lsp!vars, LspInv, LspTyped, ShownAfterRead, InOrder, ReadBefore,
     Introduced, ClosingInOrder, ClosingComes, Closed, Lsp!RecentIsParsedOrPending
<1> QED
  BY <1>1, <1>2, Sending, Flushing, Handling DEF Lsp!Next, Lsp!Serve

\* What is published is never about an older text.
LEMMA Forwards == LspInv /\ [Lsp!Next]_(Lsp!vars) =>
                    [\A u \in Uris : shown'[u] # 0 => shown'[u] >= shown[u]]_(Lsp!vars)
<1> SUFFICES ASSUME LspInv, [Lsp!Next]_(Lsp!vars), NEW u \in Uris, shown'[u] # 0
             PROVE  shown'[u] >= shown[u]
  OBVIOUS
<1>1. /\ shown \in [Uris -> Nat] /\ text \in [Uris -> Nat]
      /\ shown[u] \in Nat /\ text[u] \in Nat /\ shown[u] <= text[u]
  BY DEF LspInv, LspTyped, ShownAfterRead
<1>2. CASE shown' = shown
  BY <1>1, <1>2
<1>3. CASE Lsp!Flush
  BY <1>1, <1>3 DEF Lsp!Flush, Lsp!ParseAndPublish
<1>4. CASE Lsp!Handle
  <2>1. CASE shown' = [shown EXCEPT ![Head(inbox).uri] = 0]
    BY <1>1, <2>1
  <2>2. CASE /\ Head(inbox).method = "didOpen" /\ inbox # <<>>
             /\ shown' = [shown EXCEPT ![Head(inbox).uri] = Head(inbox).text]
    <3>1. inbox \in Seq(Sent) /\ Head(inbox) = inbox[1] /\ 1 \in 1 .. Len(inbox)
      BY <2>2 DEF LspInv, LspTyped
    <3>2. text[u] < Head(inbox).text /\ Head(inbox).text \in Nat
      BY <2>2, <3>1 DEF LspInv, InOrder, Texts, Sent
    <3> QED
      BY <1>1, <2>2, <3>2
  <2> QED
    BY <1>2, <1>4, <2>1, <2>2 DEF Lsp!Handle, Lsp!docs, Lsp!DidOpen, Lsp!DidChange, Lsp!DidClose,
       Lsp!ParseAndPublish
<1> QED
  BY <1>2, <1>3, <1>4 DEF Lsp!Next, Lsp!Serve, Lsp!Edit, Lsp!Tick, Lsp!docs, Lsp!vars

\* For any number of documents, edits and waiting messages: the document changed
\* last has its tree or waits for it, the diagnostics of a closed one stay cleared,
\* and those of no document go back to an older text.
THEOREM DocumentsAreServedHolds == Lsp!Spec => DocumentsAreServed
<1>1. LspInv => Lsp!RecentIsParsedOrPending /\ Lsp!ClosedStaysClear
  BY LspClear DEF LspInv
<1>2. Lsp!Spec => [](Lsp!RecentIsParsedOrPending /\ Lsp!ClosedStaysClear)
  BY <1>1, InitLsp, LspStep, PTL DEF Lsp!Spec
<1>3. Lsp!Spec => Lsp!NeverGoesBack
  BY InitLsp, LspStep, Forwards, PTL DEF Lsp!Spec, Lsp!NeverGoesBack
<1> QED
  BY <1>2, <1>3 DEF DocumentsAreServed

-----------------------------------------------------------------------------
(* The session.                                                            *)

SessionLines == Session!Lines \cup {Session!Empty}

\* What the scanner has found open is what the lines leave open; every prefix of what is
\* accumulated leaves something open; nothing but a break is pending between two inputs.
Scanned(st, lines) ==
  /\ st.in_block_comment = Session!InComment(lines, Len(lines) + 1)
  /\ st.brace_depth = Session!Count(lines, "begin", "brace") - Session!Count(lines, "end", "brace")
  /\ st.paren_depth = Session!Count(lines, "begin", "paren") - Session!Count(lines, "end", "paren")
AllOpen(lines, n) == \A i \in 1 .. n : ~Session!Complete(SubSeq(lines, 1, i))
SessionInv ==
  /\ acc \in Seq(Session!Lines) /\ Scanned(scan_st, acc)
  /\ signal \in {"None", "Break"}
  /\ Session!TextsAreShortest /\ Session!ValuesArePrinted /\ Session!CorrectTextsRun

\* A line more.
LEMMA InCommentMore ==
  ASSUME NEW lines \in Seq(SessionLines), NEW l \in SessionLines
  PROVE  /\ \A i \in 1 .. Len(lines) + 1 :
              Session!InComment(Append(lines, l), i) = Session!InComment(lines, i)
         /\ Session!InComment(Append(lines, l), Len(lines) + 2)
              = (\/ Session!Does(l, "begin", "comment")
                 \/ Session!InComment(lines, Len(lines) + 1) /\ ~Session!Does(l, "end", "comment"))
<1> DEFINE n == Len(lines)
           t == Append(lines, l)
           B(m) == Session!Does(m, "begin", "comment")
           E(m) == Session!Does(m, "end", "comment")
<1>1. /\ n \in Nat /\ t[n + 1] = l
      /\ \A i \in 1 .. n : t[i] = lines[i]
  OBVIOUS
<1>2. ~(B(l) /\ E(l))
  BY DEF Session!Does
<1>3. \A x, i : Session!InComment(x, i)
        = (\E b \in 1 .. i - 1 : B(x[b]) /\ \A e \in b + 1 .. i - 1 : ~E(x[e]))
  BY DEF Session!InComment
<1> HIDE DEF t, n, B, E
<1>4. ASSUME NEW i \in 1 .. n + 1
      PROVE  Session!InComment(t, i) = Session!InComment(lines, i)
  <2>1. \A b \in 1 .. i - 1 : b \in 1 .. n /\ \A e \in b + 1 .. i - 1 : e \in 1 .. n
    BY <1>1
  <2> QED
    BY <1>1, <1>3, <2>1
<1>5. (\E b \in 1 .. n + 1 : B(t[b]) /\ \A e \in b + 1 .. n + 1 : ~E(t[e]))
        = (B(l) \/ ((\E b \in 1 .. n : B(lines[b]) /\ \A e \in b + 1 .. n : ~E(lines[e])) /\ ~E(l)))
  <2>1. ASSUME NEW b \in 1 .. n + 1, B(t[b]), \A e \in b + 1 .. n + 1 : ~E(t[e]), ~B(l)
        PROVE  b \in 1 .. n /\ B(lines[b]) /\ (\A e \in b + 1 .. n : ~E(lines[e])) /\ ~E(l)
    <3>1. b \in 1 .. n
      BY <1>1, <2>1
    <3>2. n + 1 \in b + 1 .. n + 1 /\ \A e \in b + 1 .. n : e \in 1 .. n /\ e \in b + 1 .. n + 1
      BY <1>1, <3>1
    <3> QED
      BY <1>1, <2>1, <3>1, <3>2
  <2>2. ASSUME B(l)
        PROVE  \E b \in 1 .. n + 1 : B(t[b]) /\ \A e \in b + 1 .. n + 1 : ~E(t[e])
    <3>1. n + 1 \in 1 .. n + 1 /\ (n + 1) + 1 .. n + 1 = {}
      BY <1>1
    <3> QED
      BY <1>1, <2>2, <3>1
  <2>3. ASSUME NEW b \in 1 .. n, B(lines[b]), \A e \in b + 1 .. n : ~E(lines[e]), ~E(l)
        PROVE  \E c \in 1 .. n + 1 : B(t[c]) /\ \A e \in c + 1 .. n + 1 : ~E(t[e])
    <3>1. b \in 1 .. n + 1
      BY <1>1
    <3>2. \A e \in b + 1 .. n + 1 : e = n + 1 \/ (e \in b + 1 .. n /\ e \in 1 .. n)
      BY <1>1
    <3>3. B(t[b]) /\ \A e \in b + 1 .. n + 1 : ~E(t[e])
      BY <1>1, <2>3, <3>2
    <3> QED
      BY <3>1, <3>3
  <2> QED
    BY <2>1, <2>2, <2>3
<1>6. (n + 2) - 1 = n + 1 /\ (n + 1) - 1 = n
  BY <1>1
<1> QED
  BY <1>3, <1>4, <1>5, <1>6 DEF t, n, B, E

LEMMA CountMore ==
  ASSUME NEW lines \in Seq(SessionLines), NEW l \in SessionLines, NEW what, NEW d
  PROVE  /\ Session!Count(lines, what, d) \in Nat
         /\ Session!Count(Append(lines, l), what, d)
              = Session!Count(lines, what, d)
                  + IF Session!Does(l, what, d) /\ ~Session!InComment(lines, Len(lines) + 1)
                    THEN 1 ELSE 0
<1> DEFINE n == Len(lines)
           t == Append(lines, l)
           S == {i \in DOMAIN lines : Session!Does(lines[i], what, d) /\ ~Session!InComment(lines, i)}
           T == {i \in DOMAIN t : Session!Does(t[i], what, d) /\ ~Session!InComment(t, i)}
<1>1. /\ n \in Nat /\ DOMAIN lines = 1 .. n /\ DOMAIN t = (1 .. n) \cup {n + 1}
      /\ t[n + 1] = l /\ \A i \in 1 .. n : t[i] = lines[i]
  OBVIOUS
<1>2. IsFiniteSet(S) /\ n + 1 \notin S
  <2>1. S \subseteq 1 .. n
    BY <1>1
  <2>2. n + 1 \notin 1 .. n
    BY <1>1
  <2>3. IsFiniteSet(1 .. n)
    BY <1>1, FS_Interval
  <2> HIDE DEF S
  <2> QED
    BY <2>1, <2>2, <2>3, FS_Subset
<1>3. /\ \A i \in 1 .. n : Session!InComment(t, i) = Session!InComment(lines, i)
      /\ Session!InComment(t, n + 1) = Session!InComment(lines, n + 1)
  <2>1. \A i \in 1 .. n + 1 : Session!InComment(t, i) = Session!InComment(lines, i)
    BY InCommentMore
  <2> HIDE DEF t, n
  <2> QED
    BY <1>1, <2>1
<1>4. T = IF Session!Does(l, what, d) /\ ~Session!InComment(lines, n + 1)
          THEN S \cup {n + 1} ELSE S
  <2> HIDE DEF t, n
  <2> QED
    BY <1>1, <1>3
<1>5. /\ \A X : Session!Cardinality(X) = Cardinality(X)
      /\ Session!Count(lines, what, d) = Cardinality(S) /\ Session!Count(t, what, d) = Cardinality(T)
  BY DEF Session!Cardinality, Cardinality, Session!Count
<1> HIDE DEF S, T, n, t
<1>6. Cardinality(S) \in Nat /\ Cardinality(S \cup {n + 1}) = Cardinality(S) + 1
  BY <1>2, FS_AddElement, FS_CardinalityType
<1> QED
  BY <1>4, <1>5, <1>6 DEF n, t

LEMMA ScanMore ==
  ASSUME NEW lines \in Seq(SessionLines), NEW l \in SessionLines, NEW st, Scanned(st, lines)
  PROVE  /\ Scanned(Session!scan_line(l, st), Append(lines, l))
         /\ Session!needs_more_input(l, Session!scan_line(l, st))
              = ~Session!Complete(Append(lines, l))
<1> DEFINE n == Len(lines)
           t == Append(lines, l)
           r == Session!scan_line(l, st)
           C == Session!InComment(lines, n + 1)
           D(what, d) == Session!Does(l, what, d)
           N(what, d) == Session!Count(lines, what, d)
           M(what, d) == Session!Count(t, what, d)
<1>1. n \in Nat /\ Len(t) = n + 1 /\ t[n + 1] = l
  OBVIOUS
<1>2. \A what, d : /\ N(what, d) \in Nat /\ D(what, d) \in BOOLEAN
                   /\ M(what, d) = N(what, d) + IF D(what, d) /\ ~C THEN 1 ELSE 0
  BY CountMore DEF Session!Does
<1>3. Session!InComment(t, n + 2) = (D("begin", "comment") \/ (C /\ ~D("end", "comment")))
  BY InCommentMore
<1>4. /\ st.in_block_comment = C
      /\ st.brace_depth = N("begin", "brace") - N("end", "brace")
      /\ st.paren_depth = N("begin", "paren") - N("end", "paren")
  BY DEF Scanned
<1>5. \A d : ~(D("begin", d) /\ D("end", d))
  BY DEF Session!Does
<1>6. /\ r.in_block_comment = (D("begin", "comment") \/ (st.in_block_comment /\ ~D("end", "comment")))
      /\ r.brace_depth = st.brace_depth + IF st.in_block_comment THEN 0
                           ELSE IF D("begin", "brace") THEN 1 ELSE IF D("end", "brace") THEN -1 ELSE 0
      /\ r.paren_depth = st.paren_depth + IF st.in_block_comment THEN 0
                           ELSE IF D("begin", "paren") THEN 1 ELSE IF D("end", "paren") THEN -1 ELSE 0
  BY DEF Session!scan_line, Session!Change
<1> HIDE DEF D, N, M, C, r, t, n
<1>7. r.in_block_comment = Session!InComment(t, n + 2)
  BY <1>3, <1>4, <1>6
<1>8. ASSUME NEW d
      PROVE  M("begin", d) - M("end", d)
               = N("begin", d) - N("end", d)
                   + IF C THEN 0 ELSE IF D("begin", d) THEN 1 ELSE IF D("end", d) THEN -1 ELSE 0
  <2>1. /\ N("begin", d) \in Nat /\ D("begin", d) \in BOOLEAN
        /\ M("begin", d) = N("begin", d) + IF D("begin", d) /\ ~C THEN 1 ELSE 0
    BY <1>2
  <2>2. /\ N("end", d) \in Nat /\ D("end", d) \in BOOLEAN
        /\ M("end", d) = N("end", d) + IF D("end", d) /\ ~C THEN 1 ELSE 0
    BY <1>2
  <2>3. ~(D("begin", d) /\ D("end", d))
    BY <1>5
  <2> QED
    BY <2>1, <2>2, <2>3
<1>9. /\ r.brace_depth = M("begin", "brace") - M("end", "brace")
      /\ r.paren_depth = M("begin", "paren") - M("end", "paren")
  BY <1>4, <1>6, <1>8
<1>10. \A what, d : M(what, d) \in Nat
  <2> TAKE what, d
  <2>1. N(what, d) \in Nat /\ M(what, d) = N(what, d) + IF D(what, d) /\ ~C THEN 1 ELSE 0
    BY <1>2
  <2> QED
    BY <2>1
<1>11. \A d : M("begin", d) <= M("end", d) <=> ~(M("begin", d) - M("end", d) > 0)
  <2> TAKE d
  <2>1. M("begin", d) \in Nat /\ M("end", d) \in Nat
    BY <1>10
  <2> QED
    BY <2>1
<1>12. Session!Complete(t) <=>
         /\ M("begin", "brace") <= M("end", "brace") /\ M("begin", "paren") <= M("end", "paren")
         /\ ~Session!InComment(t, n + 2) /\ l.what # "spliced"
  <2>1. Len(t) + 1 = n + 2
    BY <1>1
  <2> QED
    BY <1>1, <2>1 DEF Session!Complete, M
<1>13. Session!needs_more_input(l, r) = ~Session!Complete(t)
  <2>1. Session!needs_more_input(l, r) <=>
          \/ M("begin", "brace") - M("end", "brace") > 0
          \/ M("begin", "paren") - M("end", "paren") > 0
          \/ Session!InComment(t, n + 2) \/ l.what = "spliced"
    BY <1>7, <1>9 DEF Session!needs_more_input
  <2>2. Session!needs_more_input(l, r) \in BOOLEAN /\ Session!Complete(t) \in BOOLEAN
    BY <1>7 DEF Session!needs_more_input, Session!Complete, Session!InComment
  <2> QED
    BY <1>11, <1>12, <2>1, <2>2
<1>14. Scanned(r, t)
  <2>1. Len(t) + 1 = n + 2
    BY <1>1
  <2> QED
    BY <1>7, <1>9, <2>1 DEF Scanned, M
<1> QED
  BY <1>13, <1>14 DEF r, t

LEMMA PrefixesOpen ==
  ASSUME NEW lines \in Seq(SessionLines), NEW l \in SessionLines, AllOpen(lines, Len(lines))
  PROVE  /\ AllOpen(Append(lines, l), Len(lines))
         /\ SubSeq(Append(lines, l), 1, Len(lines) + 1) = Append(lines, l)
<1> DEFINE n == Len(lines)
           t == Append(lines, l)
<1>1. /\ n \in Nat /\ t \in Seq(SessionLines) /\ Len(t) = n + 1
      /\ \A i \in 1 .. n : t[i] = lines[i]
  OBVIOUS
<1> HIDE DEF t
<1>2. ASSUME NEW i \in 1 .. n
      PROVE  SubSeq(t, 1, i) = SubSeq(lines, 1, i)
  <2>1. /\ SubSeq(t, 1, i) \in Seq(SessionLines) /\ SubSeq(lines, 1, i) \in Seq(SessionLines)
        /\ Len(SubSeq(t, 1, i)) = i /\ Len(SubSeq(lines, 1, i)) = i
        /\ \A j \in 1 .. i : SubSeq(t, 1, i)[j] = SubSeq(lines, 1, i)[j]
    BY <1>1
  <2> QED
    BY <2>1, SameAs
<1>3. SubSeq(t, 1, n + 1) = t
  <2>1. /\ SubSeq(t, 1, n + 1) \in Seq(SessionLines) /\ Len(SubSeq(t, 1, n + 1)) = n + 1
        /\ \A j \in 1 .. n + 1 : SubSeq(t, 1, n + 1)[j] = t[j]
    BY <1>1
  <2> QED
    BY <1>1, <2>1, SameAs
<1> QED
  BY <1>2, <1>3 DEF AllOpen, t

LEMMA NothingScanned == Scanned(Session!ScanState, <<>>)
<1> DEFINE none == <<>>
<1>1. \A what, d : Session!Count(none, what, d) = 0
  <2> TAKE what, d
  <2>1. {i \in DOMAIN none : Session!Does(none[i], what, d) /\ ~Session!InComment(none, i)} = {}
    OBVIOUS
  <2>2. \A X : Session!Cardinality(X) = Cardinality(X)
    BY DEF Session!Cardinality, Cardinality
  <2> HIDE DEF none
  <2> QED
    BY <2>1, <2>2, FS_EmptySet DEF Session!Count
<1>2. Session!InComment(none, Len(none) + 1) = FALSE
  BY DEF Session!InComment
<1> HIDE DEF none
<1>3. /\ Session!ScanState.brace_depth = 0 /\ Session!ScanState.paren_depth = 0
      /\ Session!ScanState.in_block_comment = FALSE
  BY DEF Session!ScanState
<1>4. /\ Session!ScanState.in_block_comment = Session!InComment(none, Len(none) + 1)
      /\ Session!ScanState.brace_depth
           = Session!Count(none, "begin", "brace") - Session!Count(none, "end", "brace")
      /\ Session!ScanState.paren_depth
           = Session!Count(none, "begin", "paren") - Session!Count(none, "end", "paren")
  <2>1. 0 - 0 = 0
    OBVIOUS
  <2> QED
    BY <1>1, <1>2, <1>3, <2>1, Zenon
<1>5. Scanned(Session!ScanState, none)
  BY <1>4 DEF Scanned
<1> QED
  BY <1>5 DEF none

\* What a text that is complete leaves.
LEMMA RunLogIs ==
  ASSUME NEW u
  PROVE  /\ Session!RunsOf(Session!RunLog(u)) \subseteq {1}
         /\ Session!Executes(u) => 1 \in Session!RunsOf(Session!RunLog(u))
         /\ 1 \in Session!RunsOf(<<"unit">> \o Session!RunLog(u))
<1> DEFINE A == IF Session!Executes(u) THEN <<"unit">> ELSE <<>>
           B == IF Session!CallsMain(u) /\ Session!Left(u) = "None" THEN <<"Main">> ELSE <<>>
<1>1. Session!RunLog(u) = A \o B
  BY DEF Session!RunLog
<1>2. /\ A \in Seq({"unit", "Main"}) /\ Len(A) \in {0, 1}
      /\ \A i \in 1 .. Len(A) : A[i] = "unit"
      /\ Session!Executes(u) => Len(A) = 1
  <2>1. CASE Session!Executes(u)
    BY <2>1
  <2>2. CASE ~Session!Executes(u)
    BY <2>2
  <2> QED
    BY <2>1, <2>2
<1>3. /\ B \in Seq({"unit", "Main"}) /\ \A i \in 1 .. Len(B) : B[i] = "Main"
  <2>1. CASE Session!CallsMain(u) /\ Session!Left(u) = "None"
    BY <2>1
  <2>2. CASE ~(Session!CallsMain(u) /\ Session!Left(u) = "None")
    BY <2>2
  <2> QED
    BY <2>1, <2>2
<1> HIDE DEF A, B
<1>4. /\ A \o B \in Seq({"unit", "Main"}) /\ Len(A \o B) = Len(A) + Len(B)
      /\ DOMAIN (A \o B) = 1 .. Len(A) + Len(B) /\ Len(B) \in Nat
      /\ \A i \in 1 .. Len(A) + Len(B) :
           (A \o B)[i] = IF i <= Len(A) THEN A[i] ELSE B[i - Len(A)]
  BY <1>2, <1>3
<1>5. \A i \in DOMAIN (A \o B) : (A \o B)[i] = "unit" => i = 1
  <2> TAKE i \in DOMAIN (A \o B)
  <2> HAVE (A \o B)[i] = "unit"
  <2>1. i \in 1 .. Len(A) + Len(B) /\ (i > Len(A) => i - Len(A) \in 1 .. Len(B))
    BY <1>2, <1>4
  <2>2. i <= Len(A)
    BY <1>2, <1>3, <1>4, <2>1
  <2> QED
    BY <1>2, <2>1, <2>2
<1>6. Session!Executes(u) => 1 \in DOMAIN (A \o B) /\ (A \o B)[1] = "unit"
  <2> HAVE Session!Executes(u)
  <2>1. Len(A) = 1 /\ 1 \in 1 .. Len(A) /\ 1 \in 1 .. Len(A) + Len(B) /\ 1 <= Len(A)
    BY <1>2, <1>4
  <2>2. A[1] = "unit" /\ (A \o B)[1] = A[1]
    BY <1>2, <1>4, <2>1
  <2> QED
    BY <1>4, <2>1, <2>2
<1>7. 1 \in Session!RunsOf(<<"unit">> \o Session!RunLog(u))
  <2>1. \A s \in Seq({"unit", "Main"}) :
          1 \in DOMAIN (<<"unit">> \o s) /\ (<<"unit">> \o s)[1] = "unit"
    OBVIOUS
  <2>2. Session!RunLog(u) \in Seq({"unit", "Main"})
    BY <1>1, <1>4
  <2>3. LET s == <<"unit">> \o Session!RunLog(u) IN 1 \in DOMAIN s /\ s[1] = "unit"
    BY <2>1, <2>2
  <2> QED
    BY <2>3 DEF Session!RunsOf
<1>8. ASSUME NEW s, s = A \o B
      PROVE  /\ Session!RunsOf(s) \subseteq {1}
             /\ Session!Executes(u) => 1 \in Session!RunsOf(s)
  <2>1. \A i : i \in Session!RunsOf(s) <=> i \in DOMAIN s /\ s[i] = "unit"
    BY DEF Session!RunsOf
  <2>2. /\ \A i \in DOMAIN s : s[i] = "unit" => i = 1
        /\ Session!Executes(u) => 1 \in DOMAIN s /\ s[1] = "unit"
    BY <1>5, <1>6, <1>8
  <2> QED
    BY <2>1, <2>2
<1> QED
  BY <1>1, <1>7, <1>8

\* The value of a correct expression is printed; a correct text is run as often as it
\* should be; and nothing but a break is pending.
LEMMA ProcessAnswers ==
  ASSUME NEW t, signal \in {"None", "Break"}, Session!Submit(t)
  PROVE  /\ signal' \in {"None", "Break"}
         /\ Session!ValuesArePrinted' /\ Session!CorrectTextsRun'
         /\ last'.how = "typed" /\ last'.text = t
<1> DEFINE u == Session!Parsed(t)
           errs == Session!Fails(u)
           evaluated == u.kind = "expr" /\ ~ errs
<1>1. ASSUME NEW log, NEW printed, Session!Note("typed", t, u, log, printed)
      PROVE  /\ last'.how = "typed" /\ last'.text = t /\ last'.unit = u /\ last'.before = signal
             /\ last'.log = log /\ last'.printed = printed
  BY <1>1 DEF Session!Note
<1>2. Session!RunsOf(<<"unit">>) = {1}
  BY DEF Session!RunsOf
<1>3. ASSUME Session!Run(u) PROVE signal' \in {"None", "Break"}
  BY <1>3 DEF Session!Run, Session!Left
<1>4. Session!Process(t, errs)
  BY DEF Session!Submit
<1> HIDE DEF u
<1>5. /\ Session!RunsOf(Session!RunLog(u)) \subseteq {1}
      /\ Session!Executes(u) => 1 \in Session!RunsOf(Session!RunLog(u))
      /\ 1 \in Session!RunsOf(<<"unit">> \o Session!RunLog(u))
  BY RunLogIs
<1>6. CASE evaluated /\ u.ends = "throw" /\ Session!Note("typed", t, u, <<"unit">>, FALSE)
           /\ UNCHANGED Session!interp
  <2>1. /\ last'.how = "typed" /\ last'.text = t /\ last'.unit = u
        /\ last'.log = <<"unit">> /\ last'.printed = FALSE
    BY <1>1, <1>6
  <2>2. Session!RunsOf(last'.log) = {1}
    BY <1>2, <2>1
  <2> QED
    BY <1>6, <2>1, <2>2
       DEF Session!ValuesArePrinted, Session!CorrectTextsRun, Session!RunsOf, Session!interp
<1>7. CASE evaluated /\ u.value /\ Session!Note("typed", t, u, <<"unit">>, TRUE)
           /\ UNCHANGED Session!interp
  <2>1. /\ last'.how = "typed" /\ last'.text = t /\ last'.unit = u
        /\ last'.log = <<"unit">> /\ last'.printed = TRUE
    BY <1>1, <1>7
  <2>2. Session!RunsOf(last'.log) = {1}
    BY <1>2, <2>1
  <2> QED
    BY <1>7, <2>1, <2>2
       DEF Session!ValuesArePrinted, Session!CorrectTextsRun, Session!RunsOf, Session!interp
<1>8. CASE evaluated /\ ~ u.value /\ Session!Run(u)
           /\ Session!Note("typed", t, u, <<"unit">> \o Session!RunLog(u), FALSE)
  <2>1. /\ last'.how = "typed" /\ last'.text = t /\ last'.unit = u
        /\ last'.log = <<"unit">> \o Session!RunLog(u)
    BY <1>1, <1>8
  <2>2. 1 \in Session!RunsOf(last'.log)
    BY <1>5, <2>1
  <2> QED
    BY <1>3, <1>8, <2>1, <2>2
       DEF Session!ValuesArePrinted, Session!CorrectTextsRun, Session!RunsOf
<1>9. CASE ~ evaluated /\ Session!Run(u)
           /\ Session!Note("typed", t, u, Session!RunLog(u), FALSE)
  <2>1. /\ last'.how = "typed" /\ last'.text = t /\ last'.unit = u /\ last'.before = signal
        /\ last'.log = Session!RunLog(u)
    BY <1>1, <1>9
  <2>2. /\ Session!RunsOf(last'.log) \subseteq {1}
        /\ Session!RunsOf(last'.log) = {} => last'.before = "Break"
    BY <1>5, <2>1 DEF Session!Executes
  <2>3. Session!ValuesArePrinted'
    BY <1>9, <2>1 DEF Session!ValuesArePrinted, Session!Fails
  <2> QED
    BY <1>3, <1>9, <2>1, <2>2, <2>3 DEF Session!CorrectTextsRun, Session!RunsOf
<1>10. CASE u.bad /\ Session!Note("typed", t, u, <<>>, FALSE) /\ UNCHANGED Session!interp
  <2>1. /\ last'.how = "typed" /\ last'.text = t /\ last'.unit = u /\ Session!Fails(u)
    BY <1>1, <1>10 DEF Session!Fails
  <2> QED
    BY <1>10, <2>1
       DEF Session!ValuesArePrinted, Session!CorrectTextsRun, Session!Fails, Session!interp
<1> QED
  BY <1>4, <1>6, <1>7, <1>8, <1>9, <1>10 DEF Session!Process, u

LEMMA AccumulateAnswers ==
  ASSUME SessionInv, NEW l \in SessionLines, Session!Accumulate(l, Append(acc, l))
  PROVE  SessionInv'
<1> DEFINE t == Append(acc, l)
           st == Session!scan_line(l, scan_st)
           n == Len(acc)
<1>1. /\ acc \in Seq(Session!Lines) /\ acc \in Seq(SessionLines) /\ n \in Nat
      /\ Scanned(scan_st, acc) /\ signal \in {"None", "Break"} /\ AllOpen(acc, n)
  BY DEF SessionInv, SessionLines, Session!TextsAreShortest, AllOpen
<1>2. /\ Scanned(st, t) /\ Session!needs_more_input(l, st) = ~Session!Complete(t)
      /\ AllOpen(t, n) /\ SubSeq(t, 1, n + 1) = t
  BY <1>1, ScanMore, PrefixesOpen
<1>3. Len(t) = n + 1
  BY <1>1
<1>4. \/ /\ ~Session!Complete(t) /\ acc' = (IF l = Session!Empty THEN acc ELSE t) /\ scan_st' = st
         /\ last' = Session!Nothing /\ signal' = signal
      \/ /\ Session!Complete(t) /\ acc' = <<>> /\ scan_st' = Session!ScanState
         /\ Session!Submit(t)
  BY <1>2 DEF Session!Accumulate, Session!interp
<1>5. l = Session!Empty => Scanned(st, acc)
  <2>1. \A d : \A what \in {"begin", "end"} : ~Session!Does(Session!Empty, what, d)
    BY DEF Session!Does, Session!Empty
  <2>2. /\ scan_st.in_block_comment \in BOOLEAN
        /\ scan_st.brace_depth \in Int /\ scan_st.paren_depth \in Int
    <3>1. \A what, d : Session!Count(acc, what, d) \in Nat
      BY <1>1, CountMore
    <3>2. Session!InComment(acc, n + 1) \in BOOLEAN
      BY DEF Session!InComment
    <3> QED
      BY <1>1, <3>1, <3>2 DEF Scanned
  <2>3. ASSUME l = Session!Empty
        PROVE  /\ st.in_block_comment = scan_st.in_block_comment
               /\ st.brace_depth = scan_st.brace_depth
               /\ st.paren_depth = scan_st.paren_depth
    <3>1. \A d : Session!Change(l, d) = 0
      BY <2>1, <2>3 DEF Session!Change
    <3>2. /\ st.brace_depth = scan_st.brace_depth + 0
          /\ st.paren_depth = scan_st.paren_depth + 0
      BY <3>1 DEF Session!scan_line
    <3>3. st.in_block_comment = (scan_st.in_block_comment \/ FALSE)
      BY <2>1, <2>2, <2>3 DEF Session!scan_line
    <3> QED
      BY <2>2, <3>2, <3>3
  <2> QED
    BY <1>1, <2>3 DEF Scanned
<1> HIDE DEF t, st, n
<1>6. CASE /\ ~Session!Complete(t) /\ acc' = (IF l = Session!Empty THEN acc ELSE t) /\ scan_st' = st
           /\ last' = Session!Nothing /\ signal' = signal
  <2>1. acc' \in Seq(Session!Lines) /\ Scanned(scan_st', acc') /\ AllOpen(acc', Len(acc'))
    <3>1. CASE l = Session!Empty
      BY <1>1, <1>5, <1>6, <3>1 DEF n
    <3>2. CASE l # Session!Empty
      <4>1. acc' = t /\ t \in Seq(Session!Lines)
        BY <1>1, <1>6, <3>2 DEF t, SessionLines
      <4>2. AllOpen(t, n + 1)
        <5>1. \A i \in 1 .. n + 1 : i = n + 1 \/ i \in 1 .. n
          BY <1>1
        <5> QED
          BY <1>2, <1>6, <5>1 DEF AllOpen
      <4> QED
        BY <1>2, <1>3, <1>6, <4>1, <4>2
    <3> QED
      BY <3>1, <3>2
  <2>2. last'.how # "typed"
    BY <1>6 DEF Session!Nothing
  <2> QED
    BY <1>1, <1>6, <2>1, <2>2
       DEF SessionInv, Session!TextsAreShortest, Session!ValuesArePrinted, Session!CorrectTextsRun,
           AllOpen
<1>7. CASE /\ Session!Complete(t) /\ acc' = <<>> /\ scan_st' = Session!ScanState
           /\ Session!Submit(t)
  <2>1. /\ signal' \in {"None", "Break"}
        /\ Session!ValuesArePrinted' /\ Session!CorrectTextsRun'
        /\ last'.how = "typed" /\ last'.text = t
    BY <1>1, <1>7, ProcessAnswers
  <2>2. acc' \in Seq(Session!Lines) /\ Len(acc') = 0 /\ Scanned(scan_st', acc')
    BY <1>7, NothingScanned
  <2>3. Session!TextsAreShortest'
    <3>1. Len(last'.text) - 1 = n
      BY <1>1, <1>3, <2>1
    <3> QED
      BY <1>2, <1>7, <2>1, <2>2, <3>1 DEF Session!TextsAreShortest, AllOpen
  <2> QED
    BY <2>1, <2>2, <2>3 DEF SessionInv
<1> QED
  BY <1>4, <1>6, <1>7

\* The commands change neither the text nor what became of the last one typed.
LEMMA CommandAnswers ==
  ASSUME SessionInv, acc' = acc, scan_st' = scan_st, signal' \in {"None", "Break"},
         last' = last \/ last'.how # "typed"
  PROVE  SessionInv'
BY DEF SessionInv, Session!TextsAreShortest, Session!ValuesArePrinted, Session!CorrectTextsRun

LEMMA RunCommand ==
  ASSUME signal \in {"None", "Break"}, NEW u, NEW how \in {"load", "import"},
         Session!RunUnlessErrors(how, u)
  PROVE  signal' \in {"None", "Break"} /\ last'.how # "typed"
BY DEF Session!RunUnlessErrors, Session!Note, Session!Run, Session!Left, Session!interp

LEMMA SessionStep ==
  ASSUME SessionInv, [Session!Next]_(Session!vars)
  PROVE  SessionInv'
<1>1. signal \in {"None", "Break"}
  BY DEF SessionInv
<1>2. CASE \E l \in Session!Lines : Session!TypeLine(l)
  BY <1>2, AccumulateAnswers DEF Session!TypeLine, SessionLines
<1>3. CASE Session!ReadEmpty
  <2>1. CASE acc = <<>>
    BY <1>1, <1>3, <2>1, CommandAnswers DEF Session!ReadEmpty, Session!interp
  <2>2. CASE acc # <<>>
    BY <1>3, <2>2, AccumulateAnswers DEF Session!ReadEmpty, SessionLines
  <2> QED
    BY <2>1, <2>2
<1>4. ASSUME NEW u \in Units, Session!Load(u) \/ Session!ImportOrTime(u)
      PROVE  /\ signal' \in {"None", "Break"} /\ last'.how # "typed"
             /\ acc' = acc /\ scan_st' = scan_st
  BY <1>1, <1>4, RunCommand DEF Session!Load, Session!ImportOrTime
<1>5. CASE Session!Reset \/ Session!TypeBlanks
  BY <1>1, <1>5, CommandAnswers DEF Session!Reset, Session!TypeBlanks, Session!interp
<1>6. CASE Session!Quit \/ Session!EndInput \/ Session!Over \/ UNCHANGED Session!vars
  BY <1>1, <1>6, CommandAnswers
     DEF Session!Quit, Session!EndInput, Session!Over, Session!vars, Session!interp
<1> QED
  BY <1>2, <1>3, <1>4, <1>5, <1>6, CommandAnswers
     DEF Session!Next, Session!TypeEmpty, Session!ReadAtEof

\* For any programs, typed on any number of lines in any order, whatever is pending:
\* a text is handed over at the first line that leaves nothing open, braces,
\* parentheses and comments counted apart; the value of a correct expression is
\* printed, and the expression evaluated once; any other correct text is run, except
\* while a break is pending, and once, except for an expression without a value.
THEOREM TextsAreAnsweredHolds == Session!Spec => []TextsAreAnswered
<1>1. Session!Init => SessionInv
  <2> SUFFICES ASSUME Session!Init PROVE SessionInv
    OBVIOUS
  <2>1. acc = <<>> /\ scan_st = Session!ScanState /\ signal = "None" /\ last.how = "none"
    BY DEF Session!Init, Session!Nothing
  <2>2. acc \in Seq(Session!Lines) /\ Len(acc) = 0 /\ Scanned(scan_st, acc)
    BY <2>1, NothingScanned
  <2> QED
    BY <2>1, <2>2
       DEF SessionInv, Session!TextsAreShortest, Session!ValuesArePrinted, Session!CorrectTextsRun
<1>2. SessionInv /\ [Session!Next]_(Session!vars) => SessionInv'
  BY SessionStep
<1>3. SessionInv => TextsAreAnswered
  BY DEF SessionInv, TextsAreAnswered
<1> QED
  BY <1>1, <1>2, <1>3, PTL DEF Session!Spec
=============================================================================
