------------------------------ MODULE JITCache ------------------------------
(***************************************************************************)
(* The bitcode cache of hcc --jit, shared by compilers that run at the     *)
(* same time, crash and start again: Mode::JIT of main with the lookup and *)
(* store of JITCache.                                                      *)
(*                                                                         *)
(* A module is the product of a source text and of its context: the files  *)
(* it includes and the options -D, -I and -g.  The key of a module is its  *)
(* source text (with the target and the version, which do not vary here).  *)
(* A file holds a whole module, or something torn.                         *)
(***************************************************************************)
CONSTANTS
  Procs,     \* the process identifiers
  Sources,   \* the source texts, which are the keys
  Contexts,  \* what else a module depends on
  None,      \* no file, or nothing run yet
  Torn       \* a file that holds no whole module

VARIABLES
  cache,   \* for each key the file <key>.bc
  tmp,     \* for each key and process the file <key>.bc.tmp.<pid>
  pc,      \* where each process is
  src,     \* the source text it compiles
  ctx,     \* the context it has read
  ran,     \* the module it has run, None at first
  filled   \* history: a write has failed for want of space

vars == <<cache, tmp, pc, src, ctx, ran, filled>>

Module == [src : Sources, ctx : Contexts]
Files == Module \cup {None, Torn}

ASSUME NotModules == None # Torn /\ {None, Torn} \cap Module = {}

Steps == {"idle", "parse", "lookup", "read", "generate", "open", "write",
          "rename", "failed", "run", "ended"}

Own(p) == [src |-> src[p], ctx |-> ctx[p]]
Goto(p, step) == pc' = [pc EXCEPT ![p] = step]
Files_unchanged == UNCHANGED <<cache, tmp, filled>>

\* A process starts and loads the source text.
Begin(p) ==
  /\ pc[p] = "idle"
  /\ \E s \in Sources : src' = [src EXCEPT ![p] = s]
  /\ Goto(p, "parse")
  /\ UNCHANGED <<ctx, ran>> /\ Files_unchanged

\* The preprocessor, the parser and Sema read everything else; they may find errors.
Parse(p) ==
  /\ pc[p] = "parse"
  /\ \E c \in Contexts : ctx' = [ctx EXCEPT ![p] = c]
  /\ \E step \in {"lookup", "ended"} : Goto(p, step)
  /\ UNCHANGED <<src, ran>> /\ Files_unchanged

Lookup(p) ==
  /\ pc[p] = "lookup"
  /\ Goto(p, IF cache[src[p]] = None THEN "generate" ELSE "read")
  /\ UNCHANGED <<src, ctx, ran>> /\ Files_unchanged

\* MUTANT of ReadCached: what the file holds is not checked.
ReadCachedBlindly(p) ==
  /\ pc[p] = "read"
  /\ IF cache[src[p]] # None
     THEN ran' = [ran EXCEPT ![p] = cache[src[p]]] /\ Goto(p, "ended")
     ELSE Goto(p, "generate") /\ UNCHANGED ran
  /\ UNCHANGED <<src, ctx>> /\ Files_unchanged

\* MUTANT of ReadCached: a file that cannot be used is tried again.
ReadCachedAgain(p) ==
  /\ pc[p] = "read"
  /\ IF cache[src[p]] \in Module
     THEN ran' = [ran EXCEPT ![p] = cache[src[p]]] /\ Goto(p, "ended")
     ELSE UNCHANGED <<pc, ran>>
  /\ UNCHANGED <<src, ctx>> /\ Files_unchanged

\* The file is there no longer, or parseBitcodeFile refuses it: compile.
ReadCached(p) ==
  /\ pc[p] = "read"
  /\ IF cache[src[p]] \in Module
     THEN ran' = [ran EXCEPT ![p] = cache[src[p]]] /\ Goto(p, "ended")
     ELSE Goto(p, "generate") /\ UNCHANGED ran
  /\ UNCHANGED <<src, ctx>> /\ Files_unchanged

\* LLVMCodegen::generate, which may fail.
Generate(p) ==
  /\ pc[p] = "generate"
  /\ \E step \in {"open", "ended"} : Goto(p, step)
  /\ UNCHANGED <<src, ctx, ran>> /\ Files_unchanged

-----------------------------------------------------------------------------
(* store                                                                   *)

\* The directory or the file cannot be created: nothing is stored.
OpenTmp(p) ==
  /\ pc[p] = "open"
  /\ \/ tmp' = [tmp EXCEPT ![<<src[p], p>>] = Torn] /\ Goto(p, "write")
     \/ Goto(p, "run") /\ UNCHANGED tmp
  /\ UNCHANGED <<cache, src, ctx, ran, filled>>

\* The result of writing is not checked before the rename.
WriteBitcode(p) ==
  /\ pc[p] = "write"
  /\ \/ /\ tmp' = [tmp EXCEPT ![<<src[p], p>>] = Own(p)]
        /\ Goto(p, "rename")
        /\ UNCHANGED filled
     \/ /\ filled' = TRUE
        /\ Goto(p, "failed")
        /\ UNCHANGED tmp
  /\ UNCHANGED <<cache, src, ctx, ran>>

\* MUTANT of Rename: the file is copied to its place, which takes time.
RenameByCopy(p) ==
  /\ pc[p] \in {"rename", "failed"}
  /\ cache' = [cache EXCEPT ![src[p]] = Torn]
  /\ tmp' = [tmp EXCEPT ![<<src[p], p>>] = None]
  /\ Goto(p, IF pc[p] = "rename" THEN "run" ELSE "idle")
  /\ UNCHANGED <<src, ctx, ran, filled>>

\* The rename may fail, and removes the file then.  A stream that failed ends
\* the process when it is destroyed, after the rename.
Rename(p) ==
  /\ pc[p] \in {"rename", "failed"}
  /\ cache' \in {cache, [cache EXCEPT ![src[p]] = tmp[<<src[p], p>>]]}
  /\ tmp' = [tmp EXCEPT ![<<src[p], p>>] = None]
  /\ Goto(p, IF pc[p] = "rename" THEN "run" ELSE "idle")
  /\ UNCHANGED <<src, ctx, ran, filled>>

\* JIT::run of the module compiled.
RunOwn(p) ==
  /\ pc[p] = "run"
  /\ ran' = [ran EXCEPT ![p] = Own(p)]
  /\ Goto(p, "ended")
  /\ UNCHANGED <<src, ctx>> /\ Files_unchanged

Exit(p) ==
  /\ pc[p] = "ended"
  /\ ran' = [ran EXCEPT ![p] = None]
  /\ Goto(p, "idle")
  /\ UNCHANGED <<src, ctx>> /\ Files_unchanged

-----------------------------------------------------------------------------
(* The world around: a process is killed and leaves its files as they are; *)
(* the user deletes a cached file.                                         *)

Crash(p) ==
  /\ pc[p] \notin {"idle", "ended"}
  /\ Goto(p, "idle")
  /\ UNCHANGED <<src, ctx, ran>> /\ Files_unchanged

Delete(s) ==
  /\ cache[s] # None
  /\ cache' = [cache EXCEPT ![s] = None]
  /\ UNCHANGED <<tmp, pc, src, ctx, ran, filled>>

-----------------------------------------------------------------------------
Init ==
  /\ cache = [s \in Sources |-> None]
  /\ tmp = [f \in Sources \X Procs |-> None]
  /\ pc = [p \in Procs |-> "idle"]
  /\ src \in [Procs -> Sources]
  /\ ctx \in [Procs -> Contexts]
  /\ ran = [p \in Procs |-> None]
  /\ filled = FALSE

\* What a running process does next.
Step(p) ==
  \/ Parse(p) \/ Lookup(p) \/ ReadCached(p) \/ Generate(p) \/ OpenTmp(p)
  \/ WriteBitcode(p) \/ Rename(p) \/ RunOwn(p)

Next ==
  \/ \E p \in Procs : Begin(p) \/ Step(p) \/ Exit(p) \/ Crash(p)
  \/ \E s \in Sources : Delete(s)

\* The operating system runs every process that can run.
Fairness == \A p \in Procs : WF_vars(Step(p))

Spec == Init /\ [][Next]_vars /\ Fairness

-----------------------------------------------------------------------------
(* Properties.                                                             *)

TypeOK ==
  /\ cache \in [Sources -> Files]
  /\ tmp \in [Sources \X Procs -> Files]
  /\ pc \in [Procs -> Steps]
  /\ src \in [Procs -> Sources]
  /\ ctx \in [Procs -> Contexts]
  /\ ran \in [Procs -> Files]
  /\ filled \in BOOLEAN

\* Whatever other compilers do, wherever they are killed and however a write
\* fails, a process runs a whole module that was compiled from its own text.
RunsItsText == \A p \in Procs : ran[p] # None => ran[p] \in Module /\ ran[p].src = src[p]

\* "TOCTOU races से बचने के लिए atomic tmp-then-rename writes" (JITCache.h): a
\* reader of a cached file sees a whole module of that key, unless a write has
\* failed.
PublishedWhole ==
  \A s \in Sources :
    cache[s] # None => \/ cache[s] \in Module /\ cache[s].src = s
                       \/ filled /\ cache[s] = Torn

\* A process that stores renames a file it has filled itself, with its own
\* module, whatever a killed process left under the same name.
RenamesItsOwn == \A p \in Procs : pc[p] = "rename" => tmp[<<src[p], p>>] = Own(p)

\* Every compilation that is not killed comes to an end: a cached file that is
\* torn, or deleted between lookup and reading, never holds it up.
Terminates == \A p \in Procs : pc[p] = "parse" ~> pc[p] \in {"ended", "idle"}

\* "The cache key uses file content (not path), so stale cache entries are
\* impossible" (docs.html): what runs was compiled in the present context.
RunsItsContext == \A p \in Procs : ran[p] # None => ran[p].ctx = ctx[p]

\* What a process knows of its own variables and its temporary file: nobody
\* else writes them.
OwnFile(p) ==
  /\ pc[p] # "ended" => ran[p] = None
  /\ pc[p] = "write" => tmp[<<src[p], p>>] = Torn
  /\ pc[p] = "failed" => filled /\ tmp[<<src[p], p>>] = Torn

\* The inductive invariant behind the three invariants above.
CacheInv ==
  /\ TypeOK
  /\ PublishedWhole
  /\ RunsItsText
  /\ RenamesItsOwn
  /\ \A p \in Procs : OwnFile(p)
=============================================================================
