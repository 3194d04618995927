------------------------------ MODULE MCTools -------------------------------
(***************************************************************************)
(* What a user runs around the language: compilations that share the JIT   *)
(* cache (JITCache), a session of the REPL (Repl), the method calls of an  *)
(* interpreter whose classes are declared again and again (MethodCache),   *)
(* and the language server behind an editor (LspServer).  They share no    *)
(* state, so a behaviour is about one of them.                             *)
(*                                                                         *)
(* Two processes compile and may store under one key; the programs of the  *)
(* session end in every way a program can; the editor has two documents,   *)
(* one more than the server remembers a change of.                         *)
(*                                                                         *)
(* The proof module is extended, so that what the run checks is the very   *)
(* property that its theorems state.                                       *)
(***************************************************************************)
EXTENDS ToolProofs, TLC

CONSTANTS
  p1, p2,
  Subjects    \* the models that are run

VARIABLE which

MCProcs == {p1, p2}

Unit(kind, ends) ==
  [kind |-> kind, ends |-> ends, uses |-> {}, defines |-> {}, bad |-> FALSE,
   main |-> FALSE, value |-> FALSE, open |-> "none"]
MCGarbage == [Unit("stmts", "normally") EXCEPT !.bad = TRUE]
MCUnits ==
  {[Unit("decls", "normally") EXCEPT !.defines = {"x"}],          \* I64 x = 42;
   [Unit("decls", "normally") EXCEPT !.main = TRUE, !.open = "brace"],     \* U0 Main() {...}
   [Unit("expr", "normally") EXCEPT !.value = TRUE, !.open = "comment"],   \* 2 /* ... */ + 3;
   [Unit("expr", "normally") EXCEPT !.value = TRUE, !.uses = {"x"}, !.open = "paren"],
   Unit("expr", "normally"),                                      \* MemSet(p, 0, 8);
   Unit("expr", "complaint"), Unit("expr", "throw"),
   Unit("stmts", "break"), Unit("stmts", "return")}
MCLong == {u \in MCUnits : u.open # "none"}

replVars == <<acc, scan_st, errors, globals, hasMain, signal, eof, repl_pc, last>>
methodVars == <<functions_, class_decls_, method_cache_, called>>
lspVars == <<inbox, text, tree, pending, snapshot, due, initialized, lsp_pc,
             shown, editor, edits, recent>>
toolVars == <<which, vars, replVars, methodVars, lspVars>>

ToolsInit ==
  /\ which \in Subjects
  /\ Init /\ Session!Init /\ Method!Init /\ Lsp!Init
  /\ which # "jit" => \A p, q \in Procs : src[p] = src[q] /\ src[p] = "a"

ToolsNext ==
  /\ UNCHANGED which
  /\ IF which = "jit" THEN Next ELSE UNCHANGED vars
  /\ IF which = "repl" THEN Session!Next ELSE UNCHANGED replVars
  /\ IF which = "methods" THEN Method!Next ELSE UNCHANGED methodVars
  /\ IF which = "lsp" THEN Lsp!Next ELSE UNCHANGED lspVars

\* The fairness of each: JITCache!Fairness, and that of Repl!Spec and LspServer.
ToolsFairness ==
  /\ \A p \in Procs : WF_vars(which = "jit" /\ Step(p))
  /\ WF_replVars(which = "repl" /\ Session!ReadAtEof)
  /\ WF_lspVars(which = "lsp" /\ Lsp!Serve)
  /\ WF_lspVars(which = "lsp" /\ Lsp!Tick)

ToolsSpec == ToolsInit /\ [][ToolsNext]_toolVars /\ ToolsFairness

-----------------------------------------------------------------------------
\* Repl: the end of the input ends the session, as its banner says.  It does not: not in
\* the middle of a text, and not at the prompt of a build with readline.
CtrlDExits == which = "repl" => Session!CtrlDExits

\* LspServer: the diagnostics keep up with the edits.
KeepsUp == which = "lsp" => Lsp!KeepsUp
=============================================================================
