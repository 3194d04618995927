---------------------------- MODULE MCExecution -----------------------------
(***************************************************************************)
(* How a program is executed.  By the tree-walk interpreter: its statement *)
(* walker (InterpControl) and the variables it keeps (VarStore).  As       *)
(* compiled code: the blocks of a function (Codegen), the buffer of        *)
(* variadic arguments (VarArgs) and the layout of classes, which the       *)
(* interpreter computes a second time (ClassLayout).  And by both: what    *)
(* the operators compute (Operators).  The models share no state, so a     *)
(* behaviour is about one of them, which names.                            *)
(*                                                                         *)
(* Variables: two functions, Main and the top level share the names x and  *)
(* y.  The buffer has two slots and a call passes up to three arguments,   *)
(* so that a call fills the buffer and one overruns it.  The bit-fields    *)
(* share a word, end it and fill all but a part of it.                     *)
(*                                                                         *)
(* The proof modules are extended, so that what the runs check is the very *)
(* property that their theorems state.                                     *)
(***************************************************************************)
EXTENDS ExecutionProofs, CodegenProofs

CONSTANTS
  Parts,                                            \* the models that are run
  UnaryOps                                                      \* Operators

VARIABLES
  which,
  type, vals, mem, parted                                                \* Operators

\* The fields of the classes that are laid out.
MCBitFields == {<<8, 4>>, <<1, 4>>, <<8, 61>>}
MCUnionSizes == {<<8, 8>>, <<1>>, <<1, 8>>}

Ops == INSTANCE Operators
  WITH Width <- 3, Narrow <- 2, Names <- {"u", "v"}, Unaries <- UnaryOps,
       DeclTypes <- {[bits |-> 3, signed |-> TRUE], [bits |-> 3, signed |-> FALSE],
                     [bits |-> 2, signed |-> TRUE]}

storeVars == <<decls, var_frames, globals, staticVars, var_func, calls, known, seen>>
codeVars == <<code_prog, todo, code, ins, breakTo, continueTo, phase, stack, tryStack>>
varArgVars == <<va_stack, va_buf, va_n>>
layoutVars == <<fields, off, tmp, word, bit, run, start, ancestors>>
operatorVars == <<type, vals, mem, parted>>

-----------------------------------------------------------------------------
(* Small programs for TLC: a few shapes of statement trees whose holes are  *)
(* filled in every way with statements that redirect control.               *)

MCFuncs == {"F", "G"}
MCLabels == {"A"}

\* A statement before its parent is known.
St(kind, kids, e) ==
  [kind |-> kind, kids |-> kids, expr |-> e, init |-> Pure, post |-> Pure,
   name |-> IF kind \in {"goto", "label"} THEN "A" ELSE NoLabel,
   entries |-> IF kind = "switch" THEN DOMAIN kids ELSE {},
   dflt |-> FALSE]

Block(kids) == St("compound", kids, Pure)
Do(e) == St("simple", <<>>, e)

\* Statements that fill holes.
Fill(h) ==
  CASE h \in Exprs -> Do(h)
    [] h = "return" -> St("return", <<>>, Pure)
    [] h = "return F" -> St("return", <<>>, "F")
    [] h \in {"break", "continue", "goto"} -> St(h, <<>>, Pure)

Parent(sts, n) ==
  LET ps == {m \in DOMAIN sts : \E i \in DOMAIN sts[m].kids : sts[m].kids[i] = n}
  IN  IF ps = {} THEN 0 ELSE CHOOSE m \in ps : TRUE

Program(sts, f, g, main, top) ==
  [node |-> [n \in DOMAIN sts |->
               [kind |-> sts[n].kind, kids |-> sts[n].kids, expr |-> sts[n].expr,
                init |-> sts[n].init, post |-> sts[n].post, name |-> sts[n].name,
                entries |-> sts[n].entries, dflt |-> sts[n].dflt,
                up |-> Parent(sts, n)]] \o <<>>,
   body |-> [x \in Funcs |-> IF x = "F" THEN f ELSE g],
   main |-> main, top |-> top]

\* F() { loop (post) { a; b } d; A: c; }   G() { g }   Main() { F(); }
LoopShape(kind, post, g, a, b, c, d) ==
  Program(<< Block(<<2, 7, 6>>), [St(kind, <<3>>, Pure) EXCEPT !.post = post],
             Block(<<4, 5>>), Fill(a), Fill(b), St("label", <<8>>, Pure),
             Fill(d), Fill(c),
             Block(<<10>>), Do(g),
             Block(<<12>>), Do("F"), Block(<<>>) >>, 1, 9, 11, 13)

\* F() { A: a; try { if (x) b; else c; } catch { d } e }   G() { throw }
\* Main() { F(); }
TryShape(a, b, c, d, e) ==
  Program(<< Block(<<2, 3, 4>>), St("label", <<5>>, Pure),
             St("try", <<6, 7>>, Pure), Fill(e), Fill(a),
             Block(<<8>>), Block(<<11>>), St("if", <<9, 10>>, Pure),
             Fill(b), Fill(c), Fill(d),
             Block(<<13>>), Do(Throw),
             Block(<<15>>), Do("F"), Block(<<>>) >>, 1, 12, 14, 16)

\* F() { while (cond) { switch (x) { case: a; b; case: c } d } }
\* G() { return F(); }   Main() { F(); }
SwitchShape(cond, a, b, c, d, dflt) ==
  Program(<< Block(<<2>>), St("while", <<3>>, cond), Block(<<4, 5>>),
             [St("switch", <<6, 7, 8>>, Pure) EXCEPT !.entries = {1, 3},
                                                     !.dflt = dflt],
             Fill(d), Fill(a), Fill(b), Fill(c),
             Block(<<10>>), Fill("return F"),
             Block(<<12>>), Do("F"), Block(<<>>) >>, 1, 9, 11, 13)

\* try { F(); } catch { a } b    F() { c }   G() { try { d } catch { F(); } e }
\* Main() { G(); return; } and b before the try, or no Main
TopShape(main, a, b, c, d, e) ==
  Program(<< Block(IF main THEN <<3, 2>> ELSE <<2, 3>>), St("try", <<4, 5>>, Pure), Fill(b),
             Block(<<6>>), Block(<<7>>), Do("F"), Fill(a),
             Block(<<9>>), Fill(c),
             Block(<<11, 12>>), St("try", <<13, 14>>, Pure), Fill(e),
             Block(<<15>>), Block(<<16>>), Fill(d), Do("F"),
             Block(<<18, 19>>), Do("G"), Fill("return") >>,
          8, 10, IF main THEN 17 ELSE 0, 1)

\* F() { while (x) { try { a; try { b } catch { c } G(); } catch { d } e } }
\* G() { g }   Main() { F(); }
NestShape(a, b, c, d, e, g) ==
  Program(<< Block(<<2>>), St("while", <<3>>, Pure), Block(<<4, 5>>),
             St("try", <<6, 7>>, Pure), Fill(e), Block(<<8, 9, 10>>), Block(<<11>>),
             Fill(a), St("try", <<12, 13>>, Pure), Do("G"), Fill(d),
             Block(<<14>>), Block(<<15>>), Fill(b), Fill(c),
             Block(<<17>>), Do(g),
             Block(<<19>>), Do("F"), Block(<<>>) >>, 1, 16, 18, 20)

Build(id) ==
  CASE id[1] = "loop" -> LoopShape(id[2], id[3], id[4], id[5], id[6], id[7], id[8])
    [] id[1] = "try" -> TryShape(id[2], id[3], id[4], id[5], id[6])
    [] id[1] = "switch" -> SwitchShape(id[2], id[3], id[4], id[5], id[6], id[7])
    [] id[1] = "top" -> TopShape(id[2], id[3], id[4], id[5], id[6], id[7])
    [] id[1] = "nest" -> NestShape(id[2], id[3], id[4], id[5], id[6], id[7])

Identifiers ==
  ({"loop"} \X Loops \X {Pure, "G"} \X {Pure, Throw}
     \X {Pure, "G", "goto", "continue"}
     \X {Pure, "break", "return"} \X {Pure, "goto"} \X {"F", "return"})
  \cup ({"try"} \X {Pure, "G"} \X {"goto", Throw, "return F"}
     \X {Pure, "return", "G"} \X {"goto", Pure} \X {"goto", Throw, "F"})
  \cup ({"switch"} \X {Pure, "G"} \X {Pure, "continue", "F"}
     \X {Pure, "break", "return"} \X {"continue", "break", "G"}
     \X {Pure, "break"} \X BOOLEAN)
  \cup ({"top"} \X BOOLEAN \X {Pure, "G", "return"}
     \X {Pure, "F", Throw, "return"} \X {Pure, Throw, "G"} \X {Throw, "F"} \X {"return", "F"})

Nests ==
  {"nest"} \X {Pure, "G", "return"} \X {Pure, "G", Throw, "break"}
    \X {Pure, Throw, "continue"} \X {Pure, "break", "return", Throw}
    \X {Pure, "break", Throw} \X {Pure, Throw}

Only(Ids, Good(_)) ==
  {p \in {Build(id) : id \in Ids} : CLegal(p) /\ Good(p)}

-----------------------------------------------------------------------------
\* What is fixed where another model is run.
AnyProgram == CHOOSE p \in Programs : TRUE
AnyDeclared == CHOOSE d \in VarPrograms : TRUE
AnyCompiled == Build(<<"switch", Pure, Pure, "break", "continue", Pure, TRUE>>)

ExecInit ==
  /\ which \in Parts
  /\ which # "control" => prog = AnyProgram
  /\ which # "variables" => decls = AnyDeclared
  /\ which # "operators" => type = [x \in {"u", "v"} |-> Ops!I64]
  /\ Init /\ Vars!Init /\ VA!Init /\ Layout!Init /\ Ops!Init
  /\ IF which = "code" THEN Code!Init ELSE Code!InitOf(AnyCompiled)

ExecNext ==
  /\ UNCHANGED which
  /\ IF which = "control" THEN Next ELSE UNCHANGED vars
  /\ IF which = "variables" THEN Vars!Next ELSE UNCHANGED storeVars
  /\ IF which = "code" THEN Code!Next ELSE UNCHANGED codeVars
  /\ IF which = "varargs" THEN VA!Next ELSE UNCHANGED varArgVars
  /\ IF which = "layout" THEN Layout!Next ELSE UNCHANGED layoutVars
  /\ IF which = "operators" THEN Ops!Next ELSE UNCHANGED operatorVars

ExecSpec ==
  ExecInit
  /\ [][ExecNext]_<<which, vars, storeVars, codeVars, varArgVars, layoutVars,
                    operatorVars>>

-----------------------------------------------------------------------------
\* Jumps that stay clear of loops and of calls ended by an exception.
FlowPrograms == Only(Identifiers, Safe)
OneProgram == {AnyCompiled}

\* A jump out of a loop, and no exception.
LoopJump(p) == ThrowFree(p) /\ HasGoto(p)
LoopJumpPrograms == Only(Identifiers, LoopJump)

\* Compiled: jumps stay within the try bodies they are in, or one may leave.
InScope(p) == Compilable(p) /\ NoJumpOutOfTry(p)
CompiledPrograms == Only(Identifiers \cup Nests, InScope)
JumpingOut(p) == Compilable(p) /\ ~NoJumpOutOfTry(p)
JumpingPrograms == Only(Identifiers \cup Nests, JumpingOut)

\* What the top level, Main, F and G declare.
MCNames == {"x", "y"}
Declares(top, main, f, g) ==
  [b \in {"top level", "Main", "F", "G"} |->
     CASE b = "top level" -> top [] b = "Main" -> main [] b = "F" -> f [] b = "G" -> g]
Declared(top, autos, statics) ==
  [autos |-> Declares(top, autos[1], autos[2], autos[3]),
   statics |-> Declares({}, statics[1], statics[2], statics[3]),
   crossing |-> FALSE, rethrow |-> FALSE]

\* One name global and the other local here and static there, or both names
\* local to several functions: no capture, no exception leaves its call.
DisjointPrograms ==
  {Declared({"x"}, <<{"y"}, {"y"}, {}>>, <<{}, {}, {"y"}>>),
   Declared({"x"}, <<{}, {}, {"y"}>>, <<{"y"}, {"y"}, {}>>),
   Declared({}, <<{"x"}, {"x"}, {}>>, <<{}, {}, {"x"}>>)}

\* A function may have a local of the name of a global; nothing is thrown out
\* of a call.
CapturePrograms == {Declared({"x"}, <<{"x"}, {}, {}>>, <<{}, {}, {}>>)}

\* A function may throw and catch while its caller runs a catch clause.
RethrowPrograms == {[Declared({}, <<{}, {}, {}>>, <<{}, {}, {}>>) EXCEPT !.rethrow = TRUE]}

-----------------------------------------------------------------------------
\* Codegen: the jmp_bufs of the runtime are those of the try bodies the program is in.
TryStackMatches == Code!TryStackMatches

\* Codegen: the blocks that are generated run as the source reads.
CodeImplementsControlFlow == Code!ImplementsControlFlow

\* The comment of __holyc_throw: it throws "to the nearest try block".
ThrowReachesNearestTry == Code!ThrowReachesNearestTry

\* docs.html: an I32 field has four bytes; storing to it leaves the next alone.
StoresOnlyItsField == Layout!StoresOnlyItsField

\* Operators: compiled code and the interpreter compute the same words, through any
\* sequence of operators whose numbers the types hold and whose result is defined.
ResultsAgree == Ops!ResultsAgree
=============================================================================
