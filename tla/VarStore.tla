------------------------------ MODULE VarStore ------------------------------
(***************************************************************************)
(* The variables of the tree-walk interpreter: the frames of call_stack_,  *)
(* globals_, the statics and their keys, and what execDecl, setVar, getVar *)
(* and evalCall do to them.                                                *)
(*                                                                         *)
(* A variable is looked up by its name at run time, in the newest frame    *)
(* that has it.  A step picks what the program does next: a declaration,   *)
(* an assignment, a read, a call, a return, a try or a throw.  That Sema   *)
(* knows every name a body uses is the guard of assignments and reads.     *)
(***************************************************************************)
EXTENDS Naturals, Sequences, FiniteSetsExt

CONSTANTS
  Funcs,      \* the functions that are called
  Names,      \* the variable names
  MaxVal,     \* values are 0..MaxVal, 0 the default
  Absent,     \* no value, not one of Values
  Programs,   \* the programs, members of Declarations
  MaxFrames,  \* bound on frames, far below kMaxCallDepth
  MaxBlocks   \* bound on nested try and catch blocks of an activation

VARIABLES
  decls,      \* the program
  frames,     \* call_stack_
  globals,    \* globals_
  staticVars, \* static_vars_; a value is absent until static_initialized_ has the key
  curFunc,    \* current_func_name_
  calls,      \* the C++ stack: the active functions, the running one last
  known,      \* top-level names declared so far
  seen        \* the value read last

vars == <<decls, frames, globals, staticVars, curFunc, calls, known, seen>>

Main == "Main"
TopLevel == "top level"
Bodies == Funcs \cup {Main, TopLevel}
Values == 0..MaxVal
Codes == 1..MaxVal
Try == 0        \* a try block being executed; a catch clause is its code

(***************************************************************************)
(* autos and statics: the names a body declares.  crossing: an exception   *)
(* may leave the function that raises it.  rethrow: one may be raised      *)
(* while some catch clause is running.                                     *)
(***************************************************************************)
Declarations == [autos : [Bodies -> SUBSET Names], statics : [Bodies -> SUBSET Names],
                 crossing : BOOLEAN, rethrow : BOOLEAN]

\* No name means two variables to one body: a body's own variables are not
\* those of the top level, nor declared twice.
NoCapture(d) ==
  \A f \in Bodies \ {TopLevel} :
    /\ d.autos[f] \cap d.statics[f] = {}
    /\ (d.autos[f] \cup d.statics[f]) \cap d.autos[TopLevel] = {}

ExceptCode == "__except_code"
Stored == Names \cup {ExceptCode}

NoName == "no name"          \* the empty current_func_name_
Keys == (Funcs \cup {NoName}) \X Names
NoKey == <<>>

Frame == [vars : [Stored -> Values \cup {Absent}], keys : [Stored -> Keys \cup {NoKey}]]
EmptyFrame == [vars |-> [n \in Stored |-> Absent], keys |-> [n \in Stored |-> NoKey]]

(***************************************************************************)
(* func: the function; base: the frame pushed for it, 0 at top level;      *)
(* saved: saved_func_name; declared: the names it has declared; blocks:    *)
(* its try blocks and catch clauses.                                       *)
(***************************************************************************)
Activation == [func : Bodies, base : Nat, saved : Funcs \cup {NoName},
               declared : SUBSET Names, blocks : Seq(Values)]

Begin(f, base) == [func |-> f, base |-> base, saved |-> curFunc,
                   declared |-> {}, blocks |-> <<>>]
Running == calls[Len(calls)]
Update(a) == calls' = [calls EXCEPT ![Len(calls)] = a]

-----------------------------------------------------------------------------
(* setVar and getVar.                                                      *)

Holds(fr, n) == fr.keys[n] # NoKey \/ fr.vars[n] # Absent
Holders(n) == {k \in DOMAIN frames : Holds(frames[k], n)}
\* MUTANT of Newest: the frames are searched from the oldest.
NewestIsOldest(n) == Min(Holders(n))
Newest(n) == Max(Holders(n))

\* The static of a frame hides its variable of the same name.
SetIn(k, n, v) ==
  \/ /\ frames[k].keys[n] # NoKey
     /\ staticVars' = [staticVars EXCEPT ![frames[k].keys[n]] = v]
     /\ UNCHANGED <<frames, globals>>
  \/ /\ frames[k].keys[n] = NoKey
     /\ frames' = [frames EXCEPT ![k].vars[n] = v]
     /\ UNCHANGED <<globals, staticVars>>

SetGlobal(n, v) ==
  /\ globals' = [globals EXCEPT ![n] = v]
  /\ UNCHANGED <<frames, staticVars>>

setVar(n, v) ==
  \/ Holders(n) # {} /\ SetIn(Newest(n), n, v)
  \/ Holders(n) = {} /\ globals[n] # Absent /\ SetGlobal(n, v)
  \/ Holders(n) = {} /\ globals[n] = Absent /\ frames # <<>> /\ SetIn(Len(frames), n, v)
  \/ Holders(n) = {} /\ globals[n] = Absent /\ frames = <<>> /\ SetGlobal(n, v)

Default(v) == IF v = Absent THEN 0 ELSE v

getVar(n) ==
  IF Holders(n) = {} THEN Default(globals[n])
  ELSE LET fr == frames[Newest(n)]
       IN  IF fr.keys[n] # NoKey THEN Default(staticVars[fr.keys[n]]) ELSE fr.vars[n]

-----------------------------------------------------------------------------
(* execDecl of a variable.                                                 *)

Declared(n) ==
  /\ known' = IF Running.func = TopLevel THEN known \cup {n} ELSE known
  /\ Update([Running EXCEPT !.declared = @ \cup {n}])

Declare(n, v) ==
  /\ calls # <<>> /\ n \in decls.autos[Running.func]
  /\ \/ /\ frames # <<>>
        /\ frames' = [frames EXCEPT ![Len(frames)].vars[n] = v]
        /\ UNCHANGED globals
     \/ /\ frames = <<>>
        /\ globals' = [globals EXCEPT ![n] = v]
        /\ UNCHANGED frames
  /\ Declared(n)
  /\ UNCHANGED <<decls, staticVars, curFunc, seen>>

DeclareStatic(n, v) ==
  /\ calls # <<>> /\ n \in decls.statics[Running.func]
  /\ staticVars' = [staticVars EXCEPT ![<<curFunc, n>>] = IF @ = Absent THEN v ELSE @]
  /\ frames' = IF frames = <<>> THEN frames
               ELSE [frames EXCEPT ![Len(frames)].keys[n] = <<curFunc, n>>]
  /\ Declared(n)
  /\ UNCHANGED <<decls, globals, curFunc, seen>>

-----------------------------------------------------------------------------
(* assignToExpr and evalExpr of an identifier.                             *)

Resolves(n) == calls # <<>> /\ n \in Running.declared \cup known

Assign(n, v) ==
  /\ Resolves(n)
  /\ setVar(n, v)
  /\ UNCHANGED <<decls, curFunc, calls, known, seen>>

Read(n) ==
  /\ Resolves(n)
  /\ seen' = getVar(n)
  /\ UNCHANGED <<decls, frames, globals, staticVars, curFunc, calls, known>>

\* A catch clause names __except_code, which Sema declares in it.
Catching == \E b \in DOMAIN Running.blocks : Running.blocks[b] # Try

ReadCode ==
  /\ calls # <<>> /\ Catching
  /\ seen' = getVar(ExceptCode)
  /\ UNCHANGED <<decls, frames, globals, staticVars, curFunc, calls, known>>

-----------------------------------------------------------------------------
(* evalCall, run, and execStmt of a try.                                   *)

Call(f) ==
  /\ calls # <<>> /\ Len(frames) < MaxFrames
  /\ frames' = Append(frames, EmptyFrame)
  /\ calls' = Append(calls, Begin(f, Len(frames) + 1))
  /\ curFunc' = f
  /\ UNCHANGED <<decls, globals, staticVars, known, seen>>

Return ==
  /\ calls # <<>> /\ Running.func # TopLevel
  /\ frames' = SubSeq(frames, 1, Len(frames) - 1)
  /\ calls' = SubSeq(calls, 1, Len(calls) - 1)
  /\ curFunc' = IF Running.func = Main THEN curFunc ELSE Running.saved
  /\ UNCHANGED <<decls, globals, staticVars, known, seen>>

\* run calls Main after the top-level statements; it sets no function name.
StartMain ==
  /\ Len(calls) = 1 /\ Running.func = TopLevel /\ Running.blocks = <<>>
  /\ frames' = Append(frames, EmptyFrame)
  /\ calls' = <<Begin(Main, Len(frames) + 1)>>
  /\ UNCHANGED <<decls, globals, staticVars, curFunc, known, seen>>

EnterTry ==
  /\ calls # <<>> /\ Len(Running.blocks) < MaxBlocks
  /\ Update([Running EXCEPT !.blocks = Append(@, Try)])
  /\ UNCHANGED <<decls, frames, globals, staticVars, curFunc, known, seen>>

LeaveBlock ==
  /\ calls # <<>> /\ Running.blocks # <<>>
  /\ Update([Running EXCEPT !.blocks = SubSeq(@, 1, Len(@) - 1)])
  /\ UNCHANGED <<decls, frames, globals, staticVars, curFunc, known, seen>>

\* The innermost try block of the k-th activation.
TryBlocks(k) == {b \in DOMAIN calls[k].blocks : calls[k].blocks[b] = Try}

\* throw, and the handler in execStmt: no frame is popped, no name restored,
\* and the code is stored as a variable like any other.
Throw(c) ==
  /\ calls # <<>>
  /\ decls.rethrow \/ \A k \in DOMAIN calls : Range(calls[k].blocks) \subseteq {Try}
  /\ \E k \in DOMAIN calls :
       /\ TryBlocks(k) # {}
       /\ \A j \in k+1..Len(calls) : TryBlocks(j) = {}
       /\ decls.crossing \/ k = Len(calls)
       /\ calls' = Append(SubSeq(calls, 1, k - 1),
                          [calls[k] EXCEPT !.blocks =
                             Append(SubSeq(@, 1, Max(TryBlocks(k)) - 1), c)])
  /\ setVar(ExceptCode, c)
  /\ UNCHANGED <<decls, curFunc, known, seen>>

\* Without a try, run reports the exception and ends; Main's frame is popped.
Unhandled ==
  /\ calls # <<>> /\ \A k \in DOMAIN calls : TryBlocks(k) = {}
  /\ frames' = IF calls[1].func = Main THEN SubSeq(frames, 1, Len(frames) - 1) ELSE frames
  /\ calls' = <<>>
  /\ UNCHANGED <<decls, globals, staticVars, curFunc, known, seen>>

Ended == calls = <<>> /\ UNCHANGED vars

-----------------------------------------------------------------------------
Init ==
  /\ decls \in Programs
  /\ frames = <<>>
  /\ globals = [n \in Stored |-> Absent]
  /\ staticVars = [k \in Keys |-> Absent]
  /\ curFunc = NoName
  /\ calls = <<Begin(TopLevel, 0)>>
  /\ known = {}
  /\ seen = 0

Next ==
  \/ \E n \in Names, v \in Values : Declare(n, v) \/ DeclareStatic(n, v) \/ Assign(n, v)
  \/ \E n \in Names : Read(n)
  \/ \E f \in Funcs : Call(f)
  \/ Return \/ StartMain \/ EnterTry \/ LeaveBlock
  \/ \E c \in Codes : Throw(c)
  \/ Unhandled \/ ReadCode \/ Ended

Spec == Init /\ [][Next]_vars

-----------------------------------------------------------------------------
(* Properties.                                                             *)

\* Every field stays in its domain.
TypeOK ==
  /\ decls \in Declarations
  /\ frames \in Seq(Frame)
  /\ globals \in [Stored -> Values \cup {Absent}]
  /\ staticVars \in [Keys -> Values \cup {Absent}]
  /\ curFunc \in Funcs \cup {NoName}
  /\ calls \in Seq(Activation)
  /\ known \subseteq Names
  /\ seen \in Values

\* A read yields, and an assignment changes, the variable that the name means
\* where it stands: the run-time lookup by name implements lexical scope.
ActOf(a) ==
  [func |-> a.func, blocks |-> a.blocks,
   vars |-> [n \in Names |-> IF a.base = 0 THEN Absent ELSE frames[a.base].vars[n]],
   own |-> {n \in Names : a.base # 0 /\ frames[a.base].keys[n] # NoKey}]
StaticOf(f, n) == IF f = TopLevel THEN Absent
                  ELSE staticVars[<<IF f = Main THEN NoName ELSE f, n>>]

Acts == [k \in DOMAIN calls |-> ActOf(calls[k])]
GlobalValues == [n \in Names |-> globals[n]]
StaticValues == [f \in Bodies |-> [n \in Names |-> StaticOf(f, n)]]

Lex == INSTANCE LexicalScope
         WITH acts <- Acts, globals <- GlobalValues, statics <- StaticValues
ImplementsLexicalScope == []TypeOK /\ Lex!Spec
=============================================================================
