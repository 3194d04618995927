---------------------------- MODULE LexicalScope ----------------------------
(***************************************************************************)
(* What the variables of a HolyC program mean: a name stands for the local *)
(* or static that the running activation has declared, otherwise for the   *)
(* global.  Locals belong to one activation, statics to their function,    *)
(* and the code of an exception to the catch clause that runs.             *)
(***************************************************************************)
EXTENDS Naturals, Sequences

CONSTANTS
  Funcs,      \* the functions that are called
  Names,      \* the variable names
  MaxVal,     \* values are 0..MaxVal, 0 the default
  Absent      \* no value, not one of Values

VARIABLES
  decls,     \* the program: what each body declares, and how it throws
  acts,      \* the active functions, the running one last
  globals,   \* global variables
  statics,   \* static variables of each body
  seen       \* the value read last

lexVars == <<decls, acts, globals, statics, seen>>

Main == "Main"
TopLevel == "top level"
Bodies == Funcs \cup {Main, TopLevel}
Values == 0..MaxVal
Codes == 1..MaxVal
Try == 0        \* a try block being executed; a catch clause is its code

(***************************************************************************)
(* autos and statics: the names a body declares.  crossing: an exception   *)
(* may leave the function that raises it.  rethrow: one may be raised      *)
(* while some catch clause is running.                                     *)
(***************************************************************************)
Declarations == [autos : [Bodies -> SUBSET Names], statics : [Bodies -> SUBSET Names],
                 crossing : BOOLEAN, rethrow : BOOLEAN]

Begun(f) == [func |-> f, vars |-> [n \in Names |-> Absent], own |-> {}, blocks |-> <<>>]

Running == acts[Len(acts)]
Update(a) == acts' = [acts EXCEPT ![Len(acts)] = a]

Start ==
  /\ acts = <<Begun(TopLevel)>>
  /\ globals = [n \in Names |-> Absent]
  /\ statics = [f \in Bodies |-> [n \in Names |-> Absent]]
  /\ seen = 0

Init == decls \in Declarations /\ Start

-----------------------------------------------------------------------------
Declare(n, v) ==
  /\ acts # <<>> /\ n \in decls.autos[Running.func]
  /\ \/ /\ Running.func = TopLevel
        /\ globals' = [globals EXCEPT ![n] = v]
        /\ UNCHANGED acts
     \/ /\ Running.func # TopLevel
        /\ Update([Running EXCEPT !.vars[n] = v])
        /\ UNCHANGED globals
  /\ UNCHANGED <<decls, statics, seen>>

\* A static is initialised by the first declaration that is executed.
DeclareStatic(n, v) ==
  /\ acts # <<>> /\ n \in decls.statics[Running.func]
  /\ \/ /\ Running.func = TopLevel
        /\ globals' = [globals EXCEPT ![n] = v]
        /\ UNCHANGED <<acts, statics>>
     \/ /\ Running.func # TopLevel
        /\ Update([Running EXCEPT !.own = @ \cup {n}])
        /\ statics' = [statics EXCEPT ![Running.func][n] = IF @ = Absent THEN v ELSE @]
        /\ UNCHANGED globals
  /\ UNCHANGED <<decls, seen>>

IsStatic(n) == n \in Running.own
IsLocal(n) == ~IsStatic(n) /\ Running.vars[n] # Absent
IsGlobal(n) == ~IsStatic(n) /\ ~IsLocal(n) /\ globals[n] # Absent

Assign(n, v) ==
  /\ acts # <<>>
  /\ \/ /\ IsStatic(n)
        /\ statics' = [statics EXCEPT ![Running.func][n] = v]
        /\ UNCHANGED <<acts, globals>>
     \/ /\ IsLocal(n)
        /\ Update([Running EXCEPT !.vars[n] = v])
        /\ UNCHANGED <<globals, statics>>
     \/ /\ IsGlobal(n)
        /\ globals' = [globals EXCEPT ![n] = v]
        /\ UNCHANGED <<acts, statics>>
  /\ UNCHANGED <<decls, seen>>

Read(n) ==
  /\ acts # <<>>
  /\ \/ IsStatic(n) /\ seen' = statics[Running.func][n]
     \/ IsLocal(n) /\ seen' = Running.vars[n]
     \/ IsGlobal(n) /\ seen' = globals[n]
  /\ UNCHANGED <<decls, acts, globals, statics>>

-----------------------------------------------------------------------------
Call(f) ==
  /\ acts # <<>>
  /\ acts' = Append(acts, Begun(f))
  /\ UNCHANGED <<decls, globals, statics, seen>>

StartMain ==
  /\ Len(acts) = 1 /\ Running.func = TopLevel
  /\ acts' = <<Begun(Main)>>
  /\ UNCHANGED <<decls, globals, statics, seen>>

Return ==
  /\ acts # <<>> /\ Running.func # TopLevel
  /\ acts' = SubSeq(acts, 1, Len(acts) - 1)
  /\ UNCHANGED <<decls, globals, statics, seen>>

EnterTry ==
  /\ acts # <<>>
  /\ Update([Running EXCEPT !.blocks = Append(@, Try)])
  /\ UNCHANGED <<decls, globals, statics, seen>>

LeaveBlock ==
  /\ acts # <<>> /\ Running.blocks # <<>>
  /\ Update([Running EXCEPT !.blocks = SubSeq(@, 1, Len(@) - 1)])
  /\ UNCHANGED <<decls, globals, statics, seen>>

\* The innermost try of the innermost activation that is in one takes it.
Throw(c) ==
  \E k \in DOMAIN acts : \E b \in DOMAIN acts[k].blocks :
    /\ acts[k].blocks[b] = Try
    /\ \A j \in k+1..Len(acts) : \A i \in DOMAIN acts[j].blocks : acts[j].blocks[i] # Try
    /\ \A i \in b+1..Len(acts[k].blocks) : acts[k].blocks[i] # Try
    /\ acts' = Append(SubSeq(acts, 1, k - 1),
                      [acts[k] EXCEPT !.blocks = Append(SubSeq(@, 1, b - 1), c)])
    /\ UNCHANGED <<decls, globals, statics, seen>>

Unhandled ==
  /\ \A k \in DOMAIN acts : \A b \in DOMAIN acts[k].blocks : acts[k].blocks[b] # Try
  /\ acts' = <<>>
  /\ UNCHANGED <<decls, globals, statics, seen>>

\* The exception code in a catch clause is the one it caught.
ReadCode ==
  /\ acts # <<>>
  /\ \E b \in DOMAIN Running.blocks :
       /\ Running.blocks[b] # Try
       /\ \A i \in b+1..Len(Running.blocks) : Running.blocks[i] = Try
       /\ seen' = Running.blocks[b]
  /\ UNCHANGED <<decls, acts, globals, statics>>

Next ==
  \/ \E n \in Names, v \in Values : Declare(n, v) \/ DeclareStatic(n, v) \/ Assign(n, v)
  \/ \E n \in Names : Read(n)
  \/ \E f \in Funcs : Call(f)
  \/ StartMain \/ Return \/ EnterTry \/ LeaveBlock
  \/ \E c \in Codes : Throw(c)
  \/ Unhandled \/ ReadCode

Spec == Init /\ [][Next]_lexVars
=============================================================================
