------------------------------ MODULE NameWalk ------------------------------
(***************************************************************************)
(* What the names of a program stand for, decided twice over the same      *)
(* text: by Sema, which opens and closes the scopes of Env as it walks the *)
(* tree, and by LLVMCodegen, which keeps one flat table of the locals of a *)
(* function beside those of globals and functions.                         *)
(*                                                                         *)
(* Both walk functions and classes in the order of the text, so they are   *)
(* walked together; the text is chosen as it is walked, but what its top   *)
(* level declares is known from the start.  todo is what Sema still does   *)
(* to Env for the construct it has come to.                                *)
(*                                                                         *)
(* Only names that a program may use twice are followed; `this`, the       *)
(* mangled names of methods and top-level statements are left out.         *)
(***************************************************************************)
EXTENDS SemaEnv

CONSTANTS
  ExceptCode,  \* __except_code, one of Names
  Other        \* a name that is none of Names

VARIABLES
  tops,        \* what each name is at the top level of the text
  todo,        \* what Sema still does to Env
  open,        \* the constructs the walk is in, innermost last
  kinds,       \* what each declaration of Env declares
  fields,      \* the fields of the class the walk is in, and of its bases
  locals

walkVars == <<tops, todo, open, kinds, fields, locals>>

Ids == Names \ {ExceptCode}
Gone == <<"gone", Other>>  \* a local of a function that has been walked
NoLocals == [n \in Names |-> 0]
Unknown == <<"unknown">>

\* A construct, with the names it has declared together with others.
Construct(kind) == [kind |-> kind, together |-> {}]
Within(kind) == \E k \in DOMAIN open : open[k].kind = kind
Innermost == open[Len(open)]
Walking == todo = <<>> /\ \A n \in Ids : tops[n] = "func" => kinds # <<>> /\ lookup(n) # 0
InBody == Walking /\ Within("func")
Room(k) == Len(home) + k <= MaxDecls
Defining(n, kind) == <<"define", n, kind>>

-----------------------------------------------------------------------------
(* What Sema does to Env, one operation at a time.                         *)

Push ==
  /\ todo # <<>> /\ Head(todo) = <<"push">>
  /\ pushScope
  /\ todo' = Tail(todo)
  /\ UNCHANGED <<tops, open, kinds, fields, locals>>

Pop ==
  /\ todo # <<>> /\ Head(todo) = <<"pop">>
  /\ popScope
  /\ todo' = Tail(todo)
  /\ UNCHANGED <<tops, open, kinds, fields, locals>>

\* The static of a name in this function, 0 when there is none: the code generator
\* knows it by the names of the function and of the variable.
IsLocal(i) == kinds[i][1] \in {"local", "static"}
MadeHere(n) == {i \in DOMAIN kinds : IsLocal(i) /\ kinds[i][2] = n}
Statics(n) == {i \in MadeHere(n) : kinds[i][1] = "static"}

\* The declaration in Env and, for a variable of a function, the entry that
\* lowerStmt makes for it.
Define ==
  /\ todo # <<>> /\ Head(todo)[1] = "define"
  /\ LET n == Head(todo)[2]
         kind == Head(todo)[3]
     IN  /\ define(n)
         /\ kinds' = Append(kinds, <<kind, n>>)
         /\ locals' = IF kind \in {"local", "static"}
                       THEN [locals EXCEPT ![n] = IF kind = "static" /\ Statics(n) # {}
                                                   THEN Min(Statics(n)) ELSE Fresh]
                       ELSE locals
  /\ todo' = Tail(todo)
  /\ UNCHANGED <<tops, open, fields>>

-----------------------------------------------------------------------------
(* The text.                                                               *)

Env_unchanged == UNCHANGED <<vars, kinds>>

\* analyze collects the functions before it walks the declarations.
Collect(n) ==
  /\ todo = <<>> /\ open = <<>> /\ tops[n] = "func" /\ lookup(n) = 0 /\ Room(1)
  /\ todo' = <<Defining(n, "func")>>
  /\ Env_unchanged /\ UNCHANGED <<tops, open, fields, locals>>

\* A variable of the top level.
GlobalVar(n) ==
  /\ Walking /\ open = <<>> /\ tops[n] = "var" /\ Room(1)
  /\ \A i \in DOMAIN kinds : kinds[i] # <<"global", n>>
  /\ todo' = <<Defining(n, "global")>>
  /\ Env_unchanged /\ UNCHANGED <<tops, open, fields, locals>>

OpenClass(fs) ==
  /\ Walking /\ open = <<>>
  /\ open' = <<Construct("class")>>
  /\ fields' = fs
  /\ Env_unchanged /\ UNCHANGED <<tops, todo, locals>>

\* A function of the top level, or a method of the class the walk is in.
OwnName(n, kind) == IF n = Other THEN <<>> ELSE <<Defining(n, kind)>>
Params(ps) == IF ps = {} THEN <<>> ELSE <<Defining(CHOOSE p \in ps : TRUE, "local")>>
MayBegin(n, ps) ==
  /\ Walking /\ ~Within("func") /\ Cardinality(ps) < 2 /\ Room(2)
  /\ open = <<>> /\ n # Other =>
       tops[n] = "func" /\ Cardinality({i \in DOMAIN kinds : kinds[i] = <<"func", n>>}) = 1
EnterFunc(n, ps) ==
  /\ todo' = OwnName(n, IF open = <<>> THEN "func" ELSE "method") \o <<<<"push">>>> \o Params(ps)
  /\ open' = Append(open, Construct("func"))

OpenFunc(n, ps) ==
  /\ MayBegin(n, ps) /\ EnterFunc(n, ps)
  /\ Env_unchanged /\ UNCHANGED <<tops, fields, locals>>

\* A compound, and a for, whose scope is that of what its header declares.
OpenBlock ==
  /\ InBody /\ Depth < MaxDepth
  /\ todo' = <<<<"push">>>>
  /\ open' = Append(open, Construct("block"))
  /\ Env_unchanged /\ UNCHANGED <<tops, fields, locals>>

\* A catch clause: its compound lies in a scope that has the exception code.
OpenCatch ==
  /\ InBody /\ Depth + 1 < MaxDepth /\ Room(1)
  /\ todo' = <<<<"push">>, Defining(ExceptCode, "local"), <<"push">>>>
  /\ open' = Append(open, Construct("catch"))
  /\ Env_unchanged /\ UNCHANGED <<tops, fields, locals>>

\* The table after a construct: a handler's code is erased.  A function begins with
\* an empty table and leaves the one it found, which is empty as well.
\* MUTANT of LocalsAfter: a function does not swap the table.
LocalsAfterKept(kind) ==
  IF kind = "catch" THEN [locals EXCEPT ![ExceptCode] = 0] ELSE locals
LocalsAfter(kind) ==
  CASE kind = "catch" -> [locals EXCEPT ![ExceptCode] = 0]
    [] kind = "func" -> NoLocals
    [] OTHER -> locals

\* The end of the innermost construct.
Close ==
  /\ Walking /\ open # <<>>
  /\ LET kind == Innermost.kind
     IN  /\ todo' = CASE kind = "class" -> <<>>
                      [] kind = "catch" -> <<<<"pop">>, <<"pop">>>>
                      [] OTHER -> <<<<"pop">>>>
         /\ locals' = LocalsAfter(kind)
         /\ fields' = IF kind = "class" THEN {} ELSE fields
         /\ kinds' = IF kind = "func"
                     THEN [i \in DOMAIN kinds |-> IF IsLocal(i) THEN Gone ELSE kinds[i]]
                     ELSE kinds
  /\ open' = SubSeq(open, 1, Len(open) - 1)
  /\ UNCHANGED <<vars, tops>>

\* A declaration statement.
Declare(n, kind) ==
  /\ InBody /\ Room(1) /\ scopes[Depth][n] = 0
  /\ todo' = <<Defining(n, kind)>>
  /\ Env_unchanged /\ UNCHANGED <<tops, open, fields, locals>>

\* Several variables in one declaration statement: the parser makes a compound of
\* them, and the compound is a scope.
DeclareSeveral(n) ==
  /\ InBody /\ Depth < MaxDepth /\ Room(1)
  /\ todo' = <<<<"push">>, Defining(n, "local"), <<"pop">>>>
  /\ open' = [open EXCEPT ![Len(open)].together = @ \cup {n}]
  /\ Env_unchanged /\ UNCHANGED <<tops, fields, locals>>

-----------------------------------------------------------------------------
(* What an identifier stands for.                                          *)

Entity(i) == IF IsLocal(i) THEN <<"variable", i>> ELSE kinds[i]

\* Sema: the innermost declaration, and only where there is none a field.
SemaTakes(n) ==
  IF lookup(n) # 0 THEN Entity(lookup(n))
  ELSE IF n \in fields THEN <<"field", n>> ELSE Unknown

\* LLVMCodegen: local, global, function, field.
CodeTakes(n) ==
  IF locals[n] # 0 THEN <<"variable", locals[n]>>
  ELSE IF n # ExceptCode /\ tops[n] = "var" THEN <<"global", n>>
  ELSE IF n # ExceptCode /\ tops[n] = "func" THEN <<"func", n>>
  ELSE IF n \in fields THEN <<"field", n>> ELSE Unknown

WalkInit ==
  /\ Init
  /\ tops \in [Ids -> {"none", "var", "func"}]
  /\ todo = <<>> /\ open = <<>> /\ kinds = <<>> /\ fields = {}
  /\ locals = NoLocals

WalkNext ==
  \/ Push \/ Pop \/ Define
  \/ \E n \in Ids : Collect(n) \/ GlobalVar(n) \/ DeclareSeveral(n)
  \/ \E fs \in SUBSET Ids : OpenClass(fs)
  \/ \E n \in Ids \cup {Other}, ps \in SUBSET Ids : OpenFunc(n, ps)
  \/ OpenBlock \/ OpenCatch \/ Close
  \/ \E n \in Ids, kind \in {"local", "static"} : Declare(n, kind)

WalkSpec == WalkInit /\ [][WalkNext]_<<vars, walkVars>>

-----------------------------------------------------------------------------
(* Properties.                                                             *)

\* The two tables part where a name is declared again: by a local whose scope has
\* been closed, by a second static, by a method, or by a global further down.
StillBound(i) == \E k \in 1 .. Depth : scopes[k][kinds[i][2]] = i
Parted(n) ==
  \/ \E i \in MadeHere(n) : ~StillBound(i)
  \/ Cardinality(Statics(n)) > 1
  \/ \E i \in DOMAIN kinds : kinds[i] = <<"method", n>>
  \/ n # ExceptCode /\ tops[n] = "var" /\ \A i \in DOMAIN kinds : kinds[i] # <<"global", n>>

\* Code is generated for the variable, function or field that Sema has checked:
\* one flat table does for nested scopes as long as no declaration of the name
\* has gone out of scope.
NamesMeanTheSame ==
  InBody => \A n \in Names :
    SemaTakes(n) # Unknown /\ ~Parted(n) => CodeTakes(n) = SemaTakes(n)

\* "Multiple variables of the same type in one statement" (docs.html): they can be
\* used in the rest of the block, as locals.
DeclaredAreKnown ==
  InBody => \A k \in DOMAIN open : \A n \in open[k].together :
    lookup(n) # 0 /\ home[lookup(n)] > 1
=============================================================================
