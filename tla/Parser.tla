------------------------------- MODULE Parser -------------------------------
(***************************************************************************)
(* The recursive descent of the parser, for what it reads and reports: the *)
(* tree it builds is left out.  The calls that are open are a stack of     *)
(* what is still to be parsed: a token to expect, or the name of a rule.   *)
(* The text is chosen as it is read.                                       *)
(*                                                                         *)
(* A name is one that is no class; a built-in type and the name of a class *)
(* are "type"; "=" stands for every operator, "case" for default too,      *)
(* "public" for every modifier.  Forms that only take and expect tokens    *)
(* (literals, prefix operators, member access, casts, array suffixes, bit  *)
(* widths, break, goto, lock, asm, function pointers) are left out.        *)
(***************************************************************************)
EXTENDS Naturals, Sequences, SequencesExt, FiniteSets

CONSTANTS
  Kinds,         \* the kinds of token that occur, "eof" not among them
  MaxTokens,     \* bound: the length of the text
  MaxParseDepth  \* kMaxParseDepth

VARIABLES
  current,  \* current_
  ahead,    \* lookahead_, the tokens read behind current
  todo,     \* what the open calls have still to do, the innermost first
  errors,   \* whether an error has been reported
  nested,   \* history: how many braces have been read and not closed
  reads     \* history: how many tokens have been read

vars == <<current, ahead, todo, errors, nested, reads>>

-----------------------------------------------------------------------------
(* Tokens.                                                                 *)

\* The preprocessor has another token; at the end it repeats Eof.
Fresh(t) ==
  IF t = "eof" THEN reads' = reads
  ELSE t \in Kinds /\ reads < MaxTokens /\ "eof" \notin Range(<<current>> \o ahead) /\ reads' = reads + 1

consume ==
  /\ nested' = CASE current = "{" -> nested + 1 [] current = "}" -> nested - 1 [] OTHER -> nested
  /\ IF ahead # <<>>
       THEN current' = Head(ahead) /\ ahead' = Tail(ahead) /\ reads' = reads
       ELSE \E t \in Kinds \cup {"eof"} : Fresh(t) /\ current' = t /\ ahead' = <<>>

Stay == UNCHANGED <<current, ahead, nested, reads>>

\* parse_depth_: the guards of the open calls.
Depth == Len(SelectSeq(todo, LAMBDA x : x = "leave"))
TooDeep == Depth >= MaxParseDepth

Doing(rule) == todo # <<>> /\ Head(todo) = rule
Then(rules) == todo' = rules \o Tail(todo) /\ Stay /\ errors' = errors
Complain(rules) == todo' = rules \o Tail(todo) /\ Stay /\ errors' = TRUE
Done == Then(<<>>)

\* A call under a ParseDepthGuard; refused, it reports and reads nothing.
Guarded(rule, rules) == Doing(rule) /\ ~TooDeep /\ Then(Append(rules, "leave"))
Refused(rule) == Doing(rule) /\ TooDeep /\ Complain(<<>>)

\* peek: a rule that looks one token further.
LooksAhead ==
  \/ Doing("statement") /\ current = "name"
  \/ Doing("members") /\ current \in {"class", "union"}

Peek ==
  /\ LooksAhead /\ ahead = <<>>
  /\ \E t \in Kinds \cup {"eof"} : Fresh(t) /\ ahead' = <<t>>
  /\ UNCHANGED <<current, todo, errors, nested>>

Next1(t) == ahead # <<>> /\ Head(ahead) = t
Ready == LooksAhead => ahead # <<>>

Take ==
  /\ Doing("take") /\ consume
  /\ todo' = Tail(todo) /\ errors' = errors

Expect ==
  /\ todo # <<>> /\ Head(todo) \in Kinds
  /\ IF current = Head(todo)
       THEN consume /\ errors' = errors
       ELSE Stay /\ errors' = TRUE
  /\ todo' = Tail(todo)

Leave == Doing("leave") /\ Done

Stops == {"}", "{", "if", "for", "while", "return", "class", "goto"}

synchronize ==
  /\ Doing("synchronize") /\ errors' = errors
  /\ \/ /\ current \in Stops \cup {"eof"}
        /\ todo' = Tail(todo) /\ Stay
     \/ /\ current = ";" /\ consume
        /\ todo' = Tail(todo)
     \/ /\ current \notin Stops \cup {"eof", ";"} /\ consume
        /\ UNCHANGED todo

-----------------------------------------------------------------------------
(* Expressions: sixteen levels of operators that all go on while an        *)
(* operator follows.                                                       *)

parseType ==
  \/ Refused("aType")
  \/ current = "type" /\ Guarded("aType", <<"take">>)
  \/ current # "type" /\ Doing("aType") /\ ~TooDeep /\ Complain(<<>>)

parseExpr ==
  \/ Refused("expression")
  \/ Guarded("expression", <<"unary", "operators">>)

parseOperators ==
  /\ Doing("operators")
  /\ IF current = "=" THEN Then(<<"take", "unary", "operators">>) ELSE Done

parseUnary ==
  \/ Refused("unary")
  \/ Guarded("unary", <<"primary", "postfix">>)

parsePostfix ==
  /\ Doing("postfix")
  /\ IF current = "(" THEN Then(<<"take", "arguments", ")", "postfix">>) ELSE Done

parseArguments ==
  \/ /\ Doing("arguments")
     /\ IF current = ")" THEN Done ELSE Then(<<"expression", "moreArguments">>)
  \/ /\ Doing("moreArguments")
     /\ IF current = "," THEN Then(<<"take", "expression", "moreArguments">>) ELSE Done

\* What no expression can begin with is reported and consumed.
PrimaryWithoutConsume ==
  \/ Refused("primary")
  \/ current = "name" /\ Guarded("primary", <<"take">>)
  \/ current = "(" /\ Guarded("primary", <<"take", "expression", ")">>)
  \/ current \notin {"name", "("} /\ Doing("primary") /\ ~TooDeep /\ Complain(<<>>)

parsePrimary ==
  \/ Refused("primary")
  \/ current = "name" /\ Guarded("primary", <<"take">>)
  \/ current = "(" /\ Guarded("primary", <<"take", "expression", ")">>)
  \/ current \notin {"name", "("} /\ Doing("primary") /\ ~TooDeep /\ Complain(<<"take">>)

-----------------------------------------------------------------------------
(* Statements.                                                             *)

CompoundOpen == <<"{", "block">>
Compound == <<"{", "block", "}">>

DeclarationStarts == {"public", "type", "class", "union", "enum"}

\* What parseStmt calls, by the token it stands at.
StatementForm ==
  CASE current = "{" -> Compound
    [] current = "if" -> <<"take", "(", "expression", ")", "statement", "orElse">>
    [] current = "for" ->
         <<"take", "(", "initialStep", "condition", ";", "lastStep", ")", "statement">>
    [] current = "while" -> <<"take", "(", "expression", ")", "statement">>
    [] current = "do" -> <<"take", "statement", "while", "(", "expression", ")", ";">>
    [] current = "switch" -> <<"take", "(", "expression", ")", "{", "cases", "}">>
    [] current = "return" -> <<"take", "condition", ";">>
    [] current = "try" -> <<"take">> \o Compound \o <<"catch">> \o Compound
    [] current = "name" /\ Next1(":") -> <<"take", "take", "labelled">>
    [] current \in DeclarationStarts -> <<"declaration">>
    [] OTHER -> <<"expression", ";">>

\* parseCompoundStmt alone looks at whether parseStmt returned a statement.
parseStmt ==
  \/ Ready /\ Guarded("statement", StatementForm)
  \/ /\ Doing("statement") /\ Ready /\ TooDeep
     /\ Complain(IF todo[2] = "block" THEN <<"synchronize">> ELSE <<>>)

parseCompoundStmt ==
  /\ Doing("block")
  /\ IF current \in {"}", "eof"} THEN Done ELSE Then(<<"statement", "block">>)

parseSwitchStmt ==
  \/ /\ Doing("cases")
     /\ \/ current \in {"}", "eof"} /\ Done
        \/ current = "case" /\ Then(<<"take", "expression", ":", "caseBody", "cases">>)
        \/ current \notin {"}", "eof", "case"} /\ Complain(<<"synchronize", "cases">>)
  \/ /\ Doing("caseBody")
     /\ IF current \in {"case", "}", "eof"} THEN Done ELSE Then(<<"statement", "caseBody">>)

\* The parts of a statement that may be absent.
parseParts ==
  \/ /\ Doing("orElse")
     /\ IF current = "else" THEN Then(<<"take", "statement">>) ELSE Done
  \/ /\ Doing("labelled")
     /\ IF current \in {"}", "eof"} THEN Done ELSE Then(<<"statement">>)
  \/ /\ Doing("initialStep")
     /\ Then(CASE current = ";" -> <<"take">>
               [] current \in DeclarationStarts -> <<"declaration">>
               [] OTHER -> <<"expression", ";">>)
  \/ /\ Doing("condition")
     /\ IF current = ";" THEN Done ELSE Then(<<"expression">>)
  \/ /\ Doing("lastStep")
     /\ IF current = ")" THEN Done ELSE Then(<<"expression">>)

-----------------------------------------------------------------------------
(* Declarations.                                                           *)

parseDecl ==
  /\ Doing("declaration")
  /\ Then(CASE current = "public" -> <<"take", "declaration">>
            [] current = "class" -> <<"take", "name", "base", "classBody">>
            [] current = "union" -> <<"take", "name", "{", "fields", "}", "optional;">>
            [] current = "enum" -> <<"take", "optionalName", "{", "enumerators", "}", "optional;">>
            [] OTHER -> <<"aType", "name", "declarator">>)

parseVarOrFuncDecl ==
  \/ /\ Doing("declarator")
     /\ Then(CASE current = "(" -> <<"take", "parameters", ")", "body">>
               [] current = "=" -> <<"take", "initializer", "siblings">>
               [] OTHER -> <<"siblings">>)
  \/ /\ Doing("initializer")
     /\ Then(IF current = "{" THEN <<"take", "values", "}">> ELSE <<"expression">>)
  \/ /\ Doing("values")
     /\ IF current = "}" THEN Done ELSE Then(<<"expression", "moreValues">>)
  \/ /\ Doing("moreValues")
     /\ IF current = "," THEN Then(<<"take", "values">>) ELSE Done
  \/ /\ Doing("siblings")
     /\ Then(IF current = "," THEN <<"take", "name", "siblingValue", "siblings">> ELSE <<";">>)
  \/ /\ Doing("siblingValue")
     /\ IF current = "=" THEN Then(<<"take", "expression">>) ELSE Done

parseFuncDecl ==
  \/ /\ Doing("parameters")
     /\ IF current = ")" THEN Done ELSE Then(<<"parameter">>)
  \/ /\ Doing("parameter") /\ Then(<<"aType", "optionalName", "siblingValue", "moreParameters">>)
  \/ /\ Doing("moreParameters")
     /\ IF current = "," THEN Then(<<"take", "parameter">>) ELSE Done
  \/ /\ Doing("optionalName")
     /\ IF current = "name" THEN Then(<<"take">>) ELSE Done
  \/ /\ Doing("body")
     /\ Then(IF current = "{" THEN Compound ELSE <<";">>)

parseClassDecl ==
  \/ /\ Doing("base")
     /\ IF current = ":" THEN Then(<<"take", "name">>) ELSE Done
  \/ /\ Doing("classBody")
     /\ Then(IF current = ";" THEN <<"take">> ELSE <<"{", "members", "}", "optional;">>)
  \/ /\ Doing("members") /\ Ready
     /\ \/ current \in {"}", "eof"} /\ Done
        \/ /\ current \in {"class", "union"} /\ Next1("{")
           /\ Then(<<"take", "{", "sharedMembers", "}", "optional;", "members">>)
        \/ /\ current = "public"
           /\ Then(<<"take", "member", "members">>)
        \/ /\ current \in Kinds \ {"}", "public"} /\ ~(current \in {"class", "union"} /\ Next1("{"))
           /\ Then(<<"member", "members">>)
  \/ /\ Doing("member")
     /\ IF current \in {"type", "class", "union"}
          THEN Then(<<"aType", "name", "memberEnd">>)
          ELSE Complain(<<"synchronize">>)
  \/ /\ Doing("memberEnd")
     /\ Then(IF current = "(" THEN <<"take", "parameters", ")", "body">> ELSE <<";">>)
  \/ /\ Doing("sharedMembers")
     /\ \/ current \in {"}", "eof"} /\ Done
        \/ /\ current \in {"type", "class", "union"}
           /\ Then(<<"aType", "name", ";", "sharedMembers">>)
        \/ /\ current \notin {"}", "eof", "type", "class", "union"}
           /\ Complain(<<"synchronize", "sharedMembers">>)

parseUnionDecl ==
  /\ Doing("fields")
  /\ IF current \in {"}", "eof"} THEN Done ELSE Then(<<"aType", "name", ";", "fields">>)

parseEnumDecl ==
  \/ /\ Doing("enumerators")
     /\ IF current \in {"}", "eof"} THEN Done ELSE Then(<<"name", "siblingValue", "moreEnumerators">>)
  \/ /\ Doing("moreEnumerators")
     /\ IF current = "," THEN Then(<<"take", "enumerators">>) ELSE Done

\* The optional ; behind the body of a class, union or enum.
matchSemicolon ==
  /\ Doing("optional;")
  /\ IF current = ";" THEN Then(<<"take">>) ELSE Done

parse ==
  /\ Doing("unit")
  /\ CASE current = "eof" -> Done
       [] current \in DeclarationStarts -> Then(<<"declaration", "unit">>)
       [] OTHER -> Then(<<"statement", "unit">>)

-----------------------------------------------------------------------------
Init ==
  /\ current \in Kinds \cup {"eof"}
  /\ ahead = <<>> /\ todo = <<"unit">> /\ errors = FALSE
  /\ nested = 0 /\ reads = 1

Next ==
  \/ Peek \/ Take \/ Expect \/ Leave \/ synchronize
  \/ parseType \/ parseExpr \/ parseOperators \/ parseUnary \/ parsePostfix
  \/ parseArguments \/ parsePrimary
  \/ parseStmt \/ parseCompoundStmt \/ parseSwitchStmt \/ parseParts
  \/ parseDecl \/ parseVarOrFuncDecl \/ parseFuncDecl \/ parseClassDecl
  \/ parseUnionDecl \/ parseEnumDecl \/ matchSemicolon \/ parse

\* The parser runs by itself, alone in its thread, until parse returns.
Spec == Init /\ [][Next]_vars /\ WF_vars(Next)

-----------------------------------------------------------------------------
(* Properties.                                                             *)

Ended == todo = <<>>

\* A text that is parsed to its end without an error has its braces closed:
\* every loop over the inside of a body ends at Eof as well as at its brace,
\* and only the expect behind it tells the two apart.
AcceptedIsBalanced == Ended /\ ~errors => nested = 0

Loops == {"unit", "block", "caseBody", "cases", "members", "sharedMembers", "fields"}
InnermostLoop == todo[CHOOSE i \in DOMAIN todo :
                        todo[i] \in Loops /\ \A j \in 1 .. i - 1 : todo[j] \notin Loops]

\* How deep the innermost loop lies: the guards that were open when it began.
LoopDepth ==
  LET i == CHOOSE i \in DOMAIN todo : todo[i] \in Loops /\ \A j \in 1 .. i - 1 : todo[j] \notin Loops
  IN Len(SelectSeq(SubSeq(todo, i, Len(todo)), LAMBDA x : x = "leave"))

\* Where the parser can go round without reading: in the body of a switch or a
\* class, at a token that synchronize leaves alone; in the body of a union and
\* among members that begin with class or union; and where the limit of the
\* depth leaves no room for a statement with an expression.
StandsStill ==
  /\ ~Ended
  /\ \/ InnermostLoop \in {"cases", "members", "sharedMembers"} /\ current \in Stops
     \/ InnermostLoop \in {"members", "sharedMembers"} /\ current = "union"
     \/ InnermostLoop = "fields"
     \/ LoopDepth + 4 > MaxParseDepth

\* A text is parsed to its end, whatever is wrong with it, unless the parser
\* comes to one of those places and stays there.
EndsOrStandsStill == <>Ended \/ <>[]StandsStill

\* The comment of synchronize in Parser.h: tokens are skipped up to a point from
\* which parsing is safe.  Then every text is parsed to its end.
ParseEnds == <>Ended
=============================================================================
