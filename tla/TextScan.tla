------------------------------ MODULE TextScan ------------------------------
(***************************************************************************)
(* Three scanners of one text.  The lexer finds its tokens.  scan_line of  *)
(* the REPL decides, line by line, whether more lines are needed.          *)
(* trailingComment of the formatter looks for the // comment of one line.  *)
(* Each has its own idea of literals, escapes and comments.                *)
(*                                                                         *)
(* The text is read one character at a time, c, before next; it may go on  *)
(* for ever, as long as they agree.  A scanner is in a mode; skip is the   *)
(* number of characters from c on that it took together with earlier ones. *)
(***************************************************************************)
EXTENDS Naturals

CONSTANT MaxBytes   \* of a character literal, 8

VARIABLES
  c, next,          \* two characters of the text
  lex, depth, bytes,    \* the lexer; comments open, bytes of the literal
  repl,             \* ScanState and the position in the line
  fmt,              \* trailingComment
  miscounted,       \* history: one of lexer and REPL took c for a delimiter
  plain,            \* history: the line began in code and has no block comment
  parted            \* history: the text had what Parting names

vars == <<c, next, lex, depth, bytes, repl, fmt, miscounted, plain, parted>>

\* A letter stands for all characters that mean nothing here, "delimiter" for { ( [
\* and their likes, "quote" for the sign that begins and ends a string.
Characters == {"/", "*", "quote", "'", "\\", "x", "delimiter", "a", "newline"}
Modes == {"code", "line", "block", "string", "char", "long"}
Scanner == [mode : Modes, skip : 0..3]

In(mode) == [mode |-> mode, skip |-> 0]
Taking(mode, n) == [mode |-> mode, skip |-> n]
Delimits(s) == s.skip = 0 /\ s.mode = "code" /\ c = "delimiter"

-----------------------------------------------------------------------------
(* Lexer::next, which skips whitespace and comments, lexString, lexChar.   *)

EscapeLength == IF next = "x" THEN 3 ELSE 1      \* scanEscape: \x takes two more

LexCode ==
  CASE c = "/" /\ next = "/" -> Taking("line", 1)
    [] c = "/" /\ next = "*" -> Taking("block", 1)
    [] c = "quote" -> In("string")
    [] c = "'" -> In("char")
    [] OTHER -> In("code")

\* skipBlockComment: comments nest.
LexBlock ==
  CASE c = "/" /\ next = "*" -> Taking("block", 1)
    [] c = "*" /\ next = "/" -> Taking(IF depth = 1 THEN "code" ELSE "block", 1)
    [] OTHER -> In("block")

LexString ==
  CASE c \in {"quote", "newline"} -> In("code")
    [] c = "\\" -> Taking("string", EscapeLength)
    [] OTHER -> In("string")

\* After the last byte that fits it looks for the end of the literal, or of the line.
LexChar ==
  LET then == IF bytes >= MaxBytes THEN "long" ELSE "char" IN
  CASE c \in {"'", "newline"} -> In("code")
    [] c = "\\" -> Taking(then, EscapeLength)
    [] OTHER -> In(then)

LexStep ==
  IF lex.skip > 0 THEN [lex EXCEPT !.skip = @ - 1]
  ELSE CASE lex.mode = "code" -> LexCode
         [] lex.mode = "line" -> In(IF c = "newline" THEN "code" ELSE "line")
         [] lex.mode = "block" -> LexBlock
         [] lex.mode = "string" -> LexString
         [] lex.mode = "char" -> LexChar
         [] lex.mode = "long" -> In(IF c \in {"'", "newline"} THEN "code" ELSE "long")

Nested == lex = In("block") /\ c = "/" /\ next = "*"
DepthAfter ==
  CASE lex = In("code") /\ c = "/" /\ next = "*" -> 1
    [] Nested -> depth + 1
    [] lex = In("block") /\ c = "*" /\ next = "/" -> depth - 1
    [] OTHER -> depth
BytesAfter ==
  IF lex.mode # "char" THEN 0
  ELSE IF lex.skip > 0 \/ bytes = MaxBytes THEN bytes ELSE bytes + 1

-----------------------------------------------------------------------------
(* scan_line: called for each line, with the state of the last.            *)

\* MUTANT of ReplCode: the * of /* is looked at again.
ReplCodeLooksAgain ==
  CASE c = "/" /\ next = "/" -> In("line")
    [] c = "/" /\ next = "*" -> In("block")
    [] c = "quote" -> In("string")
    [] c = "'" -> In("char")
    [] OTHER -> In("code")

ReplCode ==
  CASE c = "/" /\ next = "/" -> In("line")
    [] c = "/" /\ next = "*" -> Taking("block", 1)
    [] c = "quote" -> In("string")
    [] c = "'" -> In("char")
    [] OTHER -> In("code")

ReplStep ==
  CASE c = "newline" -> In(IF repl.mode = "line" THEN "code" ELSE repl.mode)
    [] c # "newline" /\ repl.skip > 0 -> [repl EXCEPT !.skip = @ - 1]
    [] OTHER ->
         CASE repl.mode = "block" /\ c = "*" /\ next = "/" -> Taking("code", 1)
           [] repl.mode \in {"string", "char"} /\ c = "\\" -> Taking(repl.mode, 1)
           [] repl.mode = "string" /\ c = "quote" -> In("code")
           [] repl.mode = "char" /\ c = "'" -> In("code")
           [] repl.mode = "code" -> ReplCode
           [] OTHER -> repl

-----------------------------------------------------------------------------
(* trailingComment: called for one line, it begins in code.                *)
FmtStep ==
  CASE c = "newline" -> In("code")
    [] c # "newline" /\ fmt.skip > 0 -> [fmt EXCEPT !.skip = @ - 1]
    [] OTHER ->
         CASE fmt.mode \in {"string", "char"} /\ c = "\\" -> Taking(fmt.mode, 1)
           [] fmt.mode = "string" /\ c = "quote" -> In("code")
           [] fmt.mode = "char" /\ c = "'" -> In("code")
           [] fmt.mode = "code" /\ c = "quote" -> In("string")
           [] fmt.mode = "code" /\ c = "'" -> In("char")
           [] fmt.mode = "code" /\ c = "/" /\ next = "/" -> In("line")
           [] OTHER -> fmt

-----------------------------------------------------------------------------
(***************************************************************************)
(* Where the lexer and the other two part: comments nest only for the      *)
(* lexer; it ends a literal at a newline, with an error, which the REPL    *)
(* takes for a literal of several lines; \x takes two characters, also a   *)
(* quote; and the rest of a literal that is too long has no escapes.       *)
(***************************************************************************)
Parting ==
  \/ Nested
  \/ lex \in {In("string"), In("char"), In("long")} /\ c = "newline"
  \/ lex.mode \in {"string", "char", "long"} /\ lex.skip \in {1, 2} /\ repl.skip = 0
     /\ c \in {"quote", "'", "\\", "newline"}
  \/ lex = In("long") /\ c = "\\"

Step ==
  /\ ~parted              \* bound: the text goes on until they part
  /\ lex' = LexStep /\ depth' = DepthAfter /\ bytes' = BytesAfter
  /\ repl' = ReplStep
  /\ fmt' = FmtStep
  /\ miscounted' = (Delimits(lex) # Delimits(repl))
  /\ plain' = IF c = "newline" THEN lex'.mode = "code" ELSE plain /\ lex'.mode # "block"
  /\ parted' = (parted \/ Parting)
  /\ c' = next /\ next' \in Characters

Init ==
  /\ c \in Characters /\ next \in Characters
  /\ lex = In("code") /\ depth = 0 /\ bytes = 0
  /\ repl = In("code") /\ fmt = In("code")
  /\ miscounted = FALSE /\ plain = TRUE /\ parted = FALSE

Spec == Init /\ [][Step]_vars

-----------------------------------------------------------------------------
TypeOK ==
  /\ {lex, repl, fmt} \subseteq Scanner
  /\ depth \in 0..2 /\ bytes \in 0..MaxBytes

\* Before c: the REPL asks for more lines exactly where the lexer would be within a
\* comment or a literal, and counts the delimiters that the lexer makes tokens of;
\* and on a line without block comments the formatter finds the // comment.
SameMode(m) == IF m = "long" THEN "char" ELSE m
ScannersAgree ==
  ~parted => /\ repl.mode = SameMode(lex.mode) /\ ~miscounted
             /\ plain => fmt.mode = SameMode(lex.mode)

\* The comment of needs_more_input: it is TRUE where the "accumulated input" is
\* "syntactically incomplete".  It is not where a comment is nested.
IncompleteIsSeen == lex.mode = "block" => repl.mode = "block"
=============================================================================
