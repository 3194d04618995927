----------------------------- MODULE MCFrontEnd -----------------------------
(***************************************************************************)
(* From the text to the names: the scanners of the text (TextScan), the    *)
(* directives (Preprocessor), the rules of the grammar (Parser), the       *)
(* scopes of the analysis (SemaEnv), what names stand for in it and in the *)
(* generated code (NameWalk), the places of the messages (LineCache), and  *)
(* the text that is written again (Formatter).  Only NameWalk uses the     *)
(* state of another, SemaEnv, so a behaviour is about one of them.         *)
(*                                                                         *)
(* A text of five tokens opens three bodies within each other, of any      *)
(* kind, or breaks off inside of one; the limit of the depth is below      *)
(* what such a text needs.                                                 *)
(*                                                                         *)
(* The proof module is extended, so that what the runs check is the very   *)
(* property that its theorems state.                                       *)
(***************************************************************************)
EXTENDS FrontEndProofs

CONSTANT Subjects    \* the models that are run
VARIABLE which

MCNames == {"x", "__except_code"}

Braces == {"{", "}", ";"}
Words == {"name", "type", "public", "class", "union", "enum", "if", "else", "for", "while",
          "do", "switch", "case", "return", "try", "catch"}
AllKinds == Braces \cup {"(", ")", ",", ":", "="} \cup Words
FewKinds == Braces \cup {"name", "union", "type", ","}

ppVars == <<macros, files, conds, mode, depth, pp_errors, line, read>>
parserVars == <<current, ahead, todo, errors, nested, reads>>
placeVars == <<line_offsets, last_query_offset, last_query_line, answer>>
walkVars == <<tops, env_ops, open, kinds, fields, locals>>
scanVars == <<c, next, lex, comments, bytes, repl, fmt, miscounted, plain, parted>>
formatVars == <<cur, nxt, new_line, on_directive, expected, brackets,
                prev_kind_, indent_, paren_depth_, out>>

FrontEndInit ==
  /\ which \in Subjects
  /\ Walk!WalkInit /\ PP!Init /\ Grammar!Init /\ Places!Init
  /\ Scan!Init /\ Format!Init
  /\ which # "names" => \A n \in DOMAIN tops : tops[n] = "none"
  /\ which # "parser" => current = "eof"
  /\ which # "places" => line_offsets = <<0>>
  /\ which # "scan" => c = "a" /\ next = "a"

FrontEndNext ==
  /\ UNCHANGED which
  /\ \/ which = "env" /\ Next /\ UNCHANGED walkVars
     \/ which = "names" /\ Walk!WalkNext
     \/ which \notin {"env", "names"} /\ UNCHANGED <<vars, walkVars>>
  /\ IF which = "pp" THEN PP!Next ELSE UNCHANGED ppVars
  /\ IF which = "parser" THEN Grammar!Next ELSE UNCHANGED parserVars
  /\ IF which = "places" THEN Places!Next ELSE UNCHANGED placeVars
  /\ IF which = "scan" THEN Scan!Step ELSE UNCHANGED scanVars
  /\ IF which = "format" THEN Format!Next ELSE UNCHANGED formatVars

\* The fairness of Parser!Spec.
FrontEndSpec ==
  /\ FrontEndInit
  /\ [][FrontEndNext]_<<which, vars, walkVars, ppVars, parserVars, placeVars, scanVars, formatVars>>
  /\ WF_parserVars(which = "parser" /\ Grammar!Next)

-----------------------------------------------------------------------------
\* docs/docs.html: "Multiple variables of the same type in one statement"; they
\* can be used afterwards.
DeclaredAreKnown == which = "names" => Walk!DeclaredAreKnown

\* Parser: every text is parsed to its end but at the places StandsStill names.
EndsOrStandsStill == which = "parser" => Grammar!EndsOrStandsStill

\* Parser.h on synchronize: tokens are skipped to a safe point, so that every
\* text is parsed to its end.
ParseEnds == which = "parser" => Grammar!ParseEnds
=============================================================================
