----------------------------- MODULE Formatter ------------------------------
(***************************************************************************)
(* The formatter (hcc --format): it writes the tokens of a text again with *)
(* spaces and newlines of its own.                                         *)
(*                                                                         *)
(* The tokens are drawn from a small grammar one at a time; the formatter  *)
(* stands at cur and looks at nxt.  What it has written is known by its    *)
(* end.  A kind is named by its text, "lbrace", "rbrace", "semicolon" and  *)
(* "comma" as in TokenKind.  "-" stands for + as well, "--" for ++, "<"    *)
(* for the operators that are never unary, "word" for sizeof and its like, *)
(* "if" and "return" for the keywords followed by a parenthesis and by an  *)
(* expression; "#if" for the directives that take the rest of their line,  *)
(* "#endif" for those that do not, and "#define" for its line with its     *)
(* continuations.                                                          *)
(***************************************************************************)
EXTENDS Naturals, SequencesExt

CONSTANTS
  MaxOpen,    \* bound: brackets open at once
  MaxGap,     \* bound: lines between two tokens
  MaxNest,    \* bound: block comments within each other
  Awkward     \* of {"signs", "directives", "comments"}: what a text may hold of what
              \* SignAfterSign, AfterDirective and OpenCopied name

VARIABLES
  cur, nxt,       \* the token to be written and the one after it
  new_line,       \* nxt is the first token of its line
  on_directive,   \* cur is on the line of an #if
  mode, open,     \* what the grammar expects after nxt, and its open brackets
  prev_kind_, indent_, paren_depth_, out

vars == <<cur, nxt, new_line, on_directive, mode, open,
          prev_kind_, indent_, paren_depth_, out>>

Eof == "eof"
Operands == {"name", "number", "string"}
Words == {"name", "number", "type", "if", "return", "class", "word"}
Directives == {"#if", "#endif", "#define"}
PrefixOps == {"-", "--", "*", "&", "!"}

(***************************************************************************)
(* out: how out_ ends.  tail: in a space, a newline (or it is empty), or   *)
(* in text.  at_line_start_ as in the code.  A lexer that read out_ would  *)
(* be within nest block comments, perhaps in a // comment (text), perhaps  *)
(* on the line of an #if (directive).  text is "garbled" after a line that *)
(* was copied without the comment it is in.                                *)
(***************************************************************************)
Tails == {"text", "space", "newline"}
Outputs == [tail : Tails, at_line_start_ : BOOLEAN, nest : 0..MaxNest,
            text : {"code", "comment", "garbled"}, directive : BOOLEAN]

emitRaw(o) == [o EXCEPT !.tail = "text", !.at_line_start_ = FALSE]
emitSpace(o) == IF o.tail = "text" THEN [o EXCEPT !.tail = "space"] ELSE o
emitNewline(o) ==
  [o EXCEPT !.tail = "newline", !.at_line_start_ = TRUE, !.directive = FALSE,
            !.text = IF @ = "comment" THEN "code" ELSE @]
emitIndent(o, n) ==
  [o EXCEPT !.at_line_start_ = FALSE, !.tail = IF n = 0 THEN @ ELSE "space"]

isValueEnd(k) == k \in {"name", "number", ")", "]", "--"}
isBinaryOp(k) == k \in {"-", "<"}

-----------------------------------------------------------------------------
(***************************************************************************)
(* What lies between two tokens of different lines: the rest of the line   *)
(* of the first, at whose end tail block comments are open, and lines that *)
(* hold blanks and comments only.  For the lexer, which lets comments      *)
(* nest, as many are open at the beginning of a line as at the end of the  *)
(* one before (from), and others at its end (to); those still open at the  *)
(* last end on the line of the second token.  The formatter sees whether a *)
(* line begins with a comment (starts) and whether one is closed on it     *)
(* (closes).  A line that starts none outside of a comment is blank or a   *)
(* // comment.                                                             *)
(***************************************************************************)
LineKinds ==
  {l \in [starts : BOOLEAN, closes : BOOLEAN, from : 0..MaxNest, to : 0..MaxNest] :
     /\ l.from = 0 /\ ~l.starts => l.to = 0 /\ ~l.closes
     /\ ~l.closes => l.to >= IF l.starts THEN l.from + 1 ELSE l.from}
Commented(g) ==
  \A i \in DOMAIN g.lines : g.lines[i].from = IF i = 1 THEN g.tail ELSE g.lines[i - 1].to
Gaps == {g \in [tail : 0..MaxNest, lines : SeqOf(LineKinds, MaxGap)] : Commented(g)}

\* emitBlockCommentsBefore: a line that begins with a comment is copied, and so
\* are those after it until one is closed.
Copied(o, l) ==
  [IF o.tail = "newline" THEN o ELSE emitNewline(o)
     EXCEPT !.at_line_start_ = TRUE, !.nest = l.to,
            !.text = IF o.nest = l.from THEN @ ELSE "garbled"]
Copies(s, l) == s.in_block \/ l.starts
Within(s, l) == Copies(s, l) /\ ~l.closes

\* MUTANT of CopyLine: whether the comment is closed is looked at before the line
\* is copied.
CopyLineButTheLast(s, l) ==
  [in_block |-> Within(s, l), o |-> IF Within(s, l) THEN Copied(s.o, l) ELSE s.o]

CopyLine(s, l) ==
  [in_block |-> Within(s, l), o |-> IF Copies(s, l) THEN Copied(s.o, l) ELSE s.o]

emitBlockCommentsBefore(o, g) ==
  LET upTo[n \in 0 .. Len(g.lines)] ==
        IF n = 0 THEN [in_block |-> FALSE, o |-> o] ELSE CopyLine(upTo[n - 1], g.lines[n])
  IN  upTo[Len(g.lines)].o

-----------------------------------------------------------------------------
(* What format writes before and after the text of cur.                    *)

OnOwnLine(o) == IF o.at_line_start_ THEN o ELSE emitNewline(o)
IndentOrSpace(o) == IF o.at_line_start_ THEN emitIndent(o, indent_) ELSE emitSpace(o)
Unless(raw, o) == IF raw THEN o ELSE emitSpace(o)
AfterOpening == prev_kind_ \in {"(", "lbrace", "comma"} \/ isBinaryOp(prev_kind_)

BeforeText(o) ==
  CASE cur \in {"lbrace", "type", "if", "return", "class", "word"} -> IndentOrSpace(o)
    [] cur = "rbrace" -> emitIndent(OnOwnLine(o), indent_ - 1)
    [] cur = "(" -> Unless(isValueEnd(prev_kind_) \/ prev_kind_ \in {"type", "*"}, o)
    [] cur = "[" -> Unless(prev_kind_ \in {"name", ")", "]"}, o)
    [] cur = "*" -> Unless(prev_kind_ \in {"type", "*", "&"}
                           \/ (~isValueEnd(prev_kind_) /\ AfterOpening), o)
    [] cur = "&" -> Unless(/\ ~isValueEnd(prev_kind_)
                           /\ \/ o.at_line_start_ \/ isBinaryOp(prev_kind_)
                              \/ prev_kind_ \in {"(", "comma"},
                           o)
    [] cur = "-" -> Unless(~isValueEnd(prev_kind_) /\ (o.at_line_start_ \/ AfterOpening), o)
    [] cur = "!" -> Unless(o.at_line_start_ \/ AfterOpening, o)
    [] cur \in {"<", "?"} -> emitSpace(o)
    [] cur = "string" -> IF prev_kind_ \in {"(", "comma"} /\ ~o.at_line_start_ THEN o
                         ELSE IndentOrSpace(o)
    [] cur = "name" ->
         IF prev_kind_ \in {".", "(", "[", "*", "&", "!", "--"} /\ ~o.at_line_start_ THEN o
         ELSE IndentOrSpace(o)
    [] cur = "number" ->
         IF prev_kind_ \in {"(", "[", "!", "-"} /\ ~o.at_line_start_ THEN o
         ELSE IndentOrSpace(o)
    [] cur \in Directives -> OnOwnLine(o)
    [] OTHER -> o

\* As an operator between two values; without it as a prefix.
TakenAsBinary ==
  isValueEnd(prev_kind_) /\ (cur = "*" => prev_kind_ \notin {"type", "*", "&"})

\* comment: there is a // behind cur on its line; tail: so many block comments are
\* open at its end.
AfterText(o, comment, tail) ==
  CASE cur = "lbrace" -> emitNewline(o)
    [] cur = "rbrace" -> IF nxt \in {"semicolon", "comma", ")", "rbrace", Eof} THEN o
                         ELSE emitNewline(o)
    [] cur = "semicolon" /\ paren_depth_ > 0 -> emitSpace(o)
    [] cur = "semicolon" /\ paren_depth_ = 0 ->
         LET said == IF comment THEN [emitRaw(emitSpace(o)) EXCEPT !.text = "comment"] ELSE o
         IN  IF nxt \in {Eof, "rbrace"} THEN said ELSE emitNewline(said)
    [] cur \in {"-", "*", "&"} -> IF TakenAsBinary THEN emitSpace(o) ELSE o
    [] cur \in {"if", "return"} -> IF nxt \in {"semicolon", "lbrace", Eof} THEN o ELSE emitSpace(o)
    [] cur \in {"comma", ":", "?", "<", "class", "#endif"} -> emitSpace(o)
    [] cur = "#if" -> [emitSpace(o) EXCEPT !.directive = TRUE]
    [] cur = "#define" ->                        \* its line is copied, to its end
         emitNewline([o EXCEPT !.nest = tail])
    [] OTHER -> o

-----------------------------------------------------------------------------
(***************************************************************************)
(* The texts: what may come after nxt.  A bracket is open as "(", as the   *)
(* one of a control statement ("if"), as "[", as "lbrace", or of an        *)
(* initializer ("init").                                                   *)
(***************************************************************************)
Top == IF open = <<>> THEN "lbrace" ELSE Last(open)
Opened(b) == IF Len(open) < MaxOpen THEN {Append(open, b)} ELSE {}
Here(m) == {m} \X {open}
Nested(b, m) == {m} \X Opened(b)
Closing(m) == {m} \X {Front(open)}

\* The modes and open brackets after token k, where mode m expects it.
Follows(m, k) ==
  LET start == m \in {"statement", "operand"} IN
  CASE k = "name" -> CASE m = "class" -> Here("body")
                       [] start \/ m \in {"declarator", "member"} -> Here("operator")
                       [] OTHER -> {}
    [] k = "number" /\ start -> Here("operator")
    [] k = "string" /\ (start \/ (nxt = "string" /\ m = "operator")) -> Here("operator")
    [] k = "type" /\ (m = "statement" \/ (nxt \in {"(", "comma"} /\ m = "operand")) ->
         Here("declarator")
    [] k = "*" /\ m = "declarator" -> Here("declarator")
    [] k \in PrefixOps /\ start -> Here("operand")
    [] k \in {"-", "<", "*", "&"} /\ m = "operator" ->
         IF nxt = "string" /\ k \in {"*", "&"} THEN {} ELSE Here("operand")
    [] k = "--" /\ m = "operator" /\ nxt \in {"name", ")", "]"} -> Here("operator")
    [] k = "word" /\ start -> Here("paren")
    [] k = "if" /\ m = "statement" -> Here("condition")
    [] k = "return" /\ m = "statement" -> Here("operand")
    [] k = "class" /\ m = "statement" -> Here("class")
    [] k = "(" -> CASE m = "condition" -> Nested("if", "operand")
                    [] start \/ m = "paren" \/ (m = "operator" /\ nxt \in {"name", ")", "]"}) ->
                         Nested("(", "operand")
                    [] OTHER -> {}
    [] k = ")" /\ Top = "(" /\ (m \in {"operator", "declarator"} \/ nxt = "(") -> Closing("operator")
    [] k = ")" /\ Top = "if" /\ m = "operator" -> Closing("statement")
    [] k = "[" /\ m = "operator" /\ nxt # "string" -> Nested("[", "operand")
    [] k = "]" /\ m = "operator" /\ Top = "[" -> Closing("operator")
    [] k = "lbrace" -> CASE \/ m \in {"statement", "body"}
                            \/ m = "operator" /\ nxt = ")" /\ Top = "lbrace" ->
                              Nested("lbrace", "statement")
                         [] m = "operand" /\ nxt = "<" -> Nested("init", "operand")
                         [] OTHER -> {}
    [] k = "rbrace" /\ m = "statement" /\ Top = "lbrace" /\ open # <<>> -> Closing("statement")
    [] k = "rbrace" /\ m = "operator" /\ Top = "init" -> Closing("operator")
    [] k = "semicolon" -> CASE \/ m = "operator" /\ Top = "lbrace"
                               \/ m = "statement" /\ nxt = "rbrace"
                               \/ nxt = "return" -> Here("statement")
                            [] m = "operator" /\ Top = "if" -> Here("operand")
                            [] OTHER -> {}
    [] k \in {"comma", "?"} /\ m = "operator" -> Here("operand")
    [] k = ":" /\ m = "operator" ->
         Here("operand") \cup IF Top = "lbrace" THEN Here("statement") ELSE {}
    [] k = "." /\ m = "operator" /\ nxt \in {"name", ")", "]"} -> Here("member")
    [] k = "#if" /\ m = "statement" -> Here("operand")
    [] k \in {"#endif", "#define"} /\ m = "statement" -> Here("statement")
    [] k = Eof /\ m = "statement" /\ open = <<>> -> Here("end")
    [] OTHER -> {}

Tokens == Operands \cup PrefixOps \cup Directives \cup Words
          \cup {"lbrace", "rbrace", "semicolon", "comma", "<", "(", ")", "[", "]", ".", ":", "?",
                Eof}
OfDirective == {"name", "number", "(", ")", "-", "!", "<"}

\* The line of nxt is that of an #if.
NextOnDirective == IF new_line THEN nxt = "#if" ELSE on_directive

(***************************************************************************)
(* Texts that the formatter does not keep: a sign or ++ after a sign that  *)
(* it takes as a prefix; a statement after an #if, with no line between    *)
(* that starts a comment; and block comments whose ends it loses.  The     *)
(* formatter takes the first */ on a line for the end of what it copies,   *)
(* also where that is the end of a nested comment or another comment       *)
(* begins behind it (Reopens); it copies a line which begins with a        *)
(* comment within one that it drops (WithinDropped); and a comment it      *)
(* copies ends on the line of a token (EndsAtToken) or begins on the line  *)
(* of a #define.                                                           *)
(***************************************************************************)
SignAfterSign(k) == nxt = "-" /\ k \in {"-", "--"} /\ ~isValueEnd(cur)
Starts(g) == {i \in DOMAIN g.lines : g.lines[i].starts}
AfterDirective(g) ==
  on_directive /\ new_line /\ nxt \notin Directives \cup {Eof} /\ Starts(g) = {}
Reopens(g) ==
  \E i \in DOMAIN g.lines : \E j \in Starts(g) :
    j <= i /\ g.lines[i].closes /\ g.lines[i].to # 0
WithinDropped(g) ==
  \E i \in Starts(g) : g.lines[i].from # 0 /\ \A j \in Starts(g) : i <= j
EndsAtToken(g) == Starts(g) # {} /\ Last(g.lines).to # 0
OpenCopied(g) ==
  \/ Reopens(g) \/ WithinDropped(g) \/ EndsAtToken(g)
  \/ g.tail # 0 /\ cur = "#define"

\* The token after nxt.
Read(k) ==
  /\ nxt # Eof
  /\ k \in Directives \/ nxt \in {"#define", "#endif"} => new_line'
  /\ NextOnDirective => IF new_line' THEN mode = "operator" /\ Top = "lbrace" ELSE k \in OfDirective
  /\ LET m == IF NextOnDirective /\ new_line' THEN "statement" ELSE mode
     IN  \E there \in Follows(m, k) : mode' = there[1] /\ open' = there[2]
  /\ "signs" \in Awkward \/ ~SignAfterSign(k)
  /\ cur' = nxt /\ nxt' = k
  /\ on_directive' = NextOnDirective

\* What is written before the text of cur.
Reached == BeforeText(out)

\* The end of the line of cur, where nxt is on another, and the lines up to that one.
Rests ==
  {r \in [comment : IF cur = "semicolon" THEN BOOLEAN ELSE {FALSE},
          gap : IF new_line THEN Gaps ELSE {[tail |-> 0, lines |-> <<>>]}] :
     /\ "directives" \in Awkward \/ ~AfterDirective(r.gap)
     /\ "comments" \in Awkward \/ ~OpenCopied(r.gap)}

\* One turn of the loop of format, and what the next one does before it comes to
\* the token.
Write ==
  /\ cur \notin {"begin", Eof}
  /\ LET o == emitRaw(Reached)
     IN  out' \in {emitBlockCommentsBefore(AfterText(o, r.comment, r.gap.tail), r.gap) : r \in Rests}
  /\ prev_kind_' = cur
  /\ indent_' = CASE cur = "lbrace" -> indent_ + 1 [] cur = "rbrace" -> indent_ - 1
                  [] OTHER -> indent_
  /\ paren_depth_' = CASE cur = "(" -> paren_depth_ + 1 [] cur = ")" -> paren_depth_ - 1
                       [] OTHER -> paren_depth_
  /\ \/ new_line' \in BOOLEAN /\ \E k \in Tokens : Read(k)
     \/ nxt = Eof /\ cur' = Eof /\ UNCHANGED <<nxt, new_line, mode, open, on_directive>>

\* The first two tokens, and the comments before them.
Begin ==
  /\ cur = "begin"
  /\ out' \in {IF nxt = "begin" THEN out ELSE emitBlockCommentsBefore(out, r.gap) : r \in Rests}
  /\ new_line' \in BOOLEAN /\ \E k \in Tokens : Read(k)
  /\ UNCHANGED <<prev_kind_, indent_, paren_depth_>>

Init ==
  /\ cur = "begin" /\ nxt = "begin"
  /\ new_line = TRUE
  /\ mode = "statement" /\ open = <<>>
  /\ on_directive = FALSE
  /\ prev_kind_ = Eof /\ indent_ = 0 /\ paren_depth_ = 0
  /\ out = [tail |-> "newline", at_line_start_ |-> TRUE, text |-> "code", nest |-> 0,
            directive |-> FALSE]

Next == Begin \/ Write

Spec == Init /\ [][Next]_vars

-----------------------------------------------------------------------------
TypeOK ==
  /\ out \in Outputs
  /\ indent_ \in 0..MaxOpen /\ paren_depth_ \in 0..MaxOpen

\* Two tokens that a lexer would read otherwise if nothing stood between them.
Glued(a, b) ==
  \/ a \in Words \cup Directives /\ b \in Words
  \/ a = "-" /\ b \in {"-", "--", "<"}
  \/ a = "<" /\ b \in {"<", "-", "--", "*", "&"}
  \/ a \in {"*", "!", "--"} /\ b = "<"
  \/ a = "&" /\ b \in {"&", "<"}
  \/ <<a, b>> \in {<<"number", ".">>, <<".", "number">>, <<":", ":">>}

\* docs.html: "formatter mode tests verify formatting round-trips".  Each token that
\* is written is read again as that token: not within a comment, not as one with the
\* token before it, and on the line of a directive only if it was there before.
\* Nothing is said of the comments: some are dropped.
RoundTrips ==
  cur \notin {"begin", Eof} =>
    /\ Reached.text = "code" /\ Reached.nest = 0
    /\ Reached.tail = "text" => ~Glued(prev_kind_, cur)
    /\ Reached.directive <=> (on_directive /\ cur # "#if")
=============================================================================
