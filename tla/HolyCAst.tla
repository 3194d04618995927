------------------------------ MODULE HolyCAst ------------------------------
(***************************************************************************)
(* HolyC programs as the statement walker of the interpreter sees them.    *)
(*                                                                         *)
(* A program is a record                                                   *)
(*   node : sequence of statement nodes; a node's identity is its index    *)
(*   body : for each function the index of its body, a compound            *)
(*   top  : a compound that lists the statements outside every function    *)
(*   main : the index of the body of Main, 0 when there is no Main         *)
(*                                                                         *)
(* A node keeps what decides control and drops the rest:                   *)
(*   kind    the NodeKind; "simple" is every statement that only evaluates *)
(*           (ExprStmt, DeclStmt, StringOutputStmt, AsmStmt)               *)
(*   kids    child statements: of a compound its list, of an if            *)
(*           <<then, else>> (else may be missing), of a loop <<body>>, of a*)
(*           label its statement, of a try <<try body, catch body>>, of a  *)
(*           switch the statements of all its cases in source order        *)
(*   expr    the expression it evaluates: it has no effect on control, or  *)
(*           throws, or calls a function                                   *)
(*   init, post   the two further expressions of a for                     *)
(*   name    the label of a goto or of a labelled statement                *)
(*   entries the positions in kids where a case of a switch begins         *)
(*   dflt    whether a switch has a default                                *)
(*   up      the parent statement, 0 for a body                            *)
(***************************************************************************)
EXTENDS Naturals, Sequences

CONSTANTS
  Funcs,    \* the names of the user functions
  Labels    \* the label names

Pure  == "pure"
Throw == "throw"
NoLabel == "no label"

ASSUME FuncsAssumption == Funcs \cap {Pure, Throw} = {}
ASSUME LabelsAssumption == NoLabel \notin Labels

Exprs == {Pure, Throw} \cup Funcs

Loops == {"while", "for", "dowhile"}

Kinds == {"compound", "simple", "if", "switch", "return", "break",
          "continue", "goto", "label", "try"} \cup Loops

Node == [kind : Kinds, kids : Seq(Nat \ {0}), expr : Exprs, init : Exprs,
         post : Exprs, name : Labels \cup {NoLabel}, entries : SUBSET Nat,
         dflt : BOOLEAN, up : Nat]

(***************************************************************************)
(* What the parser guarantees of every tree it builds, and the interpreter *)
(* relies on: children exist, a child knows its parent, bodies are         *)
(* compounds, and the children of a try are compounds.  A tree has no      *)
(* cycle: the nodes are numbered so that a parent comes before its         *)
(* children, and no node is a child twice.                                 *)
(***************************************************************************)
WellFormed(p) ==
  /\ p.node \in Seq(Node)
  /\ p.body \in [Funcs -> DOMAIN p.node]
  /\ p.top \in DOMAIN p.node
  /\ p.main \in DOMAIN p.node \cup {0}
  /\ p.top \notin {p.body[f] : f \in Funcs} \cup {p.main}
  /\ \A b \in {p.body[f] : f \in Funcs} \cup ({p.top, p.main} \ {0}) :
        p.node[b].kind = "compound" /\ p.node[b].up = 0
  /\ \A n \in DOMAIN p.node : \A i \in DOMAIN p.node[n].kids :
        /\ p.node[n].kids[i] \in DOMAIN p.node
        /\ p.node[p.node[n].kids[i]].up = n
        /\ p.node[n].kind = "try" =>
             p.node[p.node[n].kids[i]].kind = "compound"
        /\ \A j \in DOMAIN p.node[n].kids : p.node[n].kids[i] = p.node[n].kids[j] => i = j
  /\ \A n \in DOMAIN p.node :
        /\ p.node[n].up \in DOMAIN p.node \cup {0} /\ p.node[n].up < n
        /\ p.node[n].up # 0 =>
             \E i \in DOMAIN p.node[p.node[n].up].kids :
               p.node[p.node[n].up].kids[i] = n
        /\ p.node[n].kind \in Loops => Len(p.node[n].kids) = 1
        /\ p.node[n].kind = "if" => Len(p.node[n].kids) \in {1, 2}
        /\ p.node[n].kind = "try" => Len(p.node[n].kids) = 2
        /\ p.node[n].kind = "label" => Len(p.node[n].kids) \in {0, 1}
        /\ p.node[n].kind \in {"goto", "label"} => p.node[n].name \in Labels
        /\ p.node[n].entries \subseteq DOMAIN p.node[n].kids

-----------------------------------------------------------------------------
(* Positions in the tree.                                                  *)

Position(p, n) ==
  LET kids == p.node[p.node[n].up].kids
  IN  CHOOSE i \in DOMAIN kids : kids[i] = n

\* The nearest statement of one of the kinds K around n, 0 when there is none.
Enclosing(p, K, n) ==
  LET around[m \in DOMAIN p.node] ==
        LET u == p.node[m].up
        IN  IF u = 0 \/ p.node[u].kind \in K THEN u ELSE around[u]
  IN  around[n]

\* The body (of a function, of Main or of the top level) that contains n.
Root(p, n) ==
  LET root[m \in DOMAIN p.node] ==
        IF p.node[m].up = 0 THEN m ELSE root[p.node[m].up]
  IN  root[n]

(***************************************************************************)
(* The compounds that scanLabels(body) visits: it descends into a compound *)
(* listed in a compound and into the compound that is a branch or the body *)
(* of an if or of a loop listed there; it does not enter a switch, a try,  *)
(* or the statement of a label.                                            *)
(***************************************************************************)
Scanned(p, body, c) ==
  LET visited[m \in DOMAIN p.node] ==
        LET u == p.node[m].up IN
        /\ p.node[m].kind = "compound"
        /\ \/ m = body
           \/ u # 0 /\ p.node[u].kind = "compound" /\ visited[u]
           \/ /\ u # 0 /\ p.node[u].kind \in Loops \cup {"if"}
              /\ p.node[u].up # 0 /\ p.node[p.node[u].up].kind = "compound"
              /\ visited[p.node[u].up]
  IN  visited[c]

\* labels_ after scanLabels(body), looked up at l: the labelled statement, or
\* 0 when the table has no entry.  Its parent and index are those of the entry.
LabelEntry(p, body, l) ==
  LET found == {n \in DOMAIN p.node :
                  /\ p.node[n].kind = "label" /\ p.node[n].name = l
                  /\ p.node[n].up # 0 /\ Scanned(p, body, p.node[n].up)}
  IN  IF found = {} THEN 0 ELSE CHOOSE n \in found : TRUE

-----------------------------------------------------------------------------
(* Classes of programs.                                                    *)

\* break only in a loop or a switch, continue only in a loop, a goto only to a
\* label of the same body, and no label twice in a body.
CLegal(p) ==
  /\ \A n \in DOMAIN p.node :
       /\ p.node[n].kind = "break" => Enclosing(p, Loops \cup {"switch"}, n) # 0
       /\ p.node[n].kind = "continue" => Enclosing(p, Loops, n) # 0
       /\ p.node[n].kind = "goto" =>
            \E m \in DOMAIN p.node :
              /\ p.node[m].kind = "label" /\ p.node[m].name = p.node[n].name
              /\ Root(p, m) = Root(p, n)
  /\ \A m, n \in DOMAIN p.node :
       /\ p.node[m].kind = "label" /\ p.node[n].kind = "label"
       /\ p.node[m].name = p.node[n].name /\ Root(p, m) = Root(p, n)
       => m = n

\* Compound c is around n, and no loop and no switch stands between.
Reaches(p, c, n) ==
  LET reach[m \in DOMAIN p.node] ==
        LET u == p.node[m].up
        IN  IF u \in {0, c} \/ p.node[u].kind \in Loops \cup {"switch"}
            THEN u = c ELSE reach[u]
  IN  reach[n]

\* Every goto leaves only compounds, branches, labels and try blocks on its way
\* to a label that scanLabels records.
GotoSafe(p) ==
  \A n \in DOMAIN p.node : p.node[n].kind = "goto" =>
    LET l == LabelEntry(p, Root(p, n), p.node[n].name)
    IN  l # 0 /\ Root(p, n) # p.top /\ Reaches(p, p.node[l].up, n)

Evaluated(p, n) == {p.node[n].expr, p.node[n].init, p.node[n].post}

\* No statement throws.
ThrowFree(p) == \A n \in DOMAIN p.node : Throw \notin Evaluated(p, n)

\* The try whose try body contains n most closely, 0 when there is none.
Handler(p, n) ==
  LET handler[m \in DOMAIN p.node] ==
        LET u == p.node[m].up
        IN  IF u = 0 \/ (p.node[u].kind = "try" /\ p.node[u].kids[1] = m)
            THEN u ELSE handler[u]
  IN  handler[n]

\* Every throw stands in the try body of a try of the same function: the
\* exception never leaves the call that raises it.
LocalThrows(p) ==
  \A n \in DOMAIN p.node : Throw \in Evaluated(p, n) => Handler(p, n) # 0

HasGoto(p) == \E n \in DOMAIN p.node : p.node[n].kind = "goto"

\* No return, break, continue or goto leaves a try body.
NoJumpOutOfTry(p) ==
  \A n \in DOMAIN p.node :
    LET kind == p.node[n].kind
        target == Enclosing(p, IF kind = "break" THEN Loops \cup {"switch"} ELSE Loops, n)
    IN  /\ kind = "return" => Handler(p, n) = 0
        /\ kind \in {"break", "continue"} => Handler(p, target) = Handler(p, n)
        /\ kind = "goto" =>
             \A m \in DOMAIN p.node :
               p.node[m].kind = "label" /\ p.node[m].name = p.node[n].name
               /\ Root(p, m) = Root(p, n) => Handler(p, m) = Handler(p, n)

\* After statement n the block is closed: by n itself or by one in the list or the
\* label that n is, as nothing opens it again there.
Closes(p, n) ==
  LET within[m \in DOMAIN p.node] ==
        LET u == p.node[m].up
        IN  IF m = n \/ u = 0 \/ p.node[u].kind \notin {"compound", "label"} THEN m = n
            ELSE within[u]
  IN  \E m \in DOMAIN p.node :
        within[m] /\ (p.node[m].kind \in {"break", "continue"} \/ Throw \in Evaluated(p, m))

\* Statement n is lowered, and the scan of the labels looks at it.
Placed(p, n) ==
  LET placed[m \in DOMAIN p.node] ==
        LET u == p.node[m].up
        IN  IF u = 0 THEN m # p.top
            ELSE IF \/ p.node[u].kind \notin {"compound", "if", "label"} \cup Loops
                    \/ \E i \in 1..Position(p, m) - 1 : Closes(p, p.node[u].kids[i])
            THEN FALSE ELSE placed[u]
  IN  placed[n]

\* A throw is a statement, none ends the top level before it calls Main, and no label
\* stands where lowerStmt drops it or where the scan of the labels does not look.
Compilable(p) ==
  /\ \A n \in DOMAIN p.node : Throw \in Evaluated(p, n) => p.node[n].kind = "simple"
  /\ p.main # 0 => \A i \in DOMAIN p.node[p.top].kids : ~Closes(p, p.node[p.top].kids[i])
  /\ \A n \in DOMAIN p.node : p.node[n].kind = "label" => Placed(p, n)
=============================================================================
