---------------------------- MODULE MCContainers ----------------------------
(***************************************************************************)
(* The containers of src/stdlib other than the hash map, the sort and the  *)
(* matcher of regular expressions.  They share no state, so a behaviour    *)
(* uses one of them: the one which names.                                  *)
(*                                                                         *)
(* The limits on capacities are small, so that a queue or a stack grows,   *)
(* is refused at the limit, and starts again without a buffer.  The set    *)
(* has more keys than slots, so that chains collide, wrap around the end   *)
(* of the table and fill it; 0, the content of an unused slot and of the   *)
(* null node of a tree, and negative numbers are keys.                     *)
(*                                                                         *)
(* The proof module is extended, so that what the runs check is the very   *)
(* property that its theorems state.                                       *)
(***************************************************************************)
EXTENDS ContainerProofs, TLC

CONSTANTS n1, n2, n3, h1, h2, End

VARIABLES
    which,                                              \* the container in use
    pattern                                             \* StdRegex

MCValues == {7, 8}
MCIndices == {-1, 0, 1, 3, 6}
MCSetKeys == {0, 1, 3, 4, 7, -1}
MCTreeKeys == -2 .. 3
MCSortValues == -1 .. 1
MCSizes == 0 .. 7
MCNodes == {n1, n2, n3}
MCHeads == {h1, h2}
NodeSymmetry == Permutations(MCNodes)

Regex == INSTANCE StdRegex
  WITH Letters <- {"a", "b"}, Signs <- {".", "*", "+", "?", "[", "]", "$", "^"},
       MaxDepth <- 4, MaxIter <- 10, MaxPattern <- 4, MaxText <- 3

Containers ==
  {"queue", "vector", "stack", "set", "tree", "sort", "list", "regex"}

AnyInit ==
  /\ which \in Containers
  /\ Init /\ Vector!Init /\ Stack!Init /\ Set!Init /\ Tree!Init /\ List!Init
  /\ Sort!Init /\ Regex!Init
  /\ which # "sort" => DOMAIN arr = {}

queueVars == vars
vectorVars == <<vec, vec_len, vec_cap, vec_result>>
stackVars == <<stk, stk_cap, stk_top, stk_result>>
setVars == <<set_keys, set_used, set_removed>>
treeVars == <<tree_key, tree_left, tree_right, tree_size, root>>
sortVars == <<arr, frames, input>>
listVars == <<next, prev, val, live, list_result>>

AnyNext ==
  /\ UNCHANGED which
  /\ IF which = "queue" THEN Next ELSE UNCHANGED queueVars
  /\ IF which = "vector" THEN Vector!Next ELSE UNCHANGED vectorVars
  /\ IF which = "stack" THEN Stack!Next ELSE UNCHANGED stackVars
  /\ IF which = "set" THEN Set!Next ELSE UNCHANGED setVars
  /\ IF which = "tree" THEN Tree!Next ELSE UNCHANGED treeVars
  /\ IF which = "sort" THEN Sort!Next ELSE UNCHANGED sortVars
  /\ IF which = "list" THEN List!Next ELSE UNCHANGED listVars
  /\ IF which = "regex" THEN Regex!Next ELSE UNCHANGED pattern

AnySpec ==
  AnyInit /\ [][AnyNext]_<<which, queueVars, vectorVars, stackVars, setVars,
                           treeVars, sortVars, listVars, pattern>>

-----------------------------------------------------------------------------
\* StdRegex: backtracking finds a match exactly if there is one, within limits that
\* bound what it costs and that no way out of a call forgets to restore.
PatternsMatch == Regex!MatchesExactly /\ Regex!CallsAreBounded

\* docs/docs.html: SetHas checks "if a value exists in the set".
StoredKeysStayFound == Set!StoredIsFound
=============================================================================
