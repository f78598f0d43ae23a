----------------------------- MODULE RBTreeSpec ------------------------------
(***************************************************************************)
(* A Map under its callers: they write elements with [], which inserts a   *)
(* key that is not there, remove keys and clear the map.                   *)
(***************************************************************************)
EXTENDS RBTree

VARIABLES
  t,
  treeCall  \* the last call: its name and the key it was made for

treeVars == <<t, treeCall>>

TreeInit == t = EmptyTree /\ treeCall = [op |-> "none"]

\* operator[], which inserts only what contain does not find.
PutKey(k) ==
  /\ ~t.fault
  /\ t' = IF Search(t, t.root, k) = NoNode THEN Insert(t, k) ELSE t
  /\ treeCall' = [op |-> "put", key |-> k]

EraseKey(k) ==
  /\ ~t.fault
  /\ t' = Remove(t, k)
  /\ treeCall' = [op |-> "remove", key |-> k]

ClearMap ==
  /\ ~t.fault
  /\ t' = EmptyTree
  /\ treeCall' = [op |-> "clear"]

\* The page fault ends in crash.
Crashed == t.fault /\ UNCHANGED treeVars

TreeNext == (\E k \in Keys : PutKey(k) \/ EraseKey(k)) \/ ClearMap \/ Crashed

TreeSpec == TreeInit /\ [][TreeNext]_treeVars
------------------------------------------------------------------------------
\* The nodes from x up to the root.
RECURSIVE Upwards(_, _)
Upwards(s, x) == IF x = NoNode THEN {} ELSE {x} \cup Upwards(s, s.parent[x])

Content(s) == {k \in Keys : Search(s, s.root, k) = k}
BlackDepth(s, k) == Cardinality(Upwards(s, k) \ s.red)
Ends(s) == {k \in Content(s) : ~HasBoth(s, k)}

\* Below every node there are as many black nodes on every way down, no red node
\* is below a red one, and the root is black.
RedBlack(s) ==
  /\ s.root \notin s.red
  /\ \A k \in Content(s) \cap s.red : s.parent[k] \notin s.red
  /\ \A k, l \in Ends(s) : BlackDepth(s, k) = BlackDepth(s, l)

\* Every link leads to a node of the tree and back, and nothing is left of nodes that
\* have been removed, after any order of insertions and removals (Map.hpp:206-277).
LinksLeadBack ==
  LET nodes == Content(t)
      links == {k \in Keys : t.parent[k] # NoNode \/ \E d \in Sides : t.child[d][k] # NoNode}
  IN  /\ t.red \cup links \cup ({t.root} \ {NoNode}) \subseteq nodes
      /\ \A k \in nodes : IF t.root = k THEN t.parent[k] = NoNode
                          ELSE t.parent[k] \in nodes /\ t.child[SideOf(t, k)][t.parent[k]] = k
      /\ \A d \in Sides, k \in nodes :
           t.child[d][k] # NoNode => t.child[d][k] \in nodes /\ t.parent[t.child[d][k]] = k

\* Whatever the order of the calls, a search finds the keys that were put and not
\* erased, and no others: each call adds or removes the very key it was made for.
D == INSTANCE Dictionary WITH KeySet <- Keys, content <- Content(t), call <- treeCall

ImplementsDictionary == D!DSpec

\* The tree is balanced: "the fix-up after a removal restores the properties of
\* the red-black tree" (Map.hpp:34).
IsBalanced == RedBlack(t)

\* No insertion spoils the balance, and no removal but that of a black node that
\* has no child.
OnlyBlackLeavesSpoil ==
  [][RedBlack(t) /\ ~RedBlack(t') =>
       \E k \in Content(t) \ Content(t') :
         LET y == Spliced(t, k) IN y \notin t.red /\ Replacement(t, y) = NoNode]_treeVars
==============================================================================
