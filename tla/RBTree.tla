------------------------------- MODULE RBTree --------------------------------
(***************************************************************************)
(* The ordered map of kernel/class/Map.hpp, a red-black tree.  Nodes are   *)
(* never given another key, so a node is its key here.  A tree is a record *)
(*     t = [root, child, parent, red, fault]                               *)
(* where child[d][k] is the child of node k on side d, parent[k] its       *)
(* parent and red the set of the red nodes.  A node that is not in the     *)
(* tree has no links and is not red.  fault is set when the code has       *)
(* followed a null pointer: page 0 is not mapped, and the kernel stops.    *)
(***************************************************************************)
EXTENDS Integers, FiniteSets

CONSTANT Keys

NoNode == 0

ASSUME KeysAssumption == Keys \subseteq Nat \ {NoNode}

Sides == {"left", "right"}
Opposite(d) == IF d = "left" THEN "right" ELSE "left"

EmptyTree ==
  [root |-> NoNode, red |-> {}, fault |-> FALSE,
   child |-> [d \in Sides |-> [k \in Keys |-> NoNode]],
   parent |-> [k \in Keys |-> NoNode]]

Red(t, k) == k \in t.red
Paint(t, k, red) == [t EXCEPT !.red = IF red THEN @ \cup {k} ELSE @ \ {k}]
SideOf(t, k) == IF t.child["left"][t.parent[k]] = k THEN "left" ELSE "right"

\* v, or nothing, takes the place of u below the parent of u.
Relink(t, u, v) ==
  IF t.parent[u] = NoNode THEN [t EXCEPT !.root = v]
  ELSE [t EXCEPT !.child[SideOf(t, u)][t.parent[u]] = v]

SetParent(t, k, p) == IF k = NoNode THEN t ELSE [t EXCEPT !.parent[k] = p]

\* leftRotate and rightRotate: node x goes down on side d.
\* Mutant: the inner child keeps its old parent.
Rotate_OldParent(t, x, d) ==
  LET y == t.child[Opposite(d)][x]
      inner == t.child[d][y]
      up == [Relink(t, x, y) EXCEPT !.parent[y] = t.parent[x]]
  IN  [up EXCEPT !.child[Opposite(d)][x] = inner, !.child[d][y] = x, !.parent[x] = y]

Rotate(t, x, d) ==
  LET y == t.child[Opposite(d)][x]
      inner == t.child[d][y]
      up == SetParent([Relink(t, x, y) EXCEPT !.parent[y] = t.parent[x]], inner, x)
  IN  [up EXCEPT !.child[Opposite(d)][x] = inner, !.child[d][y] = x, !.parent[x] = y]

Transplant(t, u, v) == SetParent(Relink(t, u, v), v, t.parent[u])
------------------------------------------------------------------------------
\* The node that holds key k at or below x, or NoNode.
RECURSIVE Search(_, _, _)
Search(t, x, k) ==
  IF x \in {NoNode, k} THEN x
  ELSE Search(t, t.child[IF k < x THEN "left" ELSE "right"][x], k)

\* The node below which key k belongs, which the tree does not hold.
RECURSIVE InsertionPoint(_, _, _)
InsertionPoint(t, x, k) ==
  LET next == t.child[IF k < x THEN "left" ELSE "right"][x]
  IN  IF next = NoNode THEN x ELSE InsertionPoint(t, next, k)

RECURSIVE Least(_, _)
Least(t, x) == IF t.child["left"][x] = NoNode THEN x ELSE Least(t, t.child["left"][x])
------------------------------------------------------------------------------
\* A red uncle: parent and uncle become black, the grandparent red.
Recolour(t, p, u, g) == Paint(Paint(Paint(t, p, FALSE), u, FALSE), g, TRUE)

\* A black uncle, z on the outer side of its parent: the grandparent goes down.
\* Mutant: the grandparent is not painted.
OuterCase_KeepColour(t, p, g, d) == Rotate(Paint(t, p, FALSE), g, Opposite(d))

OuterCase(t, p, g, d) == Rotate(Paint(Paint(t, p, FALSE), g, TRUE), g, Opposite(d))

RECURSIVE InsertFixup(_, _)
InsertFixup(t, z) ==
  LET p == t.parent[z]
      g == t.parent[p]
      d == SideOf(t, p)
      u == t.child[Opposite(d)][g]
  IN  IF p = NoNode \/ ~Red(t, p) THEN Paint(t, t.root, FALSE)
      ELSE IF Red(t, u) THEN InsertFixup(Recolour(t, p, u, g), g)
      ELSE IF SideOf(t, z) = d THEN InsertFixup(OuterCase(t, p, g, d), z)
      ELSE InsertFixup(OuterCase(Rotate(t, p, d), z, g, d), p)

Insert(t, k) ==
  IF t.root = NoNode THEN [t EXCEPT !.root = k]
  ELSE LET p == InsertionPoint(t, t.root, k)
           hung == [t EXCEPT !.child[IF k < p THEN "left" ELSE "right"][p] = k,
                             !.parent[k] = p, !.red = @ \cup {k}]
       IN  InsertFixup(hung, k)
------------------------------------------------------------------------------
\* A red brother is painted black and the parent rotated, so that x gets a black one.
BlackBrother(t, x, d) ==
  LET p == t.parent[x]
      w == t.child[Opposite(d)][p]
  IN  IF Red(t, w) THEN Rotate(Paint(Paint(t, w, FALSE), p, TRUE), p, d) ELSE t

\* Some child of the brother is red: x ends up one black node deeper.
Deepen(t, x, w, d) ==
  LET p == t.parent[x]
      inner == t.child[d][w]
      s == IF Red(t, t.child[Opposite(d)][w]) THEN t
           ELSE Rotate(Paint(Paint(t, inner, FALSE), w, TRUE), w, Opposite(d))
      v == s.child[Opposite(d)][p]
      outer == s.child[Opposite(d)][v]
      painted == Paint(Paint(Paint(s, v, Red(s, p)), p, FALSE), outer, FALSE)
  IN  Rotate(painted, p, d)

\* The brother, and its children, are looked at without a test for null.
RECURSIVE DeleteFixup(_, _)
DeleteFixup(t, x) ==
  LET d == SideOf(t, x)
      s == BlackBrother(t, x, d)
      w == s.child[Opposite(d)][s.parent[x]]
      nephews == {s.child[side][w] : side \in Sides}
  IN  IF x = NoNode THEN t
      ELSE IF x = t.root \/ Red(t, x) THEN Paint(t, x, FALSE)
      ELSE IF w = NoNode \/ NoNode \in nephews THEN [s EXCEPT !.fault = TRUE]
      ELSE IF nephews \cap s.red = {} THEN DeleteFixup(Paint(s, w, TRUE), s.parent[x])
      ELSE LET done == Deepen(s, x, w, d) IN Paint(done, done.root, FALSE)

HasBoth(t, k) == \A d \in Sides : t.child[d][k] # NoNode

\* The node that leaves its place when k is removed, and what takes its place.
Spliced(t, k) == IF HasBoth(t, k) THEN Least(t, t.child["right"][k]) ELSE k
Replacement(t, y) == t.child[IF t.child["left"][y] = NoNode THEN "right" ELSE "left"][y]

\* Mutant: the right subtree of k is not handed over.
TakePlace_KeepRight(t, k, y) ==
  LET v == Transplant(Transplant(t, y, t.child["right"][y]), k, y)
      l == t.child["left"][k]
  IN  Paint([v EXCEPT !.child["left"][y] = l, !.parent[l] = y], y, Red(t, k))

\* Node y, the least of the right subtree of k, takes the place of k.
TakePlace(t, k, y) ==
  LET x == t.child["right"][y]
      r == t.child["right"][k]
      s == IF y = r THEN t
           ELSE [Transplant(t, y, x) EXCEPT !.child["right"][y] = r, !.parent[r] = y]
      v == Transplant(s, k, y)
      l == t.child["left"][k]
  IN  Paint([v EXCEPT !.child["left"][y] = l, !.parent[l] = y], y, Red(t, k))

\* A deleted node has no links.
Delete(t, k) ==
  [t EXCEPT !.child["left"][k] = NoNode, !.child["right"][k] = NoNode,
            !.parent[k] = NoNode, !.red = @ \ {k}]

Remove(t, k) ==
  LET y == Spliced(t, k)
      x == Replacement(t, y)
      cut == Delete(IF y = k THEN Transplant(t, k, x) ELSE TakePlace(t, k, y), k)
  IN  IF Search(t, t.root, k) = NoNode THEN t
      ELSE IF Red(t, y) THEN cut
      ELSE DeleteFixup(cut, x)
==============================================================================
