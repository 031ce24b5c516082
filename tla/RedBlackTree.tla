----------------------------- MODULE RedBlackTree -----------------------------
(***************************************************************************)
(* wepoll.c: the tree that maps socket and handle values to their nodes,   *)
(* with its pointers. A node is named by its key; sides are named so that  *)
(* the mirrored cases of the code's macros are one definition.             *)
(***************************************************************************)
EXTENDS Naturals, FiniteSets

CONSTANT N   \* keys are 1 .. N

VARIABLES tree,   \* root, and of every node its children, parent and color
          keys    \* what has been added and not deleted

Keys == 1 .. N
Nil == 0
Sides == {"left", "right"}
Other(side) == IF side = "left" THEN "right" ELSE "left"

Child(t, side, n) == t.child[side][n]
IsRed(t, n) == n # Nil /\ t.red[n]
SetParent(t, n, p) == IF n = Nil THEN t ELSE [t EXCEPT !.parent[n] = p]
Paint(t, nodes, red) == [t EXCEPT !.red = [n \in Keys |-> IF n \in nodes THEN red ELSE @[n]]]

\* The link that leads from up, or from the root, to p leads to q.
Relink(t, up, p, q) ==
    IF up = Nil THEN [t EXCEPT !.root = q]
    ELSE IF Child(t, "left", up) = p THEN [t EXCEPT !.child["left"][up] = q]
    ELSE [t EXCEPT !.child["right"][up] = q]

\* TREE__ROTATE
Rotate(t, p, cis) ==
    LET trans == Other(cis)
        q == Child(t, trans, p)
        up == t.parent[p]
        t1 == [Relink(t, up, p, q) EXCEPT !.parent[q] = up, !.parent[p] = q,
                  !.child[trans][p] = Child(t, cis, q), !.child[cis][q] = p] IN
    SetParent(t1, Child(t, cis, q), p)

------------------------------------------------------------------------------
(* tree_add and tree_find *)

\* The node with the key, or the one that gets it as a child.
RECURSIVE Descend(_, _, _)
Descend(t, k, n) ==
    LET next == Child(t, IF k < n THEN "left" ELSE "right", n) IN
    IF k = n \/ next = Nil THEN n ELSE Descend(t, k, next)

\* TREE__REBALANCE_AFTER_INSERT until the parent is black.
RECURSIVE RebalanceAfterInsert(_, _)
RebalanceAfterInsert(t, node) ==
    LET parent == t.parent[node]
        grandparent == t.parent[parent]
        cis == IF parent = Child(t, "left", grandparent) THEN "left" ELSE "right"
        trans == Other(cis)
        uncle == Child(t, trans, grandparent)
        inner == node = Child(t, trans, parent)
        top == IF inner THEN node ELSE parent
        t1 == IF inner THEN Rotate(t, parent, cis) ELSE t IN
    IF ~IsRed(t, parent) THEN t
    ELSE IF IsRed(t, uncle)
    THEN RebalanceAfterInsert(Paint(Paint(t, {parent, uncle}, FALSE), {grandparent}, TRUE), grandparent)
    ELSE Rotate(Paint(Paint(t1, {top}, FALSE), {grandparent}, TRUE), grandparent, trans)

\* A new red leaf under at, or the root.
Attach(t, k, at) ==
    [IF at = Nil THEN [t EXCEPT !.root = k]
     ELSE [t EXCEPT !.child[IF k < at THEN "left" ELSE "right"][at] = k]
     EXCEPT !.parent[k] = at, !.red[k] = TRUE, !.child["left"][k] = Nil, !.child["right"][k] = Nil]

\* A key that is there already is refused.
tree_add(t, k) ==
    LET at == IF t.root = Nil THEN Nil ELSE Descend(t, k, t.root)
        t1 == RebalanceAfterInsert(Attach(t, k, at), k) IN
    IF at = k THEN t ELSE Paint(t1, {t1.root}, FALSE)

tree_find(t, k) == IF t.root # Nil /\ Descend(t, k, t.root) = k THEN k ELSE Nil

------------------------------------------------------------------------------
(* tree_del *)

RECURSIVE Leftmost(_, _)
Leftmost(t, n) == IF Child(t, "left", n) = Nil THEN n ELSE Leftmost(t, Child(t, "left", n))

\* The node is out of the tree: what took its place, the parent of that, and
\* whether the place that has become vacant was red.
Splice(t, node) ==
    LET left == Child(t, "left", node)
        right == Child(t, "right", node)
        up == t.parent[node]
        both == left # Nil /\ right # Nil
        next == IF both THEN Leftmost(t, right) ELSE IF left = Nil THEN right ELSE left
        heir == IF both THEN Child(t, "right", next) ELSE next
        parent == IF ~both THEN up ELSE IF next = right THEN next ELSE t.parent[next]
        t1 == Relink(t, up, node, next)
        t2 == IF ~both THEN t1
              ELSE [t1 EXCEPT !.red[next] = t.red[node], !.parent[next] = up,
                              !.child["left"][next] = left, !.parent[left] = next]
        t3 == IF ~both \/ next = right THEN t2
              ELSE [t2 EXCEPT !.child["left"][parent] = heir,
                              !.child["right"][next] = right, !.parent[right] = next] IN
    [tree |-> SetParent(t3, heir, parent), heir |-> heir, parent |-> parent,
     red |-> t.red[IF both THEN next ELSE node]]

\* Mutant: the near nephew is not rotated outwards first.
RebalanceAfterRemove_farOnly(t, parent, cis) ==
    LET trans == Other(cis)
        sibling == Child(t, trans, parent)
        t1 == Paint([t EXCEPT !.red[sibling] = t.red[parent]],
                    {parent, Child(t, trans, sibling)}, FALSE) IN
    Rotate(t1, parent, cis)

\* The end of TREE__REBALANCE_AFTER_REMOVE: the sibling is black and has a
\* red child, which makes up for the black node that is missing.
RebalanceAfterRemove(t, parent, cis) ==
    LET trans == Other(cis)
        near == Child(t, trans, parent)
        far == Child(t, trans, near)
        inwards == ~IsRed(t, far)
        t1 == IF inwards
              THEN Rotate(Paint(Paint(t, {Child(t, cis, near)}, FALSE), {near}, TRUE), near, trans)
              ELSE t
        sibling == Child(t1, trans, parent)
        t2 == Paint([t1 EXCEPT !.red[sibling] = t1.red[parent]],
                    {parent, Child(t1, trans, sibling)}, FALSE) IN
    Rotate(t2, parent, cis)

\* The paths through node lack a black node.
RECURSIVE FixPath(_, _, _)
FixPath(t, node, parent) ==
    LET cis == IF node = Child(t, "left", parent) THEN "left" ELSE "right"
        trans == Other(cis)
        red == IsRed(t, Child(t, trans, parent))
        t1 == IF red
              THEN Rotate(Paint(Paint(t, {Child(t, trans, parent)}, FALSE), {parent}, TRUE), parent, cis)
              ELSE t
        sibling == Child(t1, trans, parent)
        t2 == RebalanceAfterRemove(t1, parent, cis)
        t3 == Paint(t1, {sibling}, TRUE) IN
    IF node = t.root THEN Paint(t, {node}, FALSE)
    ELSE IF \E side \in Sides : IsRed(t1, Child(t1, side, sibling)) THEN Paint(t2, {t2.root}, FALSE)
    ELSE IF IsRed(t3, parent) THEN Paint(t3, {parent}, FALSE)
    ELSE FixPath(t3, parent, t3.parent[parent])

tree_del(t, node) ==
    LET s == Splice(t, node) IN
    IF s.red THEN s.tree
    ELSE IF IsRed(s.tree, s.heir) THEN Paint(s.tree, {s.heir}, FALSE)
    ELSE FixPath(s.tree, s.heir, s.parent)

------------------------------------------------------------------------------
Init ==
    /\ tree = [root |-> Nil, child |-> [side \in Sides |-> [n \in Keys |-> Nil]],
               parent |-> [n \in Keys |-> Nil], red |-> [n \in Keys |-> FALSE]]
    /\ keys = {}

Add(k) == tree' = tree_add(tree, k) /\ keys' = keys \cup {k}

\* The fields of a node that has left the tree mean nothing.
Forget(t, k) == [t EXCEPT !.child["left"][k] = Nil, !.child["right"][k] = Nil,
                          !.parent[k] = Nil, !.red[k] = FALSE]
Del(k) == k \in keys /\ tree' = Forget(tree_del(tree, k), k) /\ keys' = keys \ {k}

Next == \E k \in Keys : Add(k) \/ Del(k)

Spec == Init /\ [][Next]_<<tree, keys>>

------------------------------------------------------------------------------
(* Properties *)

\* Every key that was added and not deleted is found, and no other key:
\* no sequence of additions and deletions loses or resurrects a node.
FindsExactlyTheKeys == \A k \in Keys : tree_find(tree, k) = IF k \in keys THEN k ELSE Nil

\* Parent and child pointers agree; tree_del and the rotations of the next
\* call start from them.
LinksAgree ==
    /\ tree.root # Nil => tree.parent[tree.root] = Nil
    /\ \A n \in keys, side \in Sides : Child(tree, side, n) # Nil => tree.parent[Child(tree, side, n)] = n
    /\ \A n \in keys \ {tree.root} : \E side \in Sides : Child(tree, side, tree.parent[n]) = n

\* Black nodes on the paths down from n, N + 1 when two paths differ.
RECURSIVE BlackHeight(_)
BlackHeight(n) ==
    IF n = Nil THEN 0
    ELSE LET l == BlackHeight(Child(tree, "left", n))
             r == BlackHeight(Child(tree, "right", n)) IN
         IF l # r \/ l = N + 1 THEN N + 1 ELSE l + (IF tree.red[n] THEN 0 ELSE 1)

\* The colors keep the tree balanced: the root is black, a red node has no
\* red child, and all paths down have the same number of black nodes.
Balanced ==
    /\ ~IsRed(tree, tree.root)
    /\ \A n \in keys, side \in Sides : tree.red[n] => ~IsRed(tree, Child(tree, side, n))
    /\ BlackHeight(tree.root) # N + 1

==============================================================================
