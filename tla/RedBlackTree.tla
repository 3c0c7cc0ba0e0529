---------------------------- MODULE RedBlackTree ----------------------------
(***************************************************************************)
(* The red-black tree that holds contacts, ranges and nodes                *)
(* (ported_from_ion/rbt/rbt.c), with its top-down insertion and deletion,  *)
(* and the sweeps of its users, which delete while they iterate.           *)
(*                                                                         *)
(* A node is named by the key it holds at the beginning of a call: what    *)
(* names it outside of a call does not matter, since the users keep data   *)
(* and no nodes from one call to the next.  Deletion moves data between    *)
(* nodes, so in a call a node may hold another key than its name says.     *)
(***************************************************************************)
EXTENDS Integers, Sequences, FiniteSets, TLC

CONSTANT Keys   \* positive numbers: 0 and -1 name no node and the dummy

VARIABLES
  tree,         \* the nodes, and the dummy root of the calls
  length,
  held          \* the keys the tree should hold (history)

vars == <<tree, length, held>>

Null == 0
Dummy == -1
Left == 0
Right == 1
Other(d) == 1 - d

Children(l, r) == [d \in {Left, Right} |-> IF d = Left THEN l ELSE r]

NewNode(k, parent, red) == [key |-> k, red |-> red, parent |-> parent, child |-> Children(Null, Null)]

EmptyTree == Dummy :> NewNode(Null, Null, FALSE)

Root(t) == t[Dummy].child[Right]
IsRed(t, n) == n # Null /\ t[n].red

----------------------------------------------------------------------------
(* Rotations; the subtree hangs at the given side of a node above it. *)

SideOf(t, above, n) == IF t[above].child[Right] = n THEN Right ELSE Left

Adopt(t, n, p) == IF n = Null THEN t ELSE [t EXCEPT ![n].parent = p]

\* rotateOnce
RotateOnce(t, above, side, n, d) ==
  LET pivot == t[n].child[Other(d)]
      orphan == t[pivot].child[d]
      turned == [t EXCEPT ![pivot].parent = t[n].parent, ![pivot].child[d] = n, ![pivot].red = FALSE,
                          ![n].parent = pivot, ![n].child[Other(d)] = orphan, ![n].red = TRUE,
                          ![above].child[side] = pivot]
  IN Adopt(turned, orphan, n)

\* rotateTwice
RotateTwice(t, above, side, n, d) ==
  RotateOnce(RotateOnce(t, n, Other(d), t[n].child[Other(d)], Other(d)), above, side, n, d)

Paint(t, S, red) == [n \in DOMAIN t |-> IF n \in S \ {Null} THEN [t[n] EXCEPT !.red = red] ELSE t[n]]

\* The root is made black at the end of a call.
RootBlackened(t) == Paint(t, {Root(t)}, FALSE)

----------------------------------------------------------------------------
(* Insertion: the two red children of a black node are made black on the   *)
(* way down, and two reds in a row are turned apart.                       *)

\* Wrong: no rotation where the node is an inner grandchild.
InnerKept(t, greatgrandparent, grandparent, parent, node, last) ==
  IF ~(IsRed(t, parent) /\ IsRed(t, node)) THEN t
  ELSE RotateOnce(t, greatgrandparent, SideOf(t, greatgrandparent, grandparent),
                  grandparent, Other(last))

Separated(t, greatgrandparent, grandparent, parent, node, last) ==
  LET side == SideOf(t, greatgrandparent, grandparent)
  IN IF ~(IsRed(t, parent) /\ IsRed(t, node)) THEN t
     ELSE IF node = t[parent].child[last]
     THEN RotateOnce(t, greatgrandparent, side, grandparent, Other(last))
     ELSE RotateTwice(t, greatgrandparent, side, grandparent, Other(last))

\* Both children red: the colors are exchanged.
Flipped(t, n) ==
  LET kids == {t[n].child[Left], t[n].child[Right]}
  IN IF \A c \in kids : IsRed(t, c) THEN Paint(Paint(t, {n}, TRUE), kids, FALSE) ELSE t

RECURSIVE InsertFrom(_, _, _, _, _, _, _, _)
InsertFrom(t, greatgrandparent, grandparent, parent, node, direction, last, k) ==
  LET placed == IF node = Null
                THEN [k :> NewNode(k, parent, TRUE) @@ t EXCEPT ![parent].child[direction] = k]
                ELSE Flipped(t, node)
      here == IF node = Null THEN k ELSE node
      fixed == Separated(placed, greatgrandparent, grandparent, parent, here, last)
      next == IF fixed[here].key < k THEN Right ELSE Left
  IN IF fixed[here].key = k THEN fixed
     ELSE InsertFrom(fixed, IF grandparent # Null THEN grandparent ELSE greatgrandparent,
                     parent, here, fixed[here].child[next], next, direction, k)

\* rbt_insert
Inserted(t, k) ==
  IF Root(t) = Null
  THEN [k :> NewNode(k, Null, FALSE) @@ t EXCEPT ![Dummy].child[Right] = k]
  ELSE RootBlackened(InsertFrom(t, Dummy, Null, Null, Root(t), Left, Left, k))

----------------------------------------------------------------------------
(* Deletion: redness is pushed down to the leaf that goes, the in-order    *)
(* predecessor of the key, whose data the key's node takes.                *)

\* The node and its child ahead are black: one of them is made red.  above
\* is the parent after that.
Reddened(t, grandparent, parent, node, direction, last) ==
  LET sibling == t[parent].child[Other(last)]
      side == SideOf(t, grandparent, parent)
      turned == IF IsRed(t, t[sibling].child[last])
                THEN RotateTwice(t, grandparent, side, parent, last)
                ELSE RotateOnce(t, grandparent, side, parent, last)
      top == turned[grandparent].child[side]
  IN IF IsRed(t, t[node].child[Other(direction)])
     THEN [tree |-> RotateOnce(t, parent, last, node, direction),
           above |-> t[node].child[Other(direction)]]
     ELSE IF sibling = Null THEN [tree |-> t, above |-> parent]
     ELSE IF ~\E d \in {Left, Right} : IsRed(t, t[sibling].child[d])
     THEN [tree |-> Paint(Paint(t, {parent}, FALSE), {sibling, node}, TRUE), above |-> parent]
     ELSE [tree |-> Paint(Paint(turned, {top, node}, TRUE),
                          {turned[top].child[Left], turned[top].child[Right]}, FALSE),
           above |-> parent]

Removal(t, parent, node, target) == [tree |-> t, parent |-> parent, node |-> node, target |-> target]

RECURSIVE DeleteFrom(_, _, _, _, _, _, _)
DeleteFrom(t, grandparent, parent, node, direction, target, k) ==
  LET next == t[node].child[direction]
      ahead == IF t[next].key < k THEN Right ELSE Left
      found == IF t[next].key = k THEN next ELSE target
      red == IsRed(t, next) \/ IsRed(t, t[next].child[ahead])
      r == IF red THEN [tree |-> t, above |-> node] ELSE Reddened(t, parent, node, next, ahead, direction)
  IN IF next = Null THEN Removal(t, parent, node, target)
     ELSE DeleteFrom(r.tree, node, r.above, next, ahead, found, k)

\* Wrong: the leaf goes with its data.
UnlinkedWithData(r) ==
  LET cut == [r.tree EXCEPT ![r.parent].child[SideOf(r.tree, r.parent, r.node)] = Null]
  IN [n \in DOMAIN r.tree \ {r.node} |-> cut[n]]

\* The data of the leaf moves to the target's node, and the leaf goes.
Unlinked(r) ==
  LET t == r.tree
      left == t[r.node].child[Left]
      moved == [t EXCEPT ![r.target].key = t[r.node].key,
                         ![r.parent].child[SideOf(t, r.parent, r.node)] =
                            IF left = Null THEN t[r.node].child[Right] ELSE left]
  IN [n \in DOMAIN t \ {r.node} |-> moved[n]]

\* rbt_delete
Deleted(t, k) ==
  LET r == DeleteFrom(t, Null, Null, Dummy, Right, Null, k)
  IN IF Root(t) = Null THEN t
     ELSE RootBlackened(IF r.target = Null THEN r.tree ELSE Unlinked(r))

----------------------------------------------------------------------------
(* Iteration and search. *)

RECURSIVE Outermost(_, _, _)
Outermost(t, n, d) == IF t[n].child[d] = Null THEN n ELSE Outermost(t, t[n].child[d], d)

\* rbt_first, rbt_last
End(t, d) == IF Root(t) = Null THEN Null ELSE Outermost(t, Root(t), d)

RECURSIVE Ascent(_, _, _)
Ascent(t, n, d) ==
  LET p == t[n].parent
  IN IF p = Null \/ n = t[p].child[Other(d)] THEN p ELSE Ascent(t, p, d)

\* rbt_traverse: rbt_next to the right, rbt_prev to the left
Neighbor(t, n, d) ==
  IF t[n].child[d] = Null THEN Ascent(t, n, d) ELSE Outermost(t, t[n].child[d], Other(d))

RECURSIVE KeysFrom(_, _, _)
KeysFrom(t, n, d) == IF n = Null THEN <<>> ELSE <<t[n].key>> \o KeysFrom(t, Neighbor(t, n, d), d)

RECURSIVE SearchFrom(_, _, _)
SearchFrom(t, n, k) ==
  LET d == IF t[n].key < k THEN Right ELSE Left
  IN IF t[n].key = k THEN [node |-> n, successor |-> Null]
     ELSE IF t[n].child[d] # Null THEN SearchFrom(t, t[n].child[d], k)
     ELSE [node |-> Null, successor |-> IF d = Left THEN n ELSE Neighbor(t, n, Right)]

\* rbt_search
Search(t, k) ==
  IF Root(t) = Null THEN [node |-> Null, successor |-> Null] ELSE SearchFrom(t, Root(t), k)

\* removeExpiredContacts, removeExpiredRanges, removeAllContacts: the next node
\* is noted, then the data of the present one is deleted.
RECURSIVE SweptFrom(_, _, _)
SweptFrom(t, n, S) ==
  IF n = Null THEN t
  ELSE SweptFrom(IF t[n].key \in S THEN Deleted(t, t[n].key) ELSE t, Neighbor(t, n, Right), S)

\* Every node is named by its key again.
Named(t) ==
  LET name(n) == IF n \in {Null, Dummy} THEN n ELSE t[n].key
  IN [m \in {name(n) : n \in DOMAIN t} |->
        LET n == CHOOSE n \in DOMAIN t : name(n) = m
        IN [t[n] EXCEPT !.parent = name(@),
                        !.child = Children(name(@[Left]), name(@[Right]))]]

----------------------------------------------------------------------------

Init == tree = EmptyTree /\ length = 0 /\ held = {}

\* The users insert no key twice.
Insert(k) ==
  /\ k \notin held
  /\ tree' = Inserted(tree, k)
  /\ length' = IF Root(tree) = Null THEN 1 ELSE length + 1
  /\ held' = held \cup {k}

\* A key that is not there may be asked for.
Delete(k) ==
  /\ tree' = Named(Deleted(tree, k))
  /\ length' = IF k \in DOMAIN tree THEN length - 1 ELSE length
  /\ held' = held \ {k}

Sweep(S) ==
  /\ S \subseteq held
  /\ tree' = Named(SweptFrom(tree, End(tree, Left), S))
  /\ length' = length - Cardinality(S)
  /\ held' = held \ S

\* rbt_clear does not reset the length.
Clear ==
  /\ tree' = EmptyTree
  /\ held' = {}
  /\ UNCHANGED length

Next ==
  \/ \E k \in Keys : Insert(k) \/ Delete(k)
  \/ \E S \in SUBSET held : Sweep(S)
  \/ Clear

Spec == Init /\ [][Next]_vars

----------------------------------------------------------------------------
(* Properties. *)

Nodes == DOMAIN tree \ {Dummy}

\* The black nodes on the way down, alike on all ways, or -1.
RECURSIVE BlackHeight(_)
BlackHeight(n) ==
  IF n = Null THEN 0
  ELSE LET l == BlackHeight(tree[n].child[Left])
           r == BlackHeight(tree[n].child[Right])
       IN IF l = r /\ l >= 0 THEN l + (IF tree[n].red THEN 0 ELSE 1) ELSE -1

\* Pointers agree in both directions, and the length counts the nodes, but after
\* rbt_clear, which leaves it alone until the tree is filled again.
TypeOK ==
  /\ \A n \in Nodes : tree[n].key = n
  /\ \A n \in Nodes, d \in {Left, Right} :
       LET c == tree[n].child[d] IN c # Null => c \in Nodes /\ tree[c].parent = n
  /\ Root(tree) # Null => tree[Root(tree)].parent = Null
  /\ held # {} => length = Cardinality(held)

\* rbt_insert and rbt_delete leave a tree behind that is whole, although a
\* rotation changes up to five pointers and the deleted data's node stays, and
\* that obeys the red-black rules: a black root, no two reds in a row, as many
\* black nodes on every way down.
Balanced ==
  /\ TypeOK
  /\ ~IsRed(tree, Root(tree))
  /\ \A n \in Nodes : tree[n].red => \A d \in {Left, Right} : ~IsRed(tree, tree[n].child[d])
  /\ BlackHeight(Root(tree)) >= 0

\* rbt_next and rbt_prev visit each key once and in order.
IterationExact ==
  LET right == KeysFrom(tree, End(tree, Left), Right)
      left == KeysFrom(tree, End(tree, Right), Left)
  IN /\ {right[i] : i \in DOMAIN right} = held /\ Len(right) = Cardinality(held)
     /\ \A i \in 1 .. Len(right) - 1 : right[i] < right[i + 1]
     /\ left = [i \in DOMAIN right |-> right[Len(right) + 1 - i]]

\* rbt_search finds a key that is there, and the next one after a key that is not.
SearchExact ==
  \A k \in Keys :
    LET above == {h \in held : h > k}
    IN Search(tree, k) =
         IF k \in held THEN [node |-> k, successor |-> Null]
         ELSE [node |-> Null,
               successor |-> IF above = {} THEN Null ELSE CHOOSE h \in above : \A g \in above : h <= g]

\* To its users (contacts.c, ranges.c, nodes.c) the tree is a sorted set, whatever
\* they inserted, deleted or removed while they iterated: iteration and search
\* see exactly the keys that were put in and not taken out.
ActsAsSortedSet == IterationExact /\ SearchExact
=============================================================================
