-------------------------- MODULE MCRouteObjects --------------------------
(* What Unibo-CGR allocates, in two instances side by side: the objects of    *)
(* the routes, and the tree that holds contacts, ranges and nodes.  A         *)
(* behaviour is of one of them, and the other one stays as it was set up.     *)
(*                                                                            *)
(* Node 2 and node 3 are neighbors of the local node; node 4 is reached over  *)
(* node 2 in three ways and over node 3 in one; node 3 itself in one.         *)
EXTENDS RouteObjects

CONSTANT Keys

VARIABLES
  tree, length, held,   \* those of RedBlackTree
  treeInUse             \* is this a behaviour of the tree

Tree == INSTANCE RedBlackTree

ASSUME KeysAssumption == Keys \subseteq Nat \ {0}

MCTowards == <<2, 4, 4, 4, 3, 4>>    \* thrice 2 to 4, once 3 to 4

MCWays == <<[to |-> 4, hops |-> <<1, 2>>], [to |-> 4, hops |-> <<1, 3>>],
            [to |-> 4, hops |-> <<1, 4>>], [to |-> 4, hops |-> <<5, 6>>],
            [to |-> 3, hops |-> <<5>>]>>

\* Three routes at a time, one once node 3 is a destination (bound).
FewRoutes == Cardinality(RoutesIn(heap)) <= IF 3 \in NodesIn(heap) THEN 1 ELSE 3

EitherInit == Init /\ Tree!Init /\ treeInUse \in BOOLEAN

EitherNext ==
  \/ ~treeInUse /\ Next /\ UNCHANGED <<tree, length, held, treeInUse>>
  \/ treeInUse /\ Tree!Next /\ UNCHANGED <<vars, treeInUse>>

EitherSpec == EitherInit /\ [][EitherNext]_<<vars, tree, length, held, treeInUse>>

\* The calls of rbt.c leave a whole red-black tree behind (RedBlackTree).
TreeBalanced == Tree!Balanced

\* The users of rbt.c see a sorted set of what they inserted and did not delete
\* (RedBlackTree).
TreeActsAsSortedSet == Tree!ActsAsSortedSet
=============================================================================
