--------------------------- MODULE RouteObjects ---------------------------
(***************************************************************************)
(* The objects Unibo-CGR keeps its routes in, and what they point at:      *)
(* routes with their hops and children (routes/routes.c), contacts with    *)
(* the citations of the hops they are in (contacts.c), the nodes and       *)
(* neighbors that cite each other (nodes.c), all in doubly linked lists    *)
(* whose elements have a life of their own (library/list/list.c).          *)
(*                                                                         *)
(* heap maps, for each kind, the allocated objects to their fields.  An    *)
(* object is named <<kind, owner, position>> by what it stands for; that   *)
(* the program never has two for one purpose is part of what is checked.   *)
(* Contacts and neighbors are their lists of citations.  Which route a     *)
(* search finds is a choice; memory never runs out.                        *)
(***************************************************************************)
EXTENDS Integers, FiniteSets, SequencesExt

CONSTANTS
  Ways,        \* a sequence of [to, hops]: the paths to the destinations
  Towards,     \* the node at the end of each contact
  MaxEdits,    \* edits of the plan (bound)
  MaxExpired,  \* contacts that expire at once (bound)
  MaxSpurs     \* routes that one run of compute_all_spurs finds (bound)

VARIABLES
  heap,        \* the allocated objects
  discovered,  \* the destinations with NEIGHBORS_DISCOVERED
  edited,      \* is contactPlanEditTime later than cgrEditTime
  edits        \* edits so far (bound)

vars == <<heap, discovered, edited, edits>>

ListKinds    == {"hops", "children", "contact", "neighbor", "selected", "known", "citing", "neighbors"}
ElementKinds == {"hop", "citation", "member", "child", "listed", "to neighbor", "to destination"}

Null == <<"null", 0, 0>>
Broken == <<"broken", 0, 0>>    \* allocated by the first wrong access

NoObjects == [k \in ListKinds \cup ElementKinds \cup {"route", "null", "broken"} |-> <<>>]

Hop(r, k)           == <<"hop", r, k>>
Citation(r, k)      == <<"citation", r, k>>
Member(r)           == <<"member", r, 0>>
Child(r)            == <<"child", r, 0>>
Listed(n)           == <<"listed", n, 0>>
ToNeighbor(d, n)    == <<"to neighbor", d, n>>
ToDestination(d, n) == <<"to destination", d, n>>

Route(r)    == <<"route", r, 0>>
Hops(r)     == <<"hops", r, 0>>
Children(r) == <<"children", r, 0>>
Contact(c)  == <<"contact", c, 0>>
Neighbor(n) == <<"neighbor", n, 0>>
Selected(d) == <<"selected", d, 0>>
Known(d)    == <<"known", d, 0>>
Citing(d)   == <<"citing", d, 0>>
Neighbors   == <<"neighbors", 0, 0>>

Owner(x) == x[2]    \* userData of a list

Contacts      == DOMAIN Towards
Destinations  == {Ways[w].to : w \in DOMAIN Ways}
LocalContacts == {Ways[w].hops[1] : w \in DOMAIN Ways}

\* A route goes one of the ways; there can be two for one way, since a search
\* may find what is known already.
RouteIds == 1 .. 2 * Len(Ways)
Way(r)   == Ways[1 + ((r - 1) % Len(Ways))]
Via(r)   == Towards[Way(r).hops[1]]

----------------------------------------------------------------------------
(* Memory. *)

Break(h) == [h EXCEPT !["broken"] = (Broken :> [by |-> Null])]

Of(h, x)   == h[x[1]][x]
Live(h, x) == x \in DOMAIN h[x[1]]

Fetch(h, x, f) == IF Live(h, x) THEN Of(h, x)[f] ELSE Broken

Put(h, x, f, v) == IF Live(h, x) THEN [h EXCEPT ![x[1]][x][f] = v] ELSE Break(h)

Allocate(h, x, fields) == IF Live(h, x) THEN Break(h) ELSE [h EXCEPT ![x[1]] = (x :> fields) @@ @]

Free(h, x) == IF Live(h, x) THEN [h EXCEPT ![x[1]] = [y \in DOMAIN @ \ {x} |-> @[y]]] ELSE Break(h)

\* n steps of a loop.
Repeat(n, start, Step(_)) ==
  LET after[i \in 0 .. n] == IF i = 0 THEN start ELSE Step(after[i - 1]) IN after[n]

----------------------------------------------------------------------------
(* library/list/list.c *)

ListCreate(h, l) == Allocate(h, l, [first |-> Null, last |-> Null, length |-> 0])

Length(h, l) == IF Live(h, l) THEN Of(h, l).length ELSE 0

Resize(h, l, by) == Put(h, l, "length", Length(h, l) + by)

InsertFirst(h, l, e, data) ==
  LET old == Fetch(h, l, "first")
      new == Allocate(h, e, [list |-> l, next |-> old, prev |-> Null, data |-> data])
      linked == IF Fetch(h, l, "last") = Null THEN Put(new, l, "last", e) ELSE Put(new, old, "prev", e)
  IN Resize(Put(linked, l, "first", e), l, 1)

InsertLast(h, l, e, data) ==
  LET old == Fetch(h, l, "last")
      new == Allocate(h, e, [list |-> l, next |-> Null, prev |-> old, data |-> data])
      linked == IF Fetch(h, l, "first") = Null THEN Put(new, l, "first", e) ELSE Put(new, old, "next", e)
  IN Resize(Put(linked, l, "last", e), l, 1)

\* An assignment that is skipped for NULL.
PutUnlessNull(h, x, f, v) == IF x = Null THEN h ELSE Put(h, x, f, v)

\* The list l begins or ends with e no longer.
Replace(h, l, f, e, v) == IF Fetch(h, l, f) = e THEN Put(h, l, f, v) ELSE h

Detach(h, l, e, p, n) ==
  Resize(Replace(Replace(PutUnlessNull(PutUnlessNull(h, p, "next", n), n, "prev", p),
                         l, "first", e, n),
                 l, "last", e, p),
         l, -1)

\* Take an element out of the chain of its list.
Unlink(h, e) == Detach(h, Fetch(h, e, "list"), e, Fetch(h, e, "prev"), Fetch(h, e, "next"))

Attach(h, l, e, old) ==
  Resize(Put(Put(Put(Put(IF old = Null THEN Put(h, l, "last", e) ELSE Put(h, old, "prev", e),
                         e, "prev", Null),
                     e, "next", old),
                 e, "list", l),
             l, "first", e),
         l, 1)

AttachFirst(h, l, e) == Attach(h, l, e, Fetch(h, l, "first"))

\* move_elt_to_other_list
Transfer(h, e, other) == AttachFirst(Unlink(h, e), other, e)

\* The delete function of a list, for the data of an element.  (Lists of routes
\* are cleared or have it switched off whenever something goes from them.)
RECURSIVE DeleteData(_, _, _)

ListRemoveElt(h, e) ==
  IF e = Null THEN h
  ELSE IF ~Live(h, e) THEN Break(h)
  ELSE Free(DeleteData(Unlink(h, e), Fetch(h, e, "list"), Fetch(h, e, "data")), e)

\* The same with the delete function of the list set to NULL meanwhile, to
\* avoid a chain of events.
RemoveQuietly(h, e) ==
  IF e = Null THEN h
  ELSE IF ~Live(h, e) THEN Break(h)
  ELSE Free(Unlink(h, e), e)

Emptied(h, l) == Put(Put(Put(h, l, "first", Null), l, "last", Null), l, "length", 0)

FreeAndGoOn(h, e) == [h |-> Free(h, e), e |-> Fetch(h, e, "next")]

\* free_list_elts: the next element is read after the data are deleted.
FreeListElts(h, l) ==
  LET Step(s) == IF s.e = Null THEN s
                 ELSE FreeAndGoOn(DeleteData(s.h, l, Fetch(s.h, s.e, "data")), s.e)
  IN Emptied(Repeat(Length(h, l), [h |-> h, e |-> Fetch(h, l, "first")], Step).h, l)

FreeList(h, l) == Free(FreeListElts(h, l), l)

\* The elements of a list, in order.
Chain(h, l) ==
  Repeat(Length(h, l), <<>>,
         LAMBDA chain : Append(chain, IF chain = <<>> THEN Fetch(h, l, "first") ELSE Fetch(h, Last(chain), "next")))

DataOf(h, l) == LET chain == Chain(h, l) IN [k \in DOMAIN chain |-> Fetch(h, chain[k], "data")]

Has(h, l, data) == data \in ToSet(DataOf(h, l))

----------------------------------------------------------------------------
(* routes/routes.c *)

\* remove_citation of routes.c: the citation of a hop.  The citations of a contact
\* have no delete function.
Uncite(h, contact, hop) ==
  LET cited == {e \in ToSet(Chain(h, contact)) : Fetch(h, e, "data") = hop}
  IN IF cited = {} THEN Break(h) ELSE RemoveQuietly(h, CHOOSE e \in cited : TRUE)

\* Wrong: a son keeps the citation to a father that goes.
FatherKept(h, son) == h

\* remove_reference_from_son, the delete function of a children list.
ForgetFather(h, son) == Put(h, son, "citationToFather", Null)

\* Wrong: a father that loses its last selected child stays closed.
LinkPast(h, route) ==
  LET father == Fetch(h, route, "selectedFather")
      child == Fetch(h, route, "selectedChild")
      h1 == IF father = Null THEN h ELSE Put(h, father, "selectedChild", child)
  IN IF child = Null THEN h1 ELSE Put(h1, child, "selectedFather", father)

\* The selected father and the selected child of a route that goes become each
\* other's; a father left without may be branched from again.
Bypass(h, route) ==
  LET father == Fetch(h, route, "selectedFather")
      child == Fetch(h, route, "selectedChild")
      h1 == IF father = Null THEN h
            ELSE IF child # Null THEN Put(h, father, "selectedChild", child)
            ELSE Put(Put(h, father, "selectedChild", Null), father, "spursComputed", FALSE)
  IN IF child = Null THEN h1 ELSE Put(h1, child, "selectedFather", father)

LeaveFather(h, r) == ListRemoveElt(h, Fetch(h, Route(r), "citationToFather"))

UpdateReferences(h, r) == LeaveFather(Bypass(FreeList(h, Children(r)), Route(r)), r)

\* The hops of a route, each with its citation.
FreeHops(h, r) ==
  LET Step(s) == [h |-> Free(Uncite(s.h, Fetch(s.h, s.e, "data"), s.e), s.e),
                  e |-> Fetch(s.h, s.e, "next")]
  IN Free(Repeat(Length(h, Hops(r)), [h |-> h, e |-> Fetch(h, Hops(r), "first")], Step).h, Hops(r))

LeaveList(h, r) == RemoveQuietly(h, Fetch(h, Route(r), "referenceElt"))

\* delete_cgr_route
DeleteRoute(h, r) == Free(LeaveList(UpdateReferences(FreeHops(h, r), r), r), Route(r))

\* clear_routes_list: the next element is read before the route is deleted.
ClearRoutes(h, l) ==
  LET Step(s) == [h |-> DeleteRoute(s.h, Owner(Fetch(s.h, s.e, "data"))), e |-> Fetch(s.h, s.e, "next")]
  IN Emptied(Repeat(Length(h, l), [h |-> h, e |-> Fetch(h, l, "first")], Step).h, l)

\* create_cgr_route
CreateRoute(h, r) ==
  ListCreate(ListCreate(Allocate(h, Route(r),
    [referenceElt |-> Null, citationToFather |-> Null, selectedFather |-> Null,
     selectedChild |-> Null, rootOfSpur |-> Null, spursComputed |-> FALSE]), Hops(r)), Children(r))

\* populate_route, from the last hop to the first.
Populate(h, r, root) ==
  LET hops == Way(r).hops
      Step(s) ==
        [h |-> InsertLast(InsertFirst(s.h, Hops(r), Hop(r, s.k), Contact(hops[s.k])),
                          Contact(hops[s.k]), Citation(r, s.k), Hop(r, s.k)),
         k |-> s.k - 1]
  IN Put(Repeat(Len(hops), [h |-> h, k |-> Len(hops)], Step).h,
         Route(r), "rootOfSpur", IF root = 0 THEN Null ELSE Hop(r, root))

\* insert_selected_route, insert_known_route
InsertRoute(h, l, r) == Put(InsertFirst(h, l, Member(r), Route(r)), Route(r), "referenceElt", Member(r))

\* remove_neighbor_from_known_routes
RemoveKnown(h, d, n) ==
  LET Step(s) ==
        LET r == Owner(Fetch(s.h, s.e, "data"))
        IN [h |-> IF Via(r) = n THEN DeleteRoute(s.h, r) ELSE s.h, e |-> Fetch(s.h, s.e, "next")]
  IN Repeat(Length(h, Known(d)), [h |-> h, e |-> Fetch(h, Known(d), "first")], Step).h

\* A route over a neighbor that had none.
Discover(h, r) ==
  LET d == Way(r).to IN RemoveKnown(InsertRoute(h, Selected(d), r), d, Via(r))

----------------------------------------------------------------------------
(* contact_plan/contacts/contacts.c *)

\* free_contact: the routes that cite it are deleted, and with them the
\* citations; the next citation is read before.
FreeContact(h, c) ==
  LET Step(s) ==
        LET r == Owner(Fetch(s.h, Fetch(s.h, s.e, "data"), "list"))
        IN [h |-> DeleteRoute(s.h, r), e |-> Fetch(s.h, s.e, "next")]
      citations == Length(h, Contact(c))
  IN Free(Repeat(citations, [h |-> h, e |-> Fetch(h, Contact(c), "first")], Step).h, Contact(c))

----------------------------------------------------------------------------
(* contact_plan/nodes/nodes.c *)

\* Wrong: the counterpart stays.
CounterpartKept(h, elt) == h

\* remove_citation of nodes.c: the counterpart of a citation goes from its list.
RemoveCitation(h, elt) == RemoveQuietly(h, elt)

FreeNeighbor(h, neighbor) == FreeList(h, neighbor)

DeleteData(h, l, data) ==
  CASE l[1] = "children"                -> ForgetFather(h, data)
    [] l[1] \in {"neighbor", "citing"}  -> RemoveCitation(h, data)
    [] l[1] = "neighbors"               -> FreeNeighbor(h, data)
    [] OTHER                            -> h

AddNode(h, d) ==
  IF Live(h, Known(d)) THEN h
  ELSE ListCreate(ListCreate(ListCreate(h, Known(d)), Selected(d)), Citing(d))

FreeRoutes(h, l) == Free(ClearRoutes(h, l), l)

\* free_rtg_object
FreeNode(h, d) == FreeList(FreeRoutes(FreeRoutes(h, Known(d)), Selected(d)), Citing(d))

ForEach(h, S, Do(_, _)) ==
  LET Step(s) == LET x == Min(s.rest) IN [h |-> Do(s.h, x), rest |-> s.rest \ {x}]
  IN Repeat(Cardinality(S), [h |-> h, rest |-> S], Step).h

NodesIn(h) == {d \in Destinations : Live(h, Known(d))}

\* reset_NodesTree
ResetNodes(h) == ForEach(FreeListElts(h, Neighbors), NodesIn(h), FreeNode)

\* build_local_node_neighbors_list, with the neighbors in the order of the tree.
BuildNeighbors(h) ==
  LET AddNeighbor(g, n) == InsertLast(ListCreate(g, Neighbor(n)), Neighbors, Listed(n), Neighbor(n))
      reached == {Towards[c] : c \in {c \in LocalContacts : Live(h, Contact(c))}}
  IN ForEach(ListCreate(FreeList(h, Neighbors), Neighbors), reached, AddNeighbor)

\* insert_citation_to_neighbor
InsertCitation(h, d, n) ==
  IF ~ Has(h, Neighbors, Neighbor(n)) THEN h
  ELSE InsertLast(InsertLast(h, Neighbor(n), ToDestination(d, n), ToNeighbor(d, n)),
                  Citing(d), ToNeighbor(d, n), ToDestination(d, n))

\* insert_neighbors_to_reach_destination
InsertNeighbors(h, d, excluded) ==
  LET Insert(g, n) == InsertCitation(g, d, n)
  IN IF d \in discovered /\ Cardinality(excluded) = Length(h, Citing(d)) THEN h
     ELSE ForEach(FreeListElts(h, Citing(d)), excluded, Insert)

----------------------------------------------------------------------------
(* cgr/phase_one.c, as far as it changes the objects. *)

RoutesIn(h) == {r \in RouteIds : Live(h, Route(r))}

RoutesOf(h, l) == LET data == DataOf(h, l) IN [k \in DOMAIN data |-> Owner(data[k])]

Excluded(h, d) == {Via(r) : r \in ToSet(RoutesOf(h, Selected(d)))}

InForce(h, r) == \A c \in ToSet(Way(r).hops) : Live(h, Contact(c))

\* A route object for a way that a search finds.
Findable(h, r) ==
  /\ InForce(h, r) /\ ~Live(h, Route(r))
  /\ r > Len(Ways) => Live(h, Route(r - Len(Ways)))

Unknown(h, r) == \A q \in RoutesIn(h) : Way(q) # Way(r)

\* computeRoutes clears the known routes when no selected one is left.
Forgotten(h, d) == IF Length(h, Selected(d)) = 0 THEN ClearRoutes(h, Known(d)) ELSE h

Ready(d) == ~edited /\ Live(heap, Known(d))

TellNeighbors(h, d) == InsertNeighbors(h, d, Excluded(h, d))

\* A route found by computeOneRoutePerNeighbor; at the last neighbor of the local
\* node the destination is told its neighbors at once.
Found(h, d) ==
  \/ heap' = h /\ UNCHANGED discovered
  \/ /\ Cardinality(Excluded(h, d)) = Length(h, Neighbors)
     /\ heap' = TellNeighbors(h, d)
     /\ discovered' = discovered \cup {d}

FindOne(h, r) ==
  /\ Findable(h, r) /\ Via(r) \notin Excluded(h, Way(r).to)
  /\ Found(Discover(Populate(CreateRoute(h, r), r, 0), r), Way(r).to)

\* A round of computeOneRoutePerNeighbor.
OneRoute(r) ==
  /\ Ready(Way(r).to)
  /\ FindOne(Forgotten(heap, Way(r).to), r)
  /\ UNCHANGED <<edited, edits>>

\* The last round: the route is deleted again, and all neighbors that reach the
\* destination are known.
NoMoreRoutes(d) ==
  LET blank == CHOOSE r \in RouteIds : ~Live(heap, Route(r))
  IN /\ Ready(d)
     /\ heap' = TellNeighbors(DeleteRoute(CreateRoute(Forgotten(heap, d), blank), blank), d)
     /\ discovered' = discovered \cup {d}
     /\ UNCHANGED <<edited, edits>>

\* How many hops, from the first, two routes have in common.
CommonRoot(r, q) ==
  LET common == {k \in 0 .. Len(Way(r).hops) :
                   k <= Len(Way(q).hops) /\ SubSeq(Way(r).hops, 1, k) = SubSeq(Way(q).hops, 1, k)}
  IN CHOOSE k \in common : \A j \in common : j <= k

AddChild(h, f, r) ==
  Put(InsertLast(h, Children(f), Child(r), Route(r)), Route(r), "citationToFather", Child(r))

\* compute_spur_route and what compute_all_spurs does with the route.
Spur(h, f, r) ==
  LET spur == Populate(CreateRoute(h, r), r, CommonRoot(r, f))
  IN IF Via(r) = Via(f) THEN InsertRoute(AddChild(spur, f, r), Known(Way(r).to), r) ELSE Discover(spur, r)

\* The routes of a run of compute_all_spurs: at the root path of no hops those
\* over other neighbors come first.
Spurs(h, f, S) ==
  LET Later(r, q) == \/ CommonRoot(r, f) > CommonRoot(q, f)
                     \/ CommonRoot(r, f) = CommonRoot(q, f) /\ Via(r) = Via(f) /\ Via(q) # Via(f)
      order == SetToSortSeq(S, LAMBDA q, r : Later(r, q) \/ (~Later(q, r) /\ q < r))
      Step(s) == [h |-> Spur(s.h, f, order[s.k]), k |-> s.k + 1]
  IN Repeat(Len(order), [h |-> h, k |-> 1], Step).h

SpurSets(h, f) ==
  {S \in SUBSET {r \in RouteIds : /\ Way(r).to = Way(f).to
                                  /\ Findable(h, r) /\ Unknown(h, r)
                                  /\ Via(r) = Via(f) \/ Via(r) \notin Excluded(h, Way(f).to)} :
     /\ Cardinality(S) <= MaxSpurs
     /\ \A r, q \in S : r # q => IF Via(r) = Via(f) THEN CommonRoot(r, f) # CommonRoot(q, f) \/ Via(q) # Via(f)
                                ELSE Via(r) # Via(q)}

\* move_route_from_known_to_selected, and the links of compute_another_route.
Select(h, r, f) ==
  LET moved == Transfer(h, Fetch(h, Route(r), "referenceElt"), Selected(Way(r).to))
  IN Put(Put(moved, Route(r), "selectedFather", Route(f)), Route(f), "selectedChild", Route(r))

RootOf(f) ==
  LET root == Of(heap, Route(f)).rootOfSpur IN IF root = Null THEN 0 ELSE root[3]

SelectOrNot(h, f) ==
  \/ heap' = h
  \/ \E r \in ToSet(RoutesOf(h, Known(Way(f).to))) : Via(r) = Via(f) /\ heap' = Select(h, r, f)

\* compute_another_route: the spurs from the root of f on, unless f has sons;
\* if no known route is good enough, and f is a spur itself, those before its
\* root; then the best known route, if there is one, is selected.
AnotherRoute(f) ==
  \E S \in SpurSets(heap, f) :
    LET beyond == {r \in S : CommonRoot(r, f) >= RootOf(f)}
    IN /\ Length(heap, Children(f)) > 0 => beyond = {}
       /\ SelectOrNot(Put(Spurs(Spurs(heap, f, beyond), f, S \ beyond),
                          Route(f), "spursComputed", TRUE), f)
       /\ UNCHANGED <<discovered, edited, edits>>

Branches(f) ==
  /\ Live(heap, Route(f)) /\ Ready(Way(f).to)
  /\ f \in ToSet(RoutesOf(heap, Selected(Way(f).to)))
  /\ ~Of(heap, Route(f)).spursComputed
  /\ AnotherRoute(f)

----------------------------------------------------------------------------
(* The plan and the calls. *)

Init ==
  /\ heap = ForEach(ListCreate(NoObjects, Neighbors), Contacts, LAMBDA h, c : ListCreate(h, Contact(c)))
  /\ discovered = {}
  /\ edited = TRUE
  /\ edits = 0

InPlan(h) == {c \in Contacts : Live(h, Contact(c))}

ListedIn(h) == {n \in {Towards[c] : c \in LocalContacts} : Live(h, Listed(n))}

\* removeOldNeighbors
DropNeighbor(h, n) == ListRemoveElt(h, Listed(n))

Over(n, C) == {c \in C \cap LocalContacts : Towards[c] = n}

\* removeExpired: of contacts, and of neighbors, each of which expires with one of
\* its contacts, with the last one at the latest.  Then the destination's node.
Expired(h, d) ==
  \E C \in {C \in SUBSET InPlan(h) : Cardinality(C) <= MaxExpired} :
    LET mayGo == {n \in ListedIn(h) : Over(n, C) # {}}
        mustGo == {n \in mayGo : Over(n, InPlan(h) \ C) = {}}
    IN \E N \in {N \in SUBSET mayGo : mustGo \subseteq N} :
         heap' = AddNode(ForEach(ForEach(h, C, FreeContact), N, DropNeighbor), d)

\* getBestRoutes up to the phases: after an edit all routes are discarded and
\* the neighbors built again.
GetBestRoutes(d) ==
  /\ Live(heap, Neighbors)
  /\ Expired(IF edited THEN BuildNeighbors(ResetNodes(heap)) ELSE heap, d)
  /\ discovered' = IF edited THEN {} ELSE discovered
  /\ edited' = FALSE
  /\ UNCHANGED edits

Edit == edits < MaxEdits /\ edits' = edits + 1

\* The first contact after destroy_contact_plan initializes the plan again.
AddContact(c) ==
  LET h == IF Live(heap, Neighbors) THEN heap ELSE ListCreate(heap, Neighbors)
  IN /\ Edit
     /\ ~Live(heap, Contact(c))
     /\ heap' = ListCreate(h, Contact(c))
     /\ edited' = TRUE
     /\ UNCHANGED discovered

RemoveContact(c) ==
  /\ Edit
  /\ Live(heap, Contact(c))
  /\ heap' = FreeContact(heap, c)
  /\ edited' = TRUE
  /\ UNCHANGED discovered

\* destroy_contact_plan
DestroyPlan ==
  /\ Edit
  /\ Live(heap, Neighbors)
  /\ heap' = ForEach(ForEach(FreeList(heap, Neighbors), NodesIn(heap), FreeNode), InPlan(heap), FreeContact)
  /\ discovered' = {}
  /\ edited' = FALSE

Next ==
  \/ \E r \in RouteIds : OneRoute(r) \/ Branches(r)
  \/ \E d \in Destinations : NoMoreRoutes(d) \/ GetBestRoutes(d)
  \/ \E c \in Contacts : AddContact(c) \/ RemoveContact(c)
  \/ DestroyPlan

Spec == Init /\ [][Next]_vars

----------------------------------------------------------------------------
(* Properties. *)

Lists    == UNION {DOMAIN heap[k] : k \in ListKinds}
Elements == UNION {DOMAIN heap[k] : k \in ElementKinds}

WellLinked(l) ==
  LET chain == Chain(heap, l)  n == Len(chain)
      At(k) == IF k \in 1 .. n THEN chain[k] ELSE Null
  IN /\ Of(heap, l).first = At(1) /\ Of(heap, l).last = At(n)
     /\ IsInjective(chain)
     /\ \A k \in 1 .. n :
          /\ chain[k] \in Elements
          /\ Of(heap, chain[k]).list = l
          /\ Of(heap, chain[k]).next = At(k + 1) /\ Of(heap, chain[k]).prev = At(k - 1)

Together(objects) == \A x, y \in objects : Live(heap, x) => Live(heap, y)

(* No operation reads, writes or frees what is not allocated, or allocates an *)
(* object for a purpose that has one; every list of the plan and of the       *)
(* routes is linked both ways over as many elements as it counts; each        *)
(* element is in a list that exists, and the parts of an object exist         *)
(* together.  Deleting goes on while lists are walked: a contact's citations  *)
(* (contacts.c:698), a node's routes (routes.c:314), the known routes         *)
(* (phase_one.c:1449), the counterparts of citations (nodes.c:727).           *)
HeapSound ==
  /\ ~Live(heap, Broken)
  /\ \A l \in Lists : WellLinked(l)
  /\ Elements = UNION {ToSet(Chain(heap, l)) : l \in Lists}
  /\ \A r \in RouteIds : Together({Route(r), Hops(r), Children(r)})
  /\ \A d \in Destinations : Together({Known(d), Selected(d), Citing(d)})
  /\ \A c \in LocalContacts : Together({Neighbor(Towards[c]), Listed(Towards[c])})

Father(h, r) == IF Of(h, Route(r)).citationToFather = Null THEN 0
                ELSE Owner(Fetch(h, Of(h, Route(r)).citationToFather, "list"))

(* Whatever points at an object is pointed at by it: a hop is cited by its    *)
(* contact and a citation names a hop; a route is in the list its reference   *)
(* says, Selected or Known of its destination; it is among the children of    *)
(* its father, and its children name it; selected fathers and children name   *)
(* each other; the root of a spur is one of the route's own hops; a           *)
(* neighbor's citation of a destination and the destination's of the neighbor *)
(* name each other (routes.c:173, routes.c:232, nodes.c:727, nodes.c:919).    *)
ReferencesMutual ==
  /\ \A r \in RoutesIn(heap) :
       LET route == Of(heap, Route(r))  d == Way(r).to
       IN /\ DataOf(heap, Hops(r)) = [k \in DOMAIN Way(r).hops |-> Contact(Way(r).hops[k])]
          /\ \A k \in DOMAIN Way(r).hops : Has(heap, Contact(Way(r).hops[k]), Hop(r, k))
          /\ route.referenceElt = Member(r) /\ Of(heap, Member(r)).data = Route(r)
          /\ Of(heap, Member(r)).list \in {Selected(d), Known(d)}
          /\ \A x \in ToSet(DataOf(heap, Children(r))) :
               Owner(x) \in RoutesIn(heap) /\ Father(heap, Owner(x)) = r
          /\ route.citationToFather \notin {Null} =>
               /\ Live(heap, route.citationToFather)
               /\ Of(heap, route.citationToFather).data = Route(r)
          /\ route.selectedChild # Null => Fetch(heap, route.selectedChild, "selectedFather") = Route(r)
          /\ route.selectedFather # Null => Fetch(heap, route.selectedFather, "selectedChild") = Route(r)
          /\ route.rootOfSpur # Null => route.rootOfSpur \in ToSet(Chain(heap, Hops(r)))
  /\ \A e \in Elements : e[1] \in {"hop", "member", "child"} => Owner(e) \in RoutesIn(heap)
  /\ \A e \in Elements : e[1] = "citation" =>
       LET hop == Of(heap, e).data IN Live(heap, hop) /\ Of(heap, hop).data = Of(heap, e).list
  /\ \A e \in Elements : e[1] \in {"to neighbor", "to destination"} =>
       Live(heap, Of(heap, e).data) /\ Of(heap, Of(heap, e).data).data = e

Lost   == RoutesIn(heap) \ RoutesIn(heap')
Passed == InPlan(heap) \ InPlan(heap')

\* The nearest route that stays along the selected children, or fathers.
Nearest(r, link) ==
  Repeat(Cardinality(Lost), Of(heap, Route(r))[link],
         LAMBDA x : IF x = Null \/ Owner(x) \notin Lost THEN x ELSE Of(heap, x)[link])

(* When contacts expire or are removed, the routes that go with them are      *)
(* those over one of them and no others; the rest stay where they are in the  *)
(* lists, lose a father only if it goes, inherit the selected child and       *)
(* father of what went between, and are open for branching again exactly when *)
(* they are left without a selected child (contacts.c:680, routes.c:173).     *)
ForgetsExactly ==
  [][Passed # {} /\ ~(edited /\ ~edited') =>
       LET Stays(r) == r \notin Lost IN
       /\ Lost = {r \in RoutesIn(heap) : ToSet(Way(r).hops) \cap Passed # {}}
       /\ \A d \in NodesIn(heap') :
            /\ RoutesOf(heap', Selected(d)) = SelectSeq(RoutesOf(heap, Selected(d)), Stays)
            /\ RoutesOf(heap', Known(d)) = SelectSeq(RoutesOf(heap, Known(d)), Stays)
       /\ \A r \in RoutesIn(heap') :
            LET old == Of(heap, Route(r))  new == Of(heap', Route(r))
            IN /\ Father(heap', r) = IF Father(heap, r) \in Lost THEN 0 ELSE Father(heap, r)
               /\ new.selectedChild = Nearest(r, "selectedChild")
               /\ new.selectedFather = Nearest(r, "selectedFather")
               /\ new.spursComputed = (old.spursComputed /\ ~(old.selectedChild # Null /\ new.selectedChild = Null))]_vars

=============================================================================
