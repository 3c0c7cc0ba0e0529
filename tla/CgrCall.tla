------------------------------ MODULE CgrCall ------------------------------
(***************************************************************************)
(* One destination's calls of executeCGR (cgr.c): phase two checks the     *)
(* routes computed so far and tells phase one which routes to branch from  *)
(* and for how many neighbors a route is missing; phase one computes more  *)
(* routes; phase three chooses among the candidates.  The routes, the      *)
(* neighbors known to reach the destination and the marks of Yen's         *)
(* algorithm outlive a call; between two calls contacts expire.            *)
(*                                                                         *)
(* A route is <<neighbor, k>>: the k-th path, by cost, whose first hop is  *)
(* that neighbor; graph is the set of paths the contact plan offers.  What *)
(* a check says of a route depends on the bundle and is left open: unfit   *)
(* (-3 to -6, tested before the exclusion), late (-9, after it) or viable. *)
(* Costs, the list of known routes, and the route of a bundle to the local *)
(* node (-7) are left out.  So is that a search may find a known way again *)
(* (see PhaseOne).                                                         *)
(***************************************************************************)
EXTENDS Integers, FiniteSets

CONSTANTS
  Neighbor,          \* neighbors of the local node
  MaxPaths,          \* paths each neighbor can offer (bound)
  MaxDijkstraRoutes, \* MAX_DIJKSTRA_ROUTES, 0 for no limit
  PlanExpires        \* do contacts expire between two calls?

ASSUME CgrCallAssumption ==
  /\ IsFiniteSet(Neighbor)
  /\ MaxPaths \in [Neighbor -> Nat \ {0}]
  /\ MaxDijkstraRoutes \in Nat
  /\ PlanExpires \in BOOLEAN

Route == UNION {{n} \X (1 .. MaxPaths[n]) : n \in Neighbor}

VARIABLES
  \* the contact plan
  graph,              \* the paths to the destination
  neighbors,          \* local_node_neighbors
  outlived,           \* history: has a contact outlived its neighbor since the plan was edited?
  \* the destination's RtgObject
  selectedRoutes,
  spursComputed,      \* the selected routes that Yen has branched from
  reopened,           \* those to be branched from again, which may have children
  citations,          \* the neighbors that reach the destination
  computed,           \* ALREADY_COMPUTED
  notFound,           \* ROUTES_NOT_FOUND
  neighborsDiscovered,
  \* the call
  pc,                 \* idle, phase2, phase1 or answered
  critical,           \* is the bundle critical?
  failed,             \* neighbors in the bundle's loops
  asked,              \* the neighbors the caller excludes
  excludedNeighbors,  \* the caller's list, which phase two edits
  suppressed,         \* suppressedNeighbors
  stale,              \* entries of suppressedNeighbors whose data was freed
  lastMax,            \* last_max_neighbors_number
  missing,            \* missingNeighbors
  checked,            \* routes with a checkValue
  candidates,
  subset,             \* subsetComputedRoutes
  best, error         \* the answer

planVars == <<graph, neighbors, outlived>>
rtgVars  == <<selectedRoutes, spursComputed, reopened, citations, computed, notFound,
              neighborsDiscovered>>
bundleVars == <<critical, failed, asked>>
phase2Vars == <<excludedNeighbors, suppressed, stale, lastMax, checked, candidates, subset>>
answerVars == <<best, error>>
vars == <<graph, neighbors, outlived, selectedRoutes, spursComputed, reopened, citations,
          computed, notFound, neighborsDiscovered, pc, critical, failed, asked, excludedNeighbors, suppressed,
          stale, lastMax, missing, checked, candidates, subset, best, error>>

TypeOK ==
  /\ graph \subseteq Route /\ neighbors \subseteq Neighbor
  /\ selectedRoutes \subseteq graph /\ spursComputed \subseteq selectedRoutes
  /\ reopened \subseteq selectedRoutes \ spursComputed
  /\ citations \subseteq neighbors
  /\ {computed, notFound, neighborsDiscovered, critical, error, outlived} \subseteq BOOLEAN
  /\ pc \in {"idle", "phase2", "phase1", "answered"}
  /\ failed \subseteq Neighbor /\ asked \subseteq Neighbor
  /\ excludedNeighbors \subseteq asked
  /\ suppressed \subseteq Neighbor /\ stale \in Nat
  /\ lastMax \in Nat /\ missing \in Nat
  /\ checked \subseteq selectedRoutes /\ candidates \subseteq checked
  /\ subset \subseteq checked
  /\ best \subseteq candidates

----------------------------------------------------------------------------

Via(R) == {r[1] : r \in R}

\* A smaller k is a better path.
Cheapest(R) == {r \in R : \A s \in R : s[1] = r[1] => r[2] <= s[2]}

Smaller(a, b) == IF a < b THEN a ELSE b

\* A plan gives each neighbor some number of paths; a neighbor without a
\* path to the destination is still a neighbor.
Plans == {g \in SUBSET Route : \A r \in g : \A k \in 1 .. r[2] : <<r[1], k>> \in g}

IsPlan(g, N) == g \in Plans /\ Via(g) \subseteq N

Init ==
  /\ graph \in Plans /\ neighbors \in SUBSET Neighbor /\ IsPlan(graph, neighbors)
  /\ outlived = FALSE
  /\ selectedRoutes = {} /\ spursComputed = {} /\ reopened = {} /\ citations = {}
  /\ computed = FALSE /\ notFound = FALSE /\ neighborsDiscovered = FALSE
  /\ pc = "idle" /\ critical = FALSE /\ failed = {} /\ asked = {}
  /\ excludedNeighbors = {} /\ suppressed = {} /\ stale = 0 /\ lastMax = 0
  /\ missing = 0 /\ checked = {} /\ candidates = {} /\ subset = {}
  /\ best = {} /\ error = FALSE

----------------------------------------------------------------------------
(* Phase one. *)

\* The neighbors without a computed route: phase one's own exclusion list
\* holds the others.
Undiscovered == Via(graph) \ Via(selectedRoutes)

\* Wrong: neighbors cited before are skipped although the list is cleared.
CiteOnlyNew(routed) ==
  citations' = (routed \cap neighbors) \ citations /\ neighborsDiscovered' = TRUE

\* insert_neighbors_to_reach_destination: the neighbors with a route are the
\* destination's neighbors, unless just as many are known already.
InsertNeighbors(routed) ==
  IF neighborsDiscovered /\ Cardinality(routed) = Cardinality(citations)
  THEN UNCHANGED <<citations, neighborsDiscovered>>
  ELSE citations' = routed \cap neighbors /\ neighborsDiscovered' = TRUE

\* One Dijkstra search per missing neighbor, each branching off from a new
\* one; a failed search says that there are no more.
SearchFromRoot(m) ==
  \E W \in SUBSET Undiscovered :
    /\ Cardinality(W) = Smaller(m, Cardinality(Undiscovered))
    /\ selectedRoutes' = selectedRoutes \cup Cheapest({r \in graph : r[1] \in W})
    /\ computed' = TRUE
    /\ notFound' = (notFound \/ selectedRoutes' = {})
    /\ IF Cardinality(Undiscovered) < m \/ Cardinality(W) = Cardinality(neighbors)
       THEN InsertNeighbors(Via(selectedRoutes'))
       ELSE UNCHANGED <<citations, neighborsDiscovered>>

OneRoutePerNeighbor(m) == SearchFromRoot(m) /\ UNCHANGED <<spursComputed, reopened>>

\* The best path of each neighbor in the subset that is not selected yet.
NextPaths(S) == Cheapest({r \in graph \ selectedRoutes : r[1] \in Via(S)})

\* A route of the subset is done with, whether or not it led to another one.
CloseSubset ==
  /\ spursComputed' = spursComputed \cup subset
  /\ reopened' = reopened \ subset

\* The routes of the subset yield the paths P, and on the way routes through
\* the neighbors W, not met before.  A search from the root that fails says that
\* all neighbors are known.
BranchTo(P, W, all) ==
  /\ all => W = Undiscovered
  /\ selectedRoutes' = selectedRoutes \cup P \cup Cheapest({r \in graph : r[1] \in W})
  /\ CloseSubset
  /\ IF all THEN InsertNeighbors(Via(selectedRoutes'))
            ELSE UNCHANGED <<citations, neighborsDiscovered>>
  /\ UNCHANGED <<computed, notFound>>

\* Yen's algorithm from each route of the subset.  A route without children is
\* searched from, and if that yields no path of its neighbor, from the root.
Yen ==
  \E P \in SUBSET NextPaths(subset), W \in SUBSET Undiscovered, all \in BOOLEAN :
    /\ P = {} \/ ~ Via(subset \ reopened) \subseteq Via(P) => all
    /\ BranchTo(P, W, all)

\* From a route that was branched from before and has children nothing is
\* searched unless it branches off behind the root.  If the whole subset yields
\* nothing, missing neighbors are searched for as at first.
NothingToBranch(m) ==
  /\ subset \subseteq reopened
  /\ SearchFromRoot(m)
  /\ CloseSubset

CanBranch == ~notFound /\ selectedRoutes # {} /\ computed /\ subset # {}

ComputeRoutes(m) ==
  IF notFound THEN UNCHANGED rtgVars
  ELSE IF CanBranch THEN Yen \/ NothingToBranch(m)
  ELSE OneRoutePerNeighbor(m)

\* Wrong: only an error stops the call.
NoErrorYet == ~notFound'

Grew == selectedRoutes' # selectedRoutes

\* Without new routes the call goes to phase three with what it has.
Answer(cands) ==
  /\ pc' = "answered"
  /\ best' \in
       IF cands = {} THEN {{}}
       ELSE IF critical
       THEN {B \in SUBSET cands : Via(B) = Via(cands) /\ Cardinality(B) = Cardinality(Via(B))}
       ELSE LET preferred == {r \in cands : r[1] \notin failed} IN
            {{r} : r \in IF preferred # {} THEN preferred ELSE cands}

\* Such a search of missing neighbors sets the number of new routes, also if
\* the retries from the root had met all of them: then it is 0.
PhaseOne ==
  /\ pc = "phase1"
  /\ \/ /\ ComputeRoutes(missing)
        /\ IF Grew THEN pc' = "phase2" /\ UNCHANGED best
                   ELSE Answer(candidates)
     \/ /\ CanBranch /\ subset \subseteq reopened
        /\ BranchTo({}, Undiscovered, TRUE)
        /\ Answer(candidates)
  /\ UNCHANGED <<planVars, bundleVars, phase2Vars, missing, error>>

----------------------------------------------------------------------------
(* Phase two. *)

Limit(n) ==
  IF MaxDijkstraRoutes > 0 /\ ~critical THEN Smaller(n, MaxDijkstraRoutes) ELSE n

MaxNeighbors ==
  IF neighborsDiscovered THEN Cardinality(citations) ELSE Cardinality(neighbors)

\* is_node_in_destination_neighbors_list
MayReach == IF neighborsDiscovered THEN citations ELSE neighbors

\* The number of neighbors has changed: the excluded ones among them are
\* suppressed.  What was suppressed before should leave the suppressed list;
\* the code removes it from the caller's list instead, which frees the numbers
\* that the suppressed list points to: those entries may match or not.
SuppressExcluded(freed) ==
  IF MaxNeighbors = lastMax
  THEN freed = {} /\ UNCHANGED <<excludedNeighbors, lastMax, stale>>
  ELSE /\ freed \subseteq excludedNeighbors \cap suppressed
       /\ stale' = stale + Cardinality(freed)
       /\ excludedNeighbors' = excludedNeighbors \ suppressed
       /\ lastMax' = MaxNeighbors

\* The suppressed neighbors after that step.
Suppressed(freed) ==
  (suppressed \ freed) \cup
    (IF MaxNeighbors = lastMax THEN {} ELSE excludedNeighbors' \cap MayReach)

\* Wrong: the first neighbor found is enough.
ReachedAtFirst(found, sup) == found > 0 \/ MaxNeighbors <= Cardinality(sup) + stale'

Reached(found, sup) ==
  found >= Limit(MaxNeighbors) \/ MaxNeighbors <= found + Cardinality(sup) + stale'

Excluded(r) == r[1] \in excludedNeighbors'

Found(cands) == Cardinality((Via(cands) \cap neighbors) \ failed)

\* Routes checked now that are neither unfit nor excluded.
OpenRoutes(unfit) == {r \in (selectedRoutes \ checked) \ unfit : ~Excluded(r)}

\* Neighbors in the bundle's loops that get a first candidate.
NewlySuppressed(viable) == (Via(viable) \cap failed) \ Via(candidates)

\* A route whose neighbor has gone ends the call, unless the limit was reached
\* before its turn.
GivesUp(met, before) ==
  /\ \E r \in met : r[1] \notin neighbors
  /\ ~Reached(Found(candidates), before)
  /\ error' = TRUE
  /\ pc' = "answered"
  /\ candidates' = {} /\ subset' = {}
  /\ UNCHANGED <<missing, best>>

StopsChecking ==
  /\ Reached(Found(candidates'), suppressed')
  /\ subset' = {} /\ missing' = 0
  /\ Answer(candidates')

\* Phase one is to branch from the routes through neighbors without a
\* candidate.
AsksForMore(unchosen) ==
  /\ ~Reached(Found(candidates'), suppressed')
  /\ subset' = {r \in unchosen \ spursComputed : r[1] \notin Via(candidates')}
  /\ missing' = Limit(MaxNeighbors) - Found(candidates')
  /\ pc' = "phase1"
  /\ UNCHANGED best

PhaseTwo ==
  /\ pc = "phase2"
  /\ \E freed \in SUBSET excludedNeighbors, unfit \in SUBSET (selectedRoutes \ checked) :
       /\ SuppressExcluded(freed)
       /\ checked' = selectedRoutes
       /\ \E late \in SUBSET OpenRoutes(unfit) :
            LET viable == OpenRoutes(unfit) \ late IN
            /\ suppressed' = Suppressed(freed) \cup NewlySuppressed(viable)
            /\ \/ GivesUp(unfit \cup OpenRoutes(unfit), Suppressed(freed))
               \/ /\ candidates' = candidates \cup viable
                  /\ \/ StopsChecking
                     \/ /\ \A r \in unfit \cup OpenRoutes(unfit) : r[1] \in neighbors
                        /\ AsksForMore(unfit \cup late)
                  /\ UNCHANGED error
  /\ UNCHANGED <<planVars, rtgVars, bundleVars>>

----------------------------------------------------------------------------
(* The call. *)

\* The first call for a destination computes the first routes; a call that
\* finds nothing, or has no neighbor to use, ends at once.
StartCall ==
  /\ pc = "idle"
  /\ critical' \in BOOLEAN
  /\ failed' \in SUBSET neighbors
  /\ asked' \in SUBSET neighbors
  /\ excludedNeighbors' = asked'
  /\ LET m == IF MaxDijkstraRoutes > 0 /\ ~critical'
              THEN Smaller(MaxNeighbors, MaxDijkstraRoutes) ELSE MaxNeighbors
     IN IF computed THEN UNCHANGED rtgVars
        ELSE IF m = 0 THEN UNCHANGED rtgVars
        ELSE ComputeRoutes(m)
  /\ pc' = IF \/ ~computed /\ ~Grew
              \/ neighborsDiscovered' /\ citations' = {}
              \/ neighbors = {}
           THEN "answered" ELSE "phase2"
  /\ UNCHANGED <<planVars, suppressed, stale, lastMax, missing, checked, candidates,
                 subset, answerVars>>

\* clear_rtg_object, and what the next call's reset_cgr clears.
EndCall ==
  /\ pc = "answered"
  /\ pc' = "idle" /\ critical' = FALSE /\ failed' = {} /\ asked' = {}
  /\ excludedNeighbors' = {} /\ suppressed' = {} /\ stale' = 0 /\ lastMax' = 0
  /\ missing' = 0 /\ checked' = {} /\ candidates' = {} /\ subset' = {}
  /\ best' = {} /\ error' = FALSE
  /\ UNCHANGED <<planVars, rtgVars>>

----------------------------------------------------------------------------
(* Between the calls. *)

\* The contact plan was edited: all routes are discarded and the neighbors
\* list is built anew.
EditPlan ==
  /\ pc = "idle"
  /\ graph' \in Plans /\ neighbors' \in SUBSET Neighbor /\ IsPlan(graph', neighbors')
  /\ outlived' = FALSE
  /\ selectedRoutes' = {} /\ spursComputed' = {} /\ reopened' = {} /\ citations' = {}
  /\ computed' = FALSE /\ notFound' = FALSE /\ neighborsDiscovered' = FALSE
  /\ UNCHANGED <<pc, bundleVars, phase2Vars, missing, answerVars>>

\* Wrong: a route is reopened whenever a route after it is deleted, or never.
ReopenedTooOften(kept) ==
  {r \in kept : \E s \in selectedRoutes \ kept : s[1] = r[1] /\ s[2] > r[2]}
ReopenedNever(kept) == {}

\* A deleted route links its neighbors in the chain of selected routes; the
\* route that becomes the last of its chain may be branched from again.
Reopened(kept) ==
  {r \in kept : /\ \E s \in selectedRoutes : s[1] = r[1] /\ s[2] > r[2]
                /\ \A s \in kept : s[1] = r[1] => s[2] <= r[2]}

\* Wrong: a contact is freed without the routes that cite it.
KeptWithoutContact(R) == R

\* free_contact deletes the routes that use the contact.
Kept(R) == R \cap graph'

\* Contacts expire, with the routes that use them, and neighbors.  A neighbor
\* goes with the last of its contacts by start, which another may outlive.
Expire ==
  /\ pc = "idle"
  /\ PlanExpires
  /\ graph' \in SUBSET graph
  /\ neighbors' \in SUBSET neighbors
  /\ outlived' = (outlived \/ ~ Via(graph') \subseteq neighbors')
  /\ selectedRoutes' = Kept(selectedRoutes)
  /\ spursComputed' = Kept(spursComputed) \ Reopened(selectedRoutes')
  /\ reopened' = Kept(reopened) \cup (Kept(spursComputed) \ spursComputed')
  /\ citations' = citations \cap neighbors'
  /\ UNCHANGED <<computed, notFound, neighborsDiscovered, pc, bundleVars, phase2Vars,
                 missing, answerVars>>

----------------------------------------------------------------------------

CallStep == PhaseOne \/ PhaseTwo \/ EndCall

Next == StartCall \/ CallStep \/ EditPlan \/ Expire

Spec == Init /\ [][Next]_vars

\* getBestRoutes runs to its end: it waits for nothing.
FairSpec == Spec /\ WF_vars(CallStep)

----------------------------------------------------------------------------
(* Properties. *)

\* Each neighbor's selected routes form a chain of which only the last may be
\* branched from, so phase two hands phase one at most one route per
\* neighbor (phase_two.c:841, routes.c:180).
OneOpenRoutePerNeighbor ==
  \A r, s \in selectedRoutes : r[1] = s[1] /\ r[2] < s[2] => r \in spursComputed

Open(n) == \E r \in selectedRoutes \ spursComputed : r[1] = n

\* A neighbor's chain of selected routes is closed, so that the paths it still
\* offers are out of reach, only by a search that branched from its open end and
\* added nothing; expiry never leaves a chain closed that was open
\* (update_references reopens the chain's new end), and a chain starts open.
ChainsCloseInVain ==
  [][\A n \in Via(selectedRoutes') :
       Open(n)' \/ /\ n \in Via(selectedRoutes)
                   /\ Open(n) => /\ pc = "phase1" /\ n \in Via(subset)
                                 /\ n \notin Via(selectedRoutes' \ selectedRoutes)]_vars

\* What a destination remembers from one call to the next stays true while
\* paths and neighbors expire.  A destination is declared unreachable only if it
\* is (ROUTES_NOT_FOUND is cleared by an edit of the contact plan alone).  Once
\* all neighbors are said to be known, every neighbor with a path is cited, so
\* the count that phase two stops at misses none, unless a contact has outlived
\* its neighbor: a route over such a contact is counted among those of the local
\* node's neighbors (phase_one.c:2358).
FlagsStayTrue ==
  /\ notFound => graph = {}
  /\ neighborsDiscovered /\ ~outlived => Via(graph) \cap neighbors \subseteq citations

Served == Via(candidates) \cup asked

\* The answer rests on a complete search: for each neighbor with a path that
\* the caller did not exclude and that got no candidate a route was found, and
\* every route of it that was checked was branched from, unless the configured
\* number of neighbors was reached.  Phase two counts on its suppressed list;
\* where it has edited the caller's list in the place of that one, it stops early
\* (phase_two.c:1019), and where a contact has outlived its neighbor the count
\* is wrong.
SearchComplete ==
  pc = "answered" /\ ~error /\ excludedNeighbors = asked /\ ~outlived =>
    \/ MaxDijkstraRoutes > 0 /\ ~critical /\ Found(candidates) >= MaxDijkstraRoutes
    \/ \A n \in (Via(graph) \cap neighbors) \ Served :
          /\ n \in Via(selectedRoutes)
          /\ \A r \in checked : r[1] = n => r \in spursComputed

\* What the caller asks for: no route through an excluded neighbor is answered.
\* Phase two takes numbers off the caller's list in mid-call (phase_two.c:1019);
\* a route that is computed afterwards is not held against them.
ExclusionKept == Via(best) \cap asked = {}

\* The conversation ends: each round of phase one computes new routes.
CallEnds == pc # "idle" ~> pc = "idle"
============================================================================
