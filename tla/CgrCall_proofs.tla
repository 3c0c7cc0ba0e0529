---------------------------- MODULE CgrCall_proofs ----------------------------
(***************************************************************************)
(* Proofs about CgrCall for every finite set of neighbors, every number of *)
(* paths per neighbor and every limit of neighbors, while the plan expires *)
(* in any way.  Routes are only ever added in the order of their cost, so  *)
(* the selected routes of a neighbor are its cheapest paths (CheapestFirst)*)
(* although expiry takes some away; this makes the chains of selected      *)
(* routes, of which only the end may be branched from, inductive.          *)
(***************************************************************************)
EXTENDS CgrCall, DataLemmas, FiniteSetTheorems

\* Between two calls nothing is left of a call; an answer comes at its end.
CallsAreSeparate ==
  /\ pc = "idle" =>
       /\ excludedNeighbors = {} /\ suppressed = {} /\ stale = 0 /\ lastMax = 0
       /\ checked = {} /\ candidates = {} /\ subset = {}
  /\ pc # "answered" => best = {} /\ error = FALSE

TypeInv == TypeOK /\ CallsAreSeparate

----------------------------------------------------------------------------
(* Sets of neighbors and of routes. *)

LEMMA NeighborSets ==
  ASSUME NEW S, S \subseteq Neighbor
  PROVE  IsFiniteSet(S) /\ Cardinality(S) \in Nat
BY CgrCallAssumption, FS_Subset, FS_CardinalityType

LEMMA RouteShape ==
  ASSUME NEW r \in Route
  PROVE  /\ r[1] \in Neighbor /\ r[2] \in Nat /\ r[2] <= MaxPaths[r[1]]
         /\ MaxPaths[r[1]] \in Nat
         /\ r = <<r[1], r[2]>>
BY CgrCallAssumption DEF Route

\* Two routes through one neighbor with the same rank are the same.
LEMMA RouteKey ==
  ASSUME NEW r \in Route, NEW s \in Route, r[1] = s[1], r[2] = s[2]
  PROVE  r = s
BY RouteShape

\* A neighbor that a set of routes goes through has a cheapest one there.
LEMMA CheapestExists ==
  ASSUME NEW R, R \subseteq Route, NEW n \in Via(R)
  PROVE  \E r \in Cheapest(R) : r[1] = n
<1> DEFINE T == {r[2] : r \in {s \in R : s[1] = n}}
<1>1. T \subseteq Nat /\ T # {}
  BY RouteShape DEF Via
<1>2. PICK k \in T : \A j \in T : k <= j
  BY <1>1, NatMin
<1>3. PICK r \in R : r[1] = n /\ r[2] = k
  BY <1>2
<1>4. r \in Cheapest(R)
  BY <1>2, <1>3 DEF Cheapest
<1> QED BY <1>3, <1>4

\* and a dearest one.
LEMMA DearestExists ==
  ASSUME NEW R, R \subseteq Route, NEW n \in Via(R)
  PROVE  \E r \in R : r[1] = n /\ \A s \in R : s[1] = n => s[2] <= r[2]
<1> DEFINE T == {r[2] : r \in {s \in R : s[1] = n}}
<1>1. n \in Neighbor /\ MaxPaths[n] \in Nat
  BY RouteShape DEF Via
<1>2. T \subseteq Nat /\ T # {} /\ \A k \in T : k <= MaxPaths[n]
  BY RouteShape DEF Via
<1>3. PICK k \in T : \A j \in T : j <= k
  BY <1>1, <1>2, NatMax
<1>4. PICK r \in R : r[1] = n /\ r[2] = k
  BY <1>3
<1> QED BY <1>3, <1>4

\* Two cheapest routes through one neighbor are the same.
LEMMA CheapestUnique ==
  ASSUME NEW R, R \subseteq Route, NEW r \in Cheapest(R), NEW s \in Cheapest(R), r[1] = s[1]
  PROVE  r = s
<1>1. r \in Route /\ s \in Route /\ r[2] <= s[2] /\ s[2] <= r[2]
  BY DEF Cheapest
<1> QED BY <1>1, RouteShape, RouteKey

----------------------------------------------------------------------------
(* What one round of phase one does. *)

\* The ways a round goes: nothing is left to find, Yen's algorithm runs on the
\* subset, it has nothing to run on there, or it cannot run at all.
LEMMA RoundOutcomes ==
  ASSUME NEW m, ComputeRoutes(m)
  PROVE  \/ notFound /\ UNCHANGED rtgVars
         \/ /\ CanBranch
            /\ \E P \in SUBSET NextPaths(subset), W \in SUBSET Undiscovered, all \in BOOLEAN :
                  (P = {} => all) /\ BranchTo(P, W, all)
         \/ CanBranch /\ SearchFromRoot(m) /\ CloseSubset
         \/ ~CanBranch /\ ~notFound /\ SearchFromRoot(m) /\ UNCHANGED <<spursComputed, reopened>>
<1>1. CASE CanBranch /\ Yen
  BY <1>1 DEF Yen
<1>2. CASE ~(CanBranch /\ Yen)
  BY <1>2 DEF ComputeRoutes, NothingToBranch, OneRoutePerNeighbor, CanBranch
<1> QED BY <1>1, <1>2

LEMMA SearchType ==
  ASSUME TypeOK, NEW m, SearchFromRoot(m)
  PROVE  /\ selectedRoutes \subseteq selectedRoutes' /\ selectedRoutes' \subseteq graph
         /\ citations' \subseteq neighbors
         /\ {computed', notFound', neighborsDiscovered'} \subseteq BOOLEAN
BY DEF SearchFromRoot, InsertNeighbors, Cheapest, TypeOK

LEMMA BranchType ==
  ASSUME TypeOK, NEW P \in SUBSET NextPaths(subset), NEW W, NEW all, BranchTo(P, W, all)
  PROVE  /\ selectedRoutes \subseteq selectedRoutes' /\ selectedRoutes' \subseteq graph
         /\ CloseSubset
         /\ citations' \subseteq neighbors
         /\ {computed', notFound', neighborsDiscovered'} \subseteq BOOLEAN
BY DEF BranchTo, InsertNeighbors, NextPaths, Cheapest, TypeOK

\* New routes are cheapest unselected ones; the marks of Yen stay as they are or
\* the subset is marked; new citations are neighbors.
LEMMA ComputeRoutesType ==
  ASSUME TypeOK, NEW m, ComputeRoutes(m)
  PROVE  /\ selectedRoutes \subseteq selectedRoutes' /\ selectedRoutes' \subseteq graph
         /\ UNCHANGED <<spursComputed, reopened>> \/ CloseSubset
         /\ citations' \subseteq neighbors
         /\ {computed', notFound', neighborsDiscovered'} \subseteq BOOLEAN
<1>1. CASE UNCHANGED rtgVars
  BY <1>1 DEF rtgVars, TypeOK
<1>2. CASE SearchFromRoot(m) /\ (UNCHANGED <<spursComputed, reopened>> \/ CloseSubset)
  BY <1>2, SearchType
<1>3. ASSUME NEW P \in SUBSET NextPaths(subset), NEW W, NEW all, BranchTo(P, W, all)
      PROVE  /\ selectedRoutes \subseteq selectedRoutes' /\ selectedRoutes' \subseteq graph
             /\ CloseSubset
             /\ citations' \subseteq neighbors
             /\ {computed', notFound', neighborsDiscovered'} \subseteq BOOLEAN
  BY <1>3, BranchType
<1> QED BY <1>1, <1>2, <1>3, RoundOutcomes

LEMMA AnswerType ==
  ASSUME NEW cands, Answer(cands)
  PROVE  pc' = "answered" /\ best' \subseteq cands
<1>1. pc' = "answered"
  BY DEF Answer
<1>2. CASE cands = {}
  BY <1>2 DEF Answer
<1>3. CASE cands # {} /\ critical
  BY <1>3 DEF Answer
<1>4. CASE cands # {} /\ ~critical
  <2>1. PICK r \in cands : best' = {r}
    BY <1>4 DEF Answer
  <2> QED BY <1>1, <2>1
<1> QED BY <1>1, <1>2, <1>3, <1>4

\* The uncounted routes are a round of Yen's algorithm too.
LEMMA PhaseOneOutcomes ==
  ASSUME PhaseOne
  PROVE  /\ pc = "phase1" /\ ComputeRoutes(missing)
         /\ UNCHANGED <<planVars, bundleVars, phase2Vars, missing, error>>
         /\ \/ selectedRoutes' # selectedRoutes /\ pc' = "phase2" /\ UNCHANGED best
            \/ UNCHANGED selectedRoutes /\ Answer(candidates)
            \/ BranchTo({}, Undiscovered, TRUE) /\ Answer(candidates)
<1>1. CASE CanBranch /\ BranchTo({}, Undiscovered, TRUE)
  <2>1. Yen
    BY <1>1 DEF Yen
  <2>2. ComputeRoutes(missing)
    BY <1>1, <2>1 DEF ComputeRoutes, CanBranch
  <2> QED BY <1>1, <2>2 DEF PhaseOne, Grew
<1> QED BY <1>1 DEF PhaseOne, Grew

\* What the outcomes of phase two have in common.
Checks(freed, unfit, late) ==
  /\ pc = "phase2"
  /\ SuppressExcluded(freed)
  /\ checked' = selectedRoutes
  /\ suppressed' = Suppressed(freed) \cup NewlySuppressed(OpenRoutes(unfit) \ late)
  /\ \/ GivesUp(unfit \cup OpenRoutes(unfit), Suppressed(freed))
     \/ /\ candidates' = candidates \cup (OpenRoutes(unfit) \ late)
        /\ StopsChecking \/ AsksForMore(unfit \cup late)
        /\ UNCHANGED error
  /\ UNCHANGED <<planVars, rtgVars, bundleVars>>

LEMMA PhaseTwoOutcomes ==
  ASSUME PhaseTwo
  PROVE  \E freed \in SUBSET excludedNeighbors, unfit \in SUBSET (selectedRoutes \ checked) :
           \E late \in SUBSET OpenRoutes(unfit) : Checks(freed, unfit, late)
BY Zenon DEF PhaseTwo, Checks

----------------------------------------------------------------------------
(* Types. *)

LEMMA CountsAreNat ==
  ASSUME TypeOK
  PROVE  MaxNeighbors \in Nat /\ Limit(MaxNeighbors) \in Nat
<1>1. MaxNeighbors \in Nat
  BY NeighborSets DEF MaxNeighbors, TypeOK
<1> QED BY <1>1, CgrCallAssumption DEF Limit, Smaller

LEMMA PhaseOneType ==
  ASSUME TypeInv, PhaseOne
  PROVE  TypeInv'
<1> USE DEF TypeInv, TypeOK, CallsAreSeparate, planVars, bundleVars, phase2Vars
<1>1. ComputeRoutes(missing) /\ UNCHANGED <<planVars, bundleVars, phase2Vars, missing, error>>
  BY PhaseOneOutcomes
<1>2. /\ selectedRoutes \subseteq selectedRoutes' /\ selectedRoutes' \subseteq graph
      /\ reopened' \subseteq selectedRoutes' \ spursComputed'
      /\ spursComputed' \subseteq spursComputed \cup subset
      /\ citations' \subseteq neighbors
      /\ {computed', notFound', neighborsDiscovered'} \subseteq BOOLEAN
  BY <1>1, ComputeRoutesType DEF CloseSubset
<1>3. \/ pc' = "phase2" /\ UNCHANGED best /\ pc = "phase1"
      \/ pc' = "answered" /\ best' \subseteq candidates
  BY PhaseOneOutcomes, AnswerType
<1> QED BY <1>1, <1>2, <1>3

LEMMA SuppressExcludedType ==
  ASSUME TypeOK, NEW freed \in SUBSET excludedNeighbors, SuppressExcluded(freed)
  PROVE  /\ excludedNeighbors' \in {excludedNeighbors, excludedNeighbors \ suppressed}
         /\ lastMax' = MaxNeighbors
         /\ stale' \in Nat
         /\ Suppressed(freed) \subseteq suppressed \cup asked
<1>1. Cardinality(freed) \in Nat
  BY NeighborSets DEF TypeOK
<1> QED BY <1>1, CountsAreNat DEF TypeOK, SuppressExcluded, Suppressed

LEMMA PhaseTwoType ==
  ASSUME TypeInv, PhaseTwo
  PROVE  TypeInv'
<1> USE DEF TypeInv, TypeOK, CallsAreSeparate
<1>1. PICK freed \in SUBSET excludedNeighbors, unfit \in SUBSET (selectedRoutes \ checked) :
        \E late \in SUBSET OpenRoutes(unfit) : Checks(freed, unfit, late)
  BY PhaseTwoOutcomes
<1>2. PICK late \in SUBSET OpenRoutes(unfit) : Checks(freed, unfit, late)
  BY <1>1
<1>3. OpenRoutes(unfit) \subseteq selectedRoutes
  BY DEF OpenRoutes
<1>4. /\ planVars' = planVars /\ rtgVars' = rtgVars /\ bundleVars' = bundleVars
      /\ checked' = selectedRoutes
  BY <1>2 DEF Checks
<1>5. excludedNeighbors' \subseteq asked /\ lastMax' \in Nat /\ stale' \in Nat
  BY <1>2, SuppressExcludedType, CountsAreNat DEF Checks
<1>6. suppressed' \subseteq Neighbor
  <2>1. Suppressed(freed) \subseteq Neighbor
    BY <1>2, SuppressExcludedType DEF Checks
  <2> QED BY <1>2, <2>1 DEF Checks, NewlySuppressed
<1>7. /\ candidates' \subseteq selectedRoutes /\ subset' \subseteq selectedRoutes
      /\ best' \subseteq candidates' /\ missing' \in Nat
      /\ error' \in BOOLEAN /\ pc' \in {"phase1", "answered"}
      /\ pc' # "answered" => best' = {} /\ error' = FALSE
  <2>1. best = {} /\ error = FALSE
    BY <1>2 DEF Checks
  <2>2. CASE GivesUp(unfit \cup OpenRoutes(unfit), Suppressed(freed))
    BY <2>1, <2>2 DEF GivesUp
  <2>3. ASSUME candidates' = candidates \cup (OpenRoutes(unfit) \ late), UNCHANGED error
        PROVE  candidates' \subseteq selectedRoutes /\ error' = FALSE
    BY <1>3, <2>1, <2>3
  <2>4. CASE candidates' \subseteq selectedRoutes /\ error' = FALSE /\ StopsChecking
    <3>1. pc' = "answered" /\ best' \subseteq candidates'
      BY <2>4, AnswerType DEF StopsChecking
    <3> QED BY <2>4, <3>1 DEF StopsChecking
  <2>5. CASE candidates' \subseteq selectedRoutes /\ error' = FALSE /\ AsksForMore(unfit \cup late)
    <3>1. Found(candidates') \in Nat
      <4>1. (Via(candidates') \cap neighbors) \ failed \subseteq Neighbor
        OBVIOUS
      <4> QED BY <4>1, NeighborSets DEF Found
    <3>2. missing' \in Nat
      BY <2>5, <3>1, CountsAreNat DEF AsksForMore, Reached
    <3> QED BY <1>3, <2>1, <2>5, <3>2 DEF AsksForMore
  <2> QED BY <1>2, <2>2, <2>3, <2>4, <2>5 DEF Checks
<1> QED BY <1>4, <1>5, <1>6, <1>7 DEF planVars, rtgVars, bundleVars

LEMMA OtherCallsType ==
  ASSUME TypeInv, StartCall \/ EndCall \/ EditPlan \/ Expire
  PROVE  TypeInv'
<1> USE DEF TypeInv, TypeOK, CallsAreSeparate, planVars, bundleVars, phase2Vars, answerVars
<1>1. CASE StartCall
  <2>1. PICK m : UNCHANGED rtgVars \/ ComputeRoutes(m)
    BY <1>1, Zenon DEF StartCall
  <2>2. /\ selectedRoutes \subseteq selectedRoutes' /\ selectedRoutes' \subseteq graph
        /\ reopened' \subseteq selectedRoutes' \ spursComputed'
        /\ spursComputed' \subseteq spursComputed \cup subset
        /\ citations' \subseteq neighbors
        /\ {computed', notFound', neighborsDiscovered'} \subseteq BOOLEAN
    BY <2>1, ComputeRoutesType DEF rtgVars, CloseSubset
  <2>3. UNCHANGED <<planVars, suppressed, stale, lastMax, missing, checked, candidates,
                    subset, answerVars>>
        /\ critical' \in BOOLEAN /\ failed' \subseteq neighbors /\ asked' \subseteq neighbors
        /\ excludedNeighbors' = asked' /\ pc' \in {"answered", "phase2"} /\ pc = "idle"
    BY <1>1, Zenon DEF StartCall
  <2> QED BY <2>2, <2>3
<1>2. CASE EndCall
  BY <1>2 DEF EndCall, rtgVars
<1>3. CASE EditPlan
  BY <1>3 DEF EditPlan, IsPlan, Plans
<1>4. CASE Expire
  BY <1>4 DEF Expire, Kept, Reopened
<1> QED BY <1>1, <1>2, <1>3, <1>4

LEMMA TypeInvCorrect == Spec => []TypeInv
<1>1. Init => TypeInv
  <2>1. Init => graph \subseteq Route
    BY DEF Init, Plans
  <2>2. Init => {computed, notFound, neighborsDiscovered, critical, error, outlived} \subseteq BOOLEAN
    BY Zenon DEF Init
  <2> QED BY <2>1, <2>2 DEF Init, TypeInv, TypeOK, CallsAreSeparate
<1>2. TypeInv /\ [Next]_vars => TypeInv'
  <2> SUFFICES ASSUME TypeInv, [Next]_vars PROVE TypeInv'
    OBVIOUS
  <2>1. CASE UNCHANGED vars
    BY <2>1 DEF vars, TypeInv, TypeOK, CallsAreSeparate
  <2> QED BY <2>1, PhaseOneType, PhaseTwoType, OtherCallsType DEF Next, CallStep
<1> QED BY <1>1, <1>2, PTL DEF Spec

\* Routes come from the plan that is in force, what a call works with comes
\* from the routes, and the answer from the candidates, also after contacts
\* with routes in use have expired (free_contact deletes those routes).
THEOREM TypeCorrect == Spec => []TypeOK
<1>1. TypeInv => TypeOK
  BY DEF TypeInv
<1> QED BY <1>1, TypeInvCorrect, PTL

----------------------------------------------------------------------------
(* The chains of selected routes. *)

\* The strengthening: the selected routes of a neighbor are its cheapest paths.
CheapestFirst ==
  \A r \in graph, s \in selectedRoutes : r[1] = s[1] /\ r[2] < s[2] => r \in selectedRoutes

\* Phase one branches only from routes that Yen has not branched from.
SubsetIsOpen == pc = "phase1" => subset \cap spursComputed = {}

Chains == CheapestFirst /\ OneOpenRoutePerNeighbor

\* Routes that a search may add: unselected ones, the cheapest of their
\* neighbor.
NextInLine(A) ==
  A \subseteq {s \in graph \ selectedRoutes :
                 \A r \in graph \ selectedRoutes : r[1] = s[1] => s[2] <= r[2]}

LEMMA AddNextInLine ==
  ASSUME TypeOK, CheapestFirst, NEW A, NextInLine(A)
  PROVE  /\ \A r \in graph, s \in selectedRoutes \cup A :
              r[1] = s[1] /\ r[2] < s[2] => r \in selectedRoutes
         /\ \A r, s \in A : r[1] = s[1] => r = s
<1>1. \A r \in graph : r \in Route /\ r[2] \in Nat
  BY RouteShape DEF TypeOK
<1>2. ASSUME NEW r \in graph, NEW s \in A, r[1] = s[1], r[2] < s[2], r \notin selectedRoutes
      PROVE  FALSE
  <2>1. s \in graph /\ s[2] <= r[2]
    BY <1>2 DEF NextInLine
  <2> QED BY <1>1, <1>2, <2>1
<1>3. ASSUME NEW r \in A, NEW s \in A, r[1] = s[1]
      PROVE  r = s
  <2>1. r \in graph /\ s \in graph /\ s[2] <= r[2] /\ r[2] <= s[2]
    BY <1>3 DEF NextInLine
  <2>2. r \in Route /\ s \in Route /\ r[2] = s[2]
    BY <1>1, <2>1
  <2> QED BY <1>3, <2>2, RouteKey
<1> QED BY <1>2, <1>3 DEF CheapestFirst

\* The cheapest paths through new neighbors, and the next ones of the subset.
LEMMA SearchesAddNextInLine ==
  ASSUME TypeOK
  PROVE  /\ \A W \in SUBSET Undiscovered : NextInLine(Cheapest({r \in graph : r[1] \in W}))
         /\ \A P \in SUBSET NextPaths(subset) : NextInLine(P)
<1>1. \A r \in graph : r[1] \in Undiscovered => r \notin selectedRoutes
  BY DEF Undiscovered, Via
<1>2. ASSUME NEW W \in SUBSET Undiscovered
      PROVE  NextInLine(Cheapest({r \in graph : r[1] \in W}))
  BY <1>1 DEF NextInLine, Cheapest
<1>3. ASSUME NEW P \in SUBSET NextPaths(subset)
      PROVE  NextInLine(P)
  BY DEF NextInLine, NextPaths, Cheapest
<1> QED BY <1>2, <1>3

\* What a round of phase one adds, and whose chain ends it closes: a neighbor that
\* has a selected route gets another one only if its end was in the subset.
LEMMA RoundAdds ==
  ASSUME TypeOK, NEW m, ComputeRoutes(m)
  PROVE  \E A, B : /\ NextInLine(A) /\ selectedRoutes' = selectedRoutes \cup A
                   /\ B \in {{}, subset} /\ spursComputed' = spursComputed \cup B
                   /\ \A s \in A : s[1] \in Via(selectedRoutes) => s[1] \in Via(B)
<1>1. CASE UNCHANGED rtgVars
  <2>1. NextInLine({})
    BY DEF NextInLine
  <2> QED BY <1>1, <2>1 DEF rtgVars
<1>2. CASE SearchFromRoot(m) /\ (UNCHANGED <<spursComputed, reopened>> \/ CloseSubset)
  <2>1. PICK W \in SUBSET Undiscovered :
          selectedRoutes' = selectedRoutes \cup Cheapest({r \in graph : r[1] \in W})
    BY <1>2 DEF SearchFromRoot
  <2> DEFINE A == Cheapest({r \in graph : r[1] \in W})
  <2>2. NextInLine(A)
    BY SearchesAddNextInLine
  <2>3. \A s \in A : s[1] \notin Via(selectedRoutes)
    BY DEF Cheapest, Undiscovered
  <2>4. selectedRoutes' = selectedRoutes \cup A
    BY <2>1
  <2>5. PICK B \in {{}, subset} : spursComputed' = spursComputed \cup B
    BY <1>2 DEF CloseSubset
  <2> HIDE DEF A
  <2> WITNESS A, B
  <2> QED BY <2>2, <2>3, <2>4, <2>5
<1>3. ASSUME NEW P \in SUBSET NextPaths(subset), NEW W \in SUBSET Undiscovered, NEW all,
             BranchTo(P, W, all)
      PROVE  \E A, B : /\ NextInLine(A) /\ selectedRoutes' = selectedRoutes \cup A
                       /\ B \in {{}, subset} /\ spursComputed' = spursComputed \cup B
                       /\ \A s \in A : s[1] \in Via(selectedRoutes) => s[1] \in Via(B)
  <2> DEFINE A == P \cup Cheapest({r \in graph : r[1] \in W})
  <2>1. NextInLine(A)
    <3>1. NextInLine(Cheapest({r \in graph : r[1] \in W})) /\ NextInLine(P)
      BY SearchesAddNextInLine
    <3> QED BY <3>1 DEF NextInLine
  <2>2. \A s \in A : s[1] \in Via(selectedRoutes) => s[1] \in Via(subset)
    BY DEF Cheapest, Undiscovered, NextPaths
  <2>3. selectedRoutes' = selectedRoutes \cup A /\ spursComputed' = spursComputed \cup subset
    BY <1>3 DEF BranchTo, CloseSubset
  <2> HIDE DEF A
  <2> WITNESS A, subset
  <2> QED BY <2>1, <2>2, <2>3
<1> QED BY <1>1, <1>2, <1>3, RoundOutcomes

LEMMA RoundKeepsChains ==
  ASSUME TypeOK, Chains, subset \cap spursComputed = {}, UNCHANGED graph,
         NEW m, ComputeRoutes(m)
  PROVE  Chains'
<1>1. PICK A, B :
        /\ NextInLine(A) /\ selectedRoutes' = selectedRoutes \cup A
        /\ B \in {{}, subset} /\ spursComputed' = spursComputed \cup B
        /\ \A s \in A : s[1] \in Via(selectedRoutes) => s[1] \in Via(B)
  BY RoundAdds
<1>2. /\ \A r \in graph, s \in selectedRoutes' : r[1] = s[1] /\ r[2] < s[2] => r \in selectedRoutes
      /\ \A r, s \in A : r[1] = s[1] => r = s
  BY <1>1, AddNextInLine DEF Chains
<1>3. A \subseteq graph /\ A \cap selectedRoutes = {} /\ B \subseteq selectedRoutes
      /\ B \cap spursComputed = {}
  BY <1>1 DEF NextInLine, TypeOK
<1>4. \A r \in graph : r \in Route /\ r[2] \in Nat
  BY RouteShape DEF TypeOK
<1>5. CheapestFirst'
  BY <1>1, <1>2 DEF CheapestFirst
<1>6. OneOpenRoutePerNeighbor'
  <2> SUFFICES ASSUME NEW r \in selectedRoutes', NEW s \in selectedRoutes',
                      r[1] = s[1], r[2] < s[2]
               PROVE  r \in spursComputed'
    BY DEF OneOpenRoutePerNeighbor
  <2>1. r \in selectedRoutes
    BY <1>1, <1>2, <1>3 DEF TypeOK
  <2>2. CASE s \in selectedRoutes
    BY <1>1, <2>1, <2>2 DEF Chains, OneOpenRoutePerNeighbor
  <2>3. CASE s \in A
    <3> SUFFICES ASSUME r \notin spursComputed PROVE r \in B
      BY <1>1
    <3>1. PICK b \in B : b[1] = r[1]
      BY <1>1, <2>1, <2>3 DEF Via
    <3>2. b \in selectedRoutes \ spursComputed /\ b \in Route /\ r \in Route
      BY <1>3, <1>4, <2>1 DEF TypeOK
    <3>3. ~(r[2] < b[2]) /\ ~(b[2] < r[2])
      BY <2>1, <3>1, <3>2 DEF Chains, OneOpenRoutePerNeighbor
    <3>4. b = r
      BY <3>1, <3>2, <3>3, RouteShape, RouteKey
    <3> QED BY <3>4
  <2> QED BY <1>1, <2>2, <2>3
<1> QED BY <1>5, <1>6 DEF Chains

\* A chain that a round closes was branched from and got nothing.
LEMMA RoundClosesInVain ==
  ASSUME TypeOK, subset \cap spursComputed = {}, NEW m, ComputeRoutes(m),
         NEW n \in Via(selectedRoutes'), ~Open(n)'
  PROVE  /\ n \in Via(selectedRoutes) /\ n \notin Via(selectedRoutes' \ selectedRoutes)
         /\ Open(n) => n \in Via(subset)
<1>1. PICK A, B :
        /\ NextInLine(A) /\ selectedRoutes' = selectedRoutes \cup A
        /\ B \in {{}, subset} /\ spursComputed' = spursComputed \cup B
  BY RoundAdds
<1>2. A \cap selectedRoutes = {} /\ B \subseteq selectedRoutes /\ spursComputed \subseteq selectedRoutes
  BY <1>1 DEF NextInLine, TypeOK
<1>3. n \notin Via(A)
  BY <1>1, <1>2 DEF Open, Via
<1>4. n \in Via(selectedRoutes) /\ n \notin Via(selectedRoutes' \ selectedRoutes)
  BY <1>1, <1>3 DEF Via
<1>5. ASSUME Open(n) PROVE n \in Via(subset)
  BY <1>1, <1>5 DEF Open, Via
<1> QED BY <1>4, <1>5

\* A deleted route was the end of its chain, or another one still is; where it
\* was the end, the dearest route that is left is reopened.
LEMMA ExpireKeepsChains ==
  ASSUME TypeOK, Chains, Expire
  PROVE  Chains'
<1>1. /\ graph' \subseteq graph /\ selectedRoutes' = selectedRoutes \cap graph'
      /\ spursComputed' = (spursComputed \cap graph') \ Reopened(selectedRoutes')
  BY DEF Expire, Kept
<1>2. \A r \in graph : r \in Route /\ r[2] \in Nat
  BY RouteShape DEF TypeOK
<1>3. CheapestFirst'
  BY <1>1 DEF Chains, CheapestFirst
<1>4. OneOpenRoutePerNeighbor'
  <2> SUFFICES ASSUME NEW r \in selectedRoutes', NEW s \in selectedRoutes',
                      r[1] = s[1], r[2] < s[2]
               PROVE  r \in spursComputed'
    BY DEF OneOpenRoutePerNeighbor
  <2>1. r \in spursComputed
    BY <1>1 DEF Chains, OneOpenRoutePerNeighbor
  <2>2. r \notin Reopened(selectedRoutes')
    BY <1>1, <1>2 DEF Reopened, TypeOK
  <2> QED BY <1>1, <2>1, <2>2
<1> QED BY <1>3, <1>4 DEF Chains

\* Expiry closes no chain.
LEMMA ExpireKeepsOpen ==
  ASSUME TypeOK, Chains, Expire, NEW n \in Via(selectedRoutes'), Open(n)
  PROVE  Open(n)'
<1>1. /\ graph' \subseteq graph /\ selectedRoutes' = selectedRoutes \cap graph'
      /\ spursComputed' = (spursComputed \cap graph') \ Reopened(selectedRoutes')
  BY DEF Expire, Kept
<1>2. \A r \in graph : r \in Route /\ r[2] \in Nat
  BY RouteShape DEF TypeOK
<1>3. PICK s \in selectedRoutes \ spursComputed : s[1] = n
  BY DEF Open
<1>4. CASE s \in graph'
  BY <1>1, <1>3, <1>4 DEF Open
<1>5. CASE s \notin graph'
  <2>1. selectedRoutes' \subseteq Route
    BY <1>1 DEF TypeOK
  <2>2. PICK t \in selectedRoutes' :
           t[1] = n /\ \A u \in selectedRoutes' : u[1] = n => u[2] <= t[2]
    BY <2>1, DearestExists
  <2>3. t \in selectedRoutes /\ t # s /\ t \in Route /\ s \in Route
    BY <1>1, <1>2, <1>3, <1>5, <2>2 DEF TypeOK
  <2>4. ~(s[2] < t[2])
    BY <1>3, <2>2, <2>3 DEF Chains, OneOpenRoutePerNeighbor
  <2>5. t[2] < s[2]
    BY <1>3, <2>2, <2>3, <2>4, RouteShape, RouteKey
  <2>6. t \in Reopened(selectedRoutes')
    BY <1>3, <2>2, <2>5 DEF Reopened
  <2> QED BY <1>1, <2>2, <2>6 DEF Open
<1> QED BY <1>4, <1>5

LEMMA ChainsInv == Spec => [](Chains /\ SubsetIsOpen)
<1> DEFINE Inv == Chains /\ SubsetIsOpen
<1>1. Init => Inv
  BY DEF Init, Chains, CheapestFirst, OneOpenRoutePerNeighbor, SubsetIsOpen
<1>2. TypeInv /\ Inv /\ [Next]_vars => Inv'
  <2> SUFFICES ASSUME TypeInv, Chains, SubsetIsOpen, [Next]_vars
               PROVE  Chains' /\ SubsetIsOpen'
    OBVIOUS
  <2>1. ASSUME UNCHANGED <<graph, selectedRoutes, spursComputed>>
        PROVE  Chains'
    BY <2>1 DEF Chains, CheapestFirst, OneOpenRoutePerNeighbor
  <2>2. CASE PhaseOne
    <3>1. ComputeRoutes(missing) /\ pc = "phase1" /\ pc' \in {"phase2", "answered"}
          /\ UNCHANGED graph
      BY <2>2, PhaseOneOutcomes DEF planVars, Answer
    <3> QED BY <3>1, RoundKeepsChains DEF TypeInv, SubsetIsOpen
  <2>3. CASE PhaseTwo
    <3>1. UNCHANGED <<graph, selectedRoutes, spursComputed>>
      BY <2>3 DEF PhaseTwo, planVars, rtgVars
    <3>2. SubsetIsOpen'
      <4>1. PICK freed, unfit, late : Checks(freed, unfit, late)
        BY <2>3, PhaseTwoOutcomes
      <4>2. pc' = "phase1" => subset' \cap spursComputed = {}
        BY <4>1 DEF Checks, GivesUp, StopsChecking, AsksForMore, Answer
      <4> QED BY <3>1, <4>2 DEF SubsetIsOpen
    <3> QED BY <2>1, <3>1, <3>2
  <2>4. CASE StartCall
    <3>1. /\ pc = "idle" /\ pc' # "phase1" /\ UNCHANGED graph
          /\ UNCHANGED rtgVars \/ \E m : ComputeRoutes(m)
      BY <2>4, Zenon DEF StartCall, planVars
    <3>2. subset = {}
      BY <3>1 DEF TypeInv, CallsAreSeparate
    <3> QED BY <2>1, <3>1, <3>2, RoundKeepsChains DEF TypeInv, SubsetIsOpen, rtgVars
  <2>5. CASE EndCall
    BY <2>1, <2>5 DEF EndCall, planVars, rtgVars, SubsetIsOpen
  <2>6. CASE EditPlan
    BY <2>6 DEF EditPlan, Chains, CheapestFirst, OneOpenRoutePerNeighbor, SubsetIsOpen
  <2>7. CASE Expire
    BY <2>7, ExpireKeepsChains DEF Expire, TypeInv, SubsetIsOpen
  <2>8. CASE UNCHANGED vars
    BY <2>1, <2>8 DEF vars, SubsetIsOpen
  <2> QED BY <2>2, <2>3, <2>4, <2>5, <2>6, <2>7, <2>8 DEF Next, CallStep
<1> QED BY <1>1, <1>2, TypeInvCorrect, PTL DEF Spec

\* Phase two hands phase one at most one route of each neighbor.
THEOREM OneOpenRouteCorrect == Spec => []OneOpenRoutePerNeighbor
<1>1. Chains => OneOpenRoutePerNeighbor
  BY DEF Chains
<1> QED BY <1>1, ChainsInv, PTL

\* The step of ChainsCloseInVain for one neighbor.
ClosesInVain(n) ==
  Open(n)' \/ /\ n \in Via(selectedRoutes)
              /\ Open(n) => /\ pc = "phase1" /\ n \in Via(subset)
                            /\ n \notin Via(selectedRoutes' \ selectedRoutes)

\* A chain of selected routes is closed only by a search from its end that adds
\* nothing to it; no expiry in its middle or at its end closes it.
THEOREM ChainsCorrect == Spec => ChainsCloseInVain
<1> DEFINE Inv == TypeInv /\ Chains /\ SubsetIsOpen
<1>1. Inv /\ [Next]_vars => [\A n \in Via(selectedRoutes') : ClosesInVain(n)]_vars
  <2> SUFFICES ASSUME TypeInv, Chains, SubsetIsOpen, Next, NEW n \in Via(selectedRoutes'), ~Open(n)'
               PROVE  /\ n \in Via(selectedRoutes)
                      /\ Open(n) => /\ pc = "phase1" /\ n \in Via(subset)
                                    /\ n \notin Via(selectedRoutes' \ selectedRoutes)
    BY DEF ClosesInVain
  <2> USE DEF TypeInv
  <2>1. CASE PhaseOne
    <3>1. pc = "phase1" /\ ComputeRoutes(missing)
      BY <2>1, PhaseOneOutcomes
    <3> QED BY <3>1, RoundClosesInVain DEF SubsetIsOpen
  <2>2. CASE StartCall
    <3>1. pc = "idle" /\ (UNCHANGED rtgVars \/ \E m : ComputeRoutes(m))
      BY <2>2, Zenon DEF StartCall
    <3>2. subset = {}
      BY <3>1 DEF CallsAreSeparate
    <3>3. CASE UNCHANGED rtgVars
      BY <3>3 DEF rtgVars, Open
    <3>4. ASSUME NEW m, ComputeRoutes(m) PROVE n \in Via(selectedRoutes) /\ ~Open(n)
      <4>1. n \in Via(selectedRoutes) /\ (Open(n) => n \in Via(subset))
        BY <3>2, <3>4, RoundClosesInVain
      <4> QED BY <3>2, <4>1 DEF Via
    <3> QED BY <3>1, <3>3, <3>4
  <2>3. CASE PhaseTwo \/ EndCall
    BY <2>3 DEF PhaseTwo, EndCall, rtgVars, Open
  <2>4. CASE EditPlan
    BY <2>4 DEF EditPlan, Via
  <2>5. CASE Expire
    BY <2>5, ExpireKeepsOpen DEF Expire, Kept, Via
  <2> QED BY <2>1, <2>2, <2>3, <2>4, <2>5 DEF Next, CallStep
<1>2. [][\A n \in Via(selectedRoutes') : ClosesInVain(n)]_vars => ChainsCloseInVain
  BY DEF ChainsCloseInVain, ClosesInVain
<1> QED BY <1>1, <1>2, TypeInvCorrect, ChainsInv, PTL DEF Spec

----------------------------------------------------------------------------
(* What a call promises of its answer: that what a destination remembers   *)
(* of the plan stays true, and that the search behind it was complete.     *)
(* Where a contact has outlived its neighbor, a call counts neighbors that *)
(* are not there: what rests on the count is proved for the other states.  *)

LEMMA StartCallOutcomes ==
  ASSUME TypeOK, StartCall
  PROVE  /\ pc = "idle" /\ excludedNeighbors' = asked' /\ failed' \subseteq neighbors
         /\ UNCHANGED <<planVars, suppressed, stale, lastMax, missing, checked, candidates,
                        subset, answerVars>>
         /\ \/ UNCHANGED rtgVars /\ (computed \/ MaxNeighbors = 0)
            \/ ~computed /\ \E m \in Nat \ {0} : ComputeRoutes(m)
         /\ \/ /\ pc' = "answered"
               /\ \/ ~computed /\ UNCHANGED selectedRoutes
                  \/ neighborsDiscovered' /\ citations' = {}
                  \/ neighbors = {}
            \/ pc' = "phase2" /\ (computed \/ selectedRoutes' # selectedRoutes)
<1>1. /\ pc = "idle" /\ excludedNeighbors' = asked' /\ failed' \subseteq neighbors
      /\ UNCHANGED <<planVars, suppressed, stale, lastMax, missing, checked, candidates,
                     subset, answerVars>>
  BY Zenon DEF StartCall
<1>2. \/ /\ pc' = "answered"
         /\ \/ ~computed /\ UNCHANGED selectedRoutes
            \/ neighborsDiscovered' /\ citations' = {}
            \/ neighbors = {}
      \/ pc' = "phase2" /\ (computed \/ selectedRoutes' # selectedRoutes)
  BY Zenon DEF StartCall, Grew
<1>3. PICK m : /\ m = IF MaxDijkstraRoutes > 0 /\ ~critical'
                      THEN Smaller(MaxNeighbors, MaxDijkstraRoutes) ELSE MaxNeighbors
               /\ IF computed THEN UNCHANGED rtgVars
                  ELSE IF m = 0 THEN UNCHANGED rtgVars
                  ELSE ComputeRoutes(m)
  BY Zenon DEF StartCall
<1>4. m \in Nat /\ (m = 0 => MaxNeighbors = 0)
  BY <1>3, CountsAreNat, CgrCallAssumption DEF Smaller
<1>5. \/ UNCHANGED rtgVars /\ (computed \/ MaxNeighbors = 0)
      \/ ~computed /\ \E k \in Nat \ {0} : ComputeRoutes(k)
  BY <1>3, <1>4
<1> QED BY <1>1, <1>2, <1>5

----------------------------------------------------------------------------
(* Exclusions. *)

\* While the caller's list is as it came, no candidate is excluded: phase two
\* counts on it, although it breaks that list (ExclusionKept fails).
CandidatesNotExcluded == excludedNeighbors = asked => Via(candidates) \cap asked = {}

LEMMA NotExcludedCorrect == Spec => []CandidatesNotExcluded
<1> USE DEF CandidatesNotExcluded
<1>1. Init => CandidatesNotExcluded
  BY DEF Init, Via
<1>2. TypeInv /\ CandidatesNotExcluded /\ [Next]_vars => CandidatesNotExcluded'
  <2> SUFFICES ASSUME TypeInv, CandidatesNotExcluded, [Next]_vars
               PROVE  CandidatesNotExcluded'
    OBVIOUS
  <2>1. CASE PhaseTwo
    <3>0. PICK freed \in SUBSET excludedNeighbors : \E unfit, late : Checks(freed, unfit, late)
      BY <2>1, PhaseTwoOutcomes
    <3>1. PICK unfit, late : Checks(freed, unfit, late)
      BY <3>0
    <3>2. /\ excludedNeighbors' \in {excludedNeighbors, excludedNeighbors \ suppressed}
          /\ asked' = asked /\ excludedNeighbors \subseteq asked
      BY <3>1, SuppressExcludedType DEF Checks, bundleVars, TypeInv, TypeOK
    <3>3. SUFFICES ASSUME excludedNeighbors' = asked PROVE Via(candidates') \cap asked = {}
      BY <3>2
    <3>4. Via(candidates) \cap asked = {}
      BY <3>2, <3>3
    <3>5. \A r \in OpenRoutes(unfit) : r[1] \notin asked
      BY <3>3 DEF OpenRoutes, Excluded
    <3>6. candidates' \subseteq candidates \cup OpenRoutes(unfit)
      BY <3>1 DEF Checks, GivesUp
    <3> QED BY <3>4, <3>5, <3>6 DEF Via
  <2>2. CASE PhaseOne
    BY <2>2 DEF PhaseOne, phase2Vars, bundleVars
  <2>3. CASE StartCall
    BY <2>3, StartCallOutcomes DEF TypeInv, CallsAreSeparate, Via
  <2>4. CASE EndCall \/ EditPlan \/ Expire
    BY <2>4 DEF EndCall, EditPlan, Expire, phase2Vars, bundleVars, Via
  <2>5. CASE UNCHANGED vars
    BY <2>5 DEF vars
  <2> QED BY <2>1, <2>2, <2>3, <2>4, <2>5 DEF Next, CallStep
<1> QED BY <1>1, <1>2, TypeInvCorrect, PTL DEF Spec

----------------------------------------------------------------------------
(* What a destination remembers. *)

\* The neighbors outlive the paths through them.
NeighborsLast == ~outlived => Via(graph) \subseteq neighbors

MissingSome == pc = "phase1" => missing # 0

Remembers == NeighborsLast /\ FlagsStayTrue /\ MissingSome

\* A search that finds nothing new had no new neighbor to start from.
LEMMA NothingNew ==
  ASSUME TypeOK, NEW W \in SUBSET Undiscovered,
         Cheapest({r \in graph : r[1] \in W}) \subseteq selectedRoutes
  PROVE  W = {}
<1> SUFFICES ASSUME NEW n \in W PROVE FALSE
  OBVIOUS
<1> DEFINE R == {r \in graph : r[1] \in W}
<1>1. R \subseteq Route /\ n \in Via(R)
  BY DEF TypeOK, Undiscovered, Via
<1>2. PICK r \in Cheapest(R) : r[1] = n
  BY <1>1, CheapestExists
<1>3. r \in selectedRoutes
  BY <1>2
<1> QED BY <1>2, <1>3 DEF Undiscovered, Via

\* A search from every new neighbor leaves none out.
LEMMA AllDiscovered ==
  ASSUME TypeOK
  PROVE  Via(selectedRoutes \cup Cheapest({r \in graph : r[1] \in Undiscovered})) = Via(graph)
<1> DEFINE R == {r \in graph : r[1] \in Undiscovered}
<1>1. ASSUME NEW n \in Via(graph), n \notin Via(selectedRoutes)
      PROVE  n \in Via(Cheapest(R))
  <2>1. R \subseteq Route /\ n \in Via(R)
    BY <1>1 DEF TypeOK, Undiscovered, Via
  <2>2. PICK r \in Cheapest(R) : r[1] = n
    BY <2>1, CheapestExists
  <2> QED BY <2>2 DEF Via
<1>2. Cheapest(R) \subseteq graph /\ selectedRoutes \subseteq graph
  BY DEF Cheapest, TypeOK
<1>3. Via(selectedRoutes \cup Cheapest(R)) = Via(selectedRoutes) \cup Via(Cheapest(R))
  BY DEF Via
<1>4. Via(selectedRoutes) \cup Via(Cheapest(R)) \subseteq Via(graph)
  BY <1>2 DEF Via
<1> QED BY <1>1, <1>3, <1>4

\* The neighbors are taken for known only after a search from all of them.
LEMMA RoundCites ==
  ASSUME TypeOK, NeighborsLast, ~outlived, NEW m \in Nat \ {0}, ComputeRoutes(m)
  PROVE  \/ UNCHANGED <<citations, neighborsDiscovered>>
         \/ InsertNeighbors(Via(selectedRoutes')) /\ Via(selectedRoutes') = Via(graph)
<1>1. CASE UNCHANGED rtgVars
  BY <1>1 DEF rtgVars
<1>2. CASE SearchFromRoot(m)
  <2>1. PICK W \in SUBSET Undiscovered :
          /\ Cardinality(W) = Smaller(m, Cardinality(Undiscovered))
          /\ selectedRoutes' = selectedRoutes \cup Cheapest({r \in graph : r[1] \in W})
          /\ IF Cardinality(Undiscovered) < m \/ Cardinality(W) = Cardinality(neighbors)
             THEN InsertNeighbors(Via(selectedRoutes'))
             ELSE UNCHANGED <<citations, neighborsDiscovered>>
    BY <1>2 DEF SearchFromRoot
  <2>2. Undiscovered \subseteq neighbors /\ neighbors \subseteq Neighbor
    BY DEF Undiscovered, NeighborsLast, TypeOK
  <2>3. IsFiniteSet(Undiscovered) /\ IsFiniteSet(neighbors)
        /\ Cardinality(Undiscovered) \in Nat
    BY <2>2, NeighborSets
  <2>4. ASSUME Cardinality(Undiscovered) < m \/ Cardinality(W) = Cardinality(neighbors)
        PROVE  W = Undiscovered
    <3>1. CASE Cardinality(Undiscovered) < m
      <4>1. Cardinality(W) = Cardinality(Undiscovered)
        BY <2>1, <2>3, <3>1 DEF Smaller
      <4> QED BY <2>3, <4>1, FS_Subset
    <3>2. CASE Cardinality(W) = Cardinality(neighbors)
      <4>1. W = neighbors
        BY <2>2, <2>3, <3>2, FS_Subset
      <4> QED BY <2>2, <4>1
    <3> QED BY <2>4, <3>1, <3>2
  <2> QED BY <2>1, <2>4, AllDiscovered
<1>3. ASSUME NEW P \in SUBSET NextPaths(subset), NEW W, NEW all, BranchTo(P, W, all)
      PROVE  \/ UNCHANGED <<citations, neighborsDiscovered>>
             \/ InsertNeighbors(Via(selectedRoutes')) /\ Via(selectedRoutes') = Via(graph)
  <2>1. CASE all
    <3>1. selectedRoutes' = selectedRoutes \cup P \cup Cheapest({r \in graph : r[1] \in Undiscovered})
          /\ InsertNeighbors(Via(selectedRoutes'))
      BY <1>3, <2>1 DEF BranchTo
    <3>2. selectedRoutes' \subseteq graph
      BY ComputeRoutesType
    <3> QED BY <3>1, <3>2, AllDiscovered DEF Via
  <2>2. CASE ~all
    BY <1>3, <2>2 DEF BranchTo
  <2> QED BY <2>1, <2>2
<1> QED BY <1>1, <1>2, <1>3, RoundOutcomes

\* A search that adds nothing had no new neighbor to start from.
LEMMA NoneUndiscovered ==
  ASSUME TypeOK, NEW m \in Nat \ {0}, SearchFromRoot(m), UNCHANGED selectedRoutes
  PROVE  Via(graph) \subseteq Via(selectedRoutes)
<1>1. PICK W \in SUBSET Undiscovered :
        /\ Cardinality(W) = Smaller(m, Cardinality(Undiscovered))
        /\ selectedRoutes' = selectedRoutes \cup Cheapest({x \in graph : x[1] \in W})
  BY DEF SearchFromRoot
<1>2. W = {}
  BY <1>1, NothingNew
<1>3. Undiscovered \subseteq Neighbor
  BY RouteShape DEF Undiscovered, Via, TypeOK
<1>4. Cardinality(Undiscovered) = 0
  BY <1>1, <1>2, <1>3, NeighborSets, FS_EmptySet DEF Smaller
<1>5. Undiscovered = {}
  BY <1>3, <1>4, NeighborSets, FS_EmptySet
<1> QED BY <1>5 DEF Undiscovered

\* A destination is declared unreachable only without a path.
LEMMA RoundDeclares ==
  ASSUME TypeOK, NEW m \in Nat \ {0}, ComputeRoutes(m), notFound'
  PROVE  notFound \/ graph = {}
<1> SUFFICES ASSUME ~notFound PROVE graph = {}
  OBVIOUS
<1>1. CASE SearchFromRoot(m)
  <2>1. selectedRoutes' = {} /\ selectedRoutes \subseteq selectedRoutes'
    BY <1>1, SearchType DEF SearchFromRoot
  <2>2. Via(graph) \subseteq Via({})
    BY <1>1, <2>1, NoneUndiscovered
  <2> QED BY <2>2 DEF Via
<1>2. \A P, W, all : ~BranchTo(P, W, all)
  BY DEF BranchTo
<1> QED BY <1>1, <1>2, RoundOutcomes DEF rtgVars

LEMMA RoundRemembers ==
  ASSUME TypeOK, NeighborsLast, FlagsStayTrue, UNCHANGED planVars,
         NEW m \in Nat \ {0}, ComputeRoutes(m)
  PROVE  NeighborsLast' /\ FlagsStayTrue'
<1>1. UNCHANGED <<graph, neighbors, outlived>>
  BY DEF planVars
<1>2. neighborsDiscovered' /\ ~outlived => Via(graph) \cap neighbors \subseteq citations'
  <2> SUFFICES ASSUME neighborsDiscovered', ~outlived
               PROVE  Via(graph) \cap neighbors \subseteq citations'
    OBVIOUS
  <2>1. CASE UNCHANGED <<citations, neighborsDiscovered>>
    BY <2>1 DEF FlagsStayTrue
  <2>2. CASE /\ InsertNeighbors(Via(selectedRoutes'))
             /\ Via(selectedRoutes') = Via(graph)
    BY <2>2 DEF InsertNeighbors, FlagsStayTrue
  <2> QED BY <2>1, <2>2, RoundCites
<1>3. notFound' => graph = {}
  BY RoundDeclares DEF FlagsStayTrue
<1> QED BY <1>1, <1>2, <1>3 DEF NeighborsLast, FlagsStayTrue

LEMMA RemembersCorrect == Spec => []Remembers
<1>1. Init => Remembers
  BY DEF Init, IsPlan, Remembers, NeighborsLast, FlagsStayTrue, MissingSome
<1>2. TypeInv /\ Remembers /\ [Next]_vars => Remembers'
  <2> SUFFICES ASSUME TypeInv, NeighborsLast, FlagsStayTrue, MissingSome, [Next]_vars
               PROVE  Remembers'
    BY DEF Remembers
  <2>1. ASSUME UNCHANGED <<planVars, rtgVars>>
        PROVE  NeighborsLast' /\ FlagsStayTrue'
    BY <2>1 DEF planVars, rtgVars, NeighborsLast, FlagsStayTrue
  <2>2. CASE PhaseOne
    <3>1. /\ pc = "phase1" /\ pc' # "phase1" /\ UNCHANGED planVars
          /\ ComputeRoutes(missing)
      BY <2>2, PhaseOneOutcomes DEF Answer
    <3>2. missing \in Nat \ {0}
      BY <3>1 DEF MissingSome, TypeInv, TypeOK
    <3> QED BY <3>1, <3>2, RoundRemembers DEF Remembers, MissingSome, TypeInv
  <2>3. CASE PhaseTwo
    <3>1. PICK freed \in SUBSET excludedNeighbors, unfit \in SUBSET (selectedRoutes \ checked) :
            \E late \in SUBSET OpenRoutes(unfit) : Checks(freed, unfit, late)
      BY <2>3, PhaseTwoOutcomes
    <3>2. PICK late \in SUBSET OpenRoutes(unfit) : Checks(freed, unfit, late)
      BY <3>1
    <3>3. ASSUME AsksForMore(unfit \cup late)
          PROVE  missing' # 0
      <4>1. TypeOK' /\ UNCHANGED <<neighbors, failed>>
        BY <2>3, <3>2, PhaseTwoType DEF TypeInv, Checks, planVars, bundleVars
      <4>2. (Via(candidates') \cap neighbors) \ failed \subseteq Neighbor
        BY DEF TypeInv, TypeOK
      <4>3. Found(candidates') \in Nat
        BY <4>2, NeighborSets DEF Found
      <4> QED BY <3>3, <4>3, CountsAreNat DEF AsksForMore, Reached, TypeInv
    <3>4. pc' = "phase1" => AsksForMore(unfit \cup late)
      BY <3>2, AnswerType DEF Checks, GivesUp, StopsChecking
    <3> QED BY <2>1, <3>2, <3>3, <3>4 DEF Checks, Remembers, MissingSome
  <2>4. CASE StartCall
    <3>1. /\ pc' # "phase1" /\ UNCHANGED planVars
          /\ UNCHANGED rtgVars \/ \E m \in Nat \ {0} : ComputeRoutes(m)
      BY <2>4, StartCallOutcomes DEF TypeInv
    <3> QED BY <2>1, <3>1, RoundRemembers DEF Remembers, MissingSome, TypeInv
  <2>5. CASE EndCall
    BY <2>1, <2>5 DEF EndCall, Remembers, MissingSome
  <2>6. CASE EditPlan
    BY <2>6 DEF EditPlan, IsPlan, Remembers, NeighborsLast, FlagsStayTrue, MissingSome
  <2>7. CASE Expire
    <3>1. /\ graph' \subseteq graph /\ neighbors' \subseteq neighbors
          /\ outlived' = (outlived \/ ~ Via(graph') \subseteq neighbors')
          /\ citations' = citations \cap neighbors'
          /\ UNCHANGED <<notFound, neighborsDiscovered, pc, missing>>
      BY <2>7 DEF Expire
    <3> QED BY <3>1 DEF Remembers, NeighborsLast, FlagsStayTrue, MissingSome, Via
  <2>8. CASE UNCHANGED vars
    BY <2>1, <2>8 DEF vars, planVars, rtgVars, Remembers, MissingSome
  <2> QED BY <2>2, <2>3, <2>4, <2>5, <2>6, <2>7, <2>8 DEF Next, CallStep
<1> QED BY <1>1, <1>2, TypeInvCorrect, PTL DEF Spec

\* The flags that outlive a call never lie, whatever expires between the calls:
\* that all neighbors are known, unless a contact has outlived its neighbor.
THEOREM FlagsCorrect == Spec => []FlagsStayTrue
<1>1. Remembers => FlagsStayTrue
  BY DEF Remembers
<1> QED BY <1>1, RemembersCorrect, PTL

----------------------------------------------------------------------------
(* The search behind an answer is complete. *)

InCall == pc \in {"phase1", "phase2"}

\* Before the first search nothing is known; a call goes on after one.  The
\* neighbors in a bundle's loops are neighbors.
CallIsBegun ==
  /\ ~computed => selectedRoutes = {} /\ ~neighborsDiscovered
  /\ InCall => computed
  /\ failed \subseteq neighbors
  /\ pc = "idle" => failed = {}

\* What phase two counts: each suppressed neighbor is excluded or in the
\* bundle's loops and served, and is one of those that may reach the
\* destination, unless these have changed and the list is made anew.
SuppressedCount ==
  InCall /\ excludedNeighbors = asked /\ ~outlived =>
    /\ stale = 0
    /\ suppressed \subseteq asked \cup (Via(candidates) \cap failed)
    /\ lastMax = MaxNeighbors => suppressed \subseteq MayReach

\* What phase two leaves to phase one: the open end of every chain of routes
\* is in the subset, or its neighbor needs no other route.
EndsAreCovered ==
  InCall /\ excludedNeighbors = asked /\ ~outlived =>
    \A s \in checked \ spursComputed :
      s[1] \in Served \/ (pc = "phase1" /\ s \in subset)

Rounds ==
  pc = "phase1" => checked = selectedRoutes /\ lastMax = MaxNeighbors

Counts == CallIsBegun /\ SuppressedCount /\ EndsAreCovered /\ Rounds

AllInv ==
  TypeInv /\ Chains /\ SubsetIsOpen /\ CandidatesNotExcluded /\ Remembers /\ Counts

\* As long as their number is the same, the neighbors that may reach the
\* destination are the same.
LEMMA RoundReach ==
  ASSUME TypeOK, NeighborsLast, ~outlived, UNCHANGED planVars,
         NEW m \in Nat \ {0}, ComputeRoutes(m), MaxNeighbors' = MaxNeighbors
  PROVE  MayReach' = MayReach
<1>1. UNCHANGED neighbors
  BY DEF planVars
<1>2. CASE UNCHANGED <<citations, neighborsDiscovered>>
  BY <1>1, <1>2 DEF MayReach
<1>3. CASE ~(UNCHANGED <<citations, neighborsDiscovered>>)
  <2> DEFINE routed == Via(selectedRoutes')
  <2>1. InsertNeighbors(routed) /\ routed \subseteq neighbors
    BY <1>3, RoundCites DEF NeighborsLast
  <2>2. citations' = routed /\ neighborsDiscovered' = TRUE
        /\ (neighborsDiscovered => Cardinality(routed) # Cardinality(citations))
    BY <1>3, <2>1 DEF InsertNeighbors
  <2>3. MaxNeighbors' = Cardinality(routed) /\ MayReach' = routed
    BY <2>2 DEF MaxNeighbors, MayReach
  <2>4. ~neighborsDiscovered /\ Cardinality(routed) = Cardinality(neighbors)
    BY <2>2, <2>3 DEF MaxNeighbors
  <2>5. routed = neighbors
    BY <2>1, <2>4, NeighborSets, FS_Subset DEF TypeOK
  <2> QED BY <2>3, <2>4, <2>5 DEF MayReach
<1> QED BY <1>2, <1>3

\* A round without a new route: every neighbor with a path has a route, and the
\* subset, if there was one, has been branched from.
LEMMA NoRouteLeft ==
  ASSUME TypeOK, FlagsStayTrue, computed,
         NEW m \in Nat \ {0}, ComputeRoutes(m), UNCHANGED selectedRoutes
  PROVE  Via(graph) \subseteq Via(selectedRoutes) /\ subset \subseteq spursComputed'
<1>1. CASE notFound
  BY <1>1 DEF FlagsStayTrue, TypeOK, Via
<1>2. CASE CanBranch /\ SearchFromRoot(m) /\ CloseSubset
  BY <1>2, NoneUndiscovered DEF CloseSubset
<1>3. CASE ~CanBranch /\ ~notFound /\ SearchFromRoot(m)
  <2>1. subset = {}
    BY <1>3 DEF CanBranch, TypeOK
  <2> QED BY <1>3, <2>1, NoneUndiscovered
<1>4. ASSUME NEW P \in SUBSET NextPaths(subset), NEW W \in SUBSET Undiscovered, NEW all,
             P = {} => all, BranchTo(P, W, all)
      PROVE  Via(graph) \subseteq Via(selectedRoutes) /\ subset \subseteq spursComputed'
  <2>1. selectedRoutes' = selectedRoutes \cup P \cup Cheapest({r \in graph : r[1] \in W})
        /\ CloseSubset /\ (all => W = Undiscovered)
    BY <1>4 DEF BranchTo
  <2>2. P \subseteq graph \ selectedRoutes
    BY DEF NextPaths, Cheapest
  <2>3. P = {}
    BY <2>1, <2>2
  <2>4. W = {}
    BY <2>1, NothingNew
  <2>5. Undiscovered = {}
    BY <1>4, <2>1, <2>3, <2>4
  <2> QED BY <2>1, <2>5 DEF Undiscovered, CloseSubset
<1> QED BY <1>1, <1>2, <1>3, <1>4, RoundOutcomes

\* The first search leaves a mark, and a later one that finds something has
\* branched from the subset.
LEMMA RoundMarks ==
  ASSUME TypeOK, NEW m, ComputeRoutes(m)
  PROVE  /\ ~computed' => UNCHANGED rtgVars
         /\ computed => computed'
         /\ computed /\ selectedRoutes' # selectedRoutes => subset \subseteq spursComputed'
<1>1. CASE UNCHANGED rtgVars
  BY <1>1 DEF rtgVars
<1>2. CASE CanBranch /\ SearchFromRoot(m) /\ CloseSubset
  BY <1>2 DEF SearchFromRoot, CloseSubset, CanBranch
<1>3. CASE ~CanBranch /\ ~notFound /\ SearchFromRoot(m)
  BY <1>3 DEF SearchFromRoot, CanBranch, TypeOK
<1>4. ASSUME NEW P, NEW W, NEW all, CanBranch, BranchTo(P, W, all)
      PROVE  computed /\ computed' /\ subset \subseteq spursComputed'
  BY <1>4 DEF BranchTo, CloseSubset, CanBranch
<1> QED BY <1>1, <1>2, <1>3, <1>4, RoundOutcomes

----------------------------------------------------------------------------
(* Phase two's count. *)

LEMMA CountedAll ==
  ASSUME NEW M, M \subseteq Neighbor, NEW A \in SUBSET M, NEW S \in SUBSET M,
         A \cap S = {}, Cardinality(M) <= Cardinality(A) + Cardinality(S)
  PROVE  M = A \cup S
<1>1. /\ IsFiniteSet(M) /\ IsFiniteSet(A) /\ IsFiniteSet(S) /\ IsFiniteSet(A \cup S)
      /\ Cardinality(M) \in Nat /\ Cardinality(A) \in Nat /\ Cardinality(S) \in Nat
      /\ Cardinality(A \cup S) \in Nat
  BY NeighborSets
<1>2. Cardinality(A \cup S) = Cardinality(A) + Cardinality(S)
  <2>1. Cardinality(A \cap S) = 0
    BY FS_EmptySet
  <2>2. Cardinality(A \cup S) = Cardinality(A) + Cardinality(S) - Cardinality(A \cap S)
    BY <1>1, FS_Union
  <2> QED BY <1>1, <2>1, <2>2
<1>3. Cardinality(A \cup S) <= Cardinality(M)
  BY <1>1, FS_Subset
<1>4. Cardinality(A \cup S) = Cardinality(M)
  BY <1>1, <1>2, <1>3
<1> QED BY <1>1, <1>4, FS_Subset

LEMMA RoutedMayReach ==
  ASSUME FlagsStayTrue, ~outlived, NEW R, R \subseteq graph
  PROVE  Via(R) \cap neighbors \subseteq MayReach
BY DEF FlagsStayTrue, MayReach, Via

LEMMA CheckCounts ==
  ASSUME AllInv, NEW freed \in SUBSET excludedNeighbors,
         NEW unfit \in SUBSET (selectedRoutes \ checked), NEW late \in SUBSET OpenRoutes(unfit),
         Checks(freed, unfit, late), candidates' = candidates \cup (OpenRoutes(unfit) \ late),
         excludedNeighbors' = asked, ~outlived
  PROVE  /\ excludedNeighbors = asked /\ stale' = 0 /\ lastMax' = MaxNeighbors
         /\ suppressed' \subseteq asked \cup (Via(candidates') \cap failed)
         /\ suppressed' \subseteq MayReach
<1>0. /\ TypeOK /\ FlagsStayTrue /\ SuppressedCount
      /\ failed \subseteq neighbors /\ selectedRoutes \subseteq graph
      /\ candidates \subseteq graph /\ excludedNeighbors \subseteq asked
  BY DEF AllInv, TypeInv, TypeOK, Counts, Remembers, CallIsBegun
<1>1. SuppressExcluded(freed) /\ lastMax' = MaxNeighbors /\ pc = "phase2"
      /\ excludedNeighbors' \in {excludedNeighbors, excludedNeighbors \ suppressed}
  BY <1>0, SuppressExcludedType DEF Checks
<1>2. excludedNeighbors = asked
  BY <1>0, <1>1
<1>3. /\ stale = 0
      /\ suppressed \subseteq asked \cup (Via(candidates) \cap failed)
      /\ lastMax = MaxNeighbors => suppressed \subseteq MayReach
  BY <1>0, <1>1, <1>2 DEF SuppressedCount, InCall
<1>4. MaxNeighbors # lastMax => asked \cap suppressed = {}
  BY <1>1, <1>2 DEF SuppressExcluded
<1>5. freed = {} /\ stale' = 0
  BY <1>1, <1>2, <1>3, <1>4, FS_EmptySet DEF SuppressExcluded
<1>6. Via(candidates) \cap failed \subseteq MayReach
  BY <1>0, RoutedMayReach
<1>7. Suppressed(freed) \subseteq MayReach
      /\ Suppressed(freed) \subseteq asked \cup (Via(candidates) \cap failed)
  BY <1>3, <1>4, <1>5, <1>6 DEF Suppressed
<1> DEFINE viable == OpenRoutes(unfit) \ late
<1>8. NewlySuppressed(viable) \subseteq Via(viable) \cap failed
  BY DEF NewlySuppressed
<1>9. Via(viable) \cap failed \subseteq MayReach
  <2>1. viable \subseteq graph
    BY <1>0 DEF OpenRoutes
  <2> QED BY <1>0, <2>1, RoutedMayReach
<1>10. Via(candidates) \cup Via(viable) = Via(candidates')
  BY DEF Via
<1>11. suppressed' = Suppressed(freed) \cup NewlySuppressed(viable)
  BY DEF Checks
<1> HIDE DEF viable
<1>12. suppressed' \subseteq asked \cup (Via(candidates') \cap failed)
  BY <1>7, <1>8, <1>10, <1>11
<1>13. suppressed' \subseteq MayReach
  BY <1>7, <1>8, <1>9, <1>11
<1> QED BY <1>1, <1>2, <1>5, <1>12, <1>13

\* Stopping at the count is stopping at the configured number of neighbors, or
\* with every neighbor that may reach the destination served.
LEMMA StopIsComplete ==
  ASSUME AllInv, TypeInv', CandidatesNotExcluded', NEW freed \in SUBSET excludedNeighbors,
         NEW unfit \in SUBSET (selectedRoutes \ checked), NEW late \in SUBSET OpenRoutes(unfit),
         Checks(freed, unfit, late), candidates' = candidates \cup (OpenRoutes(unfit) \ late),
         StopsChecking
  PROVE  SearchComplete'
<1> SUFFICES ASSUME excludedNeighbors' = asked', ~outlived' PROVE SearchComplete'
  BY DEF SearchComplete
<1>1. UNCHANGED <<graph, neighbors, outlived, selectedRoutes, neighborsDiscovered, citations,
                  critical, failed, asked>>
  BY DEF Checks, planVars, rtgVars, bundleVars
<1>2. /\ TypeOK /\ FlagsStayTrue /\ candidates' \subseteq graph /\ neighbors \subseteq Neighbor
      /\ citations \subseteq Neighbor
  BY <1>1 DEF AllInv, TypeInv, TypeOK, Remembers
<1>3. /\ stale' = 0 /\ suppressed' \subseteq MayReach
      /\ suppressed' \subseteq asked \cup (Via(candidates') \cap failed)
  BY <1>1, CheckCounts
<1> DEFINE A == (Via(candidates') \cap neighbors) \ failed
<1>4. A \subseteq MayReach /\ MayReach \subseteq Neighbor
  BY <1>1, <1>2, RoutedMayReach DEF MayReach
<1>5. A \cap suppressed' = {}
  BY <1>1, <1>3 DEF CandidatesNotExcluded
<1>6. MaxNeighbors = Cardinality(MayReach) /\ Found(candidates') = Cardinality(A)
  BY <1>1 DEF MaxNeighbors, MayReach, Found
<1>7. Cardinality(A) \in Nat /\ Cardinality(suppressed') \in Nat /\ Cardinality(MayReach) \in Nat
  BY <1>3, <1>4, NeighborSets
<1>8. \/ Cardinality(A) >= Limit(Cardinality(MayReach))
      \/ Cardinality(MayReach) <= Cardinality(A) + Cardinality(suppressed') + 0
  BY <1>3, <1>6 DEF StopsChecking, Reached
<1>9. \/ MaxDijkstraRoutes > 0 /\ ~critical /\ Cardinality(A) >= MaxDijkstraRoutes
      \/ Cardinality(MayReach) <= Cardinality(A) + Cardinality(suppressed')
  BY <1>7, <1>8, CgrCallAssumption DEF Limit, Smaller
<1>10. CASE MaxDijkstraRoutes > 0 /\ ~critical /\ Cardinality(A) >= MaxDijkstraRoutes
  <2>1. Found(candidates)' = Cardinality(A)
    BY <1>1 DEF Found
  <2> QED BY <1>1, <1>10, <2>1 DEF SearchComplete
<1>11. CASE Cardinality(MayReach) <= Cardinality(A) + Cardinality(suppressed')
  <2>1. MayReach = A \cup suppressed'
    BY <1>3, <1>4, <1>5, <1>11, CountedAll
  <2>2. Via(graph) \cap neighbors \subseteq MayReach
    BY <1>1, <1>2, RoutedMayReach
  <2>3. MayReach \subseteq Via(candidates') \cup asked
    BY <1>3, <2>1
  <2>4. Served' = Via(candidates') \cup asked
    BY <1>1 DEF Served, Via
  <2> QED BY <1>1, <2>2, <2>3, <2>4 DEF SearchComplete, Via
<1> QED BY <1>9, <1>10, <1>11

LEMMA CheckCoversEnds ==
  ASSUME AllInv, NEW freed \in SUBSET excludedNeighbors,
         NEW unfit \in SUBSET (selectedRoutes \ checked), NEW late \in SUBSET OpenRoutes(unfit),
         Checks(freed, unfit, late), candidates' = candidates \cup (OpenRoutes(unfit) \ late),
         AsksForMore(unfit \cup late)
  PROVE  EndsAreCovered'
<1>1. /\ checked' = selectedRoutes /\ spursComputed' = spursComputed
      /\ asked' = asked /\ outlived' = outlived
      /\ pc = "phase2" /\ pc' = "phase1"
      /\ subset' = {r \in (unfit \cup late) \ spursComputed : r[1] \notin Via(candidates')}
  BY DEF Checks, AsksForMore, planVars, rtgVars, bundleVars
<1> SUFFICES ASSUME excludedNeighbors' = asked, ~outlived, NEW s \in selectedRoutes \ spursComputed
             PROVE  s[1] \in Via(candidates') \cup asked \/ s \in subset'
  BY <1>1 DEF EndsAreCovered, Served, Via
<1>2. CASE s \in checked
  <2>1. excludedNeighbors = asked
    BY CheckCounts
  <2>2. s[1] \in Via(candidates) \cup asked
    BY <1>1, <1>2, <2>1 DEF AllInv, Counts, EndsAreCovered, InCall, Served
  <2> QED BY <2>2 DEF Via
<1>3. CASE s \notin checked
  <2>1. CASE s \in unfit \cup late
    BY <1>1, <2>1
  <2>2. CASE s \notin unfit \cup late /\ s[1] \notin asked
    <3>1. s \in candidates'
      BY <1>3, <2>2 DEF OpenRoutes, Excluded
    <3> QED BY <3>1 DEF Via
  <2> QED BY <2>1, <2>2
<1> QED BY <1>2, <1>3

LEMMA PhaseTwoIsComplete ==
  ASSUME AllInv, TypeInv', CandidatesNotExcluded', PhaseTwo
  PROVE  Counts' /\ SearchComplete'
<1>1. PICK freed \in SUBSET excludedNeighbors, unfit \in SUBSET (selectedRoutes \ checked) :
        \E late \in SUBSET OpenRoutes(unfit) : Checks(freed, unfit, late)
  BY PhaseTwoOutcomes
<1>2. PICK late \in SUBSET OpenRoutes(unfit) : Checks(freed, unfit, late)
  BY <1>1
<1>3. /\ UNCHANGED <<neighbors, outlived, selectedRoutes, computed, neighborsDiscovered, citations,
                     failed, asked>>
      /\ pc = "phase2" /\ checked' = selectedRoutes
      /\ CallIsBegun /\ TypeOK
  BY <1>2 DEF Checks, planVars, rtgVars, bundleVars, AllInv, Counts, TypeInv
<1>4. pc' # "idle"
  BY <1>2, AnswerType DEF Checks, GivesUp, StopsChecking, AsksForMore
<1>5. CallIsBegun'
  BY <1>3, <1>4 DEF CallIsBegun, InCall
<1>6. CASE GivesUp(unfit \cup OpenRoutes(unfit), Suppressed(freed))
  BY <1>5, <1>6 DEF GivesUp, Counts, SuppressedCount, EndsAreCovered, Rounds, InCall, SearchComplete
<1>7. CASE /\ candidates' = candidates \cup (OpenRoutes(unfit) \ late)
           /\ StopsChecking
  <2>1. pc' = "answered"
    BY <1>7, AnswerType DEF StopsChecking
  <2>2. SearchComplete'
    BY <1>2, <1>7, StopIsComplete
  <2> QED BY <1>5, <2>1, <2>2 DEF Counts, SuppressedCount, EndsAreCovered, Rounds, InCall
<1>8. CASE /\ candidates' = candidates \cup (OpenRoutes(unfit) \ late)
           /\ AsksForMore(unfit \cup late)
  <2>1. pc' = "phase1"
    BY <1>8 DEF AsksForMore
  <2>2. EndsAreCovered'
    BY <1>2, <1>8, CheckCoversEnds
  <2>3. lastMax' = MaxNeighbors
    BY <1>2, <1>3, SuppressExcludedType DEF Checks
  <2>4. MaxNeighbors' = MaxNeighbors /\ MayReach' = MayReach /\ Via(candidates)' = Via(candidates')
    BY <1>3 DEF MaxNeighbors, MayReach, Via
  <2>5. Rounds'
    BY <1>3, <2>3, <2>4 DEF Rounds
  <2>6. SuppressedCount'
    <3> SUFFICES ASSUME excludedNeighbors' = asked', ~outlived' PROVE SuppressedCount'
      BY DEF SuppressedCount
    <3>1. /\ stale' = 0 /\ suppressed' \subseteq MayReach
          /\ suppressed' \subseteq asked \cup (Via(candidates') \cap failed)
      BY <1>2, <1>3, <1>8, CheckCounts
    <3> QED BY <1>3, <2>4, <3>1 DEF SuppressedCount
  <2>7. SearchComplete'
    BY <2>1 DEF SearchComplete
  <2> QED BY <1>5, <2>2, <2>5, <2>6, <2>7 DEF Counts
<1> QED BY <1>2, <1>6, <1>7, <1>8 DEF Checks

LEMMA PhaseOneIsComplete ==
  ASSUME AllInv, PhaseOne
  PROVE  Counts' /\ SearchComplete'
<1>1. /\ TypeOK /\ NeighborsLast /\ FlagsStayTrue /\ Chains
      /\ CallIsBegun /\ SuppressedCount /\ EndsAreCovered /\ Rounds
  BY DEF AllInv, TypeInv, Remembers, Counts
<1>2. /\ pc = "phase1" /\ ComputeRoutes(missing) /\ computed
      /\ UNCHANGED <<planVars, bundleVars, phase2Vars, missing, error>>
  BY <1>1, PhaseOneOutcomes DEF CallIsBegun, InCall
<1>3. missing \in Nat \ {0}
  BY <1>2 DEF AllInv, TypeInv, TypeOK, Remembers, MissingSome
<1>4. computed' /\ pc' # "idle"
  BY <1>1, <1>2, <1>3, RoundMarks, PhaseOneOutcomes, AnswerType
<1>5. CallIsBegun'
  BY <1>1, <1>2, <1>4 DEF CallIsBegun, planVars, bundleVars
<1>6. CASE selectedRoutes' # selectedRoutes /\ pc' = "phase2"
  <2>1. subset \subseteq spursComputed' /\ spursComputed \subseteq spursComputed'
    BY <1>1, <1>2, <1>3, <1>6, RoundMarks, ComputeRoutesType DEF CloseSubset
  <2>2. Served' = Served
    BY <1>2 DEF Served, Via, phase2Vars, bundleVars
  <2>3. EndsAreCovered'
    BY <1>1, <1>2, <2>1, <2>2 DEF EndsAreCovered, InCall, planVars, phase2Vars, bundleVars
  <2>4. SuppressedCount'
    <3>1. ~outlived /\ lastMax' = MaxNeighbors' => MayReach' = MayReach
      BY <1>1, <1>2, <1>3, RoundReach DEF Rounds, phase2Vars
    <3> QED BY <1>1, <1>2, <3>1 DEF SuppressedCount, InCall, Rounds, planVars, phase2Vars, bundleVars, Via
  <2> QED BY <1>5, <1>6, <2>3, <2>4 DEF Counts, Rounds, SearchComplete
<1>7. CASE pc' = "answered" /\ (UNCHANGED selectedRoutes \/ BranchTo({}, Undiscovered, TRUE))
  <2>1. Via(graph) \subseteq Via(selectedRoutes') /\ subset \subseteq spursComputed'
    <3>1. CASE UNCHANGED selectedRoutes
      BY <1>1, <1>2, <1>3, <3>1, NoRouteLeft
    <3>2. CASE BranchTo({}, Undiscovered, TRUE)
      <4>1. selectedRoutes' = selectedRoutes \cup Cheapest({r \in graph : r[1] \in Undiscovered})
            /\ CloseSubset
        BY <3>2 DEF BranchTo
      <4> QED BY <1>1, <4>1, AllDiscovered DEF CloseSubset
    <3> QED BY <1>7, <3>1, <3>2
  <2>2. spursComputed \subseteq spursComputed'
    BY <1>1, <1>2, ComputeRoutesType DEF CloseSubset
  <2>3. ASSUME excludedNeighbors = asked, ~outlived, NEW r \in checked, r[1] \notin Served
        PROVE  r \in spursComputed'
    BY <1>1, <1>2, <2>1, <2>2, <2>3 DEF EndsAreCovered, InCall
  <2>4. /\ UNCHANGED <<excludedNeighbors, asked, outlived, graph, neighbors, checked, candidates>>
        /\ Served' = Served
    BY <1>2 DEF Served, Via, phase2Vars, bundleVars, planVars
  <2>5. SearchComplete'
    BY <2>1, <2>3, <2>4 DEF SearchComplete, Via
  <2> QED BY <1>5, <1>7, <2>5 DEF Counts, SuppressedCount, EndsAreCovered, Rounds, InCall
<1> QED BY <1>2, <1>6, <1>7, PhaseOneOutcomes, AnswerType

LEMMA StartIsComplete ==
  ASSUME AllInv, FlagsStayTrue', StartCall
  PROVE  Counts' /\ SearchComplete'
<1>1. TypeOK /\ CallsAreSeparate /\ FlagsStayTrue /\ CallIsBegun
  BY DEF AllInv, TypeInv, Remembers, Counts
<1>2. /\ pc = "idle" /\ excludedNeighbors' = asked' /\ failed' \subseteq neighbors
      /\ UNCHANGED <<planVars, suppressed, stale, lastMax, missing, checked, candidates,
                     subset, answerVars>>
      /\ pc' \in {"answered", "phase2"}
  BY <1>1, StartCallOutcomes
<1>3. suppressed = {} /\ stale = 0 /\ checked = {}
  BY <1>1, <1>2 DEF CallsAreSeparate
<1>4. \/ UNCHANGED rtgVars /\ (computed \/ MaxNeighbors = 0)
      \/ ~computed /\ \E m \in Nat \ {0} : ComputeRoutes(m)
  BY <1>1, StartCallOutcomes
<1>5. (~computed' => UNCHANGED rtgVars) /\ (computed => computed')
  BY <1>1, <1>4, RoundMarks DEF rtgVars
<1>6. CallIsBegun'
  <2>1. pc' = "phase2" => computed'
    <3>1. pc' = "phase2" => computed \/ selectedRoutes' # selectedRoutes
      BY <1>1, StartCallOutcomes
    <3> QED BY <1>5, <3>1 DEF rtgVars
  <2> QED BY <1>1, <1>2, <1>5, <2>1 DEF CallIsBegun, InCall, planVars, rtgVars
<1>7. SuppressedCount' /\ EndsAreCovered' /\ Rounds'
  BY <1>2, <1>3 DEF SuppressedCount, EndsAreCovered, Rounds
<1>8. ASSUME pc' = "answered", ~outlived, NEW r \in graph, r[1] \in neighbors
      PROVE  FALSE
  <2>1. r[1] \in Via(graph) /\ neighbors # {}
    BY <1>8 DEF Via
  <2>2. ~(neighborsDiscovered' /\ citations' = {})
    BY <1>2, <1>8, <2>1 DEF FlagsStayTrue, planVars
  <2>3. ~computed /\ UNCHANGED selectedRoutes
    BY <1>1, <1>8, <2>1, <2>2, StartCallOutcomes
  <2>4. selectedRoutes = {} /\ ~neighborsDiscovered
    BY <1>1, <2>3 DEF CallIsBegun
  <2>5. MaxNeighbors # 0
    BY <1>1, <2>1, <2>4, NeighborSets, FS_EmptySet DEF MaxNeighbors, TypeOK
  <2>6. PICK m \in Nat \ {0} : ComputeRoutes(m)
    BY <1>4, <2>3, <2>5
  <2>7. SearchFromRoot(m)
    BY <1>1, <1>8, <2>4, <2>6 DEF ComputeRoutes, CanBranch, OneRoutePerNeighbor, FlagsStayTrue
  <2>8. Via(graph) \subseteq Via(selectedRoutes)
    BY <1>1, <2>3, <2>7, NoneUndiscovered
  <2> QED BY <2>1, <2>4, <2>8 DEF Via
<1>9. SearchComplete'
  BY <1>2, <1>8 DEF SearchComplete, planVars, Via
<1> QED BY <1>6, <1>7, <1>9 DEF Counts

\* An answer that is no error, with the caller's list left alone and no contact
\* that has outlived its neighbor, rests on a complete search, whatever was
\* computed, suppressed and expired before.
THEOREM SearchIsComplete == Spec => []SearchComplete
<1> DEFINE Inv == TypeInv /\ (Chains /\ SubsetIsOpen) /\ CandidatesNotExcluded /\ Remembers
<1>1. Init => Counts /\ SearchComplete
  BY DEF Init, Counts, CallIsBegun, SuppressedCount, EndsAreCovered, Rounds, InCall, SearchComplete
<1>2. Inv /\ Inv' /\ Counts /\ SearchComplete /\ [Next]_vars => Counts' /\ SearchComplete'
  <2> SUFFICES ASSUME Inv, Inv', Counts, SearchComplete, [Next]_vars
               PROVE  Counts' /\ SearchComplete'
    OBVIOUS
  <2>1. AllInv /\ TypeInv' /\ CandidatesNotExcluded' /\ FlagsStayTrue'
    BY DEF AllInv, Remembers
  <2>2. CASE PhaseOne
    BY <2>1, <2>2, PhaseOneIsComplete
  <2>3. CASE PhaseTwo
    BY <2>1, <2>3, PhaseTwoIsComplete
  <2>4. CASE StartCall
    BY <2>1, <2>4, StartIsComplete
  <2>5. CASE EndCall
    <3>1. pc' = "idle" /\ failed' = {}
          /\ UNCHANGED <<computed, selectedRoutes, neighborsDiscovered, neighbors>>
      BY <2>5 DEF EndCall, planVars, rtgVars
    <3> QED BY <3>1 DEF Counts, CallIsBegun, SuppressedCount, EndsAreCovered, Rounds, InCall,
                        SearchComplete
  <2>6. CASE EditPlan \/ Expire
    <3>1. pc' = "idle" /\ failed' = {} /\ (~computed' => selectedRoutes' = {} /\ ~neighborsDiscovered')
      BY <2>6 DEF EditPlan, Expire, Kept, Counts, CallIsBegun, bundleVars
    <3> QED BY <3>1 DEF Counts, CallIsBegun, SuppressedCount, EndsAreCovered, Rounds, InCall,
                        SearchComplete
  <2>7. CASE UNCHANGED vars
    BY <2>7 DEF vars, Counts, CallIsBegun, SuppressedCount, EndsAreCovered, Rounds, InCall,
                SearchComplete, MaxNeighbors, MayReach, Served, Via, Found
  <2> QED BY <2>2, <2>3, <2>4, <2>5, <2>6, <2>7 DEF Next, CallStep
<1> HIDE DEF Inv
<1>3. Spec => []Inv
  BY TypeInvCorrect, ChainsInv, NotExcludedCorrect, RemembersCorrect, PTL DEF Inv
<1> QED BY <1>1, <1>2, <1>3, PTL DEF Spec
=============================================================================
