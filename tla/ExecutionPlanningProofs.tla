---------------------- MODULE ExecutionPlanningProofs ----------------------
(***************************************************************************)
(* Proofs about ExecutionPlanning, for every number of groups and every    *)
(* catalogue of configurations.                                            *)
(***************************************************************************)
EXTENDS ExecutionPlanning, TLAPS, WellFoundedInduction

\* A set of naturals has a least element.
LEMMA LeastExists ==
    ASSUME NEW S \in SUBSET Nat, S # {}
    PROVE  \E n \in S : \A m \in S : n <= m
<1> DEFINE R == OpToRel(<, Nat)
<1>1. \E x \in S : \A y \in S : ~(<<y, x>> \in R)
  BY NatLessThanWellFounded, WFMin
<1>2. \A x, y \in Nat : y < x => <<y, x>> \in R
  BY DEF OpToRel
<1>3. PICK x \in S : \A y \in S : ~(<<y, x>> \in R)
  BY <1>1
<1> HIDE DEF R
<1>4. \A y \in S : ~(y < x) /\ y \in Nat /\ x \in Nat
  BY <1>2, <1>3
<1>5. \A y \in S : x <= y
  BY <1>4
<1> QED BY <1>5

---------------------------------------------------------------------------
(* Discovery *)

\* Two workers conflict when they are two and share a device.
LEMMA ConflictMeaning ==
    \A R, v, w : <<v, w>> \in conflicts(R) <=>
        /\ v \in discover_workers(R) /\ w \in discover_workers(R) /\ v # w
        /\ \E n : n \in shared_dependencies(R, v) /\ n \in shared_dependencies(R, w)
<1> TAKE R, v, w
<1> DEFINE W == discover_workers(R)
           D(x) == shared_dependencies(R, x)
<1>1. <<v, w>> \in conflicts(R) <=>
        <<v, w>> \in {p \in W \X W : p[1] # p[2] /\ D(p[1]) \cap D(p[2]) # {}}
  BY DEF conflicts
<1> HIDE DEF W, D
<1>2. <<v, w>> \in {p \in W \X W : p[1] # p[2] /\ D(p[1]) \cap D(p[2]) # {}} <=>
        v \in W /\ w \in W /\ v # w /\ \E n : n \in D(v) /\ n \in D(w)
  OBVIOUS
<1> QED BY <1>1, <1>2 DEF W, D

\* So conflicts are mutual, and nobody conflicts with itself.
LEMMA ConflictSymmetry ==
    \A R, v, w : /\ <<v, w>> \in conflicts(R) => <<w, v>> \in conflicts(R)
                 /\ <<v, v>> \notin conflicts(R)
BY ConflictMeaning

\* A worker is the SMU of one of its groups.
LEMMA WorkerMeaning ==
    ASSUME cfg \in [Groups -> Catalogue]
    PROVE  \A w : w \in discover_workers(Groups) <=> w \in SMUs /\ WorkerGroups(Groups, w) # {}
<1> TAKE w
<1>1. ASSUME w \in discover_workers(Groups) PROVE w \in SMUs /\ WorkerGroups(Groups, w) # {}
  <2>1. PICK g \in Groups : cfg[g].enabled /\ cfg[g].smu # None /\ w = cfg[g].smu
    BY <1>1 DEF discover_workers, Runnable
  <2>2. g \in WorkerGroups(Groups, w)
    BY <2>1 DEF WorkerGroups, Runnable
  <2> QED BY <2>1, <2>2 DEF SMUs
<1>2. ASSUME WorkerGroups(Groups, w) # {} PROVE w \in discover_workers(Groups)
  BY <1>2 DEF discover_workers, WorkerGroups
<1> QED BY <1>1, <1>2

\* The loop over the included workers has a first one.
LEMMA FirstExists ==
    ASSUME cfg \in [Groups -> Catalogue], todo \subseteq discover_workers(Groups), todo # {}
    PROVE  \E w \in todo : \A v \in todo : First(w) <= First(v)
<1>1. Groups \subseteq Nat
  BY PlanningAssumption DEF Groups
<1>2. ASSUME NEW w \in todo PROVE First(w) \in Nat
  <2>1. WorkerGroups(Groups, w) \in SUBSET Nat /\ WorkerGroups(Groups, w) # {}
    <3>1. WorkerGroups(Groups, w) \subseteq Groups
      BY DEF WorkerGroups, Runnable
    <3> QED BY <1>1, <3>1, WorkerMeaning
  <2>2. \E g \in WorkerGroups(Groups, w) : \A h \in WorkerGroups(Groups, w) : g <= h
    BY <2>1, LeastExists
  <2>3. First(w) \in WorkerGroups(Groups, w)
    BY <2>2 DEF First
  <2> QED BY <2>1, <2>3
<1> DEFINE Firsts == {First(w) : w \in todo}
<1>3. Firsts \in SUBSET Nat /\ Firsts # {}
  BY <1>2
<1>4. PICK n \in Firsts : \A m \in Firsts : n <= m
  <2> HIDE DEF Firsts
  <2> QED BY <1>3, LeastExists
<1> QED BY <1>4

\* What is derived from a configuration stays while the configuration does.
LEMMA ConfigFrame ==
    ASSUME cfg' = cfg
    PROVE  /\ \A R : conflicts(R)' = conflicts(R) /\ discover_workers(R)' = discover_workers(R)
           /\ \A R, w : shared_dependencies(R, w)' = shared_dependencies(R, w)
           /\ \A R : check_ownership(R)' = check_ownership(R)
BY DEF conflicts, discover_workers, Runnable, shared_dependencies, WorkerGroups, Keys,
   check_ownership, SenseOf

---------------------------------------------------------------------------
(* Types *)

\* TypeOK holds initially and every step keeps it.
LEMMA TypeStep ==
    /\ Init => TypeOK
    /\ TypeOK /\ [Next]_vars => TypeOK'
<1>1. ASSUME Init PROVE TypeOK
  <2>1. depends \in [SMUs -> SUBSET SMUs] /\ batches \in Seq(SUBSET SMUs)
    BY <1>1 DEF Init
  <2>2. refused \in BOOLEAN
    BY <1>1, Zenon DEF Init
  <2> QED BY <1>1, <2>1, <2>2 DEF Init, TypeOK
<1>2. ASSUME TypeOK, [Next]_vars PROVE TypeOK'
  <2> USE <1>2 DEF TypeOK
  <2>0. cfg' = cfg /\ requested' = requested
    BY DEF Next, Validate, BeginPlan, PlaceWorker, MakeSteps, StartWorker, FinishWorker, vars
  <2>c. discover_workers(Groups)' = discover_workers(Groups)
    BY <2>0, ConfigFrame
  <2>w. discover_workers(Groups) \subseteq SMUs
    BY WorkerMeaning
  <2>1. CASE Validate
    BY <2>0, <2>c, <2>1 DEF Validate
  <2>2. CASE BeginPlan
    BY <2>0, <2>c, <2>2 DEF BeginPlan
  <2>3. CASE PlaceWorker
    <3> DEFINE w == CHOOSE w \in todo : \A v \in todo : First(w) <= First(v)
               fits == {k \in DOMAIN batches : ~conflicts_with(w, batches[k])}
    <3>1. todo # {} /\ todo' = todo \ {w}
          /\ \/ batches' = Append(batches, {w})
             \/ \E k \in fits : batches' = [batches EXCEPT ![k] = @ \cup {w}]
      BY <2>3 DEF PlaceWorker
    <3>2. w \in todo
      BY <3>1, FirstExists
    <3>3. w \in SMUs
      BY <2>w, <3>2
    <3> HIDE DEF w
    <3>4. batches' \in Seq(SUBSET SMUs)
      <4>1. CASE batches' = Append(batches, {w})
        BY <3>3, <4>1
      <4>2. ASSUME NEW k \in DOMAIN batches, batches' = [batches EXCEPT ![k] = @ \cup {w}]
            PROVE  batches' \in Seq(SUBSET SMUs)
        <5>1. batches[k] \cup {w} \in SUBSET SMUs
          BY <3>3
        <5> QED BY <4>2, <5>1
      <4> QED BY <3>1, <4>1, <4>2
    <3> QED BY <2>0, <2>c, <2>3, <3>1, <3>4 DEF PlaceWorker
  <2>4. CASE MakeSteps
    <3>1. scheduled_before(next) \subseteq SMUs
      BY <2>4 DEF MakeSteps, scheduled_before
    <3>2. depends' \in [SMUs -> SUBSET SMUs]
      BY <2>4, <3>1 DEF MakeSteps
    <3> QED BY <2>0, <2>c, <2>4, <3>2 DEF MakeSteps
  <2>5. ASSUME NEW w \in SMUs, StartWorker(w) PROVE TypeOK'
    <3>1. refused' \in BOOLEAN
      BY <2>5, Zenon DEF StartWorker
    <3> QED BY <2>0, <2>c, <2>5, <3>1 DEF StartWorker
  <2>6. ASSUME NEW w \in SMUs, FinishWorker(w) PROVE TypeOK'
    BY <2>0, <2>c, <2>6 DEF FinishWorker
  <2>7. CASE UNCHANGED vars
    BY <2>c, <2>7 DEF vars
  <2> QED BY <2>1, <2>2, <2>3, <2>4, <2>5, <2>6, <2>7 DEF Next
<1> QED BY <1>1, <1>2

\* The planner places workers that exist; only workers of the plan run.
THEOREM TypeCorrect == Spec => []TypeOK
BY TypeStep, PTL DEF Spec

---------------------------------------------------------------------------
(* The gate *)

\* The names of a group's devices, as the topology and as the property lists them.
LEMMA KeyNames ==
    \A g, n : (\E k \in Keys(g) : n = k[2]) <=>
        n # None /\ n \in {cfg[g].relay_matrix, cfg[g].dmm, cfg[g].daq, cfg[g].ntc_daq}
<1> TAKE g, n
<1>1. \A a, b : <<a, b>>[2] = b
  OBVIOUS
<1>2. \A k : k \in Keys(g) <=> k[2] # None /\
        \/ k = <<"relay_matrix_name", cfg[g].relay_matrix>>
        \/ k = <<"dmm_name", cfg[g].dmm>>
        \/ k = <<"daq_name", cfg[g].daq>>
        \/ k = <<"ntc_daq_name", IF cfg[g].ntc_daq = None THEN cfg[g].daq ELSE cfg[g].ntc_daq>>
  BY DEF Keys
<1>3. ASSUME NEW k \in Keys(g), n = k[2]
      PROVE  n # None /\ n \in {cfg[g].relay_matrix, cfg[g].dmm, cfg[g].daq, cfg[g].ntc_daq}
  BY <1>1, <1>2, <1>3
<1>4. ASSUME n # None, n \in {cfg[g].relay_matrix, cfg[g].dmm, cfg[g].daq, cfg[g].ntc_daq}
      PROVE  \E k \in Keys(g) : n = k[2]
  <2>1. CASE n = cfg[g].relay_matrix
    <3>1. <<"relay_matrix_name", n>> \in Keys(g)
      BY <1>2, <1>4, <2>1
    <3> QED BY <3>1
  <2>2. CASE n = cfg[g].dmm
    <3>1. <<"dmm_name", n>> \in Keys(g)
      BY <1>2, <1>4, <2>2
    <3> QED BY <3>1
  <2>3. CASE n = cfg[g].daq
    <3>1. <<"daq_name", n>> \in Keys(g)
      BY <1>2, <1>4, <2>3
    <3> QED BY <3>1
  <2>4. CASE n = cfg[g].ntc_daq
    <3>1. <<"ntc_daq_name", n>> \in Keys(g)
      BY <1>2, <1>4, <2>4
    <3> QED BY <3>1
  <2> QED BY <1>4, <2>1, <2>2, <2>3, <2>4
<1> QED BY <1>3, <1>4

\* Two groups that would run at once and share a device which topology.py lists
\* for both, or the matrix of their sense lines.
Clash(g, h) ==
    /\ AtOnce(g, h)
    /\ \/ Named(g) \cap Named(h) # {}
       \/ cfg[g].sense # None /\ cfg[g].sense = cfg[h].sense

\* The graph has a conflict, or two workers a sense matrix in common, exactly
\* when two of the groups clash.
LEMMA OwnershipMeaning ==
    ASSUME NEW R
    PROVE  check_ownership(R) # {} <=> \E g, h \in R : Clash(g, h)
<1> DEFINE Names(g) == {cfg[g].relay_matrix, cfg[g].dmm, cfg[g].daq, cfg[g].ntc_daq} \ {None}
<1>d. \A w, n : n \in shared_dependencies(R, w) <=> \E g \in WorkerGroups(R, w) : n \in Names(g)
  <2> TAKE w, n
  <2>1. n \in shared_dependencies(R, w) <=> \E g \in WorkerGroups(R, w) : \E k \in Keys(g) : n = k[2]
    BY DEF shared_dependencies
  <2> QED BY <2>1, KeyNames
<1>s. \A w, n : n \in SenseOf(R, w) <=> \E g \in WorkerGroups(R, w) : n = cfg[g].sense /\ n # None
  BY DEF SenseOf
<1>g. \A w, g : g \in WorkerGroups(R, w) <=>
        g \in R /\ cfg[g].enabled /\ cfg[g].smu # None /\ w = cfg[g].smu
  BY DEF WorkerGroups, Runnable
<1>w. \A g, w : g \in WorkerGroups(R, w) => w \in discover_workers(R)
  BY DEF discover_workers, WorkerGroups, Runnable
<1>c. \A g, h : Clash(g, h) <=>
        /\ cfg[g].enabled /\ cfg[h].enabled
        /\ cfg[g].smu # None /\ cfg[h].smu # None /\ cfg[g].smu # cfg[h].smu
        /\ \/ \E n : n \in Names(g) /\ n \in Names(h)
           \/ cfg[g].sense # None /\ cfg[g].sense = cfg[h].sense
  BY DEF Clash, AtOnce, Named
<1> HIDE DEF Names
<1>1. ASSUME NEW p \in conflicts(R) PROVE \E g, h \in R : Clash(g, h)
  <2>1. p[1] # p[2] /\ \E n : n \in shared_dependencies(R, p[1]) /\ n \in shared_dependencies(R, p[2])
    BY <1>1 DEF conflicts
  <2> QED BY <1>d, <1>g, <1>c, <2>1
<1>2. ASSUME NEW p, p[1] # p[2], SenseOf(R, p[1]) \cap SenseOf(R, p[2]) # {}
      PROVE  \E g, h \in R : Clash(g, h)
  <2>1. PICK n : n \in SenseOf(R, p[1]) /\ n \in SenseOf(R, p[2])
    BY <1>2
  <2> QED BY <1>2, <1>s, <1>g, <1>c, <2>1
<1>3. ASSUME NEW g \in R, NEW h \in R, Clash(g, h) PROVE check_ownership(R) # {}
  <2> DEFINE v == cfg[g].smu
             w == cfg[h].smu
  <2>1. g \in WorkerGroups(R, v) /\ h \in WorkerGroups(R, w) /\ v # w
    BY <1>3, <1>g, <1>c
  <2>2. v \in discover_workers(R) /\ w \in discover_workers(R)
    BY <1>w, <2>1
  <2>3. CASE \E n : n \in Names(g) /\ n \in Names(h)
    <3>1. <<v, w>> \in conflicts(R)
      BY <1>d, <2>1, <2>2, <2>3, ConflictMeaning
    <3> QED BY <3>1 DEF check_ownership
  <2>4. CASE cfg[g].sense # None /\ cfg[g].sense = cfg[h].sense
    <3>1. cfg[g].sense \in SenseOf(R, v) /\ cfg[g].sense \in SenseOf(R, w)
      BY <1>s, <2>1, <2>4
    <3> HIDE DEF v, w
    <3>2. <<v, w>> \in {p \in discover_workers(R) \X discover_workers(R) :
                          p[1] # p[2] /\ SenseOf(R, p[1]) \cap SenseOf(R, p[2]) # {}}
      BY <2>1, <2>2, <3>1
    <3> QED BY <3>2 DEF check_ownership
  <2> QED BY <1>3, <1>c, <2>3, <2>4
<1> QED BY <1>1, <1>2, <1>3 DEF check_ownership

\* The verdict still describes the configuration it was asked about.
GateInv == gate # "none" => (gate = "conflict" <=> check_ownership(requested) # {})

\* GateInv holds initially and every step keeps it.
LEMMA GateStep ==
    /\ Init => GateInv
    /\ TypeOK /\ GateInv /\ [Next]_vars => GateInv'
<1>1. Init => GateInv
  BY DEF Init, GateInv
<1>2. ASSUME TypeOK, GateInv, [Next]_vars PROVE GateInv'
  <2>0. cfg' = cfg /\ requested' = requested
    BY <1>2 DEF Next, Validate, BeginPlan, PlaceWorker, MakeSteps, StartWorker, FinishWorker, vars
  <2>1. check_ownership(requested)' = check_ownership(requested)
    BY <2>0 DEF conflicts, discover_workers, Runnable, shared_dependencies, WorkerGroups, Keys,
       check_ownership, SenseOf
  <2>2. CASE Validate
    BY <2>1, <2>2 DEF Validate, GateInv
  <2>3. CASE gate' = gate
    BY <1>2, <2>1, <2>3 DEF GateInv
  <2> QED BY <1>2, <2>2, <2>3 DEF Next, BeginPlan, PlaceWorker, MakeSteps, StartWorker, FinishWorker,
          vars
<1> QED BY <1>1, <1>2

\* For every configuration, ResourceOwnershipValidator.validate() refuses only
\* runs in which two groups on different SMUs share a device, and whatever two
\* such groups share in a run it lets pass is a sense-routing matrix of one that
\* has another role in the other: the gate has no other hole.
THEOREM GateHasOneHole == Spec => []GateMissesOnlyTwoRoles
<1>1. ASSUME GateInv PROVE GateMissesOnlyTwoRoles
  <2>1. \A g, h : Clash(g, h) => AtOnce(g, h) /\ Uses(g) \cap Uses(h) # {}
    BY DEF Clash, Uses, Named
  <2>2. \A g, h : AtOnce(g, h) /\ ~Clash(g, h) => Uses(g) \cap Uses(h) \subseteq TwoRoles(g, h)
    BY DEF Clash, Uses, TwoRoles
  <2>3. CASE gate = "conflict"
    <3>1. \E g, h \in requested : Clash(g, h)
      BY <1>1, <2>3, OwnershipMeaning DEF GateInv
    <3> QED
      BY <2>1, <2>3, <3>1 DEF GateMissesOnlyTwoRoles
  <2>4. CASE gate = "ok"
    <3>1. ~ \E g, h \in requested : Clash(g, h)
      BY <1>1, <2>4, OwnershipMeaning DEF GateInv
    <3> QED
      BY <2>2, <2>4, <3>1 DEF GateMissesOnlyTwoRoles
  <2> QED
    BY <2>3, <2>4 DEF GateMissesOnlyTwoRoles
<1> QED BY <1>1, TypeStep, GateStep, PTL DEF Spec

---------------------------------------------------------------------------
(* The plan *)

\* How far the planner is: nothing before BeginPlan, all workers placed before
\* the first steps are made, nothing started before the last are.
OrderInv ==
    /\ next = 0 => batches = <<>> /\ todo = {}
    /\ next <= Len(batches) + 1
    /\ todo # {} => next = 1
    /\ next > 0 => \A w \in selected : w \in todo \/ \E k \in DOMAIN batches : w \in batches[k]
    /\ running \cup finished # {} => Planned

\* No batch holds two workers that share a device, and a worker depends on those
\* of the earlier batches it shares one with.
BatchInv ==
    /\ \A k \in DOMAIN batches : \A v, w \in batches[k] : <<v, w>> \notin conflicts(Groups)
    /\ \A k \in DOMAIN batches : k < next =>
         \A w \in batches[k] : \A j \in 1..(k - 1) : \A v \in batches[j] :
             <<w, v>> \in conflicts(Groups) => v \in depends[w]

\* A worker that was started is of the plan, is not both running and finished,
\* and all it depends on has finished.
StartInv ==
    /\ running \cap finished = {}
    /\ \A w \in running \cup finished : w \in selected /\ depends[w] \subseteq finished

\* A claim is held by a running worker that uses the device, and nobody was
\* refused one.
ClaimInv ==
    /\ \A n \in DOMAIN claims : /\ claims[n] \in running
                                /\ n \in shared_dependencies(Groups, claims[n])
    /\ ~refused

\* Worker w joins the k-th batch, all of which it may run beside.
Joins(w, k) ==
    /\ k \in DOMAIN batches' /\ w \in batches'[k]
    /\ \A v \in batches'[k] :
         v = w \/ (<<w, v>> \notin conflicts(Groups) /\ k \in DOMAIN batches /\ v \in batches[k])
    /\ \A v : k \in DOMAIN batches /\ v \in batches[k] => v \in batches'[k]
    /\ \A j \in DOMAIN batches' \ {k} : j \in DOMAIN batches /\ batches'[j] = batches[j]
    /\ Len(batches) <= Len(batches') /\ DOMAIN batches \subseteq DOMAIN batches'

\* What placing a worker does: it joins one batch, be it a new one.
LEMMA PlaceMeaning ==
    ASSUME TypeOK, PlaceWorker
    PROVE  next = 1 /\ \E w \in todo : todo' = todo \ {w} /\ \E k : Joins(w, k)
<1> DEFINE w == CHOOSE w \in todo : \A v \in todo : First(w) <= First(v)
           fits == {k \in DOMAIN batches : ~conflicts_with(w, batches[k])}
<1>1. /\ todo # {} /\ next = 1 /\ todo' = todo \ {w}
      /\ \/ batches' = Append(batches, {w})
         \/ \E k \in fits : batches' = [batches EXCEPT ![k] = @ \cup {w}]
  BY DEF PlaceWorker
<1>2. w \in todo
  BY <1>1, FirstExists DEF TypeOK
<1>3. \A k \in fits : k \in DOMAIN batches /\ \A v \in batches[k] : <<w, v>> \notin conflicts(Groups)
  BY DEF conflicts_with
<1>4. batches \in Seq(SUBSET SMUs) /\ DOMAIN batches = 1..Len(batches) /\ Len(batches) \in Nat
  BY DEF TypeOK
<1> HIDE DEF w, fits
<1>5. CASE batches' = Append(batches, {w})
  <2>1. /\ Len(batches') = Len(batches) + 1 /\ DOMAIN batches' = 1..(Len(batches) + 1)
        /\ batches'[Len(batches) + 1] = {w}
        /\ \A j \in 1..Len(batches) : batches'[j] = batches[j]
    BY <1>4, <1>5
  <2>2. Len(batches) + 1 \in DOMAIN batches' /\ Len(batches) + 1 \notin DOMAIN batches
    BY <1>4, <2>1
  <2>3. \A j \in DOMAIN batches' \ {Len(batches) + 1} : j \in DOMAIN batches /\ batches'[j] = batches[j]
    BY <1>4, <2>1
  <2>4. Len(batches) <= Len(batches') /\ DOMAIN batches \subseteq DOMAIN batches'
    BY <1>4, <2>1
  <2>5. Joins(w, Len(batches) + 1)
    BY <2>1, <2>2, <2>3, <2>4 DEF Joins
  <2> QED BY <1>1, <1>2, <2>5
<1>6. ASSUME NEW k \in fits, batches' = [batches EXCEPT ![k] = @ \cup {w}]
      PROVE  Joins(w, k)
  <2>1. k \in DOMAIN batches /\ \A v \in batches[k] : <<w, v>> \notin conflicts(Groups)
    BY <1>3
  <2>2. DOMAIN batches' = DOMAIN batches /\ batches'[k] = batches[k] \cup {w}
        /\ \A j \in DOMAIN batches \ {k} : batches'[j] = batches[j]
    BY <1>4, <1>6, <2>1
  <2>3. Len(batches') = Len(batches)
    BY <1>4, <1>6, <2>1
  <2> QED BY <1>4, <2>1, <2>2, <2>3 DEF Joins
<1> QED BY <1>1, <1>2, <1>5, <1>6

\* OrderInv holds initially and every step keeps it.
LEMMA OrderStep ==
    /\ Init => OrderInv
    /\ TypeOK /\ OrderInv /\ [Next]_vars => OrderInv'
<1>1. ASSUME Init PROVE OrderInv
  <2>1. Len(batches) = 0 /\ next = 0
    BY <1>1 DEF Init
  <2> QED BY <1>1, <2>1 DEF Init, OrderInv
<1>2. ASSUME TypeOK, OrderInv, [Next]_vars PROVE OrderInv'
  <2>t. next \in Nat /\ Len(batches) \in Nat /\ DOMAIN batches = 1..Len(batches)
    BY <1>2 DEF TypeOK
  <2>1. CASE Validate \/ UNCHANGED vars
    BY <1>2, <2>1 DEF Validate, vars, OrderInv, Planned
  <2>2. CASE BeginPlan
    <3>1. next = 0 /\ next' = 1 /\ batches' = batches /\ selected' = todo'
          /\ running' = running /\ finished' = finished
      BY <2>2 DEF BeginPlan
    <3>2. running \cup finished = {}
      BY <1>2, <3>1 DEF OrderInv, Planned
    <3> QED BY <2>t, <3>1, <3>2 DEF OrderInv
  <2>3. CASE PlaceWorker
    <3>1. todo # {} /\ next = 1 /\ next' = next /\ selected' = selected
          /\ running' = running /\ finished' = finished
      BY <2>3 DEF PlaceWorker
    <3>2. running \cup finished = {}
      BY <1>2, <3>1 DEF OrderInv, Planned
    <3>3. PICK w \in todo : todo' = todo \ {w} /\ \E k : Joins(w, k)
      BY <1>2, <2>3, PlaceMeaning
    <3>k. PICK k : Joins(w, k)
      BY <3>3
    <3>4. Len(batches') \in Nat /\ next' <= Len(batches') + 1
      <4>1. batches' \in Seq(SUBSET SMUs)
        BY <1>2, TypeStep DEF TypeOK
      <4>2. Len(batches') \in Nat
        BY <4>1
      <4> QED BY <3>1, <4>2
    <3>5. \A v \in selected' : v \in todo' \/ \E l \in DOMAIN batches' : v \in batches'[l]
      <4> SUFFICES ASSUME NEW v \in selected, v \notin todo' PROVE \E l \in DOMAIN batches' : v \in batches'[l]
        BY <3>1
      <4>1. CASE v = w
        BY <3>k, <4>1 DEF Joins
      <4>2. CASE v # w
        <5>1. PICK l \in DOMAIN batches : v \in batches[l]
          BY <1>2, <3>1, <3>3, <4>2 DEF OrderInv
        <5> QED BY <3>k, <5>1 DEF Joins
      <4> QED BY <4>1, <4>2
    <3> QED BY <3>1, <3>2, <3>4, <3>5 DEF OrderInv
  <2>4. CASE MakeSteps
    <3>1. todo = {} /\ next \in DOMAIN batches /\ next' = next + 1
          /\ UNCHANGED <<selected, todo, batches, running, finished>>
      BY <2>4 DEF MakeSteps
    <3>2. running \cup finished = {}
      BY <1>2, <2>t, <3>1 DEF OrderInv, Planned
    <3> QED BY <1>2, <2>t, <3>1, <3>2 DEF OrderInv
  <2>5. ASSUME NEW w \in SMUs, StartWorker(w) \/ FinishWorker(w) PROVE OrderInv'
    <3>1. UNCHANGED <<selected, todo, batches, next>> /\ Planned
      BY <1>2, <2>5 DEF StartWorker, FinishWorker, OrderInv
    <3> QED BY <1>2, <3>1 DEF OrderInv, Planned
  <2> QED BY <1>2, <2>1, <2>2, <2>3, <2>4, <2>5 DEF Next
<1> QED BY <1>1, <1>2

\* BatchInv holds initially and every step keeps it.
LEMMA BatchStep ==
    /\ Init => BatchInv
    /\ TypeOK /\ BatchInv /\ [Next]_vars => BatchInv'
<1>1. ASSUME Init PROVE BatchInv
  <2>1. DOMAIN batches = {}
    BY <1>1 DEF Init
  <2> QED BY <2>1 DEF BatchInv
<1>2. ASSUME TypeOK, BatchInv, [Next]_vars PROVE BatchInv'
  <2>t. next \in Nat /\ DOMAIN batches = 1..Len(batches) /\ Len(batches) \in Nat
    BY <1>2 DEF TypeOK
  <2>c. conflicts(Groups)' = conflicts(Groups)
    <3>1. cfg' = cfg
      BY <1>2 DEF Next, Validate, BeginPlan, PlaceWorker, MakeSteps, StartWorker, FinishWorker, vars
    <3> QED BY <3>1, ConfigFrame
  <2>0. CASE UNCHANGED <<batches, depends, next>>
    BY <1>2, <2>0, <2>c DEF BatchInv
  <2>1. CASE BeginPlan
    <3>1. UNCHANGED <<batches, depends>> /\ next = 0 /\ next' = 1
      BY <2>1 DEF BeginPlan
    <3>2. \A k \in DOMAIN batches' : ~(k < next')
      BY <2>t, <3>1
    <3> QED BY <1>2, <2>c, <3>1, <3>2 DEF BatchInv
  <2>2. CASE PlaceWorker
    <3>1. next = 1 /\ \E w \in todo : todo' = todo \ {w} /\ \E k : Joins(w, k)
      BY <1>2, <2>2, PlaceMeaning
    <3>2. PICK w, k : Joins(w, k)
      BY <3>1
    <3>3. \A j \in DOMAIN batches' : ~(j < next')
      <4>1. batches' \in Seq(SUBSET SMUs) /\ next' = next
        BY <1>2, <2>2, TypeStep DEF TypeOK, PlaceWorker
      <4>2. DOMAIN batches' = 1..Len(batches') /\ Len(batches') \in Nat
        BY <4>1
      <4> QED BY <3>1, <4>1, <4>2
    <3>4. ASSUME NEW j \in DOMAIN batches', NEW u \in batches'[j], NEW v \in batches'[j]
          PROVE  <<u, v>> \notin conflicts(Groups)
      <4>1. CASE j = k
        <5>1. u = w \/ (<<w, u>> \notin conflicts(Groups) /\ j \in DOMAIN batches /\ u \in batches[j])
          BY <3>2, <4>1 DEF Joins
        <5>2. v = w \/ (<<w, v>> \notin conflicts(Groups) /\ j \in DOMAIN batches /\ v \in batches[j])
          BY <3>2, <4>1 DEF Joins
        <5> QED BY <1>2, <5>1, <5>2, ConflictSymmetry DEF BatchInv
      <4>2. CASE j # k
        BY <1>2, <3>2, <4>2 DEF Joins, BatchInv
      <4> QED BY <4>1, <4>2
    <3> QED BY <2>c, <3>3, <3>4 DEF BatchInv
  <2>3. CASE MakeSteps
    <3>1. /\ next \in DOMAIN batches /\ next' = next + 1 /\ batches' = batches
          /\ depends' = [w \in SMUs |->
               IF w \in batches[next]
               THEN {other \in scheduled_before(next) : <<w, other>> \in conflicts(Groups)}
               ELSE depends[w]]
      BY <2>3 DEF MakeSteps
    <3>2. ASSUME NEW k \in DOMAIN batches, k < next + 1, NEW w \in batches[k],
                 NEW j \in 1..(k - 1), NEW v \in batches[j], <<w, v>> \in conflicts(Groups)
          PROVE  v \in depends'[w]
      <4>1. w \in SMUs
        BY <1>2, <3>2 DEF TypeOK
      <4>2. CASE w \in batches[next]
        <5>1. j \in 1..(next - 1)
          BY <2>t, <3>2
        <5>2. v \in scheduled_before(next)
          BY <5>1, <3>2 DEF scheduled_before
        <5> QED BY <3>1, <3>2, <4>1, <4>2, <5>2
      <4>3. CASE w \notin batches[next]
        <5>1. k < next
          BY <2>t, <3>1, <3>2, <4>3
        <5>2. v \in depends[w]
          BY <1>2, <3>2, <5>1 DEF BatchInv
        <5> QED BY <3>1, <4>1, <4>3, <5>2
      <4> QED BY <4>2, <4>3
    <3> QED BY <1>2, <2>c, <3>1, <3>2 DEF BatchInv
  <2> QED BY <1>2, <2>0, <2>1, <2>2, <2>3 DEF Next, Validate, StartWorker, FinishWorker, vars
<1> QED BY <1>1, <1>2

\* StartInv holds initially and every step keeps it.
LEMMA StartStep ==
    /\ Init => StartInv
    /\ TypeOK /\ OrderInv /\ StartInv /\ [Next]_vars => StartInv'
<1>1. Init => StartInv
  BY DEF Init, StartInv
<1>2. ASSUME TypeOK, OrderInv, StartInv, [Next]_vars PROVE StartInv'
  <2>1. CASE Validate \/ PlaceWorker \/ UNCHANGED vars
    BY <1>2, <2>1 DEF Validate, PlaceWorker, vars, StartInv
  <2>2. CASE BeginPlan \/ MakeSteps
    <3>1. running' = running /\ finished' = finished /\ ~Planned
      BY <1>2, <2>2 DEF BeginPlan, MakeSteps, Planned, TypeOK
    <3>2. running \cup finished = {}
      BY <1>2, <3>1 DEF OrderInv
    <3> QED BY <3>1, <3>2 DEF StartInv
  <2>3. ASSUME NEW w \in SMUs, StartWorker(w) PROVE StartInv'
    BY <1>2, <2>3 DEF StartWorker, StartInv
  <2>4. ASSUME NEW w \in SMUs, FinishWorker(w) PROVE StartInv'
    BY <1>2, <2>4 DEF FinishWorker, StartInv
  <2> QED BY <1>2, <2>1, <2>2, <2>3, <2>4 DEF Next
<1> QED BY <1>1, <1>2

\* A worker that may start shares nothing with one that is running: they are in
\* different batches, and the one in the later batch waits for the other.
LEMMA StartsApart ==
    ASSUME TypeOK, OrderInv, BatchInv, StartInv,
           NEW w \in SMUs, StartWorker(w), NEW v \in running
    PROVE  <<w, v>> \notin conflicts(Groups)
<1> SUFFICES ASSUME <<w, v>> \in conflicts(Groups) PROVE FALSE
  OBVIOUS
<1>1. /\ Planned /\ w \in selected /\ w \notin finished /\ depends[w] \subseteq finished
      /\ v \in selected /\ v \notin finished /\ depends[v] \subseteq finished
  BY DEF StartWorker, StartInv
<1>t. next \in Nat /\ Len(batches) \in Nat /\ DOMAIN batches = 1..Len(batches)
      /\ next = Len(batches) + 1
  BY <1>1 DEF TypeOK, Planned
<1>2. PICK k \in DOMAIN batches : w \in batches[k]
  BY <1>1 DEF Planned, OrderInv
<1>3. PICK j \in DOMAIN batches : v \in batches[j]
  BY <1>1 DEF Planned, OrderInv
<1>4. CASE j = k
  BY <1>2, <1>3, <1>4 DEF BatchInv
<1>5. CASE j < k
  <2>1. k < next /\ j \in 1..(k - 1)
    BY <1>t, <1>5
  <2> QED BY <1>1, <1>2, <1>3, <2>1 DEF BatchInv
<1>6. CASE k < j
  <2>1. j < next /\ k \in 1..(j - 1)
    BY <1>t, <1>6
  <2>2. <<v, w>> \in conflicts(Groups)
    BY ConflictSymmetry
  <2> QED BY <1>1, <1>2, <1>3, <2>1, <2>2 DEF BatchInv
<1> QED BY <1>t, <1>4, <1>5, <1>6

\* ClaimInv holds initially and every step keeps it.
LEMMA ClaimStep ==
    /\ Init => ClaimInv
    /\ TypeOK /\ OrderInv /\ BatchInv /\ StartInv /\ ClaimInv /\ [Next]_vars => ClaimInv'
<1>1. ASSUME Init PROVE ClaimInv
  <2>1. DOMAIN claims = {}
    BY <1>1 DEF Init
  <2> QED BY <1>1, <2>1 DEF Init, ClaimInv
<1>2. ASSUME TypeOK, OrderInv, BatchInv, StartInv, ClaimInv, [Next]_vars PROVE ClaimInv'
  <2>c. cfg' = cfg
    BY <1>2 DEF Next, Validate, BeginPlan, PlaceWorker, MakeSteps, StartWorker, FinishWorker, vars
  <2>d. \A w : shared_dependencies(Groups, w)' = shared_dependencies(Groups, w)
    BY <2>c, ConfigFrame
  <2>0. CASE UNCHANGED <<running, claims, refused>>
    BY <1>2, <2>0, <2>d DEF ClaimInv
  <2>1. ASSUME NEW w \in SMUs, StartWorker(w) PROVE ClaimInv'
    <3> DEFINE names == shared_dependencies(Groups, w)
               free == {n \in names : Owner(n) \in {NoWorker, w}}
    <3>1. /\ w \in selected \ (running \cup finished) /\ running' = running \cup {w}
          /\ claims' = [n \in DOMAIN claims \cup free |-> IF n \in free THEN w ELSE claims[n]]
          /\ refused' = (refused \/ free # names)
      BY <2>1 DEF StartWorker
    <3>2. ASSUME NEW n \in names PROVE n \in free
      <4>1. CASE n \in DOMAIN claims
        <5>1. claims[n] \in running /\ n \in shared_dependencies(Groups, claims[n])
          BY <1>2, <4>1 DEF ClaimInv
        <5>2. <<w, claims[n]>> \notin conflicts(Groups)
          BY <1>2, <2>1, <5>1, StartsApart
        <5>3. w \in discover_workers(Groups) /\ claims[n] \in discover_workers(Groups) /\ w # claims[n]
          BY <1>2, <3>1, <5>1 DEF TypeOK, StartInv
        <5> QED BY <5>1, <5>2, <5>3, ConflictMeaning
      <4>2. CASE n \notin DOMAIN claims
        BY <4>2 DEF Owner
      <4> QED BY <4>1, <4>2
    <3>3. free = names
      BY <3>2
    <3> HIDE DEF free
    <3>4. ~refused'
      BY <1>2, <3>1, <3>3 DEF ClaimInv
    <3>5. ASSUME NEW n \in DOMAIN claims'
          PROVE  claims'[n] \in running' /\ n \in shared_dependencies(Groups, claims'[n])
      BY <1>2, <3>1, <3>3, <3>5 DEF ClaimInv
    <3> QED BY <2>d, <3>4, <3>5 DEF ClaimInv
  <2>2. ASSUME NEW w \in SMUs, FinishWorker(w) PROVE ClaimInv'
    BY <1>2, <2>2, <2>d DEF FinishWorker, ClaimInv
  <2> QED BY <1>2, <2>0, <2>1, <2>2 DEF Next, Validate, BeginPlan, PlaceWorker, MakeSteps, vars
<1> QED BY <1>1, <1>2

\* Workers that start as soon as what they depend on has finished never meet at
\* a device, whatever the groups, the catalogue and the operator's selection:
\* the batches and dependencies of build_execution_plan() leave the arbiter
\* nothing to refuse.
THEOREM PlanLeavesNothingToRefuse == Spec => []PlanNeverShares
<1>1. ClaimInv => PlanNeverShares
  BY DEF ClaimInv, PlanNeverShares
<1> QED BY <1>1, TypeStep, OrderStep, BatchStep, StartStep, ClaimStep, PTL DEF Spec
============================================================================
