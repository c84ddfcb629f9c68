------------------------- MODULE ExecutionPlanning -------------------------
(***************************************************************************)
(* Which groups may run at the same time (orchestration/: topology.py,     *)
(* workers.py, resource_graph.py, execution_plan.py,                       *)
(* resource_ownership.py, arbiter.py). From the configuration of the       *)
(* groups the code derives workers (one per SMU), what they share, the     *)
(* gate that a concurrent run must pass, and a plan of batches with        *)
(* dependencies for workers that do share.                                 *)
(*                                                                         *)
(* The configuration is any one over the catalogue. Nothing in the         *)
(* repository executes a plan yet; Start and Finish are an executor that   *)
(* knows no more than execution_plan.py tells it and claims what it uses   *)
(* from the arbiter.                                                       *)
(***************************************************************************)
EXTENDS Integers, Sequences, FiniteSets

CONSTANTS NumGroups,   \* groups of BATTERY_GROUPS, in its order
          Catalogue,   \* the configurations a group may have
          None         \* a role without a device

Groups == 1..NumGroups
Fields == {"enabled", "smu", "relay_matrix", "dmm", "daq", "ntc_daq", "sense"}

ASSUME PlanningAssumption ==
    /\ NumGroups \in Nat
    /\ \A c \in Catalogue : DOMAIN c = Fields /\ c.enabled \in BOOLEAN

SMUs == {c.smu : c \in Catalogue} \ {None}
NoWorker == "nobody"

VARIABLES
  cfg,       \* the configuration of each group
  requested, \* groups asked to run together
  selected,  \* the operator's enabled_workers
  gate,      \* ResourceOwnershipValidator.validate(): "none" yet, "ok" or "conflict"
  todo,      \* workers the loop over the included ones has not placed yet
  batches,   \* parallel_batches
  depends,   \* depends_on of each step
  next,      \* the batch whose steps are made next
  running, finished,  \* workers of the plan under way and done
  claims,    \* Arbiter._claims
  refused    \* a claim raised ResourceBusyError

vars == <<cfg, requested, selected, gate, todo, batches, depends, next, running,
          finished, claims, refused>>

---------------------------------------------------------------------------
(* Discovery *)

\* discover_topology(): the role and name of every device of a group. The NTCs
\* are read through the main DAQ unless another one is named. The SMU, left
\* out of every sharing question, is not listed.
Keys(g) ==
    {k \in {<<"relay_matrix_name", cfg[g].relay_matrix>>, <<"dmm_name", cfg[g].dmm>>,
            <<"daq_name", cfg[g].daq>>,
            <<"ntc_daq_name", IF cfg[g].ntc_daq = None THEN cfg[g].daq ELSE cfg[g].ntc_daq>>} :
        k[2] # None}

\* discover_workers() over the groups R: those of each SMU, in order.
Runnable(R) == {g \in R : cfg[g].enabled /\ cfg[g].smu # None}
WorkerGroups(R, w) == {g \in Runnable(R) : cfg[g].smu = w}
discover_workers(R) == {cfg[g].smu : g \in Runnable(R)}

\* A worker comes before another when its first group does.
First(w) == CHOOSE g \in WorkerGroups(Groups, w) : \A h \in WorkerGroups(Groups, w) : g <= h

\* build_resource_graph(): names of the devices of a worker's groups, and the
\* pairs of workers that have one in common. Roles are not compared.
shared_dependencies(R, w) == {k[2] : k \in UNION {Keys(g) : g \in WorkerGroups(R, w)}}
conflicts(R) ==
    {p \in discover_workers(R) \X discover_workers(R) :
        p[1] # p[2] /\ shared_dependencies(R, p[1]) \cap shared_dependencies(R, p[2]) # {}}

---------------------------------------------------------------------------
(* ResourceOwnershipValidator *)

\* Sense-routing matrices of a worker's groups.
SenseOf(R, w) == {cfg[g].sense : g \in WorkerGroups(R, w)} \ {None}

\* A check that knows the roles of topology.py only.
check_ownership_topology(R) == conflicts(R)

\* check_ownership(): the conflicts of the graph, and those of sense routing.
check_ownership(R) ==
    conflicts(R) \cup
    {p \in discover_workers(R) \X discover_workers(R) :
        p[1] # p[2] /\ SenseOf(R, p[1]) \cap SenseOf(R, p[2]) # {}}

Init ==
    /\ cfg \in [Groups -> Catalogue]
    /\ requested \in SUBSET Groups
    /\ selected = discover_workers(Groups)
    /\ gate = "none"
    /\ todo = {} /\ batches = <<>> /\ depends = [w \in SMUs |-> {}] /\ next = 0
    /\ running = {} /\ finished = {}
    /\ claims = <<>> /\ refused = FALSE

\* validate(), for the groups of one concurrent run.
Validate ==
    /\ gate = "none"
    /\ gate' = IF check_ownership(requested) = {} THEN "ok" ELSE "conflict"
    /\ UNCHANGED <<cfg, requested, selected, todo, batches, depends, next, running,
                   finished, claims, refused>>

---------------------------------------------------------------------------
(* build_execution_plan() *)

\* The operator leaves workers out; the others are included.
BeginPlan ==
    /\ gate # "none" /\ next = 0
    /\ \E names \in SUBSET discover_workers(Groups) :
         selected' = names /\ todo' = names
    /\ next' = 1
    /\ UNCHANGED <<cfg, requested, gate, batches, depends, running, finished, claims, refused>>

conflicts_with(w, batch) == \E other \in batch : <<w, other>> \in conflicts(Groups)

\* A worker put beside the last batch whatever it shares with the first ones.
PlaceWorkerLast ==
    LET w == CHOOSE w \in todo : \A v \in todo : First(w) <= First(v)
    IN /\ next = 1 /\ todo # {}
       /\ todo' = todo \ {w}
       /\ batches' = IF batches = <<>> THEN <<{w}>>
                     ELSE [batches EXCEPT ![Len(batches)] = @ \cup {w}]
       /\ UNCHANGED <<cfg, requested, selected, gate, depends, next, running, finished, claims, refused>>

\* The next worker in discovery order goes to the earliest batch it does not
\* conflict with, or to a new one.
PlaceWorker ==
    LET w == CHOOSE w \in todo : \A v \in todo : First(w) <= First(v)
        fits == {k \in DOMAIN batches : ~conflicts_with(w, batches[k])}
    IN /\ next = 1 /\ todo # {}
       /\ todo' = todo \ {w}
       /\ \/ fits = {} /\ batches' = Append(batches, {w})
          \/ \E k \in fits : /\ \A j \in fits : k <= j
                             /\ batches' = [batches EXCEPT ![k] = @ \cup {w}]
       /\ UNCHANGED <<cfg, requested, selected, gate, depends, next, running, finished, claims, refused>>

\* Workers of the batches before the k-th.
scheduled_before(k) == UNION {batches[j] : j \in 1..(k - 1)}

\* Steps that depend on every conflicting worker, their own batch and later
\* ones included.
MakeStepsMutual ==
    /\ todo = {} /\ next \in DOMAIN batches
    /\ depends' = [w \in SMUs |->
         IF w \in batches[next]
         THEN {other \in selected : <<w, other>> \in conflicts(Groups)}
         ELSE depends[w]]
    /\ next' = next + 1
    /\ UNCHANGED <<cfg, requested, selected, gate, todo, batches, running, finished, claims, refused>>

\* The steps of one batch: each depends on the workers of earlier batches it
\* conflicts with.
MakeSteps ==
    /\ todo = {} /\ next \in DOMAIN batches
    /\ depends' = [w \in SMUs |->
         IF w \in batches[next]
         THEN {other \in scheduled_before(next) : <<w, other>> \in conflicts(Groups)}
         ELSE depends[w]]
    /\ next' = next + 1
    /\ UNCHANGED <<cfg, requested, selected, gate, todo, batches, running, finished, claims, refused>>

Planned == next > 0 /\ todo = {} /\ next = Len(batches) + 1

---------------------------------------------------------------------------
(* An executor (external) and InProcessArbiter *)

Owner(name) == IF name \in DOMAIN claims THEN claims[name] ELSE NoWorker

\* claim() for each of the worker's devices: idempotent, refused when another
\* worker holds it.
StartWorker(w) ==
    LET names == shared_dependencies(Groups, w)
        free == {n \in names : Owner(n) \in {NoWorker, w}}
    IN /\ Planned /\ w \in selected \ (running \cup finished)
       /\ depends[w] \subseteq finished
       /\ running' = running \cup {w}
       /\ claims' = [n \in DOMAIN claims \cup free |-> IF n \in free THEN w ELSE claims[n]]
       /\ refused' = (refused \/ free # names)
       /\ UNCHANGED <<cfg, requested, selected, gate, todo, batches, depends, next, finished>>

\* release(): only what this worker holds.
FinishWorker(w) ==
    /\ w \in running
    /\ running' = running \ {w} /\ finished' = finished \cup {w}
    /\ claims' = [n \in {n \in DOMAIN claims : claims[n] # w} |-> claims[n]]
    /\ UNCHANGED <<cfg, requested, selected, gate, todo, batches, depends, next, refused>>

Next ==
    \/ Validate \/ BeginPlan \/ PlaceWorker \/ MakeSteps
    \/ \E w \in SMUs : StartWorker(w) \/ FinishWorker(w)

Spec == Init /\ [][Next]_vars

\* The planner is a loop over a finite list; a worker that may start is
\* started, and a group run ends (GroupRun, SamplingLoop).
FairSpec == Spec /\ WF_vars(Next)

---------------------------------------------------------------------------
(* Properties *)

TypeOK ==
    /\ cfg \in [Groups -> Catalogue] /\ requested \subseteq Groups
    /\ gate \in {"none", "ok", "conflict"}
    /\ selected \subseteq discover_workers(Groups) /\ todo \subseteq selected
    /\ batches \in Seq(SUBSET SMUs) /\ depends \in [SMUs -> SUBSET SMUs] /\ next \in Nat
    /\ running \subseteq SMUs /\ finished \subseteq SMUs
    /\ refused \in BOOLEAN

\* The devices a group works with, its sense-routing matrix included, and two
\* groups that would do so at the same time.
Named(g) == {cfg[g].relay_matrix, cfg[g].dmm, cfg[g].daq, cfg[g].ntc_daq} \ {None}
Uses(g) == (Named(g) \cup {cfg[g].sense}) \ {None}
AtOnce(g, h) ==
    /\ cfg[g].enabled /\ cfg[h].enabled
    /\ cfg[g].smu # None /\ cfg[h].smu # None /\ cfg[g].smu # cfg[h].smu

\* A sense-routing matrix of one that has another role in the other.
TwoRoles(g, h) == ({cfg[g].sense} \cap Named(h)) \cup ({cfg[h].sense} \cap Named(g))

\* The gate of a concurrent run refuses no run whose groups share nothing or
\* run one after the other on one SMU, and what groups share in a run that it
\* lets pass is at most a matrix that one of them routes its sense lines
\* through and the other names for something else
\* (resource_ownership.py, check_ownership()). The module's own words, "every
\* relay matrix (position-control AND sense-routing) is owned, in full, by at
\* most one requested group" (:11), leave no such hole.
GateMissesOnlyTwoRoles ==
    /\ gate = "conflict" =>
         \E g, h \in requested : AtOnce(g, h) /\ Uses(g) \cap Uses(h) # {}
    /\ gate = "ok" =>
         \A g, h \in requested : AtOnce(g, h) => Uses(g) \cap Uses(h) \subseteq TwoRoles(g, h)

\* Workers started as soon as their depends_on have finished never find a
\* device claimed by another one (execution_plan.py, parallel_batches).
PlanNeverShares == ~refused

\* Every worker of the plan gets its turn: the dependencies have no cycle and
\* name no worker that is left out.
PlanCompletes == <>(Planned /\ finished = selected)
============================================================================
