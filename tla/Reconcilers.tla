----------------------------- MODULE Reconcilers -----------------------------
(***************************************************************************)
(* The controller's three reconcilers (TransactionType,                    *)
(* ServiceTokenRequirement, TokenPolicy) between the Kubernetes API and    *)
(* the rule server.                                                        *)
(*                                                                         *)
(* controller-runtime is modelled by what the reconcilers rely on: reads   *)
(* come from a cache that watch events bring up to date, an event puts its *)
(* object on the work queue of its kind, one worker runs per kind, an      *)
(* error puts the object back, a status update fails if the object read is *)
(* no longer the stored one, and workers start once their cache is filled. *)
(*                                                                         *)
(* The three Reconcile functions are one pipeline: read the object, write  *)
(* its status, list all objects of the kind, derive the rules, publish.    *)
(* Only the TransactionType reconciler also looks for a TokenPolicy, once  *)
(* for the status and once per listed object.  A duration is a number of   *)
(* seconds, Unset for "" and Unparsable for what ParseDuration rejects.    *)
(***************************************************************************)
EXTENDS Integers, Sequences, FiniteSets, Functions

CONSTANTS
    Objects, KindOf,    \* the custom resources and their kinds
    Specs,              \* the specs an object can be given
    Scopes,             \* the sets of objects users work with, one per behaviour
    InitialStore,       \* what the API server holds of them when the controller starts
    None,               \* no such object, nil
    MaxBudget           \* bound: objects of a behaviour, changes made to them and
                        \* restarts of the controller, together

Kinds == {"TransactionType", "ServiceTokenRequirement", "TokenPolicy"}
Unset == 0
Unparsable == -1
DefaultLifetime == 15

ASSUME KindOfAssumption == KindOf \in [Objects -> Kinds]
ASSUME ObjectsAssumption ==
    IsFiniteSet(Objects) /\ \A S \in SUBSET Objects : Cardinality(S) \in Nat
ASSUME SpecsAssumption ==
    /\ \A o \in Objects : None \notin Specs[o] /\ InitialStore[o] \in Specs[o] \cup {None}
    /\ None \notin BOOLEAN
ASSUME LifetimesAssumption ==
    \A o \in Objects : \A spec \in Specs[o] :
        /\ KindOf[o] = "TransactionType" => spec.life \in Nat \cup {Unparsable}
        /\ KindOf[o] = "TokenPolicy" => spec.max \in Nat \cup {Unparsable}
ASSUME ReconcilerBoundsAssumption == MaxBudget \in Nat

VARIABLES
    \* --- the API server ---
    store,          \* the spec of each object, None if it does not exist
    status,         \* its status condition, None if not written yet
    \* --- controller-runtime ---
    cache,          \* the copy of each object the reconcilers read
    stale,          \* stale[o]: an event for o has not reached the cache
    synced,         \* kinds whose cache has been filled
    queue,          \* work queue of each kind
    \* --- the reconcilers ---
    work,           \* what the worker of each kind is doing
    published,      \* the rule last published for each object
    \* --- bounds and history: they guard nothing but the bounds ---
    scope,          \* the objects of this behaviour
    ver,            \* ver[o]: changes made to the spec of o; copies carry it
    restarts,
    startVer,       \* the ver[o] when this process first listed o
    done,           \* kinds that have been published by this process
    blind           \* a policy has changed, or its lookup failed, since the
                    \* published lifetimes were clamped

apiVars == <<store, status, ver, scope>>
runtimeVars == <<cache, stale, synced, queue, startVer>>
publishedVars == <<published, done, blind>>
vars == <<apiVars, runtimeVars, publishedVars, work, restarts>>

ObjectsOf(k) == {o \in Objects : KindOf[o] = k}
Spent == Cardinality(scope) + restarts + FoldFunction(+, 0, ver)

(* A copy of an object; the lifetime is filled in when it is clamped. *)
Copy(o) == [spec |-> store[o], ver |-> ver[o], life |-> Unset]
NoCopy == [spec |-> None, ver |-> -1, life |-> Unset]

(* obj: the object reconciled; current: it is still as it was read; list:   *)
(* the objects as listed; todo: those to be clamped.                        *)
Idle == [step |-> "idle", obj |-> None, spec |-> None, current |-> FALSE,
         list |-> None, todo |-> {}, blind |-> FALSE]

Init ==
    /\ scope \in Scopes
    /\ store = [o \in Objects |-> IF o \in scope THEN InitialStore[o] ELSE None]
    /\ status = [o \in Objects |-> None]
    /\ cache = [o \in Objects |-> NoCopy]
    /\ stale = [o \in Objects |-> FALSE]
    /\ synced = {}
    /\ queue = [k \in Kinds |-> <<>>]
    /\ work = [k \in Kinds |-> Idle]
    /\ published = [o \in Objects |-> NoCopy]
    /\ ver = [o \in Objects |-> 0]
    /\ restarts = 0
    /\ startVer = [o \in Objects |-> 0]
    /\ done = {}
    /\ blind = FALSE

-----------------------------------------------------------------------------
(* Rules derived from specs.                                               *)

(* Fault: the default is applied after the limit. *)
ClampBeforeDefault(requested, max) ==
    IF requested = Unset THEN DefaultLifetime
    ELSE IF Unset # max /\ Unparsable \notin {requested, max} /\ requested > max THEN max
    ELSE requested

ClampTokenLifetime(requested, max) ==
    LET r == IF requested = Unset THEN DefaultLifetime ELSE requested
    IN  IF Unset # max /\ Unparsable \notin {r, max} /\ r > max THEN max ELSE r

(* The lifetime in the rule of a TransactionType: without a policy it is    *)
(* not clamped, and the default applies.                                    *)
EffectiveLifetime(tt, policy) ==
    IF policy = None
    THEN IF tt.life = Unset THEN DefaultLifetime ELSE tt.life
    ELSE ClampTokenLifetime(tt.life, policy.max)

(* Policies that findApplicablePolicy can return: the list is in no         *)
(* particular order, and the first that matches is taken.                   *)
findApplicablePolicy(ns) ==
    LET policies == {cache[p].spec : p \in ObjectsOf("TokenPolicy")} \ {None}
        matching == {p \in policies : p.targets = None \/ (p.targets # None /\ ns \in p.targets)}
    IN  IF matching = {} THEN {None} ELSE matching

ValidateTransactionTypeAgainstPolicy(tt, policy) ==
    \/ policy = None
    \/ /\ policy.max \notin {Unset, Unparsable} => tt.life <= policy.max
       /\ policy.mandatory \subseteq tt.fields
       /\ policy.disallowed \cap tt.enrichers = {}

(* validateAndCompileCELRules, validateIssuanceCEL *)
ValidCEL(rules) == {r \in rules : r.compiles}

(* An issuance rule also goes if another of the same name does not compile. *)
IssuanceRules(policy) ==
    {r \in policy.rules : \A b \in policy.rules : b.name = r.name => b.compiles}

(* The rules published for an object; a lifetime only for TransactionTypes. *)
RuleOf(o, copy) ==
    CASE copy.spec = None -> [copy EXCEPT !.life = Unset]
      [] copy.spec # None /\ KindOf[o] = "TransactionType" -> copy
      [] copy.spec # None /\ KindOf[o] = "ServiceTokenRequirement" ->
            [copy EXCEPT !.spec.rules = ValidCEL(@)]
      [] copy.spec # None /\ KindOf[o] = "TokenPolicy" ->
            [copy EXCEPT !.spec.rules = IssuanceRules(copy.spec)]

(* The condition Reconcile writes, given the policy it found. *)
ConditionOf(o, spec, policy) ==
    IF KindOf[o] = "TransactionType"
    THEN ValidateTransactionTypeAgainstPolicy(spec, policy)
    ELSE \A r \in spec.rules : r.compiles

-----------------------------------------------------------------------------
(* The API server and controller-runtime.                                  *)

(* A user creates, changes or deletes (None) an object. *)
Edit(o, spec) ==
    /\ o \in scope
    /\ Spent < MaxBudget
    /\ spec # store[o]
    /\ store' = [store EXCEPT ![o] = spec]
    /\ status' = [status EXCEPT ![o] = IF spec = None THEN None ELSE @]
    /\ ver' = [ver EXCEPT ![o] = @ + 1]
    /\ stale' = [stale EXCEPT ![o] = KindOf[o] \in synced]
    /\ work' = [work EXCEPT ![KindOf[o]].current = @ /\ work[KindOf[o]].obj # o]
    /\ UNCHANGED <<scope, cache, synced, queue, startVer, publishedVars, restarts>>

Enqueue(q, o) == IF \E i \in 1 .. Len(q) : q[i] = o THEN q ELSE Append(q, o)

(* A change to a policy leaves lifetimes clamped before it behind. *)
PolicySeen(changed) ==
    IF changed
    THEN /\ blind' = TRUE
         /\ work' = [work EXCEPT !["TransactionType"].blind = TRUE]
    ELSE UNCHANGED <<blind, work>>

Deliver(o) ==
    /\ stale[o]
    /\ stale' = [stale EXCEPT ![o] = FALSE]
    /\ cache' = [cache EXCEPT ![o] = Copy(o)]
    /\ queue' = [queue EXCEPT ![KindOf[o]] = Enqueue(@, o)]
    /\ PolicySeen(KindOf[o] = "TokenPolicy" /\ cache[o] # Copy(o))
    /\ UNCHANGED <<apiVars, synced, startVer, published, done, restarts>>

(* The orders in which a set can be listed. *)
Orders(S) == Bijection(1 .. Cardinality(S), S)

(* Fault: workers start before the cache is filled. *)
SyncEarly(k) ==
    /\ k \notin synced
    /\ synced' = synced \cup {k}
    /\ startVer' = [o \in Objects |-> IF KindOf[o] = k THEN ver[o] ELSE startVer[o]]
    /\ stale' = [o \in Objects |-> stale[o] \/ KindOf[o] = k]
    /\ \E q \in Orders({o \in ObjectsOf(k) : store[o] # None}) :
          queue' = [queue EXCEPT ![k] = q]
    /\ UNCHANGED <<apiVars, cache, work, publishedVars, restarts>>

(* The first list of a kind fills its cache and queues every object. *)
Sync(k) ==
    /\ k \notin synced
    /\ synced' = synced \cup {k}
    /\ startVer' = [o \in Objects |-> IF KindOf[o] = k THEN ver[o] ELSE startVer[o]]
    /\ cache' = [o \in Objects |-> IF KindOf[o] = k THEN Copy(o) ELSE cache[o]]
    /\ \E q \in Orders({o \in ObjectsOf(k) : store[o] # None}) :
          queue' = [queue EXCEPT ![k] = q]
    /\ PolicySeen(k = "TokenPolicy")
    /\ UNCHANGED <<apiVars, stale, published, done, restarts>>

(* The process ends: cache, queues, work in progress and the rule server's  *)
(* rules go with it.                                                        *)
Restart ==
    /\ Spent < MaxBudget
    /\ restarts' = restarts + 1
    /\ cache' = [o \in Objects |-> NoCopy]
    /\ stale' = [o \in Objects |-> FALSE]
    /\ synced' = {}
    /\ queue' = [k \in Kinds |-> <<>>]
    /\ startVer' = [o \in Objects |-> 0]
    /\ work' = [k \in Kinds |-> Idle]
    /\ published' = [o \in Objects |-> NoCopy]
    /\ done' = {}
    /\ blind' = FALSE
    /\ UNCHANGED apiVars

-----------------------------------------------------------------------------
(* Reconcile.                                                              *)

(* The worker takes the next object and reads it; a deleted one has no      *)
(* status to write.                                                         *)
Get(k) ==
    /\ work[k].step = "idle" /\ k \in synced /\ queue[k] # <<>>
    /\ LET o == Head(queue[k])
           spec == cache[o].spec
       IN  work' = [work EXCEPT ![k] = [Idle EXCEPT !.step = IF spec = None THEN "list" ELSE "status",
                                                    !.obj = o, !.spec = spec, !.current = ~stale[o]]]
    /\ queue' = [queue EXCEPT ![k] = Tail(@)]
    /\ UNCHANGED <<apiVars, cache, stale, synced, startVer, publishedVars, restarts>>

(* Fault: the error is logged and nil is returned. *)
FailSwallowed(k) ==
    /\ work[k].step \in {"status", "list"}
    /\ work' = [work EXCEPT ![k] = Idle]
    /\ UNCHANGED <<apiVars, runtimeVars, publishedVars, restarts>>

(* Reading, listing or updating returns an error: so does Reconcile, and    *)
(* the object is tried again.  A status update always fails if the object   *)
(* is no longer as it was read.                                             *)
Fail(k) ==
    /\ work[k].step \in {"status", "list"}
    /\ work' = [work EXCEPT ![k] = Idle]
    /\ queue' = [queue EXCEPT ![k] = Enqueue(@, work[k].obj)]
    /\ UNCHANGED <<apiVars, cache, stale, synced, startVer, publishedVars, restarts>>

(* A read of a kind whose cache is not filled yet waits. *)
PoliciesReadable(k) == k = "TransactionType" => "TokenPolicy" \in synced

(* An error of the policy lookup is logged, and there is no policy then.    *)
(* Every status carries the time it was written, so an update that changes  *)
(* nothing else is an event as well, unless it falls into the same second.  *)
UpdateStatus(k) ==
    LET o == work[k].obj
        policies == IF k = "TransactionType" THEN findApplicablePolicy(work[k].spec.ns) ELSE {}
    IN  /\ work[k].step = "status"
        /\ work[k].current
        /\ PoliciesReadable(k)
        /\ \E policy \in policies \cup {None} :
              LET condition == ConditionOf(o, work[k].spec, policy)
              IN  /\ status' = [status EXCEPT ![o] = condition]
                  /\ \/ stale' = [stale EXCEPT ![o] = TRUE]
                     \/ status[o] = condition /\ UNCHANGED stale
        /\ work' = [work EXCEPT ![k].step = "list", ![k].spec = None, ![k].current = FALSE]
        /\ UNCHANGED <<store, ver, scope, cache, synced, queue, startVer, publishedVars, restarts>>

(* rebuildGenerationRules, rebuildVerificationRules, rebuildIssuanceRules *)
List(k) ==
    /\ work[k].step = "list"
    /\ work' = [work EXCEPT ![k].step = "rebuild",
                            ![k].list = [o \in ObjectsOf(k) |-> cache[o]],
                            ![k].todo = {o \in ObjectsOf(k) :
                                           k = "TransactionType" /\ cache[o].spec # None},
                            ![k].blind = FALSE]
    /\ UNCHANGED <<apiVars, runtimeVars, publishedVars, restarts>>

(* The policy of each listed object is looked up on its own; an error       *)
(* counts as no policy.                                                     *)
Clamp(k, o) ==
    /\ work[k].step = "rebuild"
    /\ o \in work[k].todo
    /\ PoliciesReadable(k)
    /\ LET tt == work[k].list[o].spec
       IN  \/ \E policy \in findApplicablePolicy(tt.ns) :
                 work' = [work EXCEPT ![k].list[o].life = EffectiveLifetime(tt, policy),
                                      ![k].todo = @ \ {o}]
           \/ work' = [work EXCEPT ![k].list[o].life = EffectiveLifetime(tt, None),
                                   ![k].todo = @ \ {o},
                                   ![k].blind = TRUE]
    /\ UNCHANGED <<apiVars, runtimeVars, publishedVars, restarts>>

Publish(k) ==
    /\ work[k].step = "rebuild"
    /\ work[k].todo = {}
    /\ published' = [o \in Objects |->
                       IF KindOf[o] = k THEN RuleOf(o, work[k].list[o]) ELSE published[o]]
    /\ done' = done \cup {k}
    /\ blind' = IF k = "TransactionType" THEN work[k].blind ELSE blind
    /\ work' = [work EXCEPT ![k] = Idle]
    /\ UNCHANGED <<apiVars, runtimeVars, restarts>>

(* Reconcile up to the publication. *)
Reconcile(k) ==
    \/ Get(k)
    \/ UpdateStatus(k)
    \/ List(k)
    \/ \E o \in ObjectsOf(k) : Clamp(k, o)

Runtime ==
    \/ \E o \in Objects : \E spec \in Specs[o] \cup {None} : Edit(o, spec)
    \/ \E o \in Objects : Deliver(o) \/ Sync(KindOf[o])
    \/ \E k \in Kinds : Reconcile(k) \/ Fail(k)

Next == Runtime \/ Restart \/ \E k \in Kinds : Publish(k)

Spec == Init /\ [][Next]_vars

-----------------------------------------------------------------------------
(* Properties.                                                             *)

(* State stays well-typed; an object is queued at most once, with its own   *)
(* kind, and what a worker holds fits its step.                             *)
TypeOK ==
    /\ \A o \in Objects :
          /\ {store[o], cache[o].spec} \subseteq Specs[o] \cup {None}
          /\ status[o] \in BOOLEAN \cup {None}
          /\ status[o] # None => store[o] # None
          /\ stale[o] => KindOf[o] \in synced
    /\ \A k \in Kinds :
          /\ queue[k] \in Seq(ObjectsOf(k))
          /\ \A i, j \in 1 .. Len(queue[k]) : queue[k][i] = queue[k][j] => i = j
          /\ work[k].step \in {"idle", "status", "list", "rebuild"}
          /\ work[k].step # "idle" => work[k].obj \in ObjectsOf(k)
          /\ work[k].step = "status" => work[k].spec \in Specs[work[k].obj]
          /\ work[k].step = "rebuild" => DOMAIN work[k].list = ObjectsOf(k)
          /\ work[k].step # "rebuild" => work[k].list = None

(* What a controller publishes is never older than what it found when it    *)
(* started: no set is published that leaves out objects because they were   *)
(* not read yet (SetupWithManager, mgr.Start).                              *)
PublishedIsComplete ==
    \A k \in done : \A o \in ObjectsOf(k) : published[o].ver >= startVer[o]

(* A lifetime within the limit of one of the policies for its namespace;    *)
(* policies without a usable limit settle nothing.                          *)
Within(policies, spec, life) ==
    LET limits == {policies[p].spec.max : p \in {q \in ObjectsOf("TokenPolicy") :
                      /\ spec # None /\ policies[q].spec # None
                      /\ policies[q].spec.targets = None \/ spec.ns \in policies[q].spec.targets}}
    IN  limits # {} /\ limits \cap {Unset, Unparsable} = {} => \E max \in limits : life <= max

(* A lifetime is never published above the limits of the cached policies    *)
(* for its namespace, unless a policy has changed since, or its lookup      *)
(* failed: TransactionTypes are not reconciled again when a policy changes  *)
(* (rebuildGenerationRules, ClampTokenLifetime, SetupWithManager).          *)
ClampedUnlessBlind ==
    ~blind => \A o \in ObjectsOf("TransactionType") : Within(cache, published[o].spec, published[o].life)

(* What is published for an object, lifetime aside, is what its stored spec *)
(* gives, and the condition of an object that has CEL says whether it       *)
(* compiles.                                                                *)
Settled(o) ==
    /\ published[o].spec = RuleOf(o, Copy(o)).spec
    /\ store[o] # None => status[o] # None
    /\ store[o] # None /\ KindOf[o] # "TransactionType" =>
          status[o] = ConditionOf(o, store[o], None)

(* No event, conflict or error is lost on the way to the rule server: as    *)
(* soon as a kind has nothing left to do, the rules published for it are    *)
(* the ones its stored objects give and every status is written, whatever   *)
(* errors, restarts and events of the controller's own status updates came  *)
(* in between (Reconcile).                                                  *)
QuietMeansSettled ==
    \A k \in synced :
        work[k].step = "idle" /\ queue[k] = <<>> /\ (\A o \in ObjectsOf(k) : ~stale[o]) =>
            \A o \in ObjectsOf(k) : Settled(o)

=============================================================================
