-------------------------- MODULE Distribution_proofs --------------------------
(***************************************************************************)
(* Proofs for Reconcilers and for Distribution, which adds the stream to a *)
(* client.                                                                 *)
(*                                                                         *)
(* Reconcilers: no event is lost on the way to the rule server, nothing    *)
(* incomplete is published, and lifetimes are clamped.  Distribution: what *)
(* is stored is what a client enforces, and a client never goes back to    *)
(* older rules but by a restart.  A step of the system is a step of        *)
(* Reconcilers or leaves it alone, so the invariant of the first part      *)
(* holds in the second as well.                                            *)
(***************************************************************************)
EXTENDS Distribution, TLAPS

InQueue(q, x) == \E i \in 1 .. Len(q) : q[i] = x
Once(q) == \A i, j \in 1 .. Len(q) : q[i] = q[j] => i = j

(* An object that waits in the queue of its kind. *)
Queued(o) == InQueue(queue[KindOf[o]], o)

(* Most leaves are first-order and go to Zenon; the ones that need arith-   *)
(* metic, records or sequences name the SMT solver.                         *)
USE Zenon

(* The list of a kind holds every object once. *)
LEMMA AllListed ==
    ASSUME NEW S \in SUBSET Objects, NEW q \in Orders(S)
    PROVE  /\ q \in Seq(S)
           /\ \A x \in S : InQueue(q, x)
           /\ Once(q)
<1> DEFINE n == Cardinality(S)
<1>1. n \in Nat
  BY ObjectsAssumption
<1>2. q \in Injection(1 .. n, S) /\ q \in Surjection(1 .. n, S)
  BY DEF Orders, Bijection
<1>3. q \in [1 .. n -> S] /\ (\A i, j \in 1 .. n : q[i] = q[j] => i = j)
      /\ \A x \in S : \E i \in 1 .. n : q[i] = x
  BY <1>2 DEF Injection, IsInjective, Surjection
<1>4. q \in Seq(S) /\ Len(q) = n
  BY <1>1, <1>3, SMTT(40)
<1> QED
  BY <1>3, <1>4 DEF InQueue, Once

-----------------------------------------------------------------------------
(* The inductive invariant.                                                *)

AnySpec == (UNION {Specs[o] : o \in Objects}) \cup {None}
Copies == [spec : AnySpec, ver : Int, life : Int]

(* What the worker of a kind holds. *)
Works(k) ==
    [step : {"idle", "status", "list", "rebuild"}, obj : ObjectsOf(k) \cup {None},
     spec : AnySpec, current : BOOLEAN, list : [ObjectsOf(k) -> Copies] \cup {None},
     todo : SUBSET ObjectsOf(k), blind : BOOLEAN]

Types ==
    /\ store \in [Objects -> AnySpec] /\ cache \in [Objects -> Copies]
    /\ status \in [Objects -> BOOLEAN \cup {None}] /\ stale \in [Objects -> BOOLEAN]
    /\ ver \in [Objects -> Nat] /\ startVer \in [Objects -> Nat]
    /\ synced \subseteq Kinds /\ done \subseteq synced
    /\ queue \in [Kinds -> Seq(Objects)]
    /\ work = [k \in Kinds |-> work[k]]
    /\ blind \in BOOLEAN

(* The worker of a kind has its objects only, each queued once; a kind that *)
(* is not synced has done nothing, and a status is written only for the     *)
(* object as stored.                                                        *)
KindInv(k) ==
    /\ work[k] \in Works(k) /\ queue[k] \in Seq(ObjectsOf(k))
    /\ Once(queue[k])
    /\ work[k].step # "idle" => work[k].obj \in ObjectsOf(k)
    /\ work[k].step = "status" => work[k].spec \in Specs[work[k].obj]
    /\ work[k].step = "rebuild" => work[k].list \in [ObjectsOf(k) -> Copies]
    /\ work[k].step # "rebuild" => work[k].list = None
    /\ k # "TransactionType" => work[k].todo = {}
    /\ k \notin synced => work[k].step = "idle" /\ queue[k] = <<>>
    /\ work[k].step = "status" /\ work[k].current => work[k].spec = store[work[k].obj]

ObjType(o) ==
    /\ store[o] \in Specs[o] \cup {None} /\ cache[o].spec \in Specs[o] \cup {None}
    /\ status[o] # None => store[o] # None
    /\ stale[o] => KindOf[o] \in synced

(* Versions only go down from the store to the rule server, and not below   *)
(* the first list.                                                          *)
VersionInv(o) ==
    LET k == KindOf[o]
    IN  /\ published[o].ver \in Int /\ published[o].ver <= cache[o].ver
        /\ cache[o].ver <= ver[o] /\ startVer[o] <= ver[o]
        /\ k \in synced => startVer[o] <= cache[o].ver
        /\ k \in done => startVer[o] <= published[o].ver
        /\ work[k].step = "rebuild" =>
              /\ published[o].ver <= work[k].list[o].ver /\ work[k].list[o].ver <= cache[o].ver
              /\ startVer[o] <= work[k].list[o].ver

(* What is not yet as stored is still on its way: the cached copy, the rule *)
(* in the list being rebuilt, the published rule.                           *)
RuleInv(o) ==
    LET k == KindOf[o]
    IN  /\ k \notin synced => published[o] = NoCopy
        /\ k \in synced /\ ~stale[o] => cache[o] = Copy(o)
        /\ work[k].step = "rebuild" =>
              /\ work[k].list[o].spec \in Specs[o] \cup {None}
              /\ stale[o] \/ queue[k] # <<>> \/ work[k].list[o].spec = store[o]
        /\ k \in synced /\ published[o].spec # RuleOf(o, Copy(o)).spec =>
              stale[o] \/ queue[k] # <<>> \/ work[k].step # "idle"

StatusRight(o) ==
    /\ status[o] # None
    /\ KindOf[o] # "TransactionType" => status[o] = ConditionOf(o, store[o], None)

(* A status that is missing or not as the stored object asks for is going   *)
(* to be written.                                                           *)
StatusInv(o) ==
    KindOf[o] \in synced /\ store[o] # None =>
        \/ StatusRight(o) \/ stale[o] \/ Queued(o)
        \/ work[KindOf[o]].step = "status" /\ work[KindOf[o]].obj = o

ObjInv(o) == ObjType(o) /\ VersionInv(o) /\ RuleInv(o) /\ StatusInv(o)

(* Lifetimes in the list are clamped but for those still to come.           *)
LifeInv ==
    LET w == work["TransactionType"]
    IN  /\ ClampedUnlessBlind
        /\ w.step = "rebuild" /\ ~w.blind =>
              \A o \in ObjectsOf("TransactionType") \ w.todo : Within(cache, w.list[o].spec, w.list[o].life)
        /\ w.step = "rebuild" => \A o \in w.todo : w.list[o].spec # None

IInv ==
    /\ Types /\ LifeInv
    /\ \A k \in Kinds : KindInv(k)
    /\ \A o \in Objects : ObjInv(o)

-----------------------------------------------------------------------------
(* Facts about the derived rules, and frames.                              *)

LEMMA RuleFacts ==
    ASSUME NEW o \in Objects, NEW c, NEW d, c.spec = d.spec,
           c = [spec |-> c.spec, ver |-> c.ver, life |-> c.life],
           d = [spec |-> d.spec, ver |-> d.ver, life |-> d.life]
    PROVE  /\ RuleOf(o, c).ver = c.ver
           /\ RuleOf(o, c).spec = RuleOf(o, d).spec
           /\ c.spec = None => RuleOf(o, c).spec = None
           /\ c.spec # None /\ KindOf[o] = "TransactionType" => RuleOf(o, c) = c
<1>1. KindOf[o] \in Kinds
  BY KindOfAssumption
<1>2. CASE c.spec = None
  BY <1>2 DEF RuleOf
<1>3. CASE c.spec # None /\ KindOf[o] = "TransactionType"
  BY <1>3 DEF RuleOf
<1>4. CASE c.spec # None /\ KindOf[o] = "ServiceTokenRequirement"
  BY <1>4 DEF RuleOf
<1>5. CASE c.spec # None /\ KindOf[o] = "TokenPolicy"
  BY <1>5 DEF RuleOf
<1> QED
  BY <1>1, <1>2, <1>3, <1>4, <1>5 DEF Kinds

LEMMA SetAt ==
    ASSUME NEW S, NEW T, NEW f \in [S -> T], NEW x \in S, NEW v \in T
    PROVE  /\ [f EXCEPT ![x] = v] \in [S -> T]
           /\ [f EXCEPT ![x] = v][x] = v
           /\ \A y \in S \ {x} : [f EXCEPT ![x] = v][y] = f[y]
  OBVIOUS

(* An object is not affected by steps that leave it and its kind alone. *)
LEMMA SameObj ==
    ASSUME NEW o \in Objects, ObjInv(o),
           KindOf[o] \in synced' <=> KindOf[o] \in synced,
           KindOf[o] \in done' <=> KindOf[o] \in done,
           store'[o] = store[o], status'[o] = status[o], stale'[o] = stale[o],
           cache'[o] = cache[o], ver'[o] = ver[o], startVer'[o] = startVer[o],
           published'[o] = published[o], queue'[KindOf[o]] = queue[KindOf[o]],
           work'[KindOf[o]].step = work[KindOf[o]].step, work'[KindOf[o]].obj = work[KindOf[o]].obj,
           work'[KindOf[o]].list = work[KindOf[o]].list
    PROVE  ObjInv(o)'
<1>1. ObjType(o)' /\ VersionInv(o)'
  BY DEF ObjInv, ObjType, VersionInv
<1>2. RuleInv(o)'
  BY DEF ObjInv, RuleInv, Copy
<1>3. StatusInv(o)'
  BY DEF ObjInv, StatusInv, StatusRight, Queued
<1> QED
  BY <1>1, <1>2, <1>3 DEF ObjInv

(* A limit depends on the policies only. *)
LEMMA SameWithin ==
    ASSUME NEW a, NEW b, NEW spec, NEW life, Within(a, spec, life),
           \A p \in ObjectsOf("TokenPolicy") : b[p].spec = a[p].spec
    PROVE  Within(b, spec, life)
  BY SMTT(40) DEF Within

(* Nothing changes for lifetimes while list, rules and policies stay. *)
LEMMA SameLife ==
    ASSUME LifeInv, work["TransactionType"] \in Works("TransactionType"),
           work'["TransactionType"].step = "rebuild" =>
               /\ work["TransactionType"].step = "rebuild"
               /\ work'["TransactionType"].list = work["TransactionType"].list
               /\ work'["TransactionType"].todo = work["TransactionType"].todo
               /\ ~work'["TransactionType"].blind => ~work["TransactionType"].blind,
           ~blind' => ~blind,
           \A o \in ObjectsOf("TransactionType") : published'[o] = published[o],
           ~blind' \/ ~work'["TransactionType"].blind =>
               \A p \in ObjectsOf("TokenPolicy") : cache'[p].spec = cache[p].spec
    PROVE  LifeInv'
<1>1. ClampedUnlessBlind'
  <2> SUFFICES ASSUME ~blind', NEW o \in ObjectsOf("TransactionType")
               PROVE  Within(cache', published'[o].spec, published'[o].life)
    BY DEF ClampedUnlessBlind
  <2>1. Within(cache, published[o].spec, published[o].life)
    BY DEF LifeInv, ClampedUnlessBlind
  <2> QED
    BY <2>1, SameWithin
<1>2. ASSUME work'["TransactionType"].step = "rebuild", ~work'["TransactionType"].blind,
             NEW o \in ObjectsOf("TransactionType") \ work'["TransactionType"].todo
      PROVE  Within(cache', work'["TransactionType"].list[o].spec, work'["TransactionType"].list[o].life)
  <2>1. Within(cache, work["TransactionType"].list[o].spec, work["TransactionType"].list[o].life)
    BY <1>2 DEF LifeInv
  <2> QED
    BY <1>2, <2>1, SameWithin
<1>3. ASSUME work'["TransactionType"].step = "rebuild", NEW o \in work'["TransactionType"].todo
      PROVE  work'["TransactionType"].list[o].spec # None
  BY <1>3 DEF LifeInv
<1> QED
  BY <1>1, <1>2, <1>3 DEF LifeInv

(* Appending to a queue keeps what is in it. *)
LEMMA EnqueueFacts ==
    ASSUME NEW S, NEW q \in Seq(S), NEW x \in S, Once(q)
    PROVE  /\ Enqueue(q, x) \in Seq(S) /\ Enqueue(q, x) # <<>> /\ Once(Enqueue(q, x))
           /\ \A y \in S : InQueue(q, y) \/ y = x => InQueue(Enqueue(q, x), y)
<1>1. CASE InQueue(q, x)
  BY <1>1, SMTT(40) DEF Enqueue, InQueue
<1>2. CASE ~InQueue(q, x)
  <2>1. Enqueue(q, x) = Append(q, x)
    BY <1>2 DEF Enqueue, InQueue
  <2>2. /\ Append(q, x) \in Seq(S) /\ Len(Append(q, x)) = Len(q) + 1
        /\ \A i \in 1 .. Len(q) : Append(q, x)[i] = q[i]
        /\ Append(q, x)[Len(q) + 1] = x
    BY SMTT(40)
  <2>3. Append(q, x) # <<>>
    BY <2>2, SMTT(40)
  <2>4. Once(Append(q, x))
    BY <1>2, <2>2, SMTT(40) DEF Once, InQueue
  <2>5. ASSUME NEW y \in S, InQueue(q, y) \/ y = x
        PROVE  InQueue(Append(q, x), y)
    BY <2>2, <2>5, SMTT(40) DEF InQueue
  <2> QED
    BY <2>1, <2>2, <2>3, <2>4, <2>5
<1> QED
  BY <1>1, <1>2

-----------------------------------------------------------------------------
(* Every step preserves the invariant.                                     *)

LEMMA EditStep ==
    ASSUME IInv, NEW o \in Objects, NEW spec \in Specs[o] \cup {None}, Edit(o, spec)
    PROVE  IInv'
<1> DEFINE k == KindOf[o]
<1>0. /\ Types /\ LifeInv /\ k \in Kinds /\ KindInv(k) /\ ObjInv(o)
      /\ work[k] \in Works(k)
  BY KindOfAssumption DEF IInv, KindInv
<1>1. /\ store' = [store EXCEPT ![o] = spec]
      /\ status' = [status EXCEPT ![o] = IF spec = None THEN None ELSE @]
      /\ ver' = [ver EXCEPT ![o] = @ + 1]
      /\ stale' = [stale EXCEPT ![o] = k \in synced]
      /\ work' = [work EXCEPT ![k].current = @ /\ work[k].obj # o]
      /\ UNCHANGED <<cache, synced, queue, startVer, published, done, blind>>
  BY DEF Edit, publishedVars
<1>2. stale' \in [Objects -> BOOLEAN] /\ stale'[o] = (k \in synced)
      /\ \A p \in Objects \ {o} : stale'[p] = stale[p]
  <2>1. stale \in [Objects -> BOOLEAN] /\ (k \in synced) \in BOOLEAN
    BY <1>0, SMTT(40) DEF Types
  <2> QED
    BY <1>1, <2>1, SetAt
<1>3. /\ work'[k].step = work[k].step /\ work'[k].obj = work[k].obj /\ work'[k].spec = work[k].spec
      /\ work'[k].list = work[k].list /\ work'[k].todo = work[k].todo /\ work'[k].blind = work[k].blind
      /\ work'[k].current => work[k].current /\ work[k].obj # o
      /\ work'[k] \in Works(k)
      /\ \A j \in Kinds \ {k} : work'[j] = work[j]
  BY <1>0, <1>1 DEF Types, Works
<1>4. Types'
  <2>1. spec \in AnySpec
    BY DEF AnySpec
  <2>2. store' \in [Objects -> AnySpec] /\ ver' \in [Objects -> Nat]
    BY <1>0, <1>1, <2>1, SMTT(40) DEF Types
  <2>3. status' \in [Objects -> BOOLEAN \cup {None}]
    <3>1. status \in [Objects -> BOOLEAN \cup {None}]
      BY <1>0 DEF Types
    <3>2. (IF spec = None THEN None ELSE status[o]) \in BOOLEAN \cup {None}
      BY <3>1
    <3> QED
      BY <1>1, <3>1, <3>2, SetAt
  <2>4. work' = [j \in Kinds |-> work'[j]]
    BY <1>0, <1>1 DEF Types
  <2> QED
    BY <1>0, <1>1, <1>2, <2>2, <2>3, <2>4 DEF Types
<1>5. LifeInv'
  BY <1>0, <1>1, <1>3, SameLife, SMTT(40) DEF IInv, KindInv, Kinds
<1>6. ASSUME NEW j \in Kinds PROVE KindInv(j)'
  <2>1. KindInv(j)
    BY <1>6 DEF IInv
  <2>2. CASE j = k
    <3>1. work[k].step = "status" /\ work'[k].current => store'[work[k].obj] = store[work[k].obj]
      <4>1. work[k].step = "status" => work[k].obj \in Objects
        BY <1>0 DEF KindInv, ObjectsOf
      <4>2. \A p \in Objects \ {o} : store'[p] = store[p]
        BY <1>0, <1>1 DEF Types
      <4> QED
        BY <1>3, <4>1, <4>2
    <3> QED
      BY <1>0, <1>1, <1>3, <2>2, <3>1, SMTT(40) DEF KindInv
  <2>3. CASE j # k
    <3>1. work[j].step = "status" => store'[work[j].obj] = store[work[j].obj]
      BY <1>0, <1>1, <2>1, <2>3 DEF KindInv, Types, ObjectsOf
    <3> QED
      BY <1>1, <1>3, <1>6, <2>1, <2>3, <3>1 DEF KindInv
  <2> QED
    BY <2>2, <2>3
<1>7. ASSUME NEW p \in Objects PROVE ObjInv(p)'
  <2>1. CASE p = o
    <3>1. ObjType(o)'
      BY <1>0, <1>1, <1>2 DEF ObjInv, ObjType, Types
    <3>2. VersionInv(o)'
      <4>1. ver'[o] = ver[o] + 1 /\ ver[o] \in Nat /\ startVer[o] \in Nat /\ cache[o].ver \in Int
        BY <1>0, <1>1 DEF Types, Copies
      <4> QED
        BY <1>0, <1>1, <1>3, <4>1, SMTT(40) DEF ObjInv, VersionInv
    <3>3. RuleInv(o)' /\ StatusInv(o)'
      BY <1>0, <1>1, <1>2, <1>3 DEF ObjInv, RuleInv, StatusInv, KindInv
    <3> QED
      BY <2>1, <3>1, <3>2, <3>3 DEF ObjInv
  <2>2. CASE p # o
    <3>1. ObjInv(p) /\ KindOf[p] \in Kinds
      BY <1>7, KindOfAssumption DEF IInv
    <3>2. /\ store'[p] = store[p] /\ status'[p] = status[p] /\ ver'[p] = ver[p] /\ stale'[p] = stale[p]
      BY <1>0, <1>1, <1>2, <1>7, <2>2 DEF Types
    <3> QED
      BY <1>1, <1>3, <1>7, <3>1, <3>2, SameObj
  <2> QED
    BY <2>1, <2>2
<1> QED
  BY <1>4, <1>5, <1>6, <1>7 DEF IInv

(* A change to a policy is remembered where lifetimes are clamped. *)
LEMMA PolicySeenFacts ==
    ASSUME Types, \A k \in Kinds : work[k] \in Works(k), NEW changed \in BOOLEAN, PolicySeen(changed)
    PROVE  /\ work' = [j \in Kinds |-> work'[j]] /\ blind' \in BOOLEAN
           /\ \A j \in Kinds :
                 /\ work'[j] \in Works(j)
                 /\ work'[j].step = work[j].step /\ work'[j].obj = work[j].obj
                 /\ work'[j].spec = work[j].spec /\ work'[j].current = work[j].current
                 /\ work'[j].list = work[j].list /\ work'[j].todo = work[j].todo
           /\ ~blind' => ~blind /\ ~changed
           /\ ~work'["TransactionType"].blind => ~work["TransactionType"].blind /\ ~changed
<1>0. "TransactionType" \in Kinds
  BY DEF Kinds
<1>1. CASE ~changed
  BY <1>1 DEF PolicySeen, Types
<1>2. CASE changed
  <2>1. blind' = TRUE /\ work' = [work EXCEPT !["TransactionType"].blind = TRUE]
    BY <1>2 DEF PolicySeen
  <2>2. work' = [j \in Kinds |-> work'[j]] /\ \A j \in Kinds \ {"TransactionType"} : work'[j] = work[j]
    BY <2>1 DEF Types
  <2>3. work'["TransactionType"] = [work["TransactionType"] EXCEPT !.blind = TRUE]
    BY <1>0, <2>1 DEF Types
  <2>4. /\ work'["TransactionType"] \in Works("TransactionType") /\ work'["TransactionType"].blind = TRUE
        /\ work'["TransactionType"].step = work["TransactionType"].step
        /\ work'["TransactionType"].obj = work["TransactionType"].obj
        /\ work'["TransactionType"].spec = work["TransactionType"].spec
        /\ work'["TransactionType"].current = work["TransactionType"].current
        /\ work'["TransactionType"].list = work["TransactionType"].list
        /\ work'["TransactionType"].todo = work["TransactionType"].todo
    BY <1>0, <2>3 DEF Works
  <2> QED
    BY <2>1, <2>2, <2>4
<1> QED
  BY <1>1, <1>2

LEMMA DeliverStep ==
    ASSUME IInv, NEW o \in Objects, Deliver(o)
    PROVE  IInv'
<1> DEFINE k == KindOf[o]
           changed == k = "TokenPolicy" /\ cache[o] # Copy(o)
<1>0. /\ Types /\ LifeInv /\ k \in Kinds /\ KindInv(k) /\ ObjInv(o)
      /\ \A j \in Kinds : work[j] \in Works(j)
      /\ "TransactionType" \in Kinds /\ o \in ObjectsOf(k) /\ k \in synced
  <2>1. k \in Kinds /\ "TransactionType" \in Kinds /\ o \in ObjectsOf(k)
    BY KindOfAssumption DEF Kinds, ObjectsOf
  <2>2. Types /\ LifeInv /\ KindInv(k) /\ ObjInv(o) /\ \A j \in Kinds : work[j] \in Works(j)
    BY <2>1 DEF IInv, KindInv
  <2>3. k \in synced
    BY <2>2 DEF ObjInv, ObjType, Deliver
  <2> QED
    BY <2>1, <2>2, <2>3
<1>1. /\ stale' = [stale EXCEPT ![o] = FALSE]
      /\ cache' = [cache EXCEPT ![o] = Copy(o)]
      /\ queue' = [queue EXCEPT ![k] = Enqueue(@, o)]
      /\ PolicySeen(changed)
      /\ UNCHANGED <<store, status, ver, synced, startVer, published, done>>
  BY DEF Deliver, apiVars
<1>2. /\ work' = [j \in Kinds |-> work'[j]] /\ blind' \in BOOLEAN
      /\ \A j \in Kinds :
            /\ work'[j] \in Works(j)
            /\ work'[j].step = work[j].step /\ work'[j].obj = work[j].obj
            /\ work'[j].spec = work[j].spec /\ work'[j].current = work[j].current
            /\ work'[j].list = work[j].list /\ work'[j].todo = work[j].todo
      /\ ~blind' => ~blind /\ ~changed
      /\ ~work'["TransactionType"].blind => ~work["TransactionType"].blind /\ ~changed
  <2>1. changed \in BOOLEAN
    OBVIOUS
  <2> HIDE DEF changed
  <2> QED
    BY <1>0, <1>1, <2>1, PolicySeenFacts
<1>3. stale' \in [Objects -> BOOLEAN] /\ ~stale'[o] /\ \A p \in Objects \ {o} : stale'[p] = stale[p]
  BY <1>0, <1>1, SetAt DEF Types
<1>4. Copy(o) \in Copies /\ Copy(o).spec = store[o] /\ Copy(o).ver = ver[o]
  BY <1>0, SMTT(40) DEF Types, Copy, Copies, Unset
<1>5. cache' \in [Objects -> Copies] /\ cache'[o] = Copy(o) /\ \A p \in Objects \ {o} : cache'[p] = cache[p]
  BY <1>0, <1>1, <1>4 DEF Types
<1>6. /\ queue'[k] = Enqueue(queue[k], o) /\ \A j \in Kinds \ {k} : queue'[j] = queue[j]
      /\ queue'[k] \in Seq(ObjectsOf(k)) /\ queue'[k] # <<>> /\ Once(queue'[k])
      /\ \A p \in ObjectsOf(k) : InQueue(queue[k], p) \/ p = o => InQueue(queue'[k], p)
  <2>1. queue'[k] = Enqueue(queue[k], o) /\ \A j \in Kinds \ {k} : queue'[j] = queue[j]
    BY <1>0, <1>1 DEF Types
  <2>2. queue[k] \in Seq(ObjectsOf(k)) /\ o \in ObjectsOf(k) /\ Once(queue[k])
    BY <1>0 DEF KindInv
  <2> QED
    BY <2>1, <2>2, EnqueueFacts, SMTT(40)
<1>7. Types'
  <2>1. queue' \in [Kinds -> Seq(Objects)]
    <3>1. queue'[k] \in Seq(Objects)
      BY <1>6, SMTT(40) DEF ObjectsOf
    <3> QED
      BY <1>0, <1>1, <1>6, <3>1 DEF Types
  <2> QED
    BY <1>0, <1>1, <1>2, <1>3, <1>5, <2>1 DEF Types
<1>8. LifeInv'
  <2>1. ~changed => \A p \in ObjectsOf("TokenPolicy") : cache'[p].spec = cache[p].spec
    BY <1>5 DEF ObjectsOf
  <2> HIDE DEF changed
  <2> QED
    BY <1>0, <1>1, <1>2, <2>1, SameLife
<1>9. ASSUME NEW j \in Kinds PROVE KindInv(j)'
  BY <1>0, <1>1, <1>2, <1>6, <1>9, SMTT(40) DEF IInv, KindInv
<1>10. ASSUME NEW p \in Objects PROVE ObjInv(p)'
  <2>0. ObjInv(p) /\ KindOf[p] \in Kinds
    BY <1>10, KindOfAssumption DEF IInv
  <2>1. CASE p = o
    <3>1. ObjType(o)'
      BY <1>0, <1>1, <1>3, <1>4, <1>5 DEF ObjInv, ObjType
    <3>2. VersionInv(o)'
      <4>1. ver[o] \in Nat /\ startVer[o] \in Nat /\ cache[o].ver \in Int
        BY <1>0 DEF Types, Copies
      <4>2. work[k].step = "rebuild" => work[k].list[o].ver \in Int
        BY <1>0 DEF KindInv, Copies
      <4> QED
        BY <1>0, <1>1, <1>2, <1>4, <1>5, <4>1, <4>2, SMTT(40) DEF ObjInv, VersionInv
    <3>3. RuleInv(o)'
      BY <1>0, <1>1, <1>2, <1>3, <1>4, <1>5, <1>6 DEF ObjInv, RuleInv, Copy
    <3>4. StatusInv(o)'
      BY <1>0, <1>6 DEF StatusInv, Queued
    <3> QED
      BY <2>1, <3>1, <3>2, <3>3, <3>4 DEF ObjInv
  <2>2. CASE p # o /\ KindOf[p] = k
    <3>1. ObjType(p)' /\ VersionInv(p)'
      BY <1>0, <1>1, <1>2, <1>3, <1>5, <1>10, <2>0, <2>2 DEF ObjInv, ObjType, VersionInv
    <3>2. RuleInv(p)'
      BY <1>0, <1>1, <1>2, <1>3, <1>5, <1>6, <1>10, <2>0, <2>2 DEF ObjInv, RuleInv, Copy
    <3>3. StatusInv(p)'
      BY <1>0, <1>1, <1>2, <1>3, <1>6, <1>10, <2>0, <2>2
         DEF ObjInv, StatusInv, StatusRight, Queued, ObjectsOf
    <3> QED
      BY <3>1, <3>2, <3>3 DEF ObjInv
  <2>3. CASE KindOf[p] # k
    BY <1>1, <1>2, <1>3, <1>5, <1>6, <1>10, <2>0, <2>3, SameObj
  <2> QED
    BY <2>1, <2>2, <2>3
<1> QED
  BY <1>7, <1>8, <1>9, <1>10 DEF IInv

LEMMA SyncStep ==
    ASSUME IInv, NEW k \in Kinds, Sync(k)
    PROVE  IInv'
<1> DEFINE S == {o \in ObjectsOf(k) : store[o] # None}
<1>0. /\ Types /\ LifeInv /\ KindInv(k) /\ "TransactionType" \in Kinds
      /\ \A j \in Kinds : work[j] \in Works(j)
      /\ k \notin synced
  BY DEF IInv, KindInv, Kinds, Sync
<1>1. PICK q \in Orders(S) : queue' = [queue EXCEPT ![k] = q]
  BY DEF Sync
<1>2. /\ synced' = synced \cup {k}
      /\ startVer' = [o \in Objects |-> IF KindOf[o] = k THEN ver[o] ELSE startVer[o]]
      /\ cache' = [o \in Objects |-> IF KindOf[o] = k THEN Copy(o) ELSE cache[o]]
      /\ PolicySeen(k = "TokenPolicy")
      /\ UNCHANGED <<store, status, ver, stale, published, done>>
  BY DEF Sync, apiVars
<1>3. /\ work' = [j \in Kinds |-> work'[j]] /\ blind' \in BOOLEAN
      /\ \A j \in Kinds :
            /\ work'[j] \in Works(j)
            /\ work'[j].step = work[j].step /\ work'[j].obj = work[j].obj
            /\ work'[j].spec = work[j].spec /\ work'[j].current = work[j].current
            /\ work'[j].list = work[j].list /\ work'[j].todo = work[j].todo
      /\ ~blind' => ~blind /\ k # "TokenPolicy"
      /\ ~work'["TransactionType"].blind => ~work["TransactionType"].blind /\ k # "TokenPolicy"
  BY <1>0, <1>2, PolicySeenFacts
<1>4. q \in Seq(S) /\ Once(q) /\ \A x \in S : InQueue(q, x)
  <2>1. S \in SUBSET Objects
    BY DEF ObjectsOf
  <2> HIDE DEF S
  <2> QED
    BY <1>1, <2>1, AllListed
<1>5. queue'[k] = q /\ \A j \in Kinds \ {k} : queue'[j] = queue[j]
  BY <1>0, <1>1 DEF Types
<1>6. \A o \in Objects : Copy(o) \in Copies /\ Copy(o).spec = store[o] /\ Copy(o).ver = ver[o]
  BY <1>0, SMTT(40) DEF Types, Copy, Copies, Unset
<1>7. Types'
  <2>1. queue' \in [Kinds -> Seq(Objects)]
    <3>1. q \in Seq(Objects)
      BY <1>4, SMTT(40) DEF ObjectsOf
    <3> QED
      BY <1>0, <1>1, <3>1 DEF Types
  <2>2. cache' \in [Objects -> Copies] /\ startVer' \in [Objects -> Nat]
    BY <1>0, <1>2, <1>6 DEF Types
  <2> QED
    BY <1>0, <1>2, <1>3, <2>1, <2>2 DEF Types
<1>8. LifeInv'
  <2>1. k # "TokenPolicy" => \A p \in ObjectsOf("TokenPolicy") : cache'[p].spec = cache[p].spec
    BY <1>2 DEF ObjectsOf
  <2> QED
    BY <1>0, <1>2, <1>3, <2>1, SameLife
<1>9. ASSUME NEW j \in Kinds PROVE KindInv(j)'
  <2>1. KindInv(j)
    BY <1>9 DEF IInv
  <2>2. q \in Seq(ObjectsOf(k))
    BY <1>4, SMTT(40)
  <2> QED
    BY <1>0, <1>2, <1>3, <1>4, <1>5, <1>9, <2>1, <2>2 DEF KindInv
<1>10. ASSUME NEW p \in Objects PROVE ObjInv(p)'
  <2>0. ObjInv(p) /\ KindOf[p] \in Kinds
    BY <1>10, KindOfAssumption DEF IInv
  <2>1. CASE KindOf[p] = k
    <3>0. /\ cache'[p] = Copy(p) /\ startVer'[p] = ver[p] /\ ver[p] \in Nat
          /\ ~stale[p] /\ published[p] = NoCopy /\ k \notin done /\ work[k].step = "idle"
      BY <1>0, <1>2, <1>10, <2>0, <2>1 DEF Types, KindInv, ObjInv, ObjType, RuleInv
    <3>1. ObjType(p)'
      BY <1>2, <1>6, <1>10, <2>0, <2>1, <3>0 DEF ObjInv, ObjType
    <3>2. VersionInv(p)'
      BY <1>2, <1>3, <1>6, <1>10, <2>0, <2>1, <3>0, SMTT(40) DEF VersionInv, NoCopy
    <3>3. RuleInv(p)'
      <4>1. store[p] # None => queue'[k] # <<>>
        <5>1. store[p] # None => InQueue(q, p)
          BY <1>4, <1>10, <2>1 DEF ObjectsOf
        <5> QED
          BY <1>4, <1>5, <5>1, SMTT(40) DEF InQueue
      <4>2. store[p] = None => RuleOf(p, Copy(p)).spec = None
        BY <1>10, RuleFacts DEF Copy
      <4>3. Copy(p)' = Copy(p)
        BY <1>2 DEF Copy
      <4>4. published'[p].spec # RuleOf(p, Copy(p)).spec => queue'[k] # <<>>
        BY <1>2, <3>0, <4>1, <4>2, SMTT(40) DEF NoCopy
      <4> QED
        BY <1>2, <1>3, <2>0, <2>1, <3>0, <4>3, <4>4 DEF RuleInv
    <3>4. StatusInv(p)'
      BY <1>2, <1>4, <1>5, <1>10, <2>1 DEF StatusInv, Queued, ObjectsOf
    <3> QED
      BY <3>1, <3>2, <3>3, <3>4 DEF ObjInv
  <2>2. CASE KindOf[p] # k
    BY <1>2, <1>3, <1>5, <1>10, <2>0, <2>2, SameObj
  <2> QED
    BY <2>1, <2>2
<1> QED
  BY <1>7, <1>8, <1>9, <1>10 DEF IInv

(* A new process: nothing is cached, queued, in work or published. *)
NewProcess ==
    /\ store \in [Objects -> AnySpec] /\ ver \in [Objects -> Nat]
    /\ status \in [Objects -> BOOLEAN \cup {None}]
    /\ \A o \in Objects : store[o] \in Specs[o] \cup {None} /\ (status[o] # None => store[o] # None)
    /\ cache = [o \in Objects |-> NoCopy] /\ stale = [o \in Objects |-> FALSE]
    /\ synced = {} /\ queue = [k \in Kinds |-> <<>>] /\ work = [k \in Kinds |-> Idle]
    /\ published = [o \in Objects |-> NoCopy] /\ startVer = [o \in Objects |-> 0]
    /\ done = {} /\ blind = FALSE

LEMMA NewProcessIInv == NewProcess => IInv
<1> SUFFICES ASSUME NewProcess PROVE IInv
  OBVIOUS
<1>1. NoCopy \in Copies /\ NoCopy.spec = None /\ NoCopy.ver = -1
  BY SMTT(40) DEF NoCopy, Copies, AnySpec, Unset
<1>2. \A k \in Kinds : work[k] = Idle /\ queue[k] = <<>>
  BY DEF NewProcess
<1>3. \A k \in Kinds : Idle \in Works(k)
  BY DEF Idle, Works, AnySpec
<1>4. Idle.step = "idle" /\ Idle.list = None
  BY DEF Idle
<1>9. Idle.todo = {}
  BY DEF Idle
<1>5. Types
  <2>1. stale \in [Objects -> BOOLEAN] /\ blind \in BOOLEAN
    BY DEF NewProcess
  <2>2. cache \in [Objects -> Copies] /\ startVer \in [Objects -> Nat]
    BY <1>1 DEF NewProcess
  <2>3. queue \in [Kinds -> Seq(Objects)]
    <3>1. <<>> \in Seq(Objects)
      BY SMTT(40)
    <3> QED
      BY <3>1 DEF NewProcess
  <2>4. work = [k \in Kinds |-> work[k]] /\ synced \subseteq Kinds /\ done \subseteq synced
    BY DEF NewProcess
  <2> QED
    BY <2>1, <2>2, <2>3, <2>4 DEF Types, NewProcess
<1>6. \A k \in Kinds : KindInv(k)
  <2>1. \A k \in Kinds : <<>> \in Seq(ObjectsOf(k)) /\ Once(<<>>)
    BY SMTT(40) DEF Once
  <2> QED
    BY <1>2, <1>3, <1>4, <1>9, <2>1 DEF KindInv
<1>7. ASSUME NEW o \in Objects PROVE ObjInv(o)
  <2>0. /\ cache[o] = NoCopy /\ published[o] = NoCopy /\ startVer[o] = 0 /\ ~stale[o]
        /\ synced = {} /\ done = {} /\ store[o] \in Specs[o] \cup {None} /\ (status[o] # None => store[o] # None)
    BY DEF NewProcess
  <2>1. KindOf[o] \in Kinds
    BY KindOfAssumption
  <2>2. ver[o] \in Nat /\ work[KindOf[o]].step = "idle"
    BY <1>2, <1>4, <2>1 DEF NewProcess
  <2>3. ObjType(o)
    BY <1>1, <2>0 DEF ObjType
  <2>4. VersionInv(o)
    BY <1>1, <2>0, <2>2, SMTT(40) DEF VersionInv
  <2>5. RuleInv(o) /\ StatusInv(o)
    BY <2>0, <2>2 DEF RuleInv, StatusInv
  <2> QED
    BY <2>3, <2>4, <2>5 DEF ObjInv
<1>8. LifeInv
  <2>1. ASSUME NEW o \in ObjectsOf("TransactionType")
        PROVE  Within(cache, published[o].spec, published[o].life)
    <3>1. published[o].spec = None
      BY <1>1 DEF NewProcess, ObjectsOf
    <3> QED
      BY <3>1 DEF Within
  <2>2. work["TransactionType"].step = "idle"
    BY <1>2, <1>4 DEF Kinds
  <2> QED
    BY <2>1, <2>2 DEF LifeInv, ClampedUnlessBlind
<1> QED
  BY <1>5, <1>6, <1>7, <1>8 DEF IInv

LEMMA RestartStep ==
    ASSUME IInv, Restart
    PROVE  IInv'
<1>1. Types /\ \A o \in Objects : ObjType(o)
  BY DEF IInv, ObjInv
<1>2. /\ store \in [Objects -> AnySpec] /\ ver \in [Objects -> Nat]
      /\ status \in [Objects -> BOOLEAN \cup {None}]
      /\ \A o \in Objects : store[o] \in Specs[o] \cup {None} /\ (status[o] # None => store[o] # None)
  BY <1>1 DEF Types, ObjType
<1>3. NewProcess'
  BY <1>2 DEF Restart, apiVars, NewProcess
<1> QED
  BY <1>3, NewProcessIInv, PTL

LEMMA InitIInv == Init => IInv
<1> SUFFICES ASSUME Init PROVE NewProcess
  BY NewProcessIInv
<1>1. \A o \in Objects : store[o] \in Specs[o] \cup {None}
  BY SpecsAssumption DEF Init
<1>2. store \in [Objects -> AnySpec]
  BY <1>1 DEF AnySpec, Init
<1>3. ver \in [Objects -> Nat]
  BY DEF Init
<1>4. status \in [Objects -> BOOLEAN \cup {None}] /\ \A o \in Objects : status[o] = None
  BY DEF Init
<1> QED
  BY <1>1, <1>2, <1>3, <1>4 DEF Init, NewProcess

-----------------------------------------------------------------------------
(* The steps of Reconcile change their own kind only. *)
LEMMA OtherKinds ==
    ASSUME IInv, NEW k \in Kinds,
           UNCHANGED <<store, ver, cache, synced, startVer>>,
           \A j \in Kinds \ {k} : work'[j] = work[j] /\ queue'[j] = queue[j],
           \A j \in Kinds \ {k} : j \in done' <=> j \in done,
           \A p \in Objects \ ObjectsOf(k) :
               status'[p] = status[p] /\ stale'[p] = stale[p] /\ published'[p] = published[p]
    PROVE  /\ \A j \in Kinds \ {k} : KindInv(j)'
           /\ \A p \in Objects \ ObjectsOf(k) : ObjInv(p)'
<1>1. ASSUME NEW j \in Kinds \ {k} PROVE KindInv(j)'
  <2>1. KindInv(j)
    BY DEF IInv
  <2> QED
    BY <2>1 DEF KindInv
<1>2. ASSUME NEW p \in Objects \ ObjectsOf(k) PROVE ObjInv(p)'
  <2>1. KindOf[p] \in Kinds \ {k} /\ ObjInv(p)
    BY KindOfAssumption DEF IInv, ObjectsOf
  <2> QED
    BY <2>1, SameObj
<1> QED
  BY <1>1, <1>2

(* Without a list being rebuilt or published, versions stay as they are. *)
LEMMA SameVersion ==
    ASSUME NEW o \in Objects, VersionInv(o), work'[KindOf[o]].step # "rebuild",
           UNCHANGED <<store, ver, cache, synced, startVer, published, done>>
    PROVE  VersionInv(o)'
  BY DEF VersionInv

LEMMA TailFacts ==
    ASSUME NEW S, NEW q \in Seq(S), q # <<>>, Once(q)
    PROVE  /\ Head(q) \in S /\ Tail(q) \in Seq(S) /\ Once(Tail(q))
           /\ \A y \in S : InQueue(q, y) => y = Head(q) \/ InQueue(Tail(q), y)
<1>1. /\ Len(q) \in Nat /\ Len(q) > 0 /\ Head(q) = q[1] /\ q[1] \in S
      /\ Tail(q) \in Seq(S) /\ Len(Tail(q)) = Len(q) - 1
      /\ \A i \in 1 .. Len(q) - 1 : Tail(q)[i] = q[i + 1]
  BY SMTT(40)
<1>2. Once(Tail(q))
  BY <1>1, SMTT(40) DEF Once
<1>3. ASSUME NEW y \in S, InQueue(q, y), y # Head(q) PROVE InQueue(Tail(q), y)
  <2>1. PICK i \in 1 .. Len(q) : q[i] = y
    BY <1>3 DEF InQueue
  <2>2. i # 1 /\ i - 1 \in 1 .. Len(q) - 1
    BY <1>1, <1>3, <2>1, SMTT(40)
  <2>3. Tail(q)[i - 1] = y
    BY <1>1, <2>1, <2>2, SMTT(40)
  <2> QED
    BY <1>1, <2>2, <2>3 DEF InQueue
<1> QED
  BY <1>1, <1>2, <1>3

LEMMA NewWork ==
    ASSUME NEW k, NEW st \in {"list", "status"}, NEW o \in ObjectsOf(k), NEW spec \in AnySpec,
           NEW cur \in BOOLEAN, NEW w,
           w = [step |-> st, obj |-> o, spec |-> spec, current |-> cur, list |-> None,
                todo |-> {}, blind |-> FALSE]
    PROVE  /\ w.step = st /\ w.obj = o /\ w.spec = spec /\ w.current = cur
           /\ w.list = None /\ w.todo = {} /\ w \in Works(k)
  BY DEF Works

LEMMA GetStep ==
    ASSUME IInv, NEW k \in Kinds, Get(k)
    PROVE  IInv'
<1> DEFINE o == Head(queue[k])
           spec == cache[o].spec
<1>0. /\ Types /\ LifeInv /\ KindInv(k) /\ "TransactionType" \in Kinds
      /\ work[k].step = "idle" /\ k \in synced /\ queue[k] # <<>>
  BY DEF IInv, Kinds, Get
<1>1. /\ o \in ObjectsOf(k) /\ Tail(queue[k]) \in Seq(ObjectsOf(k)) /\ Once(Tail(queue[k]))
      /\ \A p \in ObjectsOf(k) : InQueue(queue[k], p) => p = o \/ InQueue(Tail(queue[k]), p)
  BY <1>0, TailFacts DEF KindInv
<1>2. /\ work' = [work EXCEPT ![k] = [Idle EXCEPT !.step = IF spec = None THEN "list" ELSE "status",
                                                  !.obj = o, !.spec = spec, !.current = ~stale[o]]]
      /\ queue' = [queue EXCEPT ![k] = Tail(@)]
      /\ UNCHANGED <<store, status, ver, cache, stale, synced, startVer, published, done, blind>>
  BY DEF Get, apiVars, publishedVars
<1>3. queue'[k] = Tail(queue[k]) /\ \A j \in Kinds \ {k} : queue'[j] = queue[j]
  BY <1>0, <1>2 DEF Types
<1>4. work' = [j \in Kinds |-> work'[j]] /\ \A j \in Kinds \ {k} : work'[j] = work[j]
  BY <1>0, <1>2 DEF Types
<1>5. o \in Objects /\ KindOf[o] = k /\ ObjInv(o)
  BY <1>1 DEF ObjectsOf, IInv
<1>6. /\ spec \in Specs[o] \cup {None} /\ spec \in AnySpec
      /\ ~stale[o] => spec = store[o]
      /\ stale[o] \in BOOLEAN
  <2>1. spec \in Specs[o] \cup {None}
    BY <1>5 DEF ObjInv, ObjType
  <2>2. ~stale[o] => spec = store[o]
    <3>1. ~stale[o] => cache[o] = Copy(o)
      BY <1>0, <1>5 DEF ObjInv, RuleInv
    <3> QED
      BY <3>1, SMTT(40) DEF Copy
  <2>3. stale[o] \in BOOLEAN
    BY <1>0, <1>5 DEF Types
  <2>4. spec \in AnySpec
    BY <1>5, <2>1 DEF AnySpec
  <2> QED
    BY <2>1, <2>2, <2>3, <2>4
<1>7. work'[k] = [step |-> IF spec = None THEN "list" ELSE "status", obj |-> o, spec |-> spec,
                  current |-> ~stale[o], list |-> None, todo |-> {}, blind |-> FALSE]
  BY <1>0, <1>2 DEF Types, Idle
<1>8. /\ work'[k].step = (IF spec = None THEN "list" ELSE "status") /\ work'[k].obj = o
      /\ work'[k].spec = spec /\ (work'[k].current => ~stale[o]) /\ work'[k].list = None
      /\ work'[k].todo = {} /\ work'[k] \in Works(k)
  <2> DEFINE st == IF spec = None THEN "list" ELSE "status"
             cur == ~stale[o]
  <2>1. st \in {"list", "status"} /\ o \in ObjectsOf(k) /\ spec \in AnySpec /\ cur \in BOOLEAN
    BY <1>1, <1>6
  <2>2. work'[k] = [step |-> st, obj |-> o, spec |-> spec, current |-> cur, list |-> None,
                    todo |-> {}, blind |-> FALSE]
    BY <1>7
  <2> HIDE DEF st, cur, o, spec
  <2>3. /\ work'[k].step = st /\ work'[k].obj = o /\ work'[k].spec = spec /\ work'[k].current = cur
        /\ work'[k].list = None /\ work'[k].todo = {} /\ work'[k] \in Works(k)
    BY <2>1, <2>2, NewWork, SMTT(40)
  <2> QED
    BY <2>3 DEF st, cur
<1>9. Types'
  <2>1. queue' \in [Kinds -> Seq(Objects)]
    <3>1. Tail(queue[k]) \in Seq(Objects)
      BY <1>1, SMTT(40) DEF ObjectsOf
    <3> QED
      BY <1>0, <1>2, <3>1 DEF Types
  <2> QED
    BY <1>0, <1>2, <1>4, <2>1 DEF Types
<1>10. LifeInv'
  <2>1. work["TransactionType"] \in Works("TransactionType")
    BY <1>0 DEF IInv, KindInv
  <2> QED
    BY <1>0, <1>2, <1>4, <1>8, <2>1, SameLife, SMTT(40)
<1>11. KindInv(k)'
  BY <1>0, <1>1, <1>2, <1>3, <1>6, <1>8, SMTT(40) DEF KindInv
<1>12. ASSUME NEW p \in ObjectsOf(k) PROVE ObjInv(p)'
  <2>0. ObjInv(p) /\ p \in Objects /\ KindOf[p] = k
    BY <1>12 DEF IInv, ObjectsOf
  <2>1. ObjType(p)'
    BY <1>2, <2>0 DEF ObjInv, ObjType
  <2>2. VersionInv(p)'
    BY <1>2, <1>8, <2>0, SameVersion, SMTT(40) DEF ObjInv
  <2>3. RuleInv(p)'
    BY <1>2, <1>8, <2>0, SMTT(40) DEF ObjInv, RuleInv, Copy
  <2>4. StatusInv(p)'
    <3> SUFFICES ASSUME store[p] # None, ~StatusRight(p), ~stale[p], ~InQueue(queue'[k], p)
                 PROVE  work'[k].step = "status" /\ work'[k].obj = p
      BY <1>2, <2>0 DEF StatusInv, StatusRight, Queued
    <3>1. InQueue(queue[k], p)
      BY <1>0, <2>0 DEF ObjInv, StatusInv, Queued
    <3>2. p = o
      BY <1>1, <1>3, <3>1
    <3> QED
      BY <1>6, <1>8, <3>2
  <2> QED
    BY <2>1, <2>2, <2>3, <2>4 DEF ObjInv
<1> QED
  BY <1>2, <1>3, <1>4, <1>9, <1>10, <1>11, <1>12, OtherKinds DEF IInv

LEMMA FailStep ==
    ASSUME IInv, NEW k \in Kinds, Fail(k)
    PROVE  IInv'
<1> DEFINE o == work[k].obj
<1>0. /\ Types /\ LifeInv /\ KindInv(k) /\ "TransactionType" \in Kinds
      /\ work[k].step \in {"status", "list"} /\ k \in synced
  BY DEF IInv, Kinds, Fail, KindInv
<1>1. /\ work' = [work EXCEPT ![k] = Idle]
      /\ queue' = [queue EXCEPT ![k] = Enqueue(@, o)]
      /\ UNCHANGED <<store, status, ver, cache, stale, synced, startVer, published, done, blind>>
  BY DEF Fail, apiVars, publishedVars
<1>2. /\ queue'[k] = Enqueue(queue[k], o) /\ \A j \in Kinds \ {k} : queue'[j] = queue[j]
      /\ queue'[k] \in Seq(ObjectsOf(k)) /\ queue'[k] # <<>> /\ Once(queue'[k])
      /\ \A p \in ObjectsOf(k) : InQueue(queue[k], p) \/ p = o => InQueue(queue'[k], p)
  <2>1. queue'[k] = Enqueue(queue[k], o) /\ \A j \in Kinds \ {k} : queue'[j] = queue[j]
    BY <1>0, <1>1 DEF Types
  <2>2. queue[k] \in Seq(ObjectsOf(k)) /\ o \in ObjectsOf(k) /\ Once(queue[k])
    BY <1>0 DEF KindInv
  <2> HIDE DEF o
  <2>3. /\ Enqueue(queue[k], o) \in Seq(ObjectsOf(k)) /\ Enqueue(queue[k], o) # <<>>
        /\ Once(Enqueue(queue[k], o))
        /\ \A p \in ObjectsOf(k) : InQueue(queue[k], p) \/ p = o => InQueue(Enqueue(queue[k], o), p)
    BY <2>2, EnqueueFacts, SMTT(40)
  <2> QED
    BY <2>1, <2>3
<1>3. work' = [j \in Kinds |-> work'[j]] /\ work'[k] = Idle /\ \A j \in Kinds \ {k} : work'[j] = work[j]
  BY <1>0, <1>1 DEF Types
<1>4. Types'
  <2>1. queue' \in [Kinds -> Seq(Objects)]
    <3>1. queue'[k] \in Seq(Objects)
      BY <1>2, SMTT(40) DEF ObjectsOf
    <3> QED
      BY <1>0, <1>1, <1>2, <3>1 DEF Types
  <2> QED
    BY <1>0, <1>1, <1>3, <2>1 DEF Types
<1>5. Idle \in Works(k) /\ Idle.step = "idle" /\ Idle.list = None /\ Idle.todo = {}
  BY DEF Idle, Works, AnySpec
<1>6. LifeInv'
  <2>1. work["TransactionType"] \in Works("TransactionType")
    BY <1>0 DEF IInv, KindInv
  <2> QED
    BY <1>0, <1>1, <1>3, <1>5, <2>1, SameLife
<1>7. KindInv(k)'
  BY <1>0, <1>1, <1>2, <1>3, <1>5 DEF KindInv
<1>8. ASSUME NEW p \in ObjectsOf(k) PROVE ObjInv(p)'
  <2>0. ObjInv(p) /\ p \in Objects /\ KindOf[p] = k
    BY <1>8 DEF IInv, ObjectsOf
  <2>1. ObjType(p)'
    BY <1>1, <2>0 DEF ObjInv, ObjType
  <2>2. VersionInv(p)'
    BY <1>1, <1>3, <1>5, <2>0, SameVersion DEF ObjInv
  <2>3. RuleInv(p)'
    BY <1>1, <1>2, <1>3, <1>5, <2>0 DEF ObjInv, RuleInv, Copy
  <2>4. StatusInv(p)'
    BY <1>1, <1>2, <2>0 DEF ObjInv, StatusInv, StatusRight, Queued
  <2> QED
    BY <2>1, <2>2, <2>3, <2>4 DEF ObjInv
<1> QED
  BY <1>1, <1>2, <1>3, <1>4, <1>6, <1>7, <1>8, OtherKinds DEF IInv

LEMMA UpdateStatusStep ==
    ASSUME IInv, NEW k \in Kinds, UpdateStatus(k)
    PROVE  IInv'
<1> DEFINE o == work[k].obj
<1>0. /\ Types /\ LifeInv /\ KindInv(k) /\ "TransactionType" \in Kinds
      /\ work[k].step = "status" /\ work[k].current /\ k \in synced
  BY DEF IInv, Kinds, UpdateStatus, KindInv
<1>1. /\ o \in Objects /\ KindOf[o] = k /\ o \in ObjectsOf(k) /\ ObjInv(o)
      /\ work[k].spec = store[o] /\ store[o] # None
  BY <1>0, SpecsAssumption, SMTT(40) DEF KindInv, ObjectsOf, IInv
<1>2. PICK policy : /\ k # "TransactionType" => policy = None
                    /\ status' = [status EXCEPT ![o] = ConditionOf(o, work[k].spec, policy)]
                    /\ \/ stale' = [stale EXCEPT ![o] = TRUE]
                       \/ UNCHANGED stale
  BY DEF UpdateStatus
<1> DEFINE condition == ConditionOf(o, work[k].spec, policy)
<1>3. /\ work' = [work EXCEPT ![k].step = "list", ![k].spec = None, ![k].current = FALSE]
      /\ UNCHANGED <<store, ver, cache, synced, queue, startVer, published, done, blind>>
  BY DEF UpdateStatus, publishedVars
<1>4. condition \in BOOLEAN
  BY DEF ConditionOf, ValidateTransactionTypeAgainstPolicy
<1>5. /\ status' \in [Objects -> BOOLEAN \cup {None}] /\ status'[o] = condition
      /\ \A p \in Objects \ {o} : status'[p] = status[p]
  <2>1. status \in [Objects -> BOOLEAN \cup {None}] /\ condition \in BOOLEAN \cup {None}
    BY <1>0, <1>4 DEF Types
  <2> HIDE DEF condition
  <2>2. status' = [status EXCEPT ![o] = condition]
    BY <1>2 DEF condition
  <2> QED
    BY <1>1, <2>1, <2>2, SetAt
<1>6. /\ stale' \in [Objects -> BOOLEAN] /\ (stale[o] => stale'[o])
      /\ \A p \in Objects \ {o} : stale'[p] = stale[p]
  <2>1. stale \in [Objects -> BOOLEAN] /\ TRUE \in BOOLEAN
    BY <1>0 DEF Types
  <2>2. CASE UNCHANGED stale
    BY <2>1, <2>2
  <2>3. CASE stale' = [stale EXCEPT ![o] = TRUE]
    BY <1>1, <2>1, <2>3, SetAt
  <2> QED
    BY <1>2, <2>2, <2>3
<1>7. /\ work'[k].step = "list" /\ work'[k].obj = o /\ ~work'[k].current
      /\ work'[k].list = work[k].list /\ work'[k].todo = work[k].todo /\ work'[k] \in Works(k)
  <2>1. work[k] \in Works(k) /\ None \in AnySpec
    BY <1>0 DEF KindInv, AnySpec
  <2>2. work'[k] = [work[k] EXCEPT !.step = "list", !.spec = None, !.current = FALSE]
    BY <1>0, <1>3 DEF Types
  <2> QED
    BY <2>1, <2>2 DEF Works
<1>8. work' = [j \in Kinds |-> work'[j]] /\ \A j \in Kinds \ {k} : work'[j] = work[j]
  BY <1>0, <1>3 DEF Types
<1>9. Types'
  BY <1>0, <1>3, <1>5, <1>6, <1>8 DEF Types
<1>10. LifeInv'
  <2>1. work["TransactionType"] \in Works("TransactionType")
    BY <1>0 DEF IInv, KindInv
  <2> QED
    BY <1>0, <1>3, <1>7, <1>8, <2>1, SameLife
<1>11. KindInv(k)'
  BY <1>0, <1>1, <1>3, <1>7 DEF KindInv
<1>12. ASSUME NEW p \in ObjectsOf(k) PROVE ObjInv(p)'
  <2>0. ObjInv(p) /\ p \in Objects /\ KindOf[p] = k
    BY <1>12 DEF IInv, ObjectsOf
  <2>1. ObjType(p)'
    BY <1>0, <1>1, <1>3, <1>5, <1>6, <2>0 DEF ObjInv, ObjType
  <2>2. VersionInv(p)'
    BY <1>3, <1>7, <2>0, SameVersion DEF ObjInv
  <2>3. RuleInv(p)'
    <3>1. ~stale'[p] => ~stale[p]
      BY <1>6, <2>0
    <3> QED
      BY <1>3, <1>7, <2>0, <3>1 DEF ObjInv, RuleInv, Copy
  <2>4. StatusInv(p)'
    <3>1. CASE p = o
      <4>1. status'[p] = condition /\ condition # None /\ store'[p] = work[k].spec
        BY <1>1, <1>3, <1>4, <1>5, <3>1, SpecsAssumption
      <4>2. k # "TransactionType" => condition = ConditionOf(p, store'[p], None)
        BY <1>2, <3>1, <4>1 DEF ConditionOf
      <4> HIDE DEF condition
      <4>3. StatusRight(p)'
        BY <2>0, <4>1, <4>2 DEF StatusRight, ConditionOf
      <4> QED
        BY <4>3 DEF StatusInv
    <3>2. CASE p # o
      BY <1>3, <1>5, <1>6, <2>0, <3>2 DEF ObjInv, StatusInv, StatusRight, Queued
    <3> QED
      BY <3>1, <3>2
  <2> QED
    BY <2>1, <2>2, <2>3, <2>4 DEF ObjInv
<1>13. \A p \in Objects \ ObjectsOf(k) : status'[p] = status[p] /\ stale'[p] = stale[p]
  BY <1>1, <1>5, <1>6
<1> QED
  BY <1>3, <1>8, <1>9, <1>10, <1>11, <1>12, <1>13, OtherKinds DEF IInv

LEMMA ListStep ==
    ASSUME IInv, NEW k \in Kinds, List(k)
    PROVE  IInv'
<1> DEFINE listed == [o \in ObjectsOf(k) |-> cache[o]]
           todo == {o \in ObjectsOf(k) : k = "TransactionType" /\ cache[o].spec # None}
<1>0. /\ Types /\ LifeInv /\ KindInv(k) /\ "TransactionType" \in Kinds
      /\ work[k].step = "list" /\ k \in synced
  BY DEF IInv, Kinds, List, KindInv
<1>1. /\ work' = [work EXCEPT ![k].step = "rebuild", ![k].list = listed, ![k].todo = todo, ![k].blind = FALSE]
      /\ UNCHANGED <<store, status, ver, cache, stale, synced, queue, startVer, published, done, blind>>
  BY DEF List, apiVars, runtimeVars, publishedVars
<1>2. /\ listed \in [ObjectsOf(k) -> Copies] /\ todo \subseteq ObjectsOf(k)
      /\ \A p \in ObjectsOf(k) : listed[p] = cache[p] /\ (p \notin todo => k # "TransactionType" \/ cache[p].spec = None)
      /\ \A p \in todo : k = "TransactionType" /\ cache[p].spec # None
  BY <1>0 DEF Types, ObjectsOf
<1> HIDE DEF listed, todo
<1>3. /\ work'[k].step = "rebuild" /\ work'[k].obj = work[k].obj /\ work'[k].list = listed
      /\ work'[k].todo = todo /\ work'[k] \in Works(k)
  <2>1. work[k] \in Works(k)
    BY <1>0 DEF KindInv
  <2>2. work'[k] = [work[k] EXCEPT !.step = "rebuild", !.list = listed, !.todo = todo, !.blind = FALSE]
    BY <1>0, <1>1 DEF Types
  <2> QED
    BY <1>2, <2>1, <2>2 DEF Works
<1>4. work' = [j \in Kinds |-> work'[j]] /\ \A j \in Kinds \ {k} : work'[j] = work[j]
  BY <1>0, <1>1 DEF Types
<1>5. Types'
  BY <1>0, <1>1, <1>4 DEF Types
<1>6. LifeInv'
  <2>1. CASE k # "TransactionType"
    <3>1. work["TransactionType"] \in Works("TransactionType")
      BY <1>0 DEF IInv, KindInv
    <3> QED
      BY <1>0, <1>1, <1>4, <2>1, <3>1, SameLife
  <2>2. CASE k = "TransactionType"
    <3>1. ASSUME NEW o \in ObjectsOf("TransactionType") \ todo
          PROVE  Within(cache, listed[o].spec, listed[o].life)
      <4>1. listed[o].spec = None
        BY <1>2, <2>2
      <4> QED
        BY <4>1 DEF Within
    <3>2. \A o \in todo : listed[o].spec # None
      BY <1>2
    <3>3. ClampedUnlessBlind'
      BY <1>0, <1>1 DEF LifeInv, ClampedUnlessBlind
    <3>4. ASSUME NEW o \in ObjectsOf("TransactionType") \ work'["TransactionType"].todo
          PROVE  Within(cache', work'["TransactionType"].list[o].spec, work'["TransactionType"].list[o].life)
      BY <1>1, <1>3, <2>2, <3>1
    <3>5. \A o \in work'["TransactionType"].todo : work'["TransactionType"].list[o].spec # None
      BY <1>3, <2>2, <3>2
    <3> QED
      BY <3>3, <3>4, <3>5 DEF LifeInv
  <2> QED
    BY <2>1, <2>2
<1>7. KindInv(k)'
  BY <1>0, <1>1, <1>2, <1>3 DEF KindInv
<1>8. ASSUME NEW p \in ObjectsOf(k) PROVE ObjInv(p)'
  <2>0. ObjInv(p) /\ p \in Objects /\ KindOf[p] = k /\ listed[p] = cache[p]
    BY <1>2, <1>8 DEF IInv, ObjectsOf
  <2>1. ObjType(p)'
    BY <1>1, <2>0 DEF ObjInv, ObjType
  <2>2. VersionInv(p)'
    <3>1. cache[p].ver \in Int
      BY <1>0, <2>0 DEF Types, Copies
    <3> QED
      BY <1>0, <1>1, <1>3, <2>0, <3>1, SMTT(40) DEF ObjInv, VersionInv
  <2>3. RuleInv(p)'
    BY <1>0, <1>1, <1>3, <2>0, SMTT(40) DEF ObjInv, ObjType, RuleInv, Copy
  <2>4. StatusInv(p)'
    BY <1>0, <1>1, <2>0 DEF ObjInv, StatusInv, StatusRight, Queued
  <2> QED
    BY <2>1, <2>2, <2>3, <2>4 DEF ObjInv
<1> QED
  BY <1>1, <1>4, <1>5, <1>6, <1>7, <1>8, OtherKinds DEF IInv

(* A lifetime clamped with any of the policies found is within the limits. *)
LEMMA ClampFacts ==
    ASSUME Types, \A p \in Objects : ObjType(p),
           NEW o \in ObjectsOf("TransactionType"), NEW tt \in Specs[o],
           NEW policy \in findApplicablePolicy(tt.ns)
    PROVE  /\ EffectiveLifetime(tt, policy) \in Int
           /\ EffectiveLifetime(tt, None) \in Int
           /\ Within(cache, tt, EffectiveLifetime(tt, policy))
<1> DEFINE policies == {cache[p].spec : p \in ObjectsOf("TokenPolicy")} \ {None}
           matching == {p \in policies : p.targets = None \/ (p.targets # None /\ tt.ns \in p.targets)}
           applies(q) == /\ tt # None /\ cache[q].spec # None
                         /\ cache[q].spec.targets = None \/ tt.ns \in cache[q].spec.targets
           limits == {cache[p].spec.max : p \in {q \in ObjectsOf("TokenPolicy") : applies(q)}}
<1>1. tt.life \in Nat \cup {Unparsable} /\ tt # None
  BY LifetimesAssumption, SpecsAssumption DEF ObjectsOf
<1>2. (policy = None /\ matching = {}) \/ policy \in matching
  BY DEF findApplicablePolicy
<1>3. EffectiveLifetime(tt, None) \in Int
  BY <1>1, SMTT(40) DEF EffectiveLifetime, Unparsable, Unset, DefaultLifetime
<1>4. \A q \in ObjectsOf("TokenPolicy") : applies(q) => cache[q].spec \in matching
  OBVIOUS
<1>5. CASE policy = None /\ matching = {}
  <2>1. limits = {}
    BY <1>4, <1>5
  <2> QED
    BY <1>3, <1>5, <2>1 DEF Within
<1>6. CASE policy \in matching
  <2>1. PICK p \in ObjectsOf("TokenPolicy") : policy = cache[p].spec
    BY <1>6
  <2>2. policy # None /\ applies(p)
    BY <1>1, <1>6, <2>1
  <2>3. policy.max \in limits
    BY <2>1, <2>2
  <2>4. policy.max \in Nat \cup {Unparsable}
    <3>1. policy \in Specs[p] /\ p \in Objects /\ KindOf[p] = "TokenPolicy"
      BY <2>1, <2>2 DEF ObjType, ObjectsOf
    <3> QED
      BY <3>1, LifetimesAssumption
  <2>5. EffectiveLifetime(tt, policy) = ClampTokenLifetime(tt.life, policy.max)
    BY <2>2 DEF EffectiveLifetime
  <2>6. ClampTokenLifetime(tt.life, policy.max) \in Int
    BY <1>1, <2>4, SMTT(40) DEF ClampTokenLifetime, Unparsable, Unset, DefaultLifetime
  <2>7. policy.max \notin {Unset, Unparsable} => ClampTokenLifetime(tt.life, policy.max) <= policy.max
    BY <1>1, <2>4, SMTT(40) DEF ClampTokenLifetime, Unparsable, Unset, DefaultLifetime
  <2>8. limits # {} /\ limits \cap {Unset, Unparsable} = {} =>
            \E max \in limits : EffectiveLifetime(tt, policy) <= max
    BY <2>3, <2>5, <2>7
  <2>9. Within(cache, tt, EffectiveLifetime(tt, policy))
    BY <2>8 DEF Within
  <2> QED
    BY <1>3, <2>5, <2>6, <2>9
<1> QED
  BY <1>2, <1>5, <1>6

(* The worker with another list, clamped with certainty or not. *)
Relisted(w, l, T) == [w EXCEPT !.list = l, !.todo = T]
RelistedBlind(w, l, T) == [w EXCEPT !.list = l, !.todo = T, !.blind = TRUE]

LEMMA ListWork ==
    ASSUME NEW k, NEW w \in Works(k), NEW l \in [ObjectsOf(k) -> Copies], NEW T \in SUBSET ObjectsOf(k),
           NEW v, v = Relisted(w, l, T) \/ v = RelistedBlind(w, l, T)
    PROVE  /\ v.step = w.step /\ v.obj = w.obj /\ v.list = l /\ v.todo = T /\ v \in Works(k)
           /\ ~v.blind => ~w.blind
           /\ v = RelistedBlind(w, l, T) => v.blind
  BY DEF Works, Relisted, RelistedBlind

LEMMA ClampStep ==
    ASSUME IInv, NEW k \in Kinds, NEW o \in ObjectsOf(k), Clamp(k, o)
    PROVE  IInv'
<1> DEFINE tt == work[k].list[o].spec
<1>0. /\ Types /\ LifeInv /\ KindInv(k) /\ "TransactionType" \in Kinds
      /\ work[k].step = "rebuild" /\ k \in synced /\ o \in work[k].todo
  BY DEF IInv, Kinds, Clamp, KindInv
<1>1. k = "TransactionType" /\ work[k] \in Works(k) /\ work[k].list \in [ObjectsOf(k) -> Copies]
  BY <1>0 DEF KindInv
<1>2. /\ UNCHANGED <<store, status, ver, cache, stale, synced, queue, startVer, published, done, blind>>
      /\ \A p \in Objects : ObjInv(p) /\ ObjType(p)
      /\ tt \in Specs[o]
  <2>1. \A p \in Objects : ObjInv(p) /\ ObjType(p)
    BY DEF IInv, ObjInv
  <2>2. tt # None
    BY <1>0, <1>1 DEF LifeInv
  <2>3. tt \in Specs[o] \cup {None}
    BY <1>0, <2>1 DEF ObjInv, RuleInv, ObjectsOf
  <2> QED
    BY <2>1, <2>2, <2>3 DEF Clamp, apiVars, runtimeVars, publishedVars
<1>3. \E life \in Int :
         \/ /\ Within(cache, tt, life)
            /\ work' = [work EXCEPT ![k].list[o].life = life, ![k].todo = @ \ {o}]
         \/ work' = [work EXCEPT ![k].list[o].life = life, ![k].todo = @ \ {o}, ![k].blind = TRUE]
  <2>1. CASE \E policy \in findApplicablePolicy(tt.ns) :
                work' = [work EXCEPT ![k].list[o].life = EffectiveLifetime(tt, policy), ![k].todo = @ \ {o}]
    <3>1. PICK policy \in findApplicablePolicy(tt.ns) :
             work' = [work EXCEPT ![k].list[o].life = EffectiveLifetime(tt, policy), ![k].todo = @ \ {o}]
      BY <2>1
    <3>2. /\ EffectiveLifetime(tt, policy) \in Int
          /\ Within(cache, tt, EffectiveLifetime(tt, policy))
      BY <1>0, <1>1, <1>2, ClampFacts
    <3> QED
      BY <3>1, <3>2
  <2>2. CASE work' = [work EXCEPT ![k].list[o].life = EffectiveLifetime(tt, None), ![k].todo = @ \ {o},
                                  ![k].blind = TRUE]
    <3>1. EffectiveLifetime(tt, None) \in Int
      BY <1>1, <1>2, LifetimesAssumption, SMTT(40) DEF EffectiveLifetime, Unparsable, Unset, DefaultLifetime, ObjectsOf
    <3> QED
      BY <2>2, <3>1
  <2> QED
    BY <2>1, <2>2 DEF Clamp
<1>4. PICK life \in Int :
         \/ /\ Within(cache, tt, life)
            /\ work' = [work EXCEPT ![k].list[o].life = life, ![k].todo = @ \ {o}]
         \/ work' = [work EXCEPT ![k].list[o].life = life, ![k].todo = @ \ {o}, ![k].blind = TRUE]
  BY <1>3
<1>5. work' = [j \in Kinds |-> work'[j]] /\ \A j \in Kinds \ {k} : work'[j] = work[j]
  BY <1>0, <1>4 DEF Types
<1> DEFINE listed == [work[k].list EXCEPT ![o].life = life]
           left == work[k].todo \ {o}
<1>6. \/ work'[k] = Relisted(work[k], listed, left) /\ Within(cache, tt, life)
      \/ work'[k] = RelistedBlind(work[k], listed, left)
  BY <1>0, <1>1, <1>4 DEF Types, Relisted, RelistedBlind
<1>7. /\ listed \in [ObjectsOf(k) -> Copies]
      /\ listed[o].spec = tt /\ listed[o].ver = work[k].list[o].ver /\ listed[o].life = life
      /\ \A p \in ObjectsOf(k) \ {o} : listed[p] = work[k].list[p]
  BY <1>1 DEF Copies
<1>8. left \subseteq ObjectsOf(k)
  BY <1>1 DEF Works
<1>9. left = work[k].todo \ {o}
  OBVIOUS
<1> HIDE DEF listed, left
<1>10. /\ work'[k].step = "rebuild" /\ work'[k].obj = work[k].obj /\ work'[k].list = listed
       /\ work'[k].todo = work[k].todo \ {o} /\ work'[k] \in Works(k)
       /\ ~work'[k].blind => ~work[k].blind /\ Within(cache, tt, life)
  <2>1. work[k] \in Works(k) /\ listed \in [ObjectsOf(k) -> Copies] /\ left \in SUBSET ObjectsOf(k)
    BY <1>1, <1>7, <1>8
  <2>2. work'[k] = Relisted(work[k], listed, left) \/ work'[k] = RelistedBlind(work[k], listed, left)
    BY <1>6
  <2>3. /\ work'[k].step = work[k].step /\ work'[k].obj = work[k].obj /\ work'[k].list = listed
        /\ work'[k].todo = left /\ work'[k] \in Works(k)
        /\ ~work'[k].blind => ~work[k].blind
        /\ work'[k] = RelistedBlind(work[k], listed, left) => work'[k].blind
    BY <2>1, <2>2, ListWork, SMTT(40)
  <2> QED
    BY <1>0, <1>6, <1>9, <2>3
<1>11. Types'
  BY <1>0, <1>2, <1>5 DEF Types
<1>12. LifeInv'
  <2>1. ClampedUnlessBlind'
    BY <1>0, <1>2 DEF LifeInv, ClampedUnlessBlind
  <2>2. ASSUME ~work'["TransactionType"].blind,
               NEW p \in ObjectsOf("TransactionType") \ work'["TransactionType"].todo
        PROVE  Within(cache', work'["TransactionType"].list[p].spec, work'["TransactionType"].list[p].life)
    <3>0. cache' = cache /\ Within(cache, tt, life) /\ ~work[k].blind
      BY <1>1, <1>2, <1>10, <2>2
    <3>1. CASE p = o
      BY <1>1, <1>4, <1>7, <1>10, <3>0, <3>1
    <3>2. CASE p # o
      <4>1. Within(cache, work[k].list[p].spec, work[k].list[p].life)
        BY <1>0, <1>1, <1>10, <2>2, <3>0, <3>2 DEF LifeInv
      <4> QED
        BY <1>1, <1>7, <1>10, <2>2, <3>0, <3>2, <4>1
    <3> QED
      BY <3>1, <3>2
  <2>3. ASSUME NEW p \in work'["TransactionType"].todo PROVE work'["TransactionType"].list[p].spec # None
    <3>1. p \in work[k].todo \ {o} /\ p \in ObjectsOf(k)
      BY <1>1, <1>10, <2>3 DEF Works
    <3>2. work[k].list[p].spec # None
      BY <1>0, <1>1, <3>1 DEF LifeInv
    <3> QED
      BY <1>1, <1>7, <1>10, <3>1, <3>2
  <2> QED
    BY <2>1, <2>2, <2>3 DEF LifeInv
<1>13. KindInv(k)'
  BY <1>0, <1>1, <1>2, <1>7, <1>10 DEF KindInv
<1>14. ASSUME NEW p \in ObjectsOf(k) PROVE ObjInv(p)'
  <2>0. ObjInv(p) /\ p \in Objects /\ KindOf[p] = k
    BY <1>2, <1>14 DEF ObjectsOf
  <2>1. listed[p].spec = work[k].list[p].spec /\ listed[p].ver = work[k].list[p].ver
    BY <1>7, <1>14
  <2>2. ObjType(p)'
    BY <1>2, <2>0 DEF ObjInv, ObjType
  <2>3. VersionInv(p)'
    BY <1>0, <1>2, <1>10, <2>0, <2>1 DEF ObjInv, VersionInv
  <2>4. RuleInv(p)'
    BY <1>0, <1>2, <1>10, <2>0, <2>1 DEF ObjInv, RuleInv, Copy
  <2>5. StatusInv(p)'
    BY <1>0, <1>2, <2>0 DEF ObjInv, StatusInv, StatusRight, Queued
  <2> QED
    BY <2>2, <2>3, <2>4, <2>5 DEF ObjInv
<1> QED
  BY <1>2, <1>5, <1>11, <1>12, <1>13, <1>14, OtherKinds DEF IInv

LEMMA PublishStep ==
    ASSUME IInv, NEW k \in Kinds, Publish(k)
    PROVE  IInv'
<1>0. /\ Types /\ LifeInv /\ KindInv(k) /\ "TransactionType" \in Kinds
      /\ work[k].step = "rebuild" /\ work[k].todo = {} /\ k \in synced
  BY DEF IInv, Kinds, Publish, KindInv
<1>1. /\ published' = [o \in Objects |->
                         IF KindOf[o] = k THEN RuleOf(o, work[k].list[o]) ELSE published[o]]
      /\ done' = done \cup {k}
      /\ blind' = IF k = "TransactionType" THEN work[k].blind ELSE blind
      /\ work' = [work EXCEPT ![k] = Idle]
      /\ UNCHANGED <<store, status, ver, cache, stale, synced, queue, startVer>>
  BY DEF Publish, apiVars, runtimeVars
<1>2. work' = [j \in Kinds |-> work'[j]] /\ work'[k] = Idle /\ \A j \in Kinds \ {k} : work'[j] = work[j]
  BY <1>0, <1>1 DEF Types
<1>3. Idle \in Works(k) /\ Idle.step = "idle" /\ Idle.list = None /\ Idle.todo = {}
  BY DEF Idle, Works, AnySpec
<1>4. /\ \A o \in ObjectsOf(k) : published'[o] = RuleOf(o, work[k].list[o])
      /\ \A o \in Objects \ ObjectsOf(k) : published'[o] = published[o]
  BY <1>1 DEF ObjectsOf
<1>5. Types'
  <2>1. blind' \in BOOLEAN
    <3>1. work[k].blind \in BOOLEAN /\ blind \in BOOLEAN
      BY <1>0 DEF Types, KindInv, Works
    <3> QED
      BY <1>1, <3>1
  <2> QED
    BY <1>0, <1>1, <1>2, <2>1 DEF Types
<1>6. ASSUME NEW o \in ObjectsOf(k)
      PROVE  /\ published'[o].ver = work[k].list[o].ver /\ work[k].list[o].ver \in Int
             /\ work[k].list[o].spec = store[o] => published'[o].spec = RuleOf(o, Copy(o)).spec
             /\ work[k].list[o].spec = None => published'[o].spec = None
             /\ work[k].list[o].spec # None /\ k = "TransactionType" => published'[o] = work[k].list[o]
  <2> DEFINE c == work[k].list[o]
  <2>1. c \in Copies /\ o \in Objects /\ KindOf[o] = k
    BY <1>0, <1>6 DEF KindInv, ObjectsOf
  <2>2. c = [spec |-> c.spec, ver |-> c.ver, life |-> c.life] /\ c.ver \in Int
    BY <2>1 DEF Copies
  <2>3. Copy(o) = [spec |-> Copy(o).spec, ver |-> Copy(o).ver, life |-> Copy(o).life] /\ Copy(o).spec = store[o]
    BY DEF Copy
  <2> HIDE DEF c
  <2>4. /\ RuleOf(o, c).ver = c.ver
        /\ c.spec = None => RuleOf(o, c).spec = None
        /\ c.spec # None /\ KindOf[o] = "TransactionType" => RuleOf(o, c) = c
    BY <2>1, <2>2, RuleFacts
  <2>5. c.spec = store[o] => RuleOf(o, c).spec = RuleOf(o, Copy(o)).spec
    BY <2>1, <2>2, <2>3, RuleFacts, SMTT(40)
  <2> QED
    BY <1>4, <1>6, <2>1, <2>2, <2>4, <2>5 DEF c
<1>7. LifeInv'
  <2>1. CASE k # "TransactionType"
    <3>1. work["TransactionType"] \in Works("TransactionType")
      BY <1>0 DEF IInv, KindInv
    <3>2. \A o \in ObjectsOf("TransactionType") : published'[o] = published[o]
      BY <1>4, <2>1 DEF ObjectsOf
    <3> QED
      BY <1>0, <1>1, <1>2, <2>1, <3>1, <3>2, SameLife
  <2>2. CASE k = "TransactionType"
    <3>1. ASSUME ~blind', NEW o \in ObjectsOf("TransactionType")
          PROVE  Within(cache', published'[o].spec, published'[o].life)
      <4>1. CASE work[k].list[o].spec = None
        <5>1. published'[o].spec = None
          BY <1>6, <2>2, <3>1, <4>1
        <5> QED
          BY <5>1 DEF Within
      <4>2. CASE work[k].list[o].spec # None
        <5>1. published'[o] = work[k].list[o] /\ ~work[k].blind /\ cache' = cache
          BY <1>1, <1>6, <2>2, <3>1, <4>2
        <5>2. Within(cache, work[k].list[o].spec, work[k].list[o].life)
          BY <1>0, <2>2, <3>1, <5>1 DEF LifeInv
        <5> QED
          BY <5>1, <5>2
      <4> QED
        BY <4>1, <4>2
    <3>2. work'["TransactionType"].step = "idle"
      BY <1>2, <1>3, <2>2
    <3> QED
      BY <3>1, <3>2 DEF LifeInv, ClampedUnlessBlind
  <2> QED
    BY <2>1, <2>2
<1>8. KindInv(k)'
  BY <1>0, <1>1, <1>2, <1>3 DEF KindInv
<1>9. ASSUME NEW p \in ObjectsOf(k) PROVE ObjInv(p)'
  <2>0. ObjInv(p) /\ p \in Objects /\ KindOf[p] = k
    BY <1>9 DEF IInv, ObjectsOf
  <2>1. ObjType(p)'
    BY <1>1, <2>0 DEF ObjInv, ObjType
  <2>2. VersionInv(p)'
    BY <1>0, <1>1, <1>2, <1>3, <1>6, <1>9, <2>0 DEF ObjInv, VersionInv
  <2>3. RuleInv(p)'
    <3>1. Copy(p)' = Copy(p)
      BY <1>1 DEF Copy
    <3>2. published'[p].spec # RuleOf(p, Copy(p)).spec => stale[p] \/ queue[k] # <<>>
      BY <1>0, <1>6, <1>9, <2>0 DEF ObjInv, RuleInv
    <3>3. k \in synced /\ ~stale[p] => cache[p] = Copy(p)
      BY <2>0 DEF ObjInv, RuleInv
    <3> QED
      BY <1>0, <1>1, <1>2, <1>3, <2>0, <3>1, <3>2, <3>3 DEF RuleInv
  <2>4. StatusInv(p)'
    BY <1>0, <1>1, <2>0 DEF ObjInv, StatusInv, StatusRight, Queued
  <2> QED
    BY <2>1, <2>2, <2>3, <2>4 DEF ObjInv
<1>10. \A j \in Kinds \ {k} : j \in done' <=> j \in done
  BY <1>1
<1> QED
  BY <1>1, <1>2, <1>4, <1>5, <1>7, <1>8, <1>9, <1>10, OtherKinds DEF IInv

-----------------------------------------------------------------------------
(* The theorems.                                                           *)

LEMMA NextIInv == IInv /\ [Next]_vars => IInv'
<1> SUFFICES ASSUME IInv, [Next]_vars PROVE IInv'
  OBVIOUS
<1>1. ASSUME NEW o \in Objects, NEW spec \in Specs[o] \cup {None}, Edit(o, spec) PROVE IInv'
  BY <1>1, EditStep
<1>2. ASSUME NEW o \in Objects, Deliver(o) PROVE IInv'
  BY <1>2, DeliverStep
<1>3. ASSUME NEW o \in Objects, Sync(KindOf[o]) PROVE IInv'
  BY <1>3, SyncStep, KindOfAssumption
<1>4. ASSUME NEW k \in Kinds, Reconcile(k) PROVE IInv'
  <2>1. CASE Get(k)
    BY <2>1, GetStep
  <2>2. CASE UpdateStatus(k)
    BY <2>2, UpdateStatusStep
  <2>3. CASE List(k)
    BY <2>3, ListStep
  <2>4. ASSUME NEW o \in ObjectsOf(k), Clamp(k, o) PROVE IInv'
    BY <2>4, ClampStep
  <2> QED
    BY <1>4, <2>1, <2>2, <2>3, <2>4 DEF Reconcile
<1>5. ASSUME NEW k \in Kinds, Fail(k) PROVE IInv'
  BY <1>5, FailStep
<1>6. CASE Restart
  BY <1>6, RestartStep
<1>7. ASSUME NEW k \in Kinds, Publish(k) PROVE IInv'
  BY <1>7, PublishStep
<1>8. CASE UNCHANGED vars
  <2>1. UNCHANGED <<store, status, ver, cache, stale, synced, queue, startVer, published, done, blind, work>>
    BY <1>8 DEF vars, apiVars, runtimeVars, publishedVars
  <2>2. \A o \in Objects : ObjInv(o)'
    BY <2>1, SameObj DEF IInv
  <2>3. Types' /\ \A k \in Kinds : KindInv(k)'
    BY <2>1 DEF IInv, Types, KindInv
  <2>4. LifeInv'
    BY <2>1 DEF IInv, LifeInv, ClampedUnlessBlind
  <2> QED
    BY <2>2, <2>3, <2>4 DEF IInv
<1> QED
  BY <1>1, <1>2, <1>3, <1>4, <1>5, <1>6, <1>7, <1>8 DEF Next, Runtime

LEMMA AlwaysIInv == Spec => []IInv
  BY InitIInv, NextIInv, PTL DEF Spec

(* State stays well-typed; an object is queued at most once, with its own   *)
(* kind, and what a worker holds fits its step.                             *)
THEOREM ReconcilersTypeCorrect == Spec => []TypeOK
<1>1. IInv => TypeOK
  <2> SUFFICES ASSUME IInv PROVE TypeOK
    OBVIOUS
  <2>1. ASSUME NEW o \in Objects
        PROVE  /\ {store[o], cache[o].spec} \subseteq Specs[o] \cup {None}
               /\ status[o] \in BOOLEAN \cup {None}
               /\ status[o] # None => store[o] # None
               /\ stale[o] => KindOf[o] \in synced
    <3>1. ObjType(o) /\ status \in [Objects -> BOOLEAN \cup {None}]
      BY DEF IInv, ObjInv, Types
    <3> QED
      BY <3>1 DEF ObjType
  <2>2. ASSUME NEW k \in Kinds
        PROVE  /\ queue[k] \in Seq(ObjectsOf(k))
               /\ \A i, j \in 1 .. Len(queue[k]) : queue[k][i] = queue[k][j] => i = j
               /\ work[k].step \in {"idle", "status", "list", "rebuild"}
               /\ work[k].step # "idle" => work[k].obj \in ObjectsOf(k)
               /\ work[k].step = "status" => work[k].spec \in Specs[work[k].obj]
               /\ work[k].step = "rebuild" => DOMAIN work[k].list = ObjectsOf(k)
               /\ work[k].step # "rebuild" => work[k].list = None
    <3>1. KindInv(k)
      BY DEF IInv
    <3>2. work[k].step \in {"idle", "status", "list", "rebuild"}
      BY <3>1 DEF KindInv, Works
    <3> QED
      BY <3>1, <3>2 DEF KindInv, Once
  <2> QED
    BY <2>1, <2>2 DEF TypeOK
<1> QED
  BY <1>1, AlwaysIInv, PTL

(* A controller never publishes a set older than what it found when it      *)
(* started, for any objects, edits, errors and restarts.                    *)
THEOREM PublishedComplete == Spec => []PublishedIsComplete
<1>1. IInv => PublishedIsComplete
  <2> SUFFICES ASSUME IInv, NEW k \in done, NEW o \in ObjectsOf(k)
               PROVE  published[o].ver >= startVer[o]
    BY DEF PublishedIsComplete
  <2>1. o \in Objects /\ KindOf[o] = k /\ VersionInv(o) /\ startVer[o] \in Nat
    BY DEF IInv, ObjInv, ObjectsOf, Types
  <2> QED
    BY <2>1 DEF VersionInv
<1> QED
  BY <1>1, AlwaysIInv, PTL

(* A lifetime is never published above the limits of the cached policies    *)
(* for its namespace, unless a policy changed or its lookup failed.         *)
THEOREM LifetimesClamped == Spec => []ClampedUnlessBlind
<1>1. IInv => ClampedUnlessBlind
  BY DEF IInv, LifeInv
<1> QED
  BY <1>1, AlwaysIInv, PTL

(* No event, conflict or error is lost: a kind with nothing left to do has  *)
(* published what its stored objects give and written every status.         *)
THEOREM QuietSettled == Spec => []QuietMeansSettled
<1>1. IInv => QuietMeansSettled
  <2> SUFFICES ASSUME IInv, NEW k \in synced, work[k].step = "idle", queue[k] = <<>>,
                      \A o \in ObjectsOf(k) : ~stale[o],
                      NEW o \in ObjectsOf(k)
               PROVE  Settled(o)
    BY DEF QuietMeansSettled
  <2>1. o \in Objects /\ KindOf[o] = k /\ RuleInv(o) /\ StatusInv(o) /\ ~stale[o]
    BY DEF IInv, ObjInv, ObjectsOf
  <2>2. published[o].spec = RuleOf(o, Copy(o)).spec
    BY <2>1 DEF RuleInv
  <2>3. store[o] # None => StatusRight(o)
    <3>1. ~Queued(o)
      BY <2>1, SMTT(40) DEF Queued, InQueue
    <3> QED
      BY <2>1, <3>1 DEF StatusInv
  <2> QED
    BY <2>1, <2>2, <2>3 DEF Settled, StatusRight
<1> QED
  BY <1>1, AlwaysIInv, PTL

-----------------------------------------------------------------------------
(* The stream to a client.                                                 *)

(* What a rule server can hold of an object, and a set of a kind. *)
Rules == {NoCopy} \cup {RuleOf(x[1], x[2]) : x \in Objects \X Copies}
RuleSets(k) == [ObjectsOf(k) -> Rules]

(* Nothing of a kind is published before the first publication. *)
PublishedInv ==
    /\ published \in [Objects -> Rules] /\ restarts \in Nat
    /\ \A o \in Objects : KindOf[o] \notin done => published[o] = NoCopy

(* The last message, or what is enforced if there is none, is what the rule *)
(* server holds.                                                            *)
StreamInv ==
    /\ enforced \in RuleSets(kind) /\ channel \in Seq(RuleSets(kind)) /\ missed \in BOOLEAN
    /\ ~streaming => channel = <<>> /\ ~missed
    /\ streaming /\ ~missed =>
          IF channel = <<>> THEN enforced = RuleSet(kind, published)
                            ELSE channel[Len(channel)] = RuleSet(kind, published)

(* Versions go up along the channel to what is published; what is enforced  *)
(* is from this process, or from before its first list.                     *)
AgeInv(o) ==
    /\ enforced[o].ver <= ver[o]
    /\ kind \in synced => enforced[o].ver <= startVer[o] \/ enforced[o].ver <= published[o].ver
    /\ restarts = 0 => enforced[o].ver <= published[o].ver
    /\ \A i \in 1 .. Len(channel) : channel[i][o].ver <= published[o].ver
    /\ \A i, j \in 1 .. Len(channel) : i <= j => channel[i][o].ver <= channel[j][o].ver

(* A message in the channel is not older than what is enforced, or empty.   *)
Newer(set) ==
    \/ set = NoRules(kind) /\ restarts > 0
    \/ \A o \in ObjectsOf(kind) : enforced[o].ver <= set[o].ver

ClientInv ==
    /\ StreamInv
    /\ \A o \in ObjectsOf(kind) : AgeInv(o)
    /\ \A i \in 1 .. Len(channel) : Newer(channel[i])

SInv == IInv /\ PublishedInv /\ ClientInv

-----------------------------------------------------------------------------
(* Facts about rules, sets and steps of the controller.                    *)

LEMMA RulesHaveVersions ==
    ASSUME NEW r \in Rules
    PROVE  r.ver \in Int
<1>1. CASE r = NoCopy
  BY <1>1, SMTT(40) DEF NoCopy
<1>2. ASSUME NEW o \in Objects, NEW c \in Copies PROVE RuleOf(o, c).ver \in Int
  <2>1. c = [spec |-> c.spec, ver |-> c.ver, life |-> c.life] /\ c.ver \in Int
    BY SMTT(40) DEF Copies
  <2>2. RuleOf(o, c).ver = c.ver
    BY <2>1, RuleFacts
  <2> QED
    BY <2>1, <2>2
<1> QED
  BY <1>1, <1>2, SMTT(40) DEF Rules

LEMMA SetsHaveVersions ==
    ASSUME NEW k, NEW set \in RuleSets(k), NEW o \in ObjectsOf(k)
    PROVE  set[o].ver \in Int
<1>1. set[o] \in Rules
  BY DEF RuleSets
<1> QED
  BY <1>1, RulesHaveVersions

(* The set of a kind is made of what is published. *)
LEMMA RuleSetFacts ==
    ASSUME NEW k, NEW rules \in [Objects -> Rules]
    PROVE  /\ RuleSet(k, rules) \in RuleSets(k) /\ NoRules(k) \in RuleSets(k)
           /\ \A o \in ObjectsOf(k) : RuleSet(k, rules)[o] = rules[o]
<1>1. ObjectsOf(k) \subseteq Objects /\ NoCopy \in Rules
  BY DEF ObjectsOf, Rules
<1> QED
  BY <1>1 DEF RuleSet, RuleSets, NoRules

(* Sets are equal if the rules of their kind are. *)
LEMMA SameRuleSet ==
    ASSUME NEW k, NEW a, NEW b, \A o \in ObjectsOf(k) : a[o] = b[o]
    PROVE  RuleSet(k, a) = RuleSet(k, b)
  BY DEF RuleSet

(* Up to the publication nothing is published, versions only grow, and a    *)
(* first list starts with the stored versions.                              *)
LEMMA RuntimeFacts ==
    ASSUME IInv, Runtime
    PROVE  /\ UNCHANGED <<published, done, restarts>>
           /\ \A o \in Objects : ver[o] \in Nat /\ ver'[o] \in Nat /\ ver[o] <= ver'[o]
           /\ \A o \in Objects : KindOf[o] \in synced' =>
                 \/ KindOf[o] \in synced /\ startVer'[o] = startVer[o]
                 \/ startVer'[o] = ver[o]
<1>0. ver \in [Objects -> Nat] /\ \A n \in Nat : n <= n /\ n <= n + 1 /\ n + 1 \in Nat
  BY SMTT(40) DEF IInv, Types
<1>1. ASSUME UNCHANGED <<published, done, restarts, ver, synced, startVer>>
      PROVE  /\ UNCHANGED <<published, done, restarts>>
             /\ \A o \in Objects : ver[o] \in Nat /\ ver'[o] \in Nat /\ ver[o] <= ver'[o]
             /\ \A o \in Objects : KindOf[o] \in synced' =>
                   \/ KindOf[o] \in synced /\ startVer'[o] = startVer[o]
                   \/ startVer'[o] = ver[o]
  BY <1>0, <1>1
<1>2. ASSUME NEW o \in Objects, NEW spec \in Specs[o] \cup {None}, Edit(o, spec)
      PROVE  /\ UNCHANGED <<published, done, restarts>>
             /\ \A p \in Objects : ver[p] \in Nat /\ ver'[p] \in Nat /\ ver[p] <= ver'[p]
             /\ \A p \in Objects : KindOf[p] \in synced' =>
                   \/ KindOf[p] \in synced /\ startVer'[p] = startVer[p]
                   \/ startVer'[p] = ver[p]
  <2>1. UNCHANGED <<published, done, restarts, synced, startVer>> /\ ver' = [ver EXCEPT ![o] = @ + 1]
    BY <1>2 DEF Edit, publishedVars
  <2>2. \A p \in Objects : ver[p] \in Nat /\ ver'[p] \in Nat /\ ver[p] <= ver'[p]
    BY <1>0, <2>1, SMTT(40)
  <2> QED
    BY <2>1, <2>2
<1>3. ASSUME NEW o \in Objects, Sync(KindOf[o])
      PROVE  /\ UNCHANGED <<published, done, restarts>>
             /\ \A p \in Objects : ver[p] \in Nat /\ ver'[p] \in Nat /\ ver[p] <= ver'[p]
             /\ \A p \in Objects : KindOf[p] \in synced' =>
                   \/ KindOf[p] \in synced /\ startVer'[p] = startVer[p]
                   \/ startVer'[p] = ver[p]
  <2>1. /\ UNCHANGED <<published, done, restarts, ver>> /\ synced' = synced \cup {KindOf[o]}
        /\ startVer' = [p \in Objects |-> IF KindOf[p] = KindOf[o] THEN ver[p] ELSE startVer[p]]
    BY <1>3 DEF Sync, apiVars
  <2>2. \A p \in Objects : startVer'[p] = IF KindOf[p] = KindOf[o] THEN ver[p] ELSE startVer[p]
    BY <2>1
  <2> QED
    BY <1>0, <2>1, <2>2
<1>4. ASSUME NEW o \in Objects, Deliver(o)
      PROVE  UNCHANGED <<published, done, restarts, ver, synced, startVer>>
  BY <1>4 DEF Deliver, apiVars
<1>5. ASSUME NEW k \in Kinds, Reconcile(k) \/ Fail(k)
      PROVE  UNCHANGED <<published, done, restarts, ver, synced, startVer>>
  BY <1>5 DEF Reconcile, Fail, Get, UpdateStatus, List, Clamp, apiVars, runtimeVars, publishedVars
<1> QED
  BY <1>1, <1>2, <1>3, <1>4, <1>5 DEF Runtime

(* A publication is made of versions that are at least the published ones   *)
(* and those of the first list.                                             *)
LEMMA PublishFacts ==
    ASSUME IInv, PublishedInv, NEW k \in Kinds, Publish(k)
    PROVE  /\ published' \in [Objects -> Rules] /\ done' = done \cup {k}
           /\ UNCHANGED <<restarts, ver, startVer, synced>>
           /\ \A o \in Objects \ ObjectsOf(k) : published'[o] = published[o]
           /\ \A o \in ObjectsOf(k) : /\ published[o].ver <= published'[o].ver
                                      /\ startVer[o] <= published'[o].ver
<1>1. /\ published' = [o \in Objects |->
                         IF KindOf[o] = k THEN RuleOf(o, work[k].list[o]) ELSE published[o]]
      /\ done' = done \cup {k} /\ UNCHANGED <<restarts, ver, startVer, synced>>
      /\ work[k].step = "rebuild"
  BY DEF Publish, apiVars, runtimeVars
<1>2. work[k].list \in [ObjectsOf(k) -> Copies]
  BY <1>1 DEF IInv, KindInv
<1>3. ASSUME NEW o \in Objects
      PROVE  (IF KindOf[o] = k THEN RuleOf(o, work[k].list[o]) ELSE published[o]) \in Rules
  <2>1. CASE KindOf[o] = k
    <3>1. work[k].list[o] \in Copies
      BY <1>2, <2>1 DEF ObjectsOf
    <3>2. <<o, work[k].list[o]>> \in Objects \X Copies
      BY <3>1
    <3>3. RuleOf(<<o, work[k].list[o]>>[1], <<o, work[k].list[o]>>[2]) \in Rules
      BY <3>2, Zenon DEF Rules
    <3> QED
      BY <2>1, <3>3
  <2>2. CASE KindOf[o] # k
    BY <2>2 DEF PublishedInv
  <2> QED
    BY <2>1, <2>2
<1>4. published' \in [Objects -> Rules]
  BY <1>1, <1>3, Zenon
<1>5. \A o \in Objects \ ObjectsOf(k) : published'[o] = published[o]
  BY <1>1, Zenon DEF ObjectsOf
<1>6. ASSUME NEW o \in ObjectsOf(k)
      PROVE  published[o].ver <= published'[o].ver /\ startVer[o] <= published'[o].ver
  <2>1. o \in Objects /\ KindOf[o] = k /\ VersionInv(o)
    BY DEF ObjectsOf, IInv, ObjInv
  <2> DEFINE c == work[k].list[o]
  <2>2. c \in Copies
    BY <1>2
  <2>3. c = [spec |-> c.spec, ver |-> c.ver, life |-> c.life]
    BY <2>2, SMTT(40) DEF Copies
  <2>4. RuleOf(o, c).ver = c.ver
    <3> HIDE DEF c
    <3> QED
      BY <2>1, <2>3, RuleFacts
  <2>5. published'[o] = RuleOf(o, c)
    BY <1>1, <2>1, Zenon
  <2>6. published[o].ver <= c.ver /\ startVer[o] <= c.ver
    BY <1>1, <2>1 DEF VersionInv
  <2> QED
    BY <2>4, <2>5, <2>6
<1> QED
  BY <1>1, <1>4, <1>5, <1>6

LEMMA PublishedStep ==
    ASSUME IInv, PublishedInv, Next \/ UNCHANGED vars
    PROVE  PublishedInv'
<1>1. CASE Runtime
  BY <1>1, RuntimeFacts DEF PublishedInv
<1>2. CASE UNCHANGED vars
  BY <1>2 DEF PublishedInv, vars, publishedVars
<1>3. CASE Restart
  <2>1. published' = [o \in Objects |-> NoCopy] /\ restarts' = restarts + 1
    BY <1>3 DEF Restart
  <2>2. NoCopy \in Rules
    BY DEF Rules
  <2>3. restarts' \in Nat
    BY <2>1, SMTT(40) DEF PublishedInv
  <2>4. published' \in [Objects -> Rules] /\ \A o \in Objects : published'[o] = NoCopy
    BY <2>1, <2>2, Zenon
  <2> QED
    BY <2>3, <2>4, Zenon DEF PublishedInv
<1>4. ASSUME NEW k \in Kinds, Publish(k) PROVE PublishedInv'
  <2>1. /\ published' \in [Objects -> Rules] /\ done' = done \cup {k} /\ restarts' = restarts
        /\ \A o \in Objects \ ObjectsOf(k) : published'[o] = published[o]
    BY <1>4, PublishFacts
  <2> QED
    BY <2>1, Zenon DEF PublishedInv, ObjectsOf
<1> QED
  BY <1>1, <1>2, <1>3, <1>4 DEF Next

(* The versions compared below are integers. *)
LEMMA Comparable ==
    ASSUME SInv, NEW o \in ObjectsOf(kind)
    PROVE  /\ o \in Objects /\ KindOf[o] = kind /\ kind \in Kinds
           /\ enforced[o].ver \in Int /\ published[o].ver \in Int
           /\ ver[o] \in Nat /\ startVer[o] \in Nat
           /\ published[o].ver <= ver[o]
           /\ kind \in done => startVer[o] <= published[o].ver /\ enforced[o].ver <= published[o].ver
           /\ \A i \in 1 .. Len(channel) : channel[i] \in RuleSets(kind) /\ channel[i][o].ver \in Int
<1>1. /\ o \in Objects /\ KindOf[o] = kind /\ kind \in Kinds /\ VersionInv(o) /\ Types /\ AgeInv(o)
      /\ PublishedInv /\ StreamInv
  BY KindOfAssumption DEF ObjectsOf, SInv, ClientInv, IInv, ObjInv
<1>2. published[o].ver \in Int /\ enforced[o].ver \in Int
  <2>1. published[o] \in Rules
    BY <1>1 DEF PublishedInv
  <2> QED
    BY <1>1, <2>1, RulesHaveVersions, SetsHaveVersions DEF StreamInv
<1>3. ASSUME NEW i \in 1 .. Len(channel) PROVE channel[i] \in RuleSets(kind) /\ channel[i][o].ver \in Int
  <2>1. channel[i] \in RuleSets(kind)
    BY <1>1, <1>3, SMTT(40) DEF StreamInv
  <2> QED
    BY <2>1, SetsHaveVersions
<1>4. ver[o] \in Nat /\ startVer[o] \in Nat /\ cache[o].ver \in Int /\ done \subseteq synced
  BY <1>1, SMTT(40) DEF Types, Copies
<1>5. published[o].ver <= ver[o]
  BY <1>1, <1>2, <1>4, SMTT(40) DEF VersionInv
<1>6. kind \in done => startVer[o] <= published[o].ver
  BY <1>1 DEF VersionInv
<1>7. kind \in done => enforced[o].ver <= published[o].ver
  BY <1>1, <1>2, <1>4, <1>6, SMTT(40) DEF AgeInv
<1> QED
  BY <1>1, <1>2, <1>3, <1>4, <1>5, <1>6, <1>7

-----------------------------------------------------------------------------
(* Every step preserves the invariant.                                     *)

LEMMA RuntimeStep ==
    ASSUME SInv, Runtime, UNCHANGED streamVars
    PROVE  ClientInv'
<1>0. UNCHANGED <<kind, streaming, channel, enforced, missed>> /\ IInv /\ ClientInv
  BY DEF streamVars, SInv
<1>1. /\ UNCHANGED <<published, done, restarts>>
      /\ \A o \in Objects : ver[o] \in Nat /\ ver'[o] \in Nat /\ ver[o] <= ver'[o]
      /\ \A o \in Objects : KindOf[o] \in synced' =>
            \/ KindOf[o] \in synced /\ startVer'[o] = startVer[o]
            \/ startVer'[o] = ver[o]
  BY <1>0, RuntimeFacts
<1>2. StreamInv'
  BY <1>0, <1>1 DEF ClientInv, StreamInv, RuleSets, RuleSet
<1>3. ASSUME NEW o \in ObjectsOf(kind) PROVE AgeInv(o)'
  <2>1. AgeInv(o) /\ o \in Objects /\ KindOf[o] = kind /\ enforced[o].ver \in Int
    BY <1>0, Comparable DEF ClientInv
  <2>2. enforced[o].ver <= ver[o] /\ enforced[o].ver <= ver'[o]
    BY <1>1, <2>1, SMTT(40) DEF AgeInv
  <2> QED
    BY <1>0, <1>1, <2>1, <2>2, Zenon DEF AgeInv
<1>4. \A i \in 1 .. Len(channel) : Newer(channel[i])'
  BY <1>0, <1>1 DEF ClientInv, Newer, NoRules
<1> QED
  BY <1>0, <1>2, <1>3, <1>4 DEF ClientInv

LEMMA DisconnectStep ==
    ASSUME SInv, Disconnect
    PROVE  ClientInv'
<1>0. /\ UNCHANGED <<kind, enforced, published, restarts, ver, synced, startVer>> /\ ClientInv
      /\ ~streaming' /\ channel' = <<>> /\ missed' = FALSE
  BY DEF Disconnect, SInv, vars, apiVars, runtimeVars, publishedVars
<1>1. channel' \in Seq(RuleSets(kind)) /\ 1 .. Len(channel') = {}
  BY <1>0, SMTT(40)
<1>2. StreamInv'
  BY <1>0, <1>1, Zenon DEF ClientInv, StreamInv, RuleSets
<1> QED
  BY <1>0, <1>1, <1>2, Zenon DEF ClientInv, AgeInv

LEMMA RestartBothStep ==
    ASSUME SInv, RestartBoth
    PROVE  ClientInv'
<1>0. /\ UNCHANGED <<kind, enforced, ver>> /\ ClientInv /\ PublishedInv
      /\ ~streaming' /\ channel' = <<>> /\ missed' = FALSE
      /\ synced' = {} /\ restarts' = restarts + 1
  BY DEF RestartBoth, Restart, SInv, apiVars
<1>1. channel' \in Seq(RuleSets(kind)) /\ 1 .. Len(channel') = {} /\ restarts' # 0
  BY <1>0, SMTT(40) DEF PublishedInv
<1>2. StreamInv'
  BY <1>0, <1>1, Zenon DEF ClientInv, StreamInv, RuleSets
<1> QED
  BY <1>0, <1>1, <1>2, Zenon DEF ClientInv, AgeInv

LEMMA SubscribeStep ==
    ASSUME SInv, Subscribe
    PROVE  ClientInv'
<1> DEFINE set == RuleSet(kind, published)
<1>0. /\ UNCHANGED <<kind, enforced, published, done, restarts, ver, synced, startVer>>
      /\ ClientInv /\ PublishedInv
      /\ streaming' /\ channel' = <<set>> /\ missed' = FALSE
  BY DEF Subscribe, SInv, vars, apiVars, runtimeVars, publishedVars
<1>1. set \in RuleSets(kind) /\ \A o \in ObjectsOf(kind) : set[o] = published[o]
  BY <1>0, RuleSetFacts DEF PublishedInv
<1>2. set' = set
  BY <1>0 DEF RuleSet
<1> HIDE DEF set
<1>3. /\ channel' \in Seq(RuleSets(kind)) /\ Len(channel') = 1 /\ channel' # <<>> /\ channel'[1] = set
      /\ 1 .. Len(channel') = {1}
  BY <1>0, <1>1, SMTT(40)
<1>4. StreamInv'
  BY <1>0, <1>2, <1>3, Zenon DEF ClientInv, StreamInv, RuleSets, set
<1>5. ASSUME NEW o \in ObjectsOf(kind) PROVE AgeInv(o)'
  <2>1. AgeInv(o) /\ published[o].ver <= published[o].ver
    BY <1>0, Comparable, SMTT(40) DEF ClientInv
  <2>2. \A i \in 1 .. Len(channel') : channel'[i][o].ver = published[o].ver
    BY <1>1, <1>3
  <2> QED
    BY <1>0, <2>1, <2>2 DEF AgeInv
<1>6. Newer(set)'
  <2>1. CASE restarts = 0 \/ kind \in done
    <3>1. ASSUME NEW o \in ObjectsOf(kind) PROVE enforced[o].ver <= set[o].ver
      BY <1>0, <1>1, <2>1, Comparable DEF ClientInv, AgeInv
    <3> QED
      BY <1>0, <1>2, <3>1 DEF Newer
  <2>2. CASE restarts # 0 /\ kind \notin done
    <3>1. \A o \in ObjectsOf(kind) : published[o] = NoCopy
      BY <1>0, <2>2 DEF PublishedInv, ObjectsOf
    <3>2. set = NoRules(kind)
      BY <3>1, Zenon DEF set, RuleSet, NoRules
    <3>3. restarts > 0
      BY <1>0, <2>2, SMTT(40) DEF PublishedInv
    <3> QED
      BY <1>0, <1>2, <3>2, <3>3 DEF Newer, NoRules
  <2> QED
    BY <2>1, <2>2
<1>7. \A i \in 1 .. Len(channel') : Newer(channel[i])'
  BY <1>2, <1>3, <1>6 DEF Newer
<1> QED
  BY <1>0, <1>4, <1>5, <1>7 DEF ClientInv

LEMMA TailItems ==
    ASSUME NEW S, NEW q \in Seq(S), q # <<>>, NEW t, t = Tail(q)
    PROVE  /\ Len(q) \in Nat /\ Len(q) >= 1 /\ Len(t) = Len(q) - 1
           /\ 1 \in 1 .. Len(q) /\ Len(q) \in 1 .. Len(q)
           /\ Head(q) = q[1] /\ q[1] \in S /\ t \in Seq(S)
           /\ \A i \in 1 .. Len(t) : i + 1 \in 1 .. Len(q) /\ t[i] = q[i + 1] /\ 1 <= i + 1
           /\ \A i, j \in 1 .. Len(t) : i <= j => i + 1 <= j + 1
           /\ t = <<>> => Len(q) = 1
           /\ t # <<>> => Len(t) \in 1 .. Len(t) /\ Len(t) + 1 = Len(q)
<1>1. /\ Len(q) \in Nat /\ Len(q) >= 1 /\ Head(q) = q[1] /\ q[1] \in S
      /\ t \in Seq(S) /\ Len(t) = Len(q) - 1
  BY SMTT(40)
<1>2. \A i \in 1 .. Len(q) - 1 : t[i] = q[i + 1]
  BY SMTT(40)
<1>3. /\ t = <<>> => Len(q) = 1
      /\ t # <<>> => Len(t) \in 1 .. Len(t)
  BY <1>1, SMTT(40)
<1> QED
  BY <1>1, <1>2, <1>3, SMTT(40)

(* What a client receives is the first message, and never older unless it   *)
(* is the empty set of a restarted controller.                              *)
LEMMA ReceiveStep ==
    ASSUME SInv, Receive
    PROVE  ClientInv'
<1>0. /\ UNCHANGED <<kind, streaming, missed, published, done, restarts, ver, synced, startVer>>
      /\ ClientInv /\ PublishedInv /\ channel # <<>>
      /\ enforced' = Head(channel) /\ channel' = Tail(channel)
  BY DEF Receive, SInv, vars, apiVars, runtimeVars, publishedVars
<1>1. channel \in Seq(RuleSets(kind))
  BY <1>0 DEF ClientInv, StreamInv
<1>2. /\ Len(channel) \in Nat /\ Len(channel) >= 1 /\ Len(channel') = Len(channel) - 1
      /\ 1 \in 1 .. Len(channel) /\ Len(channel) \in 1 .. Len(channel)
      /\ enforced' = channel[1] /\ channel[1] \in RuleSets(kind) /\ channel' \in Seq(RuleSets(kind))
      /\ \A i \in 1 .. Len(channel') : /\ i + 1 \in 1 .. Len(channel) /\ channel'[i] = channel[i + 1]
                                       /\ 1 <= i + 1
      /\ \A i, j \in 1 .. Len(channel') : i <= j => i + 1 <= j + 1
      /\ channel' = <<>> => Len(channel) = 1
      /\ channel' # <<>> => Len(channel') \in 1 .. Len(channel') /\ Len(channel') + 1 = Len(channel)
  BY <1>0, <1>1, TailItems, SMTT(40)
<1>3. StreamInv'
  <2>1. ~streaming' => channel' = <<>> /\ ~missed'
    BY <1>0, Zenon DEF ClientInv, StreamInv
  <2>2. RuleSet(kind, published)' = RuleSet(kind, published)
    BY <1>0 DEF RuleSet
  <2>3. streaming /\ ~missed => channel[Len(channel)] = RuleSet(kind, published)
    BY <1>0, Zenon DEF ClientInv, StreamInv
  <2>4. channel' # <<>> => channel'[Len(channel')] = channel[Len(channel)]
    BY <1>2, Zenon
  <2>5. channel' = <<>> => enforced' = channel[Len(channel)]
    BY <1>2, Zenon
  <2>6. missed \in BOOLEAN
    BY <1>0 DEF ClientInv, StreamInv
  <2>7. enforced' \in RuleSets(kind)' /\ channel' \in Seq(RuleSets(kind)')
    BY <1>0, <1>2, Zenon DEF RuleSets
  <2> QED
    BY <1>0, <2>1, <2>2, <2>3, <2>4, <2>5, <2>6, <2>7, Zenon DEF StreamInv
<1>4. ASSUME NEW o \in ObjectsOf(kind) PROVE AgeInv(o)'
  <2>1. AgeInv(o) /\ published[o].ver \in Int /\ ver[o] \in Nat /\ published[o].ver <= ver[o] /\ channel[1][o].ver \in Int
    BY <1>0, <1>2, Comparable DEF ClientInv
  <2>2. channel[1][o].ver <= published[o].ver
    BY <1>2, <2>1 DEF AgeInv
  <2>3. channel[1][o].ver <= ver[o]
    BY <2>1, <2>2, SMTT(40)
  <2>4. \A i \in 1 .. Len(channel') : channel'[i][o].ver <= published[o].ver
    BY <1>2, <2>1, Zenon DEF AgeInv
  <2>5. \A i, j \in 1 .. Len(channel') : i <= j => channel'[i][o].ver <= channel'[j][o].ver
    BY <1>2, <2>1, Zenon DEF AgeInv
  <2> QED
    BY <1>0, <1>2, <2>2, <2>3, <2>4, <2>5, Zenon DEF AgeInv
<1>5. ASSUME NEW i \in 1 .. Len(channel') PROVE Newer(channel[i])'
  <2>1. ASSUME NEW o \in ObjectsOf(kind) PROVE enforced'[o].ver <= channel'[i][o].ver
    BY <1>0, <1>2, <1>5, <2>1, Zenon DEF ClientInv, AgeInv
  <2>2. ObjectsOf(kind)' = ObjectsOf(kind)
    BY <1>0
  <2> QED
    BY <2>1, <2>2 DEF Newer
<1> QED
  BY <1>0, <1>3, <1>4, <1>5 DEF ClientInv

LEMMA PublishAndSendStep ==
    ASSUME SInv, NEW k \in Kinds, PublishAndSend(k)
    PROVE  ClientInv'
<1> DEFINE set == RuleSet(kind, published')
           sent == /\ k = kind /\ streaming
                   /\ channel' = Append(channel, set) /\ missed' = FALSE
<1>0. /\ UNCHANGED <<kind, streaming, enforced>> /\ ClientInv /\ PublishedInv /\ IInv /\ Publish(k)
      /\ sent => channel' = Append(channel, set) /\ missed' = FALSE
      /\ ~sent => missed' = (missed \/ (k = kind /\ streaming)) /\ UNCHANGED channel
  <2>1. UNCHANGED <<kind, streaming, enforced>> /\ ClientInv /\ PublishedInv /\ IInv /\ Publish(k)
    BY DEF PublishAndSend, SInv
  <2>2. missed \in BOOLEAN
    BY <2>1 DEF ClientInv, StreamInv
  <2>3. \/ sent
        \/ k = kind /\ streaming /\ missed' = TRUE /\ channel' = channel
        \/ ~(k = kind /\ streaming) /\ missed' = missed /\ channel' = channel
    BY DEF PublishAndSend
  <2> QED
    BY <2>1, <2>2, <2>3
<1>1. /\ published' \in [Objects -> Rules] /\ done' = done \cup {k}
      /\ UNCHANGED <<restarts, ver, startVer, synced>>
      /\ \A o \in Objects \ ObjectsOf(k) : published'[o] = published[o]
      /\ \A o \in ObjectsOf(k) : published[o].ver <= published'[o].ver /\ startVer[o] <= published'[o].ver
  BY <1>0, PublishFacts
<1>2. set \in RuleSets(kind) /\ \A o \in ObjectsOf(kind) : set[o] = published'[o]
  BY <1>1, RuleSetFacts
<1>3. k # kind => set = RuleSet(kind, published)
  <2>1. k # kind => \A o \in ObjectsOf(kind) : published'[o] = published[o]
    BY <1>1 DEF ObjectsOf
  <2> QED
    BY <2>1, SameRuleSet
<1>4. RuleSet(kind, published)' = set /\ channel \in Seq(RuleSets(kind)) /\ missed \in BOOLEAN
  BY <1>0 DEF ClientInv, StreamInv, RuleSet
<1> HIDE DEF set, sent
<1>5. ASSUME sent
      PROVE  /\ channel' \in Seq(RuleSets(kind)) /\ channel' # <<>> /\ Len(channel') = Len(channel) + 1
             /\ channel'[Len(channel')] = set /\ Len(channel) \in Nat
             /\ \A i \in 1 .. Len(channel') :
                   IF i = Len(channel') THEN channel'[i] = set
                                        ELSE i \in 1 .. Len(channel) /\ channel'[i] = channel[i]
  <2> DEFINE S == RuleSets(kind)
  <2>1. channel \in Seq(S) /\ set \in S /\ channel' = Append(channel, set)
    BY <1>0, <1>2, <1>4, <1>5
  <2> HIDE DEF S
  <2>2. /\ channel' \in Seq(S) /\ channel' # <<>> /\ Len(channel') = Len(channel) + 1
        /\ channel'[Len(channel')] = set /\ Len(channel) \in Nat
    BY <2>1, SMTT(40)
  <2>3. \A i \in 1 .. Len(channel') : i # Len(channel') => i \in 1 .. Len(channel) /\ channel'[i] = channel[i]
    BY <2>1, SMTT(40)
  <2> QED
    BY <2>2, <2>3, Zenon DEF S
<1>6. StreamInv'
  <2>1. enforced' \in RuleSets(kind)' /\ channel' \in Seq(RuleSets(kind)')
    BY <1>0, <1>4, <1>5, Zenon DEF ClientInv, StreamInv, RuleSets
  <2>2. CASE sent
    <3>1. streaming /\ missed' = FALSE
      BY <1>0, <2>2, Zenon DEF sent
    <3> QED
      BY <1>0, <1>4, <1>5, <2>1, <2>2, <3>1, Zenon DEF StreamInv
  <2>3. CASE ~sent
    <3>1. missed' \in BOOLEAN
      BY <1>0, <1>4, <2>3, Zenon
    <3>2. streaming /\ ~missed' => ~missed /\ k # kind
      BY <1>0, <2>3, Zenon
    <3> QED
      BY <1>0, <1>3, <1>4, <2>1, <2>3, <3>1, <3>2, Zenon DEF ClientInv, StreamInv
  <2> QED
    BY <2>2, <2>3
<1>7. ASSUME NEW o \in ObjectsOf(kind)
      PROVE  /\ enforced[o].ver <= ver[o]
             /\ kind \in synced => enforced[o].ver <= startVer[o] \/ enforced[o].ver <= published'[o].ver
             /\ restarts = 0 => enforced[o].ver <= published'[o].ver
             /\ k = kind => enforced[o].ver <= published'[o].ver
             /\ published'[o].ver \in Int
             /\ \A i \in 1 .. Len(channel) : channel[i][o].ver <= published'[o].ver
  <2>1. /\ AgeInv(o) /\ o \in Objects /\ KindOf[o] = kind
        /\ enforced[o].ver \in Int /\ published[o].ver \in Int /\ ver[o] \in Nat /\ startVer[o] \in Nat
        /\ \A i \in 1 .. Len(channel) : channel[i][o].ver \in Int
    BY <1>0, Comparable DEF ClientInv
  <2>2. published'[o].ver \in Int
    BY <1>1, <2>1, RulesHaveVersions
  <2>3. published[o].ver <= published'[o].ver
    <3>1. CASE k = kind
      BY <1>1, <3>1
    <3>2. CASE k # kind
      <4>1. published'[o] = published[o]
        BY <1>1, <2>1, <3>2 DEF ObjectsOf
      <4> QED
        BY <2>1, <4>1, SMTT(40)
    <3> QED
      BY <3>1, <3>2
  <2>4. /\ kind \in synced => enforced[o].ver <= startVer[o] \/ enforced[o].ver <= published'[o].ver
        /\ restarts = 0 => enforced[o].ver <= published'[o].ver
    BY <2>1, <2>2, <2>3, SMTT(40) DEF AgeInv
  <2>5. \A i \in 1 .. Len(channel) : channel[i][o].ver <= published'[o].ver
    BY <2>1, <2>2, <2>3, SMTT(40) DEF AgeInv
  <2>6. k = kind => enforced[o].ver <= published'[o].ver
    <3>1. k \in synced
      BY <1>0 DEF Publish, IInv, KindInv
    <3> QED
      BY <1>1, <2>1, <2>2, <2>4, <3>1, SMTT(40)
  <2> QED
    BY <2>1, <2>2, <2>4, <2>5, <2>6 DEF AgeInv
<1>8. ASSUME NEW o \in ObjectsOf(kind) PROVE AgeInv(o)'
  <2>1. AgeInv(o) /\ set[o] = published'[o] /\ published'[o].ver <= published'[o].ver
    BY <1>0, <1>2, <1>7, SMTT(40) DEF ClientInv
  <2>2. \A i \in 1 .. Len(channel') : channel'[i][o].ver <= published'[o].ver
    BY <1>0, <1>5, <1>7, <2>1, Zenon
  <2>3. \A i, j \in 1 .. Len(channel') : i <= j => channel'[i][o].ver <= channel'[j][o].ver
    <3>1. CASE sent
      <4> SUFFICES ASSUME NEW i \in 1 .. Len(channel'), NEW j \in 1 .. Len(channel'), i <= j
                   PROVE  channel'[i][o].ver <= channel'[j][o].ver
        OBVIOUS
      <4>1. CASE j = Len(channel')
        BY <1>5, <2>1, <2>2, <3>1, <4>1, Zenon
      <4>2. CASE j # Len(channel')
        <5>1. i # Len(channel')
          BY <1>5, <3>1, <4>2, SMTT(40)
        <5> QED
          BY <1>5, <2>1, <3>1, <4>2, <5>1, Zenon DEF AgeInv
      <4> QED
        BY <4>1, <4>2
    <3>2. CASE ~sent
      BY <1>0, <2>1, <3>2, Zenon DEF AgeInv
    <3> QED
      BY <3>1, <3>2
  <2> QED
    BY <1>0, <1>1, <1>7, <2>2, <2>3, Zenon DEF AgeInv
<1>9. \A i \in 1 .. Len(channel') : Newer(channel[i])'
  <2>0. \A i \in 1 .. Len(channel) : Newer(channel[i])
    BY <1>0 DEF ClientInv
  <2>1. \A i \in 1 .. Len(channel') : (channel'[i] = set /\ k = kind) \/ (i \in 1 .. Len(channel) /\ channel'[i] = channel[i])
    <3>1. CASE sent
      BY <1>5, <3>1, Zenon DEF sent
    <3>2. CASE ~sent
      BY <1>0, <3>2, Zenon
    <3> QED
      BY <3>1, <3>2
  <2>2. k = kind => \A o \in ObjectsOf(kind) : enforced[o].ver <= set[o].ver
    BY <1>2, <1>7, Zenon
  <2> QED
    BY <1>0, <1>1, <2>0, <2>1, <2>2, Zenon DEF Newer, NoRules
<1> QED
  BY <1>0, <1>6, <1>8, <1>9 DEF ClientInv

-----------------------------------------------------------------------------
(* The theorems.                                                           *)

(* A step of the system is a step of the controller or leaves it alone. *)
LEMMA StepOfReconcilers == [SystemNext]_systemVars => [Next]_vars
  BY DEF SystemNext, systemVars, PublishAndSend, RestartBoth, Subscribe, Receive, Disconnect, Next

(* The controller in the system behaves as the controller on its own, so    *)
(* all that is proved of Reconcilers holds in the system as well.           *)
THEOREM SystemImplementsReconcilers == SystemSpec => Spec
<1>1. SystemInit => Init
  BY DEF SystemInit
<1> QED
  BY <1>1, StepOfReconcilers, PTL DEF SystemSpec, Spec

LEMMA InitSInv == SystemInit => SInv
<1> SUFFICES ASSUME SystemInit PROVE SInv
  OBVIOUS
<1>1. IInv
  BY InitIInv DEF SystemInit
<1>2. NoCopy \in Rules
  BY DEF Rules
<1>3. /\ published = [o \in Objects |-> NoCopy] /\ restarts = 0 /\ synced = {}
      /\ ver = [o \in Objects |-> 0] /\ ~streaming /\ channel = <<>> /\ missed = FALSE
      /\ enforced = [o \in ObjectsOf(kind) |-> NoCopy]
  BY DEF SystemInit, Init, NoRules
<1>4. PublishedInv
  BY <1>2, <1>3 DEF PublishedInv
<1>5. channel \in Seq(RuleSets(kind)) /\ 1 .. Len(channel) = {} /\ NoCopy.ver = -1 /\ -1 <= 0 /\ -1 <= -1
  BY <1>3, SMTT(40) DEF NoCopy
<1>6. StreamInv
  BY <1>2, <1>3, <1>5, Zenon DEF StreamInv, RuleSets
<1>7. ASSUME NEW o \in ObjectsOf(kind) PROVE AgeInv(o)
  <2>1. enforced[o] = NoCopy /\ published[o] = NoCopy /\ ver[o] = 0
    BY <1>3 DEF ObjectsOf
  <2> QED
    BY <1>3, <1>5, <2>1, Zenon DEF AgeInv
<1> QED
  BY <1>1, <1>4, <1>5, <1>6, <1>7 DEF SInv, ClientInv

LEMMA NextSInv == SInv /\ [SystemNext]_systemVars => SInv'
<1> SUFFICES ASSUME SInv, [SystemNext]_systemVars PROVE SInv'
  OBVIOUS
<1>1. [Next]_vars
  BY StepOfReconcilers
<1>2. IInv'
  BY <1>1, NextIInv DEF SInv
<1>3. PublishedInv'
  BY <1>1, PublishedStep DEF SInv
<1>4. ClientInv'
  <2>1. CASE Runtime /\ UNCHANGED streamVars
    BY <2>1, RuntimeStep
  <2>2. ASSUME NEW k \in Kinds, PublishAndSend(k) PROVE ClientInv'
    BY <2>2, PublishAndSendStep
  <2>3. CASE RestartBoth
    BY <2>3, RestartBothStep
  <2>4. CASE Subscribe
    BY <2>4, SubscribeStep
  <2>5. CASE Receive
    BY <2>5, ReceiveStep
  <2>6. CASE Disconnect
    BY <2>6, DisconnectStep
  <2>7. CASE UNCHANGED systemVars
    <3>1. UNCHANGED <<kind, streaming, channel, enforced, missed, published, restarts, ver, synced, startVer>>
      BY <2>7 DEF systemVars, streamVars, vars, apiVars, runtimeVars, publishedVars
    <3> QED
      BY <3>1, SMTT(40) DEF SInv, ClientInv, StreamInv, AgeInv, Newer, RuleSets, RuleSet, NoRules
  <2> QED
    BY <2>1, <2>2, <2>3, <2>4, <2>5, <2>6, <2>7 DEF SystemNext
<1> QED
  BY <1>2, <1>3, <1>4 DEF SInv

LEMMA AlwaysSInv == SystemSpec => []SInv
  BY InitSInv, NextSInv, PTL DEF SystemSpec

(* When the controller has nothing left to do and the client has received   *)
(* what was sent, it enforces the rules of the objects as stored, for any   *)
(* objects, edits, errors, restarts and channel size, unless a message was  *)
(* dropped (Reconcile, Update*Rules, Stream*Rules).                         *)
THEOREM StoredEnforced == SystemSpec => []StoredIsEnforced
<1>1. SInv => StoredIsEnforced
  <2> SUFFICES ASSUME SInv, Quiet(kind), streaming, channel = <<>>, ~missed, NEW o \in ObjectsOf(kind)
               PROVE  enforced[o].spec = RuleOf(o, Copy(o)).spec
    BY DEF StoredIsEnforced
  <2>1. enforced = RuleSet(kind, published)
    BY DEF SInv, ClientInv, StreamInv
  <2>2. enforced[o] = published[o]
    BY <2>1 DEF RuleSet
  <2>3. RuleInv(o) /\ KindOf[o] = kind /\ kind \in synced /\ ~stale[o] /\ queue[kind] = <<>> /\ work[kind].step = "idle"
    BY DEF SInv, IInv, ObjInv, ObjectsOf, Quiet
  <2>4. published[o].spec = RuleOf(o, Copy(o)).spec
    BY <2>3, Zenon DEF RuleInv
  <2> QED
    BY <2>2, <2>4
<1> QED
  BY <1>1, AlwaysSInv, PTL

(* A client never goes back to an older version of an object, except that a *)
(* restarted controller that has published nothing takes all rules of the   *)
(* kind away (Stream*Rules, main).                                          *)
THEOREM EnforcedNeverOlder == SystemSpec => NeverOlder
<1>1. ASSUME SInv, [SystemNext]_systemVars
      PROVE  [\A o \in DOMAIN enforced : enforced'[o].ver < enforced[o].ver =>
                 enforced' = NoRules(kind) /\ restarts > 0]_systemVars
  <2>0. DOMAIN enforced = ObjectsOf(kind)
    BY <1>1 DEF SInv, ClientInv, StreamInv, RuleSets
  <2>1. CASE enforced' = enforced
    <3>1. \A o \in ObjectsOf(kind) : enforced[o].ver \in Int
      BY <1>1, Comparable
    <3>2. \A o \in ObjectsOf(kind) : ~(enforced[o].ver < enforced[o].ver)
      BY <3>1, SMTT(40)
    <3> QED
      BY <2>0, <2>1, <3>2, Zenon
  <2>2. CASE Receive
    <3>1. channel # <<>> /\ enforced' = Head(channel) /\ channel \in Seq(RuleSets(kind))
      BY <1>1, <2>2 DEF Receive, SInv, ClientInv, StreamInv
    <3>2. 1 \in 1 .. Len(channel) /\ enforced' = channel[1]
      BY <3>1, TailItems
    <3>3. Newer(channel[1])
      BY <1>1, <3>2 DEF SInv, ClientInv
    <3>4. \A o \in ObjectsOf(kind) : enforced[o].ver \in Int /\ channel[1][o].ver \in Int
      BY <1>1, <3>2, Comparable
    <3>5. \A o \in ObjectsOf(kind) : enforced[o].ver <= channel[1][o].ver => ~(channel[1][o].ver < enforced[o].ver)
      BY <3>4, SMTT(40)
    <3> QED
      BY <2>0, <3>2, <3>3, <3>5, Zenon DEF Newer
  <2> QED
    BY <1>1, <2>1, <2>2 DEF SystemNext, systemVars, streamVars, PublishAndSend, RestartBoth, Subscribe, Disconnect
<1> QED
  BY <1>1, AlwaysSInv, PTL DEF SystemSpec, NeverOlder

-----------------------------------------------------------------------------
(* The stream of the client, apart from the reconcilers: RuleFeed.         *)

(* The rules of a kind change only with a publication of the kind and with  *)
(* a restart.                                                               *)
LEMMA CurrentUnchanged ==
    ASSUME UNCHANGED <<published, streaming, channel, enforced, missed>>, NEW k
    PROVE  UNCHANGED Feed(k)!vars
  BY DEF Feed!vars, RuleSet

(* A publication is one of the feed if it is of the kind of the client, and *)
(* does not show on it otherwise.                                           *)
LEMMA PublishFeeds ==
    ASSUME SInv, NEW k \in Kinds, PublishAndSend(k), NEW q \in Kinds, kind = q
    PROVE  Feed(q)!Publish \/ UNCHANGED Feed(q)!vars
<1>0. UNCHANGED <<kind, streaming, enforced>> /\ Publish(k) /\ IInv /\ PublishedInv
  BY DEF PublishAndSend, SInv
<1>1. CASE k = q
  <2>1. \/ /\ streaming /\ Len(channel) < ChannelCap + InFlight
           /\ channel' = Append(channel, RuleSet(q, published')) /\ missed' = FALSE
        \/ streaming /\ Len(channel) >= ChannelCap /\ missed' = TRUE /\ channel' = channel
        \/ ~streaming /\ channel' = channel /\ missed' = missed
    BY <1>1 DEF PublishAndSend
  <2> QED
    BY <1>0, <2>1 DEF Feed!Publish
<1>2. CASE k # q
  <2>1. \A o \in Objects \ ObjectsOf(k) : published'[o] = published[o]
    BY <1>0, PublishFacts
  <2>2. \A o \in ObjectsOf(q) : published'[o] = published[o]
    BY <1>2, <2>1 DEF ObjectsOf
  <2>3. RuleSet(q, published') = RuleSet(q, published)
    BY <2>2, SameRuleSet
  <2>4. UNCHANGED <<channel, missed>>
    BY <1>2 DEF PublishAndSend
  <2> QED
    BY <1>0, <2>3, <2>4 DEF Feed!vars
<1> QED
  BY <1>1, <1>2

(* The client starts as a client of a new feed does. *)
LEMMA FeedInit ==
    ASSUME SystemInit, NEW q \in Kinds, kind = q
    PROVE  Feed(q)!Init
<1>1. /\ published = [o \in Objects |-> NoCopy] /\ enforced = NoRules(q)
      /\ streaming = FALSE /\ channel = <<>> /\ missed = FALSE
  BY DEF SystemInit, Init
<1>2. RuleSet(q, published) = NoRules(q)
  BY <1>1 DEF RuleSet, NoRules, ObjectsOf
<1> QED
  BY <1>1, <1>2 DEF Feed!Init

(* Every step of the system is a step of the feed or does not show on it. *)
LEMMA FeedStep ==
    ASSUME SInv, [SystemNext]_systemVars, NEW q \in Kinds, kind = q
    PROVE  [Feed(q)!Next]_(Feed(q)!vars)
<1>1. CASE Runtime /\ UNCHANGED streamVars
  <2>1. UNCHANGED <<published, streaming, channel, enforced, missed>>
    BY <1>1, RuntimeFacts DEF SInv, streamVars
  <2> QED
    BY <2>1, CurrentUnchanged
<1>2. ASSUME NEW k \in Kinds, PublishAndSend(k) PROVE [Feed(q)!Next]_(Feed(q)!vars)
  BY <1>2, PublishFeeds DEF Feed!Next
<1>3. CASE RestartBoth
  <2>1. /\ published' = [o \in Objects |-> NoCopy] /\ enforced' = enforced
        /\ streaming' = FALSE /\ channel' = <<>> /\ missed' = FALSE
    BY <1>3 DEF RestartBoth, Restart
  <2>2. RuleSet(q, published') = NoRules(q)
    BY <2>1 DEF RuleSet, NoRules, ObjectsOf
  <2> QED
    BY <2>1, <2>2 DEF Feed!Next, Feed!ControllerRestart, Feed!Down
<1>4. CASE Subscribe
  <2>1. /\ UNCHANGED <<published, enforced>> /\ ~streaming /\ streaming' = TRUE
        /\ channel' = <<RuleSet(q, published)>> /\ missed' = FALSE
    BY <1>4 DEF Subscribe, vars, publishedVars
  <2>2. missed = FALSE
    BY <2>1 DEF SInv, ClientInv, StreamInv
  <2> QED
    BY <2>1, <2>2 DEF Feed!Next, Feed!Subscribe, RuleSet
<1>5. CASE Receive
  <2>1. /\ UNCHANGED <<published, streaming, missed>> /\ channel # <<>>
        /\ enforced' = Head(channel) /\ channel' = Tail(channel)
    BY <1>5 DEF Receive, vars, publishedVars
  <2> QED
    BY <2>1 DEF Feed!Next, Feed!Receive, RuleSet
<1>6. CASE Disconnect
  <2>1. /\ UNCHANGED <<published, enforced>>
        /\ streaming' = FALSE /\ channel' = <<>> /\ missed' = FALSE
    BY <1>6 DEF Disconnect, vars, publishedVars
  <2> QED
    BY <2>1 DEF Feed!Next, Feed!Disconnect, Feed!Down, RuleSet
<1>7. CASE UNCHANGED systemVars
  <2>1. UNCHANGED <<published, streaming, channel, enforced, missed>>
    BY <1>7 DEF systemVars, streamVars, vars, publishedVars
  <2> QED
    BY <2>1, CurrentUnchanged
<1> QED
  BY <1>1, <1>2, <1>3, <1>4, <1>5, <1>6, <1>7 DEF SystemNext

(* The stream half of the system is the one RuleStream implements for each  *)
(* of its clients (FullSetsImplementRuleFeed): a queue of whole sets that   *)
(* opens with the published rules and loses a set only when a channel's     *)
(* worth is waiting, whatever the reconcilers do meanwhile.                 *)
THEOREM StreamFollowsRuleFeed == SystemSpec => FollowsRuleFeed
<1>1. SystemInit => \A k \in Kinds : kind = k => Feed(k)!Init
  BY FeedInit
<1>2. SInv /\ [SystemNext]_systemVars
      => [\A k \in Kinds : kind = k => [Feed(k)!Next]_(Feed(k)!vars)]_systemVars
  BY FeedStep
<1> QED
  BY <1>1, <1>2, AlwaysSInv, PTL DEF SystemSpec, FollowsRuleFeed

(* The kind a client streams is fixed when it starts, so the stream is a    *)
(* behaviour of RuleFeed for that kind.                                     *)
THEOREM ClientHasAFeed == SystemSpec => \A k \in Kinds : kind = k => Feed(k)!Spec
<1>1. ASSUME NEW q \in Kinds PROVE SystemSpec => (kind = q => Feed(q)!Spec)
  <2>1. SystemInit /\ kind = q => Feed(q)!Init
    BY FeedInit
  <2>2. (kind = q) /\ [SystemNext]_systemVars => (kind = q)'
    BY DEF SystemNext, systemVars, streamVars, PublishAndSend, RestartBoth, Subscribe, Receive, Disconnect
  <2>3. SInv /\ (kind = q) /\ [SystemNext]_systemVars => [Feed(q)!Next]_(Feed(q)!vars)
    BY FeedStep
  <2>4. SystemSpec /\ kind = q => Feed(q)!Init /\ [][Feed(q)!Next]_(Feed(q)!vars)
    BY <2>1, <2>2, <2>3, AlwaysSInv, PTL DEF SystemSpec
  <2>5. Feed(q)!Init /\ [][Feed(q)!Next]_(Feed(q)!vars) => Feed(q)!Spec
    BY PTL DEF Feed!Spec
  <2> QED
    BY <2>4, <2>5, PTL
<1> QED
  BY <1>1

=============================================================================
