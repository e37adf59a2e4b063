------------------------------ MODULE RuleStream ------------------------------
(***************************************************************************)
(* Distribution of rules from the controller to the data plane over the    *)
(* RuleDiscoveryService streams: the rule server (its rules, its version   *)
(* counter, one bounded channel per subscriber), the stream handler that   *)
(* empties the channel into the gRPC stream, and the rule client that      *)
(* rebuilds a keyed map from the messages and hands it to a setter.        *)
(*                                                                         *)
(* The three streams (generation, verification, issuance) run the same     *)
(* code over different rules; they differ in two parameters.               *)
(*   - RefOf: what a removal names.  Generation and verification rules are *)
(*     removed by their own (namespace, name), so RefOf is the identity;   *)
(*     issuance rules are removed by the TokenPolicy they come from.       *)
(*   - BadValues: rules the setter refuses.  The ext-auth setters accept   *)
(*     everything; the TTS setter refuses a set with CEL it cannot compile *)
(*     and keeps the previous one.                                         *)
(* A rule list is modelled as a function from keys.  Namespace and name    *)
(* are unique in the Kubernetes API; two issuance rules of one TokenPolicy *)
(* with the same name would share a key, as they do in the client's map.   *)
(***************************************************************************)
EXTENDS Naturals, Sequences

CONSTANTS
    Clients,        \* data-plane processes, one stream each
    Keys,           \* rule keys
    Refs,           \* what a removal can name
    RefOf,          \* the ref that removes a key
    Values,         \* rule bodies
    NoRule,         \* "no rule under this key"
    BadValues,      \* rule bodies the setter refuses
    ChanCap,        \* capacity of a subscriber channel (64 in the code)
    WireCap,        \* messages gRPC flow control lets the handler send ahead
    MaxLog          \* bound: rule sets published over all controller runs

ASSUME RefOfAssumption == RefOf \in [Keys -> Refs]
ASSUME ValuesAssumption == NoRule \notin Values /\ BadValues \subseteq Values
ASSUME BoundsAssumption ==
    /\ ChanCap \in Nat \ {0}
    /\ WireCap \in Nat \ {0}
    /\ MaxLog \in Nat \ {0}

VARIABLES
    \* --- the controller process ---
    rules,          \* the rule server's current rules
    version,        \* the rule server's version counter
    \* --- one stream per client ---
    phase,          \* "down", "requested" (request sent), "streaming" (subscribed)
    chan,           \* the subscriber channel
    hand,           \* the message the handler holds between channel and Send
    wire,           \* sent and not yet received
    \* --- the client process ---
    local,          \* the map streamGeneration (...) keeps for this connection
    applied,        \* the rule set last accepted by the setter
    synced,         \* Ready()
    \* --- history: read by no action ---
    log,            \* every rule set the controller has held, oldest first
    at,             \* at[c]: index in log of the message applied[c] comes from
    gap             \* gap[c]: a broadcast to c was dropped, no snapshot since

serverVars == <<rules, version, log>>
streamVars == <<phase, chan, hand, wire, gap>>
clientVars == <<local, applied, synced, at>>
vars == <<serverVars, streamVars, clientVars>>

RuleSets == [Keys -> Values \cup {NoRule}]
EmptyRules == [k \in Keys |-> NoRule]
Phases == {"down", "requested", "streaming"}

(* A response: a full snapshot, or a delta of upserted rules and removed refs. *)
Messages == [snap : BOOLEAN, put : RuleSets, del : SUBSET Refs, version : Nat]

Snapshot(rs, v) == [snap |-> TRUE, put |-> rs, del |-> {}, version |-> v]
Upserted(k, x, v) ==
    [snap |-> FALSE, put |-> [EmptyRules EXCEPT ![k] = x], del |-> {}, version |-> v]
Removed(r, v) ==
    [snap |-> FALSE, put |-> EmptyRules, del |-> {r}, version |-> v]

(* The messages on their way to c, the next one first. *)
Pending(c) == wire[c] \o hand[c] \o chan[c]

Init ==
    /\ rules = EmptyRules
    /\ version = 0
    /\ phase = [c \in Clients |-> "down"]
    /\ chan = [c \in Clients |-> <<>>]
    /\ hand = [c \in Clients |-> <<>>]
    /\ wire = [c \in Clients |-> <<>>]
    /\ local = [c \in Clients |-> EmptyRules]
    /\ applied = [c \in Clients |-> EmptyRules]
    /\ synced = [c \in Clients |-> FALSE]
    /\ log = <<EmptyRules>>
    /\ at = [c \in Clients |-> 0]
    /\ gap = [c \in Clients |-> FALSE]

-----------------------------------------------------------------------------
(* The rule server.  Every operation changes the rules, takes the next      *)
(* version and offers one message to each subscriber without blocking: a    *)
(* full channel drops it.  All of it happens under the server's mutex.      *)

(* Fault: the subscriber channel takes any number of messages. *)
RoomUnbounded(c) == phase[c] = "streaming"

Room(c) == phase[c] = "streaming" /\ Len(chan[c]) < ChanCap

Broadcast(m) ==
    /\ version' = m.version
    /\ chan' = [c \in Clients |-> IF Room(c) THEN Append(chan[c], m) ELSE chan[c]]
    /\ gap' = [c \in Clients |->
                  /\ phase[c] = "streaming"
                  /\ Room(c) => gap[c] /\ ~m.snap]
    /\ log' = Append(log, rules')
    /\ UNCHANGED <<phase, hand, wire, clientVars>>

(* UpdateGenerationRules, UpdateVerificationRules, UpdateIssuanceRules *)
UpdateRules(rs) ==
    /\ Len(log) < MaxLog
    /\ rules' = rs
    /\ Broadcast(Snapshot(rs, version + 1))

(* Fault: a delta is sent under the version already in use. *)
UpsertSameVersion(k, x) ==
    /\ Len(log) < MaxLog
    /\ rules' = [rules EXCEPT ![k] = x]
    /\ Broadcast(Upserted(k, x, version))

(* UpsertGenerationRule, UpsertVerificationRule, UpsertIssuanceRule *)
UpsertRule(k, x) ==
    /\ Len(log) < MaxLog
    /\ rules' = [rules EXCEPT ![k] = x]
    /\ Broadcast(Upserted(k, x, version + 1))

(* RemoveGenerationRule, RemoveVerificationRule, RemoveIssuanceRule.  An *)
(* absent rule is removed, versioned and broadcast all the same.         *)
RemoveRule(r) ==
    /\ Len(log) < MaxLog
    /\ rules' = [k \in Keys |-> IF RefOf[k] = r THEN NoRule ELSE rules[k]]
    /\ Broadcast(Removed(r, version + 1))

(* The controller process stops and a new one starts.  Rules and version  *)
(* live in memory only, and the gRPC server accepts streams before the    *)
(* reconcilers have published anything.                                   *)
ControllerRestart ==
    /\ Len(log) < MaxLog
    /\ rules' = EmptyRules
    /\ version' = 0
    /\ log' = Append(log, EmptyRules)
    /\ phase' = [c \in Clients |-> "down"]
    /\ chan' = [c \in Clients |-> <<>>]
    /\ hand' = [c \in Clients |-> <<>>]
    /\ wire' = [c \in Clients |-> <<>>]
    /\ gap' = [c \in Clients |-> FALSE]
    /\ UNCHANGED clientVars

-----------------------------------------------------------------------------
(* The stream handler of one subscriber.                                   *)

(* Fault: the handler registers and streams updates, but sends no snapshot. *)
SubscribeNoSnapshot(c) ==
    /\ phase[c] = "requested"
    /\ phase' = [phase EXCEPT ![c] = "streaming"]
    /\ UNCHANGED <<serverVars, chan, hand, wire, gap, clientVars>>

(* Fault: the snapshot is built before the mutex is taken, and one update *)
(* falls between the two.                                                 *)
SubscribeStaleSnapshot(c) ==
    /\ phase[c] = "requested"
    /\ phase' = [phase EXCEPT ![c] = "streaming"]
    /\ hand' = [hand EXCEPT ![c] =
                   IF version = 0 THEN <<Snapshot(rules, version)>>
                   ELSE <<Snapshot(log[Len(log) - 1], version - 1)>>]
    /\ UNCHANGED <<serverVars, chan, wire, gap, clientVars>>

(* First request received: register the channel and build the snapshot,  *)
(* both under the mutex, so no update falls between the two.             *)
Subscribe(c) ==
    /\ phase[c] = "requested"
    /\ phase' = [phase EXCEPT ![c] = "streaming"]
    /\ hand' = [hand EXCEPT ![c] = <<Snapshot(rules, version)>>]
    /\ UNCHANGED <<serverVars, chan, wire, gap, clientVars>>

(* stream.Send returns once flow control has room for the message. *)
Send(c) ==
    /\ hand[c] # <<>>
    /\ Len(wire[c]) < WireCap
    /\ wire' = [wire EXCEPT ![c] = Append(@, Head(hand[c]))]
    /\ hand' = [hand EXCEPT ![c] = <<>>]
    /\ UNCHANGED <<serverVars, phase, chan, gap, clientVars>>

Take(c) ==
    /\ hand[c] = <<>>
    /\ chan[c] # <<>>
    /\ hand' = [hand EXCEPT ![c] = <<Head(chan[c])>>]
    /\ chan' = [chan EXCEPT ![c] = Tail(@)]
    /\ UNCHANGED <<serverVars, phase, wire, gap, clientVars>>

(* The stream breaks, at whichever end.  The handler returns and unregisters *)
(* its channel; what was on its way is lost, and so is the client's map.     *)
Disconnect(c) ==
    /\ phase[c] # "down"
    /\ phase' = [phase EXCEPT ![c] = "down"]
    /\ chan' = [chan EXCEPT ![c] = <<>>]
    /\ hand' = [hand EXCEPT ![c] = <<>>]
    /\ wire' = [wire EXCEPT ![c] = <<>>]
    /\ gap' = [gap EXCEPT ![c] = FALSE]
    /\ UNCHANGED <<serverVars, clientVars>>

-----------------------------------------------------------------------------
(* The rule client.                                                        *)

(* Run, after its backoff, opens a new stream with an empty map. *)
Connect(c) ==
    /\ phase[c] = "down"
    /\ phase' = [phase EXCEPT ![c] = "requested"]
    /\ local' = [local EXCEPT ![c] = EmptyRules]
    /\ UNCHANGED <<serverVars, chan, hand, wire, gap, applied, synced, at>>

Touches(m, k) == m.snap \/ m.put[k] # NoRule \/ RefOf[k] \in m.del

(* Upserts are stored before removals are carried out. *)
Effect(m, k) == IF RefOf[k] \in m.del THEN NoRule ELSE m.put[k]

(* Fault: a snapshot is stored over the old map instead of replacing it. *)
MergeWithoutReset(m, map) ==
    [k \in Keys |-> IF Touches(m, k) /\ (m.put[k] # NoRule \/ ~m.snap)
                    THEN Effect(m, k) ELSE map[k]]

(* Fault: the removed refs of a delta are ignored. *)
MergeUpsertsOnly(m, map) ==
    [k \in Keys |-> IF m.snap \/ m.put[k] # NoRule THEN m.put[k] ELSE map[k]]

Merge(m, map) == [k \in Keys |-> IF Touches(m, k) THEN Effect(m, k) ELSE map[k]]

Accepted(map) == \A k \in Keys : map[k] \notin BadValues

(* Fault: the client reports ready although the setter refused the rules. *)
RecvReadyOnRefusal(c) ==
    /\ wire[c] # <<>>
    /\ LET m   == Head(wire[c])
           map == Merge(m, local[c])
       IN  /\ local' = [local EXCEPT ![c] = map]
           /\ synced' = [synced EXCEPT ![c] = TRUE]
           /\ \/ /\ Accepted(map)
                 /\ applied' = [applied EXCEPT ![c] = map]
                 /\ at' = [at EXCEPT ![c] = Len(log) - version + m.version]
              \/ /\ ~Accepted(map)
                 /\ UNCHANGED <<applied, at>>
    /\ wire' = [wire EXCEPT ![c] = Tail(@)]
    /\ UNCHANGED <<serverVars, phase, chan, hand, gap>>

Recv(c) ==
    /\ wire[c] # <<>>
    /\ LET m   == Head(wire[c])
           map == Merge(m, local[c])
       IN  /\ local' = [local EXCEPT ![c] = map]
           /\ \/ /\ Accepted(map)
                 /\ applied' = [applied EXCEPT ![c] = map]
                 /\ synced' = [synced EXCEPT ![c] = TRUE]
                 /\ at' = [at EXCEPT ![c] = Len(log) - version + m.version]
              \/ /\ ~Accepted(map)
                 /\ UNCHANGED <<applied, synced, at>>
    /\ wire' = [wire EXCEPT ![c] = Tail(@)]
    /\ UNCHANGED <<serverVars, phase, chan, hand, gap>>

(* The data-plane process stops and a new one starts, not ready, no rules. *)
ClientRestart(c) ==
    /\ phase' = [phase EXCEPT ![c] = "down"]
    /\ chan' = [chan EXCEPT ![c] = <<>>]
    /\ hand' = [hand EXCEPT ![c] = <<>>]
    /\ wire' = [wire EXCEPT ![c] = <<>>]
    /\ gap' = [gap EXCEPT ![c] = FALSE]
    /\ local' = [local EXCEPT ![c] = EmptyRules]
    /\ applied' = [applied EXCEPT ![c] = EmptyRules]
    /\ synced' = [synced EXCEPT ![c] = FALSE]
    /\ at' = [at EXCEPT ![c] = 0]
    /\ UNCHANGED serverVars

-----------------------------------------------------------------------------

Stream(c) ==
    \/ Connect(c)
    \/ Subscribe(c)
    \/ Send(c)
    \/ Take(c)
    \/ Recv(c)

Failure ==
    \/ ControllerRestart
    \/ \E c \in Clients : Disconnect(c) \/ ClientRestart(c)

(* Every operation of the rule server. *)
Next ==
    \/ \E rs \in RuleSets : UpdateRules(rs)
    \/ \E k \in Keys, x \in Values : UpsertRule(k, x)
    \/ \E r \in Refs : RemoveRule(r)
    \/ \E c \in Clients : Stream(c)
    \/ Failure

(* The operations the reconcilers use: they publish full sets only. *)
NextFullSets ==
    \/ \E rs \in RuleSets : UpdateRules(rs)
    \/ \E c \in Clients : Stream(c)
    \/ Failure

Spec == Init /\ [][Next]_vars
SpecFullSets == Init /\ [][NextFullSets]_vars

(* The Go scheduler runs a handler or a client goroutine that can step, gRPC *)
(* delivers on a connection that stays up, and Run's backoff is bounded.     *)
Fairness == \A c \in Clients :
    /\ WF_vars(Connect(c))
    /\ WF_vars(Subscribe(c))
    /\ WF_vars(Send(c))
    /\ WF_vars(Take(c))
    /\ WF_vars(Recv(c))

FairSpec == Spec /\ Fairness
FairSpecFullSets == SpecFullSets /\ Fairness

-----------------------------------------------------------------------------
(* Properties.                                                             *)

(* State stays well-typed: channel and wire stay within their capacities,  *)
(* and a stream that is not subscribed carries nothing (the subscriber     *)
(* channels of RuleServer).                                                *)
TypeOK ==
    /\ rules \in RuleSets
    /\ version \in Nat
    /\ phase \in [Clients -> Phases]
    /\ chan \in [Clients -> Seq(Messages)]
    /\ hand \in [Clients -> Seq(Messages)]
    /\ wire \in [Clients -> Seq(Messages)]
    /\ local \in [Clients -> RuleSets]
    /\ applied \in [Clients -> RuleSets]
    /\ synced \in [Clients -> BOOLEAN]
    /\ log \in Seq(RuleSets)
    /\ at \in [Clients -> Nat]
    /\ gap \in [Clients -> BOOLEAN]
    /\ version < Len(log)
    /\ \A c \in Clients :
          /\ Len(chan[c]) <= ChanCap
          /\ Len(hand[c]) <= 1
          /\ Len(wire[c]) <= WireCap
          /\ phase[c] # "streaming" =>
                chan[c] = <<>> /\ hand[c] = <<>> /\ wire[c] = <<>>

(* Working through the messages P from the map "map" ends with the rules rs: *)
(* the last message about a key carries its rule in rs, and a key that no    *)
(* message is about has that rule already.                                   *)
ReplayYields(P, map, rs) == \A k \in Keys :
    /\ (\A i \in 1 .. Len(P) : ~Touches(P[i], k)) => map[k] = rs[k]
    /\ \A i \in 1 .. Len(P) :
          /\ Touches(P[i], k)
          /\ \A j \in i + 1 .. Len(P) : ~Touches(P[j], k)
          => Effect(P[i], k) = rs[k]

(* Whatever is still in the channel, in the handler's hand and on the wire,  *)
(* the client ends up with exactly the server's rules once it has worked     *)
(* through it.  The exception is a stream that lost a broadcast to a full    *)
(* channel (the select default of Update/Upsert/Remove*Rules) and has been   *)
(* given no full snapshot since.                                             *)
ReplayReachesServer ==
    \A c \in Clients : phase[c] = "streaming" /\ ~gap[c] =>
        ReplayYields(Pending(c), local[c], rules)

(* A subscriber with nothing left to receive and no unrepaired loss holds    *)
(* exactly the server's rules, and enforces them if its setter accepts them: *)
(* snapshot-then-delta (server.go, Stream*Rules) loses no update made while  *)
(* the subscription is being set up.                                         *)
DrainedIsCurrent ==
    \A c \in Clients :
        phase[c] = "streaming" /\ ~gap[c] /\ Pending(c) = <<>> =>
            /\ local[c] = rules
            /\ Accepted(rules) => applied[c] = rules

(* What the setter holds is the client's map, unless the setter refuses the *)
(* map or the snapshot of this connection is still on its way.  It makes    *)
(* DrainedIsCurrent inductive.                                              *)
AppliedFollowsLocal ==
    \A c \in Clients : phase[c] = "streaming" =>
        \/ Accepted(local[c]) => applied[c] = local[c]
        \/ Pending(c) # <<>> /\ Head(Pending(c)).snap

(* The messages P carry increasing versions, none above v, and none is older *)
(* than entry a of a log of n entries whose last has version v.              *)
InOrder(P, v, n, a) ==
    /\ a <= n
    /\ \A i \in 1 .. Len(P) :
          /\ P[i].version <= v
          /\ a <= n - v + P[i].version
          /\ \A j \in 1 .. i - 1 : P[j].version < P[i].version

(* version_info strictly increases along a stream, dropped broadcasts or   *)
(* not, and never runs ahead of the server's counter; no message is older  *)
(* than what the client already enforces, even across reconnects.          *)
VersionsInOrder ==
    \A c \in Clients : InOrder(Pending(c), version, Len(log), at[c])

(* A client never goes back to an older published rule set, whatever is    *)
(* lost, reconnected or restarted around it; only its own restart makes it *)
(* start again from nothing (Run, streamGeneration, streamIssuance).       *)
ForwardOnly ==
    [][\A c \in Clients : at'[c] >= at[c] \/ (at'[c] = 0 /\ ~synced'[c])]_vars

(* The /readyz answer (Ready): a client is ready exactly when it enforces a *)
(* set some run of the controller published; until then it enforces none.   *)
ReadyMeansPublished ==
    \A c \in Clients :
        IF synced[c] THEN at[c] \in 1 .. Len(log) ELSE applied[c] = EmptyRules

(* Full rule sets only, drops included: the data plane enforces published   *)
(* sets, whole, moving forward (RuleLog).                                   *)
Log == INSTANCE RuleLog WITH pos <- at, view <- applied
ImplementsRuleLog == Log!Spec

(* Full rule sets only: the channel, the handler's hand and the wire of a   *)
(* client are together one queue of rule sets that opens with the server's  *)
(* rules, loses a set only while ChanCap or more wait, and never holds more *)
(* than the three can (RuleFeed, the streams as Distribution takes them).   *)
Puts(P) == [i \in 1 .. Len(P) |-> P[i].put]
Feed(c) == INSTANCE RuleFeed WITH
    Refused <- {rs \in RuleSets : ~Accepted(rs)},
    InFlight <- WireCap + 1,
    current <- rules,
    streaming <- phase[c] = "streaming",
    channel <- Puts(Pending(c)),
    enforced <- applied[c],
    missed <- gap[c]
ImplementsRuleFeed ==
    /\ \A c \in Clients : Feed(c)!Init
    /\ [][\A c \in Clients : [Feed(c)!Next]_(Feed(c)!vars)]_vars

(* A connection that stays up and has no unrepaired loss brings the client  *)
(* to the server's final rules, if its setter accepts them.                 *)
StableStreamConverges ==
    \A c \in Clients :
        <>[](phase[c] = "streaming" /\ ~gap[c]) =>
            <>[](Accepted(rules) => applied[c] = rules)

(* What the comments on the update operations say: they "broadcast a full   *)
(* snapshot to all connected clients", so a client that stays connected     *)
(* comes to enforce the last one.                                           *)
ConnectedClientsConverge ==
    \A c \in Clients :
        <>[](phase[c] = "streaming") => <>[](Accepted(rules) => applied[c] = rules)

=============================================================================
