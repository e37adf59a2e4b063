----------------------------- MODULE Distribution -----------------------------
(***************************************************************************)
(* From a stored object to the rules a runtime component enforces: the     *)
(* reconcilers of Reconcilers, the rule server in the same process, and a  *)
(* client that streams the rules of one kind.  Clients do not interact, so *)
(* one client stands for all of them.                                      *)
(*                                                                         *)
(* A publication replaces the server's whole set and goes to the client as *)
(* one message if the channel of its stream has room, and is lost to it    *)
(* otherwise.  The channel, the handler and the connection are one queue   *)
(* here, so a message may be lost as soon as a channel's worth is waiting, *)
(* and may still be taken while the handler and the connection can hold    *)
(* more (RuleFeed).  The gRPC server takes streams before the manager      *)
(* starts, so a client may subscribe to a process that has published       *)
(* nothing yet.                                                            *)
(***************************************************************************)
EXTENDS Reconcilers

CONSTANTS
    Followed,       \* Followed[s]: the kinds a client streams, None for no client,
                    \* when users work with the objects s
    ChannelCap,     \* capacity of the channel of its stream (64 in the code)
    InFlight        \* messages the stream handler and the connection hold besides

ASSUME FollowedAssumption == \A s \in Scopes : Followed[s] \subseteq Kinds \cup {None}
ASSUME ChannelAssumption == ChannelCap \in Nat \ {0} /\ InFlight \in Nat

VARIABLES
    kind,           \* the kind of rules the client streams
    streaming,      \* its stream is up
    channel,        \* messages it has not received
    enforced,       \* the rules it enforces
    missed          \* history: the last message to it did not fit

streamVars == <<kind, streaming, channel, enforced, missed>>
systemVars == <<vars, streamVars>>

(* The set the rule server holds for a kind; a new process has none. *)
RuleSet(k, rules) == [o \in ObjectsOf(k) |-> rules[o]]
NoRules(k) == [o \in ObjectsOf(k) |-> NoCopy]

SystemInit ==
    /\ Init
    /\ kind \in Followed[scope]
    /\ streaming = FALSE
    /\ channel = <<>>
    /\ enforced = NoRules(kind)
    /\ missed = FALSE

(* Fault: the snapshot is left to the next publication. *)
SubscribeNoSnapshot ==
    /\ kind # None /\ ~streaming
    /\ streaming' = TRUE
    /\ channel' = <<>>
    /\ missed' = FALSE
    /\ UNCHANGED <<vars, kind, enforced>>

(* A new stream starts with a snapshot, whether or not there is a rule. *)
Subscribe ==
    /\ kind # None /\ ~streaming
    /\ streaming' = TRUE
    /\ channel' = <<RuleSet(kind, published)>>
    /\ missed' = FALSE
    /\ UNCHANGED <<vars, kind, enforced>>

Receive ==
    /\ channel # <<>>
    /\ enforced' = Head(channel)
    /\ channel' = Tail(channel)
    /\ UNCHANGED <<vars, kind, streaming, missed>>

(* Fault: the client forgets its rules with the stream. *)
DisconnectClears ==
    /\ streaming
    /\ streaming' = FALSE
    /\ channel' = <<>>
    /\ missed' = FALSE
    /\ enforced' = NoRules(kind)
    /\ UNCHANGED <<vars, kind>>

(* The stream breaks; the client enforces what it has. *)
Disconnect ==
    /\ streaming
    /\ streaming' = FALSE
    /\ channel' = <<>>
    /\ missed' = FALSE
    /\ UNCHANGED <<vars, kind, enforced>>

(* Fault: the message is built before the new rules are in place. *)
PublishAndSendOld(k) ==
    /\ Publish(k)
    /\ IF k = kind /\ streaming /\ Len(channel) < ChannelCap
       THEN channel' = Append(channel, RuleSet(k, published)) /\ missed' = FALSE
       ELSE missed' = (missed \/ (k = kind /\ streaming)) /\ UNCHANGED channel
    /\ UNCHANGED <<kind, streaming, enforced>>

(* Publish and UpdateGenerationRules, UpdateVerificationRules or            *)
(* UpdateIssuanceRules.                                                     *)
PublishAndSend(k) ==
    /\ Publish(k)
    /\ \/ /\ k = kind /\ streaming /\ Len(channel) < ChannelCap + InFlight
          /\ channel' = Append(channel, RuleSet(k, published'))
          /\ missed' = FALSE
       \/ /\ k = kind /\ streaming /\ Len(channel) >= ChannelCap
          /\ missed' = TRUE
          /\ UNCHANGED channel
       \/ /\ k # kind \/ ~streaming
          /\ UNCHANGED <<channel, missed>>
    /\ UNCHANGED <<kind, streaming, enforced>>

(* The rule server goes with the process. *)
RestartBoth ==
    /\ Restart
    /\ streaming' = FALSE
    /\ channel' = <<>>
    /\ missed' = FALSE
    /\ UNCHANGED <<kind, enforced>>

SystemNext ==
    \/ Runtime /\ UNCHANGED streamVars
    \/ \E k \in Kinds : PublishAndSend(k)
    \/ RestartBoth
    \/ Subscribe \/ Receive \/ Disconnect

SystemSpec == SystemInit /\ [][SystemNext]_systemVars

-----------------------------------------------------------------------------
(* Properties.                                                             *)

(* Nothing is left to do for the kind anywhere in the controller. *)
Quiet(k) ==
    /\ k \in synced /\ work[k].step = "idle" /\ queue[k] = <<>>
    /\ \A o \in ObjectsOf(k) : ~stale[o]

(* As soon as the controller has nothing left to do and the client has      *)
(* received what was sent, the client enforces the rules of the objects as  *)
(* stored, whatever edits, errors, restarts and reconnects came before,     *)
(* unless a message was dropped on a full channel (Reconcile, Update*Rules, *)
(* Stream*Rules).                                                           *)
StoredIsEnforced ==
    Quiet(kind) /\ streaming /\ channel = <<>> /\ ~missed =>
        \A o \in ObjectsOf(kind) : enforced[o].spec = RuleOf(o, Copy(o)).spec

(* A client never goes back to an older version of an object, over lagging  *)
(* caches, restarts and reconnects, except that it loses all rules of its   *)
(* kind to a restarted controller that has not published them yet (main:    *)
(* the gRPC server starts before the manager).                              *)
NeverOlder ==
    [][\A o \in DOMAIN enforced : enforced'[o].ver < enforced[o].ver =>
          enforced' = NoRules(kind) /\ restarts > 0]_systemVars

(* The stream of the client is the one RuleStream implements (RuleFeed),    *)
(* with a setter that takes every set: a set of another kind, an edit, a    *)
(* status or a lookup never shows on it, a publication of its own kind does *)
(* (RuleServer as the reconcilers call it).                                 *)
Feed(k) == INSTANCE RuleFeed WITH
    EmptyRules <- NoRules(k),
    Refused <- {},
    ChanCap <- ChannelCap,
    current <- RuleSet(k, published)
FollowsRuleFeed ==
    /\ \A k \in Kinds : kind = k => Feed(k)!Init
    /\ [][\A k \in Kinds : kind = k => [Feed(k)!Next]_(Feed(k)!vars)]_systemVars

=============================================================================
