------------------------------- MODULE RuleLog -------------------------------
(***************************************************************************)
(* What rule distribution promises, with no streams in it.  The controller *)
(* publishes one rule set after another; a data-plane client enforces one  *)
(* of the published sets, whole, and only ever moves forward in the order  *)
(* of publication.  RuleStream is shown to implement this module.          *)
(***************************************************************************)
EXTENDS Naturals, Sequences

CONSTANTS
    Clients,        \* ext-auth adapters or TTS replicas
    RuleSets,       \* the rule sets the controller can publish
    EmptyRules      \* the set a process starts with

VARIABLES
    log,            \* every rule set published so far, oldest first
    pos,            \* pos[c]: index in log of what c enforces, 0 before the first
    view            \* view[c]: the rule set c enforces

vars == <<log, pos, view>>

Init ==
    /\ log = <<EmptyRules>>
    /\ pos = [c \in Clients |-> 0]
    /\ view = [c \in Clients |-> EmptyRules]

Publish ==
    /\ \E r \in RuleSets : log' = Append(log, r)
    /\ UNCHANGED <<pos, view>>

(* Skipping over published sets is allowed, going back is not. *)
Deliver(c) ==
    /\ \E p \in 1 .. Len(log) :
          /\ p >= pos[c]
          /\ pos' = [pos EXCEPT ![c] = p]
          /\ view' = [view EXCEPT ![c] = log[p]]
    /\ UNCHANGED log

ClientRestart(c) ==
    /\ pos' = [pos EXCEPT ![c] = 0]
    /\ view' = [view EXCEPT ![c] = EmptyRules]
    /\ UNCHANGED log

Next ==
    \/ Publish
    \/ \E c \in Clients : Deliver(c) \/ ClientRestart(c)

Spec == Init /\ [][Next]_vars

=============================================================================
