------------------------------- MODULE RuleFeed -------------------------------
(***************************************************************************)
(* One subscriber of the rule server as the rest of the system sees it: a  *)
(* queue of whole rule sets that opens with the server's current one.      *)
(* RuleStream is shown to implement this module for each of its clients,   *)
(* and the stream half of Distribution is shown to stay within it, so the  *)
(* two describe the same streams at different depths.                      *)
(*                                                                         *)
(* How far the stream handler and gRPC have emptied the subscriber channel *)
(* when a set is published is not visible here.  A set always fits when    *)
(* fewer than ChanCap wait in all, never when ChanCap + InFlight do, and   *)
(* may go either way in between.                                           *)
(***************************************************************************)
EXTENDS Naturals, Sequences

CONSTANTS
    EmptyRules,     \* the set a process starts with
    Refused,        \* the rule sets the setter of the client refuses
    ChanCap,        \* capacity of the subscriber channel
    InFlight        \* messages that can be past the channel and not received

VARIABLES
    current,        \* the rule server's rules
    streaming,      \* the client is subscribed
    channel,        \* rule sets on their way to the client, the next one first
    enforced,       \* the rules the client enforces
    missed          \* the last set published on this stream was dropped

vars == <<current, streaming, channel, enforced, missed>>

Init ==
    /\ current = EmptyRules
    /\ streaming = FALSE
    /\ channel = <<>>
    /\ enforced = EmptyRules
    /\ missed = FALSE

(* Any set may come next. *)
Publish ==
    /\ \/ /\ streaming /\ Len(channel) < ChanCap + InFlight
          /\ channel' = Append(channel, current')
          /\ missed' = FALSE
       \/ /\ streaming /\ Len(channel) >= ChanCap
          /\ missed' = TRUE
          /\ UNCHANGED channel
       \/ /\ ~streaming
          /\ UNCHANGED <<channel, missed>>
    /\ UNCHANGED <<streaming, enforced>>

Subscribe ==
    /\ ~streaming
    /\ streaming' = TRUE
    /\ channel' = <<current>>
    /\ UNCHANGED <<current, enforced, missed>>

Receive ==
    /\ channel # <<>>
    /\ enforced' = IF Head(channel) \in Refused THEN enforced ELSE Head(channel)
    /\ channel' = Tail(channel)
    /\ UNCHANGED <<current, streaming, missed>>

Down ==
    /\ streaming' = FALSE
    /\ channel' = <<>>
    /\ missed' = FALSE

Disconnect == Down /\ UNCHANGED <<current, enforced>>

ControllerRestart == Down /\ current' = EmptyRules /\ UNCHANGED enforced

ClientRestart == Down /\ enforced' = EmptyRules /\ UNCHANGED current

Next ==
    \/ Publish \/ Subscribe \/ Receive
    \/ Disconnect \/ ControllerRestart \/ ClientRestart

Spec == Init /\ [][Next]_vars

=============================================================================
