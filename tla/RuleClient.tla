------------------------------ MODULE RuleClient ------------------------------
(***************************************************************************)
(* The ext-auth rule client (RuleClient.Run, connect and its two stream    *)
(* goroutines) against controllers that are replaced while it is attached. *)
(*                                                                         *)
(* connect starts one goroutine per configured setter and returns on the   *)
(* first error without waiting for the other goroutine.  What that one has *)
(* received already it may still hand to its setter: it is a leftover of a *)
(* closed connection.  Connections live in slots, and a slot is used again *)
(* once both its goroutines have ended.                                    *)
(*                                                                         *)
(* A controller that is asked to stop ends its reconcilers and then waits  *)
(* in GracefulStop for its stream handlers, which wait for their clients;  *)
(* Kubernetes kills it when the grace period is over.  A rule set is the   *)
(* number of its publication.  A controller starts with an empty set, which*)
(* counts as published.  Messages, deltas and drops are in RuleStream.     *)
(***************************************************************************)
EXTENDS Naturals, Sequences, FiniteSets

CONSTANTS
    Slots,          \* connections that can have goroutines at one time
    MaxController,  \* bound: controller processes
    MaxPublished,   \* bound: publications
    MaxFaults       \* bound: connections the network breaks

Kinds == {"generation", "verification"}
Controllers == 1 .. MaxController

(* Fault: the channel has room for one error. *)
ErrChCapOne == 1

ErrChCap == 2

ASSUME ClientBoundsAssumption ==
    /\ IsFiniteSet(Slots) /\ Slots # {}
    /\ MaxController \in Nat \ {0}
    /\ MaxPublished \in Nat \ {0}
    /\ MaxFaults \in Nat

VARIABLES
    \* --- the client process ---
    setters,        \* kinds that have a setter
    ctxDone,        \* the process has been told to stop
    run,            \* where Run is: "connect", "select", "backoff", "returned"
    cur,            \* the slot of the current connection
    stream,         \* stream[c][k]: the goroutine for kind k of connection c
    errCh,          \* errCh[c]: errors in the channel of connection c
    applied,        \* applied[k]: the publication the setter was given last, 0 if none
    \* --- the controllers ---
    controller,     \* "new", "serving", "draining", "gone"
    rules,          \* rules[p][k]: the publication process p holds
    published,      \* publications so far
    \* --- history: guards nothing but the bounds ---
    faults,
    overtaken       \* kinds whose setter was last called by a leftover

clientVars == <<setters, ctxDone, run, cur, errCh>>
controllerVars == <<controller, rules, published>>
vars == <<clientVars, stream, applied, overtaken, controllerVars, faults>>

(* st: "off" (not started, or ended), "opening", "streaming", "leftover"    *)
(* (the connection is closed).  inbox: what the controller has sent and the *)
(* setter has not been given.                                               *)
Off == [st |-> "off", proc |-> 0, inbox |-> <<>>]
Opening == [Off EXCEPT !.st = "opening"]

Serving == {p \in Controllers : controller[p] = "serving"}
Newest == CHOOSE p \in Controllers :
             controller[p] # "new" /\ \A q \in Controllers : controller[q] # "new" => q <= p

Init ==
    /\ setters \in (SUBSET Kinds) \ {{}}
    /\ ctxDone = FALSE
    /\ run = "connect"
    /\ cur = CHOOSE c \in Slots : TRUE
    /\ stream = [c \in Slots |-> [k \in Kinds |-> Off]]
    /\ errCh = [c \in Slots |-> 0]
    /\ applied = [k \in Kinds |-> 0]
    /\ controller = [p \in Controllers |-> IF p = 1 THEN "serving" ELSE "new"]
    /\ rules = [p \in Controllers |-> [k \in Kinds |-> IF p = 1 THEN 1 ELSE 0]]
    /\ published = 1
    /\ faults = 0
    /\ overtaken = {}

-----------------------------------------------------------------------------
(* Run and connect.                                                        *)

(* What the deferred Close makes of a goroutine that is still running. *)
Leftover(s) == IF s = Off THEN Off ELSE [st |-> "leftover", proc |-> 0, inbox |-> s.inbox]
Close(c) == stream' = [stream EXCEPT ![c] = [k \in Kinds |-> Leftover(stream[c][k])]]

Finished(c) == stream[c] = [k \in Kinds |-> Off]

(* connect: the connection is lazy, so only the goroutines start here. *)
Connect(c) ==
    /\ run = "connect"
    /\ Finished(c)
    /\ c = CHOOSE free \in Slots : Finished(free)
    /\ run' = "select"
    /\ cur' = c
    /\ stream' = [stream EXCEPT ![c] = [k \in Kinds |-> IF k \in setters THEN Opening ELSE Off]]
    /\ UNCHANGED <<setters, ctxDone, errCh, applied, overtaken, controllerVars, faults>>

(* Fault: connect does not wait for its streams. *)
ConnectReturnsAtOnce ==
    /\ run = "select"
    /\ Close(cur)
    /\ run' = IF ctxDone THEN "returned" ELSE "backoff"
    /\ UNCHANGED <<setters, ctxDone, cur, errCh, applied, overtaken, controllerVars, faults>>

(* The select of connect, the deferred Close, and Run's look at the context. *)
(* A channel that no goroutine has any more is forgotten (0).                *)
ConnectReturns ==
    /\ run = "select"
    /\ ctxDone \/ errCh[cur] > 0
    /\ errCh' = [errCh EXCEPT ![cur] = IF Finished(cur) \/ @ = 0 THEN 0 ELSE @ - 1]
    /\ Close(cur)
    /\ run' = IF ctxDone THEN "returned" ELSE "backoff"
    /\ UNCHANGED <<setters, ctxDone, cur, applied, overtaken, controllerVars, faults>>

(* Fault: Run does not try again. *)
WaitGivesUp ==
    /\ run = "backoff"
    /\ run' = "returned"
    /\ UNCHANGED <<setters, ctxDone, cur, errCh, stream, applied, overtaken, controllerVars, faults>>

(* The delay doubles from half a second to 30 and is never reset; a delay  *)
(* can take any time here.                                                 *)
Wait ==
    /\ run = "backoff"
    /\ \/ ctxDone /\ run' = "returned"
       \/ run' = "connect"
    /\ UNCHANGED <<setters, ctxDone, cur, errCh, stream, applied, overtaken, controllerVars, faults>>

(* SIGTERM cancels the context of Run and of its streams. *)
Cancel ==
    /\ ~ctxDone
    /\ ctxDone' = TRUE
    /\ UNCHANGED <<setters, run, cur, errCh, stream, applied, overtaken,
                   controllerVars, faults>>

-----------------------------------------------------------------------------
(* streamGeneration, streamVerification.                                   *)

(* The stream can only fail: its connection is closed, the context is done, *)
(* or there is no controller at the other end.                              *)
Dead(c, k) ==
    \/ ctxDone
    \/ stream[c][k].st = "leftover"
    \/ stream[c][k].st = "opening" /\ Serving = {}
    \/ stream[c][k].st = "streaming" /\ controller[stream[c][k].proc] = "gone"

(* A new stream goes to a serving controller and starts with a snapshot. *)
Open(c, k) ==
    /\ stream[c][k].st = "opening"
    /\ ~Dead(c, k)
    /\ \E p \in Serving :
          stream' = [stream EXCEPT ![c][k] = [st |-> "streaming", proc |-> p,
                                              inbox |-> <<rules[p][k]>>]]
    /\ UNCHANGED <<clientVars, applied, overtaken, controllerVars, faults>>

(* One message: SetGenerationRules or SetVerificationRules, and the synced  *)
(* flag.  What has arrived is still read after the connection is closed.    *)
Recv(c, k) ==
    /\ stream[c][k].inbox # <<>>
    /\ applied' = [applied EXCEPT ![k] = Head(stream[c][k].inbox)]
    /\ overtaken' = IF stream[c][k].st = "leftover" THEN overtaken \cup {k} ELSE overtaken \ {k}
    /\ stream' = [stream EXCEPT ![c][k].inbox = Tail(@)]
    /\ UNCHANGED <<clientVars, controllerVars, faults>>

(* Goroutine k is the only one left of a closed connection. *)
Last(c, k) ==
    /\ stream[c][k].st = "leftover"
    /\ \A j \in Kinds \ {k} : stream[c][j] = Off

(* Fault: the error channel has no buffer. *)
FailUnbuffered(c, k, faulty) ==
    /\ stream[c][k] # Off
    /\ run = "select" /\ cur = c /\ errCh[c] = 0
    /\ IF faulty
       THEN ~Dead(c, k) /\ faults < MaxFaults /\ faults' = faults + 1
       ELSE Dead(c, k) /\ UNCHANGED faults
    /\ errCh' = [errCh EXCEPT ![c] = IF Last(c, k) THEN 0 ELSE @ + 1]
    /\ stream' = [stream EXCEPT ![c][k] = Off]
    /\ UNCHANGED <<setters, ctxDone, run, cur, applied, overtaken, controllerVars>>

(* Opening, sending or receiving fails, because the stream is dead or the   *)
(* network breaks it; the goroutine sends its error and ends.               *)
Fail(c, k, faulty) ==
    /\ stream[c][k] # Off
    /\ errCh[c] < ErrChCap
    /\ IF faulty
       THEN ~Dead(c, k) /\ faults < MaxFaults /\ faults' = faults + 1
       ELSE Dead(c, k) /\ UNCHANGED faults
    /\ errCh' = [errCh EXCEPT ![c] = IF Last(c, k) THEN 0 ELSE @ + 1]
    /\ stream' = [stream EXCEPT ![c][k] = Off]
    /\ UNCHANGED <<setters, ctxDone, run, cur, applied, overtaken, controllerVars>>

-----------------------------------------------------------------------------
(* The controllers.                                                        *)

(* Process p has a handler for the stream. *)
Attached(p, c, k) == stream[c][k].st = "streaming" /\ stream[c][k].proc = p

(* Fault: streams that are up are not told of a change. *)
PublishSilently(p, k) ==
    /\ controller[p] = "serving" /\ k \in setters
    /\ published < MaxPublished
    /\ published' = published + 1
    /\ rules' = [rules EXCEPT ![p][k] = published + 1]
    /\ UNCHANGED <<clientVars, stream, applied, overtaken, controller, faults>>

Publish(p, k) ==
    /\ controller[p] = "serving" /\ k \in setters
    /\ published < MaxPublished
    /\ published' = published + 1
    /\ rules' = [rules EXCEPT ![p][k] = published + 1]
    /\ stream' = [c \in Slots |->
                    IF Attached(p, c, k)
                    THEN [stream[c] EXCEPT ![k].inbox = Append(@, published + 1)]
                    ELSE stream[c]]
    /\ UNCHANGED <<clientVars, applied, overtaken, controller, faults>>

(* mgr.Start returns, and GracefulStop takes no new streams. *)
Drain(p) ==
    /\ controller[p] = "serving"
    /\ p < MaxController
    /\ controller' = [controller EXCEPT ![p] = "draining"]
    /\ UNCHANGED <<clientVars, stream, applied, overtaken, rules, published, faults>>

(* GracefulStop returns when the last handler has, and main with it. *)
Drained(p) ==
    /\ controller[p] = "draining"
    /\ \A c \in Slots, k \in Kinds : ~Attached(p, c, k)
    /\ controller' = [controller EXCEPT ![p] = "gone"]
    /\ UNCHANGED <<clientVars, stream, applied, overtaken, rules, published, faults>>

(* The grace period is over. *)
Kill(p) ==
    /\ controller[p] = "draining"
    /\ controller' = [controller EXCEPT ![p] = "gone"]
    /\ UNCHANGED <<clientVars, stream, applied, overtaken, rules, published, faults>>

(* The Deployment starts the next process, with no rules yet. *)
Start(p) ==
    /\ controller[p] = "new"
    /\ Serving = {} /\ p = Newest + 1
    /\ controller' = [controller EXCEPT ![p] = "serving"]
    /\ published' = published + 1
    /\ rules' = [rules EXCEPT ![p] = [k \in Kinds |-> published + 1]]
    /\ UNCHANGED <<clientVars, stream, applied, overtaken, faults>>

-----------------------------------------------------------------------------

Run ==
    \/ \E c \in Slots : Connect(c)
    \/ ConnectReturns
    \/ Wait

Stream(c, k) == Open(c, k) \/ Recv(c, k) \/ Fail(c, k, FALSE)

Next ==
    \/ Run
    \/ Cancel
    \/ \E c \in Slots, k \in Kinds : Stream(c, k) \/ Fail(c, k, TRUE)
    \/ \E p \in Controllers :
          \/ \E k \in Kinds : Publish(p, k)
          \/ Drain(p) \/ Drained(p) \/ Kill(p) \/ Start(p)

Spec == Init /\ [][Next]_vars

(* The Go scheduler does not stop while a goroutine can step, a dead stream *)
(* returns its error, the timer fires, and Kubernetes kills a pod that does *)
(* not stop and starts the next.                                            *)
Fairness ==
    /\ WF_vars(Run)
    /\ WF_vars(\E c \in Slots, k \in Kinds : Stream(c, k))
    /\ WF_vars(\E p \in Controllers : Kill(p) \/ Start(p))

FairSpec == Spec /\ Fairness

-----------------------------------------------------------------------------
(* Properties.                                                             *)

(* State stays well-typed: the error channel never holds more than its two  *)
(* slots and only the current connection is open (connect).                 *)
TypeOK ==
    /\ run \in {"connect", "select", "backoff", "returned"}
    /\ run = "returned" => ctxDone
    /\ published \in 1 .. MaxPublished + MaxController
    /\ \A c \in Slots :
          /\ errCh[c] \in 0 .. ErrChCap
          /\ \A k \in Kinds :
                /\ stream[c][k] # Off => k \in setters
                /\ stream[c][k].inbox # <<>> => stream[c][k].st \in {"streaming", "leftover"}
                /\ stream[c][k].st \in {"opening", "streaming"} => run = "select" /\ c = cur

(* A setter is given an older set than it has only by the other goroutine's *)
(* leftover, so never in a client with one setter, the way cmd/extauth      *)
(* configures it: whatever breaks, reconnects or is replaced (connect).     *)
BackOnlyByLeftover ==
    [][\A k \in Kinds : applied'[k] < applied[k] =>
          /\ setters = Kinds
          /\ \E c \in Slots : stream[c][k].st = "leftover" /\ stream[c][k].inbox # <<>> /\ applied'[k] = Head(stream[c][k].inbox)]_vars

(* A client whose stream is up and has nothing left to receive has the rules *)
(* of its controller, and these are behind only while that controller is     *)
(* being shut down with its handlers still waiting for their clients         *)
(* (GracefulStop), or if a leftover of an earlier connection came last.      *)
BehindOnlyWhileDraining ==
    \A k \in setters :
        LET s == stream[cur][k]
        IN  run = "select" /\ s.st = "streaming" /\ s.inbox = <<>> /\ k \notin overtaken =>
               /\ applied[k] = rules[s.proc][k]
               /\ applied[k] # rules[Newest][k] => controller[s.proc] # "serving"

(* A goroutine that has failed never waits to report it: the error channel  *)
(* of its connection has room for as long as it runs, also when connect has *)
(* returned and nobody reads the channel any more, and also in a slot used  *)
(* before.  So no goroutine is leaked (connect).                            *)
ErrorsHaveRoom ==
    \A c \in Slots, k \in Kinds : stream[c][k] # Off => errCh[c] < ErrChCap

(* Told to stop, Run returns, wherever it was, and every goroutine it ever   *)
(* started ends: the buffered error channel lets a leftover report an error  *)
(* nobody waits for (Run, connect).                                          *)
ShutsDown == ctxDone ~> (run = "returned" /\ \A c \in Slots : Finished(c))

(* Once faults, publications and replacements of the controller are over,    *)
(* every setter has the newest rules, unless the process is told to stop or  *)
(* a leftover came last (Run, GracefulStop and the kill that ends it).       *)
EventuallyCurrent ==
    <>[](\A k \in setters : ctxDone \/ k \in overtaken \/ applied[k] = rules[Newest][k])

=============================================================================
