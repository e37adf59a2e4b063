--------------------------- MODULE ExtAuthGenerate ---------------------------
(***************************************************************************)
(* The ext-auth adapter in generation mode: Check finds the generation     *)
(* rule for a request, determines its subject and exchanges it for a       *)
(* transaction token; SetGenerationRules runs on the rule client's         *)
(* goroutine, UpdatePod and DeletePod on a pod informer's (nothing under   *)
(* src starts that informer yet; it is modelled by what a watch delivers). *)
(*                                                                         *)
(* SetGenerationRules assigns a slice that findMatchingRule reads without  *)
(* a lock.  A slice is a pointer and a length, so the assignment is two    *)
(* writes in either order and findMatchingRule reads the length for the    *)
(* loop, then length and pointer again for every element.  Reading behind  *)
(* the end of an array gives anything: no match, a match, or a crash.      *)
(*                                                                         *)
(* A path is a sequence of segments; a token is the record of what the TTS *)
(* was asked for.                                                          *)
(***************************************************************************)
EXTENDS Integers, Sequences, FiniteSets, Functions

CONSTANTS
    Calls,          \* goroutines that serve Check
    RuleSets,       \* sets of generation rules the controller can publish
    Requests,       \* requests Check can be called with
    Pods, IPs,      \* pods of the cluster and their addresses
    Account,        \* the service account of each pod
    Wildcard,       \* a segment in braces
    None,           \* no such header, pod, token
    MaxRules,       \* bound: rule sets set, the initial one included
    MaxVersions     \* bound: versions of the cluster

(* What the TTS can be asked for. *)
Subjects ==
    ({q.bearer : q \in Requests} \cup {Account[p] : p \in Pods}
       \cup {q.principal.account : q \in {r \in Requests : r.principal # None}}) \ {None}
Tokens ==
    [sub : Subjects, scope : {r.scope : r \in UNION RuleSets},
     tctx : SUBSET UNION {q.fields : q \in Requests}]

ASSUME AccountAssumption ==
    /\ DOMAIN Account = Pods
    /\ None \notin Pods \cup IPs /\ None # "noip"
    /\ "noip" \notin IPs
ASSUME RulesAssumption == \A rs \in RuleSets : IsFiniteSet(rs) /\ Cardinality(rs) \in Nat
ASSUME RequestsAssumption == \A q \in Requests : q.sourceIP \in IPs \cup {None}
ASSUME TokensAssumption == None \notin Tokens
ASSUME GenerateBoundsAssumption == MaxRules \in Nat /\ MaxVersions \in Nat

VARIABLES
    ptr, len,       \* GenerationServer.generationRules: an index into slices, a length
    writing,        \* which part of the header is still to be written
    pods,           \* IdentityResolver.pods
    cluster,        \* every version of the pods, oldest first: IP, "noip" or None
    delivered,      \* the version the informer has delivered
    pc,             \* "idle", "range", "bounds", "load", "subject", "extract", "exchange"
    req, scan, rule, subject, answer,
    \* --- history: read by no action ---
    slices,         \* every slice of rules, oldest first
    under,          \* the slice the call looked for a rule in, 0 if it was being written
    since           \* the version delivered when the call began

headerVars == <<ptr, len, writing, slices>>
podVars == <<pods, cluster, delivered>>
callVars == <<pc, req, scan, rule, subject, answer, since>>
vars == <<headerVars, podVars, callVars, under>>

NoAnswer == [code |-> "none", token |-> None]

Init ==
    /\ ptr = 1 /\ len = 0 /\ writing = "nothing"
    /\ slices = <<<<>>>>
    /\ pods = [ip \in IPs |-> None]
    /\ cluster = <<[p \in Pods |-> "noip"]>>
    /\ delivered = 1
    /\ pc = [c \in Calls |-> "idle"]
    /\ req = [c \in Calls |-> None]
    /\ scan = [c \in Calls |-> [n |-> 0, i |-> 0]]
    /\ rule = [c \in Calls |-> None]
    /\ subject = [c \in Calls |-> None]
    /\ answer = [c \in Calls |-> NoAnswer]
    /\ since = [c \in Calls |-> 1]
    /\ under = [c \in Calls |-> 0]

-----------------------------------------------------------------------------
(* SetGenerationRules.                                                     *)

Last(s) == s[Len(s)]
Scanning(c) == pc[c] \in {"bounds", "load"}

(* The rule client builds the slice from a map: any order of the rules. *)
Orders(rs) == Bijection(1 .. Cardinality(rs), rs)

SetGenerationRules(rs) ==
    /\ writing = "nothing" /\ Len(slices) < MaxRules
    /\ \E slice \in Orders(rs) :
          /\ slices' = Append(slices, slice)
          /\ \/ ptr' = Len(slices') /\ writing' = "len" /\ UNCHANGED len
             \/ len' = Len(slice) /\ writing' = "ptr" /\ UNCHANGED ptr
    /\ under' = [c \in Calls |-> IF Scanning(c) THEN 0 ELSE under[c]]
    /\ UNCHANGED <<podVars, callVars>>

FinishWrite ==
    /\ writing # "nothing"
    /\ ptr' = Len(slices)
    /\ len' = Len(Last(slices))
    /\ writing' = "nothing"
    /\ under' = [c \in Calls |-> IF Scanning(c) THEN 0 ELSE under[c]]
    /\ UNCHANGED <<slices, podVars, callVars>>

-----------------------------------------------------------------------------
(* Pods.                                                                   *)

(* A pod is created, then given an address; the address of a pod that has   *)
(* ended can be given away before the pod is deleted.                       *)
Moves(from, to) ==
    \/ from = None /\ to = "noip"
    \/ from = "noip" /\ to # "noip"
    \/ from \in IPs /\ to \in {from, None}

PodChanges(p) ==
    LET now == Last(cluster)
    IN  /\ Len(cluster) < MaxVersions
        /\ \E to \in IPs \cup {"noip", None} :
              /\ Moves(now[p], to)
              /\ cluster' = Append(cluster, [now EXCEPT ![p] = to])
    /\ UNCHANGED <<headerVars, pods, delivered, callVars, under>>

(* Fault: only new pods are stored, and a new pod has no address yet. *)
UpdatePodOnAdd(p, ip) == pods' = pods

UpdatePod(p, ip) == pods' = IF ip \in IPs THEN [pods EXCEPT ![ip] = p] ELSE pods

(* Fault: deleted pods stay. *)
DeletePodKeeps(p, ip) == pods' = pods

DeletePod(p, ip) == pods' = IF ip \in IPs THEN [pods EXCEPT ![ip] = None] ELSE pods

(* The informer hands over the next version: a pod that differs or, if none *)
(* does, any existing one whose status was updated.                         *)
Deliver(p) ==
    /\ delivered < Len(cluster)
    /\ delivered' = delivered + 1
    /\ LET old == cluster[delivered]
           new == cluster[delivered + 1]
       IN  /\ new[p] # None \/ old[p] # None
           /\ new # old => new[p] # old[p]
           /\ \/ new[p] # None /\ UpdatePod(p, new[p])
              \/ new[p] = None /\ DeletePod(p, old[p])
    /\ UNCHANGED <<headerVars, cluster, callVars, under>>

-----------------------------------------------------------------------------
(* Check.                                                                  *)

Receive(c, q) ==
    /\ pc[c] = "idle"
    /\ pc' = [pc EXCEPT ![c] = "range"]
    /\ req' = [req EXCEPT ![c] = q]
    /\ answer' = [answer EXCEPT ![c] = NoAnswer]
    /\ since' = [since EXCEPT ![c] = delivered]
    /\ under' = [under EXCEPT ![c] = 0]
    /\ UNCHANGED <<headerVars, podVars, scan, rule, subject>>

(* A request without HTTP attributes. *)
ReceiveMalformed(c) ==
    /\ pc[c] = "idle"
    /\ req' = [req EXCEPT ![c] = None]
    /\ answer' = [answer EXCEPT ![c] = [NoAnswer EXCEPT !.code = "invalid"]]
    /\ under' = [under EXCEPT ![c] = 0]
    /\ UNCHANGED <<headerVars, podVars, pc, scan, rule, subject, since>>

(* What a call has found is gone when it returns. *)
Answer(c, code, token) ==
    /\ pc' = [pc EXCEPT ![c] = "idle"]
    /\ scan' = [scan EXCEPT ![c] = [n |-> 0, i |-> 0]]
    /\ rule' = [rule EXCEPT ![c] = None]
    /\ subject' = [subject EXCEPT ![c] = None]
    /\ answer' = [answer EXCEPT ![c] = [code |-> code, token |-> token]]
    /\ UNCHANGED <<headerVars, podVars, req, since>>

Continue(c, next) ==
    /\ pc' = [pc EXCEPT ![c] = next]
    /\ UNCHANGED <<headerVars, podVars, req, answer, since>>

(* Segment by segment; a pattern segment in braces matches any. *)
matchEndpointPath(path, pattern) ==
    /\ Len(path) = Len(pattern)
    /\ \A i \in 1 .. Len(path) : pattern[i] \in {path[i], Wildcard}

Matches(r, q) == r.method = q.method /\ matchEndpointPath(q.path, r.path)

(* for i := range s.generationRules *)
StartScan(c) ==
    /\ pc[c] = "range"
    /\ under' = [under EXCEPT ![c] = IF writing = "nothing" THEN ptr ELSE 0]
    /\ \/ len = 0 /\ Answer(c, "allowed", None)
       \/ /\ len > 0
          /\ scan' = [scan EXCEPT ![c] = [n |-> len, i |-> 1]]
          /\ UNCHANGED <<rule, subject>>
          /\ Continue(c, "bounds")

Bounds(c) ==
    /\ pc[c] = "bounds"
    /\ scan[c].i <= len
    /\ UNCHANGED <<scan, rule, subject, under>>
    /\ Continue(c, "load")

NextIndex(c) ==
    /\ scan' = [scan EXCEPT ![c].i = @ + 1]
    /\ UNCHANGED <<rule, subject>>
    /\ Continue(c, "bounds")

(* Fault: the last rule is never looked at. *)
NoMatchShort(c) ==
    \/ scan[c].i + 1 >= scan[c].n /\ Answer(c, "allowed", None)
    \/ scan[c].i + 1 < scan[c].n /\ NextIndex(c)

NoMatch(c) ==
    \/ scan[c].i = scan[c].n /\ Answer(c, "allowed", None)
    \/ scan[c].i < scan[c].n /\ NextIndex(c)

Match(c, r) ==
    /\ rule' = [rule EXCEPT ![c] = r]
    /\ UNCHANGED <<scan, subject>>
    /\ Continue(c, "subject")

Load(c) ==
    LET slice == slices[ptr]
        i == scan[c].i
    IN  /\ pc[c] = "load"
        /\ UNCHANGED under
        /\ \/ i <= Len(slice) /\ Matches(slice[i], req[c]) /\ Match(c, slice[i])
           \/ i <= Len(slice) /\ ~Matches(slice[i], req[c]) /\ NoMatch(c)
           \/ i > Len(slice) /\ NoMatch(c)
           \/ i > Len(slice) /\ \E r \in UNION RuleSets : Match(c, r)

(* An index out of range ends the process, and so may what is read behind   *)
(* an array.  A new process starts: no rules, and the pods of a fresh list. *)
Crash(c) ==
    /\ \/ pc[c] = "bounds" /\ scan[c].i > len
       \/ pc[c] = "load" /\ scan[c].i > Len(slices[ptr])
    /\ ptr' = 1 /\ len' = 0 /\ writing' = "nothing"
    /\ delivered' = Len(cluster)
    /\ pods' \in [IPs -> Pods \cup {None}]
    /\ \A ip \in IPs :
          LET carriers == {p \in Pods : Last(cluster)[p] = ip}
          IN  pods'[ip] \in carriers \/ (carriers = {} /\ pods'[ip] = None)
    /\ pc' = [d \in Calls |-> "idle"]
    /\ req' = [d \in Calls |-> None]
    /\ scan' = [d \in Calls |-> [n |-> 0, i |-> 0]]
    /\ rule' = [d \in Calls |-> None]
    /\ subject' = [d \in Calls |-> None]
    /\ answer' = [d \in Calls |-> NoAnswer]
    /\ since' = [d \in Calls |-> delivered']
    /\ under' = [d \in Calls |-> 0]
    /\ UNCHANGED <<slices, cluster>>

(* The account behind an address or a principal, None on an error. *)
Resolve(principal, sourceIP) ==
    IF principal # None THEN principal.account
    ELSE IF sourceIP # None /\ pods[sourceIP] # None THEN Account[pods[sourceIP]]
    ELSE None

(* Fault: a caller that is not resolved goes on. *)
SubjectUnchecked(c) ==
    /\ pc[c] = "subject"
    /\ UNCHANGED <<scan, rule, under>>
    /\ subject' = [subject EXCEPT ![c] = IF req[c].bearer # None THEN req[c].bearer
                                         ELSE Resolve(req[c].principal, req[c].sourceIP)]
    /\ Continue(c, "extract")

Subject(c) ==
    LET q == req[c]
        found == IF q.bearer # None THEN q.bearer ELSE Resolve(q.principal, q.sourceIP)
    IN  /\ pc[c] = "subject"
        /\ UNCHANGED under
        /\ \/ /\ found # None
              /\ subject' = [subject EXCEPT ![c] = found]
              /\ UNCHANGED <<scan, rule>>
              /\ Continue(c, "extract")
           \/ found = None /\ Answer(c, "unauthenticated", None)

(* The fields of the rule that the request has. *)
Extracted(r, q) == (r.required \cup r.optional) \cap q.fields

(* A required field that is not there ends the call. *)
Extract(c) ==
    /\ pc[c] = "extract"
    /\ UNCHANGED under
    /\ \/ /\ rule[c].required \subseteq Extracted(rule[c], req[c])
          /\ UNCHANGED <<scan, rule, subject>>
          /\ Continue(c, "exchange")
       \/ ~(rule[c].required \subseteq Extracted(rule[c], req[c])) /\ Answer(c, "invalid", None)

Exchange(c) ==
    /\ pc[c] = "exchange"
    /\ UNCHANGED under
    /\ \/ Answer(c, "allowed", [sub |-> subject[c], scope |-> rule[c].scope,
                                tctx |-> Extracted(rule[c], req[c])])
       \/ Answer(c, "internal", None)

-----------------------------------------------------------------------------

Proceed(c) ==
    \/ StartScan(c)
    \/ Bounds(c)
    \/ Load(c)
    \/ Subject(c)
    \/ Extract(c)
    \/ Exchange(c)

Next ==
    \/ \E rs \in RuleSets : SetGenerationRules(rs)
    \/ FinishWrite
    \/ \E p \in Pods : PodChanges(p) \/ Deliver(p)
    \/ \E c \in Calls :
          \/ \E q \in Requests : Receive(c, q)
          \/ ReceiveMalformed(c)
          \/ Proceed(c)
          \/ Crash(c)

Spec == Init /\ [][Next]_vars

-----------------------------------------------------------------------------
(* Properties.                                                             *)

(* State stays well-typed: a call past the search has a rule, and a call    *)
(* past the subject has one.                                                *)
TypeOK ==
    /\ ptr \in 1 .. Len(slices) /\ len \in Nat
    /\ writing \in {"nothing", "ptr", "len"}
    /\ pods \in [IPs -> Pods \cup {None}]
    /\ delivered \in 1 .. Len(cluster)
    /\ \A c \in Calls :
          /\ pc[c] \in {"idle", "range", "bounds", "load", "subject", "extract", "exchange"}
          /\ pc[c] # "idle" => req[c] \in Requests /\ answer[c] = NoAnswer
          /\ pc[c] \in {"bounds", "load"} => scan[c].i \in 1 .. scan[c].n
          /\ pc[c] \in {"subject", "extract", "exchange"} => rule[c] \in UNION RuleSets
          /\ pc[c] \in {"extract", "exchange"} => subject[c] # None

(* Unless the rules were being replaced while findMatchingRule ran, a       *)
(* request goes on without a token only if no rule matches it, and gets a   *)
(* token only as its first matching rule says, with every required field    *)
(* (Check, findMatchingRule).                                               *)
AnswerFollowsRules ==
    \A c \in Calls : under[c] > 0 /\ answer[c].code = "allowed" =>
        LET slice == slices[under[c]]
            matching == {i \in 1 .. Len(slice) : Matches(slice[i], req[c])}
        IN  IF answer[c].token = None THEN matching = {}
            ELSE \E i \in matching :
                    /\ \A j \in matching : i <= j
                    /\ answer[c].token.scope = slice[i].scope
                    /\ slice[i].required \subseteq answer[c].token.tctx

(* A request without a bearer token and without a principal gets a token    *)
(* for the account of a pod that had the request's address at a version of  *)
(* the cluster delivered while Check ran, for no pod of the past (Resolve,  *)
(* UpdatePod, DeletePod).                                                   *)
SubjectHadAddress ==
    \A c \in Calls :
        answer[c].token # None /\ req[c].bearer = None /\ req[c].principal = None =>
            \E v \in since[c] .. delivered : \E p \in Pods :
                cluster[v][p] = req[c].sourceIP /\ answer[c].token.sub = Account[p]

(* Two pods have the address in a version of the cluster. *)
Shared(version, ip) == \E a, b \in Pods : a # b /\ version[a] = ip /\ version[b] = ip

(* An address that a pod has, as far as delivered, is unknown to the        *)
(* resolver only if two pods have had it at once: DeletePod goes by address *)
(* and takes the entry of the other pod (DeletePod).                        *)
UnknownOnlyIfShared ==
    \A ip \in IPs :
        pods[ip] = None /\ (\E p \in Pods : cluster[delivered][p] = ip) =>
            \E v \in 1 .. delivered : Shared(cluster[v], ip)

=============================================================================
