------------------------ MODULE ExtAuthGenerate_proofs ------------------------
(***************************************************************************)
(* Proofs about the ext-auth adapter in generation mode, for any number of *)
(* calls, rule sets, requests, pods and addresses: what Check answers      *)
(* follows the rules it searched, and who it takes a caller for had the    *)
(* caller's address while Check ran.                                       *)
(***************************************************************************)
EXTENDS ExtAuthGenerate, TLAPS

(* The state of the server: the slice header and the pods.                  *)
Codes == {"none", "invalid", "allowed", "unauthenticated", "internal"}
Rules == UNION RuleSets
Clusters == [Pods -> IPs \cup {"noip", None}]

ServerTypes ==
    /\ slices \in Seq(Seq(Rules)) /\ ptr \in 1 .. Len(slices) /\ len \in Nat
    /\ slices[1] = <<>>
    /\ writing \in {"nothing", "ptr", "len"}
    /\ pods \in [IPs -> Pods \cup {None}]
    /\ cluster \in Seq(Clusters) /\ delivered \in 1 .. Len(cluster)

Steps == {"idle", "range", "bounds", "load", "subject", "extract", "exchange"}
Scans == [n : Nat, i : Nat]
Answers == [code : Codes, token : Tokens \cup {None}]

CallTypes ==
    /\ pc \in [Calls -> Steps]
    /\ req \in [Calls -> Requests \cup {None}]
    /\ scan \in [Calls -> Scans]
    /\ rule \in [Calls -> Rules \cup {None}]
    /\ subject \in [Calls -> Subjects \cup {None}]
    /\ answer \in [Calls -> Answers]
    /\ since \in [Calls -> Nat]

(* What a call has found by the time it is at a step.                       *)
FoundInv(c) ==
    /\ pc[c] # "idle" => req[c] \in Requests /\ answer[c] = NoAnswer
    /\ pc[c] \in {"bounds", "load"} => scan[c].i \in 1 .. scan[c].n
    /\ pc[c] \in {"subject", "extract", "exchange"} => rule[c] \in Rules
    /\ pc[c] \in {"extract", "exchange"} => subject[c] \in Subjects

TInv == ServerTypes /\ CallTypes /\ under \in [Calls -> Nat] /\ \A c \in Calls : FoundInv(c)

(* Before index i no rule of the slice matches the request.                 *)
NoneBefore(slice, q, i) == \A j \in 1 .. Len(slice) : j < i => ~Matches(slice[j], q)

(* r is the first rule of the slice that matches the request.               *)
First(slice, q, r) ==
    \E i \in 1 .. Len(slice) : slice[i] = r /\ Matches(r, q) /\ NoneBefore(slice, q, i)

(* A token was asked for as the first matching rule says.                   *)
Asked(slice, q, token) ==
    \E r \in Rules : First(slice, q, r) /\ token.scope = r.scope /\ r.required \subseteq token.tctx

(* The search of a call that no replacement has disturbed.                  *)
SearchInv(c) ==
    LET slice == slices[under[c]]
    IN  /\ under[c] \in 0 .. Len(slices)
        /\ under[c] > 0 =>
              /\ Scanning(c) => /\ writing = "nothing" /\ under[c] = ptr
                                /\ scan[c].n = Len(slice)
                                /\ NoneBefore(slice, req[c], scan[c].i)
              /\ pc[c] \in {"subject", "extract", "exchange"} => First(slice, req[c], rule[c])
              /\ pc[c] = "exchange" => rule[c].required \subseteq Extracted(rule[c], req[c])
              /\ answer[c].code = "allowed" /\ answer[c].token = None =>
                    NoneBefore(slice, req[c], Len(slice) + 1)
              /\ answer[c].code = "allowed" /\ answer[c].token # None =>
                    Asked(slice, req[c], answer[c].token)

(* A header that is not being written describes its array.                  *)
HeaderInv == writing = "nothing" => len = Len(slices[ptr])

RInv == HeaderInv /\ \A c \in Calls : SearchInv(c)

(* From one version of the cluster to the next one pod moves.               *)
OneMoves(old, new) ==
    \E p \in Pods, to \in IPs \cup {"noip", None} :
        Moves(old[p], to) /\ new = [old EXCEPT ![p] = to]

HistoryInv == \A v \in 1 .. Len(cluster) : v < Len(cluster) => OneMoves(cluster[v], cluster[v + 1])

(* The pod the resolver has for an address has it in the delivered version. *)
ResolverInv == \A ip \in IPs : pods[ip] # None => cluster[delivered][pods[ip]] = ip

(* The account s is that of a pod that had the address ip since version v.  *)
Had(v, ip, s) ==
    \E w \in 1 .. delivered : v <= w /\ \E p \in Pods : cluster[w][p] = ip /\ s = Account[p]

CallerInv(c) ==
    /\ since[c] \in 1 .. delivered
    /\ pc[c] \in {"extract", "exchange"} /\ req[c].bearer = None /\ req[c].principal = None =>
          Had(since[c], req[c].sourceIP, subject[c])
    /\ answer[c].token # None /\ req[c].bearer = None /\ req[c].principal = None =>
          Had(since[c], req[c].sourceIP, answer[c].token.sub)

PInv == HistoryInv /\ ResolverInv /\ UnknownOnlyIfShared /\ \A c \in Calls : CallerInv(c)

-----------------------------------------------------------------------------
(* What the steps of a call do.                                            *)

(* Call d does not take part in the step.                                   *)
Same(d) ==
    /\ pc'[d] = pc[d] /\ req'[d] = req[d] /\ scan'[d] = scan[d] /\ rule'[d] = rule[d]
    /\ subject'[d] = subject[d] /\ answer'[d] = answer[d] /\ since'[d] = since[d]

(* What every step of call c leaves alone.                                  *)
Frame(c) ==
    /\ UNCHANGED <<ptr, len, writing, slices, pods, cluster, delivered, req, since>>
    /\ \A d \in Calls : d # c => Same(d) /\ under'[d] = under[d]

(* Call c returns; call c goes on.                                          *)
Returns(c, code, token) == pc'[c] = "idle" /\ answer'[c] = [code |-> code, token |-> token]
GoesTo(c, step) == pc'[c] = step /\ answer'[c] = answer[c]

(* Most leaves are first-order and go to Zenon; the ones that need the SMT *)
(* solver name it.                                                         *)
USE Zenon

LEMMA SetAt ==
    ASSUME NEW S, NEW T, NEW f \in [S -> T], NEW a \in S, NEW b \in T
    PROVE  /\ [f EXCEPT ![a] = b] \in [S -> T] /\ [f EXCEPT ![a] = b][a] = b
           /\ \A x \in S : x # a => [f EXCEPT ![a] = b][x] = f[x]
BY SMTT(40)

LEMMA Literals ==
    /\ "idle" \in Steps /\ "range" \in Steps /\ "bounds" \in Steps /\ "load" \in Steps
    /\ "subject" \in Steps /\ "extract" \in Steps /\ "exchange" \in Steps
    /\ "none" \in Codes /\ "invalid" \in Codes /\ "allowed" \in Codes
    /\ "unauthenticated" \in Codes /\ "internal" \in Codes
    /\ [n |-> 0, i |-> 0] \in Scans
BY SMTT(40) DEF Steps, Codes, Scans

LEMMA AnswerRecords ==
    ASSUME NEW code \in Codes, NEW token \in Tokens \cup {None}
    PROVE  /\ [code |-> code, token |-> token] \in Answers
           /\ [code |-> code, token |-> token].code = code
           /\ [code |-> code, token |-> token].token = token
BY SMTT(40) DEF Answers

LEMMA NoAnswerIs == NoAnswer \in Answers /\ NoAnswer.code = "none" /\ NoAnswer.token = None
BY Literals, AnswerRecords DEF NoAnswer

LEMMA AnswerFacts ==
    ASSUME CallTypes, under' \in [Calls -> Nat],
           NEW c \in Calls, NEW code \in Codes, NEW token \in Tokens \cup {None}, Answer(c, code, token),
           \A d \in Calls : d # c => under'[d] = under[d]
    PROVE  CallTypes' /\ Frame(c) /\ Returns(c, code, token)
<1>1. /\ pc' = [pc EXCEPT ![c] = "idle"] /\ scan' = [scan EXCEPT ![c] = [n |-> 0, i |-> 0]]
      /\ rule' = [rule EXCEPT ![c] = None] /\ subject' = [subject EXCEPT ![c] = None]
      /\ answer' = [answer EXCEPT ![c] = [code |-> code, token |-> token]]
      /\ UNCHANGED <<ptr, len, writing, slices, pods, cluster, delivered, req, since>>
  BY DEF Answer, headerVars, podVars
<1>2. pc' \in [Calls -> Steps] /\ pc'[c] = "idle" /\ \A d \in Calls : d # c => pc'[d] = pc[d]
  BY <1>1, Literals, SetAt DEF CallTypes
<1>3. scan' \in [Calls -> Scans] /\ \A d \in Calls : d # c => scan'[d] = scan[d]
  BY <1>1, Literals, SetAt DEF CallTypes
<1>4. rule' \in [Calls -> Rules \cup {None}] /\ \A d \in Calls : d # c => rule'[d] = rule[d]
  BY <1>1, SetAt DEF CallTypes
<1>5. subject' \in [Calls -> Subjects \cup {None}] /\ \A d \in Calls : d # c => subject'[d] = subject[d]
  BY <1>1, SetAt DEF CallTypes
<1>6. /\ answer' \in [Calls -> Answers] /\ answer'[c] = [code |-> code, token |-> token]
      /\ \A d \in Calls : d # c => answer'[d] = answer[d]
  BY <1>1, AnswerRecords, SetAt, ZenonT(60) DEF CallTypes
<1>7. CallTypes'
  BY <1>1, <1>2, <1>3, <1>4, <1>5, <1>6 DEF CallTypes
<1> QED
  BY <1>1, <1>2, <1>3, <1>4, <1>5, <1>6, <1>7 DEF Frame, Same, Returns

LEMMA ContinueFacts ==
    ASSUME CallTypes, under' \in [Calls -> Nat], NEW c \in Calls, NEW step \in Steps, Continue(c, step),
           \A d \in Calls : d # c => under'[d] = under[d],
           scan' \in [Calls -> Scans], rule' \in [Calls -> Rules \cup {None}],
           subject' \in [Calls -> Subjects \cup {None}],
           \A d \in Calls : d # c => scan'[d] = scan[d] /\ rule'[d] = rule[d] /\ subject'[d] = subject[d]
    PROVE  CallTypes' /\ Frame(c) /\ GoesTo(c, step)
<1>1. /\ pc' = [pc EXCEPT ![c] = step]
      /\ UNCHANGED <<ptr, len, writing, slices, pods, cluster, delivered, req, answer, since>>
  BY DEF Continue, headerVars, podVars
<1>2. pc' \in [Calls -> Steps] /\ pc'[c] = step /\ \A d \in Calls : d # c => pc'[d] = pc[d]
  BY <1>1, SetAt DEF CallTypes
<1>3. CallTypes'
  BY <1>1, <1>2 DEF CallTypes
<1> QED
  BY <1>1, <1>2, <1>3 DEF Frame, Same, GoesTo

LEMMA StartScanFacts ==
    ASSUME TInv, NEW c \in Calls, StartScan(c)
    PROVE  /\ CallTypes' /\ under' \in [Calls -> Nat] /\ Frame(c)
           /\ under'[c] = IF writing = "nothing" THEN ptr ELSE 0
           /\ \/ len = 0 /\ Returns(c, "allowed", None)
              \/ len > 0 /\ GoesTo(c, "bounds") /\ scan'[c] = [n |-> len, i |-> 1]
<1> DEFINE u == IF writing = "nothing" THEN ptr ELSE 0
<1>1. under' = [under EXCEPT ![c] = u] /\ u \in Nat /\ len \in Nat
  BY SMTT(40) DEF StartScan, TInv, ServerTypes
<1>2. under' \in [Calls -> Nat] /\ under'[c] = u /\ \A d \in Calls : d # c => under'[d] = under[d]
  BY <1>1, SetAt DEF TInv
<1>3. CASE len = 0 /\ Answer(c, "allowed", None)
  BY <1>2, <1>3, AnswerFacts, Literals DEF TInv
<1>4. CASE /\ len > 0 /\ scan' = [scan EXCEPT ![c] = [n |-> len, i |-> 1]]
           /\ UNCHANGED <<rule, subject>> /\ Continue(c, "bounds")
  <2>1. [n |-> len, i |-> 1] \in Scans
    BY <1>1, SMTT(40) DEF Scans
  <2>2. /\ scan' \in [Calls -> Scans] /\ scan'[c] = [n |-> len, i |-> 1]
        /\ \A d \in Calls : d # c => scan'[d] = scan[d]
    BY <1>4, <2>1, SetAt DEF TInv, CallTypes
  <2> QED
    BY <1>2, <1>4, <2>2, ContinueFacts, Literals DEF TInv, CallTypes
<1> QED
  BY <1>3, <1>4 DEF StartScan

LEMMA BoundsFacts ==
    ASSUME TInv, NEW c \in Calls, Bounds(c)
    PROVE  /\ CallTypes' /\ under' \in [Calls -> Nat] /\ Frame(c)
           /\ GoesTo(c, "load") /\ scan' = scan /\ under' = under
<1>1. UNCHANGED <<scan, rule, subject, under>> /\ Continue(c, "load")
  BY DEF Bounds
<1> QED
  BY <1>1, ContinueFacts, Literals DEF TInv, CallTypes

LEMMA NoMatchFacts ==
    ASSUME TInv, NEW c \in Calls, NoMatch(c), UNCHANGED under
    PROVE  /\ CallTypes' /\ Frame(c)
           /\ \/ scan[c].i = scan[c].n /\ Returns(c, "allowed", None)
              \/ /\ scan[c].i < scan[c].n /\ GoesTo(c, "bounds")
                 /\ scan'[c].n = scan[c].n /\ scan'[c].i = scan[c].i + 1
<1>0. CallTypes /\ under' \in [Calls -> Nat] /\ \A d \in Calls : under'[d] = under[d]
  BY DEF TInv
<1>1. CASE scan[c].i = scan[c].n /\ Answer(c, "allowed", None)
  BY <1>0, <1>1, AnswerFacts, Literals
<1>2. CASE scan[c].i < scan[c].n /\ NextIndex(c)
  <2> DEFINE next == [scan[c] EXCEPT !.i = scan[c].i + 1]
  <2>1. scan' = [scan EXCEPT ![c] = next] /\ UNCHANGED <<rule, subject>> /\ Continue(c, "bounds")
    BY <1>0, <1>2, SMTT(40) DEF NextIndex, CallTypes
  <2>2. next \in Scans /\ next.n = scan[c].n /\ next.i = scan[c].i + 1
    <3>1. scan[c] \in Scans
      BY <1>0 DEF CallTypes
    <3> QED
      BY <3>1, SMTT(40) DEF Scans
  <2> HIDE DEF next
  <2>3. scan' \in [Calls -> Scans] /\ scan'[c] = next /\ \A d \in Calls : d # c => scan'[d] = scan[d]
    BY <1>0, <2>1, <2>2, SetAt DEF CallTypes
  <2>4. CallTypes' /\ Frame(c) /\ GoesTo(c, "bounds")
    BY <1>0, <2>1, <2>3, ContinueFacts, Literals DEF CallTypes
  <2> QED
    BY <1>2, <2>2, <2>3, <2>4
<1> QED
  BY <1>1, <1>2 DEF NoMatch

LEMMA MatchFacts ==
    ASSUME TInv, NEW c \in Calls, NEW r \in Rules, Match(c, r), UNCHANGED under
    PROVE  CallTypes' /\ Frame(c) /\ GoesTo(c, "subject") /\ rule'[c] = r
<1>0. CallTypes /\ under' \in [Calls -> Nat] /\ \A d \in Calls : under'[d] = under[d]
  BY DEF TInv
<1>1. rule' = [rule EXCEPT ![c] = r] /\ UNCHANGED <<scan, subject>> /\ Continue(c, "subject")
  BY DEF Match
<1>2. rule' \in [Calls -> Rules \cup {None}] /\ rule'[c] = r /\ \A d \in Calls : d # c => rule'[d] = rule[d]
  BY <1>0, <1>1, SetAt DEF CallTypes
<1> QED
  BY <1>0, <1>1, <1>2, ContinueFacts, Literals DEF CallTypes

LEMMA LoadFacts ==
    ASSUME TInv, NEW c \in Calls, Load(c)
    PROVE  /\ CallTypes' /\ Frame(c) /\ under' = under
           /\ \/ /\ scan[c].i <= Len(slices[ptr]) /\ Matches(slices[ptr][scan[c].i], req[c])
                 /\ slices[ptr][scan[c].i] \in Rules
                 /\ GoesTo(c, "subject") /\ rule'[c] = slices[ptr][scan[c].i]
              \/ /\ scan[c].i > Len(slices[ptr])
                 /\ \E r \in Rules : GoesTo(c, "subject") /\ rule'[c] = r
              \/ /\ scan[c].i <= Len(slices[ptr]) => ~Matches(slices[ptr][scan[c].i], req[c])
                 /\ \/ scan[c].i = scan[c].n /\ Returns(c, "allowed", None)
                    \/ /\ scan[c].i < scan[c].n /\ GoesTo(c, "bounds")
                       /\ scan'[c].n = scan[c].n /\ scan'[c].i = scan[c].i + 1
<1> DEFINE slice == slices[ptr]
           i == scan[c].i
<1>1. UNCHANGED under /\ slice \in Seq(Rules) /\ i \in Nat /\ 1 <= i
  <2>1. UNCHANGED under /\ pc[c] = "load"
    BY DEF Load
  <2>2. slice \in Seq(Rules)
    BY SMTT(40) DEF TInv, ServerTypes
  <2>3. scan[c] \in Scans /\ i \in 1 .. scan[c].n
    BY <2>1 DEF TInv, CallTypes, FoundInv
  <2>4. i \in Nat /\ 1 <= i
    BY <2>3, SMTT(40) DEF Scans
  <2> QED
    BY <2>1, <2>2, <2>4
<1>2. i <= Len(slice) => slice[i] \in Rules
  BY <1>1, SMTT(40)
<1>3. ~(i <= Len(slice)) <=> i > Len(slice)
  BY <1>1, SMTT(40)
<1>4. CASE i <= Len(slice) /\ Matches(slice[i], req[c]) /\ Match(c, slice[i])
  <2> HIDE DEF slice, i
  <2>1. CallTypes' /\ Frame(c) /\ GoesTo(c, "subject") /\ rule'[c] = slice[i]
    BY <1>1, <1>2, <1>4, MatchFacts
  <2> QED
    BY <1>1, <1>2, <1>4, <2>1 DEF slice, i
<1>5. CASE (i <= Len(slice) => ~Matches(slice[i], req[c])) /\ NoMatch(c)
  BY <1>1, <1>5, NoMatchFacts
<1>6. CASE i > Len(slice) /\ \E r \in Rules : Match(c, r)
  <2>1. PICK r \in Rules : Match(c, r)
    BY <1>6
  <2>2. CallTypes' /\ Frame(c) /\ GoesTo(c, "subject") /\ rule'[c] = r
    BY <1>1, <2>1, MatchFacts
  <2> QED
    BY <1>1, <1>6, <2>2
<1> QED
  BY <1>3, <1>4, <1>5, <1>6 DEF Load, Rules

(* Who Subject takes the caller for.                                        *)
FoundFor(c) == IF req[c].bearer # None THEN req[c].bearer ELSE Resolve(req[c].principal, req[c].sourceIP)

LEMMA FoundForFacts ==
    ASSUME TInv, NEW c \in Calls, req[c] \in Requests, FoundFor(c) # None
    PROVE  /\ FoundFor(c) \in Subjects
           /\ req[c].bearer = None /\ req[c].principal = None =>
                 /\ req[c].sourceIP \in IPs /\ pods[req[c].sourceIP] \in Pods
                 /\ FoundFor(c) = Account[pods[req[c].sourceIP]]
<1> DEFINE q == req[c]
<1>1. q \in Requests /\ q.sourceIP \in IPs \cup {None}
  BY RequestsAssumption
<1>2. CASE q.bearer # None
  BY <1>1, <1>2 DEF FoundFor, Subjects
<1>3. CASE q.bearer = None /\ q.principal # None
  <2>1. FoundFor(c) = q.principal.account
    BY <1>3 DEF FoundFor, Resolve
  <2> QED
    BY <1>1, <1>3, <2>1 DEF Subjects
<1>4. CASE q.bearer = None /\ q.principal = None
  <2>1. q.sourceIP # None /\ pods[q.sourceIP] # None /\ FoundFor(c) = Account[pods[q.sourceIP]]
    BY <1>4 DEF FoundFor, Resolve
  <2>2. q.sourceIP \in IPs
    BY <1>1, <2>1
  <2>3. pods[q.sourceIP] \in Pods
    BY <2>1, <2>2 DEF TInv, ServerTypes
  <2>4. FoundFor(c) \in Subjects
    BY <2>1, <2>3 DEF Subjects
  <2> QED
    BY <2>1, <2>2, <2>3, <2>4
<1> QED
  BY <1>2, <1>3, <1>4

LEMMA SubjectFacts ==
    ASSUME TInv, NEW c \in Calls, Subject(c)
    PROVE  /\ CallTypes' /\ Frame(c) /\ under' = under
           /\ \/ /\ GoesTo(c, "extract") /\ rule'[c] = rule[c]
                 /\ FoundFor(c) # None /\ subject'[c] = FoundFor(c) /\ FoundFor(c) \in Subjects
              \/ Returns(c, "unauthenticated", None)
<1>0. CallTypes /\ under' = under /\ under' \in [Calls -> Nat] /\ \A d \in Calls : under'[d] = under[d]
  BY DEF TInv, Subject
<1>1. CASE FoundFor(c) = None /\ Answer(c, "unauthenticated", None)
  BY <1>0, <1>1, AnswerFacts, Literals
<1>2. CASE /\ FoundFor(c) # None /\ subject' = [subject EXCEPT ![c] = FoundFor(c)]
           /\ UNCHANGED <<scan, rule>> /\ Continue(c, "extract")
  <2>1. req[c] \in Requests
    <3>1. pc[c] = "subject" /\ "subject" # "idle"
      BY SMTT(40) DEF Subject
    <3> QED
      BY <3>1 DEF TInv, FoundInv
  <2>2. FoundFor(c) \in Subjects
    BY <1>2, <2>1, FoundForFacts
  <2>3. /\ subject' \in [Calls -> Subjects \cup {None}] /\ subject'[c] = FoundFor(c)
        /\ \A d \in Calls : d # c => subject'[d] = subject[d]
    BY <1>0, <1>2, <2>2, SetAt DEF CallTypes
  <2>4. CallTypes' /\ Frame(c) /\ GoesTo(c, "extract")
    BY <1>0, <1>2, <2>3, ContinueFacts, Literals DEF CallTypes
  <2> QED
    BY <1>0, <1>2, <2>2, <2>3, <2>4
<1> QED
  BY <1>1, <1>2 DEF Subject, FoundFor

LEMMA ExtractFacts ==
    ASSUME TInv, NEW c \in Calls, Extract(c)
    PROVE  /\ CallTypes' /\ Frame(c) /\ under' = under
           /\ \/ /\ GoesTo(c, "exchange") /\ rule' = rule /\ subject' = subject
                 /\ rule[c].required \subseteq Extracted(rule[c], req[c])
              \/ Returns(c, "invalid", None)
<1>0. CallTypes /\ under' = under /\ under' \in [Calls -> Nat] /\ \A d \in Calls : under'[d] = under[d]
  BY DEF TInv, Extract
<1>1. CASE Answer(c, "invalid", None)
  BY <1>0, <1>1, AnswerFacts, Literals
<1>2. CASE UNCHANGED <<scan, rule, subject>> /\ Continue(c, "exchange") /\ rule[c].required \subseteq Extracted(rule[c], req[c])
  BY <1>0, <1>2, ContinueFacts, Literals DEF CallTypes
<1> QED
  BY <1>1, <1>2 DEF Extract

(* What Exchange asks the TTS for.                                          *)
Wanted(c) == [sub |-> subject[c], scope |-> rule[c].scope, tctx |-> Extracted(rule[c], req[c])]

LEMMA WantedFacts ==
    ASSUME NEW c \in Calls, rule[c] \in Rules, req[c] \in Requests, subject[c] \in Subjects
    PROVE  /\ Wanted(c) \in Tokens /\ Wanted(c) # None
           /\ Wanted(c).sub = subject[c] /\ Wanted(c).scope = rule[c].scope
           /\ Wanted(c).tctx = Extracted(rule[c], req[c])
<1>1. rule[c].scope \in {r.scope : r \in UNION RuleSets}
  BY DEF Rules
<1>2. Extracted(rule[c], req[c]) \in SUBSET UNION {q.fields : q \in Requests}
  BY DEF Extracted
<1>3. Wanted(c) \in Tokens
  BY <1>1, <1>2, SMTT(40) DEF Wanted, Tokens
<1>4. /\ Wanted(c).sub = subject[c] /\ Wanted(c).scope = rule[c].scope
      /\ Wanted(c).tctx = Extracted(rule[c], req[c])
  BY SMTT(40) DEF Wanted
<1> QED
  BY <1>3, <1>4, TokensAssumption

LEMMA ExchangeFacts ==
    ASSUME TInv, NEW c \in Calls, Exchange(c)
    PROVE  /\ CallTypes' /\ Frame(c) /\ under' = under /\ pc[c] = "exchange"
           /\ rule[c] \in Rules /\ req[c] \in Requests /\ subject[c] \in Subjects
           /\ Returns(c, "allowed", Wanted(c)) \/ Returns(c, "internal", None)
<1>0. /\ CallTypes /\ under' = under /\ under' \in [Calls -> Nat] /\ pc[c] = "exchange"
      /\ \A d \in Calls : under'[d] = under[d]
  BY DEF TInv, Exchange
<1>1. rule[c] \in Rules /\ req[c] \in Requests /\ subject[c] \in Subjects
  <2>1. "exchange" # "idle"
    BY SMTT(40)
  <2> QED
    BY <1>0, <2>1 DEF TInv, FoundInv
<1>2. CASE Answer(c, "allowed", Wanted(c))
  BY <1>0, <1>1, <1>2, WantedFacts, AnswerFacts, Literals
<1>3. CASE Answer(c, "internal", None)
  BY <1>0, <1>1, <1>3, AnswerFacts, Literals
<1> QED
  BY <1>2, <1>3 DEF Exchange, Wanted

LEMMA ReceiveFacts ==
    ASSUME TInv, NEW c \in Calls, NEW q \in Requests, Receive(c, q)
    PROVE  /\ CallTypes' /\ under' \in [Calls -> Nat]
           /\ UNCHANGED <<ptr, len, writing, slices, pods, cluster, delivered>>
           /\ \A d \in Calls : d # c => Same(d) /\ under'[d] = under[d]
           /\ pc'[c] = "range" /\ req'[c] = q /\ answer'[c] = NoAnswer
           /\ since'[c] = delivered /\ under'[c] = 0
<1>0. CallTypes /\ under \in [Calls -> Nat] /\ delivered \in Nat /\ 0 \in Nat
  BY SMTT(40) DEF TInv, ServerTypes
<1>1. /\ pc' = [pc EXCEPT ![c] = "range"] /\ req' = [req EXCEPT ![c] = q]
      /\ answer' = [answer EXCEPT ![c] = NoAnswer] /\ since' = [since EXCEPT ![c] = delivered]
      /\ under' = [under EXCEPT ![c] = 0]
      /\ UNCHANGED <<ptr, len, writing, slices, pods, cluster, delivered, scan, rule, subject>>
  BY DEF Receive, headerVars, podVars
<1>2. pc' \in [Calls -> Steps] /\ pc'[c] = "range" /\ \A d \in Calls : d # c => pc'[d] = pc[d]
  BY <1>0, <1>1, Literals, SetAt DEF CallTypes
<1>3. req' \in [Calls -> Requests \cup {None}] /\ req'[c] = q /\ \A d \in Calls : d # c => req'[d] = req[d]
  BY <1>0, <1>1, SetAt DEF CallTypes
<1>4. answer' \in [Calls -> Answers] /\ answer'[c] = NoAnswer /\ \A d \in Calls : d # c => answer'[d] = answer[d]
  BY <1>0, <1>1, NoAnswerIs, SetAt DEF CallTypes
<1>5. since' \in [Calls -> Nat] /\ since'[c] = delivered /\ \A d \in Calls : d # c => since'[d] = since[d]
  BY <1>0, <1>1, SetAt DEF CallTypes
<1>6. under' \in [Calls -> Nat] /\ under'[c] = 0 /\ \A d \in Calls : d # c => under'[d] = under[d]
  BY <1>0, <1>1, SetAt
<1>7. CallTypes'
  BY <1>0, <1>1, <1>2, <1>3, <1>4, <1>5 DEF CallTypes
<1> QED
  BY <1>1, <1>2, <1>3, <1>4, <1>5, <1>6, <1>7 DEF Same

LEMMA MalformedFacts ==
    ASSUME TInv, NEW c \in Calls, ReceiveMalformed(c)
    PROVE  /\ CallTypes' /\ under' \in [Calls -> Nat]
           /\ UNCHANGED <<ptr, len, writing, slices, pods, cluster, delivered, pc, since>>
           /\ \A d \in Calls : d # c => Same(d) /\ under'[d] = under[d]
           /\ pc[c] = "idle" /\ answer'[c].token = None /\ under'[c] = 0
<1> DEFINE a == [NoAnswer EXCEPT !.code = "invalid"]
<1>0. CallTypes /\ under \in [Calls -> Nat] /\ 0 \in Nat
  BY SMTT(40) DEF TInv
<1>1. /\ pc[c] = "idle" /\ req' = [req EXCEPT ![c] = None]
      /\ answer' = [answer EXCEPT ![c] = a] /\ under' = [under EXCEPT ![c] = 0]
      /\ UNCHANGED <<ptr, len, writing, slices, pods, cluster, delivered, pc, scan, rule, subject, since>>
  BY DEF ReceiveMalformed, headerVars, podVars
<1>2. a \in Answers /\ a.token = None
  <2>1. a = [code |-> "invalid", token |-> None]
    BY SMTT(40) DEF NoAnswer
  <2> HIDE DEF a
  <2>2. "invalid" \in Codes /\ None \in Tokens \cup {None}
    BY Literals
  <2> QED
    BY <2>1, <2>2, AnswerRecords
<1> HIDE DEF a
<1>3. req' \in [Calls -> Requests \cup {None}] /\ \A d \in Calls : d # c => req'[d] = req[d]
  BY <1>0, <1>1, SetAt DEF CallTypes
<1>4. answer' \in [Calls -> Answers] /\ answer'[c] = a /\ \A d \in Calls : d # c => answer'[d] = answer[d]
  BY <1>0, <1>1, <1>2, SetAt DEF CallTypes
<1>5. under' \in [Calls -> Nat] /\ under'[c] = 0 /\ \A d \in Calls : d # c => under'[d] = under[d]
  BY <1>0, <1>1, SetAt
<1>6. CallTypes'
  BY <1>0, <1>1, <1>3, <1>4 DEF CallTypes
<1> QED
  BY <1>1, <1>2, <1>3, <1>4, <1>5, <1>6 DEF Same

-----------------------------------------------------------------------------
(* What the other steps do.                                                *)

(* A call that is searching while the header is written is no longer        *)
(* followed.                                                                *)
Dropped == under' = [c \in Calls |-> IF Scanning(c) THEN 0 ELSE under[c]]

LEMMA DroppedFacts ==
    ASSUME under \in [Calls -> Nat], Dropped
    PROVE  /\ under' \in [Calls -> Nat]
           /\ \A c \in Calls : under'[c] = IF Scanning(c) THEN 0 ELSE under[c]
BY SMTT(40) DEF Dropped

LEMMA AppendFacts ==
    ASSUME NEW S, NEW s \in Seq(S), NEW e \in S
    PROVE  /\ Append(s, e) \in Seq(S) /\ Len(s) \in Nat /\ Len(Append(s, e)) = Len(s) + 1
           /\ \A j \in 1 .. Len(s) : Append(s, e)[j] = s[j]
           /\ Append(s, e)[Len(s) + 1] = e
BY SMTT(40)

LEMMA OrderIsSlice ==
    ASSUME NEW rs \in RuleSets, NEW slice \in Orders(rs)
    PROVE  slice \in Seq(Rules)
<1>1. Cardinality(rs) \in Nat
  BY RulesAssumption
<1>2. slice \in [1 .. Cardinality(rs) -> rs]
  BY DEF Orders, Bijection, Injection
<1>3. rs \subseteq Rules
  BY DEF Rules
<1> QED
  BY <1>1, <1>2, <1>3, SMTT(40)

LEMMA SetFacts ==
    ASSUME TInv, NEW rs \in RuleSets, SetGenerationRules(rs)
    PROVE  /\ ServerTypes' /\ Dropped /\ writing' # "nothing"
           /\ UNCHANGED <<pods, cluster, delivered, pc, req, scan, rule, subject, answer, since>>
           /\ Len(slices) \in Nat /\ Len(slices') = Len(slices) + 1
           /\ \A j \in 1 .. Len(slices) : slices'[j] = slices[j]
<1>1. PICK slice \in Orders(rs) :
         /\ slices' = Append(slices, slice)
         /\ \/ ptr' = Len(slices') /\ writing' = "len" /\ UNCHANGED len
            \/ len' = Len(slice) /\ writing' = "ptr" /\ UNCHANGED ptr
  BY DEF SetGenerationRules
<1>2. slice \in Seq(Rules)
  BY OrderIsSlice
<1>3. slices \in Seq(Seq(Rules)) /\ ptr \in 1 .. Len(slices) /\ len \in Nat /\ slices[1] = <<>>
  BY DEF TInv, ServerTypes
<1>4. /\ Len(slices) \in Nat /\ Len(slices') = Len(slices) + 1 /\ slices' \in Seq(Seq(Rules))
      /\ \A j \in 1 .. Len(slices) : slices'[j] = slices[j]
  <2>1. slices' = Append(slices, slice)
    BY <1>1
  <2> DEFINE T == Seq(Rules)
  <2>3. slices \in Seq(T) /\ slice \in T
    BY <1>2, <1>3
  <2> HIDE DEF T
  <2>2. /\ Append(slices, slice) \in Seq(T) /\ Len(slices) \in Nat
        /\ Len(Append(slices, slice)) = Len(slices) + 1
        /\ \A j \in 1 .. Len(slices) : Append(slices, slice)[j] = slices[j]
    BY <2>3, AppendFacts, SMTT(40)
  <2> USE DEF T
  <2> QED
    BY <2>1, <2>2
<1>5. slices'[1] = <<>>
  <2>1. 1 \in 1 .. Len(slices)
    BY <1>3, <1>4, SMTT(40)
  <2> QED
    BY <1>3, <1>4, <2>1
<1>6. ptr' \in 1 .. Len(slices') /\ len' \in Nat
  <2>1. Len(slice) \in Nat
    BY <1>2, SMTT(40)
  <2> QED
    BY <1>1, <1>3, <1>4, <2>1, SMTT(40)
<1>7. writing' \in {"nothing", "ptr", "len"} /\ writing' # "nothing"
  BY <1>1, SMTT(40)
<1>8. /\ UNCHANGED <<pods, cluster, delivered, pc, req, scan, rule, subject, answer, since>>
      /\ Dropped
  BY DEF SetGenerationRules, podVars, callVars, Dropped
<1> QED
  BY <1>4, <1>5, <1>6, <1>7, <1>8 DEF TInv, ServerTypes

LEMMA FinishFacts ==
    ASSUME TInv, FinishWrite
    PROVE  /\ ServerTypes' /\ Dropped /\ len' = Len(slices'[ptr']) /\ slices' = slices
           /\ UNCHANGED <<pods, cluster, delivered, pc, req, scan, rule, subject, answer, since>>
<1>1. /\ ptr' = Len(slices) /\ len' = Len(slices[Len(slices)]) /\ writing' = "nothing" /\ slices' = slices
      /\ UNCHANGED <<pods, cluster, delivered, pc, req, scan, rule, subject, answer, since>> /\ Dropped
  BY DEF FinishWrite, Last, podVars, callVars, Dropped
<1>2. slices \in Seq(Seq(Rules)) /\ ptr \in 1 .. Len(slices) /\ slices[1] = <<>>
  BY DEF TInv, ServerTypes
<1>3. Len(slices) \in 1 .. Len(slices) /\ Len(slices[Len(slices)]) \in Nat
  BY <1>2, SMTT(40)
<1> QED
  BY <1>1, <1>2, <1>3 DEF TInv, ServerTypes

LEMMA PodChangesFacts ==
    ASSUME TInv, NEW p \in Pods, PodChanges(p)
    PROVE  /\ ServerTypes'
           /\ UNCHANGED <<ptr, len, writing, slices, pods, delivered, pc, req, scan, rule, subject, answer, since, under>>
           /\ Len(cluster) \in Nat /\ 1 <= Len(cluster) /\ Len(cluster') = Len(cluster) + 1
           /\ \A v \in 1 .. Len(cluster) : cluster'[v] = cluster[v]
           /\ OneMoves(cluster[Len(cluster)], cluster'[Len(cluster) + 1])
<1>0. cluster \in Seq(Clusters) /\ delivered \in 1 .. Len(cluster)
  BY DEF TInv, ServerTypes
<1> DEFINE now == cluster[Len(cluster)]
<1>1. PICK to \in IPs \cup {"noip", None} : Moves(now[p], to) /\ cluster' = Append(cluster, [now EXCEPT ![p] = to])
  BY DEF PodChanges, Last
<1>2. UNCHANGED <<ptr, len, writing, slices, pods, delivered, pc, req, scan, rule, subject, answer, since, under>>
  BY DEF PodChanges, headerVars, callVars
<1>3. Len(cluster) \in Nat /\ 1 <= Len(cluster) /\ now \in Clusters
  BY <1>0, SMTT(40)
<1>4. [now EXCEPT ![p] = to] \in Clusters
  BY <1>3, SetAt DEF Clusters
<1> DEFINE new == [now EXCEPT ![p] = to]
<1>5. OneMoves(now, new)
  BY <1>1 DEF OneMoves
<1> HIDE DEF now, new
<1>6. cluster' = Append(cluster, new) /\ new \in Clusters
  BY <1>1, <1>4 DEF new
<1>7. /\ cluster' \in Seq(Clusters) /\ Len(cluster') = Len(cluster) + 1
      /\ \A v \in 1 .. Len(cluster) : cluster'[v] = cluster[v]
      /\ cluster'[Len(cluster) + 1] = new
  BY <1>0, <1>6, SMTT(40)
<1>8. delivered' \in 1 .. Len(cluster')
  BY <1>0, <1>2, <1>3, <1>7, SMTT(40)
<1>9. ServerTypes'
  BY <1>2, <1>7, <1>8 DEF TInv, ServerTypes
<1> QED
  BY <1>2, <1>3, <1>5, <1>7, <1>9 DEF now

LEMMA DeliverFacts ==
    ASSUME TInv, NEW p \in Pods, Deliver(p)
    PROVE  /\ ServerTypes'
           /\ UNCHANGED <<ptr, len, writing, slices, cluster, pc, req, scan, rule, subject, answer, since, under>>
           /\ delivered \in Nat /\ delivered < Len(cluster) /\ delivered' = delivered + 1
           /\ LET old == cluster[delivered]
                  new == cluster[delivered + 1]
              IN  /\ old \in Clusters /\ new \in Clusters
                  /\ new # old => new[p] # old[p]
                  /\ \/ new[p] # None /\ UpdatePod(p, new[p])
                     \/ new[p] = None /\ DeletePod(p, old[p])
<1>0. cluster \in Seq(Clusters) /\ delivered \in 1 .. Len(cluster) /\ pods \in [IPs -> Pods \cup {None}]
  BY DEF TInv, ServerTypes
<1> DEFINE old == cluster[delivered]
           new == cluster[delivered + 1]
<1>1. /\ delivered < Len(cluster) /\ delivered' = delivered + 1
      /\ new # old => new[p] # old[p]
      /\ \/ new[p] # None /\ UpdatePod(p, new[p])
         \/ new[p] = None /\ DeletePod(p, old[p])
      /\ UNCHANGED <<ptr, len, writing, slices, cluster, pc, req, scan, rule, subject, answer, since, under>>
  BY DEF Deliver, headerVars, callVars
<1>2. old \in Clusters /\ new \in Clusters /\ delivered \in Nat /\ delivered' \in 1 .. Len(cluster)
  BY <1>0, <1>1, SMTT(40)
<1>3. pods' \in [IPs -> Pods \cup {None}]
  <2>1. \A ip \in IPs, x \in Pods \cup {None} : [pods EXCEPT ![ip] = x] \in [IPs -> Pods \cup {None}]
    BY <1>0, SetAt
  <2> QED
    BY <1>0, <1>1, <2>1 DEF UpdatePod, DeletePod
<1>4. ServerTypes'
  BY <1>1, <1>2, <1>3 DEF TInv, ServerTypes
<1> QED
  BY <1>1, <1>2, <1>4

LEMMA CrashFacts ==
    ASSUME TInv, NEW c \in Calls, Crash(c)
    PROVE  /\ ServerTypes' /\ CallTypes' /\ under' \in [Calls -> Nat]
           /\ ptr' = 1 /\ len' = 0 /\ UNCHANGED <<slices, cluster>> /\ delivered' = Len(cluster)
           /\ \A d \in Calls : /\ pc'[d] = "idle" /\ answer'[d] = NoAnswer
                               /\ since'[d] = delivered' /\ under'[d] = 0
           /\ \A ip \in IPs : \/ pods'[ip] \in Pods /\ cluster[Len(cluster)][pods'[ip]] = ip
                              \/ pods'[ip] = None /\ \A p \in Pods : cluster[Len(cluster)][p] # ip
<1>1. /\ ptr' = 1 /\ len' = 0 /\ writing' = "nothing" /\ UNCHANGED <<slices, cluster>> /\ delivered' = Len(cluster)
      /\ pods' \in [IPs -> Pods \cup {None}]
      /\ \A ip \in IPs :
            LET carriers == {p \in Pods : Last(cluster)[p] = ip}
            IN  pods'[ip] \in carriers \/ (carriers = {} /\ pods'[ip] = None)
      /\ pc' = [d \in Calls |-> "idle"] /\ req' = [d \in Calls |-> None]
      /\ scan' = [d \in Calls |-> [n |-> 0, i |-> 0]] /\ rule' = [d \in Calls |-> None]
      /\ subject' = [d \in Calls |-> None] /\ answer' = [d \in Calls |-> NoAnswer]
      /\ since' = [d \in Calls |-> delivered'] /\ under' = [d \in Calls |-> 0]
  BY DEF Crash
<1>2. slices \in Seq(Seq(Rules)) /\ ptr \in 1 .. Len(slices) /\ slices[1] = <<>> /\ cluster \in Seq(Clusters) /\ delivered \in 1 .. Len(cluster)
  BY DEF TInv, ServerTypes
<1>3. 1 \in 1 .. Len(slices) /\ 0 \in Nat /\ Len(cluster) \in 1 .. Len(cluster) /\ Len(cluster) \in Nat
  BY <1>2, SMTT(40)
<1>4. ServerTypes'
  BY <1>1, <1>2, <1>3 DEF ServerTypes
<1>5. /\ pc' \in [Calls -> Steps] /\ req' \in [Calls -> Requests \cup {None}] /\ rule' \in [Calls -> Rules \cup {None}]
      /\ subject' \in [Calls -> Subjects \cup {None}] /\ since' \in [Calls -> Nat] /\ under' \in [Calls -> Nat]
  BY <1>1, <1>3, Literals
<1>6. scan' \in [Calls -> Scans] /\ answer' \in [Calls -> Answers]
  BY <1>1, Literals, NoAnswerIs
<1>7. CallTypes'
  BY <1>5, <1>6 DEF CallTypes
<1>8. \A d \in Calls : pc'[d] = "idle" /\ answer'[d] = NoAnswer /\ since'[d] = delivered' /\ under'[d] = 0
  BY <1>1
<1>9. \A ip \in IPs : \/ pods'[ip] \in Pods /\ cluster[Len(cluster)][pods'[ip]] = ip
                      \/ pods'[ip] = None /\ \A p \in Pods : cluster[Len(cluster)][p] # ip
  BY <1>1 DEF Last
<1> QED
  BY <1>1, <1>4, <1>5, <1>7, <1>8, <1>9

-----------------------------------------------------------------------------
(* Types.                                                                  *)

LEMMA FoundSame ==
    ASSUME NEW d \in Calls, FoundInv(d), Same(d)
    PROVE  FoundInv(d)'
BY DEF FoundInv, Same

LEMMA FoundIdle ==
    ASSUME NEW c \in Calls, pc'[c] = "idle"
    PROVE  FoundInv(c)'
BY SMTT(40) DEF FoundInv

LEMMA FoundRange ==
    ASSUME NEW c \in Calls, pc'[c] = "range", req'[c] \in Requests, answer'[c] = NoAnswer
    PROVE  FoundInv(c)'
BY SMTT(40) DEF FoundInv

LEMMA FoundSearch ==
    ASSUME NEW c \in Calls, pc'[c] \in {"bounds", "load"}, req'[c] \in Requests, answer'[c] = NoAnswer,
           scan'[c].i \in 1 .. scan'[c].n
    PROVE  FoundInv(c)'
BY SMTT(40) DEF FoundInv

LEMMA FoundRule ==
    ASSUME NEW c \in Calls, pc'[c] = "subject", req'[c] \in Requests, answer'[c] = NoAnswer,
           rule'[c] \in Rules
    PROVE  FoundInv(c)'
BY SMTT(40) DEF FoundInv

LEMMA FoundSubject ==
    ASSUME NEW c \in Calls, pc'[c] \in {"extract", "exchange"}, req'[c] \in Requests,
           answer'[c] = NoAnswer, rule'[c] \in Rules, subject'[c] \in Subjects
    PROVE  FoundInv(c)'
BY SMTT(40) DEF FoundInv

(* What a call at a step has. *)
LEMMA AtStep ==
    ASSUME NEW c \in Calls, FoundInv(c)
    PROVE  /\ pc[c] \in {"range", "bounds", "load", "subject", "extract", "exchange"} =>
                 req[c] \in Requests /\ answer[c] = NoAnswer
           /\ pc[c] \in {"bounds", "load"} => scan[c].i \in 1 .. scan[c].n
           /\ pc[c] \in {"subject", "extract", "exchange"} => rule[c] \in Rules
           /\ pc[c] \in {"extract", "exchange"} => subject[c] \in Subjects
BY SMTT(40) DEF FoundInv

LEMMA FoundProceed ==
    ASSUME TInv, NEW c \in Calls, Proceed(c)
    PROVE  CallTypes' /\ under' \in [Calls -> Nat] /\ Frame(c) /\ FoundInv(c)'
<1>0. FoundInv(c) /\ under \in [Calls -> Nat]
  BY DEF TInv
<1>1. CASE StartScan(c)
  <2>1. CallTypes' /\ under' \in [Calls -> Nat] /\ Frame(c)
    BY <1>1, StartScanFacts
  <2>2. pc[c] = "range"
    BY <1>1 DEF StartScan
  <2>3. req'[c] \in Requests /\ answer[c] = NoAnswer
    BY <1>0, <2>1, <2>2, AtStep DEF Frame
  <2>4. CASE Returns(c, "allowed", None)
    BY <2>1, <2>4, FoundIdle DEF Returns
  <2>5. CASE len > 0 /\ GoesTo(c, "bounds") /\ scan'[c] = [n |-> len, i |-> 1]
    <3>1. pc'[c] = "bounds" /\ answer'[c] = NoAnswer
      BY <2>3, <2>5 DEF GoesTo
    <3>2. scan'[c].i \in 1 .. scan'[c].n
      BY <2>5, SMTT(40) DEF TInv, ServerTypes
    <3>3. FoundInv(c)'
      BY <2>3, <3>1, <3>2, FoundSearch
    <3> QED
      BY <2>1, <3>3
  <2> QED
    BY <1>1, <2>4, <2>5, StartScanFacts
<1>2. CASE Bounds(c)
  <2>1. CallTypes' /\ under' \in [Calls -> Nat] /\ Frame(c) /\ GoesTo(c, "load") /\ scan' = scan
    BY <1>2, BoundsFacts
  <2>2. pc[c] = "bounds"
    BY <1>2 DEF Bounds
  <2>3. req[c] \in Requests /\ answer[c] = NoAnswer /\ scan[c].i \in 1 .. scan[c].n
    BY <1>0, <2>2, AtStep
  <2>4. pc'[c] = "load" /\ req'[c] \in Requests /\ answer'[c] = NoAnswer /\ scan'[c].i \in 1 .. scan'[c].n
    BY <2>1, <2>3 DEF Frame, GoesTo
  <2>5. FoundInv(c)'
    BY <2>4, FoundSearch
  <2> QED
    BY <2>1, <2>5
<1>3. CASE Load(c)
  <2>1. CallTypes' /\ Frame(c) /\ under' = under
    BY <1>3, LoadFacts
  <2>2. pc[c] = "load"
    BY <1>3 DEF Load
  <2>3. req[c] \in Requests /\ answer[c] = NoAnswer /\ scan[c].i \in 1 .. scan[c].n
    BY <1>0, <2>2, AtStep
  <2>4. req'[c] \in Requests
    BY <2>1, <2>3 DEF Frame
  <2>5. CASE \E r \in Rules : GoesTo(c, "subject") /\ rule'[c] = r
    <3>1. pc'[c] = "subject" /\ answer'[c] = NoAnswer /\ rule'[c] \in Rules
      BY <2>3, <2>5 DEF GoesTo
    <3> QED
      BY <1>0, <2>1, <2>4, <3>1, FoundRule
  <2>6. CASE Returns(c, "allowed", None)
    BY <1>0, <2>1, <2>6, FoundIdle DEF Returns
  <2>7. CASE /\ scan[c].i < scan[c].n /\ GoesTo(c, "bounds")
             /\ scan'[c].n = scan[c].n /\ scan'[c].i = scan[c].i + 1
    <3>1. pc'[c] = "bounds" /\ answer'[c] = NoAnswer
      BY <2>3, <2>7 DEF GoesTo
    <3>2. scan[c].n \in Nat
      BY SMTT(40) DEF TInv, CallTypes, Scans
    <3>3. scan'[c].i \in 1 .. scan'[c].n
      BY <2>3, <2>7, <3>2, SMTT(40)
    <3>4. FoundInv(c)'
      BY <2>4, <3>1, <3>3, FoundSearch
    <3> QED
      BY <1>0, <2>1, <3>4
  <2> QED
    BY <1>3, <2>5, <2>6, <2>7, LoadFacts
<1>4. CASE Subject(c)
  <2>1. CallTypes' /\ Frame(c) /\ under' = under
    BY <1>4, SubjectFacts
  <2>2. pc[c] = "subject"
    BY <1>4 DEF Subject
  <2>3. req[c] \in Requests /\ answer[c] = NoAnswer /\ rule[c] \in Rules
    BY <1>0, <2>2, AtStep
  <2>4. CASE GoesTo(c, "extract") /\ rule'[c] = rule[c] /\ subject'[c] \in Subjects
    <3>1. pc'[c] = "extract" /\ req'[c] \in Requests /\ answer'[c] = NoAnswer /\ rule'[c] \in Rules
      BY <2>1, <2>3, <2>4 DEF GoesTo, Frame
    <3> QED
      BY <1>0, <2>1, <2>4, <3>1, FoundSubject
  <2>5. CASE Returns(c, "unauthenticated", None)
    BY <1>0, <2>1, <2>5, FoundIdle DEF Returns
  <2> QED
    BY <1>4, <2>4, <2>5, SubjectFacts
<1>5. CASE Extract(c)
  <2>1. CallTypes' /\ Frame(c) /\ under' = under
    BY <1>5, ExtractFacts
  <2>2. pc[c] = "extract"
    BY <1>5 DEF Extract
  <2>3. req[c] \in Requests /\ answer[c] = NoAnswer /\ rule[c] \in Rules /\ subject[c] \in Subjects
    BY <1>0, <2>2, AtStep
  <2>4. CASE GoesTo(c, "exchange") /\ rule' = rule /\ subject' = subject
    <3>1. /\ pc'[c] = "exchange" /\ req'[c] \in Requests /\ answer'[c] = NoAnswer /\ rule'[c] \in Rules
          /\ subject'[c] \in Subjects
      BY <2>1, <2>3, <2>4 DEF GoesTo, Frame
    <3> QED
      BY <1>0, <2>1, <3>1, FoundSubject
  <2>5. CASE Returns(c, "invalid", None)
    BY <1>0, <2>1, <2>5, FoundIdle DEF Returns
  <2> QED
    BY <1>5, <2>4, <2>5, ExtractFacts
<1>6. CASE Exchange(c)
  <2>1. CallTypes' /\ Frame(c) /\ under' = under /\ (Returns(c, "allowed", Wanted(c)) \/ Returns(c, "internal", None))
    BY <1>6, ExchangeFacts
  <2> QED
    BY <1>0, <2>1, FoundIdle DEF Returns
<1> QED
  BY <1>1, <1>2, <1>3, <1>4, <1>5, <1>6 DEF Proceed

LEMMA InitTypes == Init => TInv
<1> SUFFICES ASSUME Init PROVE TInv
  OBVIOUS
<1>1. ServerTypes
  <2>1. /\ slices = <<<<>>>> /\ ptr = 1 /\ len = 0 /\ writing = "nothing" /\ pods = [ip \in IPs |-> None]
        /\ cluster = <<[p \in Pods |-> "noip"]>> /\ delivered = 1
    BY DEF Init
  <2>2. slices \in Seq(Seq(Rules)) /\ ptr \in 1 .. Len(slices) /\ len \in Nat /\ slices[1] = <<>>
    BY <2>1, SMTT(40)
  <2>3. pods \in [IPs -> Pods \cup {None}] /\ [p \in Pods |-> "noip"] \in Clusters
    BY <2>1 DEF Clusters
  <2>4. cluster \in Seq(Clusters) /\ delivered \in 1 .. Len(cluster)
    <3> DEFINE first == [p \in Pods |-> "noip"]
    <3>1. cluster = <<first>> /\ first \in Clusters /\ delivered = 1
      BY <2>1, <2>3
    <3> HIDE DEF first
    <3> QED
      BY <3>1, SMTT(40)
  <2> QED
    BY <2>1, <2>2, <2>3, <2>4 DEF ServerTypes
<1>2. 0 \in Nat /\ 1 \in Nat
  BY SMTT(40)
<1>3. CallTypes /\ under \in [Calls -> Nat]
  BY <1>2, Literals, NoAnswerIs DEF Init, CallTypes
<1>4. ASSUME NEW c \in Calls PROVE FoundInv(c)
  <2>1. pc[c] = "idle"
    BY DEF Init
  <2> QED
    BY <2>1, SMTT(40) DEF FoundInv
<1> QED
  BY <1>1, <1>3, <1>4 DEF TInv

LEMMA NextTypes ==
    ASSUME TInv, [Next]_vars
    PROVE  TInv'
<1>0. ServerTypes /\ CallTypes /\ under \in [Calls -> Nat] /\ \A c \in Calls : FoundInv(c)
  BY DEF TInv
<1>1. ASSUME NEW rs \in RuleSets, SetGenerationRules(rs) PROVE TInv'
  <2>1. /\ ServerTypes' /\ Dropped
        /\ UNCHANGED <<pods, cluster, delivered, pc, req, scan, rule, subject, answer, since>>
    BY <1>1, SetFacts
  <2>2. under' \in [Calls -> Nat]
    BY <1>0, <2>1, DroppedFacts
  <2>3. CallTypes'
    BY <1>0, <2>1 DEF CallTypes
  <2>4. \A c \in Calls : FoundInv(c)'
    BY <1>0, <2>1, FoundSame DEF Same
  <2> QED
    BY <2>1, <2>2, <2>3, <2>4 DEF TInv
<1>2. CASE FinishWrite
  <2>1. /\ ServerTypes' /\ Dropped
        /\ UNCHANGED <<pods, cluster, delivered, pc, req, scan, rule, subject, answer, since>>
    BY <1>2, FinishFacts
  <2>2. under' \in [Calls -> Nat]
    BY <1>0, <2>1, DroppedFacts
  <2>3. CallTypes'
    BY <1>0, <2>1 DEF CallTypes
  <2>4. \A c \in Calls : FoundInv(c)'
    BY <1>0, <2>1, FoundSame DEF Same
  <2> QED
    BY <2>1, <2>2, <2>3, <2>4 DEF TInv
<1>3. ASSUME NEW p \in Pods, PodChanges(p) \/ Deliver(p) PROVE TInv'
  <2>1. ServerTypes' /\ UNCHANGED <<pc, req, scan, rule, subject, answer, since, under>>
    BY <1>3, PodChangesFacts, DeliverFacts
  <2>2. CallTypes' /\ under' \in [Calls -> Nat]
    BY <1>0, <2>1 DEF CallTypes
  <2>3. \A c \in Calls : FoundInv(c)'
    BY <1>0, <2>1, FoundSame DEF Same
  <2> QED
    BY <2>1, <2>2, <2>3 DEF TInv
<1>4. ASSUME NEW c \in Calls, NEW q \in Requests, Receive(c, q) PROVE TInv'
  <2>1. /\ CallTypes' /\ under' \in [Calls -> Nat]
        /\ UNCHANGED <<ptr, len, writing, slices, pods, cluster, delivered>>
        /\ \A d \in Calls : d # c => Same(d)
        /\ pc'[c] = "range" /\ req'[c] \in Requests /\ answer'[c] = NoAnswer
    BY <1>4, ReceiveFacts
  <2>2. ServerTypes'
    BY <1>0, <2>1 DEF ServerTypes
  <2>3. \A d \in Calls : FoundInv(d)'
    BY <1>0, <2>1, FoundSame, FoundRange
  <2> QED
    BY <2>1, <2>2, <2>3 DEF TInv
<1>5. ASSUME NEW c \in Calls, ReceiveMalformed(c) PROVE TInv'
  <2>1. /\ CallTypes' /\ under' \in [Calls -> Nat]
        /\ UNCHANGED <<ptr, len, writing, slices, pods, cluster, delivered>>
        /\ \A d \in Calls : d # c => Same(d)
        /\ pc'[c] = "idle"
    BY <1>5, MalformedFacts
  <2>2. ServerTypes'
    BY <1>0, <2>1 DEF ServerTypes
  <2>3. \A d \in Calls : FoundInv(d)'
    BY <1>0, <2>1, FoundSame, FoundIdle
  <2> QED
    BY <2>1, <2>2, <2>3 DEF TInv
<1>6. ASSUME NEW c \in Calls, Proceed(c) PROVE TInv'
  <2>1. CallTypes' /\ under' \in [Calls -> Nat] /\ Frame(c) /\ FoundInv(c)'
    BY <1>6, FoundProceed
  <2>2. ServerTypes'
    BY <1>0, <2>1 DEF ServerTypes, Frame
  <2>3. \A d \in Calls : FoundInv(d)'
    BY <1>0, <2>1, FoundSame DEF Frame
  <2> QED
    BY <2>1, <2>2, <2>3 DEF TInv
<1>7. ASSUME NEW c \in Calls, Crash(c) PROVE TInv'
  <2>1. ServerTypes' /\ CallTypes' /\ under' \in [Calls -> Nat] /\ \A d \in Calls : pc'[d] = "idle"
    BY <1>7, CrashFacts
  <2>2. \A d \in Calls : FoundInv(d)'
    BY <2>1, FoundIdle
  <2> QED
    BY <2>1, <2>2 DEF TInv
<1>8. CASE UNCHANGED vars
  <2>1. UNCHANGED <<ptr, len, writing, slices, pods, cluster, delivered, pc, req, scan, rule, subject, answer, since, under>>
    BY <1>8 DEF vars, headerVars, podVars, callVars
  <2>2. ServerTypes' /\ CallTypes' /\ under' \in [Calls -> Nat]
    BY <1>0, <2>1 DEF ServerTypes, CallTypes
  <2>3. \A c \in Calls : FoundInv(c)'
    BY <1>0, <2>1, FoundSame DEF Same
  <2> QED
    BY <2>2, <2>3 DEF TInv
<1> QED
  BY <1>1, <1>2, <1>3, <1>4, <1>5, <1>6, <1>7, <1>8 DEF Next

-----------------------------------------------------------------------------
(* The answer follows the rules.                                           *)

LEMMA SearchSame ==
    ASSUME NEW d \in Calls, SearchInv(d), Same(d), under'[d] = under[d], UNCHANGED <<slices, ptr, writing>>
    PROVE  SearchInv(d)'
BY DEF SearchInv, Same, Scanning

LEMMA SearchKept ==
    ASSUME TInv, NEW d \in Calls, SearchInv(d), Same(d), under'[d] = under[d], ~Scanning(d),
           Len(slices') \in Nat, Len(slices) <= Len(slices'),
           \A j \in 1 .. Len(slices) : slices'[j] = slices[j]
    PROVE  SearchInv(d)'
<1>1. under[d] \in 0 .. Len(slices) /\ Len(slices) \in Nat
  BY SMTT(40) DEF SearchInv, TInv, ServerTypes
<1>2. under'[d] \in 0 .. Len(slices')
  BY <1>1, SMTT(40)
<1>3. ~Scanning(d)'
  BY DEF Scanning, Same
<1>4. under[d] > 0 => slices'[under[d]] = slices[under[d]]
  <2>1. under[d] > 0 => under[d] \in 1 .. Len(slices)
    BY <1>1, SMTT(40)
  <2> QED
    BY <2>1
<1> QED
  BY <1>2, <1>3, <1>4 DEF SearchInv, Same

LEMMA SearchZero ==
    ASSUME ServerTypes', NEW c \in Calls, under'[c] = 0
    PROVE  SearchInv(c)'
<1>1. Len(slices') \in Nat
  BY SMTT(40) DEF ServerTypes
<1>2. under'[c] \in 0 .. Len(slices') /\ ~(under'[c] > 0)
  BY <1>1, SMTT(40)
<1> QED
  BY <1>2 DEF SearchInv

(* The three kinds of step a call's search can be at after a step. *)
LEMMA SearchReturns ==
    ASSUME NEW c \in Calls, NEW code \in Codes, NEW token \in Tokens \cup {None},
           under'[c] \in 0 .. Len(slices'), Returns(c, code, token),
           under'[c] > 0 /\ code = "allowed" /\ token = None =>
               NoneBefore(slices'[under'[c]], req'[c], Len(slices'[under'[c]]) + 1),
           under'[c] > 0 /\ code = "allowed" /\ token # None =>
               Asked(slices'[under'[c]], req'[c], token)
    PROVE  SearchInv(c)'
<1>1. answer'[c].code = code /\ answer'[c].token = token
  BY SMTT(40) DEF Returns
<1>2. pc'[c] \notin {"bounds", "load", "subject", "extract", "exchange"}
  BY SMTT(40) DEF Returns
<1> QED
  BY <1>1, <1>2 DEF SearchInv, Scanning

LEMMA SearchGoesOver ==
    ASSUME NEW c \in Calls, pc'[c] \in {"bounds", "load"}, answer'[c] = NoAnswer,
           under'[c] \in 0 .. Len(slices'),
           under'[c] > 0 => /\ writing' = "nothing" /\ under'[c] = ptr'
                            /\ scan'[c].n = Len(slices'[under'[c]])
                            /\ NoneBefore(slices'[under'[c]], req'[c], scan'[c].i)
    PROVE  SearchInv(c)'
<1>1. pc'[c] \notin {"subject", "extract", "exchange"} /\ pc'[c] # "exchange" /\ answer'[c].code # "allowed"
  BY NoAnswerIs, SMTT(40)
<1> QED
  BY <1>1 DEF SearchInv

LEMMA SearchFound ==
    ASSUME NEW c \in Calls, pc'[c] \in {"subject", "extract", "exchange"}, answer'[c] = NoAnswer,
           under'[c] \in 0 .. Len(slices'),
           under'[c] > 0 => First(slices'[under'[c]], req'[c], rule'[c]),
           under'[c] > 0 /\ pc'[c] = "exchange" => rule'[c].required \subseteq Extracted(rule'[c], req'[c])
    PROVE  SearchInv(c)'
<1>1. pc'[c] \notin {"bounds", "load"} /\ answer'[c].code # "allowed"
  BY NoAnswerIs, SMTT(40)
<1> QED
  BY <1>1 DEF SearchInv, Scanning

LEMMA SearchStart ==
    ASSUME TInv, RInv, NEW c \in Calls, StartScan(c)
    PROVE  SearchInv(c)'
<1>1. /\ Frame(c) /\ under'[c] = IF writing = "nothing" THEN ptr ELSE 0
      /\ \/ len = 0 /\ Returns(c, "allowed", None)
         \/ len > 0 /\ GoesTo(c, "bounds") /\ scan'[c] = [n |-> len, i |-> 1]
  BY StartScanFacts
<1>2. UNCHANGED <<slices, ptr, writing, req>>
  BY <1>1 DEF Frame
<1>3. ptr \in 1 .. Len(slices) /\ slices \in Seq(Seq(Rules)) /\ len \in Nat
  BY DEF TInv, ServerTypes
<1>4. Len(slices) \in Nat /\ under'[c] \in 0 .. Len(slices')
  BY <1>1, <1>2, <1>3, SMTT(40)
<1>5. under'[c] > 0 => writing' = "nothing" /\ under'[c] = ptr' /\ len = Len(slices'[under'[c]])
  <2>1. ~(0 > 0)
    BY SMTT(40)
  <2> QED
    BY <1>1, <1>2, <2>1 DEF RInv, HeaderInv
<1>6. CASE len = 0 /\ Returns(c, "allowed", None)
  <2>1. under'[c] > 0 => NoneBefore(slices'[under'[c]], req'[c], Len(slices'[under'[c]]) + 1)
    <3>1. 1 .. 0 = {}
      BY SMTT(40)
    <3> QED
      BY <1>5, <1>6, <3>1 DEF NoneBefore
  <2>2. "allowed" \in Codes
    BY Literals
  <2> QED
    BY <1>4, <1>6, <2>1, <2>2, SearchReturns
<1>7. CASE GoesTo(c, "bounds") /\ scan'[c] = [n |-> len, i |-> 1]
  <2>1. scan'[c].n = len /\ scan'[c].i = 1
    BY <1>7, SMTT(40)
  <2>2. under'[c] > 0 => NoneBefore(slices'[under'[c]], req'[c], scan'[c].i)
    <3>1. \A m : \A j \in 1 .. m : ~(j < 1)
      BY SMTT(40)
    <3> QED
      BY <2>1, <3>1 DEF NoneBefore
  <2>3. pc[c] = "range" /\ FoundInv(c)
    BY DEF StartScan, TInv
  <2>4. pc'[c] = "bounds" /\ answer'[c] = NoAnswer
    BY <1>7, <2>3, AtStep DEF GoesTo
  <2> QED
    BY <1>4, <1>5, <2>1, <2>2, <2>4, SearchGoesOver
<1> QED
  BY <1>1, <1>6, <1>7

(* What a search that is still followed knows. *)
LEMMA Searching ==
    ASSUME TInv, RInv, NEW c \in Calls, under[c] > 0
    PROVE  /\ under[c] \in 1 .. Len(slices)
           /\ pc[c] \in {"bounds", "load"} =>
                 /\ writing = "nothing" /\ under[c] = ptr /\ scan[c].n = Len(slices[under[c]])
                 /\ NoneBefore(slices[under[c]], req[c], scan[c].i)
           /\ pc[c] \in {"subject", "extract", "exchange"} => First(slices[under[c]], req[c], rule[c])
           /\ pc[c] = "exchange" => rule[c].required \subseteq Extracted(rule[c], req[c])
<1>1. SearchInv(c)
  BY DEF RInv
<1>2. under[c] \in 0 .. Len(slices)
  BY <1>1 DEF SearchInv
<1>3. under[c] \in 1 .. Len(slices)
  BY <1>2, SMTT(40)
<1> QED
  BY <1>1, <1>3 DEF SearchInv, Scanning

LEMMA SearchRange ==
    ASSUME RInv, NEW c \in Calls
    PROVE  under[c] \in 0 .. Len(slices)
BY DEF RInv, SearchInv

LEMMA NoneAfter ==
    ASSUME NEW slice \in Seq(Rules), NEW q, NEW i \in 1 .. Len(slice), NoneBefore(slice, q, i),
           ~Matches(slice[i], q)
    PROVE  NoneBefore(slice, q, i + 1)
<1>1. \A j \in 1 .. Len(slice) : j < i + 1 => j < i \/ j = i
  BY SMTT(40)
<1> QED
  BY <1>1 DEF NoneBefore

LEMMA SearchLoad ==
    ASSUME TInv, RInv, NEW c \in Calls, Load(c)
    PROVE  SearchInv(c)'
<1> DEFINE slice == slices[under[c]]
           i == scan[c].i
<1>1. Frame(c) /\ under' = under
  BY LoadFacts
<1>2. UNCHANGED <<slices, ptr, writing, req, under>> /\ under'[c] \in 0 .. Len(slices')
  BY <1>1, SearchRange DEF Frame
<1>3. pc[c] = "load" /\ pc[c] \in {"bounds", "load"} /\ FoundInv(c)
  BY DEF Load, TInv
<1>4. answer[c] = NoAnswer /\ i \in 1 .. scan[c].n
  BY <1>3, AtStep
<1>5. under[c] > 0 => /\ writing = "nothing" /\ under[c] = ptr /\ scan[c].n = Len(slice)
                      /\ NoneBefore(slice, req[c], i) /\ i \in 1 .. Len(slice) /\ slice \in Seq(Rules)
  <2>1. under[c] > 0 => /\ writing = "nothing" /\ under[c] = ptr /\ scan[c].n = Len(slice)
                        /\ NoneBefore(slice, req[c], i) /\ under[c] \in 1 .. Len(slices)
    BY <1>3, Searching
  <2>2. under[c] \in 1 .. Len(slices) => slice \in Seq(Rules)
    BY SMTT(40) DEF TInv, ServerTypes
  <2> QED
    BY <1>4, <2>1, <2>2
<1>6. under[c] > 0 => i <= Len(slice)
  <2>1. \A m : i \in 1 .. m => i <= m
    BY SMTT(40)
  <2> QED
    BY <1>5, <2>1
<1> HIDE DEF slice, i
<1>7. CASE i <= Len(slices[ptr]) /\ Matches(slices[ptr][i], req[c]) /\ GoesTo(c, "subject") /\ rule'[c] = slices[ptr][i]
  <2>1. under[c] > 0 => First(slice, req[c], rule'[c])
    BY <1>5, <1>7 DEF First, slice
  <2>2. under'[c] > 0 => First(slices'[under'[c]], req'[c], rule'[c])
    BY <1>2, <2>1 DEF slice
  <2>3. pc'[c] \in {"subject", "extract", "exchange"} /\ answer'[c] = NoAnswer /\ pc'[c] # "exchange"
    BY <1>4, <1>7, SMTT(40) DEF GoesTo
  <2> QED
    BY <1>2, <2>2, <2>3, SearchFound
<1>8. CASE i > Len(slices[ptr]) /\ \E r \in Rules : GoesTo(c, "subject") /\ rule'[c] = r
  <2>1. ~(under[c] > 0)
    <3>1. i \in Nat
      BY SMTT(40) DEF i, TInv, CallTypes, Scans
    <3>2. under[c] > 0 => Len(slice) \in Nat /\ slices[ptr] = slice
      <4>1. slice \in Seq(Rules) => Len(slice) \in Nat
        BY SMTT(40)
      <4> QED
        BY <1>5, <4>1 DEF slice
    <3>3. \A m \in Nat : ~(i > m /\ i <= m)
      BY <3>1, SMTT(40)
    <3> QED
      BY <1>6, <1>8, <3>2, <3>3
  <2>2. pc'[c] \in {"subject", "extract", "exchange"} /\ answer'[c] = NoAnswer
    BY <1>4, <1>8 DEF GoesTo
  <2> QED
    BY <1>2, <2>1, <2>2, SearchFound
<1>9. CASE /\ i <= Len(slices[ptr]) => ~Matches(slices[ptr][i], req[c])
           /\ \/ i = scan[c].n /\ Returns(c, "allowed", None)
              \/ /\ i < scan[c].n /\ GoesTo(c, "bounds")
                 /\ scan'[c].n = scan[c].n /\ scan'[c].i = i + 1
  <2>1. under[c] > 0 => NoneBefore(slice, req[c], i + 1)
    <3> SUFFICES ASSUME under[c] > 0 PROVE NoneBefore(slice, req[c], i + 1)
      OBVIOUS
    <3>1. slices[ptr] = slice /\ ~Matches(slice[i], req[c])
      BY <1>5, <1>6, <1>9 DEF slice
    <3> QED
      BY <1>5, <3>1, NoneAfter
  <2>2. CASE i = scan[c].n /\ Returns(c, "allowed", None)
    <3>1. under'[c] > 0 => NoneBefore(slices'[under'[c]], req'[c], Len(slices'[under'[c]]) + 1)
      BY <1>2, <1>5, <2>1, <2>2 DEF slice
    <3>2. "allowed" \in Codes
      BY Literals
    <3> QED
      BY <1>2, <2>2, <3>1, <3>2, SearchReturns
  <2>3. CASE GoesTo(c, "bounds") /\ scan'[c].n = scan[c].n /\ scan'[c].i = i + 1
    <3>1. under'[c] > 0 => /\ writing' = "nothing" /\ under'[c] = ptr'
                           /\ scan'[c].n = Len(slices'[under'[c]])
                           /\ NoneBefore(slices'[under'[c]], req'[c], scan'[c].i)
      BY <1>2, <1>5, <2>1, <2>3 DEF slice
    <3>2. pc'[c] \in {"bounds", "load"} /\ answer'[c] = NoAnswer
      BY <1>4, <2>3 DEF GoesTo
    <3> QED
      BY <1>2, <3>1, <3>2, SearchGoesOver
  <2> QED
    BY <1>9, <2>2, <2>3
<1> QED
  BY <1>7, <1>8, <1>9, LoadFacts DEF i

LEMMA SearchProceed ==
    ASSUME TInv, RInv, NEW c \in Calls, Proceed(c)
    PROVE  SearchInv(c)'
<1>0. FoundInv(c)
  BY DEF TInv
<1>1. CASE StartScan(c)
  BY <1>1, SearchStart
<1>2. CASE Bounds(c)
  <2>1. Frame(c) /\ GoesTo(c, "load") /\ scan' = scan /\ under' = under
    BY <1>2, BoundsFacts
  <2>2. pc[c] = "bounds"
    BY <1>2 DEF Bounds
  <2>3. pc'[c] \in {"bounds", "load"} /\ answer'[c] = NoAnswer
    BY <1>0, <2>1, <2>2, AtStep DEF GoesTo
  <2>4. UNCHANGED <<slices, ptr, writing, req, under, scan>> /\ under'[c] \in 0 .. Len(slices')
    BY <2>1, SearchRange DEF Frame
  <2>5. under[c] > 0 => /\ writing = "nothing" /\ under[c] = ptr /\ scan[c].n = Len(slices[under[c]])
                        /\ NoneBefore(slices[under[c]], req[c], scan[c].i)
    BY <2>2, Searching
  <2> QED
    BY <2>3, <2>4, <2>5, SearchGoesOver
<1>3. CASE Load(c)
  BY <1>3, SearchLoad
<1>4. CASE Subject(c)
  <2>1. Frame(c) /\ under' = under
    BY <1>4, SubjectFacts
  <2>2. pc[c] = "subject"
    BY <1>4 DEF Subject
  <2>3. UNCHANGED <<slices, req, under>> /\ under'[c] \in 0 .. Len(slices')
    BY <2>1, SearchRange DEF Frame
  <2>4. under[c] > 0 => First(slices[under[c]], req[c], rule[c])
    BY <2>2, Searching
  <2>5. CASE GoesTo(c, "extract") /\ rule'[c] = rule[c]
    <3>1. pc'[c] \in {"subject", "extract", "exchange"} /\ answer'[c] = NoAnswer
      BY <1>0, <2>2, <2>5, AtStep DEF GoesTo
    <3>2. pc'[c] # "exchange"
      BY <2>5, SMTT(40) DEF GoesTo
    <3> QED
      BY <2>3, <2>4, <2>5, <3>1, <3>2, SearchFound
  <2>6. CASE Returns(c, "unauthenticated", None)
    <3>1. "unauthenticated" \in Codes /\ "unauthenticated" # "allowed"
      BY Literals, SMTT(40)
    <3> QED
      BY <2>3, <2>6, <3>1, SearchReturns
  <2> QED
    BY <1>4, <2>5, <2>6, SubjectFacts
<1>5. CASE Extract(c)
  <2>1. Frame(c) /\ under' = under
    BY <1>5, ExtractFacts
  <2>2. pc[c] = "extract"
    BY <1>5 DEF Extract
  <2>3. UNCHANGED <<slices, req, under>> /\ under'[c] \in 0 .. Len(slices')
    BY <2>1, SearchRange DEF Frame
  <2>4. under[c] > 0 => First(slices[under[c]], req[c], rule[c])
    BY <2>2, Searching
  <2>5. CASE GoesTo(c, "exchange") /\ rule' = rule /\ rule[c].required \subseteq Extracted(rule[c], req[c])
    <3>1. pc'[c] \in {"subject", "extract", "exchange"} /\ answer'[c] = NoAnswer
      BY <1>0, <2>2, <2>5, AtStep DEF GoesTo
    <3>2. First(slices[under[c]], req[c], rule[c]) => First(slices'[under'[c]], req'[c], rule'[c])
      BY <2>3, <2>5
    <3>3. rule'[c].required \subseteq Extracted(rule'[c], req'[c])
      BY <2>3, <2>5
    <3> QED
      BY <2>3, <2>4, <3>1, <3>2, <3>3, SearchFound
  <2>6. CASE Returns(c, "invalid", None)
    <3>1. "invalid" \in Codes /\ "invalid" # "allowed"
      BY Literals, SMTT(40)
    <3> QED
      BY <2>3, <2>6, <3>1, SearchReturns
  <2> QED
    BY <1>5, <2>5, <2>6, ExtractFacts
<1>6. CASE Exchange(c)
  <2>1. /\ Frame(c) /\ under' = under /\ pc[c] = "exchange"
        /\ rule[c] \in Rules /\ req[c] \in Requests /\ subject[c] \in Subjects
    BY <1>6, ExchangeFacts
  <2>2. UNCHANGED <<slices, req, under>> /\ under'[c] \in 0 .. Len(slices')
    BY <2>1, SearchRange DEF Frame
  <2>3. /\ Wanted(c) \in Tokens /\ Wanted(c) # None /\ Wanted(c).scope = rule[c].scope
        /\ Wanted(c).tctx = Extracted(rule[c], req[c])
    BY <2>1, WantedFacts
  <2>4. under[c] > 0 => /\ First(slices[under[c]], req[c], rule[c])
                        /\ rule[c].required \subseteq Extracted(rule[c], req[c])
    BY <2>1, Searching
  <2>5. under[c] > 0 => Asked(slices[under[c]], req[c], Wanted(c))
    BY <2>1, <2>3, <2>4 DEF Asked
  <2>6. "internal" \in Codes /\ "internal" # "allowed" /\ "allowed" \in Codes
    BY Literals, SMTT(40)
  <2>7. CASE Returns(c, "allowed", Wanted(c))
    <3>1. under'[c] > 0 => Asked(slices'[under'[c]], req'[c], Wanted(c))
      BY <2>2, <2>5
    <3>2. Wanted(c) \in Tokens \cup {None}
      BY <2>3
    <3> HIDE DEF Wanted
    <3> QED
      BY <2>2, <2>3, <2>6, <2>7, <3>1, <3>2, SearchReturns
  <2>8. CASE Returns(c, "internal", None)
    BY <2>2, <2>6, <2>8, SearchReturns
  <2> QED
    BY <1>6, <2>7, <2>8, ExchangeFacts
<1> QED
  BY <1>1, <1>2, <1>3, <1>4, <1>5, <1>6 DEF Proceed

LEMMA InitRules == Init => RInv
<1> SUFFICES ASSUME Init PROVE RInv
  OBVIOUS
<1>1. slices = <<<<>>>> /\ ptr = 1 /\ len = 0 /\ \A c \in Calls : under[c] = 0
  BY DEF Init
<1>2. HeaderInv
  BY <1>1, SMTT(40) DEF HeaderInv
<1>3. 0 \in 0 .. Len(slices) /\ ~(0 > 0)
  BY <1>1, SMTT(40)
<1> QED
  BY <1>1, <1>2, <1>3 DEF RInv, SearchInv

LEMMA NextRules ==
    ASSUME TInv, TInv', RInv, [Next]_vars
    PROVE  RInv'
<1>0. /\ ServerTypes' /\ HeaderInv /\ (\A c \in Calls : SearchInv(c)) /\ under \in [Calls -> Nat]
      /\ slices[1] = <<>> /\ slices \in Seq(Seq(Rules)) /\ Len(slices) \in Nat
  <2>1. ServerTypes' /\ HeaderInv /\ (\A c \in Calls : SearchInv(c)) /\ under \in [Calls -> Nat]
    BY DEF TInv, RInv
  <2>2. slices[1] = <<>> /\ slices \in Seq(Seq(Rules))
    BY DEF TInv, ServerTypes
  <2>3. Len(slices) \in Nat
    BY <2>2, SMTT(40)
  <2> QED
    BY <2>1, <2>2, <2>3
<1>1. ASSUME NEW rs \in RuleSets, SetGenerationRules(rs) PROVE RInv'
  <2>1. /\ Dropped /\ writing' # "nothing"
        /\ UNCHANGED <<pods, cluster, delivered, pc, req, scan, rule, subject, answer, since>>
        /\ Len(slices') = Len(slices) + 1
        /\ \A j \in 1 .. Len(slices) : slices'[j] = slices[j]
    BY <1>1, SetFacts
  <2>2. Len(slices') \in Nat /\ Len(slices) <= Len(slices')
    BY <1>0, <2>1, SMTT(40)
  <2>3. ASSUME NEW c \in Calls PROVE SearchInv(c)'
    <3>1. under'[c] = IF Scanning(c) THEN 0 ELSE under[c]
      BY <1>0, <2>1, DroppedFacts
    <3>2. CASE Scanning(c)
      BY <1>0, <3>1, <3>2, SearchZero
    <3>3. CASE ~Scanning(c)
      <4>1. Same(c) /\ under'[c] = under[c]
        BY <2>1, <3>1, <3>3 DEF Same
      <4> QED
        BY <1>0, <2>1, <2>2, <3>3, <4>1, SearchKept
    <3> QED
      BY <3>2, <3>3
  <2> QED
    BY <2>1, <2>3 DEF RInv, HeaderInv
<1>2. CASE FinishWrite
  <2>1. /\ Dropped /\ len' = Len(slices'[ptr']) /\ slices' = slices
        /\ UNCHANGED <<pods, cluster, delivered, pc, req, scan, rule, subject, answer, since>>
    BY <1>2, FinishFacts
  <2>2. Len(slices') \in Nat /\ Len(slices) <= Len(slices') /\ \A j \in 1 .. Len(slices) : slices'[j] = slices[j]
    <3>1. Len(slices) <= Len(slices)
      BY <1>0, SMTT(40)
    <3> QED
      BY <1>0, <2>1, <3>1
  <2>3. ASSUME NEW c \in Calls PROVE SearchInv(c)'
    <3>1. under'[c] = IF Scanning(c) THEN 0 ELSE under[c]
      BY <1>0, <2>1, DroppedFacts
    <3>2. CASE Scanning(c)
      BY <1>0, <3>1, <3>2, SearchZero
    <3>3. CASE ~Scanning(c)
      <4>1. Same(c) /\ under'[c] = under[c]
        BY <2>1, <3>1, <3>3 DEF Same
      <4> QED
        BY <1>0, <2>2, <3>3, <4>1, SearchKept
    <3> QED
      BY <3>2, <3>3
  <2> QED
    BY <2>1, <2>3 DEF RInv, HeaderInv
<1>3. ASSUME UNCHANGED <<ptr, len, writing, slices>>,
             \A d \in Calls : SearchInv(d)' \/ (Same(d) /\ under'[d] = under[d])
      PROVE  RInv'
  <2>1. HeaderInv'
    BY <1>0, <1>3 DEF HeaderInv
  <2>2. \A d \in Calls : SearchInv(d)'
    BY <1>0, <1>3, SearchSame
  <2> QED
    BY <2>1, <2>2 DEF RInv
<1>4. ASSUME NEW p \in Pods, PodChanges(p) \/ Deliver(p) PROVE RInv'
  <2>1. UNCHANGED <<ptr, len, writing, slices, pc, req, scan, rule, subject, answer, since, under>>
    BY <1>4, PodChangesFacts, DeliverFacts
  <2> QED
    BY <1>3, <2>1 DEF Same
<1>5. ASSUME NEW c \in Calls, NEW q \in Requests, Receive(c, q) PROVE RInv'
  <2>1. /\ UNCHANGED <<ptr, len, writing, slices>> /\ under'[c] = 0
        /\ \A d \in Calls : d # c => Same(d) /\ under'[d] = under[d]
    BY <1>5, ReceiveFacts
  <2>2. SearchInv(c)'
    BY <1>0, <2>1, SearchZero
  <2> QED
    BY <1>3, <2>1, <2>2
<1>6. ASSUME NEW c \in Calls, ReceiveMalformed(c) PROVE RInv'
  <2>1. /\ UNCHANGED <<ptr, len, writing, slices>> /\ under'[c] = 0
        /\ \A d \in Calls : d # c => Same(d) /\ under'[d] = under[d]
    BY <1>6, MalformedFacts
  <2>2. SearchInv(c)'
    BY <1>0, <2>1, SearchZero
  <2> QED
    BY <1>3, <2>1, <2>2
<1>7. ASSUME NEW c \in Calls, Proceed(c) PROVE RInv'
  <2>1. Frame(c)
    BY <1>7, FoundProceed
  <2>2. SearchInv(c)'
    BY <1>7, SearchProceed
  <2> QED
    BY <1>3, <2>1, <2>2 DEF Frame
<1>8. ASSUME NEW c \in Calls, Crash(c) PROVE RInv'
  <2>1. ptr' = 1 /\ len' = 0 /\ slices' = slices /\ \A d \in Calls : under'[d] = 0
    BY <1>8, CrashFacts
  <2>2. \A d \in Calls : SearchInv(d)'
    BY <1>0, <2>1, SearchZero
  <2>3. Len(<<>>) = 0
    BY SMTT(40)
  <2>4. HeaderInv'
    BY <1>0, <2>1, <2>3 DEF HeaderInv
  <2> QED
    BY <2>2, <2>4 DEF RInv
<1>9. CASE UNCHANGED vars
  <2>1. UNCHANGED <<ptr, len, writing, slices, pc, req, scan, rule, subject, answer, since, under>>
    BY <1>9 DEF vars, headerVars, callVars
  <2> QED
    BY <1>3, <2>1 DEF Same
<1> QED
  BY <1>1, <1>2, <1>4, <1>5, <1>6, <1>7, <1>8, <1>9 DEF Next

-----------------------------------------------------------------------------
(* The subject had the address.                                            *)

(* What Deliver learns from two successive versions. *)
LEMMA MoveFacts ==
    ASSUME NEW old \in Clusters, NEW new, OneMoves(old, new), NEW p \in Pods, new # old => new[p] # old[p]
    PROVE  /\ \A x \in Pods : x # p => new[x] = old[x]
           /\ new[p] = old[p] \/ Moves(old[p], new[p])
<1>1. PICK y \in Pods, to \in IPs \cup {"noip", None} : Moves(old[y], to) /\ new = [old EXCEPT ![y] = to]
  BY DEF OneMoves
<1>2. new[y] = to /\ \A x \in Pods : x # y => new[x] = old[x]
  BY <1>1, SetAt DEF Clusters
<1>3. CASE new = old
  BY <1>3
<1>4. CASE new # old
  <2>1. p = y
    BY <1>2, <1>4
  <2> QED
    BY <1>1, <1>2, <2>1
<1> QED
  BY <1>3, <1>4

LEMMA AddressKept ==
    ASSUME NEW from \in IPs, NEW to, Moves(from, to), to # None
    PROVE  to = from
BY AccountAssumption DEF Moves

(* The resolver follows the versions that are delivered. *)
LEMMA ResolverDeliver ==
    ASSUME TInv, PInv, NEW p \in Pods, Deliver(p)
    PROVE  ResolverInv'
<1> DEFINE old == cluster[delivered]
           new == cluster[delivered + 1]
<1>1. /\ UNCHANGED <<cluster>> /\ delivered \in Nat /\ delivered < Len(cluster) /\ delivered' = delivered + 1
      /\ old \in Clusters /\ (new # old => new[p] # old[p])
      /\ \/ new[p] # None /\ UpdatePod(p, new[p])
         \/ new[p] = None /\ DeletePod(p, old[p])
  BY DeliverFacts
<1>2. OneMoves(old, new)
  <2>1. delivered \in 1 .. Len(cluster)
    BY DEF TInv, ServerTypes
  <2> QED
    BY <1>1, <2>1 DEF PInv, HistoryInv
<1>3. /\ \A x \in Pods : x # p => new[x] = old[x]
      /\ new[p] = old[p] \/ Moves(old[p], new[p])
  BY <1>1, <1>2, MoveFacts
<1>4. cluster'[delivered'] = new
  BY <1>1
<1>5. pods \in [IPs -> Pods \cup {None}] /\ ResolverInv
  BY DEF TInv, ServerTypes, PInv
<1>6. \A ip \in IPs : pods[ip] # None => pods[ip] \in Pods /\ old[pods[ip]] = ip
  BY <1>5 DEF ResolverInv
<1> HIDE DEF old, new
<1>7. ASSUME NEW ip \in IPs, pods'[ip] # None PROVE new[pods'[ip]] = ip
  <2>1. CASE new[p] # None /\ UpdatePod(p, new[p])
    <3>1. CASE ip = new[p]
      <4>1. pods'[ip] = p
        BY <1>5, <2>1, <3>1, SetAt DEF UpdatePod
      <4> QED
        BY <3>1, <4>1
    <3>2. CASE ip # new[p]
      <4>1. pods'[ip] = pods[ip]
        <5>1. CASE new[p] \in IPs
          BY <1>5, <2>1, <3>2, <5>1, SetAt DEF UpdatePod
        <5>2. CASE new[p] \notin IPs
          BY <2>1, <5>2 DEF UpdatePod
        <5> QED
          BY <5>1, <5>2
      <4>2. pods[ip] \in Pods /\ old[pods[ip]] = ip
        BY <1>6, <1>7, <4>1
      <4>3. CASE pods[ip] = p
        <5>1. old[p] = ip
          BY <4>2, <4>3
        <5>2. new[p] = ip
          BY <1>3, <2>1, <5>1, AddressKept
        <5> QED
          BY <3>2, <5>2
      <4>4. CASE pods[ip] # p
        BY <1>3, <4>1, <4>2, <4>4
      <4> QED
        BY <4>3, <4>4
    <3> QED
      BY <3>1, <3>2
  <2>2. CASE new[p] = None /\ DeletePod(p, old[p])
    <3>1. ip # old[p]
      <4> SUFFICES ASSUME ip = old[p] PROVE FALSE
        OBVIOUS
      <4>1. pods'[ip] = None
        BY <1>5, <2>2, SetAt DEF DeletePod
      <4> QED
        BY <1>7, <4>1
    <3>2. pods'[ip] = pods[ip]
      <4>1. CASE old[p] \in IPs
        BY <1>5, <2>2, <3>1, <4>1, SetAt DEF DeletePod
      <4>2. CASE old[p] \notin IPs
        BY <2>2, <4>2 DEF DeletePod
      <4> QED
        BY <4>1, <4>2
    <3>3. pods[ip] \in Pods /\ old[pods[ip]] = ip
      BY <1>6, <1>7, <3>2
    <3>4. pods[ip] # p
      BY <3>1, <3>3
    <3> QED
      BY <1>3, <3>2, <3>3, <3>4
  <2> QED
    BY <1>1, <2>1, <2>2
<1> QED
  BY <1>4, <1>7 DEF ResolverInv

LEMMA UnknownDeliver ==
    ASSUME TInv, PInv, NEW p \in Pods, Deliver(p)
    PROVE  UnknownOnlyIfShared'
<1> DEFINE old == cluster[delivered]
           new == cluster[delivered + 1]
<1>1. /\ UNCHANGED <<cluster>> /\ delivered \in Nat /\ delivered < Len(cluster) /\ delivered' = delivered + 1
      /\ old \in Clusters /\ (new # old => new[p] # old[p])
      /\ \/ new[p] # None /\ UpdatePod(p, new[p])
         \/ new[p] = None /\ DeletePod(p, old[p])
  BY DeliverFacts
<1>2. delivered \in 1 .. Len(cluster)
  BY DEF TInv, ServerTypes
<1>3. OneMoves(old, new)
  BY <1>1, <1>2 DEF PInv, HistoryInv
<1>4. \A x \in Pods : x # p => new[x] = old[x]
  BY <1>1, <1>3, MoveFacts
<1>5. cluster'[delivered'] = new
  BY <1>1
<1>6. pods \in [IPs -> Pods \cup {None}] /\ UnknownOnlyIfShared
  BY DEF TInv, ServerTypes, PInv
<1>7. delivered \in 1 .. delivered' /\ \A v \in 1 .. delivered : v \in 1 .. delivered'
  BY <1>1, <1>2, SMTT(40)
<1>8. ASSUME NEW ip \in IPs, pods[ip] = None, NEW x \in Pods, old[x] = ip
      PROVE  \E v \in 1 .. delivered' : Shared(cluster[v], ip)
  <2>1. \E v \in 1 .. delivered : Shared(cluster[v], ip)
    BY <1>6, <1>8 DEF UnknownOnlyIfShared
  <2> QED
    BY <1>7, <2>1
<1>9. ASSUME NEW ip \in IPs, NEW x \in Pods, x # p, old[x] = ip, old[p] = ip
      PROVE  \E v \in 1 .. delivered' : Shared(cluster[v], ip)
  <2>1. Shared(old, ip)
    BY <1>9 DEF Shared
  <2> QED
    BY <1>7, <2>1
<1> HIDE DEF old, new
<1>10. ASSUME NEW ip \in IPs, pods'[ip] = None, NEW x \in Pods, new[x] = ip
       PROVE  \E v \in 1 .. delivered' : Shared(cluster[v], ip)
  <2>1. CASE new[p] # None /\ UpdatePod(p, new[p])
    <3>1. new[p] # ip
      <4> SUFFICES ASSUME new[p] = ip PROVE FALSE
        OBVIOUS
      <4>1. pods'[ip] = p
        BY <1>6, <2>1, SetAt DEF UpdatePod
      <4> QED
        BY <1>10, <4>1, AccountAssumption
    <3>2. pods[ip] = None
      <4>1. CASE new[p] \in IPs
        BY <1>6, <1>10, <2>1, <3>1, <4>1, SetAt DEF UpdatePod
      <4>2. CASE new[p] \notin IPs
        BY <1>10, <2>1, <4>2 DEF UpdatePod
      <4> QED
        BY <4>1, <4>2
    <3>3. old[x] = ip
      BY <1>4, <1>10, <3>1
    <3> QED
      BY <1>8, <3>2, <3>3
  <2>2. CASE new[p] = None /\ DeletePod(p, old[p])
    <3>1. x # p
      BY <1>10, <2>2, AccountAssumption
    <3>2. old[x] = ip
      BY <1>4, <1>10, <3>1
    <3>3. CASE old[p] = ip
      BY <1>9, <3>1, <3>2, <3>3
    <3>4. CASE old[p] # ip
      <4>1. pods[ip] = None
        <5>1. CASE old[p] \in IPs
          BY <1>6, <1>10, <2>2, <3>4, <5>1, SetAt DEF DeletePod
        <5>2. CASE old[p] \notin IPs
          BY <1>10, <2>2, <5>2 DEF DeletePod
        <5> QED
          BY <5>1, <5>2
      <4> QED
        BY <1>8, <3>2, <4>1
    <3> QED
      BY <3>3, <3>4
  <2> QED
    BY <1>1, <2>1, <2>2
<1> QED
  BY <1>1, <1>5, <1>10 DEF UnknownOnlyIfShared

(* What a call has found stays found while versions are added or delivered. *)
LEMMA CallerKept ==
    ASSUME NEW d \in Calls, CallerInv(d), Same(d), delivered \in Nat, delivered' \in Nat,
           delivered <= delivered', \A w \in 1 .. delivered : cluster'[w] = cluster[w]
    PROVE  CallerInv(d)'
<1>1. \A w \in 1 .. delivered : w \in 1 .. delivered'
  BY SMTT(40)
<1>2. UNCHANGED <<pc[d], req[d], subject[d], answer[d], since[d]>>
  BY DEF Same
<1>3. since'[d] \in 1 .. delivered'
  BY <1>1, <1>2 DEF CallerInv
<1>4. ASSUME NEW s, Had(since[d], req[d].sourceIP, s)
      PROVE  \E w \in 1 .. delivered' : since'[d] <= w /\ \E p \in Pods : cluster'[w][p] = req'[d].sourceIP /\ s = Account[p]
  BY <1>1, <1>2, <1>4 DEF Had
<1> QED
  BY <1>2, <1>3, <1>4, ZenonT(60) DEF CallerInv, Had

(* A call that has neither a subject nor a token. *)
LEMMA CallerNone ==
    ASSUME NEW c \in Calls, since'[c] \in 1 .. delivered', answer'[c].token = None,
           pc'[c] \in {"idle", "range", "bounds", "load", "subject"}
    PROVE  CallerInv(c)'
<1>1. pc'[c] \notin {"extract", "exchange"}
  BY SMTT(40)
<1> QED
  BY <1>1 DEF CallerInv

LEMMA CallerProceed ==
    ASSUME TInv, PInv, NEW c \in Calls, Proceed(c)
    PROVE  CallerInv(c)'
<1>0. FoundInv(c) /\ CallerInv(c) /\ ResolverInv
  BY DEF TInv, PInv
<1>1. UNCHANGED <<cluster, delivered, req, since>>
  BY FoundProceed DEF Frame
<1>2. since'[c] \in 1 .. delivered'
  BY <1>0, <1>1 DEF CallerInv
<1>3. ASSUME NEW code \in Codes, Returns(c, code, None) PROVE CallerInv(c)'
  <2>1. answer'[c].token = None /\ pc'[c] = "idle"
    BY <1>3, SMTT(40) DEF Returns
  <2> QED
    BY <1>2, <2>1, CallerNone
<1>4. ASSUME NEW step \in {"bounds", "load", "subject"}, GoesTo(c, step),
             pc[c] \in {"range", "bounds", "load"}
      PROVE  CallerInv(c)'
  <2>1. pc[c] \in {"range", "bounds", "load", "subject", "extract", "exchange"}
    BY <1>4
  <2>2. answer'[c].token = None
    BY <1>0, <1>4, <2>1, AtStep, NoAnswerIs DEF GoesTo
  <2>3. pc'[c] \in {"idle", "range", "bounds", "load", "subject"}
    BY <1>4 DEF GoesTo
  <2> QED
    BY <1>2, <2>2, <2>3, CallerNone
<1>5. CASE StartScan(c)
  <2>1. pc[c] = "range"
    BY <1>5 DEF StartScan
  <2>2. Returns(c, "allowed", None) \/ GoesTo(c, "bounds")
    BY <1>5, StartScanFacts
  <2> QED
    BY <1>3, <1>4, <2>1, <2>2, Literals
<1>6. CASE Bounds(c)
  <2>1. pc[c] = "bounds"
    BY <1>6 DEF Bounds
  <2>2. GoesTo(c, "load")
    BY <1>6, BoundsFacts
  <2> QED
    BY <1>4, <2>1, <2>2
<1>7. CASE Load(c)
  <2>1. pc[c] = "load"
    BY <1>7 DEF Load
  <2>2. Returns(c, "allowed", None) \/ GoesTo(c, "bounds") \/ GoesTo(c, "subject")
    BY <1>7, LoadFacts
  <2> QED
    BY <1>3, <1>4, <2>1, <2>2, Literals
<1>8. CASE Subject(c)
  <2>1. pc[c] = "subject"
    BY <1>8 DEF Subject
  <2>2. answer[c] = NoAnswer /\ req[c] \in Requests
    BY <1>0, <2>1, AtStep
  <2>3. CASE GoesTo(c, "extract") /\ FoundFor(c) # None /\ subject'[c] = FoundFor(c)
    <3>1. answer'[c].token = None
      BY <2>2, <2>3, NoAnswerIs DEF GoesTo
    <3>2. req[c].bearer = None /\ req[c].principal = None =>
             /\ req[c].sourceIP \in IPs /\ pods[req[c].sourceIP] \in Pods
             /\ FoundFor(c) = Account[pods[req[c].sourceIP]]
      BY <2>2, <2>3, FoundForFacts
    <3>3. req[c].bearer = None /\ req[c].principal = None =>
             cluster[delivered][pods[req[c].sourceIP]] = req[c].sourceIP
      BY <1>0, <3>2, AccountAssumption DEF ResolverInv
    <3>4. delivered \in 1 .. delivered /\ since[c] <= delivered
      <4>1. since[c] \in 1 .. delivered /\ delivered \in 1 .. Len(cluster)
        BY <1>0 DEF CallerInv, TInv, ServerTypes
      <4> QED
        BY <4>1, SMTT(40)
    <3>5. req[c].bearer = None /\ req[c].principal = None =>
             \E w \in 1 .. delivered : since[c] <= w /\ \E p \in Pods : cluster[w][p] = req[c].sourceIP /\ subject'[c] = Account[p]
      BY <2>3, <3>2, <3>3, <3>4
    <3> QED
      BY <1>1, <1>2, <3>1, <3>5 DEF CallerInv, Had
  <2>4. CASE Returns(c, "unauthenticated", None)
    BY <1>3, <2>4, Literals
  <2> QED
    BY <1>8, <2>3, <2>4, SubjectFacts
<1>9. CASE Extract(c)
  <2>1. pc[c] = "extract"
    BY <1>9 DEF Extract
  <2>2. answer[c] = NoAnswer /\ req[c] \in Requests
    BY <1>0, <2>1, AtStep
  <2>3. CASE GoesTo(c, "exchange") /\ subject' = subject
    <3>1. answer'[c].token = None
      BY <2>2, <2>3, NoAnswerIs DEF GoesTo
    <3>2. req[c].bearer = None /\ req[c].principal = None => Had(since[c], req[c].sourceIP, subject[c])
      BY <1>0, <2>1 DEF CallerInv
    <3> QED
      BY <1>1, <1>2, <2>3, <3>1, <3>2 DEF CallerInv, Had
  <2>4. CASE Returns(c, "invalid", None)
    BY <1>3, <2>4, Literals
  <2> QED
    BY <1>9, <2>3, <2>4, ExtractFacts
<1>10. CASE Exchange(c)
  <2>1. pc[c] = "exchange" /\ rule[c] \in Rules /\ req[c] \in Requests /\ subject[c] \in Subjects
    BY <1>10, ExchangeFacts
  <2>2. CASE Returns(c, "allowed", Wanted(c))
    <3>1. pc'[c] \notin {"extract", "exchange"} /\ answer'[c].token = Wanted(c)
      BY <2>2, SMTT(40) DEF Returns
    <3>2. Wanted(c).sub = subject[c]
      BY <2>1, WantedFacts
    <3>3. req[c].bearer = None /\ req[c].principal = None => Had(since[c], req[c].sourceIP, subject[c])
      BY <1>0, <2>1 DEF CallerInv
    <3>4. answer'[c].token.sub = subject[c]
      BY <3>1, <3>2
    <3> QED
      BY <1>1, <1>2, <3>1, <3>3, <3>4 DEF CallerInv, Had
  <2>3. CASE Returns(c, "internal", None)
    BY <1>3, <2>3, Literals
  <2> QED
    BY <1>10, <2>2, <2>3, ExchangeFacts
<1> QED
  BY <1>5, <1>6, <1>7, <1>8, <1>9, <1>10 DEF Proceed

LEMMA InitPods == Init => PInv
<1> SUFFICES ASSUME Init PROVE PInv
  OBVIOUS
<1>1. /\ pods = [ip \in IPs |-> None] /\ cluster = <<[p \in Pods |-> "noip"]>> /\ delivered = 1
      /\ \A c \in Calls : since[c] = 1 /\ pc[c] = "idle" /\ answer[c] = NoAnswer
  BY DEF Init
<1>2. HistoryInv
  <2>1. Len(cluster) = 1
    BY <1>1, SMTT(40)
  <2>2. \A v \in 1 .. 1 : ~(v < 1)
    BY SMTT(40)
  <2> QED
    BY <2>1, <2>2 DEF HistoryInv
<1>3. ResolverInv
  BY <1>1 DEF ResolverInv
<1>4. UnknownOnlyIfShared
  <2>1. cluster[1] = [p \in Pods |-> "noip"]
    BY <1>1, SMTT(40)
  <2>2. \A p \in Pods : cluster[delivered][p] = "noip"
    BY <1>1, <2>1
  <2> QED
    BY <2>2, AccountAssumption DEF UnknownOnlyIfShared
<1>5. ASSUME NEW c \in Calls PROVE CallerInv(c)
  <2>1. 1 \in 1 .. 1 /\ pc[c] \notin {"extract", "exchange"}
    BY <1>1, SMTT(40)
  <2> QED
    BY <1>1, <2>1, NoAnswerIs DEF CallerInv
<1> QED
  BY <1>2, <1>3, <1>4, <1>5 DEF PInv

LEMMA NextPods ==
    ASSUME TInv, TInv', PInv, [Next]_vars
    PROVE  PInv'
<1>0. /\ HistoryInv /\ ResolverInv /\ UnknownOnlyIfShared /\ (\A c \in Calls : CallerInv(c))
      /\ delivered \in 1 .. Len(cluster) /\ delivered' \in 1 .. Len(cluster')
      /\ delivered \in Nat /\ delivered' \in Nat /\ Len(cluster) \in Nat
  <2>1. /\ HistoryInv /\ ResolverInv /\ UnknownOnlyIfShared /\ (\A c \in Calls : CallerInv(c))
        /\ delivered \in 1 .. Len(cluster) /\ delivered' \in 1 .. Len(cluster') /\ cluster \in Seq(Clusters)
    BY DEF PInv, TInv, ServerTypes
  <2>2. delivered \in Nat /\ delivered' \in Nat /\ Len(cluster) \in Nat
    BY <2>1, SMTT(40)
  <2> QED
    BY <2>1, <2>2
<1>1. ASSUME UNCHANGED <<pods, cluster, delivered>>,
             \A d \in Calls : CallerInv(d)' \/ Same(d)
      PROVE  PInv'
  <2>1. HistoryInv'
    BY <1>0, <1>1 DEF HistoryInv
  <2>4. ResolverInv'
    BY <1>0, <1>1 DEF ResolverInv
  <2>5. UnknownOnlyIfShared'
    BY <1>0, <1>1 DEF UnknownOnlyIfShared
  <2>2. delivered <= delivered'
    BY <1>0, <1>1, SMTT(40)
  <2>3. \A d \in Calls : CallerInv(d)'
    BY <1>0, <1>1, <2>2, CallerKept
  <2> QED
    BY <2>1, <2>3, <2>4, <2>5 DEF PInv
<1>2. ASSUME (\E rs \in RuleSets : SetGenerationRules(rs)) \/ FinishWrite PROVE PInv'
  <2>1. UNCHANGED <<pods, cluster, delivered, pc, req, scan, rule, subject, answer, since>>
    BY <1>2, SetFacts, FinishFacts
  <2> QED
    BY <1>1, <2>1 DEF Same
<1>3. ASSUME NEW p \in Pods, PodChanges(p) PROVE PInv'
  <2>1. /\ UNCHANGED <<pods, delivered, pc, req, scan, rule, subject, answer, since>>
        /\ Len(cluster') = Len(cluster) + 1
        /\ \A v \in 1 .. Len(cluster) : cluster'[v] = cluster[v]
        /\ OneMoves(cluster[Len(cluster)], cluster'[Len(cluster) + 1])
        /\ 1 <= Len(cluster)
    BY <1>3, PodChangesFacts
  <2>2. delivered <= delivered' /\ (\A v \in 1 .. delivered : v \in 1 .. Len(cluster)) /\ Len(cluster) \in 1 .. Len(cluster)
    BY <1>0, <2>1, SMTT(40)
  <2>3. \A v \in 1 .. delivered : cluster'[v] = cluster[v]
    BY <2>1, <2>2
  <2>4. \A d \in Calls : CallerInv(d)'
    BY <1>0, <2>1, <2>2, <2>3, CallerKept DEF Same
  <2>5. ResolverInv'
    <3>1. cluster'[delivered'] = cluster[delivered]
      BY <1>0, <2>1
    <3> QED
      BY <1>0, <2>1, <3>1 DEF ResolverInv
  <2>6. UnknownOnlyIfShared'
    <3>1. cluster'[delivered'] = cluster[delivered]
      BY <1>0, <2>1
    <3>2. ASSUME NEW ip \in IPs, pods'[ip] = None, NEW x \in Pods, cluster'[delivered'][x] = ip
          PROVE  \E v \in 1 .. delivered' : Shared(cluster'[v], ip)
      <4>1. PICK v \in 1 .. delivered : Shared(cluster[v], ip)
        BY <1>0, <2>1, <3>1, <3>2 DEF UnknownOnlyIfShared
      <4>2. cluster'[v] = cluster[v] /\ v \in 1 .. delivered'
        BY <2>1, <2>3
      <4> QED
        BY <4>1, <4>2
    <3> QED
      BY <3>2 DEF UnknownOnlyIfShared
  <2>7. HistoryInv'
    <3> SUFFICES ASSUME NEW v \in 1 .. Len(cluster'), v < Len(cluster')
                 PROVE  OneMoves(cluster'[v], cluster'[v + 1])
      BY DEF HistoryInv
    <3>1. CASE v = Len(cluster)
      BY <2>1, <2>2, <3>1
    <3>2. CASE v # Len(cluster)
      <4>1. v \in 1 .. Len(cluster) /\ v < Len(cluster) /\ v + 1 \in 1 .. Len(cluster)
        BY <1>0, <2>1, <3>2, SMTT(40)
      <4>2. OneMoves(cluster[v], cluster[v + 1])
        BY <1>0, <4>1 DEF HistoryInv
      <4> QED
        BY <2>1, <4>1, <4>2
    <3> QED
      BY <3>1, <3>2
  <2> QED
    BY <2>4, <2>5, <2>6, <2>7 DEF PInv
<1>4. ASSUME NEW p \in Pods, Deliver(p) PROVE PInv'
  <2>1. /\ UNCHANGED <<cluster, pc, req, scan, rule, subject, answer, since>>
        /\ delivered' = delivered + 1
    BY <1>4, DeliverFacts
  <2>2. delivered <= delivered'
    BY <1>0, <2>1, SMTT(40)
  <2>3. \A d \in Calls : CallerInv(d)'
    BY <1>0, <2>1, <2>2, CallerKept DEF Same
  <2>4. HistoryInv'
    BY <1>0, <2>1 DEF HistoryInv
  <2>5. ResolverInv' /\ UnknownOnlyIfShared'
    BY <1>4, ResolverDeliver, UnknownDeliver
  <2> QED
    BY <2>3, <2>4, <2>5 DEF PInv
<1>5. ASSUME NEW c \in Calls, NEW q \in Requests, Receive(c, q) PROVE PInv'
  <2>1. /\ UNCHANGED <<pods, cluster, delivered>> /\ \A d \in Calls : d # c => Same(d)
        /\ pc'[c] = "range" /\ answer'[c] = NoAnswer /\ since'[c] = delivered
    BY <1>5, ReceiveFacts
  <2>2. since'[c] \in 1 .. delivered'
    BY <1>0, <2>1, SMTT(40)
  <2>3. CallerInv(c)'
    BY <2>1, <2>2, NoAnswerIs, CallerNone
  <2> QED
    BY <1>1, <2>1, <2>3
<1>6. ASSUME NEW c \in Calls, ReceiveMalformed(c) PROVE PInv'
  <2>1. /\ UNCHANGED <<pods, cluster, delivered, pc, since>> /\ \A d \in Calls : d # c => Same(d)
        /\ pc[c] = "idle" /\ answer'[c].token = None
    BY <1>6, MalformedFacts
  <2>2. since'[c] \in 1 .. delivered' /\ pc'[c] = "idle"
    BY <1>0, <2>1 DEF CallerInv
  <2>3. CallerInv(c)'
    BY <2>1, <2>2, CallerNone
  <2> QED
    BY <1>1, <2>1, <2>3
<1>7. ASSUME NEW c \in Calls, Proceed(c) PROVE PInv'
  <2>1. Frame(c)
    BY <1>7, FoundProceed
  <2>2. CallerInv(c)'
    BY <1>7, CallerProceed
  <2> QED
    BY <1>1, <2>1, <2>2 DEF Frame
<1>8. ASSUME NEW c \in Calls, Crash(c) PROVE PInv'
  <2>1. /\ UNCHANGED <<cluster>> /\ delivered' = Len(cluster)
        /\ \A d \in Calls : pc'[d] = "idle" /\ answer'[d] = NoAnswer /\ since'[d] = delivered'
        /\ \A ip \in IPs : \/ pods'[ip] \in Pods /\ cluster[Len(cluster)][pods'[ip]] = ip
                           \/ pods'[ip] = None /\ \A p \in Pods : cluster[Len(cluster)][p] # ip
    BY <1>8, CrashFacts
  <2>2. delivered' \in 1 .. delivered'
    BY <1>0, SMTT(40)
  <2>3. \A d \in Calls : CallerInv(d)'
    BY <2>1, <2>2, NoAnswerIs, CallerNone
  <2>4. HistoryInv'
    BY <1>0, <2>1 DEF HistoryInv
  <2>5. ResolverInv'
    BY <2>1 DEF ResolverInv
  <2>6. UnknownOnlyIfShared'
    BY <2>1, AccountAssumption DEF UnknownOnlyIfShared
  <2> QED
    BY <2>3, <2>4, <2>5, <2>6 DEF PInv
<1>9. CASE UNCHANGED vars
  <2>1. UNCHANGED <<pods, cluster, delivered, pc, req, scan, rule, subject, answer, since>>
    BY <1>9 DEF vars, podVars, callVars
  <2> QED
    BY <1>1, <2>1 DEF Same
<1> QED
  BY <1>2, <1>3, <1>4, <1>5, <1>6, <1>7, <1>8, <1>9 DEF Next

-----------------------------------------------------------------------------
(* The theorems.                                                           *)

GenerateInv == TInv /\ RInv /\ PInv

LEMMA GenerateInvariant == Spec => []GenerateInv
<1>1. Init => GenerateInv
  BY InitTypes, InitRules, InitPods DEF GenerateInv
<1>2. GenerateInv /\ [Next]_vars => GenerateInv'
  BY NextTypes, NextRules, NextPods DEF GenerateInv
<1> QED
  BY <1>1, <1>2, PTL DEF Spec

(* Check, SetGenerationRules, UpdatePod, DeletePod and a crash keep the      *)
(* state of the adapter well-typed: a call past findMatchingRule has a rule, *)
(* a call past the subject has one.                                          *)
THEOREM GenerateTypeCorrect == Spec => []TypeOK
<1>1. GenerateInv => TypeOK
  <2> SUFFICES ASSUME TInv PROVE TypeOK
    BY DEF GenerateInv
  <2>1. ServerTypes /\ CallTypes /\ \A c \in Calls : FoundInv(c)
    BY DEF TInv
  <2>2. None \notin Subjects
    BY DEF Subjects
  <2>3. \A c \in Calls : pc[c] \in Steps
    BY <2>1 DEF CallTypes
  <2> QED
    BY <2>1, <2>2, <2>3 DEF TypeOK, ServerTypes, FoundInv, Steps, Rules
<1> QED
  BY <1>1, GenerateInvariant, PTL

(* Unless the slice was being replaced under findMatchingRule, Check answers *)
(* as the first matching rule of the slice says, whatever the rules, the     *)
(* requests and the number of calls.                                         *)
THEOREM AnswerSafe == Spec => []AnswerFollowsRules
<1>1. GenerateInv => AnswerFollowsRules
  <2> SUFFICES ASSUME TInv, RInv, NEW c \in Calls, under[c] > 0, answer[c].code = "allowed"
               PROVE  LET slice == slices[under[c]]
                          matching == {i \in 1 .. Len(slice) : Matches(slice[i], req[c])}
                      IN  IF answer[c].token = None THEN matching = {}
                          ELSE \E i \in matching :
                                  /\ \A j \in matching : i <= j
                                  /\ answer[c].token.scope = slice[i].scope
                                  /\ slice[i].required \subseteq answer[c].token.tctx
    BY DEF GenerateInv, AnswerFollowsRules
  <2> DEFINE slice == slices[under[c]]
             matching == {i \in 1 .. Len(slice) : Matches(slice[i], req[c])}
  <2>1. SearchInv(c) /\ under[c] \in 1 .. Len(slices)
    BY Searching DEF RInv
  <2>2. Len(slice) \in Nat
    BY <2>1, SMTT(40) DEF TInv, ServerTypes
  <2>3. /\ answer[c].token = None => NoneBefore(slice, req[c], Len(slice) + 1)
        /\ answer[c].token # None => Asked(slice, req[c], answer[c].token)
    BY <2>1 DEF SearchInv
  <2> HIDE DEF slice
  <2>4. answer[c].token = None => matching = {}
    <3>1. \A j \in 1 .. Len(slice) : j < Len(slice) + 1
      BY <2>2, SMTT(40)
    <3> QED
      BY <2>3, <3>1 DEF NoneBefore
  <2>5. ASSUME answer[c].token # None
        PROVE  \E i \in matching :
                  /\ \A j \in matching : i <= j
                  /\ answer[c].token.scope = slice[i].scope
                  /\ slice[i].required \subseteq answer[c].token.tctx
    <3>1. PICK r \in Rules : /\ First(slice, req[c], r) /\ answer[c].token.scope = r.scope
                             /\ r.required \subseteq answer[c].token.tctx
      BY <2>3, <2>5 DEF Asked
    <3>2. PICK i \in 1 .. Len(slice) : slice[i] = r /\ Matches(r, req[c]) /\ NoneBefore(slice, req[c], i)
      BY <3>1 DEF First
    <3>3. \A j \in 1 .. Len(slice) : ~(j < i) => i <= j
      BY <2>2, SMTT(40)
    <3>4. i \in matching /\ \A j \in matching : i <= j
      BY <3>2, <3>3 DEF NoneBefore
    <3> QED
      BY <3>1, <3>2, <3>4
  <2> QED
    BY <2>4, <2>5 DEF slice
<1> QED
  BY <1>1, GenerateInvariant, PTL

(* A token for a request that names no caller is for the account of a pod    *)
(* that had the request's address while Check ran: the resolver never holds  *)
(* a pod that no longer has the address in the version delivered.            *)
THEOREM SubjectSafe == Spec => []SubjectHadAddress
<1>1. GenerateInv => SubjectHadAddress
  <2> SUFFICES ASSUME TInv, PInv, NEW c \in Calls, answer[c].token # None,
                      req[c].bearer = None, req[c].principal = None
               PROVE  \E v \in since[c] .. delivered : \E p \in Pods :
                         cluster[v][p] = req[c].sourceIP /\ answer[c].token.sub = Account[p]
    BY DEF GenerateInv, SubjectHadAddress
  <2>1. CallerInv(c)
    BY DEF PInv
  <2>2. Had(since[c], req[c].sourceIP, answer[c].token.sub) /\ since[c] \in 1 .. delivered
    BY <2>1 DEF CallerInv
  <2>3. \A w \in 1 .. delivered : since[c] <= w => w \in since[c] .. delivered
    BY <2>2, SMTT(40)
  <2> QED
    BY <2>2, <2>3 DEF Had
<1> QED
  BY <1>1, GenerateInvariant, PTL

(* The resolver does not know an address that a pod has only if two pods had *)
(* it at once and the deletion of one took the entry of the other.           *)
THEOREM UnknownSafe == Spec => []UnknownOnlyIfShared
<1>1. GenerateInv => UnknownOnlyIfShared
  BY DEF GenerateInv, PInv
<1> QED
  BY <1>1, GenerateInvariant, PTL

=============================================================================
