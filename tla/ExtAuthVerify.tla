---------------------------- MODULE ExtAuthVerify ----------------------------
(***************************************************************************)
(* The ext_authz server in verification mode: Check, which reads the rule  *)
(* snapshot three times (isExcluded, checkVerificationRules, autoNarrow)   *)
(* with a token verification in between and a call to the TTS at the end,  *)
(* and SetVerificationRules, which the rule client calls at any moment.    *)
(*                                                                         *)
(* A path is the sequence of segments between its slashes, without the     *)
(* query; methods are already folded to one case.  A scope is the sequence *)
(* of its words and <<>> stands for no required scope.  Of a CEL           *)
(* expression two things are kept: whether it compiles and which subjects  *)
(* it denies.  Whether a token's signature, expiry and audience are good   *)
(* is the request's field "valid".                                         *)
(***************************************************************************)
EXTENDS Naturals, Sequences, FiniteSets

CONSTANTS
    Checks,         \* Check RPCs being served (goroutines)
    Words, Subjects, Fields, Segments, Methods,
    Requests,       \* the requests the proxy asks about
    RuleSets,       \* the rule sets the setter can be given
    HasTTSClient,   \* SetTTSClient was called
    None,           \* no header, nil
    MaxRules        \* bound: rule sets stored

Claims == [sub : Subjects, scope : Seq(Words), tctx : SUBSET Fields]
EndpointSpec == [path : Seq(Segments), method : Methods]
CELRule == [compiles : BOOLEAN, denies : SUBSET Subjects]
VerificationRule == [id : Nat, scope : Seq(Words), tctx : SUBSET Fields,
                     cel : SUBSET CELRule, excluded : SUBSET EndpointSpec, narrow : BOOLEAN]
CheckRequest == [path : Seq(Segments), method : Methods,
                 token : Claims \cup {None}, valid : BOOLEAN]

ASSUME RequestsAssumption == Requests \subseteq CheckRequest /\ None \notin Claims
ASSUME RuleSetsAssumption ==
    /\ RuleSets \subseteq SUBSET VerificationRule
    /\ {} \in RuleSets
    /\ \A rs \in RuleSets : \A x, y \in rs : x.id = y.id => x = y
ASSUME VerifyBoundsAssumption == MaxRules \in Nat \ {0} /\ HasTTSClient \in BOOLEAN

VARIABLES
    rules,          \* Server.verificationRules: rules with their compiled CEL
    ttsUp,          \* the TTS answers
    pc,             \* "idle", "exclude", "verify", "rules", "narrow", "exchange"
    req,            \* the request a call is about
    goal,           \* the scope a call asks the TTS for, <<>> if it does not
    answer,         \* the last answer of a call
    \* --- history: read by no action ---
    ruleLog,        \* every rule set given to SetVerificationRules, oldest first
    arrived         \* arrived[c]: Len(ruleLog) when call c began

callVars == <<pc, req, goal, answer, arrived>>
vars == <<rules, ttsUp, ruleLog, callVars>>

Codes == {"none", "allowed", "unauthenticated", "denied", "invalid"}
NoAnswer == [code |-> "none", token |-> None, from |-> 0, to |-> 0]

Init ==
    /\ rules = {}
    /\ ttsUp = TRUE
    /\ pc = [c \in Checks |-> "idle"]
    /\ req = [c \in Checks |-> None]
    /\ goal = [c \in Checks |-> <<>>]
    /\ answer = [c \in Checks |-> NoAnswer]
    /\ ruleLog = <<{}>>
    /\ arrived = [c \in Checks |-> 1]

-----------------------------------------------------------------------------
(* Rules.                                                                  *)

(* Fault: an expression that does not compile is kept and denies. *)
compileKeepsBroken(r) == r.cel

(* celverify.Compile gives no programs if one of the expressions is broken. *)
Compile(exprs) == IF \A x \in exprs : x.compiles THEN exprs ELSE {}

(* Fault: the expressions of a rule are compiled together. *)
compileTogether(r) == Compile(r.cel)

(* Each expression is compiled by itself: a broken one is dropped, the       *)
(* others and the rule are not.                                              *)
compileVerificationRuleCEL(r) == UNION {Compile({x}) : x \in r.cel}

SetVerificationRules(rs) ==
    /\ Len(ruleLog) < MaxRules
    /\ rules' = {[rule |-> r, celPrograms |-> compileVerificationRuleCEL(r)] : r \in rs}
    /\ ruleLog' = Append(ruleLog, rs)
    /\ UNCHANGED <<ttsUp, callVars>>

WordsOf(scope) == {scope[i] : i \in 1 .. Len(scope)}

(* The pattern itself, or anything below it. *)
matchPath(path, pattern) ==
    Len(pattern) <= Len(path) /\ \A i \in 1 .. Len(pattern) : path[i] = pattern[i]

Excludes(r, q) ==
    \E ep \in r.excluded : matchPath(q.path, ep.path) /\ q.method = ep.method

isExcluded(rs, q) == \E x \in rs : Excludes(x.rule, q)

(* Each word is compared with the whole required scope. *)
scopeContains(scope, required) == Len(required) = 1 /\ required[1] \in WordsOf(scope)

scopeIsBroader(broader, narrower) ==
    WordsOf(narrower) \subseteq WordsOf(broader) /\ Len(broader) > Len(narrower)

(* celverify.Evaluate: false and an evaluation error deny alike. *)
Evaluate(programs, claims) == \A x \in programs : claims.sub \notin x.denies

(* One rule, for whatever service, against the claims, with the given       *)
(* programs: no code compares a rule's ServiceRef with the request.         *)
Meets(r, cel, claims) ==
    /\ r.scope # <<>> => scopeContains(claims.scope, r.scope)
    /\ r.tctx \subseteq claims.tctx
    /\ Evaluate(cel, claims)

(* Fault: every rule with a scope narrows. *)
NarrowsAlways(r, claims) ==
    r.scope # <<>> /\ claims.scope # r.scope /\ scopeIsBroader(claims.scope, r.scope)

Narrows(r, claims) ==
    /\ r.narrow
    /\ r.scope # <<>>
    /\ claims.scope # r.scope
    /\ scopeIsBroader(claims.scope, r.scope)

(* SetVerificationRules sorts: the rule met first is the one of least name. *)
First(S) == CHOOSE x \in S : \A y \in S : x.rule.id <= y.rule.id

-----------------------------------------------------------------------------
(* Check.                                                                  *)

Receive(c, q) ==
    /\ pc[c] = "idle"
    /\ pc' = [pc EXCEPT ![c] = "exclude"]
    /\ req' = [req EXCEPT ![c] = q]
    /\ goal' = [goal EXCEPT ![c] = <<>>]
    /\ answer' = [answer EXCEPT ![c] = NoAnswer]
    /\ arrived' = [arrived EXCEPT ![c] = Len(ruleLog)]
    /\ UNCHANGED <<rules, ttsUp, ruleLog>>

Continue(c, next) ==
    /\ pc' = [pc EXCEPT ![c] = next]
    /\ UNCHANGED <<rules, ttsUp, ruleLog, req, answer, arrived>>

(* allowed, allowedWithHeaders, denied, and the token the service will see. *)
Answer(c, code, token) ==
    /\ pc' = [pc EXCEPT ![c] = "idle"]
    /\ answer' = [answer EXCEPT ![c] = [code |-> code, token |-> token,
                                        from |-> arrived[c], to |-> Len(ruleLog)]]
    /\ UNCHANGED <<rules, ttsUp, ruleLog, req, arrived>>

(* A request without HTTP attributes. *)
ReceiveMalformed(c) ==
    /\ pc[c] = "idle"
    /\ req' = [req EXCEPT ![c] = None]
    /\ goal' = [goal EXCEPT ![c] = <<>>]
    /\ answer' = [answer EXCEPT ![c] = [NoAnswer EXCEPT !.code = "invalid"]]
    /\ UNCHANGED <<rules, ttsUp, ruleLog, pc, arrived>>

(* Fault: a request without a token goes on to verification. *)
CheckExcludedOnly(c) ==
    /\ pc[c] = "exclude"
    /\ UNCHANGED goal
    /\ \/ isExcluded(rules, req[c]) /\ Answer(c, "allowed", req[c].token)
       \/ ~isExcluded(rules, req[c]) /\ Continue(c, "verify")

CheckExcluded(c) ==
    /\ pc[c] = "exclude"
    /\ UNCHANGED goal
    /\ \/ isExcluded(rules, req[c]) /\ Answer(c, "allowed", req[c].token)
       \/ /\ ~isExcluded(rules, req[c])
          /\ req[c].token = None
          /\ Answer(c, "unauthenticated", None)
       \/ /\ ~isExcluded(rules, req[c])
          /\ req[c].token # None
          /\ Continue(c, "verify")

(* Verify may also fail because the JWKS cannot be fetched. *)
VerifyToken(c) ==
    /\ pc[c] = "verify"
    /\ UNCHANGED goal
    /\ \/ req[c].valid /\ Continue(c, "rules")
       \/ Answer(c, "unauthenticated", None)

checkVerificationRules(c) ==
    /\ pc[c] = "rules"
    /\ UNCHANGED goal
    /\ LET failing == {x \in rules : ~Meets(x.rule, x.celPrograms, req[c].token)}
       IN  \/ failing = {} /\ Continue(c, "narrow")
           \/ failing # {} /\ Answer(c, "denied", None)

autoNarrow(c) ==
    /\ pc[c] = "narrow"
    /\ LET wanted == {x \in rules : HasTTSClient /\ Narrows(x.rule, req[c].token)}
       IN  \/ /\ wanted = {}
              /\ UNCHANGED goal
              /\ Answer(c, "allowed", req[c].token)
           \/ /\ wanted # {}
              /\ goal' = [goal EXCEPT ![c] = First(wanted).rule.scope]
              /\ Continue(c, "exchange")

(* Fault: the call waits until the TTS answers. *)
ExchangeWaits(c) ==
    /\ pc[c] = "exchange"
    /\ ttsUp
    /\ UNCHANGED goal
    /\ Answer(c, "allowed", [req[c].token EXCEPT !.scope = goal[c]])

(* The TTS grants a subset of the token's scope (see TokenExchange); on any *)
(* error, the client's timeout included, the token is forwarded as it came. *)
Exchange(c) ==
    /\ pc[c] = "exchange"
    /\ UNCHANGED goal
    /\ \/ /\ ttsUp
          /\ WordsOf(goal[c]) \subseteq WordsOf(req[c].token.scope)
          /\ Answer(c, "allowed", [req[c].token EXCEPT !.scope = goal[c]])
       \/ Answer(c, "allowed", req[c].token)

(* The TTS or the way to it fails or recovers. *)
TTSFlips ==
    /\ ttsUp' = ~ttsUp
    /\ UNCHANGED <<rules, ruleLog, callVars>>

-----------------------------------------------------------------------------

Proceed(c) ==
    \/ CheckExcluded(c)
    \/ VerifyToken(c)
    \/ checkVerificationRules(c)
    \/ autoNarrow(c)
    \/ Exchange(c)

Next ==
    \/ \E rs \in RuleSets : SetVerificationRules(rs)
    \/ TTSFlips
    \/ \E c \in Checks :
          \/ \E q \in Requests : Receive(c, q)
          \/ ReceiveMalformed(c)
          \/ Proceed(c)

Spec == Init /\ [][Next]_vars

(* A goroutine that can run is eventually run; a call to the TTS ends, with *)
(* a timeout at the latest.                                                 *)
FairSpec == Spec /\ \A c \in Checks : WF_vars(Proceed(c))

-----------------------------------------------------------------------------
(* Properties.                                                             *)

(* State stays well-typed; a call that is being served has a request and no *)
(* answer yet, and past the exclusions it has a token (Check).              *)
TypeOK ==
    /\ rules \subseteq [rule : VerificationRule, celPrograms : SUBSET CELRule]
    /\ ttsUp \in BOOLEAN
    /\ ruleLog \in Seq(RuleSets)
    /\ pc \in [Checks -> {"idle", "exclude", "verify", "rules", "narrow", "exchange"}]
    /\ req \in [Checks -> Requests \cup {None}]
    /\ goal \in [Checks -> Seq(Words)]
    /\ answer \in [Checks -> [code : Codes, token : Claims \cup {None},
                              from : Nat, to : Nat]]
    /\ arrived \in [Checks -> Nat]
    /\ \A c \in Checks :
          /\ pc[c] # "idle" => req[c] \in Requests /\ answer[c] = NoAnswer
          /\ pc[c] \in {"verify", "rules", "narrow", "exchange"} => req[c].token \in Claims

(* Every rule as it was pushed holds: scope, fields, and the CEL that       *)
(* compiles.                                                                *)
Passes(rs, claims) ==
    \A r \in rs : Meets(r, {x \in r.cel : x.compiles}, claims)

(* A request is allowed only if, at one moment while Check ran, the rules   *)
(* in force excluded its endpoint, or its token verified and all of them    *)
(* held.  Rules that change between the three loads never add up to an      *)
(* answer that no single set gives, and a broken CEL expression never takes *)
(* the other constraints of its rule with it (Check, SetVerificationRules). *)
AllowedUnderOneSnapshot ==
    \A c \in Checks : answer[c].code = "allowed" =>
        \E k \in answer[c].from .. answer[c].to :
            \/ \E r \in ruleLog[k] : Excludes(r, req[c])
            \/ req[c].valid /\ req[c].token # None /\ Passes(ruleLog[k], req[c].token)

(* A request is denied only if at one moment while Check ran the rules did  *)
(* not exclude its endpoint, and, if a rule denied it, only if at one       *)
(* moment its token did not meet a rule (Check).                            *)
DeniedUnderOneSnapshot ==
    \A c \in Checks :
        LET window == answer[c].from .. answer[c].to
        IN  /\ answer[c].code \in {"unauthenticated", "denied"} =>
                  \E k \in window : \A r \in ruleLog[k] : ~Excludes(r, req[c])
            /\ answer[c].code = "denied" =>
                  \E k \in window : ~Passes(ruleLog[k], req[c].token)

(* The service sees the caller's token, or one that differs only in having  *)
(* exactly the scope that a narrowing rule, pushed while Check ran,         *)
(* requires; no word is gained (autoNarrow).                                *)
NarrowedAsDemanded ==
    \A c \in Checks : answer[c].code = "allowed" /\ answer[c].token # req[c].token =>
        /\ answer[c].token.sub = req[c].token.sub
        /\ answer[c].token.tctx = req[c].token.tctx
        /\ WordsOf(answer[c].token.scope) \subseteq WordsOf(req[c].token.scope)
        /\ \E k \in answer[c].from .. answer[c].to : \E r \in ruleLog[k] :
              r.narrow /\ r.scope = answer[c].token.scope

(* Every Check is answered, also while the TTS does not respond and however *)
(* often the rules change (Check, Client.Exchange with its timeout).        *)
EveryCheckAnswered == \A c \in Checks : pc[c] # "idle" ~> pc[c] = "idle"

(* What a call has established by the step it has reached, about one of the *)
(* rule sets since it arrived.                                              *)
CallInv(c) ==
    LET since == arrived[c] .. Len(ruleLog)
    IN  /\ arrived[c] \in 1 .. Len(ruleLog)
        /\ pc[c] \in {"verify", "rules", "narrow", "exchange"} =>
              \E k \in since : \A r \in ruleLog[k] : ~Excludes(r, req[c])
        /\ pc[c] \in {"rules", "narrow", "exchange"} => req[c].valid
        /\ pc[c] \in {"narrow", "exchange"} =>
              \E k \in since : Passes(ruleLog[k], req[c].token)
        /\ pc[c] = "exchange" =>
              \E k \in since : \E r \in ruleLog[k] : r.narrow /\ r.scope = goal[c]
        /\ answer[c].code \in {"allowed", "unauthenticated", "denied"} =>
              /\ answer[c].from \in 1 .. Len(ruleLog)
              /\ answer[c].to \in 1 .. Len(ruleLog)

(* The snapshot is the last set pushed, compiled. *)
SnapshotInv ==
    /\ ruleLog # <<>>
    /\ rules = {[rule |-> r, celPrograms |-> compileVerificationRuleCEL(r)] :
                   r \in ruleLog[Len(ruleLog)]}

CheckInv == SnapshotInv /\ \A c \in Checks : CallInv(c)

=============================================================================
