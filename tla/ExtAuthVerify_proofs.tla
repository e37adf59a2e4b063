------------------------ MODULE ExtAuthVerify_proofs ------------------------
(***************************************************************************)
(* Proofs about the verification server, for every set of concurrent       *)
(* calls, requests and rule sets.                                          *)
(*                                                                         *)
(* The rule sets are read three times, so nothing a call establishes is    *)
(* about the rules in force when it answers.  CheckInv says instead that   *)
(* each fact holds of one of the sets pushed since the call arrived; a     *)
(* fact of that form survives every later push, since the log only grows.  *)
(***************************************************************************)
EXTENDS ExtAuthVerify, SequenceTheorems, WellFoundedInduction, TLAPS

(* Claims differ from None, and requests have the fields Check reads. *)
LEMMA RequestFields ==
    ASSUME NEW q \in Requests
    PROVE  q.token \in Claims \cup {None} /\ q.valid \in BOOLEAN
  BY RequestsAssumption, Zenon DEF CheckRequest

(* A narrowed token is a token. *)
LEMMA NarrowedToken ==
    ASSUME NEW t \in Claims, NEW s \in Seq(Words)
    PROVE  /\ [t EXCEPT !.scope = s] \in Claims
           /\ [t EXCEPT !.scope = s].sub = t.sub
           /\ [t EXCEPT !.scope = s].tctx = t.tctx
           /\ [t EXCEPT !.scope = s].scope = s
  BY SMTT(40) DEF Claims

(* The rule picked from a non-empty set of compiled rules is one of them:   *)
(* names are natural numbers, so one of them is least.                      *)
LEMMA FirstIn ==
    ASSUME NEW S, S # {}, \A x \in S : x.rule.id \in Nat
    PROVE  First(S) \in S
<1> DEFINE Ids == {x.rule.id : x \in S}
<1>1. Ids \subseteq Nat /\ Ids # {}
  OBVIOUS
<1>2. \A x \in S : x.rule.id \in Ids
  OBVIOUS
<1>3. \A i \in Ids : \E x \in S : x.rule.id = i
  OBVIOUS
<1> HIDE DEF Ids
<1>4. \E n \in Ids : \A i \in Ids : n <= i
  <2> DEFINE Less == OpToRel(<, Nat)
  <2>1. IsWellFoundedOn(Less, Nat)
    BY NatLessThanWellFounded, Zenon
  <2>2. \A i, j \in Nat : i < j => <<i, j>> \in Less
    BY DEF OpToRel
  <2> HIDE DEF Less
  <2>3. PICK n \in Ids : \A i \in Ids : ~(<<i, n>> \in Less)
    BY <1>1, <2>1, WFMin, Zenon
  <2>4. \A i \in Ids : n <= i
    <3> SUFFICES ASSUME NEW i \in Ids PROVE n <= i
      OBVIOUS
    <3>1. i \in Nat /\ n \in Nat
      BY <1>1
    <3>2. ~(i < n)
      BY <2>2, <2>3, <3>1, Zenon
    <3> QED
      BY <3>1, <3>2
  <2> QED
    BY <2>4
<1>5. PICK x \in S : \A y \in S : x.rule.id <= y.rule.id
  <2>1. PICK n \in Ids : \A i \in Ids : n <= i
    BY <1>4
  <2>2. PICK x \in S : x.rule.id = n
    BY <1>3
  <2>3. \A y \in S : x.rule.id <= y.rule.id
    BY <1>2, <2>1, <2>2
  <2> QED
    BY <2>3
<1> QED
  BY <1>5, Zenon DEF First

-----------------------------------------------------------------------------
(* Type correctness.                                                       *)

Answers == [code : Codes, token : Claims \cup {None},
            from : Nat, to : Nat]

(* The answer of a call fits its type, and leaves the call idle. *)
LEMMA AnswerType ==
    ASSUME TypeOK, NEW c \in Checks, NEW code \in Codes,
           NEW token \in Claims \cup {None},
           Answer(c, code, token), UNCHANGED goal
    PROVE  TypeOK'
<1> DEFINE a == [code |-> code, token |-> token,
                 from |-> arrived[c], to |-> Len(ruleLog)]
<1>1. arrived[c] \in Nat /\ Len(ruleLog) \in Nat
  BY LenProperties DEF TypeOK
<1>2. a \in Answers
  BY <1>1 DEF Answers
<1>3. /\ pc' = [pc EXCEPT ![c] = "idle"]
      /\ answer' = [answer EXCEPT ![c] = a]
      /\ UNCHANGED <<rules, ttsUp, ruleLog, req, goal, arrived>>
  BY DEF Answer
<1> HIDE DEF a
<1>4. answer' \in [Checks -> Answers]
  BY <1>2, <1>3 DEF TypeOK, Answers
<1>5. \A d \in Checks :
        /\ pc'[d] # "idle" => req'[d] \in Requests /\ answer'[d] = NoAnswer
        /\ pc'[d] \in {"verify", "rules", "narrow", "exchange"} => req'[d].token \in Claims
  BY <1>3 DEF TypeOK
<1> QED
  BY <1>3, <1>4, <1>5 DEF TypeOK, Answers

(* A call that goes on does so with a token. *)
LEMMA ContinueType ==
    ASSUME TypeOK, NEW c \in Checks, pc[c] # "idle", req[c].token \in Claims,
           NEW next \in {"verify", "rules", "narrow", "exchange"},
           Continue(c, next), goal' \in [Checks -> Seq(Words)]
    PROVE  TypeOK'
<1>1. /\ pc' = [pc EXCEPT ![c] = next]
      /\ UNCHANGED <<rules, ttsUp, ruleLog, req, answer, arrived>>
  BY DEF Continue
<1>2. \A d \in Checks :
        /\ pc'[d] # "idle" => req'[d] \in Requests /\ answer'[d] = NoAnswer
        /\ pc'[d] \in {"verify", "rules", "narrow", "exchange"} => req'[d].token \in Claims
  BY <1>1 DEF TypeOK
<1> QED
  BY <1>1, <1>2 DEF TypeOK

(* Compiling each expression by itself keeps exactly those that compile. *)
LEMMA CompiledCEL ==
    ASSUME NEW r
    PROVE  compileVerificationRuleCEL(r) = {x \in r.cel : x.compiles}
<1>1. \A x : Compile({x}) = IF x.compiles THEN {x} ELSE {}
  BY DEF Compile
<1>2. ASSUME NEW x
      PROVE  x \in compileVerificationRuleCEL(r) <=> x \in r.cel /\ x.compiles
  <2>1. x \in compileVerificationRuleCEL(r) => \E y \in r.cel : x \in Compile({y})
    BY Zenon DEF compileVerificationRuleCEL
  <2>2. x \in r.cel /\ x \in Compile({x}) => x \in compileVerificationRuleCEL(r)
    BY Zenon DEF compileVerificationRuleCEL
  <2>3. \A y : x \in Compile({y}) <=> x = y /\ y.compiles
    BY <1>1, Zenon
  <2> QED
    BY <2>1, <2>2, <2>3, Zenon
<1> QED
  BY <1>2, Zenon

(* What the compiled rules contain. *)
LEMMA CompiledRule ==
    ASSUME TypeOK, NEW x \in rules
    PROVE  /\ x.rule \in VerificationRule
           /\ x.rule.id \in Nat
           /\ x.rule.scope \in Seq(Words)
<1>1. x \in [rule : VerificationRule, celPrograms : SUBSET CELRule]
  BY DEF TypeOK
<1>2. x.rule \in VerificationRule
  BY <1>1
<1> QED
  BY <1>2 DEF VerificationRule

LEMMA TypeStep ==
    ASSUME TypeOK, Next
    PROVE  TypeOK'
<1>1. ASSUME NEW rs \in RuleSets, SetVerificationRules(rs)
      PROVE  TypeOK'
  <2>1. rs \subseteq VerificationRule
    BY RuleSetsAssumption
  <2>2. \A r \in rs : [rule |-> r, celPrograms |-> compileVerificationRuleCEL(r)]
                         \in [rule : VerificationRule, celPrograms : SUBSET CELRule]
    <3> SUFFICES ASSUME NEW r \in rs
                 PROVE  compileVerificationRuleCEL(r) \in SUBSET CELRule
      BY <2>1
    <3>1. r.cel \in SUBSET CELRule
      BY <2>1 DEF VerificationRule
    <3> QED
      BY <3>1, CompiledCEL
  <2>3. rules' \subseteq [rule : VerificationRule, celPrograms : SUBSET CELRule]
    BY <1>1, <2>2, Zenon DEF SetVerificationRules
  <2>4. ruleLog' \in Seq(RuleSets)
    BY <1>1, AppendProperties DEF SetVerificationRules, TypeOK
  <2>5. UNCHANGED <<ttsUp, pc, req, goal, answer, arrived>>
    BY <1>1 DEF SetVerificationRules, callVars
  <2> QED
    BY <2>3, <2>4, <2>5 DEF TypeOK
<1>2. CASE TTSFlips
  BY <1>2 DEF TTSFlips, TypeOK, callVars
<1>3. ASSUME NEW c \in Checks, NEW q \in Requests, Receive(c, q)
      PROVE  TypeOK'
  <2>1. NoAnswer \in Answers /\ Len(ruleLog) \in Nat
    BY LenProperties DEF NoAnswer, Answers, Codes, TypeOK
  <2>2. /\ pc' = [pc EXCEPT ![c] = "exclude"]
        /\ req' = [req EXCEPT ![c] = q]
        /\ goal' = [goal EXCEPT ![c] = <<>>]
        /\ answer' = [answer EXCEPT ![c] = NoAnswer]
        /\ arrived' = [arrived EXCEPT ![c] = Len(ruleLog)]
        /\ UNCHANGED <<rules, ttsUp, ruleLog>>
    BY <1>3 DEF Receive
  <2>3. answer' \in [Checks -> Answers]
    BY <2>1, <2>2 DEF TypeOK, Answers
  <2>4. <<>> \in Seq(Words)
    OBVIOUS
  <2>5. \A d \in Checks :
          /\ pc'[d] # "idle" => req'[d] \in Requests /\ answer'[d] = NoAnswer
          /\ pc'[d] \in {"verify", "rules", "narrow", "exchange"} => req'[d].token \in Claims
    BY <2>2 DEF TypeOK
  <2> QED
    BY <2>1, <2>2, <2>3, <2>4, <2>5 DEF TypeOK, Answers
<1>4. ASSUME NEW c \in Checks, ReceiveMalformed(c)
      PROVE  TypeOK'
  <2> DEFINE a == [NoAnswer EXCEPT !.code = "invalid"]
  <2>1. a \in Answers
    BY DEF NoAnswer, Answers, Codes
  <2>2. /\ pc[c] = "idle"
        /\ req' = [req EXCEPT ![c] = None]
        /\ goal' = [goal EXCEPT ![c] = <<>>]
        /\ answer' = [answer EXCEPT ![c] = a]
        /\ UNCHANGED <<rules, ttsUp, ruleLog, pc, arrived>>
    BY <1>4 DEF ReceiveMalformed
  <2> HIDE DEF a
  <2>3. answer' \in [Checks -> Answers]
    BY <2>1, <2>2 DEF TypeOK, Answers
  <2>4. <<>> \in Seq(Words)
    OBVIOUS
  <2>5. \A d \in Checks :
          /\ pc'[d] # "idle" => req'[d] \in Requests /\ answer'[d] = NoAnswer
          /\ pc'[d] \in {"verify", "rules", "narrow", "exchange"} => req'[d].token \in Claims
    BY <2>2 DEF TypeOK
  <2> QED
    BY <2>2, <2>3, <2>4, <2>5 DEF TypeOK, Answers
<1>5. ASSUME NEW c \in Checks, CheckExcluded(c)
      PROVE  TypeOK'
  <2>1. req[c].token \in Claims \cup {None} /\ pc[c] # "idle"
    BY <1>5, RequestFields DEF CheckExcluded, TypeOK
  <2>2. goal' \in [Checks -> Seq(Words)] /\ UNCHANGED goal
    BY <1>5 DEF CheckExcluded, TypeOK
  <2> QED
    BY <1>5, <2>1, <2>2, AnswerType, ContinueType, Zenon DEF CheckExcluded, Codes
<1>6. ASSUME NEW c \in Checks, VerifyToken(c)
      PROVE  TypeOK'
  <2>1. req[c].token \in Claims /\ pc[c] # "idle"
    BY <1>6 DEF VerifyToken, TypeOK
  <2>2. goal' \in [Checks -> Seq(Words)] /\ UNCHANGED goal
    BY <1>6 DEF VerifyToken, TypeOK
  <2> QED
    BY <1>6, <2>1, <2>2, AnswerType, ContinueType, Zenon DEF VerifyToken, Codes
<1>7. ASSUME NEW c \in Checks, checkVerificationRules(c)
      PROVE  TypeOK'
  <2> DEFINE failing == {x \in rules : ~Meets(x.rule, x.celPrograms, req[c].token)}
  <2>1. req[c].token \in Claims /\ pc[c] # "idle"
    BY <1>7 DEF checkVerificationRules, TypeOK
  <2>2. goal' \in [Checks -> Seq(Words)] /\ UNCHANGED goal
    BY <1>7 DEF checkVerificationRules, TypeOK
  <2>3. \/ Continue(c, "narrow")
        \/ failing # {} /\ Answer(c, "denied", None)
    BY <1>7, Zenon DEF checkVerificationRules
  <2> HIDE DEF failing
  <2> QED
    BY <2>1, <2>2, <2>3, AnswerType, ContinueType, Zenon DEF Codes
<1>8. ASSUME NEW c \in Checks, autoNarrow(c)
      PROVE  TypeOK'
  <2> DEFINE wanted == {x \in rules : HasTTSClient /\ Narrows(x.rule, req[c].token)}
  <2>1. req[c].token \in Claims /\ pc[c] # "idle"
    BY <1>8 DEF autoNarrow, TypeOK
  <2>2. wanted # {} => First(wanted).rule.scope \in Seq(Words)
    BY CompiledRule, FirstIn, Zenon
  <2>3. \/ UNCHANGED goal /\ Answer(c, "allowed", req[c].token)
        \/ /\ wanted # {}
           /\ goal' = [goal EXCEPT ![c] = First(wanted).rule.scope]
           /\ Continue(c, "exchange")
    BY <1>8, Zenon DEF autoNarrow
  <2> HIDE DEF wanted
  <2>4. CASE UNCHANGED goal /\ Answer(c, "allowed", req[c].token)
    BY <2>1, <2>4, AnswerType, Zenon DEF Codes
  <2>5. CASE /\ wanted # {}
             /\ goal' = [goal EXCEPT ![c] = First(wanted).rule.scope]
             /\ Continue(c, "exchange")
    <3>1. goal' \in [Checks -> Seq(Words)]
      BY <2>2, <2>5 DEF TypeOK
    <3> QED
      BY <2>1, <2>5, <3>1, ContinueType, Zenon
  <2> QED
    BY <2>3, <2>4, <2>5
<1>9. ASSUME NEW c \in Checks, Exchange(c)
      PROVE  TypeOK'
  <2>1. req[c].token \in Claims /\ goal[c] \in Seq(Words) /\ UNCHANGED goal
    BY <1>9 DEF Exchange, TypeOK
  <2>2. [req[c].token EXCEPT !.scope = goal[c]] \in Claims
    BY <2>1, NarrowedToken
  <2>3. \/ Answer(c, "allowed", [req[c].token EXCEPT !.scope = goal[c]])
        \/ Answer(c, "allowed", req[c].token)
    BY <1>9 DEF Exchange
  <2> QED
    BY <2>1, <2>2, <2>3, AnswerType, Zenon DEF Codes
<1> QED
  BY <1>1, <1>2, <1>3, <1>4, <1>5, <1>6, <1>7, <1>8, <1>9 DEF Next, Proceed

(* Every reachable state of the verification server is well-typed, and a   *)
(* call reaches the verifier only with a token.                            *)
THEOREM TypeCorrect == Spec => []TypeOK
<1>1. Init => TypeOK
  BY RuleSetsAssumption DEF Init, TypeOK, NoAnswer, Codes
<1>2. TypeOK /\ [Next]_vars => TypeOK'
  <2>1. CASE Next
    BY <2>1, TypeStep
  <2>2. CASE UNCHANGED vars
    BY <2>2 DEF vars, callVars, TypeOK
  <2> QED
    BY <2>1, <2>2
<1> QED
  BY <1>1, <1>2, PTL DEF Spec

-----------------------------------------------------------------------------
(* The safety properties, call by call.                                    *)

AllowedCall(c) ==
    answer[c].code = "allowed" =>
        \E k \in answer[c].from .. answer[c].to :
            \/ \E r \in ruleLog[k] : Excludes(r, req[c])
            \/ req[c].valid /\ req[c].token # None /\ Passes(ruleLog[k], req[c].token)

DeniedCall(c) ==
    /\ answer[c].code \in {"unauthenticated", "denied"} =>
          \E k \in answer[c].from .. answer[c].to : \A r \in ruleLog[k] : ~Excludes(r, req[c])
    /\ answer[c].code = "denied" =>
          \E k \in answer[c].from .. answer[c].to : ~Passes(ruleLog[k], req[c].token)

NarrowedCall(c) ==
    answer[c].code = "allowed" /\ answer[c].token # req[c].token =>
        /\ answer[c].token.sub = req[c].token.sub
        /\ answer[c].token.tctx = req[c].token.tctx
        /\ WordsOf(answer[c].token.scope) \subseteq WordsOf(req[c].token.scope)
        /\ \E k \in answer[c].from .. answer[c].to : \E r \in ruleLog[k] :
              r.narrow /\ r.scope = answer[c].token.scope

Good(c) == CallInv(c) /\ AllowedCall(c) /\ DeniedCall(c) /\ NarrowedCall(c)

(* The log of rule sets only grows at its end. *)
LEMMA LogGrows ==
    ASSUME TypeOK, Next
    PROVE  /\ Len(ruleLog) \in Nat /\ Len(ruleLog') \in Nat
           /\ Len(ruleLog) <= Len(ruleLog')
           /\ \A k \in 1 .. Len(ruleLog) : ruleLog'[k] = ruleLog[k]
<1>1. ruleLog \in Seq(RuleSets) /\ Len(ruleLog) \in Nat
  BY LenProperties DEF TypeOK
<1>2. CASE UNCHANGED ruleLog
  BY <1>1, <1>2
<1>3. ASSUME NEW rs \in RuleSets, SetVerificationRules(rs)
      PROVE  /\ Len(ruleLog') = Len(ruleLog) + 1
             /\ \A k \in 1 .. Len(ruleLog) : ruleLog'[k] = ruleLog[k]
  BY <1>1, <1>3, AppendProperties, SMTT(40) DEF SetVerificationRules
<1>4. UNCHANGED ruleLog \/ \E rs \in RuleSets : SetVerificationRules(rs)
  BY Zenon DEF Next, Proceed, TTSFlips, Receive, ReceiveMalformed, CheckExcluded, VerifyToken,
         checkVerificationRules, autoNarrow, Exchange, Answer, Continue
<1> QED
  BY <1>1, <1>2, <1>3, <1>4

(* The snapshot stays the compiled form of the last set pushed. *)
LEMMA SnapshotStep ==
    ASSUME TypeOK, SnapshotInv, Next
    PROVE  SnapshotInv'
<1>1. ASSUME NEW rs \in RuleSets, SetVerificationRules(rs)
      PROVE  SnapshotInv'
  <2>1. ruleLog' = Append(ruleLog, rs)
        /\ rules' = {[rule |-> r, celPrograms |-> compileVerificationRuleCEL(r)] : r \in rs}
    BY <1>1 DEF SetVerificationRules
  <2>2. ruleLog' # <<>> /\ ruleLog'[Len(ruleLog')] = rs
    BY <2>1, AppendProperties, LenProperties DEF TypeOK
  <2> QED
    BY <2>1, <2>2, Zenon DEF SnapshotInv
<1>2. CASE UNCHANGED <<rules, ruleLog>>
  BY <1>2 DEF SnapshotInv
<1>3. UNCHANGED <<rules, ruleLog>> \/ \E rs \in RuleSets : SetVerificationRules(rs)
  BY ZenonT(40) DEF Next, Proceed, TTSFlips, Receive, ReceiveMalformed, CheckExcluded, VerifyToken,
         checkVerificationRules, autoNarrow, Exchange, Answer, Continue
<1> QED
  BY <1>1, <1>2, <1>3

(* A call that takes no step keeps all it has established: the sets it is   *)
(* about are still where they were in the log.                              *)
LEMMA FrameCall ==
    ASSUME TypeOK, NEW d \in Checks, Good(d), Next,
           pc'[d] = pc[d], req'[d] = req[d], goal'[d] = goal[d],
           answer'[d] = answer[d], arrived'[d] = arrived[d]
    PROVE  Good(d)'
<1>1. /\ Len(ruleLog) \in Nat /\ Len(ruleLog') \in Nat
      /\ Len(ruleLog) <= Len(ruleLog')
      /\ \A k \in 1 .. Len(ruleLog) : ruleLog'[k] = ruleLog[k]
  BY LogGrows
<1>2. arrived[d] \in 1 .. Len(ruleLog)
  BY DEF Good, CallInv
<1>3. \A k \in arrived[d] .. Len(ruleLog) :
        k \in arrived[d] .. Len(ruleLog') /\ ruleLog'[k] = ruleLog[k]
  BY <1>1, <1>2
<1>4. answer[d].code \in {"allowed", "unauthenticated", "denied"} =>
        /\ answer[d].from \in 1 .. Len(ruleLog') /\ answer[d].to \in 1 .. Len(ruleLog')
        /\ \A k \in answer[d].from .. answer[d].to : ruleLog'[k] = ruleLog[k]
  BY <1>1, SMTT(40) DEF Good, CallInv
<1>5. arrived[d] \in 1 .. Len(ruleLog')
  BY <1>1, <1>2
<1>6. CallInv(d)'
  <2>1. pc[d] \in {"verify", "rules", "narrow", "exchange"} =>
          \E k \in arrived[d] .. Len(ruleLog') : \A r \in ruleLog'[k] : ~Excludes(r, req[d])
    BY <1>3, Zenon DEF Good, CallInv
  <2>2. pc[d] \in {"narrow", "exchange"} =>
          \E k \in arrived[d] .. Len(ruleLog') : Passes(ruleLog'[k], req[d].token)
    BY <1>3, Zenon DEF Good, CallInv
  <2>3. pc[d] = "exchange" =>
          \E k \in arrived[d] .. Len(ruleLog') : \E r \in ruleLog'[k] :
              r.narrow /\ r.scope = goal[d]
    BY <1>3, Zenon DEF Good, CallInv
  <2>4. pc[d] \in {"rules", "narrow", "exchange"} => req[d].valid
    BY DEF Good, CallInv
  <2> QED
    BY <1>4, <1>5, <2>1, <2>2, <2>3, <2>4, ZenonT(40) DEF CallInv
<1>7. AllowedCall(d)'
  BY <1>4, ZenonT(40) DEF Good, AllowedCall
<1>8. DeniedCall(d)'
  BY <1>4, ZenonT(40) DEF Good, DeniedCall
<1>9. NarrowedCall(d)'
  BY <1>4 DEF Good, NarrowedCall
<1> QED
  BY <1>6, <1>7, <1>8, <1>9 DEF Good

(* An answer that one of the sets since the call arrived justifies. *)
LEMMA AnswerGood ==
    ASSUME TypeOK, NEW c \in Checks, Good(c),
           NEW code \in {"allowed", "unauthenticated", "denied"}, NEW token,
           Answer(c, code, token),
           code = "allowed" =>
               \E k \in arrived[c] .. Len(ruleLog) :
                   \/ \E r \in ruleLog[k] : Excludes(r, req[c])
                   \/ req[c].valid /\ req[c].token # None /\ Passes(ruleLog[k], req[c].token),
           code # "allowed" =>
               \E k \in arrived[c] .. Len(ruleLog) : \A r \in ruleLog[k] : ~Excludes(r, req[c]),
           code = "denied" =>
               \E k \in arrived[c] .. Len(ruleLog) : ~Passes(ruleLog[k], req[c].token),
           code = "allowed" /\ token # req[c].token =>
               /\ token.sub = req[c].token.sub
               /\ token.tctx = req[c].token.tctx
               /\ WordsOf(token.scope) \subseteq WordsOf(req[c].token.scope)
               /\ \E k \in arrived[c] .. Len(ruleLog) : \E r \in ruleLog[k] :
                     r.narrow /\ r.scope = token.scope
    PROVE  Good(c)'
<1>1. /\ pc'[c] = "idle"
      /\ answer'[c].code = code /\ answer'[c].token = token
      /\ answer'[c].from = arrived[c] /\ answer'[c].to = Len(ruleLog)
      /\ UNCHANGED <<ruleLog, req, arrived>>
  BY DEF Answer, TypeOK
<1>2. arrived[c] \in 1 .. Len(ruleLog) /\ Len(ruleLog) \in 1 .. Len(ruleLog)
  <2>1. arrived[c] \in 1 .. Len(ruleLog)
    BY SMTT(40) DEF Good, CallInv
  <2>2. Len(ruleLog) \in Nat
    BY LenProperties DEF TypeOK
  <2> QED
    BY <2>1, <2>2, SMTT(40)
<1>3. CallInv(c)'
  BY <1>1, <1>2, SMTT(40) DEF CallInv
<1>4. AllowedCall(c)'
  BY <1>1, Zenon DEF AllowedCall, Passes, Meets, Excludes
<1>5. DeniedCall(c)'
  <2>1. CASE code = "allowed"
    BY <1>1, <2>1, SMTT(40) DEF DeniedCall
  <2>2. CASE code # "allowed"
    BY <1>1, <2>2, SMTT(40) DEF DeniedCall, Passes, Meets, Excludes
  <2> QED
    BY <2>1, <2>2
<1>6. NarrowedCall(c)'
  BY <1>1, Zenon DEF NarrowedCall
<1> QED
  BY <1>3, <1>4, <1>5, <1>6, SMTT(40) DEF Good

(* Going on: the call has no answer, and the log has not changed. *)
LEMMA ContinueGood ==
    ASSUME TypeOK, NEW c \in Checks, pc[c] # "idle", NEW next, Continue(c, next)
    PROVE  /\ pc'[c] = next /\ answer'[c].code = "none"
           /\ UNCHANGED <<ruleLog, req, arrived>>
           /\ AllowedCall(c)' /\ DeniedCall(c)' /\ NarrowedCall(c)'
<1>1. /\ pc'[c] = next /\ answer'[c] = NoAnswer
      /\ UNCHANGED <<ruleLog, req, arrived>>
  BY DEF Continue, TypeOK
<1>2. answer'[c].code = "none"
  BY <1>1 DEF NoAnswer
<1> QED
  BY <1>1, <1>2 DEF AllowedCall, DeniedCall, NarrowedCall

(* The rules as loaded and the set as pushed say the same. *)
LEMMA SnapshotMeaning ==
    ASSUME TypeOK, SnapshotInv
    PROVE  /\ Len(ruleLog) \in Nat /\ Len(ruleLog) >= 1
           /\ \A q : isExcluded(rules, q) <=> \E r \in ruleLog[Len(ruleLog)] : Excludes(r, q)
           /\ \A t : Passes(ruleLog[Len(ruleLog)], t) <=>
                        {x \in rules : ~Meets(x.rule, x.celPrograms, t)} = {}
           /\ \A x \in rules : x.rule \in ruleLog[Len(ruleLog)]
<1>1. Len(ruleLog) \in Nat /\ Len(ruleLog) >= 1
  <2>1. ruleLog \in Seq(RuleSets) /\ ruleLog # <<>>
    BY DEF SnapshotInv, TypeOK
  <2> QED
    BY <2>1, LenProperties
<1> DEFINE last == ruleLog[Len(ruleLog)]
<1>2. rules = {[rule |-> r, celPrograms |-> compileVerificationRuleCEL(r)] : r \in last}
  BY DEF SnapshotInv
<1> HIDE DEF last
<1>3. \A x \in rules : x.rule \in last /\ x.celPrograms = compileVerificationRuleCEL(x.rule)
  BY <1>2
<1>4. \A r \in last : \E x \in rules : x.rule = r /\ x.celPrograms = compileVerificationRuleCEL(r)
  <2> SUFFICES ASSUME NEW r \in last
               PROVE  \E x \in rules :
                        x.rule = r /\ x.celPrograms = compileVerificationRuleCEL(r)
    OBVIOUS
  <2> DEFINE y == [rule |-> r, celPrograms |-> compileVerificationRuleCEL(r)]
  <2>1. y \in rules
    BY <1>2
  <2>2. y.rule = r /\ y.celPrograms = compileVerificationRuleCEL(r)
    OBVIOUS
  <2> QED
    BY <2>1, <2>2
<1>5. \A q : isExcluded(rules, q) <=> \E r \in last : Excludes(r, q)
  BY <1>3, <1>4, Zenon DEF isExcluded
<1>6. \A t : Passes(last, t) <=> \A r \in last : Meets(r, compileVerificationRuleCEL(r), t)
  BY CompiledCEL, Zenon DEF Passes
<1>7. \A t : Passes(last, t) <=> \A x \in rules : Meets(x.rule, x.celPrograms, t)
  BY <1>3, <1>4, <1>6, Zenon
<1>8. \A t : Passes(last, t) <=> {x \in rules : ~Meets(x.rule, x.celPrograms, t)} = {}
  BY <1>7, Zenon
<1> QED
  BY <1>1, <1>3, <1>5, <1>8 DEF last

(* Every step of a call establishes what the next one needs. *)
LEMMA ProceedGood ==
    ASSUME TypeOK, SnapshotInv, NEW c \in Checks, Good(c), Proceed(c)
    PROVE  Good(c)'
<1> DEFINE n == Len(ruleLog)
<1>1. /\ n \in arrived[c] .. n
      /\ isExcluded(rules, req[c]) <=> \E r \in ruleLog[n] : Excludes(r, req[c])
      /\ Passes(ruleLog[n], req[c].token) <=>
           {x \in rules : ~Meets(x.rule, x.celPrograms, req[c].token)} = {}
      /\ \A x \in rules : x.rule \in ruleLog[n]
  <2>1. arrived[c] \in 1 .. n
    BY DEF Good, CallInv
  <2> QED
    BY <2>1, SnapshotMeaning
<1>2. arrived[c] \in 1 .. n
  BY DEF Good, CallInv
<1> HIDE DEF n
<1>3. n = Len(ruleLog)
  BY DEF n
<1>4. CASE CheckExcluded(c)
  <2>1. pc[c] = "exclude" /\ UNCHANGED goal
    BY <1>4 DEF CheckExcluded
  <2>2. CASE isExcluded(rules, req[c]) /\ Answer(c, "allowed", req[c].token)
    BY <1>1, <1>3, <2>2, AnswerGood, Zenon
  <2>3. CASE /\ ~isExcluded(rules, req[c])
             /\ Answer(c, "unauthenticated", None)
    BY <1>1, <1>3, <2>3, AnswerGood, Zenon
  <2>4. CASE /\ ~isExcluded(rules, req[c])
             /\ Continue(c, "verify")
    <3>1. pc[c] # "idle"
      BY <2>1
    <3>2. /\ pc'[c] = "verify" /\ answer'[c].code = "none"
          /\ UNCHANGED <<ruleLog, req, arrived>>
          /\ AllowedCall(c)' /\ DeniedCall(c)' /\ NarrowedCall(c)'
      BY <2>4, <3>1, ContinueGood
    <3>3. CallInv(c)'
      BY <1>1, <1>2, <1>3, <2>4, <3>2, SMTT(40) DEF CallInv, Excludes
    <3> QED
      BY <3>2, <3>3 DEF Good
  <2> QED
    BY <1>4, <2>2, <2>3, <2>4 DEF CheckExcluded
<1>5. CASE VerifyToken(c)
  <2>1. pc[c] = "verify" /\ UNCHANGED goal
    BY <1>5 DEF VerifyToken
  <2>2. \E k \in arrived[c] .. Len(ruleLog) : \A r \in ruleLog[k] : ~Excludes(r, req[c])
    BY <2>1, Zenon DEF Good, CallInv
  <2>3. CASE req[c].valid /\ Continue(c, "rules")
    <3>1. pc[c] # "idle"
      BY <2>1
    <3>2. /\ pc'[c] = "rules" /\ answer'[c].code = "none"
          /\ UNCHANGED <<ruleLog, req, arrived>>
          /\ AllowedCall(c)' /\ DeniedCall(c)' /\ NarrowedCall(c)'
      BY <2>3, <3>1, ContinueGood
    <3>3. CallInv(c)'
      BY <1>2, <1>3, <2>2, <2>3, <3>2, SMTT(40) DEF CallInv, Excludes
    <3> QED
      BY <3>2, <3>3 DEF Good
  <2>4. CASE Answer(c, "unauthenticated", None)
    BY <2>2, <2>4, AnswerGood, Zenon
  <2> QED
    BY <1>5, <2>3, <2>4 DEF VerifyToken
<1>6. CASE checkVerificationRules(c)
  <2> DEFINE failing == {x \in rules : ~Meets(x.rule, x.celPrograms, req[c].token)}
  <2>1. pc[c] = "rules" /\ UNCHANGED goal
    BY <1>6 DEF checkVerificationRules
  <2>2. /\ \E k \in arrived[c] .. Len(ruleLog) : \A r \in ruleLog[k] : ~Excludes(r, req[c])
        /\ req[c].valid
    BY <2>1, Zenon DEF Good, CallInv
  <2>3. \/ Passes(ruleLog[n], req[c].token) /\ Continue(c, "narrow")
        \/ /\ ~Passes(ruleLog[n], req[c].token)
           /\ Answer(c, "denied", None)
    BY <1>1, <1>6, Zenon DEF checkVerificationRules
  <2> HIDE DEF failing
  <2>4. CASE Passes(ruleLog[n], req[c].token) /\ Continue(c, "narrow")
    <3>1. pc[c] # "idle"
      BY <2>1
    <3>2. /\ pc'[c] = "narrow" /\ answer'[c].code = "none"
          /\ UNCHANGED <<ruleLog, req, arrived>>
          /\ AllowedCall(c)' /\ DeniedCall(c)' /\ NarrowedCall(c)'
      BY <2>4, <3>1, ContinueGood, SMTT(40)
    <3>3. CallInv(c)'
      BY <1>1, <1>2, <1>3, <2>2, <2>4, <3>2, SMTT(40) DEF CallInv, Excludes, Passes, Meets
    <3> QED
      BY <3>2, <3>3 DEF Good
  <2>5. CASE /\ ~Passes(ruleLog[n], req[c].token)
             /\ Answer(c, "denied", None)
    BY <1>1, <1>3, <2>2, <2>5, AnswerGood, Zenon
  <2> QED
    BY <2>3, <2>4, <2>5
<1>7. CASE autoNarrow(c)
  <2> DEFINE wanted == {x \in rules : HasTTSClient /\ Narrows(x.rule, req[c].token)}
  <2>1. pc[c] = "narrow"
    BY <1>7 DEF autoNarrow
  <2>2. /\ \E k \in arrived[c] .. Len(ruleLog) : \A r \in ruleLog[k] : ~Excludes(r, req[c])
        /\ req[c].valid
        /\ \E k \in arrived[c] .. Len(ruleLog) : Passes(ruleLog[k], req[c].token)
    BY <2>1, Zenon DEF Good, CallInv
  <2>3. req[c].token # None
    BY <2>1, RequestsAssumption, Zenon DEF TypeOK
  <2>4. wanted # {} => /\ First(wanted).rule \in ruleLog[n]
                       /\ First(wanted).rule.narrow
    BY <1>1, CompiledRule, FirstIn, Zenon DEF Narrows
  <2>5. \/ Answer(c, "allowed", req[c].token)
        \/ /\ wanted # {}
           /\ goal' = [goal EXCEPT ![c] = First(wanted).rule.scope]
           /\ Continue(c, "exchange")
    BY <1>7, Zenon DEF autoNarrow
  <2> HIDE DEF wanted
  <2>6. CASE Answer(c, "allowed", req[c].token)
    BY <2>2, <2>3, <2>6, AnswerGood, Zenon
  <2>7. CASE /\ wanted # {}
             /\ goal' = [goal EXCEPT ![c] = First(wanted).rule.scope]
             /\ Continue(c, "exchange")
    <3>1. pc[c] # "idle"
      BY <2>1
    <3>2. /\ pc'[c] = "exchange" /\ answer'[c].code = "none"
          /\ UNCHANGED <<ruleLog, req, arrived>>
          /\ AllowedCall(c)' /\ DeniedCall(c)' /\ NarrowedCall(c)'
      BY <2>7, <3>1, ContinueGood
    <3>3. \E r \in ruleLog[n] : r.narrow /\ r.scope = goal'[c]
      BY <2>4, <2>7, SMTT(40) DEF TypeOK
    <3>4. CallInv(c)'
      BY <1>1, <1>2, <1>3, <2>2, <3>2, <3>3, SMTT(40) DEF CallInv, Excludes, Passes, Meets, Evaluate
    <3> QED
      BY <3>2, <3>4 DEF Good
  <2> QED
    BY <2>5, <2>6, <2>7
<1>8. CASE Exchange(c)
  <2> DEFINE narrowed == [req[c].token EXCEPT !.scope = goal[c]]
  <2>1. pc[c] = "exchange"
    BY <1>8 DEF Exchange
  <2>2. /\ req[c].valid
        /\ \E k \in arrived[c] .. Len(ruleLog) : Passes(ruleLog[k], req[c].token)
        /\ \E k \in arrived[c] .. Len(ruleLog) : \E r \in ruleLog[k] :
              r.narrow /\ r.scope = goal[c]
    BY <2>1, Zenon DEF Good, CallInv
  <2>3. req[c].token \in Claims /\ goal[c] \in Seq(Words)
    BY <2>1 DEF TypeOK
  <2>4. req[c].token # None
    BY <2>3, RequestsAssumption, Zenon
  <2>5. /\ narrowed.sub = req[c].token.sub
        /\ narrowed.tctx = req[c].token.tctx
        /\ narrowed.scope = goal[c]
    BY <2>3, NarrowedToken
  <2>6. \/ /\ WordsOf(goal[c]) \subseteq WordsOf(req[c].token.scope)
           /\ Answer(c, "allowed", narrowed)
        \/ Answer(c, "allowed", req[c].token)
    BY <1>8 DEF Exchange
  <2> HIDE DEF narrowed
  <2> QED
    BY <2>2, <2>4, <2>5, <2>6, AnswerGood, Zenon
<1> QED
  BY <1>4, <1>5, <1>6, <1>7, <1>8 DEF Proceed

(* All that is claimed of every call, inductively. *)
IInv == TypeOK /\ SnapshotInv /\ \A c \in Checks : Good(c)

LEMMA Inductive == Spec => []IInv
<1>1. Init => IInv
  <2> SUFFICES ASSUME Init PROVE IInv
    OBVIOUS
  <2>1. TypeOK
    BY RuleSetsAssumption DEF Init, TypeOK, NoAnswer, Codes
  <2>2. SnapshotInv
    BY DEF Init, SnapshotInv
  <2>3. ASSUME NEW c \in Checks PROVE Good(c)
    <3>1. pc[c] = "idle" /\ answer[c].code = "none" /\ arrived[c] = 1 /\ Len(ruleLog) = 1
      BY DEF Init, NoAnswer
    <3> QED
      BY <3>1 DEF Good, CallInv, AllowedCall, DeniedCall, NarrowedCall
  <2> QED
    BY <2>1, <2>2, <2>3 DEF IInv
<1>2. IInv /\ [Next]_vars => IInv'
  <2> SUFFICES ASSUME IInv, [Next]_vars PROVE IInv'
    OBVIOUS
  <2> USE DEF IInv
  <2>1. CASE UNCHANGED vars
    <3>1. TypeOK'
      BY <2>1 DEF vars, callVars, TypeOK
    <3>2. SnapshotInv'
      BY <2>1 DEF vars, SnapshotInv
    <3> SUFFICES ASSUME NEW d \in Checks PROVE Good(d)'
      BY <3>1, <3>2
    <3>3. Good(d)
      BY SMTT(40)
    <3>4. CallInv(d)'
      BY <2>1, <3>3, ZenonT(40) DEF vars, callVars, Good, CallInv
    <3>5. AllowedCall(d)'
      BY <2>1, <3>3, ZenonT(40) DEF vars, callVars, Good, AllowedCall
    <3>6. DeniedCall(d)'
      BY <2>1, <3>3, ZenonT(40) DEF vars, callVars, Good, DeniedCall
    <3>7. NarrowedCall(d)'
      BY <2>1, <3>3, SMTT(40) DEF vars, callVars, Good, NarrowedCall
    <3> QED
      BY <3>4, <3>5, <3>6, <3>7 DEF Good
  <2>2. CASE Next
    <3>1. TypeOK' /\ SnapshotInv'
      BY <2>2, TypeStep, SnapshotStep
    <3> SUFFICES ASSUME NEW d \in Checks PROVE Good(d)'
      BY <3>1
    <3>2. CASE UNCHANGED callVars
      BY <2>2, <3>2, FrameCall DEF callVars
    <3>3. ASSUME NEW c \in Checks, Proceed(c) PROVE Good(d)'
      <4>1. CASE c = d
        BY <3>3, <4>1, ProceedGood
      <4>2. CASE c # d
        <5>1. /\ pc'[d] = pc[d] /\ req'[d] = req[d] /\ goal'[d] = goal[d]
              /\ answer'[d] = answer[d] /\ arrived'[d] = arrived[d]
          BY <3>3, <4>2, SMTT(40)
             DEF Proceed, CheckExcluded, VerifyToken, checkVerificationRules, autoNarrow, Exchange,
                 Answer, Continue, TypeOK
        <5> QED
          BY <2>2, <5>1, FrameCall, SMTT(40)
      <4> QED
        BY <4>1, <4>2
    <3>4. ASSUME NEW c \in Checks, NEW q \in Requests, Receive(c, q) PROVE Good(d)'
      <4>1. CASE c = d
        <5>1. /\ pc'[d] = "exclude" /\ answer'[d] = NoAnswer
              /\ arrived'[d] = Len(ruleLog) /\ ruleLog' = ruleLog
          BY <3>4, <4>1, SMTT(40) DEF Receive, TypeOK
        <5>2. answer'[d].code = "none" /\ Len(ruleLog) \in Nat /\ Len(ruleLog) >= 1
          BY <5>1, SnapshotMeaning DEF NoAnswer
        <5> QED
          BY <5>1, <5>2 DEF Good, CallInv, AllowedCall, DeniedCall, NarrowedCall
      <4>2. CASE c # d
        <5>1. /\ pc'[d] = pc[d] /\ req'[d] = req[d] /\ goal'[d] = goal[d]
              /\ answer'[d] = answer[d] /\ arrived'[d] = arrived[d]
          BY <3>4, <4>2, SMTT(40) DEF Receive, TypeOK
        <5> QED
          BY <2>2, <5>1, FrameCall
      <4> QED
        BY <4>1, <4>2, SMTT(40)
    <3>5. ASSUME NEW c \in Checks, ReceiveMalformed(c) PROVE Good(d)'
      <4>1. CASE c = d
        <5>1. /\ pc'[d] = "idle" /\ answer'[d].code = "invalid"
              /\ arrived'[d] = arrived[d] /\ ruleLog' = ruleLog
          BY <3>5, <4>1 DEF ReceiveMalformed, TypeOK, NoAnswer
        <5> QED
          BY <5>1 DEF Good, CallInv, AllowedCall, DeniedCall, NarrowedCall
      <4>2. CASE c # d
        <5>1. /\ pc'[d] = pc[d] /\ req'[d] = req[d] /\ goal'[d] = goal[d]
              /\ answer'[d] = answer[d] /\ arrived'[d] = arrived[d]
          BY <3>5, <4>2 DEF ReceiveMalformed, TypeOK
        <5> QED
          BY <2>2, <5>1, FrameCall
      <4> QED
        BY <4>1, <4>2
    <3> QED
      BY <2>2, <3>2, <3>3, <3>4, <3>5 DEF Next, SetVerificationRules, TTSFlips
  <2> QED
    BY <2>1, <2>2
<1> QED
  BY <1>1, <1>2, PTL DEF Spec

(* A request is allowed only for a reason that one pushed rule set gives,   *)
(* in whatever order Check and SetVerificationRules interleave.             *)
THEOREM AllowedSafe == Spec => []AllowedUnderOneSnapshot
<1>1. IInv => AllowedUnderOneSnapshot
  BY Zenon DEF IInv, Good, AllowedCall, AllowedUnderOneSnapshot
<1> QED
  BY <1>1, Inductive, PTL

(* A request is denied only for a reason that one pushed rule set gives.    *)
THEOREM DeniedSafe == Spec => []DeniedUnderOneSnapshot
<1>1. IInv => DeniedUnderOneSnapshot
  BY Zenon DEF IInv, Good, DeniedCall, DeniedUnderOneSnapshot
<1> QED
  BY <1>1, Inductive, PTL

(* The token a service sees is the caller's, or the caller's with the       *)
(* smaller scope a pushed rule asks for.                                    *)
THEOREM NarrowedSafe == Spec => []NarrowedAsDemanded
<1>1. IInv => NarrowedAsDemanded
  BY Zenon DEF IInv, Good, NarrowedCall, NarrowedAsDemanded
<1> QED
  BY <1>1, Inductive, PTL

-----------------------------------------------------------------------------
(* Progress of a check, the part of EveryCheckAnswered that needs no       *)
(* fairness.                                                               *)

(* Steps a check still has before it, at most. *)
ToGo(step) ==
    CASE step = "exclude" -> 5
      [] step = "verify" -> 4
      [] step = "rules" -> 3
      [] step = "narrow" -> 2
      [] step = "exchange" -> 1
      [] step = "idle" -> 0

(* The steps a check can take next are all closer to its answer. *)
LEMMA ToGoFalls ==
    /\ ToGo("verify") < ToGo("exclude") /\ ToGo("rules") < ToGo("verify")
    /\ ToGo("narrow") < ToGo("rules") /\ ToGo("exchange") < ToGo("narrow")
    /\ \A s \in {"exclude", "verify", "rules", "narrow", "exchange"} : ToGo("idle") < ToGo(s)
  BY DEF ToGo

(* A step of a check leads to its next stage or to its answer. *)
LEMMA ProceedMoves ==
    ASSUME NEW c \in Checks, Proceed(c)
    PROVE  \E next : /\ pc' = [pc EXCEPT ![c] = next]
                     /\ \/ next = "idle" /\ pc[c] \in {"exclude", "verify", "rules", "narrow", "exchange"}
                        \/ <<pc[c], next>> \in {<<"exclude", "verify">>, <<"verify", "rules">>,
                                                <<"rules", "narrow">>, <<"narrow", "exchange">>}
<1>1. CASE CheckExcluded(c)
  BY <1>1, Zenon DEF CheckExcluded, Answer, Continue
<1>2. CASE VerifyToken(c)
  BY <1>2, Zenon DEF VerifyToken, Answer, Continue
<1>3. CASE checkVerificationRules(c)
  BY <1>3, Zenon DEF checkVerificationRules, Answer, Continue
<1>4. CASE autoNarrow(c)
  BY <1>4, Zenon DEF autoNarrow, Answer, Continue
<1>5. CASE Exchange(c)
  BY <1>5, Zenon DEF Exchange, Answer
<1> QED
  BY <1>1, <1>2, <1>3, <1>4, <1>5, Zenon DEF Proceed

(* A check is answered after at most five steps of its own, however often   *)
(* the rules change under it and whatever the TTS does: every step leads    *)
(* forward, and nothing else moves a check that has begun (Check).          *)
THEOREM ChecksLeadForward ==
    Spec => [][\A c \in Checks :
                  /\ Proceed(c) => /\ ToGo(pc'[c]) < ToGo(pc[c])
                                   /\ \A d \in Checks \ {c} : pc'[d] = pc[d]
                  /\ pc'[c] # pc[c] /\ pc[c] # "idle" => Proceed(c)]_vars
<1> DEFINE Forward(c) ==
             /\ Proceed(c) => /\ ToGo(pc'[c]) < ToGo(pc[c])
                              /\ \A d \in Checks \ {c} : pc'[d] = pc[d]
             /\ pc'[c] # pc[c] /\ pc[c] # "idle" => Proceed(c)
<1>1. TypeOK /\ [Next]_vars => [\A c \in Checks : Forward(c)]_vars
  <2> SUFFICES ASSUME TypeOK, Next, NEW c \in Checks PROVE Forward(c)
    BY Zenon
  <2>0. DOMAIN pc = Checks
    BY Zenon DEF TypeOK
  <2>1. ASSUME NEW d \in Checks, Proceed(d)
        PROVE  ToGo(pc'[d]) < ToGo(pc[d]) /\ \A e \in Checks \ {d} : pc'[e] = pc[e]
    <3>1. PICK next : /\ pc' = [pc EXCEPT ![d] = next]
                      /\ \/ next = "idle" /\ pc[d] \in {"exclude", "verify", "rules", "narrow", "exchange"}
                         \/ <<pc[d], next>> \in {<<"exclude", "verify">>, <<"verify", "rules">>,
                                                 <<"rules", "narrow">>, <<"narrow", "exchange">>}
      BY <2>1, ProceedMoves, Zenon
    <3>2. pc'[d] = next /\ \A e \in Checks \ {d} : pc'[e] = pc[e]
      BY <2>0, <3>1, Zenon DEF TypeOK
    <3> QED
      BY <3>1, <3>2, ToGoFalls, Zenon
  <2>2. ASSUME NEW d \in Checks, NEW q, Receive(d, q), pc'[c] # pc[c] PROVE pc[c] = "idle"
    BY <2>2, Zenon DEF Receive, TypeOK
  <2>3. ASSUME NEW d \in Checks, ReceiveMalformed(d) PROVE pc' = pc
    BY <2>3, Zenon DEF ReceiveMalformed
  <2>4. ASSUME NEW rs, SetVerificationRules(rs) \/ TTSFlips PROVE pc' = pc
    BY <2>4, Zenon DEF SetVerificationRules, TTSFlips, callVars
  <2>5. ASSUME pc'[c] # pc[c], pc[c] # "idle" PROVE Proceed(c)
    <3>1. PICK d \in Checks : Proceed(d)
      BY <2>2, <2>3, <2>4, <2>5, Zenon DEF Next
    <3> QED
      BY <2>1, <2>5, <3>1, Zenon
  <2> QED
    BY <2>1, <2>5, Zenon
<1> QED
  BY <1>1, TypeCorrect, PTL DEF Spec

=============================================================================
