------------------------- MODULE TokenExchange_proofs -------------------------
(***************************************************************************)
(* Proofs about TokenExchange, for any number of concurrent requests, any  *)
(* scopes, subjects and contexts and any sequence of issuance rule sets:   *)
(* the service implements TxnChain, and what TxnChain promises follows.    *)
(*                                                                         *)
(* HeldInv says what a request has established by the step it has reached; *)
(* only Sign adds a token, and HeldInv tells it which kind of step of      *)
(* TxnChain that is.                                                       *)
(***************************************************************************)
EXTENDS TokenExchange, TLAPS

LEMMA LenFacts == \A S : \A s \in Seq(S) : Len(s) \in Nat /\ \A i \in 1 .. Len(s) : s[i] \in S
BY SMTT(40)

LEMMA AppendFacts ==
    ASSUME NEW S, NEW s \in Seq(S), NEW e \in S, NEW t, t = Append(s, e)
    PROVE  /\ Len(t) = Len(s) + 1 /\ t \in Seq(S) /\ t[Len(s) + 1] = e
           /\ \A i \in 1 .. Len(s) : t[i] = s[i]
BY SMTT(40)

LEMMA Between ==
    ASSUME NEW n \in Nat, NEW a \in 1 .. n, NEW b \in 1 .. n, NEW k \in a .. b
    PROVE  k \in 1 .. n
BY SMTT(40)

LEMMA LastOrBefore ==
    ASSUME NEW n \in Nat
    PROVE  /\ \A k \in 1 .. n + 1 : k \in 1 .. n \/ k = n + 1
           /\ n + 1 \in 1 .. n + 1 /\ \A k \in 1 .. n : k \in 1 .. n + 1
BY SMTT(40)

LEMMA NoIndex == \A k : k \notin 1 .. Len(<<>>)
BY SMTT(40)

LEMMA OneElement == \A x : <<x>> # <<>> /\ <<x>>[Len(<<x>>)] = x
BY SMTT(40)

LEMMA PairFacts == \A a, b : <<a, b>>[1] = a /\ <<a, b>>[2] = b
BY SMTT(40)

(* Receive is the only step that admits a request; these are its two forms. *)
Arrive(r) ==
    \/ \E q \in Issuance : Receive(r, q)
    \/ \E t \in tokens, s \in Scopes, w \in Workloads :
          Receive(r, [kind |-> "replace", old |-> t, scope |-> s, wl |-> w])

LEMMA TypeInit == Init => TypeOK
  BY ScopesAssumption, RulesAssumption, BoundsAssumption, SMTT(40) DEF Init, TypeOK

LEMMA TypeArrive ==
    ASSUME TypeOK, NEW r \in Requests, Arrive(r)
    PROVE  TypeOK'
<1>1. PICK q \in Issuance \cup Replacement : Receive(r, q)
  <2>1. \A t \in tokens, s \in Scopes, w \in Workloads :
           [kind |-> "replace", old |-> t, scope |-> s, wl |-> w] \in Replacement
    BY DEF Replacement, TypeOK
  <2> QED
    BY <2>1, Zenon DEF Arrive
<1>2. q \in Issuance => q.kind = "issue"
  BY DEF Issuance
<1>3. q \in Replacement => q.kind = "replace"
  BY DEF Replacement
<1>4. Len(ruleLog) \in Nat
  BY DEF TypeOK
<1> QED
  BY <1>1, <1>2, <1>3, <1>4, SMTT(40) DEF Receive, TypeOK

LEMMA TypeRefuse ==
    ASSUME TypeOK, NEW r \in Requests, Refuse(r)
    PROVE  TypeOK'
  BY ScopesAssumption, RulesAssumption, BoundsAssumption, SMTT(40) DEF Refuse, TypeOK

LEMMA TypeSet ==
    ASSUME TypeOK, NEW rs \in RuleSets, SetIssuanceRules(rs)
    PROVE  TypeOK'
<1>1. ruleLog' \in Seq(RuleSets)
  BY DEF SetIssuanceRules, TypeOK
<1> QED
  BY <1>1, SMTT(40) DEF SetIssuanceRules, TypeOK, requestVars

(* A request that has its claims and is about to sign them. *)
LEMMA TypeClaim ==
    ASSUME TypeOK, NEW r \in Requests, NEW t \in Token,
           claims' = [claims EXCEPT ![r] = t],
           pc' = [pc EXCEPT ![r] = "sign"],
           UNCHANGED <<rules, tokens, start, ruleLog, window, req, held, arrived>>
    PROVE  TypeOK'
<1> USE DEF TypeOK
<1>1. claims' \in [Requests -> Token \cup {None}]
  OBVIOUS
<1>2. pc' \in [Requests -> {"idle", "authenticate", "load", "evaluate", "verify", "sign"}]
  OBVIOUS
<1>3. \A q \in Requests :
         /\ pc'[q] \in {"authenticate", "load", "evaluate"} => req'[q] \in Issuance
         /\ pc'[q] = "verify" => req'[q] \in Replacement
         /\ pc'[q] = "sign" => claims'[q] \in Token
  <2> SUFFICES ASSUME NEW q \in Requests
               PROVE  /\ pc'[q] \in {"authenticate", "load", "evaluate"} => req'[q] \in Issuance
                      /\ pc'[q] = "verify" => req'[q] \in Replacement
                      /\ pc'[q] = "sign" => claims'[q] \in Token
    OBVIOUS
  <2>1. CASE q = r
    BY <2>1
  <2>2. CASE q # r
    BY <2>2
  <2> QED
    BY <2>1, <2>2
<1> QED
  BY <1>1, <1>2, <1>3

LEMMA TypeServe ==
    ASSUME TypeOK, NEW r \in Requests,
           \/ Authenticate(r) \/ LoadIssuanceRules(r) \/ Evaluate(r) \/ VerifyExisting(r)
           \/ SignFails(r)
    PROVE  TypeOK'
<1>1. CASE Authenticate(r)
  <2>1. CASE Refuse(r)
    BY <2>1, TypeRefuse
  <2>2. CASE ~Refuse(r)
    <3>1. /\ pc[r] = "authenticate" /\ pc' = [pc EXCEPT ![r] = "load"]
          /\ UNCHANGED <<rules, tokens, start, ruleLog, window, req, held, claims, arrived>>
      BY <1>1, <2>2 DEF Authenticate
    <3> QED
      BY <3>1, SMTT(40) DEF TypeOK
  <2> QED
    BY <2>1, <2>2
<1>2. CASE LoadIssuanceRules(r)
  BY <1>2, SMTT(40) DEF LoadIssuanceRules, TypeOK
<1>3. CASE Evaluate(r)
  <2> DEFINE t == [txn |-> 0, sub |-> req[r].sub, ctx |-> req[r].ctx,
                   scope |-> req[r].scope, wl |-> req[r].wl]
  <2>1. req[r] \in Issuance
    BY <1>3 DEF Evaluate, TypeOK
  <2>2. t \in Token
    BY <2>1, ScopesAssumption, RulesAssumption, BoundsAssumption DEF Issuance, Token
  <2>3. \/ Refuse(r)
        \/ /\ claims' = [claims EXCEPT ![r] = t]
           /\ pc' = [pc EXCEPT ![r] = "sign"]
           /\ UNCHANGED <<rules, tokens, start, ruleLog, window, req, held, arrived>>
    BY <1>3 DEF Evaluate
  <2> HIDE DEF t
  <2> QED
    BY <2>2, <2>3, TypeRefuse, TypeClaim
<1>4. CASE VerifyExisting(r)
  <2> DEFINE t == [req[r].old EXCEPT !.scope = req[r].scope, !.wl = req[r].wl]
  <2>1. req[r] \in Replacement
    BY <1>4 DEF VerifyExisting, TypeOK
  <2>2. t \in Token
    BY <2>1, ScopesAssumption, RulesAssumption, BoundsAssumption, Zenon DEF Replacement, Token
  <2>3. \/ Refuse(r)
        \/ /\ claims' = [claims EXCEPT ![r] = t]
           /\ pc' = [pc EXCEPT ![r] = "sign"]
           /\ UNCHANGED <<rules, tokens, start, ruleLog, window, req, held, arrived>>
    BY <1>4 DEF VerifyExisting
  <2> HIDE DEF t
  <2> QED
    BY <2>2, <2>3, TypeRefuse, TypeClaim
<1>5. CASE SignFails(r)
  BY <1>5, TypeRefuse DEF SignFails
<1> QED
  BY <1>1, <1>2, <1>3, <1>4, <1>5

LEMMA TypeSign ==
    ASSUME TypeOK, NEW r \in Requests, Sign(r)
    PROVE  TypeOK'
<1> DEFINE t == [claims[r] EXCEPT !.txn = Len(start) + 1]
<1>1. claims[r] \in Token
  BY DEF Sign, TypeOK
<1>2. Len(start) \in Nat /\ Len(ruleLog) \in Nat /\ arrived[r] \in Nat
  BY DEF TypeOK
<1>3. t \in Token
  BY <1>1, <1>2, SMTT(40) DEF Token
<1>4. tokens' \subseteq Token
  BY <1>1, <1>3, Zenon DEF Sign, TypeOK
<1>5. start' \in Seq(Token) /\ window' \in Seq(Nat \X Nat) /\ Len(window') = Len(start')
  <2>1. CASE claims[r].txn = 0
    <3>1. start' = Append(start, t) /\ window' = Append(window, <<arrived[r], Len(ruleLog)>>)
      BY <2>1 DEF Sign
    <3> HIDE DEF t
    <3> QED
      BY <1>2, <1>3, <3>1, SMTT(40) DEF TypeOK
  <2>2. CASE claims[r].txn # 0
    BY <2>2 DEF Sign, TypeOK
  <2> QED
    BY <2>1, <2>2
<1> QED
  BY <1>4, <1>5, ScopesAssumption, RulesAssumption, BoundsAssumption, SMTT(40) DEF Sign, TypeOK

LEMMA TypeStep == TypeOK /\ [Next]_vars => TypeOK'
<1> SUFFICES ASSUME TypeOK, [Next]_vars PROVE TypeOK'
  OBVIOUS
<1>1. CASE UNCHANGED vars
  BY <1>1, SMTT(40) DEF vars, requestVars, TypeOK
<1>2. ASSUME NEW r \in Requests, Serve(r) PROVE TypeOK'
  BY <1>2, TypeArrive, TypeServe, TypeSign, Zenon DEF Serve, Arrive
<1> QED
  BY <1>1, <1>2, TypeSet DEF Next

(* Every reachable state is well-typed, and what a request holds fits the     *)
(* step it has reached.                                                       *)
THEOREM TypeCorrect == Spec => []TypeOK
  BY TypeInit, TypeStep, PTL DEF Spec

-----------------------------------------------------------------------------
(* What a request holds.                                                    *)

HeldBy(r) ==
    /\ pc[r] = "verify" => req[r].old \in tokens
    /\ pc[r] = "sign" /\ claims[r].txn # 0 =>
          \E p \in tokens :
             /\ claims[r].txn = p.txn
             /\ claims[r].sub = p.sub
             /\ claims[r].ctx = p.ctx
             /\ WordsOf(claims[r].scope) \subseteq WordsOf(p.scope)
    /\ pc[r] # "idle" => arrived[r] \in 1 .. Len(ruleLog)
    /\ pc[r] = "evaluate" =>
          \E k \in arrived[r] .. Len(ruleLog) : held[r] = ruleLog[k]
    /\ pc[r] = "sign" /\ claims[r].txn = 0 =>
          \E k \in arrived[r] .. Len(ruleLog) :
             PassesClusterWide(ruleLog[k], claims[r].sub)

(* The log only grows, and its entries stay. *)
Grows(old, new) ==
    /\ Len(old) <= Len(new)
    /\ \A k \in 1 .. Len(old) : new[k] = old[k]

LEMMA LogGrows ==
    ASSUME TypeOK, [Next]_vars
    PROVE  Grows(ruleLog, ruleLog') /\ tokens \subseteq tokens'
<1>1. ASSUME NEW rs \in RuleSets, SetIssuanceRules(rs)
      PROVE  Grows(ruleLog, ruleLog') /\ tokens \subseteq tokens'
  BY <1>1, SMTT(40) DEF SetIssuanceRules, Grows, TypeOK
<1>2. ruleLog' = ruleLog => Grows(ruleLog, ruleLog')
  BY SMTT(40) DEF Grows, TypeOK
<1>3. ASSUME NEW r \in Requests, Serve(r)
      PROVE  ruleLog' = ruleLog /\ tokens \subseteq tokens'
  BY <1>3 DEF Serve, Receive, Authenticate, LoadIssuanceRules, Evaluate, VerifyExisting, Sign, SignFails, Refuse
<1>4. CASE UNCHANGED vars
  BY <1>2, <1>4 DEF vars
<1> QED
  BY <1>1, <1>2, <1>3, <1>4 DEF Next

(* A request that takes no step keeps what it holds. *)
LEMMA HeldFrame ==
    ASSUME TypeOK, [Next]_vars, NEW r \in Requests, HeldBy(r),
           pc'[r] = pc[r], req'[r] = req[r], held'[r] = held[r],
           claims'[r] = claims[r], arrived'[r] = arrived[r]
    PROVE  HeldBy(r)'
<1>1. Grows(ruleLog, ruleLog') /\ tokens \subseteq tokens'
  BY LogGrows
<1>2. Len(ruleLog) \in Nat /\ Len(ruleLog') \in Nat /\ arrived[r] \in Nat
  BY TypeStep DEF TypeOK
<1>3. pc[r] # "idle" => arrived[r] \in 1 .. Len(ruleLog)
  BY DEF HeldBy
<1>4. pc[r] # "idle" => arrived'[r] \in 1 .. Len(ruleLog')
  BY <1>1, <1>2, <1>3, SMTT(40) DEF Grows
<1>5. pc[r] # "idle" => \A k \in arrived[r] .. Len(ruleLog) :
         k \in arrived[r] .. Len(ruleLog') /\ ruleLog'[k] = ruleLog[k]
  BY <1>1, <1>2, <1>3, SMTT(40) DEF Grows
<1>6. pc[r] = "evaluate" =>
         \E k \in arrived[r] .. Len(ruleLog') : held[r] = ruleLog'[k]
  BY <1>5, Zenon DEF HeldBy
<1>7. pc[r] = "sign" /\ claims[r].txn = 0 =>
         \E k \in arrived[r] .. Len(ruleLog') :
            PassesClusterWide(ruleLog'[k], claims[r].sub)
  BY <1>5, Zenon DEF HeldBy
<1>8. pc[r] = "sign" /\ claims[r].txn # 0 =>
         \E p \in tokens' :
            /\ claims[r].txn = p.txn
            /\ claims[r].sub = p.sub
            /\ claims[r].ctx = p.ctx
            /\ WordsOf(claims[r].scope) \subseteq WordsOf(p.scope)
  BY <1>1, Zenon DEF HeldBy
<1>9. pc[r] = "verify" => req[r].old \in tokens'
  BY <1>1 DEF HeldBy
<1> QED
  BY <1>4, <1>6, <1>7, <1>8, <1>9, ZenonT(90) DEF HeldBy, PassesClusterWide, WordsOf

LEMMA HeldServe ==
    ASSUME TypeOK, LogInv, WithinOrigin, NEW r \in Requests, HeldBy(r), Serve(r)
    PROVE  HeldBy(r)'
<1>l. Len(ruleLog) \in Nat /\ Len(ruleLog) # 0
  BY DEF TypeOK, LogInv
<1>1. CASE Arrive(r)
  <2>1. PICK q : Receive(r, q) /\ (q.kind # "issue" => q.old \in tokens)
    <3>1. CASE \E q \in Issuance : Receive(r, q)
      BY <3>1 DEF Issuance
    <3>2. ASSUME NEW t \in tokens, NEW s \in Scopes, NEW w \in Workloads,
                 Receive(r, [kind |-> "replace", old |-> t, scope |-> s, wl |-> w])
          PROVE  \E q : Receive(r, q) /\ (q.kind # "issue" => q.old \in tokens)
      <4> DEFINE q == [kind |-> "replace", old |-> t, scope |-> s, wl |-> w]
      <4>1. q.old = t
        OBVIOUS
      <4> HIDE DEF q
      <4>2. Receive(r, q)
        BY <3>2 DEF q
      <4> QED
        BY <4>1, <4>2
    <3> QED
      BY <1>1, <3>1, <3>2, Zenon DEF Arrive
  <2>t. /\ DOMAIN pc = Requests
        /\ DOMAIN req = Requests /\ DOMAIN arrived = Requests
    BY DEF TypeOK
  <2>p. pc'[r] = IF q.kind = "issue" THEN "authenticate" ELSE "verify"
    BY <2>1, <2>t DEF Receive
  <2>2. /\ pc'[r] \in {"authenticate", "verify"} /\ req'[r] = q
        /\ pc'[r] = "verify" => q.kind # "issue"
        /\ arrived'[r] = Len(ruleLog) /\ ruleLog' = ruleLog /\ tokens' = tokens
    BY <2>1, <2>t, <2>p DEF Receive
  <2> QED
    BY <1>l, <2>1, <2>2, SMTT(40) DEF HeldBy
<1>r. CASE Refuse(r)
  BY <1>r DEF Refuse, HeldBy, TypeOK
<1>2. CASE Authenticate(r)
  BY <1>r, <1>2 DEF Authenticate, HeldBy, TypeOK
<1>3. CASE LoadIssuanceRules(r)
  <2>1. /\ pc'[r] = "evaluate" /\ held'[r] = rules /\ arrived' = arrived
        /\ ruleLog' = ruleLog /\ tokens' = tokens
    BY <1>3 DEF LoadIssuanceRules, TypeOK
  <2>2. arrived[r] \in 1 .. Len(ruleLog)
    BY <1>3 DEF LoadIssuanceRules, HeldBy
  <2>3. \E k \in arrived[r] .. Len(ruleLog) : rules = ruleLog[k]
    BY <1>l, <2>2, SMTT(40) DEF LogInv
  <2> QED
    BY <2>1, <2>2, <2>3 DEF HeldBy
<1>4. CASE Evaluate(r)
  <2>1. ASSUME EvaluateIssuanceRules(held[r], None, req[r].sub) PROVE HeldBy(r)'
    <3>1. /\ pc'[r] = "sign" /\ claims'[r].txn = 0 /\ claims'[r].sub = req[r].sub
          /\ arrived' = arrived /\ ruleLog' = ruleLog
      BY <1>4, <2>1 DEF Evaluate, TypeOK
    <3>2. PassesClusterWide(held[r], req[r].sub)
      BY <2>1, SMTT(40) DEF EvaluateIssuanceRules, ruleAppliesToNamespace, PassesClusterWide
    <3>3. arrived[r] \in 1 .. Len(ruleLog)
      BY <1>4, SMTT(40) DEF Evaluate, HeldBy
    <3>4. \E k \in arrived[r] .. Len(ruleLog) : held[r] = ruleLog[k]
      BY <1>4 DEF Evaluate, HeldBy
    <3> QED
      BY <3>1, <3>2, <3>3, <3>4 DEF HeldBy
  <2> QED
    BY <1>4, <1>r, <2>1 DEF Evaluate
<1>5. CASE VerifyExisting(r)
  <2>1. ASSUME ~Refuse(r) PROVE HeldBy(r)'
    <3> DEFINE t == [req[r].old EXCEPT !.scope = req[r].scope, !.wl = req[r].wl]
    <3>1. /\ isScopeSubset(req[r].scope, req[r].old.scope)
          /\ pc'[r] = "sign" /\ claims'[r] = t
          /\ arrived' = arrived /\ ruleLog' = ruleLog /\ tokens' = tokens
      BY <1>5, <2>1 DEF VerifyExisting, TypeOK
    <3>2. req[r] \in Replacement /\ req[r].old \in tokens
      BY <1>5 DEF VerifyExisting, TypeOK, HeldBy
    <3>3. req[r].old \in Token
      BY <3>2 DEF Replacement
    <3>4. /\ t.txn = req[r].old.txn /\ t.sub = req[r].old.sub
          /\ t.ctx = req[r].old.ctx /\ t.scope = req[r].scope
      BY <3>3 DEF Token
    <3>5. req[r].old.txn # 0
      BY <3>2, SMTT(40) DEF WithinOrigin, Chain!WithinOrigin, TypeOK
    <3>6. arrived[r] \in 1 .. Len(ruleLog)
      BY <1>5 DEF VerifyExisting, HeldBy
    <3> HIDE DEF t
    <3> QED
      BY <3>1, <3>2, <3>4, <3>5, <3>6, ZenonT(40) DEF HeldBy, isScopeSubset, WordsOf
  <2> QED
    BY <1>r, <2>1, SMTT(40)
<1>6. CASE Sign(r)
  BY <1>6 DEF Sign, HeldBy, TypeOK
<1> QED
  BY <1>1, <1>2, <1>3, <1>4, <1>5, <1>6, <1>r, Zenon DEF Serve, Arrive, SignFails

LEMMA HeldStep ==
    TypeOK /\ LogInv /\ WithinOrigin /\ HeldInv /\ [Next]_vars => HeldInv'
<1> SUFFICES ASSUME TypeOK, LogInv, WithinOrigin, HeldInv, [Next]_vars,
                    NEW r \in Requests
             PROVE  HeldBy(r)'
  BY Zenon DEF HeldInv, HeldBy
<1>1. HeldBy(r)
  BY DEF HeldInv, HeldBy
<1>2. ASSUME NEW q \in Requests, Serve(q), q # r PROVE HeldBy(r)'
  <2>1. /\ pc'[r] = pc[r] /\ req'[r] = req[r] /\ held'[r] = held[r]
        /\ claims'[r] = claims[r] /\ arrived'[r] = arrived[r]
    BY <1>2 DEF Serve, Receive, Authenticate, LoadIssuanceRules, Evaluate,
                VerifyExisting, Sign, SignFails, Refuse, TypeOK
  <2> QED
    BY <1>1, <2>1, HeldFrame
<1>3. ASSUME NEW rs \in RuleSets, SetIssuanceRules(rs) PROVE HeldBy(r)'
  BY <1>1, <1>3, HeldFrame, SMTT(40) DEF SetIssuanceRules, requestVars
<1>4. CASE UNCHANGED vars
  BY <1>1, <1>4, HeldFrame DEF vars, requestVars
<1>5. CASE Serve(r)
  BY <1>1, <1>5, HeldServe
<1> QED
  BY <1>2, <1>3, <1>4, <1>5 DEF Next

LEMMA LogStep == TypeOK /\ LogInv /\ HeldInv /\ [Next]_vars => LogInv'
<1> SUFFICES ASSUME TypeOK, LogInv, HeldInv, [Next]_vars PROVE LogInv'
  OBVIOUS
<1>1. ASSUME NEW rs \in RuleSets, SetIssuanceRules(rs) PROVE LogInv'
  <2>1. rules' = rs /\ ruleLog' = Append(ruleLog, rs) /\ window' = window
    BY <1>1, SMTT(40) DEF SetIssuanceRules
  <2>2. ruleLog \in Seq(RuleSets)
    BY DEF TypeOK
  <2>3. /\ ruleLog' # <<>> /\ Len(ruleLog') = Len(ruleLog) + 1
        /\ ruleLog'[Len(ruleLog')] = rs
    BY <2>1, <2>2, AppendFacts
  <2>4. Len(ruleLog) \in Nat
    BY <2>2, LenFacts
  <2>5. 1 .. Len(ruleLog) \subseteq 1 .. Len(ruleLog')
    BY <2>3, <2>4, SMTT(40)
  <2> QED
    BY <2>1, <2>3, <2>5, Zenon DEF LogInv
<1>2. ASSUME UNCHANGED <<rules, ruleLog, window>> PROVE LogInv'
  BY <1>2 DEF LogInv
<1>3. ASSUME NEW r \in Requests, Sign(r) PROVE LogInv'
  <2>1. CASE claims[r].txn = 0
    <3>1. window' = Append(window, <<arrived[r], Len(ruleLog)>>) /\ UNCHANGED <<rules, ruleLog>>
      BY <1>3, <2>1 DEF Sign
    <3>2. arrived[r] \in 1 .. Len(ruleLog) /\ Len(ruleLog) \in 1 .. Len(ruleLog)
      BY <1>3, SMTT(40) DEF Sign, HeldInv, LogInv, TypeOK
    <3>3. \A x \in 1 .. Len(window') : x \in 1 .. Len(window) \/ x = Len(window) + 1
      BY <3>1, SMTT(40) DEF TypeOK
    <3>4. \A x \in 1 .. Len(window') :
             window'[x][1] \in 1 .. Len(ruleLog) /\ window'[x][2] \in 1 .. Len(ruleLog)
      BY <3>1, <3>2, <3>3, SMTT(40) DEF LogInv, TypeOK
    <3> QED
      BY <3>1, <3>4 DEF LogInv
  <2>2. CASE claims[r].txn # 0
    BY <1>2, <1>3, <2>2 DEF Sign
  <2> QED
    BY <2>1, <2>2, SMTT(40)
<1>4. ASSUME NEW r \in Requests, Serve(r), ~Sign(r)
      PROVE  UNCHANGED <<rules, ruleLog, window>>
  BY <1>4 DEF Serve, Receive, Authenticate, LoadIssuanceRules, Evaluate, VerifyExisting, SignFails, Refuse
<1>5. CASE UNCHANGED vars
  BY <1>2, <1>5 DEF vars
<1> QED
  BY <1>1, <1>2, <1>3, <1>4, <1>5 DEF Next

-----------------------------------------------------------------------------
(* Every step is a step of TxnChain or leaves the tokens alone.             *)

LEMMA ChainStep ==
    TypeOK /\ HeldInv /\ [Next]_vars => Chain!Next \/ UNCHANGED <<tokens, start>>
<1> SUFFICES ASSUME TypeOK, HeldInv, [Next]_vars
             PROVE  Chain!Next \/ UNCHANGED <<tokens, start>>
  OBVIOUS
<1>1. ASSUME NEW r \in Requests, Sign(r) PROVE Chain!Next
  <2>1. claims[r] \in Token
    BY <1>1 DEF Sign, TypeOK
  <2>2. CASE claims[r].txn = 0
    <3> DEFINE t == [claims[r] EXCEPT !.txn = Len(start) + 1]
    <3>l. Len(start) \in Nat
      BY LenFacts DEF TypeOK
    <3>1. t \in Token /\ t.txn = Len(start) + 1
      BY <2>1, <3>l, SMTT(40) DEF Token
    <3>2. tokens' = tokens \cup {t} /\ start' = Append(start, t)
      BY <1>1, <2>2 DEF Sign
    <3> HIDE DEF t
    <3>3. t \in tokens' /\ t \in Chain!Token /\ Chain!Start(t)
      BY <3>1, <3>2 DEF Chain!Start, Chain!Token, Chain!ScopeStrings, Token
    <3> QED
      BY <3>3, SMTT(40) DEF Chain!Next
  <2>3. CASE claims[r].txn # 0
    <3> DEFINE t == claims[r]
    <3>1. tokens' = tokens \cup {t} /\ start' = start
      BY <1>1, <2>3 DEF Sign
    <3>2. PICK p \in tokens :
             /\ t.txn = p.txn
             /\ t.sub = p.sub
             /\ t.ctx = p.ctx
             /\ WordsOf(t.scope) \subseteq WordsOf(p.scope)
      BY <1>1, <2>3, Zenon DEF Sign, HeldInv
    <3> HIDE DEF t
    <3>3. Chain!Derive(p, t)
      BY <3>1, <3>2, Zenon DEF Chain!Derive, Chain!WordsOf, WordsOf
    <3>4. t \in tokens' /\ t \in Chain!Token
      BY <2>1, <3>1 DEF Chain!Token, Chain!ScopeStrings, Token, t
    <3> QED
      BY <3>3, <3>4 DEF Chain!Next
  <2> QED
    BY <2>2, <2>3
<1>2. ASSUME NEW r \in Requests, Serve(r), ~Sign(r) PROVE UNCHANGED <<tokens, start>>
  BY <1>2, SMTT(40) DEF Serve, Receive, Authenticate, LoadIssuanceRules, Evaluate, VerifyExisting, SignFails, Refuse
<1>3. ASSUME NEW rs \in RuleSets, SetIssuanceRules(rs) PROVE UNCHANGED <<tokens, start>>
  BY <1>3, SMTT(40) DEF SetIssuanceRules
<1>4. CASE UNCHANGED vars
  BY <1>4 DEF vars
<1> QED
  BY <1>1, <1>2, <1>3, <1>4 DEF Next

-----------------------------------------------------------------------------
(* Issuance rules.                                                          *)

LEMMA StartedStep ==
    TypeOK /\ LogInv /\ HeldInv /\ StartedUnderOneRuleSet /\ [Next]_vars
    => StartedUnderOneRuleSet'
<1> SUFFICES ASSUME TypeOK, LogInv, HeldInv, StartedUnderOneRuleSet, [Next]_vars,
                    NEW x \in 1 .. Len(start')
             PROVE  \E k \in window'[x][1] .. window'[x][2] :
                       PassesClusterWide(ruleLog'[k], start'[x].sub)
  BY Zenon DEF StartedUnderOneRuleSet, PassesClusterWide
<1>g. Grows(ruleLog, ruleLog')
  BY LogGrows
<1>t. /\ start \in Seq(Token) /\ ruleLog \in Seq(RuleSets)
      /\ window \in Seq(Nat \X Nat) /\ Len(window) = Len(start)
  BY DEF TypeOK
<1>l. Len(start) \in Nat /\ Len(window) = Len(start) /\ Len(ruleLog) \in Nat
  BY <1>t, LenFacts
<1>1. ASSUME x \in 1 .. Len(start), start'[x] = start[x], window'[x] = window[x]
      PROVE  \E k \in window'[x][1] .. window'[x][2] :
                PassesClusterWide(ruleLog'[k], start'[x].sub)
  <2>1. PICK k \in window[x][1] .. window[x][2] : PassesClusterWide(ruleLog[k], start[x].sub)
    BY <1>1 DEF StartedUnderOneRuleSet
  <2>2. window[x][1] \in 1 .. Len(ruleLog) /\ window[x][2] \in 1 .. Len(ruleLog)
    BY <1>1, <1>l DEF LogInv
  <2>3. k \in 1 .. Len(ruleLog)
    BY <1>l, <2>1, <2>2, Between, SMTT(40)
  <2>4. ruleLog'[k] = ruleLog[k]
    BY <1>g, <2>3 DEF Grows
  <2> QED
    BY <1>1, <2>1, <2>4
<1>2. CASE start' = start /\ window' = window
  BY <1>1, <1>2
<1>3. ASSUME NEW r \in Requests, Sign(r), claims[r].txn = 0
      PROVE  \E k \in window'[x][1] .. window'[x][2] :
                PassesClusterWide(ruleLog'[k], start'[x].sub)
  <2> DEFINE t == [claims[r] EXCEPT !.txn = Len(start) + 1]
  <2>1. claims[r] \in Token
    BY <1>3 DEF Sign, TypeOK
  <2>2. t \in Token /\ t.sub = claims[r].sub
    BY <1>l, <2>1, SMTT(40) DEF Token
  <2>3. /\ start' = Append(start, t)
        /\ window' = Append(window, <<arrived[r], Len(ruleLog)>>)
        /\ ruleLog' = ruleLog
    BY <1>3 DEF Sign
  <2> HIDE DEF t
  <2>w. arrived[r] \in Nat /\ window \in Seq(Nat \X Nat) /\ start \in Seq(Token)
    BY DEF TypeOK
  <2>4. /\ start'[Len(start) + 1] = t
        /\ \A y \in 1 .. Len(start) : start'[y] = start[y]
        /\ x \in 1 .. Len(start) \/ x = Len(start) + 1
    <3>1. /\ Len(start') = Len(start) + 1 /\ start'[Len(start) + 1] = t
          /\ \A y \in 1 .. Len(start) : start'[y] = start[y]
      BY <2>2, <2>3, <2>w, AppendFacts, SMTT(40)
    <3> QED
      BY <1>l, <3>1, LastOrBefore, Zenon
  <2>5. /\ window'[Len(start) + 1] = <<arrived[r], Len(ruleLog)>>
        /\ \A y \in 1 .. Len(start) : window'[y] = window[y]
    <3>1. <<arrived[r], Len(ruleLog)>> \in Nat \X Nat
      BY <1>l, <2>w, Zenon
    <3> QED
      BY <1>l, <2>3, <2>w, <3>1, AppendFacts, SMTT(40)
  <2>6. \E k \in arrived[r] .. Len(ruleLog) : PassesClusterWide(ruleLog[k], claims[r].sub)
    BY <1>3 DEF Sign, HeldInv
  <2>7. CASE x = Len(start) + 1
    <3>w. window'[x] = <<arrived[r], Len(ruleLog)>>
      BY <2>5, <2>7, Zenon
    <3>1. window'[x][1] = arrived[r] /\ window'[x][2] = Len(ruleLog)
      BY <3>w, PairFacts, SMTT(40)
    <3>2. start'[x].sub = claims[r].sub
      BY <2>2, <2>4, <2>7, Zenon
    <3> QED
      BY <2>3, <2>6, <3>1, <3>2, Zenon
  <2> QED
    BY <1>1, <2>4, <2>5, <2>7
<1>4. ASSUME NEW r \in Requests, Serve(r), ~(Sign(r) /\ claims[r].txn = 0)
      PROVE  start' = start /\ window' = window
  BY <1>4, SMTT(40) DEF Serve, Receive, Authenticate, LoadIssuanceRules, Evaluate, VerifyExisting,
              Refuse, Sign, SignFails
<1>5. CASE UNCHANGED vars
  BY <1>2, <1>5 DEF vars
<1>6. ASSUME NEW rs \in RuleSets, SetIssuanceRules(rs) PROVE start' = start /\ window' = window
  BY <1>6 DEF SetIssuanceRules
<1> QED
  BY <1>2, <1>3, <1>4, <1>5, <1>6 DEF Next

-----------------------------------------------------------------------------
(* Transactions.                                                            *)

(* A step of TxnChain keeps every token within its transaction's origin. *)
LEMMA OriginStep ==
    TypeOK /\ WithinOrigin /\ (Chain!Next \/ UNCHANGED <<tokens, start>>) => WithinOrigin'
<1> USE DEF WithinOrigin, Chain!WithinOrigin
<1> SUFFICES ASSUME TypeOK, WithinOrigin, Chain!Next \/ UNCHANGED <<tokens, start>>,
                    NEW u \in tokens'
             PROVE  /\ u.txn \in 1 .. Len(start')
                    /\ u.sub = start'[u.txn].sub
                    /\ u.ctx = start'[u.txn].ctx
                    /\ Chain!WordsOf(u.scope) \subseteq Chain!WordsOf(start'[u.txn].scope)
  BY Zenon DEF Chain!WordsOf
<1>t. start \in Seq(Token)
  BY DEF TypeOK
<1>1. Len(start) \in Nat /\ start \in Seq(Token)
  BY <1>t, LenFacts
<1>2. ASSUME NEW t \in Chain!Token, Chain!Start(t)
      PROVE  /\ u.txn \in 1 .. Len(start')
             /\ u.sub = start'[u.txn].sub
             /\ u.ctx = start'[u.txn].ctx
             /\ Chain!WordsOf(u.scope) \subseteq Chain!WordsOf(start'[u.txn].scope)
  <2>1. start' = Append(start, t) /\ tokens' = tokens \cup {t} /\ t.txn = Len(start) + 1
    BY <1>2 DEF Chain!Start
  <2>t. t \in Token
    BY DEF Token, Chain!Token, Chain!ScopeStrings
  <2>2. /\ Len(start') = Len(start) + 1 /\ start'[Len(start) + 1] = t
        /\ \A k \in 1 .. Len(start) : start'[k] = start[k]
    BY <1>1, <2>1, <2>t, AppendFacts, SMTT(40)
  <2>l. Len(start) + 1 \in 1 .. Len(start') /\ 1 .. Len(start) \subseteq 1 .. Len(start')
    BY <1>1, <2>2, LastOrBefore, Zenon
  <2>3. CASE u = t
    BY <2>1, <2>2, <2>3, <2>l, Zenon
  <2>4. CASE u # t
    <3>1. u \in tokens
      BY <2>1, <2>4
    <3>2. u.txn \in 1 .. Len(start) /\ start'[u.txn] = start[u.txn]
      BY <2>2, <3>1
    <3>3. u.txn \in 1 .. Len(start')
      BY <2>l, <3>2
    <3> QED
      BY <3>1, <3>2, <3>3, Zenon
  <2> QED
    BY <2>3, <2>4
<1>3. ASSUME NEW t \in tokens', NEW p \in tokens, Chain!Derive(p, t)
      PROVE  /\ u.txn \in 1 .. Len(start')
             /\ u.sub = start'[u.txn].sub
             /\ u.ctx = start'[u.txn].ctx
             /\ Chain!WordsOf(u.scope) \subseteq Chain!WordsOf(start'[u.txn].scope)
  <2>1. /\ t.txn = p.txn /\ t.sub = p.sub /\ t.ctx = p.ctx
        /\ Chain!WordsOf(t.scope) \subseteq Chain!WordsOf(p.scope)
        /\ tokens' = tokens \cup {t} /\ start' = start
    BY <1>3 DEF Chain!Derive
  <2>2. Chain!WordsOf(p.scope) \subseteq Chain!WordsOf(start[p.txn].scope)
    BY Zenon
  <2>3. CASE u = t
    BY <2>1, <2>2, <2>3, Zenon
  <2>4. CASE u # t
    BY <2>1, <2>4, Zenon
  <2> QED
    BY <2>3, <2>4
<1>4. CASE UNCHANGED <<tokens, start>>
  BY <1>4
<1> QED
  BY <1>2, <1>3, <1>4 DEF Chain!Next

LEMMA Inductive == Spec => [](LogInv /\ HeldInv /\ WithinOrigin)
<1>1. Init => LogInv /\ HeldInv /\ WithinOrigin
  <2> SUFFICES ASSUME Init PROVE LogInv /\ HeldInv /\ WithinOrigin
    OBVIOUS
  <2>1. \A x \in 1 .. Len(<<>>) : FALSE
    BY NoIndex, Zenon
  <2>2. ruleLog # <<>> /\ rules = ruleLog[Len(ruleLog)]
    BY OneElement, Zenon DEF Init
  <2>3. LogInv
    BY <2>1, <2>2, ZenonT(40) DEF Init, LogInv
  <2>4. \A r \in Requests : pc[r] = "idle"
    BY ZenonT(40) DEF Init
  <2>5. HeldInv
    BY <2>4, Zenon DEF HeldInv
  <2>6. WithinOrigin
    BY ZenonT(40) DEF Init, WithinOrigin, Chain!WithinOrigin
  <2> QED
    BY <2>3, <2>5, <2>6
<1>2. TypeOK /\ LogInv /\ HeldInv /\ WithinOrigin /\ [Next]_vars
      => (LogInv /\ HeldInv /\ WithinOrigin)'
  BY HeldStep, LogStep, ChainStep, OriginStep, Zenon
<1> QED
  BY <1>1, <1>2, TypeCorrect, PTL DEF Spec

(* The token endpoint implements TxnChain, whatever requests and rule         *)
(* updates run at the same time.                                              *)
THEOREM Refinement == Spec => ImplementsTxnChain
<1>1. Init => Chain!Init
  BY Zenon DEF Init, Chain!Init
<1>2. TypeOK /\ HeldInv /\ [Next]_vars => [Chain!Next]_(Chain!chainVars)
  BY ChainStep, Zenon DEF Chain!chainVars
<1> QED
  BY <1>1, <1>2, TypeCorrect, Inductive, PTL DEF Spec, ImplementsTxnChain, Chain!Spec

(* Along a transaction the scope only shrinks, and subject and context never  *)
(* change, over any number of replacements (handleReplacement).               *)
THEOREM OriginSafe == Spec => []WithinOrigin
  BY Inductive, PTL

(* A transaction starts only under a rule set that was in force while its     *)
(* request was served and that its subject passes (SetIssuanceRules swaps the *)
(* whole set; ServeHTTP loads it once).                                       *)
THEOREM StartedSafe == Spec => []StartedUnderOneRuleSet
<1>1. Init => StartedUnderOneRuleSet
  <2>1. \A x \in 1 .. Len(<<>>) : FALSE
    BY NoIndex, Zenon
  <2> QED
    BY <2>1, Zenon DEF Init, StartedUnderOneRuleSet
<1> QED
  BY <1>1, StartedStep, TypeCorrect, Inductive, PTL DEF Spec

=============================================================================
