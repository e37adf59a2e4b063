-------------------------- MODULE KeyRotation_proofs --------------------------
(***************************************************************************)
(* Proofs about KeyRotation, for any lifetime, signing delay and rotation  *)
(* interval that satisfy PacingAssumption, and any number of requests and  *)
(* verifications.                                                          *)
(*                                                                         *)
(* KeyKept follows from KeyInv, which dates every token by the rotation    *)
(* that followed the reading of its key; the verifier's properties follow  *)
(* from CallInv, which uses KeyKept at the moment a response is made.      *)
(***************************************************************************)
EXTENDS KeyRotation, TLAPS

LEMMA TypeInit == Init => TypeOK
  BY KeyBoundsAssumption, SMTT(40)
  DEF Init, TypeOK, Keys, Times, Tokens, NoToken, Phases, Outcomes

(* Steps of the key manager and of the clock. *)
LEMMA TypeManager ==
    ASSUME TypeOK, Tick \/ Rotate \/ Restart
    PROVE  TypeOK'
<1> USE KeyBoundsAssumption DEF TypeOK, Keys, Times
<1>1. CASE Tick
  BY <1>1, SMTT(40) DEF Tick, managerVars, signVars, verifyVars
<1>2. CASE Rotate
  BY <1>2, SMTT(40) DEF Rotate, signVars, verifyVars
<1>3. CASE Restart
  BY <1>3, SMTT(40) DEF Restart, verifyVars
<1> QED
  BY <1>1, <1>2, <1>3

(* Steps of a request that signs. *)
LEMMA TypeSign ==
    ASSUME TypeOK, NEW s \in Signers, SigningKey(s) \/ New(s)
    PROVE  TypeOK'
<1>1. CASE SigningKey(s)
  BY <1>1, SMTT(40) DEF SigningKey, managerVars, verifyVars, TypeOK
<1>2. CASE New(s)
  <2>1. [kid |-> signing[s], exp |-> now + Lifetime] \in Tokens
    BY <1>2, KeyBoundsAssumption, PacingAssumption, SMTT(40)
    DEF New, Tokens, TypeOK, Keys, Times
  <2>2. tokens' \subseteq Tokens
    BY <1>2, <2>1 DEF New, TypeOK
  <2>3. readAt' \in [Signers -> Times]
    BY <1>2, KeyBoundsAssumption, SMTT(40) DEF New, TypeOK, Times
  <2> QED
    BY <1>2, <2>2, <2>3, SMTT(40) DEF New, managerVars, verifyVars, TypeOK
<1> QED
  BY <1>1, <1>2

(* Steps of a verification. *)
LEMMA TypeCall ==
    ASSUME TypeOK, NEW c \in Callers, Call(c)
    PROVE  TypeOK'
<1> USE DEF managerVars, signVars, Phases, Outcomes
<1>1. ASSUME NEW t \in tokens, Verify(c, t) PROVE TypeOK'
  BY <1>1, SMTT(40) DEF Verify, TypeOK
<1>2. CASE FetchJWKS(c)
  BY <1>2, SMTT(40) DEF FetchJWKS, PublicKeys, TypeOK
<1>3. CASE FetchFails(c)
  BY <1>3, SMTT(40) DEF FetchFails, TypeOK
<1>4. CASE Store(c)
  <2>1. displaced' \in [Callers -> BOOLEAN]
    BY <1>4 DEF Store, TypeOK
  <2>2. cache' \subseteq Keys
    BY <1>4, Zenon DEF Store, TypeOK
  <2> QED
    BY <1>4, <2>1, <2>2, SMTT(40) DEF Store, TypeOK
<1>5. CASE Recheck(c)
  BY <1>5, SMTT(40) DEF Recheck, TypeOK
<1>6. CASE Validate(c)
  BY <1>6, SMTT(40) DEF Validate, TypeOK
<1> QED
  BY <1>1, <1>2, <1>3, <1>4, <1>5, <1>6 DEF Call

LEMMA TypeStep == TypeOK /\ [Next]_vars => TypeOK'
<1> SUFFICES ASSUME TypeOK, [Next]_vars PROVE TypeOK'
  OBVIOUS
<1>1. CASE UNCHANGED vars
  BY <1>1, SMTT(40) DEF vars, managerVars, signVars, verifyVars, TypeOK
<1> QED
  BY <1>1, TypeManager, TypeSign, TypeCall DEF Next, NextOneProcess

(* Every reachable state is well-typed, and Manager.previous is the key       *)
(* generated just before Manager.current, or none.                            *)
THEOREM TypeCorrect == Spec => []TypeOK
  BY TypeInit, TypeStep, PTL DEF Spec

-----------------------------------------------------------------------------
(* The JWKS holds the key of every live token.                              *)

LEMMA KeyManager ==
    ASSUME TypeOK, KeyInv, Tick \/ Rotate \/ Restart
    PROVE  KeyInv'
<1> USE KeyBoundsAssumption, PacingAssumption
<1>t. /\ now \in Nat /\ current \in Nat /\ first \in Nat /\ rotatedAt \in Nat
      /\ \A s \in Signers : signing[s] \in Nat /\ readAt[s] \in Nat
      /\ \A t \in tokens : t.kid \in Nat /\ t.exp \in Nat
  BY SMTT(40) DEF TypeOK, Keys, Times, Tokens
<1>1. CASE Tick
  BY <1>1, <1>t, SMTT(40) DEF Tick, managerVars, signVars, KeyInv
<1>2. CASE Rotate
  (* A request that still held the previous key would have read it before *)
  (* the last rotation, longer than SignDelay ago.                        *)
  <2>1. \A s \in Signers : signing[s] # 0 => signing[s] = current
    BY <1>2, <1>t, SMTT(40) DEF Rotate, KeyInv
  <2>2. \A s \in Signers : signing'[s] # 0 =>
           /\ first' <= signing'[s]
           /\ current' <= signing'[s] + 1
           /\ signing'[s] <= current'
           /\ readAt'[s] <= now'
           /\ now' <= readAt'[s] + SignDelay
           /\ signing'[s] < current' => readAt'[s] <= rotatedAt'
    BY <1>2, <1>t, <2>1, SMTT(40) DEF Rotate, signVars, KeyInv
  <2>3. \A t \in tokens' :
           /\ t.kid <= current'
           /\ t.exp <= now' + Lifetime
           /\ first' <= t.kid /\ t.kid < current' =>
                 t.exp <= rotatedAt' + SignDelay + Lifetime
           /\ first' <= t.kid /\ t.kid + 1 < current' => t.exp <= now'
    BY <1>2, <1>t, SMTT(40) DEF Rotate, signVars, KeyInv
  <2> QED
    BY <1>2, <1>t, <2>2, <2>3, SMTT(40) DEF Rotate, KeyInv
<1>3. CASE Restart
  BY <1>3, <1>t, SMTT(40) DEF Restart, KeyInv
<1> QED
  BY <1>1, <1>2, <1>3

LEMMA KeySign ==
    ASSUME TypeOK, KeyInv, NEW s \in Signers, SigningKey(s) \/ New(s)
    PROVE  KeyInv'
<1> USE KeyBoundsAssumption, PacingAssumption
<1>t. /\ now \in Nat /\ current \in Nat /\ first \in Nat /\ rotatedAt \in Nat
      /\ first <= current
      /\ signing \in [Signers -> Nat] /\ readAt \in [Signers -> Nat]
      /\ \A t \in tokens : t.kid \in Nat /\ t.exp \in Nat
  BY SMTT(40) DEF TypeOK, Keys, Times, Tokens
<1>1. CASE SigningKey(s)
  BY <1>1, <1>t, SMTT(40) DEF SigningKey, managerVars, KeyInv
<1>2. CASE New(s)
  <2> DEFINE n == [kid |-> signing[s], exp |-> now + Lifetime]
  <2>1. /\ n.kid <= current
        /\ n.exp <= now + Lifetime
        /\ first <= n.kid /\ n.kid < current =>
              n.exp <= rotatedAt + SignDelay + Lifetime
        /\ ~(n.kid + 1 < current)
    BY <1>2, <1>t, SMTT(40) DEF New, KeyInv
  <2>2. tokens' = tokens \cup {n}
    BY <1>2 DEF New
  <2> QED
    BY <1>2, <1>t, <2>1, <2>2, SMTT(40) DEF New, managerVars, KeyInv
<1> QED
  BY <1>1, <1>2

(* A verification touches neither the keys nor the tokens. *)
LEMMA CallFrame ==
    ASSUME NEW c \in Callers, Call(c)
    PROVE  UNCHANGED <<now, managerVars, signVars>>
  BY DEF Call, Verify, FetchJWKS, FetchFails, Store, Recheck, Validate

LEMMA KeyStep == TypeOK /\ KeyInv /\ [Next]_vars => KeyInv'
<1> SUFFICES ASSUME TypeOK, KeyInv, [Next]_vars PROVE KeyInv'
  OBVIOUS
<1>1. ASSUME UNCHANGED <<now, managerVars, signVars>> PROVE KeyInv'
  BY <1>1 DEF managerVars, signVars, KeyInv
<1>2. CASE UNCHANGED vars
  BY <1>1, <1>2 DEF vars
<1>3. ASSUME NEW c \in Callers, Call(c) PROVE KeyInv'
  BY <1>1, <1>3, CallFrame
<1> QED
  BY <1>2, <1>3, KeyManager, KeySign DEF Next, NextOneProcess

LEMMA KeyKeptFrom == TypeOK /\ KeyInv => KeyKept
<1> SUFFICES ASSUME TypeOK, KeyInv, NEW t \in tokens, Live(t)
             PROVE  t.kid \in PublicKeys
  BY DEF KeyKept
<1>1. t.kid \in Nat /\ t.exp \in Nat /\ now \in Nat /\ current \in Nat /\ first \in Nat
  BY KeyBoundsAssumption, PacingAssumption, SMTT(40) DEF TypeOK, Keys, Times, Tokens
<1>2. t.kid # 0
  BY SMTT(40) DEF TypeOK, Keys, Tokens
<1>3. t.kid = current \/ (first < current /\ t.kid = current - 1)
  BY <1>1, SMTT(40) DEF KeyInv, Live
<1> QED
  BY <1>1, <1>2, <1>3, SMTT(40) DEF TypeOK, PublicKeys

LEMMA KeyInit == Init => KeyInv
  BY KeyBoundsAssumption, PacingAssumption, SMTT(40) DEF Init, KeyInv

(* One kept key is enough: at any time the JWKS has the key of every token    *)
(* that has not expired, as long as rotations are RotateEvery apart, which is *)
(* at least the token lifetime plus the time a request takes to sign.         *)
THEOREM KeyKeptSafe == Spec => []KeyKept
  BY TypeCorrect, KeyInit, KeyStep, KeyKeptFrom, PTL DEF Spec

-----------------------------------------------------------------------------
(* The verifier.                                                            *)

(* A token that is live after a step of the clock, the keys or the signers *)
(* was live before it: time and the first key only grow.                   *)
LEMMA LiveBefore ==
    ASSUME TypeOK, [Next]_vars, NEW t \in Tokens, Live(t)'
    PROVE  Live(t)
<1>1. /\ now \in Nat /\ first \in Nat /\ current \in Nat /\ first <= current
      /\ t.exp \in Nat /\ t.kid \in Nat
  BY KeyBoundsAssumption, PacingAssumption, SMTT(40) DEF TypeOK, Keys, Times, Tokens
<1>2. now' \in Nat /\ now <= now' /\ first' \in Nat /\ first <= first'
  <2>1. CASE Tick \/ Rotate \/ Restart
    BY <1>1, <2>1, SMTT(40) DEF Tick, Rotate, Restart, managerVars
  <2>2. ASSUME NEW s \in Signers, SigningKey(s) \/ New(s)
        PROVE  now' = now /\ first' = first
    BY <2>2 DEF SigningKey, New, managerVars
  <2>3. ASSUME NEW c \in Callers, Call(c)
        PROVE  now' = now /\ first' = first
    BY <2>3, CallFrame DEF managerVars
  <2>4. CASE UNCHANGED vars
    BY <1>1, <2>4 DEF vars, managerVars
  <2> QED
    BY <1>1, <2>1, <2>2, <2>3, <2>4 DEF Next, NextOneProcess
<1> QED
  BY <1>1, <1>2, SMTT(40) DEF Live

LEMMA CallInit == Init => CallInv
  BY DEF Init, CallInv

(* Steps of the TTS leave every call as it is. *)
LEMMA CallOthers ==
    ASSUME TypeOK, CallInv, [Next]_vars, UNCHANGED verifyVars,
           tokens \subseteq tokens'
    PROVE  CallInv'
<1> SUFFICES ASSUME NEW c \in Callers
             PROVE  /\ pc'[c] # "idle" => tok'[c] \in tokens' /\ outcome'[c] = "none"
                    /\ pc'[c] = "store" /\ Live(tok[c])' => tok'[c].kid \in resp'[c]
                    /\ pc'[c] = "recheck" /\ Live(tok[c])' =>
                          displaced'[c] \/ tok'[c].kid \in cache'
                    /\ MergeKeys => ~displaced'[c]
  BY DEF CallInv
<1>1. /\ pc' = pc /\ tok' = tok /\ outcome' = outcome /\ resp' = resp
      /\ displaced' = displaced /\ cache' = cache
  BY DEF verifyVars
<1>2. ASSUME pc[c] # "idle", Live(tok[c])' PROVE Live(tok[c])
  <2>1. tok[c] \in Tokens
    BY <1>2 DEF CallInv, TypeOK
  <2>2. \A t \in Tokens : Live(t)' => Live(t)
    BY LiveBefore
  <2>3. Live(tok[c])' => (now' < tok[c].exp /\ first' <= tok[c].kid)
    BY <1>1, SMTT(40) DEF Live
  <2> QED
    BY <1>1, <1>2, <2>1, <2>2, <2>3 DEF Live
<1> QED
  BY <1>1, <1>2 DEF CallInv

(* A step of call c, seen from c and from another call d.  The keys and the *)
(* clock stand still, so a token is live after it just when it was before.  *)
LEMMA CallSelf ==
    ASSUME TypeOK, KeyKept, CallInv, NEW c \in Callers, Call(c)
    PROVE  CallInv'
<1>f. now' = now /\ first' = first /\ tokens' = tokens
  BY CallFrame DEF managerVars, signVars
<1>l. \A t : Live(t)' <=> Live(t)
  BY <1>f DEF Live
<1>t. /\ pc \in [Callers -> Phases] /\ tok \in [Callers -> Tokens \cup {NoToken}]
      /\ resp \in [Callers -> SUBSET Keys] /\ outcome \in [Callers -> Outcomes]
      /\ displaced \in [Callers -> BOOLEAN]
  BY DEF TypeOK
<1> SUFFICES ASSUME NEW d \in Callers
             PROVE  /\ pc'[d] # "idle" => tok'[d] \in tokens /\ outcome'[d] = "none"
                    /\ pc'[d] = "store" /\ Live(tok'[d]) => tok'[d].kid \in resp'[d]
                    /\ pc'[d] = "recheck" /\ Live(tok'[d]) =>
                          displaced'[d] \/ tok'[d].kid \in cache'
                    /\ MergeKeys => ~displaced'[d]
  BY <1>f DEF CallInv, Live
<1>i. /\ pc[d] # "idle" => tok[d] \in tokens /\ outcome[d] = "none"
      /\ pc[d] = "store" /\ Live(tok[d]) => tok[d].kid \in resp[d]
      /\ pc[d] = "recheck" /\ Live(tok[d]) => displaced[d] \/ tok[d].kid \in cache
      /\ MergeKeys => ~displaced[d]
  BY DEF CallInv
<1>1. ASSUME NEW t \in tokens, Verify(c, t)
      PROVE  /\ pc'[d] # "idle" => tok'[d] \in tokens /\ outcome'[d] = "none"
             /\ pc'[d] = "store" /\ Live(tok'[d]) => tok'[d].kid \in resp'[d]
             /\ pc'[d] = "recheck" /\ Live(tok'[d]) =>
                   displaced'[d] \/ tok'[d].kid \in cache'
             /\ MergeKeys => ~displaced'[d]
  BY <1>1, <1>i, <1>t DEF Verify
<1>2. CASE FetchJWKS(c)
  (* The JWKS of this moment has the key of every live token. *)
  <2>1. pc[c] = "fetch" /\ Live(tok[c]) => tok[c].kid \in PublicKeys
    BY DEF KeyKept, CallInv
  <2> QED
    BY <1>2, <1>i, <1>t, <2>1 DEF FetchJWKS
<1>3. CASE FetchFails(c)
  BY <1>3, <1>i, <1>t DEF FetchFails
<1>4. CASE Store(c)
  <2>1. CASE d = c
    BY <1>4, <1>i, <1>t, <2>1 DEF Store
  <2>2. CASE d # c
    <3>1. /\ pc'[d] = pc[d] /\ tok'[d] = tok[d] /\ outcome'[d] = outcome[d]
          /\ resp'[d] = resp[d]
      BY <1>4, <1>t, <2>2 DEF Store
    <3>2. displaced'[d] <=> displaced[d] \/ (pc[d] = "recheck" /\ ~MergeKeys)
      BY <1>4, <2>2, Zenon DEF Store
    <3>3. MergeKeys => cache \subseteq cache'
      BY <1>4 DEF Store
    <3> QED
      BY <1>i, <3>1, <3>2, <3>3
  <2> QED
    BY <2>1, <2>2
<1>5. CASE Recheck(c)
  BY <1>5, <1>i, <1>t DEF Recheck
<1>6. CASE Validate(c)
  BY <1>6, <1>i, <1>t DEF Validate
<1> QED
  BY <1>1, <1>2, <1>3, <1>4, <1>5, <1>6 DEF Call

LEMMA CallStep == TypeOK /\ KeyKept /\ CallInv /\ [Next]_vars => CallInv'
<1> SUFFICES ASSUME TypeOK, KeyKept, CallInv, [Next]_vars PROVE CallInv'
  OBVIOUS
<1>1. CASE Tick \/ Rotate \/ Restart
  BY <1>1, CallOthers DEF Tick, Rotate, Restart, signVars
<1>2. ASSUME NEW s \in Signers, SigningKey(s) \/ New(s) PROVE CallInv'
  BY <1>2, CallOthers DEF SigningKey, New
<1>3. CASE UNCHANGED vars
  BY <1>3, CallOthers DEF vars, signVars
<1> QED
  BY <1>1, <1>2, <1>3, CallSelf DEF Next, NextOneProcess

(* "Key not found" is the outcome of Recheck alone; afterwards a call keeps *)
(* its outcome and its token until it starts anew.                          *)
LEMMA NotFoundStep ==
    TypeOK /\ CallInv /\ NotFoundOnlyIfDisplaced /\ [Next]_vars
        => NotFoundOnlyIfDisplaced'
<1> SUFFICES ASSUME TypeOK, CallInv, NotFoundOnlyIfDisplaced, [Next]_vars,
                    NEW c \in Callers, outcome'[c] = "unknownKey",
                    now' < tok'[c].exp, first' <= tok'[c].kid
             PROVE  displaced'[c]
  BY DEF NotFoundOnlyIfDisplaced, Live
<1>t. /\ pc \in [Callers -> Phases] /\ tok \in [Callers -> Tokens \cup {NoToken}]
      /\ outcome \in [Callers -> Outcomes] /\ displaced \in [Callers -> BOOLEAN]
  BY DEF TypeOK
<1>0. ASSUME UNCHANGED <<outcome, tok, displaced>> PROVE displaced'[c]
  <2>1. tok[c] # NoToken
    <3>1. tok[c] = NoToken => ~(now' < tok'[c].exp)
      BY <1>0, TypeStep, SMTT(40) DEF NoToken, TypeOK, Times
    <3> QED
      BY <3>1
  <2>2. tok[c] \in Tokens
    BY <1>t, <2>1
  <2>3. now' < tok[c].exp /\ first' <= tok[c].kid
    BY <1>0
  <2>4. \A t \in Tokens : now' < t.exp /\ first' <= t.kid => Live(t)
    BY LiveBefore, SMTT(40) DEF Live
  <2> QED
    BY <1>0, <2>2, <2>3, <2>4 DEF NotFoundOnlyIfDisplaced
<1>1. CASE Tick \/ Rotate \/ Restart
  BY <1>0, <1>1 DEF Tick, Rotate, Restart, verifyVars
<1>2. ASSUME NEW s \in Signers, SigningKey(s) \/ New(s) PROVE displaced'[c]
  BY <1>0, <1>2 DEF SigningKey, New, verifyVars
<1>3. CASE UNCHANGED vars
  BY <1>0, <1>3 DEF vars, verifyVars
<1>4. ASSUME NEW d \in Callers, Call(d) PROVE displaced'[c]
  <2>f. now' = now /\ first' = first
    BY <1>4, CallFrame DEF managerVars
  <2>l. Live(tok'[c])
    BY <2>f DEF Live
  <2>1. ASSUME NEW t \in tokens, Verify(d, t) PROVE displaced'[c]
    BY <1>t, <2>1, <2>l DEF Verify, NotFoundOnlyIfDisplaced
  <2>2. CASE FetchJWKS(d)
    BY <1>t, <2>2, <2>l DEF FetchJWKS, NotFoundOnlyIfDisplaced
  <2>3. CASE FetchFails(d)
    BY <1>t, <2>3, <2>l DEF FetchFails, NotFoundOnlyIfDisplaced
  <2>4. CASE Store(d)
    BY <1>t, <2>4, <2>l DEF Store, NotFoundOnlyIfDisplaced
  <2>5. CASE Recheck(d)
    BY <1>t, <2>5, <2>l DEF Recheck, NotFoundOnlyIfDisplaced, CallInv
  <2>6. CASE Validate(d)
    BY <1>t, <2>6, <2>l DEF Validate, NotFoundOnlyIfDisplaced
  <2> QED
    BY <1>4, <2>1, <2>2, <2>3, <2>4, <2>5, <2>6 DEF Call
<1> QED
  BY <1>1, <1>2, <1>3, <1>4 DEF Next, NextOneProcess

LEMMA NotFoundInit == Init => NotFoundOnlyIfDisplaced
  BY DEF Init, NotFoundOnlyIfDisplaced

LEMMA CallSafe == Spec => []CallInv
  BY TypeCorrect, KeyKeptSafe, CallInit, CallStep, PTL DEF Spec

(* A verification reports the key of a live token as unknown only when        *)
(* another call's response replaced its own between fetchJWKS and the second  *)
(* look at the cache (sdk/verify, keyFunc).                                   *)
THEOREM NotFoundSafe == Spec => []NotFoundOnlyIfDisplaced
  BY TypeCorrect, CallSafe, NotFoundInit, NotFoundStep, PTL DEF Spec

(* A verifier that adds responses to its cache, as authn.OIDCAuthenticator    *)
(* does, never reports the key of a live token as unknown.                    *)
THEOREM MergingFinds ==
    ASSUME MergeKeys
    PROVE  Spec => []LiveTokenKeyFound
<1>1. CallInv /\ NotFoundOnlyIfDisplaced => LiveTokenKeyFound
  BY DEF CallInv, NotFoundOnlyIfDisplaced, LiveTokenKeyFound
<1> QED
  BY <1>1, CallSafe, NotFoundSafe, PTL

=============================================================================
