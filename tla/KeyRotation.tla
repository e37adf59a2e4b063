----------------------------- MODULE KeyRotation -----------------------------
(***************************************************************************)
(* Signing keys and their use: the key manager of the TTS (current and     *)
(* previous key, rotation, the JWKS endpoint), the two steps in which a    *)
(* request signs a token (read the key, then stamp and sign), and a        *)
(* verifier with a JWKS cache shared by concurrent calls.                  *)
(*                                                                         *)
(* Two verifiers cache a JWKS in the same way and differ in what they do   *)
(* with a response: sdk/verify.Verifier replaces the cached keys, and      *)
(* authn.OIDCAuthenticator adds to them (MergeKeys).                       *)
(*                                                                         *)
(* Keys are numbered in the order they are generated; 0 is "no key".       *)
(* Rotate has no caller in the repository: when it may be called is the    *)
(* guard on RotateEvery, an assumption about a future caller.              *)
(***************************************************************************)
EXTENDS Naturals, FiniteSets

CONSTANTS
    Signers,        \* token-exchange requests being served
    Callers,        \* verifications in progress at one verifier
    Lifetime,       \* token lifetime, in ticks
    SignDelay,      \* ticks a request may take from SigningKey to token.New
    RotateEvery,    \* ticks between two rotations
    MergeKeys,      \* TRUE: a JWKS response is added to the cache
    MaxTime,        \* bound: the clock
    MaxKey,         \* bound: keys generated over all TTS processes
    MaxTokens       \* bound: tokens issued

ASSUME PacingAssumption ==
    /\ Lifetime \in Nat
    /\ SignDelay \in Nat
    /\ RotateEvery \in Nat
    /\ RotateEvery > SignDelay
    /\ RotateEvery >= Lifetime + SignDelay
ASSUME KeyBoundsAssumption ==
    /\ MergeKeys \in BOOLEAN
    /\ MaxTime \in Nat
    /\ MaxKey \in Nat \ {0}
    /\ MaxTokens \in Nat

VARIABLES
    now,            \* the clock, shared: the code allows no skew
    \* --- the TTS process ---
    current,        \* Manager.current
    previous,       \* Manager.previous
    first,          \* history: the key this process generated at startup
    rotatedAt,      \* when the current key was generated
    signing,        \* signing[s]: the key request s has read, 0 if none
    readAt,         \* when it read it
    \* --- tokens in circulation ---
    tokens,
    \* --- the verifier ---
    cache,          \* kids in the verifier's map
    pc,             \* "idle", "fetch", "store", "recheck", "validate"
    tok,            \* the token a call verifies
    resp,           \* the kids of the JWKS response a call holds
    outcome,        \* how the last call ended
    displaced       \* history: another call's response replaced this call's

managerVars == <<current, previous, first, rotatedAt>>
signVars == <<signing, readAt, tokens>>
verifyVars == <<cache, pc, tok, resp, outcome, displaced>>
vars == <<now, managerVars, signVars, verifyVars>>

Keys == 1 .. MaxKey
Times == 0 .. MaxTime
Tokens == [kid : Keys, exp : 0 .. MaxTime + Lifetime]
NoToken == [kid |-> 0, exp |-> 0]
Phases == {"idle", "fetch", "store", "recheck", "validate"}
Outcomes == {"none", "accepted", "expired", "unknownKey", "fetchError"}

Init ==
    /\ now = 0
    /\ current = 1
    /\ previous = 0
    /\ first = 1
    /\ rotatedAt = 0
    /\ signing = [s \in Signers |-> 0]
    /\ readAt = [s \in Signers |-> 0]
    /\ tokens = {}
    /\ cache = {}
    /\ pc = [c \in Callers |-> "idle"]
    /\ tok = [c \in Callers |-> NoToken]
    /\ resp = [c \in Callers |-> {}]
    /\ outcome = [c \in Callers |-> "none"]
    /\ displaced = [c \in Callers |-> FALSE]

(* Signing takes at most SignDelay ticks. *)
Tick ==
    /\ now < MaxTime
    /\ \A s \in Signers : signing[s] # 0 => now < readAt[s] + SignDelay
    /\ now' = now + 1
    /\ UNCHANGED <<managerVars, signVars, verifyVars>>

-----------------------------------------------------------------------------
(* The key manager.                                                        *)

PublicKeys == {current, previous} \ {0}

(* Fault: the old key is forgotten at once. *)
RotateWithoutPrevious ==
    /\ current < MaxKey
    /\ now >= rotatedAt + RotateEvery
    /\ previous' = 0
    /\ current' = current + 1
    /\ rotatedAt' = now
    /\ UNCHANGED <<now, first, signVars, verifyVars>>

Rotate ==
    /\ current < MaxKey
    /\ now >= rotatedAt + RotateEvery
    /\ previous' = current
    /\ current' = current + 1
    /\ rotatedAt' = now
    /\ UNCHANGED <<now, first, signVars, verifyVars>>

(* Fault: the new process finds the old one's key. *)
RestartKeepsPrevious ==
    /\ current < MaxKey
    /\ current' = current + 1
    /\ previous' = current
    /\ first' = current + 1
    /\ rotatedAt' = now
    /\ signing' = [s \in Signers |-> 0]
    /\ readAt' = [s \in Signers |-> 0]
    /\ UNCHANGED <<now, tokens, verifyVars>>

(* The TTS process stops and a new one starts: NewManager makes a new key, *)
(* the old ones are gone and requests being served are lost.               *)
Restart ==
    /\ current < MaxKey
    /\ current' = current + 1
    /\ previous' = 0
    /\ first' = current + 1
    /\ rotatedAt' = now
    /\ signing' = [s \in Signers |-> 0]
    /\ readAt' = [s \in Signers |-> 0]
    /\ UNCHANGED <<now, tokens, verifyVars>>

-----------------------------------------------------------------------------
(* signAndRespond reads the key, then token.New stamps exp and signs.      *)

SigningKey(s) ==
    /\ signing[s] = 0
    /\ Cardinality(tokens) < MaxTokens
    /\ signing' = [signing EXCEPT ![s] = current]
    /\ readAt' = [readAt EXCEPT ![s] = now]
    /\ UNCHANGED <<now, managerVars, tokens, verifyVars>>

New(s) ==
    /\ signing[s] # 0
    /\ tokens' = tokens \cup {[kid |-> signing[s], exp |-> now + Lifetime]}
    /\ signing' = [signing EXCEPT ![s] = 0]
    /\ readAt' = [readAt EXCEPT ![s] = 0]
    /\ UNCHANGED <<now, managerVars, verifyVars>>

-----------------------------------------------------------------------------
(* The verifier: Verify, keyFunc and fetchJWKS.                            *)

(* keyFunc looks the kid up in the cache. *)
Verify(c, t) ==
    /\ pc[c] = "idle"
    /\ tok' = [tok EXCEPT ![c] = t]
    /\ pc' = [pc EXCEPT ![c] = IF t.kid \in cache THEN "validate" ELSE "fetch"]
    /\ outcome' = [outcome EXCEPT ![c] = "none"]
    /\ displaced' = [displaced EXCEPT ![c] = FALSE]
    /\ UNCHANGED <<now, managerVars, signVars, cache, resp>>

(* JWKSHandler answers with the keys of this moment. *)
FetchJWKS(c) ==
    /\ pc[c] = "fetch"
    /\ resp' = [resp EXCEPT ![c] = PublicKeys]
    /\ pc' = [pc EXCEPT ![c] = "store"]
    /\ UNCHANGED <<now, managerVars, signVars, cache, tok, outcome, displaced>>

(* Timeout, connection error, a status other than 200, a body that does not *)
(* decode: the cache is left alone.                                         *)
FetchFails(c) ==
    /\ pc[c] = "fetch"
    /\ outcome' = [outcome EXCEPT ![c] = "fetchError"]
    /\ pc' = [pc EXCEPT ![c] = "idle"]
    /\ UNCHANGED <<now, managerVars, signVars, cache, tok, resp, displaced>>

(* Fault: a response that arrives when the cache is not empty is discarded. *)
StoreFirstOnly(c) ==
    /\ pc[c] = "store"
    /\ cache' = IF cache = {} THEN resp[c] ELSE cache
    /\ pc' = [pc EXCEPT ![c] = "recheck"]
    /\ displaced' = [d \in Callers |->
          displaced[d] \/ (d # c /\ pc[d] = "recheck" /\ ~MergeKeys)]
    /\ resp' = [resp EXCEPT ![c] = {}]
    /\ UNCHANGED <<now, managerVars, signVars, tok, outcome>>

(* Under the write lock: replace the cached keys, or add to them. *)
Store(c) ==
    /\ pc[c] = "store"
    /\ cache' = IF MergeKeys THEN cache \cup resp[c] ELSE resp[c]
    /\ pc' = [pc EXCEPT ![c] = "recheck"]
    /\ displaced' = [d \in Callers |->
          displaced[d] \/ (d # c /\ pc[d] = "recheck" /\ ~MergeKeys)]
    /\ resp' = [resp EXCEPT ![c] = {}]
    /\ UNCHANGED <<now, managerVars, signVars, tok, outcome>>

(* The lock was released in between: the cache is read again. *)
Recheck(c) ==
    /\ pc[c] = "recheck"
    /\ IF tok[c].kid \in cache
       THEN /\ pc' = [pc EXCEPT ![c] = "validate"]
            /\ UNCHANGED outcome
       ELSE /\ pc' = [pc EXCEPT ![c] = "idle"]
            /\ outcome' = [outcome EXCEPT ![c] = "unknownKey"]
    /\ UNCHANGED <<now, managerVars, signVars, cache, tok, resp, displaced>>

(* jwt.Parse validates the claims after it has the key. *)
Validate(c) ==
    /\ pc[c] = "validate"
    /\ outcome' = [outcome EXCEPT ![c] =
          IF now < tok[c].exp THEN "accepted" ELSE "expired"]
    /\ pc' = [pc EXCEPT ![c] = "idle"]
    /\ UNCHANGED <<now, managerVars, signVars, cache, tok, resp, displaced>>

-----------------------------------------------------------------------------

Call(c) ==
    \/ \E t \in tokens : Verify(c, t)
    \/ FetchJWKS(c)
    \/ FetchFails(c)
    \/ Store(c)
    \/ Recheck(c)
    \/ Validate(c)

(* One TTS process. *)
NextOneProcess ==
    \/ Tick
    \/ Rotate
    \/ \E s \in Signers : SigningKey(s) \/ New(s)
    \/ \E c \in Callers : Call(c)

Next == NextOneProcess \/ Restart

Spec == Init /\ [][Next]_vars
SpecOneProcess == Init /\ [][NextOneProcess]_vars

-----------------------------------------------------------------------------
(* Properties.                                                             *)

(* State stays well-typed; the kept key is always the one before the        *)
(* current one, and a process that has not rotated keeps none.              *)
TypeOK ==
    /\ now \in Times
    /\ current \in Keys
    /\ previous \in Keys \cup {0}
    /\ first \in Keys
    /\ rotatedAt \in Times
    /\ signing \in [Signers -> Keys \cup {0}]
    /\ readAt \in [Signers -> Times]
    /\ tokens \subseteq Tokens
    /\ cache \subseteq Keys
    /\ pc \in [Callers -> Phases]
    /\ tok \in [Callers -> Tokens \cup {NoToken}]
    /\ resp \in [Callers -> SUBSET Keys]
    /\ outcome \in [Callers -> Outcomes]
    /\ displaced \in [Callers -> BOOLEAN]
    /\ first <= current
    /\ previous = IF current = first THEN 0 ELSE current - 1

(* A token of this TTS process that has not expired. *)
Live(t) == now < t.exp /\ first <= t.kid

(* manager.go: "The previous key is kept for one rotation cycle to allow    *)
(* in-flight token verification."  Keeping one key is enough: the JWKS      *)
(* always holds the key of every live token, also of one signed with a key  *)
(* that was read before a rotation and used after it.                       *)
KeyKept == \A t \in tokens : Live(t) => t.kid \in PublicKeys

(* A verification ends with "key not found" for a live token only when      *)
(* another call's response replaced the cache between this call's store and *)
(* its second look (keyFunc reads the cache again after fetchJWKS).         *)
NotFoundOnlyIfDisplaced ==
    \A c \in Callers :
        outcome[c] = "unknownKey" /\ Live(tok[c]) => displaced[c]

(* A verifier that fetches successfully never reports the key of a live     *)
(* token as unknown, however its calls interleave with each other and with  *)
(* rotation (fetchJWKS, keyFunc).                                           *)
LiveTokenKeyFound ==
    \A c \in Callers : outcome[c] = "unknownKey" => ~Live(tok[c])

(* What makes KeyKept inductive: a key is read at most SignDelay ago; a     *)
(* request that holds the previous key read it before the rotation; tokens  *)
(* under the previous key expire within SignDelay + Lifetime of the         *)
(* rotation, and those under older keys have expired.                       *)
KeyInv ==
    /\ rotatedAt <= now
    /\ \A s \in Signers : signing[s] # 0 =>
          /\ first <= signing[s]
          /\ current <= signing[s] + 1
          /\ signing[s] <= current
          /\ readAt[s] <= now
          /\ now <= readAt[s] + SignDelay
          /\ signing[s] < current => readAt[s] <= rotatedAt
    /\ \A t \in tokens :
          /\ t.kid <= current
          /\ t.exp <= now + Lifetime
          /\ first <= t.kid /\ t.kid < current =>
                t.exp <= rotatedAt + SignDelay + Lifetime
          /\ first <= t.kid /\ t.kid + 1 < current => t.exp <= now

(* What makes NotFoundOnlyIfDisplaced inductive: a call holds an issued       *)
(* token; the response it holds has the token's key, and so has the cache     *)
(* after it stored the response, unless another response has come since.      *)
CallInv ==
    \A c \in Callers :
        /\ pc[c] # "idle" => tok[c] \in tokens /\ outcome[c] = "none"
        /\ pc[c] = "store" /\ Live(tok[c]) => tok[c].kid \in resp[c]
        /\ pc[c] = "recheck" /\ Live(tok[c]) => displaced[c] \/ tok[c].kid \in cache
        /\ MergeKeys => ~displaced[c]

=============================================================================
