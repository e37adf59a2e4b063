-------------------------- MODULE OidcAuthn_proofs --------------------------
(***************************************************************************)
(* Proofs about the OIDC authenticators, for every number of concurrent    *)
(* calls, identity providers, keys and configured authenticators.          *)
(*                                                                         *)
(* What keeps the unlocked JWKS URL harmless is that everything ever       *)
(* stored in its two words belongs to the authenticator's own issuer, so a *)
(* torn URL leads to that issuer's keys or to none (Own).  What a call     *)
(* relies on after an unlocked step is kept by every step of the others:   *)
(* the words never go back to nil, and a kid never leaves the cache.       *)
(***************************************************************************)
EXTENDS OidcAuthn, WellFoundedInduction, TLAPS

Unique(S) == \A k, l \in S : k.kid = l.kid => k = l

(* A word of a URL that issuer i has published. *)
Own(i, u) == u = None \/ (u \in URL /\ u.iss = i /\ u.n <= uri[i])

ProviderInv == \A i \in Issuers : jwks[i] \subseteq served[i] /\ Unique(jwks[i])

AuthInv(a) ==
    /\ keys[a] \subseteq served[Config[a].issuer]
    /\ Own(Config[a].issuer, ptr[a]) /\ Own(Config[a].issuer, len[a])
    /\ Writing(a) = {} => (ptr[a] = None <=> len[a] = None)

(* The router's choice, which stays while the call lasts. *)
RouteInv(c) ==
    pc[c] # "idle" /\ outcome[c] # "noAuthenticator" =>
        /\ auth[c] \in Auths
        /\ auth[c] = FirstOf(Matching(tok[c]))
        /\ Config[auth[c]].issuer = tok[c].iss

(* The URL a call holds, and what its half-done stores have left. *)
UrlInv(c) ==
    /\ pc[c] = "idle" => url[c] = NoURL
    /\ pc[c] # "idle" => Own(tok[c].iss, url[c].ptr) /\ Own(tok[c].iss, url[c].len)
    /\ pc[c] \in {"write", "writePtr", "writeLen"} => url[c].ptr # None /\ url[c].len # None
    /\ pc[c] = "writeLen" => ptr[auth[c]] # None
    /\ pc[c] = "writePtr" => len[auth[c]] # None
    /\ pc[c] = "fetch" => url[c].len # None

(* What the provider's state says of the call. *)
KeptInv(c) ==
    /\ pc[c] # "idle" /\ kept[c] => tok[c].key \in jwks[tok[c].iss]
    /\ pc[c] \notin {"idle", "store", "recheck", "done"} /\ ~up[tok[c].iss] => outage[c]
    /\ pc[c] = "store" =>
          /\ resp[c] \subseteq served[tok[c].iss] /\ Unique(resp[c])
          /\ kept[c] => tok[c].key \in resp[c]
    /\ pc[c] = "recheck" /\ kept[c] /\ tok[c].key.kid \notin NoSig =>
          \E k \in keys[auth[c]] : k.kid = tok[c].key.kid

Accepted(c) ==
    outcome[c] = "accepted" =>
        LET cfg == Config[FirstOf(Matching(tok[c]))]
        IN  /\ tok[c].key \in served[tok[c].iss]
            /\ ClaimsPass(cfg, claims[c])
            /\ cfg.subject[claims[c].cls] = "value"

Found(c) ==
    LET t == tok[c]
        i == Config[auth[c]].issuer
    IN  /\ outcome[c] = "unknownKey" /\ kept[c] => t.key.kid \in NoSig
        /\ outcome[c] = "badSignature" /\ kept[c] =>
              \E k \in served[i] : k.kid = t.key.kid /\ k # t.key
        /\ outcome[c] = "fetchError" =>
              \/ outage[c]
              \/ Config[auth[c]].doc # i
              \/ uri[i] > 0 /\ url[c] # Whole(Location(i))

Aborted(c) ==
    outcome[c] = "aborted" =>
        \/ url[c].ptr = None /\ url[c].len # None
        \/ ~Config[auth[c]].claim /\ Config[auth[c]].subject[claims[c].cls] = "other"

OutcomeInv(c) ==
    /\ pc[c] # "done" => outcome[c] = "none"
    /\ Accepted(c) /\ Found(c) /\ Aborted(c)

CallInv(c) == RouteInv(c) /\ UrlInv(c) /\ KeptInv(c) /\ OutcomeInv(c)

(* The inductive invariant. *)
IInv ==
    /\ TypeOK
    /\ ProviderInv
    /\ \A a \in Auths : AuthInv(a)
    /\ \A c \in Calls : CallInv(c)

-----------------------------------------------------------------------------
(* Facts about the operators.                                              *)
(* Most leaves are first-order and go to Zenon; the ones that need arith-  *)
(* metic or records name the SMT solver.                                   *)

USE Zenon

(* The first of a non-empty set of authenticators is one of them. *)
LEMMA FirstIn ==
    ASSUME NEW S \in SUBSET Nat, S # {}
    PROVE  FirstOf(S) \in S
<1> DEFINE Less == OpToRel(<, Nat)
<1>1. IsWellFoundedOn(Less, Nat)
  BY NatLessThanWellFounded, Zenon
<1>2. \A i, j \in Nat : i < j => <<i, j>> \in Less
  BY DEF OpToRel
<1> HIDE DEF Less
<1>3. PICK n \in S : \A i \in S : ~(<<i, n>> \in Less)
  BY <1>1, WFMin, Zenon
<1>4. \A i \in S : n <= i
  <2> SUFFICES ASSUME NEW i \in S PROVE n <= i
    OBVIOUS
  <2>1. ~(i < n)
    BY <1>2, <1>3, Zenon
  <2> QED
    BY <2>1, SMTT(40)
<1> QED
  BY <1>4, Zenon DEF FirstOf

(* What is configured for an authenticator. *)
LEMMA ConfigFields ==
    ASSUME NEW a \in Auths
    PROVE  Config[a].issuer \in Issuers /\ Config[a].doc \in Issuers
<1>1. Config[a] \in AuthenticatorConfig
  BY OidcAssumption, SMTT(40) DEF Auths
<1> QED
  BY <1>1 DEF AuthenticatorConfig

(* Merging a response adds nothing but the response, keeps every kid, and   *)
(* adds every usable key of the response.                                   *)
LEMMA MergeFacts ==
    ASSUME NEW K, NEW S
    PROVE  /\ Merge(K, S) \subseteq K \cup S
           /\ \A k \in K : \E n \in Merge(K, S) : n.kid = k.kid
           /\ \A k \in S : k.kid \notin NoSig => k \in Merge(K, S)
           /\ Unique(K) /\ Unique(S) => Unique(Merge(K, S))
  BY SMTT(40) DEF Merge, Usable, Unique

(* A token that is accepted passed all checks; one that ends in a panic has *)
(* a subject that is not a string.                                          *)
LEMMA VerdictFacts ==
    ASSUME NEW cfg, NEW p
    PROVE  /\ Verdict(cfg, p) \in {"accepted", "refused", "aborted"}
           /\ Verdict(cfg, p) = "accepted" => ClaimsPass(cfg, p) /\ cfg.subject[p.cls] = "value"
           /\ Verdict(cfg, p) = "aborted" => ~cfg.claim /\ cfg.subject[p.cls] = "other"
<1>1. Subject(cfg, p.cls) \in {"ok", "refused", "aborted"}
  BY DEF Subject
<1>2. Subject(cfg, p.cls) = "ok" => cfg.subject[p.cls] = "value"
  BY DEF Subject
<1>3. Subject(cfg, p.cls) = "aborted" => ~cfg.claim /\ cfg.subject[p.cls] = "other"
  BY DEF Subject
<1> QED
  BY <1>1, <1>2, <1>3 DEF Verdict

-----------------------------------------------------------------------------
(* Steps of one call, seen by the others and by the authenticators.        *)

Same(d) ==
    /\ pc'[d] = pc[d] /\ tok'[d] = tok[d] /\ claims'[d] = claims[d] /\ auth'[d] = auth[d]
    /\ url'[d] = url[d] /\ resp'[d] = resp[d] /\ outcome'[d] = outcome[d]
    /\ kept'[d] = kept[d] /\ outage'[d] = outage[d]

Grows ==
    \A a \in Auths :
        /\ ptr[a] # None => ptr'[a] # None
        /\ len[a] # None => len'[a] # None
        /\ \A k \in keys[a] : \E n \in keys'[a] : n.kid = k.kid

(* A call that is past the router and not done has an authenticator. *)
LEMMA Routed ==
    ASSUME TypeOK, NEW c \in Calls, CallInv(c), pc[c] \notin {"idle", "done"}
    PROVE  /\ tok[c] \in Token /\ tok[c].iss \in Issuers
           /\ auth[c] \in Auths /\ auth[c] = FirstOf(Matching(tok[c]))
           /\ Config[auth[c]].issuer = tok[c].iss
           /\ outcome[c] = "none"
  BY DEF TypeOK, CallInv, RouteInv, OutcomeInv, Token

(* What a call relies on is not disturbed by a step of another call. *)
LEMMA OtherCall ==
    ASSUME TypeOK, NEW d \in Calls, CallInv(d), UNCHANGED providerVars, Same(d), Grows
    PROVE  CallInv(d)'
<1>1. RouteInv(d)'
  BY DEF CallInv, RouteInv, Same, Matching
<1>2. UrlInv(d)'
  <2>1. pc[d] \in {"writePtr", "writeLen"} => auth[d] \in Auths
    BY Routed
  <2> QED
    BY <2>1, ZenonT(60) DEF CallInv, UrlInv, Same, Own, providerVars, Grows
<1>3. KeptInv(d)'
  <2>1. pc[d] = "recheck" => auth[d] \in Auths
    BY Routed
  <2>2. pc'[d] = "recheck" /\ kept'[d] /\ tok'[d].key.kid \notin NoSig =>
           \E k \in keys'[auth'[d]] : k.kid = tok'[d].key.kid
    <3> SUFFICES ASSUME pc'[d] = "recheck", kept'[d], tok'[d].key.kid \notin NoSig
                 PROVE  \E k \in keys'[auth'[d]] : k.kid = tok'[d].key.kid
      OBVIOUS
    <3>1. pc[d] = "recheck" /\ kept[d] /\ tok'[d] = tok[d] /\ auth'[d] = auth[d]
      BY DEF Same
    <3>2. PICK k \in keys[auth[d]] : k.kid = tok[d].key.kid
      BY <3>1 DEF CallInv, KeptInv
    <3>3. PICK n \in keys'[auth[d]] : n.kid = k.kid
      BY <2>1, <3>1 DEF Grows
    <3> QED
      BY <3>1, <3>2, <3>3
  <2>3. pc'[d] = "store" =>
           /\ resp'[d] \subseteq served'[tok'[d].iss] /\ Unique(resp'[d])
           /\ kept'[d] => tok'[d].key \in resp'[d]
    BY DEF CallInv, KeptInv, Same, providerVars
  <2>4. /\ pc'[d] # "idle" /\ kept'[d] => tok'[d].key \in jwks'[tok'[d].iss]
        /\ pc'[d] \notin {"idle", "store", "recheck", "done"} /\ ~up'[tok'[d].iss] => outage'[d]
    BY DEF CallInv, KeptInv, Same, providerVars
  <2> QED
    BY <2>2, <2>3, <2>4 DEF KeptInv
<1>4. OutcomeInv(d)'
  <2>1. (pc[d] # "done" => outcome[d] = "none") /\ Accepted(d) /\ Found(d) /\ Aborted(d)
    BY DEF CallInv, OutcomeInv
  <2>2. Accepted(d)'
    BY <2>1 DEF Accepted, Same, providerVars, Matching, ClaimsPass
  <2>3. Found(d)'
    BY <2>1 DEF Found, Same, providerVars, Whole, Location
  <2>4. Aborted(d)'
    BY <2>1 DEF Aborted, Same
  <2> QED
    BY <2>1, <2>2, <2>3, <2>4 DEF OutcomeInv, Same
<1> QED
  BY <1>1, <1>2, <1>3, <1>4 DEF CallInv

(* A step that is not one of the stores leaves the authenticators alone. *)
LEMMA SameAuths ==
    ASSUME TypeOK, NEW c \in Calls, UNCHANGED providerVars, UNCHANGED authVars,
           \A d \in Calls \ {c} : Same(d),
           pc[c] \notin {"write", "writePtr", "writeLen"},
           NEW a \in Auths, AuthInv(a)
    PROVE  AuthInv(a)'
<1>1. Writing(a)' = {} => Writing(a) = {}
  BY ZenonT(60) DEF Writing, Same
<1> QED
  BY <1>1 DEF AuthInv, Own, providerVars, authVars

(* The types of the calls' state, call by call. *)
Steps == {"idle", "lookup", "url", "discover", "write", "writePtr", "writeLen", "fetch",
          "store", "recheck", "done"}
Outcomes == {"none", "accepted", "refused", "badSignature", "unknownKey", "fetchError",
             "noAuthenticator", "aborted"}

CallType(c) ==
    /\ pc[c] \in Steps /\ tok[c] \in Token \cup {None} /\ claims[c] \in Payloads \cup {None}
    /\ auth[c] \in 0 .. Len(Config) /\ url[c] \in [ptr : URL \cup {None}, len : URL \cup {None}]
    /\ resp[c] \in SUBSET Key /\ outcome[c] \in Outcomes
    /\ pc[c] # "idle" => tok[c] \in Token
    /\ outcome[c] = "accepted" => claims[c] \in Payloads
    /\ pc[c] \notin {"idle", "done"} => auth[c] \in Auths /\ Config[auth[c]].issuer = tok[c].iss

HistoryType(c) == kept[c] \in BOOLEAN /\ outage[c] \in BOOLEAN

(* Only the state of call c changes. *)
Only(c) ==
    /\ pc' = [pc EXCEPT ![c] = pc'[c]] /\ tok' = [tok EXCEPT ![c] = tok'[c]]
    /\ claims' = [claims EXCEPT ![c] = claims'[c]] /\ auth' = [auth EXCEPT ![c] = auth'[c]]
    /\ url' = [url EXCEPT ![c] = url'[c]] /\ resp' = [resp EXCEPT ![c] = resp'[c]]
    /\ outcome' = [outcome EXCEPT ![c] = outcome'[c]]
    /\ kept' = [kept EXCEPT ![c] = kept'[c]] /\ outage' = [outage EXCEPT ![c] = outage'[c]]

LEMMA CallTypeOf ==
    ASSUME TypeOK, NEW c \in Calls
    PROVE  CallType(c)
  BY DEF TypeOK, CallType, Steps, Outcomes

(* kept and outage of a step that does not touch them. *)
LEMMA SameHistory ==
    ASSUME TypeOK, NEW c \in Calls, UNCHANGED <<kept, outage>>
    PROVE  /\ kept' = [kept EXCEPT ![c] = kept'[c]] /\ outage' = [outage EXCEPT ![c] = outage'[c]]
           /\ HistoryType(c)'
  BY Zenon DEF TypeOK, HistoryType

(* A step of one call is well-typed if the call and what it stored are. *)
LEMMA OnlyTyped ==
    ASSUME TypeOK, NEW c \in Calls, UNCHANGED providerVars, Only(c), CallType(c)', HistoryType(c)',
           ptr' \in [Auths -> URL \cup {None}], len' \in [Auths -> URL \cup {None}],
           keys' \in [Auths -> SUBSET Usable(Key)], \A a \in Auths : Unique(keys'[a])
    PROVE  TypeOK' /\ \A d \in Calls \ {c} : Same(d)
<1>1. \A d \in Calls \ {c} : kept'[d] = kept[d] /\ outage'[d] = outage[d]
  BY Zenon DEF TypeOK, Only
<1>2. kept' \in [Calls -> BOOLEAN] /\ outage' \in [Calls -> BOOLEAN]
  BY Zenon DEF TypeOK, Only, HistoryType
<1>3. \A d \in Calls \ {c} : Same(d)
  BY <1>1, SMTT(40) DEF TypeOK, Only, Same
<1>4. /\ pc' \in [Calls -> Steps] /\ tok' \in [Calls -> Token \cup {None}]
      /\ claims' \in [Calls -> Payloads \cup {None}] /\ auth' \in [Calls -> 0 .. Len(Config)]
      /\ url' \in [Calls -> [ptr : URL \cup {None}, len : URL \cup {None}]]
      /\ resp' \in [Calls -> SUBSET Key] /\ outcome' \in [Calls -> Outcomes]
  <2> USE DEF CallType, Only, TypeOK
  <2>1. pc' \in [Calls -> Steps]
    BY Zenon DEF Steps
  <2>2. outcome' \in [Calls -> Outcomes]
    BY Zenon DEF Outcomes
  <2>3. tok' \in [Calls -> Token \cup {None}] /\ claims' \in [Calls -> Payloads \cup {None}]
    BY Zenon
  <2>4. auth' \in [Calls -> 0 .. Len(Config)] /\ resp' \in [Calls -> SUBSET Key]
    BY Zenon
  <2>5. url' \in [Calls -> [ptr : URL \cup {None}, len : URL \cup {None}]]
    BY Zenon
  <2> QED
    BY <2>1, <2>2, <2>3, <2>4, <2>5
<1>5. ASSUME NEW d \in Calls
      PROVE  /\ pc'[d] # "idle" => tok'[d] \in Token
             /\ outcome'[d] = "accepted" => claims'[d] \in Payloads
             /\ pc'[d] \notin {"idle", "done"} =>
                   auth'[d] \in Auths /\ Config[auth'[d]].issuer = tok'[d].iss
  <2>1. CASE d = c
    BY <2>1 DEF CallType
  <2>2. CASE d # c
    BY <1>3, <2>2 DEF Same, TypeOK
  <2> QED
    BY <2>1, <2>2
<1> QED
  BY <1>2, <1>3, <1>4, <1>5 DEF TypeOK, providerVars, Steps, Outcomes, Unique

(* So a step that stores nothing is settled by what it does to its own      *)
(* call.                                                                    *)
LEMMA CallStep ==
    ASSUME IInv, NEW c \in Calls, UNCHANGED providerVars, UNCHANGED authVars,
           Only(c), CallType(c)', HistoryType(c)',
           pc[c] \notin {"write", "writePtr", "writeLen"},
           CallInv(c)'
    PROVE  IInv'
<1>0. TypeOK' /\ \A d \in Calls \ {c} : Same(d)
  BY OnlyTyped, Zenon DEF IInv, TypeOK, authVars, Unique
<1>1. ProviderInv'
  BY DEF IInv, ProviderInv, providerVars, Unique
<1>2. ASSUME NEW a \in Auths PROVE AuthInv(a)'
  BY <1>0, <1>2, SameAuths DEF IInv
<1>3. ASSUME NEW d \in Calls \ {c} PROVE CallInv(d)'
  <2>1. Grows
    BY DEF Grows, authVars
  <2> QED
    BY <1>0, <1>3, <2>1, OtherCall DEF IInv
<1> QED
  BY <1>0, <1>1, <1>2, <1>3, Zenon DEF IInv

LEMMA RouteStep ==
    ASSUME IInv, NEW c \in Calls, NEW i \in Issuers, NEW k \in Carried,
           Route(c, [iss |-> i, key |-> k])
    PROVE  IInv'
<1> DEFINE t == [iss |-> i, key |-> k]
<1>0. TypeOK /\ CallInv(c) /\ CallType(c)
  BY CallTypeOf DEF IInv
<1>1. k \in Key
  BY <1>0, OidcAssumption, SMTT(40) DEF Carried, TypeOK, Key
<1>2. t \in Token /\ t.iss = i /\ t.key = k
  BY <1>1 DEF Token
<1>3. Matching(t) # {} =>
         /\ FirstOf(Matching(t)) \in Auths
         /\ Config[FirstOf(Matching(t))].issuer = i
  <2>1. Matching(t) \in SUBSET Nat
    BY SMTT(40) DEF Matching, Auths
  <2>2. Matching(t) # {} => FirstOf(Matching(t)) \in Matching(t)
    BY <2>1, FirstIn
  <2> QED
    BY <2>2 DEF Matching
<1>4. FirstOf(Matching(t)) \in Auths => FirstOf(Matching(t)) \in 0 .. Len(Config)
  BY OidcAssumption, SMTT(40) DEF Auths
<1> HIDE DEF t
<1>5. /\ pc[c] = "idle"
      /\ tok' = [tok EXCEPT ![c] = t]
      /\ kept' = [kept EXCEPT ![c] = k \in jwks[i]]
      /\ outage' = [outage EXCEPT ![c] = ~up[i]]
      /\ UNCHANGED <<providerVars, authVars, claims, url, resp>>
  BY <1>2 DEF Route, t
<1>6. \/ /\ pc' = [pc EXCEPT ![c] = "done"]
         /\ outcome' = [outcome EXCEPT ![c] = "noAuthenticator"]
         /\ UNCHANGED auth
      \/ /\ pc' = [pc EXCEPT ![c] = "lookup"]
         /\ auth' = [auth EXCEPT ![c] = FirstOf(Matching(t))]
         /\ Matching(t) # {}
         /\ UNCHANGED outcome
  BY DEF Route, Done, t
<1>7. /\ HistoryType(c)'
      /\ kept'[c] => k \in jwks[i]
      /\ ~up[i] => outage'[c]
      /\ kept' = [kept EXCEPT ![c] = kept'[c]] /\ outage' = [outage EXCEPT ![c] = outage'[c]]
  <2>1. kept'[c] = (k \in jwks[i]) /\ outage'[c] = ~up[i]
    BY <1>0, <1>5, Zenon DEF TypeOK
  <2>2. kept' = [kept EXCEPT ![c] = kept'[c]] /\ outage' = [outage EXCEPT ![c] = outage'[c]]
    BY <1>5, <2>1, Zenon
  <2>3. HistoryType(c)'
    BY <2>1, SMTT(40) DEF HistoryType
  <2>4. (kept'[c] => k \in jwks[i]) /\ (~up[i] => outage'[c])
    BY <2>1, Zenon
  <2> QED
    BY <2>2, <2>3, <2>4, Zenon
<1>8. /\ tok'[c] = t /\ url'[c] = url[c] /\ claims'[c] = claims[c] /\ resp'[c] = resp[c]
      /\ \/ /\ pc'[c] = "done" /\ outcome'[c] = "noAuthenticator" /\ auth'[c] = auth[c]
         \/ /\ pc'[c] = "lookup" /\ outcome'[c] = outcome[c]
            /\ auth'[c] = FirstOf(Matching(t)) /\ Matching(t) # {}
  BY <1>0, <1>5, <1>6 DEF TypeOK
<1>9. Only(c)
  BY <1>0, <1>5, <1>6, <1>7, SMTT(40) DEF TypeOK, Only
<1>10. CallType(c)'
  <2>1. auth'[c] \in 0 .. Len(Config)
    BY <1>0, <1>3, <1>4, <1>8 DEF CallType
  <2>2. pc'[c] \in {"lookup", "done"} /\ outcome'[c] \in Outcomes
    BY <1>0, <1>8 DEF CallType, Outcomes
  <2>3. outcome'[c] # "accepted"
    BY <1>0, <1>5, <1>8 DEF CallInv, OutcomeInv
  <2>4. pc'[c] = "lookup" => auth'[c] \in Auths /\ Config[auth'[c]].issuer = tok'[c].iss
    BY <1>2, <1>3, <1>8
  <2> QED
    BY <1>0, <1>2, <1>7, <1>8, <2>1, <2>2, <2>3, <2>4 DEF CallType, Steps
<1>11. url[c] = NoURL /\ outcome[c] = "none"
  BY <1>0, <1>5 DEF CallInv, UrlInv, OutcomeInv
<1>12. CallInv(c)'
  <2>1. RouteInv(c)'
    BY <1>2, <1>3, <1>8, Zenon DEF RouteInv, Matching
  <2>2. UrlInv(c)'
    BY <1>8, <1>11, SMTT(40) DEF UrlInv, Own, NoURL
  <2>3. KeptInv(c)'
    BY <1>2, <1>5, <1>7, <1>8 DEF KeptInv, providerVars
  <2>4. OutcomeInv(c)'
    BY <1>8, <1>11 DEF OutcomeInv, Accepted, Found, Aborted
  <2> QED
    BY <2>1, <2>2, <2>3, <2>4 DEF CallInv
<1> QED
  BY <1>5, <1>7, <1>9, <1>10, <1>12, CallStep

LEMMA LookupStep ==
    ASSUME IInv, NEW c \in Calls, Lookup(c)
    PROVE  IInv'
<1> DEFINE hit == {k \in keys[auth[c]] : k.kid = tok[c].key.kid}
           cfg == Config[auth[c]]
<1>0. TypeOK /\ CallInv(c) /\ CallType(c) /\ pc[c] \in {"lookup", "recheck"}
  BY CallTypeOf DEF IInv, Lookup
<1>1. /\ auth[c] \in Auths /\ auth[c] = FirstOf(Matching(tok[c]))
      /\ Config[auth[c]].issuer = tok[c].iss /\ outcome[c] = "none" /\ tok[c] \in Token
  BY <1>0, Routed
<1>2. keys[auth[c]] \subseteq served[tok[c].iss]
  BY <1>1 DEF IInv, AuthInv
<1>3. /\ UNCHANGED <<providerVars, authVars, tok, auth, url, resp, kept, outage>>
      /\ \/ /\ hit = {} /\ pc[c] = "lookup"
            /\ pc' = [pc EXCEPT ![c] = "url"]
            /\ UNCHANGED <<outcome, claims>>
         \/ /\ pc' = [pc EXCEPT ![c] = "done"]
            /\ \/ /\ hit = {} /\ pc[c] = "recheck"
                  /\ outcome' = [outcome EXCEPT ![c] = "unknownKey"] /\ UNCHANGED claims
               \/ /\ hit # {} /\ tok[c].key \notin hit
                  /\ outcome' = [outcome EXCEPT ![c] = "badSignature"] /\ UNCHANGED claims
               \/ /\ tok[c].key \in hit
                  /\ \E p \in Payloads :
                        /\ claims' = [claims EXCEPT ![c] = p]
                        /\ outcome' = [outcome EXCEPT ![c] = Verdict(cfg, p)]
  BY DEF Lookup, Done
<1>4. \/ /\ pc'[c] = "url" /\ pc[c] = "lookup" /\ outcome'[c] = outcome[c] /\ claims'[c] = claims[c]
      \/ /\ pc'[c] = "done" /\ outcome'[c] = "unknownKey" /\ claims'[c] = claims[c]
         /\ hit = {} /\ pc[c] = "recheck"
      \/ /\ pc'[c] = "done" /\ outcome'[c] = "badSignature" /\ claims'[c] = claims[c]
         /\ hit # {} /\ tok[c].key \notin hit
      \/ /\ pc'[c] = "done" /\ tok[c].key \in hit /\ claims'[c] \in Payloads
         /\ outcome'[c] = Verdict(cfg, claims'[c])
  BY <1>0, <1>3, SMTT(40) DEF TypeOK
<1>5. Only(c) /\ HistoryType(c)'
  BY <1>0, <1>3, SameHistory, SMTT(40) DEF TypeOK, Only
<1> HIDE DEF hit, cfg
<1>6. /\ outcome'[c] \in {"none", "unknownKey", "badSignature", "accepted", "refused", "aborted"}
      /\ pc'[c] = "url" => outcome'[c] = "none"
      /\ outcome'[c] = "unknownKey" => hit = {} /\ pc[c] = "recheck"
      /\ outcome'[c] = "badSignature" => hit # {} /\ tok[c].key \notin hit
      /\ outcome'[c] = "accepted" =>
            /\ tok[c].key \in hit /\ claims'[c] \in Payloads
            /\ ClaimsPass(cfg, claims'[c]) /\ cfg.subject[claims'[c].cls] = "value"
      /\ outcome'[c] = "aborted" => ~cfg.claim /\ cfg.subject[claims'[c].cls] = "other"
  BY <1>1, <1>4, VerdictFacts, SMTT(40)
<1>7. CallType(c)'
  BY <1>0, <1>1, <1>3, <1>4, <1>6 DEF CallType, Steps, Outcomes
<1>8. CallInv(c)'
  <2>1. RouteInv(c)'
    BY <1>1, <1>3 DEF RouteInv, Matching
  <2>2. UrlInv(c)'
    BY <1>0, <1>3, <1>4 DEF UrlInv, CallInv, Own, providerVars
  <2>3. KeptInv(c)'
    BY <1>0, <1>3, <1>4 DEF CallInv, KeptInv, providerVars
  <2>4. Accepted(c)'
    BY <1>1, <1>2, <1>3, <1>6, ZenonT(40) DEF Accepted, providerVars, Matching, ClaimsPass, hit, cfg
  <2>5. Found(c)'
    BY <1>0, <1>1, <1>2, <1>3, <1>6 DEF Found, CallInv, KeptInv, providerVars, hit
  <2>6. Aborted(c)'
    BY <1>3, <1>6 DEF Aborted, cfg
  <2> QED
    BY <1>4, <1>6, <2>1, <2>2, <2>3, <2>4, <2>5, <2>6 DEF CallInv, OutcomeInv
<1> QED
  BY <1>0, <1>3, <1>5, <1>7, <1>8, CallStep

(* What a step of a call that has an authenticator starts from. *)
LEMMA AtCall ==
    ASSUME IInv, NEW c \in Calls, pc[c] \notin {"idle", "done"}
    PROVE  /\ TypeOK /\ CallInv(c) /\ CallType(c)
           /\ auth[c] \in Auths /\ auth[c] = FirstOf(Matching(tok[c])) /\ AuthInv(auth[c])
           /\ Config[auth[c]].issuer = tok[c].iss /\ tok[c].iss \in Issuers
           /\ tok[c] \in Token /\ outcome[c] = "none"
           /\ uri[tok[c].iss] \in Nat
<1>1. TypeOK /\ CallInv(c) /\ CallType(c)
  BY CallTypeOf DEF IInv
<1>2. /\ tok[c] \in Token /\ tok[c].iss \in Issuers /\ auth[c] \in Auths
      /\ auth[c] = FirstOf(Matching(tok[c])) /\ Config[auth[c]].issuer = tok[c].iss
      /\ outcome[c] = "none"
  BY <1>1, Routed
<1> QED
  BY <1>1, <1>2 DEF IInv, TypeOK

LEMMA ReadURLStep ==
    ASSUME IInv, NEW c \in Calls, ReadURL(c)
    PROVE  IInv'
<1> DEFINE a == auth[c]
<1>0. pc[c] = "url"
  BY DEF ReadURL
<1>1. /\ TypeOK /\ CallInv(c) /\ CallType(c) /\ a \in Auths /\ AuthInv(a)
      /\ a = FirstOf(Matching(tok[c])) /\ Config[a].issuer = tok[c].iss /\ outcome[c] = "none"
  BY <1>0, AtCall
<1>2. /\ UNCHANGED <<providerVars, authVars, tok, claims, auth, resp, outcome, kept, outage>>
      /\ \/ pc' = [pc EXCEPT ![c] = "discover"] /\ UNCHANGED url
         \/ /\ len[a] # None
            /\ pc' = [pc EXCEPT ![c] = "fetch"]
            /\ url' = [url EXCEPT ![c] = [ptr |-> ptr[a], len |-> len[a]]]
  BY DEF ReadURL
<1>3. \/ pc'[c] = "discover" /\ url'[c] = url[c]
      \/ /\ len[a] # None /\ pc'[c] = "fetch"
         /\ url'[c] = [ptr |-> ptr[a], len |-> len[a]]
  BY <1>1, <1>2 DEF TypeOK
<1>4. Only(c) /\ HistoryType(c)'
  <2>1. pc' = [pc EXCEPT ![c] = pc'[c]] /\ url' = [url EXCEPT ![c] = url'[c]]
    BY <1>1, <1>2, <1>3 DEF TypeOK
  <2>2. /\ tok' = [tok EXCEPT ![c] = tok'[c]] /\ claims' = [claims EXCEPT ![c] = claims'[c]]
        /\ auth' = [auth EXCEPT ![c] = auth'[c]] /\ resp' = [resp EXCEPT ![c] = resp'[c]]
        /\ outcome' = [outcome EXCEPT ![c] = outcome'[c]]
    BY <1>1, <1>2 DEF TypeOK
  <2>3. /\ kept' = [kept EXCEPT ![c] = kept'[c]] /\ outage' = [outage EXCEPT ![c] = outage'[c]]
        /\ HistoryType(c)'
    BY <1>1, <1>2, SameHistory
  <2> QED
    BY <2>1, <2>2, <2>3 DEF Only
<1>5. CallType(c)'
  <2>1. ptr[a] \in URL \cup {None} /\ len[a] \in URL \cup {None}
    BY <1>1 DEF TypeOK
  <2> QED
    BY <1>0, <1>1, <1>2, <1>3, <2>1, SMTT(40) DEF CallType, Steps
<1>6. CallInv(c)'
  <2>1. RouteInv(c)'
    BY <1>1, <1>2 DEF RouteInv, Matching
  <2>2. UrlInv(c)'
    <3>1. /\ Own(tok[c].iss, ptr[a]) /\ Own(tok[c].iss, len[a])
          /\ Own(tok[c].iss, url[c].ptr) /\ Own(tok[c].iss, url[c].len)
      BY <1>0, <1>1 DEF CallInv, UrlInv, AuthInv
    <3>2. Own(tok[c].iss, url'[c].ptr) /\ Own(tok[c].iss, url'[c].len)
      BY <1>3, <3>1, SMTT(40)
    <3>3. pc'[c] = "fetch" => url'[c].len # None
      BY <1>3, SMTT(40)
    <3>4. pc'[c] \in {"discover", "fetch"} /\ tok' = tok /\ uri' = uri
      BY <1>2, <1>3 DEF providerVars
    <3> QED
      BY <3>2, <3>3, <3>4, SMTT(40) DEF UrlInv, Own
  <2>3. KeptInv(c)'
    BY <1>0, <1>1, <1>2, <1>3 DEF CallInv, KeptInv, providerVars
  <2>4. OutcomeInv(c)'
    BY <1>1, <1>2 DEF OutcomeInv, Accepted, Found, Aborted
  <2> QED
    BY <2>1, <2>2, <2>3, <2>4 DEF CallInv
<1> QED
  BY <1>0, <1>2, <1>4, <1>5, <1>6, CallStep

LEMMA DiscoverStep ==
    ASSUME IInv, NEW c \in Calls, Discover(c)
    PROVE  IInv'
<1> DEFINE a == auth[c]
           i == tok[c].iss
<1>0. pc[c] = "discover"
  BY DEF Discover
<1>1. /\ TypeOK /\ CallInv(c) /\ CallType(c) /\ a \in Auths /\ i \in Issuers
      /\ a = FirstOf(Matching(tok[c])) /\ Config[a].issuer = i /\ outcome[c] = "none"
      /\ uri[i] \in Nat
  BY <1>0, AtCall
<1>2. /\ UNCHANGED <<providerVars, authVars, tok, claims, auth, resp, kept, outage>>
      /\ \/ /\ url' = [url EXCEPT ![c] = Whole(Location(i))]
            /\ pc' = [pc EXCEPT ![c] = "write"]
            /\ UNCHANGED outcome
         \/ /\ ~up[i] \/ Config[a].doc # i
            /\ pc' = [pc EXCEPT ![c] = "done"]
            /\ outcome' = [outcome EXCEPT ![c] = "fetchError"]
            /\ UNCHANGED url
  BY <1>1 DEF Discover, Done
<1>3. \/ pc'[c] = "write" /\ url'[c] = Whole(Location(i)) /\ outcome'[c] = "none"
      \/ /\ pc'[c] = "done" /\ url'[c] = url[c] /\ outcome'[c] = "fetchError"
         /\ ~up[i] \/ Config[a].doc # i
  BY <1>1, <1>2 DEF TypeOK
<1>4. Only(c) /\ HistoryType(c)'
  BY <1>1, <1>2, SameHistory, SMTT(40) DEF TypeOK, Only
<1>5. Location(i) \in URL /\ Location(i).iss = i /\ Location(i).n = uri[i] /\ Location(i) # None
  BY <1>1, OidcAssumption, SMTT(40) DEF Location, URL
<1>6. CallType(c)'
  BY <1>0, <1>1, <1>2, <1>3, <1>5, SMTT(40) DEF CallType, Steps, Outcomes, Whole
<1>7. CallInv(c)'
  <2>1. RouteInv(c)'
    BY <1>1, <1>2 DEF RouteInv, Matching
  <2>2. UrlInv(c)'
    <3>1. uri' = uri /\ tok'[c].iss = i
      BY <1>2 DEF providerVars
    <3>2. CASE pc'[c] = "write"
      <4>1. url'[c].ptr = Location(i) /\ url'[c].len = Location(i)
        BY <1>3, <3>2, SMTT(40) DEF Whole
      <4>2. uri[i] <= uri[i]
        BY <1>1, SMTT(40)
      <4> QED
        BY <1>5, <3>1, <3>2, <4>1, <4>2 DEF UrlInv, Own
    <3>3. CASE pc'[c] = "done"
      BY <1>0, <1>1, <1>3, <3>1, <3>3 DEF CallInv, UrlInv, Own
    <3> QED
      BY <1>3, <3>2, <3>3
  <2>3. KeptInv(c)'
    BY <1>0, <1>1, <1>2, <1>3 DEF CallInv, KeptInv, providerVars
  <2>4. Found(c)'
    BY <1>0, <1>1, <1>2, <1>3 DEF CallInv, KeptInv, Found
  <2> QED
    BY <1>3, <2>1, <2>2, <2>3, <2>4 DEF CallInv, OutcomeInv, Accepted, Aborted
<1> QED
  BY <1>0, <1>2, <1>4, <1>6, <1>7, CallStep

LEMMA FetchStep ==
    ASSUME IInv, NEW c \in Calls, Fetch(c)
    PROVE  IInv'
<1> DEFINE i == tok[c].iss
           u == url[c]
<1>0. pc[c] = "fetch"
  BY DEF Fetch
<1>1. /\ TypeOK /\ CallInv(c) /\ CallType(c) /\ i \in Issuers /\ auth[c] \in Auths
      /\ auth[c] = FirstOf(Matching(tok[c])) /\ Config[auth[c]].issuer = i
      /\ outcome[c] = "none" /\ uri[i] \in Nat
  BY <1>0, AtCall
<1>2. Own(i, u.ptr) /\ Own(i, u.len) /\ u.len # None
  BY <1>0, <1>1 DEF CallInv, UrlInv
<1>3. UNCHANGED <<providerVars, authVars, tok, claims, auth, kept, outage>>
  BY DEF Fetch
<1>4. CASE /\ u.ptr = None /\ pc' = [pc EXCEPT ![c] = "done"]
           /\ outcome' = [outcome EXCEPT ![c] = "aborted"] /\ UNCHANGED <<url, resp>>
  <2>1. pc'[c] = "done" /\ outcome'[c] = "aborted" /\ url'[c] = u /\ resp'[c] = resp[c]
    BY <1>1, <1>4 DEF TypeOK
  <2>2. Only(c) /\ HistoryType(c)'
    BY <1>1, <1>3, <1>4, SameHistory, SMTT(40) DEF TypeOK, Only
  <2>3. CallType(c)'
    BY <1>0, <1>1, <1>3, <2>1 DEF CallType, Steps, Outcomes
  <2>4. RouteInv(c)' /\ UrlInv(c)' /\ KeptInv(c)'
    <3>1. RouteInv(c)'
      BY <1>1, <1>3 DEF RouteInv, Matching
    <3>2. UrlInv(c)'
      BY <1>2, <1>3, <2>1 DEF UrlInv, Own, providerVars
    <3>3. KeptInv(c)'
      BY <1>0, <1>1, <1>3, <2>1 DEF CallInv, KeptInv, providerVars
    <3> QED
      BY <3>1, <3>2, <3>3
  <2>5. OutcomeInv(c)'
    BY <1>2, <1>4, <2>1 DEF OutcomeInv, Accepted, Found, Aborted
  <2> QED
    BY <1>0, <1>3, <2>2, <2>3, <2>4, <2>5, CallStep DEF CallInv
<1>5. CASE /\ u.ptr # None /\ (u.ptr # u.len \/ ~Reaches(u.ptr))
           /\ pc' = [pc EXCEPT ![c] = "done"]
           /\ outcome' = [outcome EXCEPT ![c] = "fetchError"] /\ UNCHANGED <<url, resp>>
  <2>1. pc'[c] = "done" /\ outcome'[c] = "fetchError" /\ url'[c] = u /\ resp'[c] = resp[c]
    BY <1>1, <1>5 DEF TypeOK
  <2>2. Only(c) /\ HistoryType(c)'
    BY <1>1, <1>3, <1>5, SameHistory, SMTT(40) DEF TypeOK, Only
  <2>3. CallType(c)'
    BY <1>0, <1>1, <1>3, <2>1 DEF CallType, Steps, Outcomes
  <2>4. RouteInv(c)' /\ UrlInv(c)' /\ KeptInv(c)'
    <3>1. RouteInv(c)'
      BY <1>1, <1>3 DEF RouteInv, Matching
    <3>2. UrlInv(c)'
      BY <1>2, <1>3, <2>1 DEF UrlInv, Own, providerVars
    <3>3. KeptInv(c)'
      BY <1>0, <1>1, <1>3, <2>1 DEF CallInv, KeptInv, providerVars
    <3> QED
      BY <3>1, <3>2, <3>3
  <2>5. u.ptr \in URL /\ u.len \in URL
    BY <1>2, <1>5 DEF Own
  <2>6. u.ptr = u.len /\ u.ptr = Location(i) => outage[c]
    BY <1>0, <1>1, <1>5, SMTT(40) DEF Reaches, Location, CallInv, KeptInv
  <2>7. uri[i] = 0 => u.ptr = Location(i) /\ u.len = Location(i)
    BY <1>1, <1>2, <1>5, <2>5, SMTT(40) DEF Own, Location, URL
  <2>8. outage[c] \/ (uri[i] > 0 /\ u # Whole(Location(i)))
    BY <1>1, <2>6, <2>7, SMTT(40) DEF Whole
  <2>9. OutcomeInv(c)'
    BY <1>1, <1>3, <2>1, <2>8 DEF OutcomeInv, Accepted, Found, Aborted, Whole, Location, providerVars
  <2> QED
    BY <1>0, <1>3, <2>2, <2>3, <2>4, <2>9, CallStep DEF CallInv
<1>6. CASE /\ u.ptr # None /\ Reaches(u.ptr)
           /\ resp' = [resp EXCEPT ![c] = jwks[u.ptr.iss]]
           /\ url' = [url EXCEPT ![c] = NoURL]
           /\ pc' = [pc EXCEPT ![c] = "store"] /\ UNCHANGED outcome
  <2>1. u.ptr.iss = i
    BY <1>2, <1>6 DEF Own
  <2>2. pc'[c] = "store" /\ outcome'[c] = "none" /\ url'[c] = NoURL /\ resp'[c] = jwks[i]
    BY <1>1, <1>6, <2>1 DEF TypeOK
  <2>3. Only(c) /\ HistoryType(c)'
    BY <1>1, <1>3, <1>6, SameHistory, SMTT(40) DEF TypeOK, Only
  <2>4. CallType(c)'
    <3>1. jwks[i] \in SUBSET Key
      BY <1>1 DEF TypeOK
    <3> QED
      BY <1>0, <1>1, <1>3, <2>2, <3>1, SMTT(40) DEF CallType, Steps, NoURL
  <2>5. RouteInv(c)' /\ UrlInv(c)'
    BY <1>1, <1>3, <2>2, SMTT(40) DEF RouteInv, Matching, UrlInv, Own, NoURL
  <2>6. KeptInv(c)'
    <3>1. jwks[i] \subseteq served[i] /\ Unique(jwks[i])
      BY <1>1 DEF IInv, ProviderInv
    <3> QED
      BY <1>0, <1>1, <1>3, <2>2, <3>1 DEF CallInv, KeptInv, providerVars, Unique
  <2>7. OutcomeInv(c)'
    BY <2>2 DEF OutcomeInv, Accepted, Found, Aborted
  <2> QED
    BY <1>0, <1>3, <2>3, <2>4, <2>5, <2>6, <2>7, CallStep DEF CallInv
<1> QED
  BY <1>4, <1>5, <1>6 DEF Fetch, Done

LEMMA ReturnStep ==
    ASSUME IInv, NEW c \in Calls, Return(c)
    PROVE  IInv'
<1>0. TypeOK /\ pc[c] = "done" /\ CallType(c)
  BY CallTypeOf DEF IInv, Return
<1>1. kept'[c] = FALSE /\ outage'[c] = FALSE
  BY <1>0, Zenon DEF Return, TypeOK
<1>2. /\ pc'[c] = "idle" /\ tok'[c] = None /\ claims'[c] = None /\ auth'[c] = 0
      /\ url'[c] = NoURL /\ outcome'[c] = "none" /\ resp'[c] = resp[c]
  BY <1>0 DEF Return, TypeOK
<1>3. kept' = [kept EXCEPT ![c] = kept'[c]] /\ outage' = [outage EXCEPT ![c] = outage'[c]]
  BY <1>1, Zenon DEF Return
<1>4. Only(c)
  BY <1>0, <1>2, <1>3 DEF Return, TypeOK, Only
<1>5. CallType(c)' /\ HistoryType(c)'
  <2>1. 0 \in 0 .. Len(Config)
    BY OidcAssumption, SMTT(40)
  <2>2. NoURL \in [ptr : URL \cup {None}, len : URL \cup {None}]
    BY DEF NoURL
  <2>3. CallType(c)'
    BY <1>0, <1>2, <2>1, <2>2 DEF CallType, Steps, Outcomes
  <2> QED
    BY <1>1, <2>3, Zenon DEF HistoryType
<1>6. CallInv(c)'
  BY <1>2 DEF CallInv, RouteInv, UrlInv, KeptInv, OutcomeInv, Accepted, Found, Aborted
<1>7. UNCHANGED providerVars /\ UNCHANGED authVars
  BY DEF Return
<1> QED
  BY <1>0, <1>4, <1>5, <1>6, <1>7, CallStep

(* A step that stores something is settled by its own call and by what it   *)
(* leaves of the authenticators.                                            *)
LEMMA StoringStep ==
    ASSUME IInv, NEW c \in Calls, UNCHANGED providerVars,
           Only(c), CallType(c)', HistoryType(c)',
           ptr' \in [Auths -> URL \cup {None}], len' \in [Auths -> URL \cup {None}],
           keys' \in [Auths -> SUBSET Usable(Key)], \A a \in Auths : Unique(keys'[a]),
           Grows, \A a \in Auths : AuthInv(a)', CallInv(c)'
    PROVE  IInv'
<1>0. TypeOK' /\ \A d \in Calls \ {c} : Same(d)
  BY OnlyTyped DEF IInv
<1>1. ProviderInv'
  BY DEF IInv, ProviderInv, providerVars, Unique
<1>2. ASSUME NEW d \in Calls \ {c} PROVE CallInv(d)'
  BY <1>0, <1>2, OtherCall DEF IInv
<1> QED
  BY <1>0, <1>1, <1>2, Zenon DEF IInv

LEMMA WriteURLStep ==
    ASSUME IInv, NEW c \in Calls, WriteURL(c)
    PROVE  IInv'
<1> DEFINE a == auth[c]
           i == tok[c].iss
<1>0. pc[c] \in {"write", "writePtr", "writeLen"}
  BY DEF WriteURL
<1>1. /\ TypeOK /\ CallInv(c) /\ CallType(c) /\ a \in Auths /\ i \in Issuers
      /\ a = FirstOf(Matching(tok[c])) /\ Config[a].issuer = i /\ outcome[c] = "none"
      /\ tok[c] \in Token
  BY <1>0, AtCall
<1>2. /\ Own(i, url[c].ptr) /\ Own(i, url[c].len)
      /\ url[c].ptr # None /\ url[c].len # None
      /\ pc[c] = "writeLen" => ptr[a] # None
      /\ pc[c] = "writePtr" => len[a] # None
  BY <1>0, <1>1 DEF CallInv, UrlInv
<1>3. url[c].ptr \in URL /\ url[c].len \in URL
  BY <1>2 DEF Own
<1>4. UNCHANGED <<providerVars, keys, tok, claims, auth, url, resp, outcome, kept, outage>>
  BY DEF WriteURL
<1>5. \/ /\ ptr' = [ptr EXCEPT ![a] = url[c].ptr] /\ len' = len
         /\ \/ pc[c] = "write" /\ pc' = [pc EXCEPT ![c] = "writeLen"]
            \/ pc[c] = "writePtr" /\ pc' = [pc EXCEPT ![c] = "fetch"]
      \/ /\ len' = [len EXCEPT ![a] = url[c].len] /\ ptr' = ptr
         /\ \/ pc[c] = "write" /\ pc' = [pc EXCEPT ![c] = "writePtr"]
            \/ pc[c] = "writeLen" /\ pc' = [pc EXCEPT ![c] = "fetch"]
  BY DEF WriteURL
<1>6. /\ pc' \in [Calls -> Steps] /\ pc'[c] \in {"writePtr", "writeLen", "fetch"}
      /\ pc'[c] = "writeLen" => ptr'[a] # None
      /\ pc'[c] = "writePtr" => len'[a] # None
      /\ pc'[c] = "fetch" => ptr'[a] # None /\ len'[a] # None
      /\ \A d \in Calls \ {c} : pc'[d] = pc[d]
  BY <1>1, <1>2, <1>5, Zenon DEF TypeOK, Steps
<1>7. /\ ptr' \in [Auths -> URL \cup {None}] /\ len' \in [Auths -> URL \cup {None}]
      /\ ptr'[a] \in {ptr[a], url[c].ptr} /\ len'[a] \in {len[a], url[c].len}
      /\ \A b \in Auths \ {a} : ptr'[b] = ptr[b] /\ len'[b] = len[b]
  BY <1>1, <1>3, <1>5, Zenon DEF TypeOK
<1>8. Grows
  BY <1>1, <1>2, <1>4, <1>7 DEF Grows
<1>9. Only(c) /\ HistoryType(c)'
  BY <1>1, <1>4, <1>5, SameHistory DEF TypeOK, Only
<1>10. CallType(c)'
  BY <1>0, <1>1, <1>4, <1>6 DEF CallType, Steps
<1>11. CallInv(c)'
  <2>1. RouteInv(c)'
    BY <1>1, <1>4 DEF RouteInv, Matching
  <2>2. UrlInv(c)'
    BY <1>2, <1>4, <1>6 DEF UrlInv, Own, providerVars
  <2>3. KeptInv(c)'
    BY <1>0, <1>1, <1>4, <1>6 DEF CallInv, KeptInv, providerVars
  <2>4. OutcomeInv(c)'
    BY <1>1, <1>4 DEF OutcomeInv, Accepted, Found, Aborted
  <2> QED
    BY <2>1, <2>2, <2>3, <2>4 DEF CallInv
<1>12. ASSUME NEW b \in Auths PROVE AuthInv(b)'
  <2>1. AuthInv(b)
    BY <1>12 DEF IInv
  <2>2. keys'[b] \subseteq served'[Config[b].issuer]
    BY <1>4, <2>1 DEF AuthInv, providerVars
  <2>3. Own(Config[b].issuer, ptr[b])' /\ Own(Config[b].issuer, len[b])'
    BY <1>1, <1>2, <1>4, <1>7, <2>1 DEF AuthInv, Own, providerVars
  <2>4. CASE b = a
    <3>1. Writing(b)' = {} => pc'[c] = "fetch"
      BY <1>4, <1>6, <2>4 DEF Writing
    <3>2. Writing(b)' = {} => ptr'[b] # None /\ len'[b] # None
      BY <1>6, <2>4, <3>1
    <3> QED
      BY <2>2, <2>3, <3>2 DEF AuthInv
  <2>5. CASE b # a
    <3>1. Writing(b)' = {} => Writing(b) = {}
      BY <1>4, <1>6, <2>5 DEF Writing
    <3> QED
      BY <1>7, <2>1, <2>2, <2>3, <2>5, <3>1 DEF AuthInv
  <2> QED
    BY <2>4, <2>5
<1>13. keys' \in [Auths -> SUBSET Usable(Key)] /\ \A b \in Auths : Unique(keys'[b])
  BY <1>1, <1>4 DEF TypeOK, Unique
<1> QED
  BY <1>4, <1>7, <1>8, <1>9, <1>10, <1>11, <1>12, <1>13, StoringStep

LEMMA StoreStep ==
    ASSUME IInv, NEW c \in Calls, Store(c)
    PROVE  IInv'
<1> DEFINE a == auth[c]
           i == tok[c].iss
<1>0. pc[c] = "store"
  BY DEF Store
<1>1. /\ TypeOK /\ CallInv(c) /\ CallType(c) /\ a \in Auths /\ AuthInv(a) /\ i \in Issuers
      /\ a = FirstOf(Matching(tok[c])) /\ Config[a].issuer = i /\ outcome[c] = "none"
      /\ tok[c] \in Token
  BY <1>0, AtCall
<1>2. /\ resp[c] \subseteq served[i] /\ Unique(resp[c]) /\ resp[c] \subseteq Key
      /\ kept[c] => tok[c].key \in resp[c]
  BY <1>0, <1>1 DEF CallInv, KeptInv, CallType
<1>3. /\ UNCHANGED <<providerVars, ptr, len, tok, claims, auth, url, outcome, kept, outage>>
      /\ keys' = [keys EXCEPT ![a] = Merge(keys[a], resp[c])]
      /\ resp' = [resp EXCEPT ![c] = {}]
      /\ pc' = [pc EXCEPT ![c] = "recheck"]
  BY DEF Store
<1>4. /\ keys'[a] = Merge(keys[a], resp[c]) /\ \A b \in Auths \ {a} : keys'[b] = keys[b]
      /\ pc'[c] = "recheck" /\ resp'[c] = {} /\ \A d \in Calls \ {c} : pc'[d] = pc[d]
  BY <1>1, <1>3 DEF TypeOK
<1>5. keys[a] \subseteq Usable(Key) /\ keys[a] \subseteq served[i] /\ Unique(keys[a])
  BY <1>1 DEF TypeOK, AuthInv, Unique
<1>6. /\ Merge(keys[a], resp[c]) \subseteq served[i]
      /\ Unique(Merge(keys[a], resp[c]))
      /\ \A k \in keys[a] : \E n \in Merge(keys[a], resp[c]) : n.kid = k.kid
      /\ \A k \in resp[c] : k.kid \notin NoSig => k \in Merge(keys[a], resp[c])
  BY <1>2, <1>5, MergeFacts
<1>7. Merge(keys[a], resp[c]) \subseteq Usable(Key)
  BY <1>2, <1>5 DEF Merge, Usable
<1>8. keys' \in [Auths -> SUBSET Usable(Key)] /\ \A b \in Auths : Unique(keys'[b])
  <2>1. keys' \in [Auths -> SUBSET Usable(Key)]
    BY <1>1, <1>3, <1>7 DEF TypeOK
  <2>2. ASSUME NEW b \in Auths PROVE Unique(keys'[b])
    <3>1. b # a => Unique(keys[b])
      BY <1>1, <2>2 DEF TypeOK, Unique
    <3> QED
      BY <1>4, <1>6, <2>2, <3>1
  <2> QED
    BY <2>1, <2>2
<1>9. Grows
  <2>1. \A b \in Auths : \A k \in keys[b] : \E n \in keys'[b] : n.kid = k.kid
    BY <1>4, <1>6
  <2>2. ptr' = ptr /\ len' = len
    BY <1>3
  <2> QED
    BY <2>1, <2>2 DEF Grows
<1>10. Only(c) /\ HistoryType(c)'
  <2>1. /\ pc' = [pc EXCEPT ![c] = pc'[c]] /\ resp' = [resp EXCEPT ![c] = resp'[c]]
    BY <1>3, <1>4, Zenon
  <2> QED
    BY <1>1, <1>3, <2>1, SameHistory DEF TypeOK, Only
<1>11. CallType(c)'
  BY <1>0, <1>1, <1>3, <1>4 DEF CallType, Steps
<1>12. CallInv(c)'
  <2>1. RouteInv(c)'
    BY <1>1, <1>3 DEF RouteInv, Matching
  <2>2. UrlInv(c)'
    BY <1>0, <1>1, <1>3, <1>4 DEF CallInv, UrlInv, Own, providerVars
  <2>3. KeptInv(c)'
    <3>1. kept[c] /\ tok[c].key.kid \notin NoSig =>
             \E k \in keys'[auth'[c]] : k.kid = tok[c].key.kid
      BY <1>2, <1>3, <1>4, <1>6, SMTT(40)
    <3> QED
      BY <1>0, <1>1, <1>3, <1>4, <3>1 DEF CallInv, KeptInv, providerVars
  <2>4. OutcomeInv(c)'
    BY <1>1, <1>3 DEF OutcomeInv, Accepted, Found, Aborted
  <2> QED
    BY <2>1, <2>2, <2>3, <2>4 DEF CallInv
<1>13. ASSUME NEW b \in Auths PROVE AuthInv(b)'
  <2>1. AuthInv(b)
    BY <1>13 DEF IInv
  <2>2. Writing(b)' = {} => Writing(b) = {}
    BY <1>0, <1>3, <1>4 DEF Writing
  <2>3. keys'[b] \subseteq served[Config[b].issuer]
    BY <1>1, <1>4, <1>6, <2>1, ZenonT(60) DEF AuthInv
  <2> QED
    BY <1>3, <2>1, <2>2, <2>3 DEF AuthInv, Own, providerVars
<1>14. ptr' \in [Auths -> URL \cup {None}] /\ len' \in [Auths -> URL \cup {None}]
  BY <1>1, <1>3 DEF TypeOK
<1> QED
  BY <1>3, <1>8, <1>9, <1>10, <1>11, <1>12, <1>13, <1>14, StoringStep

-----------------------------------------------------------------------------
(* Steps of the identity providers.                                        *)

LEMMA RotateStep ==
    ASSUME IInv, NEW i \in Issuers, NEW k \in Kids, Rotate(i, k)
    PROVE  IInv'
<1> DEFINE new == [kid |-> k, mat |-> mats + 1]
<1>0. TypeOK /\ ProviderInv
  BY DEF IInv
<1>1. PICK keep \in SUBSET {x \in jwks[i] : x.kid # k} :
         /\ jwks' = [jwks EXCEPT ![i] = keep \cup {new}]
         /\ served' = [served EXCEPT ![i] = @ \cup {new}]
         /\ kept' = [c \in Calls |-> kept[c] /\ (c \in Busy(i) => tok[c].key \in keep)]
  BY Zenon DEF Rotate
<1>2. /\ mats' = mats + 1 /\ mats < MaxMat
      /\ UNCHANGED <<uri, up, authVars, pc, tok, claims, auth, url, resp, outcome, outage>>
  BY DEF Rotate
<1>3. new \in Key /\ new.kid = k
  BY <1>0, <1>2, OidcAssumption, SMTT(40) DEF TypeOK, Key
<1> HIDE DEF new
<1>4. /\ jwks'[i] = keep \cup {new} /\ served'[i] = served[i] \cup {new}
      /\ \A j \in Issuers \ {i} : jwks'[j] = jwks[j] /\ served'[j] = served[j]
      /\ keep \subseteq jwks[i] /\ \A x \in keep : x.kid # k
  BY <1>0, <1>1 DEF TypeOK
<1>5. \A j \in Issuers : served[j] \subseteq served'[j]
  BY <1>4
<1>6. kept' \in [Calls -> BOOLEAN] /\ \A c \in Calls : kept'[c] => kept[c] /\ (c \in Busy(i) => tok[c].key \in keep)
  BY <1>1, Zenon
<1>7. TypeOK'
  <2>1. jwks' \in [Issuers -> SUBSET Key] /\ served' \in [Issuers -> SUBSET Key]
    BY <1>0, <1>1, <1>3, <1>4, ZenonT(60) DEF TypeOK
  <2>2. mats' \in 0 .. MaxMat
    BY <1>0, <1>2, OidcAssumption, SMTT(40) DEF TypeOK
  <2> QED
    BY <1>0, <1>2, <1>6, <2>1, <2>2 DEF TypeOK, authVars
<1>8. ProviderInv'
  <2> SUFFICES ASSUME NEW j \in Issuers PROVE jwks'[j] \subseteq served'[j] /\ Unique(jwks'[j])
    BY DEF ProviderInv, Unique
  <2>1. jwks[j] \subseteq served[j] /\ Unique(jwks[j])
    BY <1>0 DEF ProviderInv
  <2>2. CASE j = i
    BY <1>3, <1>4, <2>1, <2>2 DEF Unique
  <2>3. CASE j # i
    BY <1>4, <2>1, <2>3
  <2> QED
    BY <2>2, <2>3
<1>9. ASSUME NEW a \in Auths PROVE AuthInv(a)'
  <2>1. AuthInv(a) /\ Config[a].issuer \in Issuers
    BY <1>9, ConfigFields DEF IInv
  <2> QED
    BY <1>2, <1>5, <2>1 DEF AuthInv, Own, Writing, authVars
<1>10. ASSUME NEW c \in Calls PROVE CallInv(c)'
  <2>1. CallInv(c) /\ CallType(c)
    BY <1>0, <1>10, CallTypeOf DEF IInv
  <2>2. pc[c] # "idle" => tok[c].iss \in Issuers
    BY <2>1 DEF CallType, Token
  <2>3. RouteInv(c)' /\ UrlInv(c)'
    BY <1>2, <2>1 DEF CallInv, RouteInv, UrlInv, Matching, Own, authVars
  <2>4. KeptInv(c)'
    <3>1. pc[c] # "idle" /\ kept'[c] => tok[c].key \in jwks'[tok[c].iss]
      BY <1>4, <1>6, <1>10, <2>1, <2>2 DEF CallInv, KeptInv, Busy
    <3>2. pc[c] = "store" => resp[c] \subseteq served'[tok[c].iss]
      BY <1>5, <2>1, <2>2 DEF CallInv, KeptInv
    <3> QED
      BY <1>2, <1>6, <1>10, <2>1, <3>1, <3>2 DEF CallInv, KeptInv, authVars, Unique
  <2>5. OutcomeInv(c)'
    <3>1. outcome[c] \notin {"none", "noAuthenticator"} =>
             /\ pc[c] # "idle" /\ tok[c].iss \in Issuers
             /\ Config[auth[c]].issuer = tok[c].iss
      BY <2>1, <2>2 DEF CallInv, OutcomeInv, RouteInv
    <3>2. Accepted(c)'
      BY <1>2, <1>5, <2>1, <3>1 DEF CallInv, OutcomeInv, Accepted, Matching, ClaimsPass
    <3>3. Found(c)'
      BY <1>2, <1>5, <1>6, <1>10, <2>1, <3>1 DEF CallInv, OutcomeInv, Found, Whole, Location
    <3> QED
      BY <1>2, <2>1, <3>2, <3>3 DEF CallInv, OutcomeInv, Aborted
  <2> QED
    BY <2>3, <2>4, <2>5 DEF CallInv
<1> QED
  BY <1>7, <1>8, <1>9, <1>10, Zenon DEF IInv

LEMMA MoveStep ==
    ASSUME IInv, NEW i \in Issuers, Move(i)
    PROVE  IInv'
<1>0. TypeOK /\ ProviderInv
  BY DEF IInv
<1>1. /\ uri' = [uri EXCEPT ![i] = @ + 1]
      /\ UNCHANGED <<jwks, up, mats, served, authVars, callVars>>
  BY DEF Move
<1>2. /\ uri' \in [Issuers -> Nat] /\ uri'[i] = uri[i] + 1
      /\ \A j \in Issuers : uri'[j] \in {uri[j], uri[j] + 1} /\ uri[j] \in Nat
  BY <1>0, <1>1, SMTT(40) DEF TypeOK
<1>3. TypeOK'
  BY <1>0, <1>1, <1>2 DEF TypeOK, authVars, callVars
<1>4. ProviderInv'
  BY <1>0, <1>1 DEF ProviderInv, Unique
<1>5. ASSUME NEW j \in Issuers, NEW u, Own(j, u) PROVE u = None \/ (u \in URL /\ u.iss = j /\ u.n <= uri'[j])
  <2>1. u # None => u.n \in Nat
    BY <1>5 DEF Own, URL
  <2> QED
    BY <1>2, <1>5, <2>1, SMTT(40) DEF Own
<1>6. ASSUME NEW a \in Auths PROVE AuthInv(a)'
  <2>1. AuthInv(a) /\ Config[a].issuer \in Issuers
    BY <1>6, ConfigFields DEF IInv
  <2>2. Own(Config[a].issuer, ptr[a])' /\ Own(Config[a].issuer, len[a])'
    BY <1>1, <1>5, <2>1 DEF AuthInv, Own, authVars
  <2> QED
    BY <1>1, <2>1, <2>2 DEF AuthInv, Writing, authVars, callVars
<1>7. ASSUME NEW c \in Calls PROVE CallInv(c)'
  <2>1. CallInv(c) /\ CallType(c)
    BY <1>0, <1>7, CallTypeOf DEF IInv
  <2>2. pc[c] # "idle" => tok[c].iss \in Issuers
    BY <2>1 DEF CallType, Token
  <2>3. RouteInv(c)'
    BY <1>1, <2>1 DEF CallInv, RouteInv, Matching, callVars
  <2>4. UrlInv(c)'
    <3>1. pc[c] # "idle" => Own(tok[c].iss, url[c].ptr)' /\ Own(tok[c].iss, url[c].len)'
      BY <1>1, <1>5, <2>1, <2>2 DEF CallInv, UrlInv, Own, callVars
    <3> QED
      BY <1>1, <2>1, <3>1 DEF CallInv, UrlInv, callVars, authVars
  <2>5. KeptInv(c)'
    BY <1>1, <2>1 DEF CallInv, KeptInv, authVars, callVars, Unique
  <2>6. OutcomeInv(c)'
    <3>1. outcome[c] \notin {"none", "noAuthenticator"} =>
             /\ pc[c] # "idle" /\ tok[c].iss \in Issuers
             /\ Config[auth[c]].issuer = tok[c].iss
      BY <2>1, <2>2 DEF CallInv, OutcomeInv, RouteInv
    <3>2. ASSUME NEW j \in Issuers, Own(j, url[c].ptr), url[c] # Whole(Location(j)), uri[j] > 0
          PROVE  uri'[j] > 0 /\ url[c] # Whole([iss |-> j, n |-> uri'[j]])
      <4>1. CASE uri'[j] = uri[j]
        BY <3>2, <4>1 DEF Location
      <4>2. CASE uri'[j] = uri[j] + 1
        <5>1. url[c] = Whole([iss |-> j, n |-> uri'[j]]) => url[c].ptr = [iss |-> j, n |-> uri[j] + 1]
          BY <4>2, SMTT(40) DEF Whole
        <5>2. [iss |-> j, n |-> uri[j] + 1] \in [iss : Issuers, n : Nat]
          BY <1>2, <3>2, SMTT(40)
        <5>3. url[c].ptr # [iss |-> j, n |-> uri[j] + 1]
          <6>1. [iss |-> j, n |-> uri[j] + 1] # None
            BY <5>2, OidcAssumption
          <6>2. [iss |-> j, n |-> uri[j] + 1].n = uri[j] + 1
            OBVIOUS
          <6> QED
            BY <1>2, <3>2, <6>1, <6>2, SMTT(40) DEF Own
        <5> QED
          BY <1>2, <3>2, <4>2, <5>1, <5>3, SMTT(40)
      <4> QED
        BY <1>2, <3>2, <4>1, <4>2
    <3>3. Found(c)'
      BY <1>1, <2>1, <3>1, <3>2 DEF CallInv, UrlInv, OutcomeInv, Found, Location, callVars
    <3> QED
      BY <1>1, <2>1, <3>3 DEF CallInv, OutcomeInv, Accepted, Aborted, Matching, ClaimsPass, callVars
  <2> QED
    BY <2>3, <2>4, <2>5, <2>6 DEF CallInv
<1> QED
  BY <1>3, <1>4, <1>6, <1>7, Zenon DEF IInv

(* An outage, or its end, changes nothing but outage. *)
LEMMA OutageStep ==
    ASSUME IInv, UNCHANGED <<jwks, uri, mats, served, authVars, pc, tok, claims, auth, url, resp, outcome, kept>>,
           up' \in [Issuers -> BOOLEAN], outage' \in [Calls -> BOOLEAN],
           \A c \in Calls : outage[c] => outage'[c],
           \A c \in Calls : pc[c] \notin {"idle", "store", "recheck", "done"} /\ ~up'[tok[c].iss] =>
               ~up[tok[c].iss] \/ outage'[c]
    PROVE  IInv'
<1>0. TypeOK /\ ProviderInv
  BY DEF IInv
<1>1. TypeOK'
  BY <1>0 DEF TypeOK, authVars
<1>2. ProviderInv'
  BY <1>0 DEF ProviderInv, Unique
<1>3. ASSUME NEW a \in Auths PROVE AuthInv(a)'
  BY <1>3, SMTT(40) DEF IInv, AuthInv, Own, Writing, authVars
<1>4. ASSUME NEW c \in Calls PROVE CallInv(c)'
  <2>1. CallInv(c)
    BY <1>4 DEF IInv
  <2>2. RouteInv(c)' /\ UrlInv(c)'
    BY <2>1 DEF CallInv, RouteInv, UrlInv, Matching, Own, authVars
  <2>3. KeptInv(c)'
    <3>1. pc[c] \notin {"idle", "store", "recheck", "done"} /\ ~up'[tok[c].iss] => outage'[c]
      BY <1>4, <2>1 DEF CallInv, KeptInv
    <3> QED
      BY <2>1, <3>1 DEF CallInv, KeptInv, authVars, Unique
  <2>4. OutcomeInv(c)'
    <3>1. Found(c)'
      BY <1>4, <2>1 DEF CallInv, OutcomeInv, Found, Whole, Location
    <3> QED
      BY <2>1, <3>1 DEF CallInv, OutcomeInv, Accepted, Aborted, Matching, ClaimsPass
  <2> QED
    BY <2>2, <2>3, <2>4 DEF CallInv
<1> QED
  BY <1>1, <1>2, <1>3, <1>4, Zenon DEF IInv

LEMMA FailStep ==
    ASSUME IInv, NEW i \in Issuers, Fail(i)
    PROVE  IInv'
<1>0. TypeOK
  BY DEF IInv
<1>1. /\ up' = [up EXCEPT ![i] = FALSE]
      /\ outage' = [c \in Calls |-> outage[c] \/ (c \in Busy(i) /\ pc[c] \notin {"store", "recheck", "done"})]
      /\ UNCHANGED <<jwks, uri, mats, served, authVars, pc, tok, claims, auth, url, resp, outcome, kept>>
  BY DEF Fail
<1>2. up' \in [Issuers -> BOOLEAN] /\ outage' \in [Calls -> BOOLEAN]
  BY <1>0, <1>1, Zenon DEF TypeOK
<1>3. \A c \in Calls : outage[c] => outage'[c]
  BY <1>1, Zenon
<1>4. ASSUME NEW c \in Calls, pc[c] \notin {"idle", "store", "recheck", "done"}, ~up'[tok[c].iss]
      PROVE  ~up[tok[c].iss] \/ outage'[c]
  <2>1. tok[c].iss \in Issuers
    BY <1>0, <1>4 DEF TypeOK, Token
  <2>2. CASE tok[c].iss = i
    <3>1. c \in Busy(i)
      BY <1>4, <2>2 DEF Busy
    <3> QED
      BY <1>1, <1>4, <3>1, Zenon
  <2>3. CASE tok[c].iss # i
    BY <1>0, <1>1, <1>4, <2>1, <2>3, Zenon DEF TypeOK
  <2> QED
    BY <2>2, <2>3
<1> QED
  BY <1>1, <1>2, <1>3, <1>4, OutageStep

LEMMA RecoverStep ==
    ASSUME IInv, NEW i \in Issuers, Recover(i)
    PROVE  IInv'
<1>0. TypeOK
  BY DEF IInv
<1>1. /\ up' = [up EXCEPT ![i] = TRUE]
      /\ UNCHANGED <<jwks, uri, mats, served, authVars, pc, tok, claims, auth, url, resp, outcome, kept, outage>>
  BY DEF Recover, callVars
<1>2. up' \in [Issuers -> BOOLEAN] /\ outage' \in [Calls -> BOOLEAN]
  BY <1>0, <1>1, Zenon DEF TypeOK
<1>3. \A c \in Calls : outage[c] => outage'[c]
  BY <1>1
<1>4. ASSUME NEW c \in Calls, pc[c] \notin {"idle", "store", "recheck", "done"}, ~up'[tok[c].iss]
      PROVE  ~up[tok[c].iss] \/ outage'[c]
  <2>1. tok[c].iss \in Issuers
    BY <1>0, <1>4 DEF TypeOK, Token
  <2> QED
    BY <1>0, <1>1, <1>4, <2>1, Zenon DEF TypeOK
<1> QED
  BY <1>1, <1>2, <1>3, <1>4, OutageStep

-----------------------------------------------------------------------------

LEMMA InitIInv == Init => IInv
<1> SUFFICES ASSUME Init PROVE IInv
  OBVIOUS
<1>1. TypeOK
  <2>1. 0 \in 0 .. Len(Config) /\ 0 \in 0 .. MaxMat
    BY OidcAssumption, SMTT(40)
  <2>2. NoURL \in [ptr : URL \cup {None}, len : URL \cup {None}]
    BY DEF NoURL
  <2>3. /\ up \in [Issuers -> BOOLEAN] /\ kept \in [Calls -> BOOLEAN] /\ outage \in [Calls -> BOOLEAN]
    BY Zenon DEF Init
  <2> QED
    BY <2>1, <2>2, <2>3 DEF Init, TypeOK
<1>2. ProviderInv
  BY DEF Init, ProviderInv, Unique
<1>3. ASSUME NEW a \in Auths PROVE AuthInv(a)
  BY <1>3 DEF Init, AuthInv, Own
<1>4. ASSUME NEW c \in Calls PROVE CallInv(c)
  BY <1>4 DEF Init, CallInv, RouteInv, UrlInv, KeptInv, OutcomeInv, Accepted, Found, Aborted
<1> QED
  BY <1>1, <1>2, <1>3, <1>4 DEF IInv

LEMMA NextIInv == IInv /\ [Next]_vars => IInv'
<1> SUFFICES ASSUME IInv, [Next]_vars PROVE IInv'
  OBVIOUS
<1>1. ASSUME NEW c \in Calls, Authenticate(c) PROVE IInv'
  BY <1>1, LookupStep, ReadURLStep, DiscoverStep, WriteURLStep, FetchStep, StoreStep, ReturnStep
     DEF Authenticate
<1>2. ASSUME NEW c \in Calls, NEW i \in Issuers, NEW k \in Carried, Route(c, [iss |-> i, key |-> k])
      PROVE  IInv'
  BY <1>2, RouteStep
<1>3. ASSUME NEW i \in Active, (\E k \in Kids : Rotate(i, k)) \/ Move(i) \/ Fail(i) \/ Recover(i)
      PROVE  IInv'
  <2>1. i \in Issuers
    BY OidcAssumption
  <2> QED
    BY <1>3, <2>1, RotateStep, MoveStep, FailStep, RecoverStep
<1>4. CASE UNCHANGED vars
  <2>1. UNCHANGED <<jwks, uri, mats, served, authVars, pc, tok, claims, auth, url, resp, outcome, kept, up, outage>>
    BY <1>4 DEF vars, providerVars, authVars, callVars
  <2>2. up' \in [Issuers -> BOOLEAN] /\ outage' \in [Calls -> BOOLEAN]
    BY <2>1 DEF IInv, TypeOK
  <2> QED
    BY <2>1, <2>2, OutageStep
<1> QED
  BY <1>1, <1>2, <1>3, <1>4, Zenon DEF Next

LEMMA AlwaysIInv == Spec => []IInv
  BY InitIInv, NextIInv, PTL DEF Spec

(* Every reachable state is well-typed, and the cache of an authenticator   *)
(* never holds two keys under one kid (fetchJWKS).                          *)
THEOREM OidcTypeCorrect == Spec => []TypeOK
<1>1. IInv => TypeOK
  BY DEF IInv
<1> QED
  BY <1>1, AlwaysIInv, PTL

(* However many calls race on the JWKS URL and the cache, a token is        *)
(* accepted only with a key its own issuer has served and with claims that  *)
(* pass the first authenticator for the issuer (Router.Authenticate,        *)
(* Authenticate, keyFunc).                                                  *)
THEOREM AcceptedSafe == Spec => []AcceptedIsValid
<1>1. IInv => AcceptedIsValid
  BY DEF IInv, CallInv, OutcomeInv, Accepted, AcceptedIsValid
<1> QED
  BY <1>1, AlwaysIInv, PTL

(* A key that is served all the time the call lasts is found, but for the   *)
(* reasons KeyFoundWhileServed names (keyFunc, fetchJWKS).                  *)
THEOREM FoundSafe == Spec => []KeyFoundWhileServed
<1>1. IInv => KeyFoundWhileServed
  BY DEF IInv, CallInv, OutcomeInv, Found, KeyFoundWhileServed
<1> QED
  BY <1>1, AlwaysIInv, PTL

(* The JWKS URL is half written only while a call is writing it, and a call *)
(* panics only if it reads it then or has a subject that is no string       *)
(* (fetchJWKS, evaluateSubjectMapping).                                     *)
THEOREM AbortedSafe == Spec => []AbortedOnlyIf
<1>1. IInv => AbortedOnlyIf
  BY DEF IInv, AuthInv, CallInv, OutcomeInv, Aborted, AbortedOnlyIf
<1> QED
  BY <1>1, AlwaysIInv, PTL

-----------------------------------------------------------------------------
(* Progress of a call.                                                     *)

(* The steps a call can take next are all closer to its end. *)
LEMMA ToGoFalls ==
    /\ ToGo("url") < ToGo("lookup") /\ ToGo("done") < ToGo("lookup")
    /\ ToGo("discover") < ToGo("url") /\ ToGo("fetch") < ToGo("url")
    /\ ToGo("write") < ToGo("discover") /\ ToGo("done") < ToGo("discover")
    /\ ToGo("writeLen") < ToGo("write") /\ ToGo("writePtr") < ToGo("write")
    /\ ToGo("fetch") < ToGo("writeLen") /\ ToGo("fetch") < ToGo("writePtr")
    /\ ToGo("store") < ToGo("fetch") /\ ToGo("done") < ToGo("fetch")
    /\ ToGo("recheck") < ToGo("store") /\ ToGo("done") < ToGo("recheck")
    /\ ToGo("idle") < ToGo("done")
  BY SMTT(40) DEF ToGo

(* A step of a call leads that call forward and leaves the others alone. *)
LEMMA AuthenticateFalls ==
    ASSUME TypeOK, NEW c \in Calls, Authenticate(c)
    PROVE  ToGo(pc'[c]) < ToGo(pc[c]) /\ \A d \in Calls \ {c} : pc'[d] = pc[d]
<1>0. pc \in [Calls -> Steps]
  BY DEF TypeOK, Steps
<1>1. CASE Lookup(c)
  <2>1. \/ pc[c] = "lookup" /\ pc' = [pc EXCEPT ![c] = "url"]
        \/ pc[c] \in {"lookup", "recheck"} /\ pc' = [pc EXCEPT ![c] = "done"]
    BY <1>1 DEF Lookup, Done
  <2> QED
    BY <1>0, <2>1, ToGoFalls
<1>2. CASE ReadURL(c)
  <2>1. /\ pc[c] = "url"
        /\ \/ pc' = [pc EXCEPT ![c] = "discover"]
           \/ pc' = [pc EXCEPT ![c] = "fetch"]
    BY <1>2 DEF ReadURL
  <2> QED
    BY <1>0, <2>1, ToGoFalls
<1>3. CASE Discover(c)
  <2>1. /\ pc[c] = "discover"
        /\ \/ pc' = [pc EXCEPT ![c] = "write"]
           \/ pc' = [pc EXCEPT ![c] = "done"]
    BY <1>3 DEF Discover, Done
  <2> QED
    BY <1>0, <2>1, ToGoFalls
<1>4. CASE WriteURL(c)
  <2>1. \/ pc[c] = "write" /\ pc' = [pc EXCEPT ![c] = "writeLen"]
        \/ pc[c] = "write" /\ pc' = [pc EXCEPT ![c] = "writePtr"]
        \/ pc[c] \in {"writePtr", "writeLen"} /\ pc' = [pc EXCEPT ![c] = "fetch"]
    BY <1>4, "write" # "writePtr", "write" # "writeLen" DEF WriteURL
  <2> QED
    BY <1>0, <2>1, ToGoFalls
<1>5. CASE Fetch(c)
  <2>1. /\ pc[c] = "fetch"
        /\ \/ pc' = [pc EXCEPT ![c] = "store"]
           \/ pc' = [pc EXCEPT ![c] = "done"]
    BY <1>5 DEF Fetch, Done
  <2> QED
    BY <1>0, <2>1, ToGoFalls
<1>6. CASE Store(c)
  <2>1. pc[c] = "store" /\ pc' = [pc EXCEPT ![c] = "recheck"]
    BY <1>6 DEF Store
  <2> QED
    BY <1>0, <2>1, ToGoFalls
<1>7. CASE Return(c)
  <2>1. pc[c] = "done" /\ pc' = [pc EXCEPT ![c] = "idle"]
    BY <1>7 DEF Return
  <2> QED
    BY <1>0, <2>1, ToGoFalls
<1> QED
  BY <1>1, <1>2, <1>3, <1>4, <1>5, <1>6, <1>7 DEF Authenticate

(* Every call is over after at most nine steps of its own, whatever the     *)
(* other calls and the providers do (Authenticate, keyFunc, fetchJWKS).     *)
THEOREM CallsEnd == Spec => CallsLeadForward
<1> DEFINE Forward(c) ==
             /\ Authenticate(c) => /\ ToGo(pc'[c]) < ToGo(pc[c])
                                   /\ \A d \in Calls \ {c} : pc'[d] = pc[d]
             /\ pc'[c] # pc[c] /\ pc[c] # "idle" => Authenticate(c)
<1>1. TypeOK /\ [Next]_vars => [\A c \in Calls : Forward(c)]_vars
  <2> SUFFICES ASSUME TypeOK, Next, NEW c \in Calls PROVE Forward(c)
    OBVIOUS
  <2>1. ASSUME NEW d \in Calls, Authenticate(d), pc'[c] # pc[c] PROVE Authenticate(c)
    BY <2>1, AuthenticateFalls
  <2>2. ASSUME NEW d \in Calls, NEW t, Route(d, t), pc'[c] # pc[c] PROVE pc[c] = "idle"
    <3>1. pc[d] = "idle" /\ \E s : pc' = [pc EXCEPT ![d] = s]
      BY <2>2 DEF Route, Done
    <3> QED
      BY <2>2, <3>1 DEF TypeOK
  <2>3. ASSUME NEW i, (\E k \in Kids : Rotate(i, k)) \/ Move(i) \/ Fail(i) \/ Recover(i)
        PROVE  pc' = pc
    BY <2>3 DEF Rotate, Move, Fail, Recover, callVars
  <2> QED
    BY <2>1, <2>2, <2>3, AuthenticateFalls DEF Next
<1> QED
  BY <1>1, OidcTypeCorrect, PTL DEF Spec, CallsLeadForward

=============================================================================
