------------------------------- MODULE OidcAuthn -------------------------------
(***************************************************************************)
(* Authentication of subject tokens at the TTS: the router, and OIDC       *)
(* authenticators that discover a JWKS URL, fetch and cache keys and check *)
(* claims, called by concurrent requests while the identity providers      *)
(* rotate keys, move their JWKS and fail.                                  *)
(*                                                                         *)
(* jwksURL is read and written without a lock.  A Go string is a pointer   *)
(* and a length, stored one after the other in either order, so a reader,  *)
(* or a second writer, can leave the pointer of one string with the length *)
(* of another.                                                             *)
(*                                                                         *)
(* A key is a kid and the key material behind it, numbered as generated;   *)
(* material 0 is nobody's.  Of the claims the audiences and a class are    *)
(* kept, on which the configured CEL expressions have a result; what they  *)
(* are is settled when Authenticate first looks at them.  A configuration  *)
(* with an expression that does not compile keeps the TTS from starting.   *)
(***************************************************************************)
EXTENDS Naturals, Sequences, FiniteSets

CONSTANTS
    Calls,          \* requests being authenticated
    Issuers,        \* identity providers
    Kids, Audiences,
    Classes,        \* what expressions and the expiry check tell apart in claims
    Expired,        \* classes of tokens that are past their time
    NoSig,          \* kids whose JWKS entry is not usable: kty, use or encoding
    Config,         \* the authenticators of TxTokenConfig, in order
    Payloads,       \* audiences and class of the tokens that arrive
    Unserved,       \* keys nobody serves that a token may carry
    Active,         \* the identity providers that change while calls are made
    None,           \* nil
    MaxMat,         \* bound: keys generated
    MaxMoves        \* bound: moves of a JWKS

Results == {"value", "other", "error"}
AuthenticatorConfig ==
    [issuer : Issuers,
     doc : Issuers,                                  \* whose document is at the discovery URL
     audiences : SUBSET Audiences,
     rules : SUBSET [Classes -> {"true", "false", "error"}],
     claim : BOOLEAN, expression : BOOLEAN,          \* which subject mapping is configured
     subject : [Classes -> Results],                 \* "value" is a string
     extra : SUBSET [Classes -> Results]]

ASSUME OidcAssumption ==
    /\ Config \in Seq(AuthenticatorConfig)
    /\ Payloads \subseteq [aud : SUBSET Audiences, cls : Classes] /\ Payloads # {}
    /\ Unserved \subseteq [kid : Kids, mat : {0}] /\ Active \subseteq Issuers
    /\ Expired \subseteq Classes /\ NoSig \subseteq Kids
    /\ MaxMat \in Nat /\ MaxMoves \in Nat
    /\ None \notin [iss : Issuers, n : Nat]

VARIABLES
    \* --- the identity providers ---
    jwks,           \* jwks[i]: the keys i serves
    uri,            \* uri[i]: where it serves them: the number of moves so far
    up,             \* up[i]: it answers
    mats,           \* key material generated so far
    \* --- the authenticators ---
    ptr, len,       \* the two words of jwksURL
    keys,           \* the cache
    \* --- the calls ---
    pc, tok, claims, auth, url, resp, outcome,
    \* --- history: read by no action ---
    served,         \* served[i]: all keys i has served
    kept,           \* kept[c]: the token's key has been served since call c arrived
    outage          \* outage[c]: the provider has been down while call c depends on it

providerVars == <<jwks, uri, up, mats, served>>
authVars == <<ptr, len, keys>>
callVars == <<pc, tok, claims, auth, url, resp, outcome, kept, outage>>
vars == <<providerVars, authVars, callVars>>

Auths == 1 .. Len(Config)
Key == [kid : Kids, mat : 0 .. MaxMat]
Token == [iss : Issuers, key : Key]
URL == [iss : Issuers, n : Nat]
NoURL == [ptr |-> None, len |-> None]
Location(i) == [iss |-> i, n |-> uri[i]]
Whole(u) == [ptr |-> u, len |-> u]

Init ==
    /\ jwks = [i \in Issuers |-> {}]
    /\ uri = [i \in Issuers |-> 0]
    /\ up = [i \in Issuers |-> TRUE]
    /\ mats = 0
    /\ served = [i \in Issuers |-> {}]
    /\ ptr = [a \in Auths |-> None]
    /\ len = [a \in Auths |-> None]
    /\ keys = [a \in Auths |-> {}]
    /\ pc = [c \in Calls |-> "idle"]
    /\ tok = [c \in Calls |-> None]
    /\ claims = [c \in Calls |-> None]
    /\ auth = [c \in Calls |-> 0]
    /\ url = [c \in Calls |-> NoURL]
    /\ resp = [c \in Calls |-> {}]
    /\ outcome = [c \in Calls |-> "none"]
    /\ kept = [c \in Calls |-> FALSE]
    /\ outage = [c \in Calls |-> FALSE]

-----------------------------------------------------------------------------
(* The identity providers.                                                 *)

Busy(i) == {c \in Calls : pc[c] # "idle" /\ tok[c].iss = i}

(* A new key, with a new kid or an old one, and some of the others stay. *)
Rotate(i, k) ==
    /\ mats < MaxMat
    /\ mats' = mats + 1
    /\ LET new == [kid |-> k, mat |-> mats + 1]
       IN  \E keep \in SUBSET {x \in jwks[i] : x.kid # k} :
              /\ jwks' = [jwks EXCEPT ![i] = keep \cup {new}]
              /\ served' = [served EXCEPT ![i] = @ \cup {new}]
              /\ kept' = [c \in Calls |-> kept[c] /\ (c \in Busy(i) => tok[c].key \in keep)]
    /\ UNCHANGED <<uri, up, authVars, pc, tok, claims, auth, url, resp, outcome, outage>>

Move(i) ==
    /\ uri[i] < MaxMoves
    /\ uri' = [uri EXCEPT ![i] = @ + 1]
    /\ UNCHANGED <<jwks, up, mats, served, authVars, callVars>>

Fail(i) ==
    /\ up[i]
    /\ up' = [up EXCEPT ![i] = FALSE]
    /\ outage' = [c \in Calls |-> outage[c] \/ (c \in Busy(i) /\ pc[c] \notin {"store", "recheck", "done"})]
    /\ UNCHANGED <<jwks, uri, mats, served, authVars, pc, tok, claims, auth, url, resp, outcome, kept>>

Recover(i) ==
    /\ ~up[i]
    /\ up' = [up EXCEPT ![i] = TRUE]
    /\ UNCHANGED <<jwks, uri, mats, served, authVars, callVars>>

-----------------------------------------------------------------------------
(* The router and Authenticate.                                            *)

Matching(t) == {a \in Auths : Config[a].issuer = t.iss}
FirstOf(S) == CHOOSE a \in S : \A b \in S : a <= b

Done(c, o) ==
    /\ pc' = [pc EXCEPT ![c] = "done"]
    /\ outcome' = [outcome EXCEPT ![c] = o]

(* Router.Authenticate reads the issuer from the unverified payload; the    *)
(* first authenticator for it handles the token, whatever comes of it.      *)
Route(c, t) ==
    /\ pc[c] = "idle"
    /\ tok' = [tok EXCEPT ![c] = t]
    /\ kept' = [kept EXCEPT ![c] = t.key \in jwks[t.iss]]
    /\ outage' = [outage EXCEPT ![c] = ~up[t.iss]]
    /\ IF Matching(t) = {}
       THEN Done(c, "noAuthenticator") /\ UNCHANGED auth
       ELSE /\ pc' = [pc EXCEPT ![c] = "lookup"]
            /\ auth' = [auth EXCEPT ![c] = FirstOf(Matching(t))]
            /\ UNCHANGED outcome
    /\ UNCHANGED <<providerVars, authVars, claims, url, resp>>

(* Fault: the error of the evaluation is ignored, and its nil is no string. *)
SubjectUnchecked(cfg, cls) ==
    CASE cfg.claim -> IF cfg.subject[cls] = "value" THEN "ok" ELSE "refused"
      [] ~cfg.claim /\ ~cfg.expression -> "refused"
      [] OTHER -> IF cfg.subject[cls] = "value" THEN "ok" ELSE "aborted"

(* evaluateSubjectMapping; asserting that the value of an expression is a   *)
(* string panics when it is not, and net/http ends the request.             *)
Subject(cfg, cls) ==
    CASE cfg.claim -> IF cfg.subject[cls] = "value" THEN "ok" ELSE "refused"
      [] ~cfg.claim /\ ~cfg.expression -> "refused"
      [] OTHER -> CASE cfg.subject[cls] = "value" -> "ok"
                    [] cfg.subject[cls] = "other" -> "aborted"
                    [] OTHER -> "refused"

ClaimsPass(cfg, p) ==
    /\ p.cls \notin Expired
    /\ p.aud \cap cfg.audiences # {}
    /\ \A rule \in cfg.rules : rule[p.cls] = "true"

(* Authenticate, once the signature is verified. *)
Verdict(cfg, p) ==
    IF ~ClaimsPass(cfg, p) THEN "refused"
    ELSE IF Subject(cfg, p.cls) # "ok" THEN Subject(cfg, p.cls)
    ELSE IF \E x \in cfg.extra : x[p.cls] = "error" THEN "refused"
    ELSE "accepted"

(* Fault: a key that is still missing after the fetch is fetched again. *)
LookupRefetches(c) ==
    /\ pc[c] \in {"lookup", "recheck"}
    /\ LET hit == {k \in keys[auth[c]] : k.kid = tok[c].key.kid}
       IN  \/ /\ hit = {}
              /\ pc' = [pc EXCEPT ![c] = "url"]
              /\ UNCHANGED <<outcome, claims>>
           \/ hit # {} /\ tok[c].key \notin hit /\ Done(c, "badSignature") /\ UNCHANGED claims
           \/ /\ tok[c].key \in hit
              /\ \E p \in Payloads :
                    /\ claims' = [claims EXCEPT ![c] = p]
                    /\ Done(c, Verdict(Config[auth[c]], p))
    /\ UNCHANGED <<providerVars, authVars, tok, auth, url, resp, kept, outage>>

(* keyFunc: the lookup under the read lock, before and after the fetch. *)
Lookup(c) ==
    /\ pc[c] \in {"lookup", "recheck"}
    /\ LET hit == {k \in keys[auth[c]] : k.kid = tok[c].key.kid}
       IN  \/ /\ hit = {} /\ pc[c] = "lookup"
              /\ pc' = [pc EXCEPT ![c] = "url"]
              /\ UNCHANGED <<outcome, claims>>
           \/ hit = {} /\ pc[c] = "recheck" /\ Done(c, "unknownKey") /\ UNCHANGED claims
           \/ hit # {} /\ tok[c].key \notin hit /\ Done(c, "badSignature") /\ UNCHANGED claims
           \/ /\ tok[c].key \in hit
              /\ \E p \in Payloads :
                    /\ claims' = [claims EXCEPT ![c] = p]
                    /\ Done(c, Verdict(Config[auth[c]], p))
    /\ UNCHANGED <<providerVars, authVars, tok, auth, url, resp, kept, outage>>

Writing(a) == {c \in Calls : pc[c] \in {"write", "writePtr", "writeLen"} /\ auth[c] = a}

(* fetchJWKS reads jwksURL; a string is empty when its length is 0. *)
ReadURL(c) ==
    /\ pc[c] = "url"
    /\ LET a == auth[c]
       IN  IF len[a] = None
           THEN /\ pc' = [pc EXCEPT ![c] = "discover"]
                /\ UNCHANGED url
           ELSE /\ pc' = [pc EXCEPT ![c] = "fetch"]
                /\ url' = [url EXCEPT ![c] = [ptr |-> ptr[a], len |-> len[a]]]
    /\ UNCHANGED <<providerVars, authVars, tok, claims, auth, resp, outcome, kept, outage>>

(* Fault: the issuer of the document is not compared. *)
DiscoverUnchecked(c) ==
    /\ pc[c] = "discover"
    /\ LET doc == Config[auth[c]].doc
       IN  IF up[doc]
           THEN /\ url' = [url EXCEPT ![c] = Whole(Location(doc))]
                /\ pc' = [pc EXCEPT ![c] = "write"]
                /\ UNCHANGED outcome
           ELSE Done(c, "fetchError") /\ UNCHANGED url
    /\ UNCHANGED <<providerVars, authVars, tok, claims, auth, resp, kept, outage>>

(* discoverJWKSURL; the client gives up after 10 s. *)
Discover(c) ==
    /\ pc[c] = "discover"
    /\ LET doc == Config[auth[c]].doc
       IN  IF up[doc] /\ doc = Config[auth[c]].issuer
           THEN /\ url' = [url EXCEPT ![c] = Whole(Location(doc))]
                /\ pc' = [pc EXCEPT ![c] = "write"]
                /\ UNCHANGED outcome
           ELSE Done(c, "fetchError") /\ UNCHANGED url
    /\ UNCHANGED <<providerVars, authVars, tok, claims, auth, resp, kept, outage>>

(* The two stores of a.jwksURL = url. *)
WriteURL(c) ==
    /\ \/ /\ pc[c] \in {"write", "writePtr"}
          /\ ptr' = [ptr EXCEPT ![auth[c]] = url[c].ptr]
          /\ pc' = [pc EXCEPT ![c] = IF pc[c] = "write" THEN "writeLen" ELSE "fetch"]
          /\ UNCHANGED len
       \/ /\ pc[c] \in {"write", "writeLen"}
          /\ len' = [len EXCEPT ![auth[c]] = url[c].len]
          /\ pc' = [pc EXCEPT ![c] = IF pc[c] = "write" THEN "writePtr" ELSE "fetch"]
          /\ UNCHANGED ptr
    /\ UNCHANGED <<providerVars, keys, tok, claims, auth, url, resp, outcome, kept, outage>>

(* A string of one pointer and another's length names the pointer's URL if  *)
(* both are equally long, and no URL otherwise.                             *)
Reaches(u) == up[u.iss] /\ u = Location(u.iss)

(* Fault: no timeout, a provider that is down is waited for. *)
FetchWaits(c) ==
    /\ pc[c] = "fetch"
    /\ \/ url[c].ptr = None /\ Done(c, "aborted") /\ UNCHANGED <<url, resp>>
       \/ /\ url[c].ptr # None
          /\ Reaches(url[c].ptr)
          /\ resp' = [resp EXCEPT ![c] = jwks[url[c].ptr.iss]]
          /\ url' = [url EXCEPT ![c] = NoURL]
          /\ pc' = [pc EXCEPT ![c] = "store"]
          /\ UNCHANGED outcome
    /\ UNCHANGED <<providerVars, authVars, tok, claims, auth, kept, outage>>

(* fetchJWKS: the request.  A nil pointer with a length panics in Get.      *)
Fetch(c) ==
    /\ pc[c] = "fetch"
    /\ \/ url[c].ptr = None /\ Done(c, "aborted") /\ UNCHANGED <<url, resp>>
       \/ /\ url[c].ptr # None
          /\ \/ url[c].ptr # url[c].len
             \/ ~Reaches(url[c].ptr)
          /\ Done(c, "fetchError")
          /\ UNCHANGED <<url, resp>>
       \/ /\ url[c].ptr # None
          /\ Reaches(url[c].ptr)
          /\ resp' = [resp EXCEPT ![c] = jwks[url[c].ptr.iss]]
          /\ url' = [url EXCEPT ![c] = NoURL]
          /\ pc' = [pc EXCEPT ![c] = "store"]
          /\ UNCHANGED outcome
    /\ UNCHANGED <<providerVars, authVars, tok, claims, auth, kept, outage>>

Usable(S) == {k \in S : k.kid \notin NoSig}

(* Fault: the response replaces the cache. *)
MergeReplacing(cached, S) == Usable(S)

(* New entries replace old ones with the same kid; nothing is ever removed. *)
Merge(cached, S) == {k \in cached : \A n \in Usable(S) : n.kid # k.kid} \cup Usable(S)

(* fetchJWKS: the response goes into the cache under the write lock. *)
Store(c) ==
    /\ pc[c] = "store"
    /\ keys' = [keys EXCEPT ![auth[c]] = Merge(@, resp[c])]
    /\ resp' = [resp EXCEPT ![c] = {}]
    /\ pc' = [pc EXCEPT ![c] = "recheck"]
    /\ UNCHANGED <<providerVars, ptr, len, tok, claims, auth, url, outcome, kept, outage>>

Return(c) ==
    /\ pc[c] = "done"
    /\ pc' = [pc EXCEPT ![c] = "idle"]
    /\ tok' = [tok EXCEPT ![c] = None]
    /\ claims' = [claims EXCEPT ![c] = None]
    /\ auth' = [auth EXCEPT ![c] = 0]
    /\ url' = [url EXCEPT ![c] = NoURL]
    /\ outcome' = [outcome EXCEPT ![c] = "none"]
    /\ kept' = [kept EXCEPT ![c] = FALSE]
    /\ outage' = [outage EXCEPT ![c] = FALSE]
    /\ UNCHANGED <<providerVars, authVars, resp>>

-----------------------------------------------------------------------------

Authenticate(c) ==
    \/ Lookup(c) \/ ReadURL(c) \/ Discover(c) \/ WriteURL(c) \/ Fetch(c) \/ Store(c) \/ Return(c)

(* A token carries a key some issuer has served, or one nobody has. *)
Carried == Unserved \cup UNION {served[i] : i \in Issuers}

Next ==
    \/ \E i \in Active : (\E k \in Kids : Rotate(i, k)) \/ Move(i) \/ Fail(i) \/ Recover(i)
    \/ \E c \in Calls :
          \/ \E i \in Issuers, k \in Carried : Route(c, [iss |-> i, key |-> k])
          \/ Authenticate(c)

Spec == Init /\ [][Next]_vars

-----------------------------------------------------------------------------
(* Properties.                                                             *)

(* State stays well-typed: the cache holds one usable key per kid, and a    *)
(* call past the router has the authenticator for its token's issuer.       *)
TypeOK ==
    /\ jwks \in [Issuers -> SUBSET Key] /\ served \in [Issuers -> SUBSET Key]
    /\ uri \in [Issuers -> Nat] /\ up \in [Issuers -> BOOLEAN]
    /\ mats \in 0 .. MaxMat
    /\ ptr \in [Auths -> URL \cup {None}] /\ len \in [Auths -> URL \cup {None}]
    /\ keys \in [Auths -> SUBSET Usable(Key)]
    /\ \A a \in Auths : \A k, l \in keys[a] : k.kid = l.kid => k = l
    /\ pc \in [Calls -> {"idle", "lookup", "url", "discover", "write", "writePtr", "writeLen",
                         "fetch", "store", "recheck", "done"}]
    /\ tok \in [Calls -> Token \cup {None}] /\ claims \in [Calls -> Payloads \cup {None}]
    /\ auth \in [Calls -> 0 .. Len(Config)]
    /\ kept \in [Calls -> BOOLEAN] /\ outage \in [Calls -> BOOLEAN]
    /\ url \in [Calls -> [ptr : URL \cup {None}, len : URL \cup {None}]]
    /\ resp \in [Calls -> SUBSET Key]
    /\ outcome \in [Calls -> {"none", "accepted", "refused", "badSignature", "unknownKey",
                              "fetchError", "noAuthenticator", "aborted"}]
    /\ \A c \in Calls :
          /\ pc[c] # "idle" => tok[c] \in Token
          /\ outcome[c] = "accepted" => claims[c] \in Payloads
          /\ pc[c] \notin {"idle", "done"} =>
                auth[c] \in Auths /\ Config[auth[c]].issuer = tok[c].iss

(* An accepted token was signed with a key that its own issuer has served,  *)
(* and its claims satisfy the first authenticator for that issuer, whatever *)
(* other calls discovered, fetched and stored meanwhile (Authenticate).     *)
AcceptedIsValid ==
    \A c \in Calls : outcome[c] = "accepted" =>
        LET cfg == Config[FirstOf(Matching(tok[c]))]
        IN  /\ tok[c].key \in served[tok[c].iss]
            /\ ClaimsPass(cfg, claims[c])
            /\ cfg.subject[claims[c].cls] = "value"

(* While the provider serves the token's key and answers, the key is found, *)
(* unless the entry is one that is skipped, the kid was used for another    *)
(* key before, or the JWKS was moved: jwksURL is never discovered again     *)
(* (keyFunc, fetchJWKS).                                                    *)
KeyFoundWhileServed ==
    \A c \in Calls :
        LET t == tok[c]
            i == Config[auth[c]].issuer
        IN  /\ outcome[c] = "unknownKey" /\ kept[c] => t.key.kid \in NoSig
            /\ outcome[c] = "badSignature" /\ kept[c] =>
                  \E k \in served[i] : k.kid = t.key.kid /\ k # t.key
            /\ outcome[c] = "fetchError" =>
                  \/ outage[c]
                  \/ Config[auth[c]].doc # i
                  \/ uri[i] > 0 /\ url[c] # Whole(Location(i))

(* A call panics only on a subject expression whose value is not a string,  *)
(* or because it read jwksURL half written, which it is only while some     *)
(* call is writing it (evaluateSubjectMapping, fetchJWKS).                  *)
AbortedOnlyIf ==
    /\ \A a \in Auths : Writing(a) = {} => (ptr[a] = None <=> len[a] = None)
    /\ \A c \in Calls : outcome[c] = "aborted" =>
        \/ url[c].ptr = None /\ url[c].len # None
        \/ ~Config[auth[c]].claim /\ Config[auth[c]].subject[claims[c].cls] = "other"

(* A call can always take its next step, also while providers are down for  *)
(* good: it waits for no other call and for no provider longer than the     *)
(* client's timeout (keyFunc, fetchJWKS).                                   *)
NoCallIsStuck == \A c \in Calls : pc[c] # "idle" => ENABLED Authenticate(c)

(* Steps a call still has before it, at most. *)
ToGo(step) ==
    CASE step = "lookup" -> 9
      [] step = "url" -> 8
      [] step = "discover" -> 7
      [] step = "write" -> 6
      [] step \in {"writePtr", "writeLen"} -> 5
      [] step = "fetch" -> 4
      [] step = "store" -> 3
      [] step = "recheck" -> 2
      [] step = "done" -> 1
      [] step = "idle" -> 0

(* Every step of a call leads forward, whatever it finds in the cache, in   *)
(* jwksURL or at the provider, and moves no other call; nothing but its own *)
(* steps moves it once it has arrived.  So a call is over after at most     *)
(* nine steps: keyFunc fetches once and does not retry.                     *)
CallsLeadForward ==
    [][\A c \in Calls :
          /\ Authenticate(c) => /\ ToGo(pc'[c]) < ToGo(pc[c])
                                /\ \A d \in Calls \ {c} : pc'[d] = pc[d]
          /\ pc'[c] # pc[c] /\ pc[c] # "idle" => Authenticate(c)]_vars

=============================================================================
