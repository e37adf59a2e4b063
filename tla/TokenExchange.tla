---------------------------- MODULE TokenExchange ----------------------------
(***************************************************************************)
(* The token endpoint of the TTS (Handler.ServeHTTP): issuance of a new    *)
(* token for an authenticated subject, subject to the issuance rules, and  *)
(* replacement of a token by a narrower one, with the issuance rules       *)
(* swapped underneath by the rule client.                                  *)
(*                                                                         *)
(* A scope is the sequence of its words (strings.Fields).  <<>> stands for *)
(* a scope of blanks only: parseRequest refuses the empty string, which    *)
(* never becomes a request here.  A request that parseRequest refuses      *)
(* changes nothing and is not a step.  Of an issuance rule's CEL only the  *)
(* subjects it denies are kept; an evaluation error denies as well.        *)
(***************************************************************************)
EXTENDS Naturals, Sequences, FiniteSets

CONSTANTS
    Requests,       \* requests being served (goroutines)
    Words, Subjects, Contexts, Workloads,
    Scopes,         \* the scope strings requests ask for
    Namespaces,
    RuleSets,       \* the issuance rule sets the setter can be given
    None,           \* nil
    MaxTxn,         \* bound: transactions started
    MaxRules        \* bound: rule sets stored

ASSUME ScopesAssumption == Scopes \subseteq Seq(Words)
ASSUME RulesAssumption ==
    /\ RuleSets \subseteq SUBSET [targets : SUBSET Namespaces, denies : SUBSET Subjects]
    /\ {} \in RuleSets
    /\ None \notin Namespaces
ASSUME BoundsAssumption == MaxTxn \in Nat /\ MaxRules \in Nat \ {0}

VARIABLES
    rules,          \* Handler.issuanceRules
    pc,             \* "idle", "authenticate", "load", "evaluate", "verify", "sign"
    req,            \* the parsed request
    held,           \* held[r]: the rule set request r has loaded
    claims,         \* claims[r]: the claims request r is about to sign
    tokens,         \* every token issued
    \* --- history: read by no action ---
    start,          \* start[x]: the token transaction x started with
    ruleLog,        \* every rule set stored, oldest first
    arrived,        \* arrived[r]: Len(ruleLog) when request r arrived
    window          \* window[x]: <<arrival, end>> of the request that started x

requestVars == <<pc, req, held, claims, arrived>>
vars == <<rules, tokens, start, ruleLog, window, requestVars>>

WordsOf(scope) == {scope[i] : i \in 1 .. Len(scope)}

Token == [txn : Nat, sub : Subjects, ctx : Contexts, scope : Seq(Words), wl : Workloads]

(* TokenExchangeRequest: an issuance carries the subject token's subject and *)
(* the context to embed, a replacement the token to replace.  wl is what     *)
(* identifyWorkload reads from the headers.                                  *)
Issuance == [kind : {"issue"}, sub : Subjects, ctx : Contexts, scope : Scopes, wl : Workloads]
Replacement == [kind : {"replace"}, old : Token, scope : Scopes, wl : Workloads]

Init ==
    /\ rules = {}
    /\ pc = [r \in Requests |-> "idle"]
    /\ req = [r \in Requests |-> None]
    /\ held = [r \in Requests |-> {}]
    /\ claims = [r \in Requests |-> None]
    /\ tokens = {}
    /\ start = <<>>
    /\ ruleLog = <<{}>>
    /\ arrived = [r \in Requests |-> 0]
    /\ window = <<>>

(* SetIssuanceRules stores a fresh copy of the slice. *)
SetIssuanceRules(rs) ==
    /\ Len(ruleLog) < MaxRules
    /\ rules' = rs
    /\ ruleLog' = Append(ruleLog, rs)
    /\ UNCHANGED <<tokens, start, window, requestVars>>

-----------------------------------------------------------------------------

(* Issuance requests being served. *)
Open == {r \in Requests : pc[r] # "idle" /\ req[r].kind = "issue"}

(* Fault: a replacement is served as an issuance. *)
ReceiveAsIssuance(r, q) ==
    /\ pc[r] = "idle"
    /\ req' = [req EXCEPT ![r] = q]
    /\ pc' = [pc EXCEPT ![r] = "authenticate"]
    /\ arrived' = [arrived EXCEPT ![r] = Len(ruleLog)]
    /\ UNCHANGED <<rules, tokens, start, ruleLog, window, held, claims>>

(* ServeHTTP: parse, then dispatch on the subject token type. *)
Receive(r, q) ==
    /\ pc[r] = "idle"
    /\ q.kind = "issue" => Len(start) + Cardinality(Open) < MaxTxn
    /\ req' = [req EXCEPT ![r] = q]
    /\ pc' = [pc EXCEPT ![r] = IF q.kind = "issue" THEN "authenticate" ELSE "verify"]
    /\ arrived' = [arrived EXCEPT ![r] = Len(ruleLog)]
    /\ UNCHANGED <<rules, tokens, start, ruleLog, window, held, claims>>

(* Any error answer: nothing is kept of the request. *)
Refuse(r) ==
    /\ pc' = [pc EXCEPT ![r] = "idle"]
    /\ req' = [req EXCEPT ![r] = None]
    /\ held' = [held EXCEPT ![r] = {}]
    /\ claims' = [claims EXCEPT ![r] = None]
    /\ arrived' = [arrived EXCEPT ![r] = 0]
    /\ UNCHANGED <<rules, tokens, start, ruleLog, window>>

(* The authenticator router may call out to an identity provider. *)
Authenticate(r) ==
    /\ pc[r] = "authenticate"
    /\ \/ /\ pc' = [pc EXCEPT ![r] = "load"]
          /\ UNCHANGED <<rules, tokens, start, ruleLog, window, req, held, claims, arrived>>
       \/ Refuse(r)

LoadIssuanceRules(r) ==
    /\ pc[r] = "load"
    /\ held' = [held EXCEPT ![r] = rules]
    /\ pc' = [pc EXCEPT ![r] = "evaluate"]
    /\ UNCHANGED <<rules, tokens, start, ruleLog, window, req, claims, arrived>>

(* ns is None when the workload namespace is unknown. *)
ruleAppliesToNamespace(rule, ns) == rule.targets = {} \/ ns \in rule.targets

(* Fault: issuance goes ahead when one rule passes. *)
EvaluateAnyRule(rs, ns, sub) ==
    rs = {} \/ \E rule \in rs : ruleAppliesToNamespace(rule, ns) => sub \notin rule.denies

EvaluateIssuanceRules(rs, ns, sub) ==
    \A rule \in rs : ruleAppliesToNamespace(rule, ns) => sub \notin rule.denies

(* The handler evaluates the rules with an empty WorkloadNS. *)
Evaluate(r) ==
    /\ pc[r] = "evaluate"
    /\ IF EvaluateIssuanceRules(held[r], None, req[r].sub)
       THEN /\ claims' = [claims EXCEPT ![r] =
                  [txn |-> 0, sub |-> req[r].sub, ctx |-> req[r].ctx,
                   scope |-> req[r].scope, wl |-> req[r].wl]]
            /\ pc' = [pc EXCEPT ![r] = "sign"]
            /\ UNCHANGED <<rules, tokens, start, ruleLog, window, req, held, arrived>>
       ELSE Refuse(r)

(* Fault: the requested scope need only overlap with the existing one. *)
isScopeOverlap(requested, existing) ==
    requested = <<>> \/ WordsOf(requested) \cap WordsOf(existing) # {}

isScopeSubset(requested, existing) == WordsOf(requested) \subseteq WordsOf(existing)

(* handleReplacement: the token may have expired or its key may be gone. *)
VerifyExisting(r) ==
    /\ pc[r] = "verify"
    /\ \/ /\ isScopeSubset(req[r].scope, req[r].old.scope)
          /\ claims' = [claims EXCEPT ![r] =
                [req[r].old EXCEPT !.scope = req[r].scope, !.wl = req[r].wl]]
          /\ pc' = [pc EXCEPT ![r] = "sign"]
          /\ UNCHANGED <<rules, tokens, start, ruleLog, window, req, held, arrived>>
       \/ Refuse(r)

(* Fault: a replacement gets a transaction identifier of its own. *)
SignFreshTxn(r) ==
    /\ pc[r] = "sign"
    /\ LET t == [claims[r] EXCEPT !.txn = Len(start) + 1]
       IN  /\ tokens' = tokens \cup {t}
           /\ start' = IF claims[r].txn = 0 THEN Append(start, t) ELSE start
           /\ window' = IF claims[r].txn = 0
                        THEN Append(window, <<arrived[r], Len(ruleLog)>>)
                        ELSE window
    /\ pc' = [pc EXCEPT ![r] = "idle"]
    /\ req' = [req EXCEPT ![r] = None]
    /\ held' = [held EXCEPT ![r] = {}]
    /\ claims' = [claims EXCEPT ![r] = None]
    /\ arrived' = [arrived EXCEPT ![r] = 0]
    /\ UNCHANGED <<rules, ruleLog>>

(* signAndRespond and token.New: claims without a transaction identifier *)
(* get a fresh one (a random UUID).                                      *)
Sign(r) ==
    /\ pc[r] = "sign"
    /\ \/ /\ claims[r].txn = 0
          /\ LET t == [claims[r] EXCEPT !.txn = Len(start) + 1]
             IN  /\ tokens' = tokens \cup {t}
                 /\ start' = Append(start, t)
          /\ window' = Append(window, <<arrived[r], Len(ruleLog)>>)
       \/ /\ claims[r].txn # 0
          /\ tokens' = tokens \cup {claims[r]}
          /\ UNCHANGED <<start, window>>
    /\ pc' = [pc EXCEPT ![r] = "idle"]
    /\ req' = [req EXCEPT ![r] = None]
    /\ held' = [held EXCEPT ![r] = {}]
    /\ claims' = [claims EXCEPT ![r] = None]
    /\ arrived' = [arrived EXCEPT ![r] = 0]
    /\ UNCHANGED <<rules, ruleLog>>

(* token.New refuses claims with an empty subject, and signing may fail. *)
SignFails(r) == pc[r] = "sign" /\ Refuse(r)

-----------------------------------------------------------------------------

Serve(r) ==
    \/ \E q \in Issuance : Receive(r, q)
    \/ \E t \in tokens, s \in Scopes, w \in Workloads :
          Receive(r, [kind |-> "replace", old |-> t, scope |-> s, wl |-> w])
    \/ Authenticate(r)
    \/ LoadIssuanceRules(r)
    \/ Evaluate(r)
    \/ VerifyExisting(r)
    \/ Sign(r)
    \/ SignFails(r)

Next ==
    \/ \E rs \in RuleSets : SetIssuanceRules(rs)
    \/ \E r \in Requests : Serve(r)

Spec == Init /\ [][Next]_vars

-----------------------------------------------------------------------------
(* Properties.                                                             *)

(* State stays well-typed, and what a request holds fits where it stands. *)
TypeOK ==
    /\ rules \in RuleSets
    /\ tokens \subseteq Token
    /\ start \in Seq(Token)
    /\ ruleLog \in Seq(RuleSets)
    /\ window \in Seq(Nat \X Nat)
    /\ Len(window) = Len(start)
    /\ pc \in [Requests -> {"idle", "authenticate", "load", "evaluate", "verify", "sign"}]
    /\ req \in [Requests -> Issuance \cup Replacement \cup {None}]
    /\ held \in [Requests -> RuleSets]
    /\ claims \in [Requests -> Token \cup {None}]
    /\ arrived \in [Requests -> Nat]
    /\ \A r \in Requests :
          /\ pc[r] \in {"authenticate", "load", "evaluate"} => req[r] \in Issuance
          /\ pc[r] = "verify" => req[r] \in Replacement
          /\ pc[r] = "sign" => claims[r] \in Token

(* The service implements TxnChain: a transaction starts with one token, and *)
(* every other token of it is a narrowing of one of its tokens, however      *)
(* issuance, replacement and rule updates interleave (ServeHTTP).            *)
Chain == INSTANCE TxnChain
ImplementsTxnChain == Chain!Spec

(* Scope only shrinks along a transaction, and subject and context never     *)
(* change, over any number of replacements (handleReplacement).              *)
WithinOrigin == Chain!WithinOrigin

PassesClusterWide(rs, sub) ==
    \A rule \in rs : rule.targets = {} => sub \notin rule.denies

(* A transaction starts only if its subject passes every cluster-wide rule   *)
(* of one rule set that was in force at some moment while its request was    *)
(* served: SetIssuanceRules swaps the set, it never mixes two (ServeHTTP).   *)
StartedUnderOneRuleSet ==
    \A x \in 1 .. Len(start) :
        \E k \in window[x][1] .. window[x][2] :
            PassesClusterWide(ruleLog[k], start[x].sub)

(* What a request holds between its steps.  A replacement refers to an       *)
(* issued token and narrows it; an issuance has loaded one of the sets       *)
(* stored since it arrived, and its subject has passed it.                   *)
HeldInv ==
    \A r \in Requests :
        /\ pc[r] = "verify" => req[r].old \in tokens
        /\ pc[r] = "sign" /\ claims[r].txn # 0 =>
              \E p \in tokens :
                 /\ claims[r].txn = p.txn
                 /\ claims[r].sub = p.sub
                 /\ claims[r].ctx = p.ctx
                 /\ WordsOf(claims[r].scope) \subseteq WordsOf(p.scope)
        /\ pc[r] # "idle" => arrived[r] \in 1 .. Len(ruleLog)
        /\ pc[r] = "evaluate" =>
              \E k \in arrived[r] .. Len(ruleLog) : held[r] = ruleLog[k]
        /\ pc[r] = "sign" /\ claims[r].txn = 0 =>
              \E k \in arrived[r] .. Len(ruleLog) :
                 PassesClusterWide(ruleLog[k], claims[r].sub)

(* The windows lie within the log, whose last entry is in force. *)
LogInv ==
    /\ ruleLog # <<>>
    /\ rules = ruleLog[Len(ruleLog)]
    /\ \A x \in 1 .. Len(window) :
          window[x][1] \in 1 .. Len(ruleLog) /\ window[x][2] \in 1 .. Len(ruleLog)

(* docs/proposal.md: the issuance rules are evaluated on every token         *)
(* exchange request.  So whoever is about to get a token, new or replaced,   *)
(* passes a rule set in force at some moment of the request (ServeHTTP).     *)
EveryExchangePermitted ==
    \A r \in Requests :
        pc[r] = "sign" =>
            \E k \in arrived[r] .. Len(ruleLog) : PassesClusterWide(ruleLog[k], claims[r].sub)

=============================================================================
