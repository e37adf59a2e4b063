------------------------------- MODULE TxnChain -------------------------------
(***************************************************************************)
(* What the transaction token service promises about the tokens it issues: *)
(* every token belongs to a transaction; a transaction starts with one     *)
(* token, and every further token of it is derived from one of its tokens, *)
(* with the same subject and context and with no scope that one lacks.     *)
(***************************************************************************)
EXTENDS Naturals, Sequences

CONSTANTS Words, Subjects, Contexts, Workloads

VARIABLES
    tokens,     \* every token issued
    start       \* start[x]: the token transaction x started with

chainVars == <<tokens, start>>

ScopeStrings == Seq(Words)
WordsOf(scope) == {scope[i] : i \in 1 .. Len(scope)}

Token == [txn : Nat, sub : Subjects, ctx : Contexts, scope : ScopeStrings, wl : Workloads]

Init == tokens = {} /\ start = <<>>

(* A new transaction; its identifier is fresh. *)
Start(t) ==
    /\ t.txn = Len(start) + 1
    /\ start' = Append(start, t)
    /\ tokens' = tokens \cup {t}

(* A replacement for token p. *)
Derive(p, t) ==
    /\ t.txn = p.txn /\ t.sub = p.sub /\ t.ctx = p.ctx
    /\ WordsOf(t.scope) \subseteq WordsOf(p.scope)
    /\ tokens' = tokens \cup {t}
    /\ start' = start

Next ==
    \E t \in tokens' :
        /\ t \in Token
        /\ Start(t) \/ \E p \in tokens : Derive(p, t)

Spec == Init /\ [][Next]_chainVars

-----------------------------------------------------------------------------

(* However long the chain of replacements and however requests interleave,  *)
(* a token has the subject and context its transaction started with, and    *)
(* only words of the scope it started with (handleReplacement).             *)
WithinOrigin ==
    \A t \in tokens :
        /\ t.txn \in 1 .. Len(start)
        /\ t.sub = start[t.txn].sub
        /\ t.ctx = start[t.txn].ctx
        /\ WordsOf(t.scope) \subseteq WordsOf(start[t.txn].scope)

=============================================================================
