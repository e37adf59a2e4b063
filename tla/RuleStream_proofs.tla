-------------------------- MODULE RuleStream_proofs --------------------------
(***************************************************************************)
(* Proofs about RuleStream, for every number of clients, keys and rules,   *)
(* and every channel capacity.                                             *)
(***************************************************************************)
EXTENDS RuleStream, TLAPS

-----------------------------------------------------------------------------
(* Facts about queues that the proofs below use.                           *)

(* The length and the positions of a queue. *)
LEMMA SeqLen ==
    ASSUME NEW S, NEW q \in Seq(S)
    PROVE  Len(q) \in Nat /\ DOMAIN q = 1 .. Len(q) /\ q \in [1 .. Len(q) -> S]
  OBVIOUS

(* Its items. *)
LEMMA SeqItem ==
    ASSUME NEW S, NEW q \in Seq(S), NEW i \in 1 .. Len(q)
    PROVE  q[i] \in S
  OBVIOUS

(* A queue that is not empty has a length. *)
LEMMA SeqSome ==
    ASSUME NEW S, NEW q \in Seq(S), q # <<>>
    PROVE  Len(q) \in Nat \ {0}
  OBVIOUS

(* Queues with the same items are the same. *)
LEMMA SeqSame ==
    ASSUME NEW S, NEW p \in Seq(S), NEW q \in Seq(S), Len(p) = Len(q),
           \A i \in 1 .. Len(p) : p[i] = q[i]
    PROVE  p = q
  OBVIOUS

(* One queue behind another. *)
LEMMA CatFacts ==
    ASSUME NEW S, NEW p \in Seq(S), NEW q \in Seq(S)
    PROVE  /\ p \o q \in Seq(S) /\ Len(p \o q) = Len(p) + Len(q)
           /\ \A i \in 1 .. Len(p) + Len(q) :
                 (p \o q)[i] = IF i <= Len(p) THEN p[i] ELSE q[i - Len(p)]
  OBVIOUS

(* Nothing in front or behind changes nothing. *)
LEMMA CatNone ==
    ASSUME NEW S, NEW q \in Seq(S)
    PROVE  q \o <<>> = q /\ <<>> \o q = q
  OBVIOUS

(* Three queues in a row. *)
LEMMA CatAssoc ==
    ASSUME NEW S, NEW p \in Seq(S), NEW q \in Seq(S), NEW r \in Seq(S)
    PROVE  (p \o q) \o r = p \o (q \o r)
  OBVIOUS

(* The next item and the queue behind it. *)
LEMMA TailFacts ==
    ASSUME NEW S, NEW q \in Seq(S), q # <<>>
    PROVE  /\ Head(q) \in S /\ Head(q) = q[1]
           /\ Tail(q) \in Seq(S) /\ Len(Tail(q)) = Len(q) - 1
           /\ \A i \in 1 .. Len(q) - 1 : Tail(q)[i] = q[i + 1]
  OBVIOUS

(* An item that joins the queue. *)
LEMMA AppendFacts ==
    ASSUME NEW S, NEW q \in Seq(S), NEW x \in S
    PROVE  /\ Append(q, x) \in Seq(S) /\ Append(q, x) # <<>>
           /\ Len(Append(q, x)) = Len(q) + 1
           /\ Append(q, x)[Len(q) + 1] = x
           /\ \A i \in 1 .. Len(q) : Append(q, x)[i] = q[i]
           /\ Append(q, x) = q \o <<x>>
  OBVIOUS

-----------------------------------------------------------------------------
(* The messages pending for a client are one queue: moving a message from   *)
(* the channel to the handler's hand and from the hand to the wire leaves   *)
(* it as it is, a broadcast appends to it, a receive takes its head.        *)

(* Take leaves the queue of pending messages as it is. *)
LEMMA PendingTake ==
    \A w, q \in Seq(Messages) : q # <<>> =>
        w \o <<Head(q)>> \o Tail(q) = w \o <<>> \o q
  OBVIOUS

(* A handler's hand that is not empty holds one message. *)
LEMMA OneMessage ==
    \A h \in Seq(Messages) : h # <<>> /\ Len(h) <= 1 => h = <<Head(h)>>
<1> SUFFICES ASSUME NEW h \in Seq(Messages), h # <<>>, Len(h) <= 1
             PROVE  h = <<Head(h)>>
  OBVIOUS
<1>1. \A n \in Nat : n # 0 /\ n <= 1 => n = 1
  OBVIOUS
<1>2. Len(h) \in Nat /\ Len(h) # 0 /\ Head(h) = h[1] /\ Head(h) \in Messages
  BY SeqSome, TailFacts, SeqLen
<1>3. Len(h) = 1
  BY <1>1, <1>2, Zenon
<1>4. /\ <<Head(h)>> \in Seq(Messages)
      /\ Len(<<Head(h)>>) = 1 /\ <<Head(h)>>[1] = Head(h)
  BY <1>2
<1> QED
  BY <1>2, <1>3, <1>4, SeqSame

(* Send leaves the queue of pending messages as it is. *)
LEMMA PendingSend ==
    \A w, h, q \in Seq(Messages) : h # <<>> /\ Len(h) <= 1 =>
        Append(w, Head(h)) \o <<>> \o q = w \o h \o q
<1> SUFFICES ASSUME NEW w \in Seq(Messages), NEW h \in Seq(Messages),
                    NEW q \in Seq(Messages), h # <<>>, Len(h) <= 1
             PROVE  Append(w, Head(h)) \o <<>> \o q = w \o h \o q
  BY ZenonT(40)
<1>1. h = <<Head(h)>> /\ Head(h) \in Messages
  BY OneMessage, TailFacts
<1>2. Append(w, Head(h)) = w \o <<Head(h)>> /\ Append(w, Head(h)) \in Seq(Messages)
  BY <1>1, AppendFacts
<1>3. Append(w, Head(h)) \o <<>> = Append(w, Head(h))
  BY <1>2, CatNone
<1> QED
  BY <1>1, <1>2, <1>3, SMTT(40)

(* Concatenation of message sequences is closed and associative. *)
LEMMA Concats ==
    \A s, t, u \in Seq(Messages) :
        s \o t \in Seq(Messages) /\ (s \o t) \o u = s \o (t \o u)
<1> SUFFICES ASSUME NEW s \in Seq(Messages), NEW t \in Seq(Messages),
                    NEW u \in Seq(Messages)
             PROVE  s \o t \in Seq(Messages) /\ (s \o t) \o u = s \o (t \o u)
  OBVIOUS
<1>1. s \o t \in Seq(Messages)
  BY CatFacts
<1>2. (s \o t) \o u = s \o (t \o u)
  BY CatAssoc, SMTT(40)
<1> QED
  BY <1>1, <1>2

(* Head and tail of a concatenation come from a first part that has any. *)
LEMMA ConcatHead ==
    \A w, p \in Seq(Messages) : w # <<>> =>
        /\ w \o p # <<>>
        /\ Head(w \o p) = Head(w)
        /\ Tail(w) \o p = Tail(w \o p)
<1> SUFFICES ASSUME NEW w \in Seq(Messages), NEW p \in Seq(Messages), w # <<>>
             PROVE  /\ w \o p # <<>>
                    /\ Head(w \o p) = Head(w)
                    /\ Tail(w) \o p = Tail(w \o p)
  OBVIOUS
<1> DEFINE x == w \o p
           y == Tail(w) \o p
<1>1. /\ Len(w) \in Nat /\ Len(p) \in Nat /\ Len(w) # 0
      /\ Tail(w) \in Seq(Messages) /\ Len(Tail(w)) = Len(w) - 1
      /\ Head(w) = w[1]
      /\ \A i \in 1 .. Len(w) - 1 : Tail(w)[i] = w[i + 1]
  BY TailFacts, SeqLen, SeqSome
<1>2. /\ x \in Seq(Messages) /\ Len(x) = Len(w) + Len(p)
      /\ \A i \in 1 .. Len(w) + Len(p) : x[i] = IF i <= Len(w) THEN w[i] ELSE p[i - Len(w)]
  BY CatFacts
<1>3. /\ y \in Seq(Messages) /\ Len(y) = Len(w) - 1 + Len(p)
      /\ \A i \in 1 .. Len(w) - 1 + Len(p) :
            y[i] = IF i <= Len(w) - 1 THEN Tail(w)[i] ELSE p[i - (Len(w) - 1)]
  BY <1>1, CatFacts
<1> HIDE DEF x, y
<1>4. x # <<>> /\ Head(x) = x[1] /\ x[1] = w[1]
  BY <1>1, <1>2
<1>5. /\ Tail(x) \in Seq(Messages) /\ Len(Tail(x)) = Len(x) - 1
      /\ \A i \in 1 .. Len(x) - 1 : Tail(x)[i] = x[i + 1]
  BY <1>2, <1>4, TailFacts
<1>6. Len(y) = Len(Tail(x)) 
  BY <1>1, <1>2, <1>3, <1>5
<1>7. \A i \in 1 .. Len(y) : y[i] = Tail(x)[i]
  BY <1>1, <1>2, <1>3, <1>5
<1>8. y = Tail(x)
  BY <1>3, <1>5, <1>6, <1>7, SeqSame
<1> QED
  BY <1>1, <1>4, <1>8 DEF x, y

(* Recv takes the head of the queue of pending messages. *)
LEMMA PendingRecv ==
    \A w, h, q \in Seq(Messages) : w # <<>> =>
        /\ w \o h \o q # <<>>
        /\ Head(w \o h \o q) = Head(w)
        /\ Tail(w) \o h \o q = Tail(w \o h \o q)
<1> SUFFICES ASSUME NEW w \in Seq(Messages), NEW h \in Seq(Messages),
                    NEW q \in Seq(Messages), w # <<>>
             PROVE  /\ w \o h \o q # <<>>
                    /\ Head(w \o h \o q) = Head(w)
                    /\ Tail(w) \o h \o q = Tail(w \o h \o q)
  BY Zenon
<1>1. h \o q \in Seq(Messages) /\ Tail(w) \in Seq(Messages)
  <2>1. h \o q \in Seq(Messages)
    BY Concats
  <2>2. Tail(w) \in Seq(Messages)
    BY TailFacts
  <2> QED
    BY <2>1, <2>2
<1>2. /\ w \o h \o q = w \o (h \o q)
      /\ Tail(w) \o h \o q = Tail(w) \o (h \o q)
  <2>1. w \o h \o q = w \o (h \o q)
    BY CatAssoc, SMTT(40)
  <2>2. Tail(w) \o h \o q = Tail(w) \o (h \o q)
    BY <1>1, CatAssoc, SMTT(40)
  <2> QED
    BY <2>1, <2>2
<1>3. /\ w \o (h \o q) # <<>>
      /\ Head(w \o (h \o q)) = Head(w)
      /\ Tail(w) \o (h \o q) = Tail(w \o (h \o q))
  BY <1>1, ConcatHead, Zenon
<1> QED
  BY <1>2, <1>3, Zenon
(* A broadcast that finds room appends to the queue of pending messages. *)
LEMMA PendingBroadcast ==
    \A w, h, q \in Seq(Messages), m \in Messages :
        w \o h \o Append(q, m) = Append(w \o h \o q, m)
  OBVIOUS

-----------------------------------------------------------------------------
(* Replaying a queue of messages.                                          *)

(* Touches, Effect and Merge stay within the rule sets. *)
LEMMA MergeType ==
    ASSUME NEW m \in Messages, NEW map \in RuleSets
    PROVE  Merge(m, map) \in RuleSets
  BY DEF Merge, Effect, Messages, RuleSets

(* Receiving the head of the queue: the rest of the queue, replayed from the *)
(* merged map, yields the same rules.                                        *)
LEMMA ReplayRecv ==
    ASSUME NEW P \in Seq(Messages), P # <<>>,
           NEW map \in RuleSets, NEW rs \in RuleSets,
           ReplayYields(P, map, rs)
    PROVE  ReplayYields(Tail(P), Merge(Head(P), map), rs)
<1>1. /\ Len(P) \in Nat /\ Len(Tail(P)) = Len(P) - 1
      /\ \A i \in 1 .. Len(P) - 1 : Tail(P)[i] = P[i + 1]
      /\ Head(P) = P[1] /\ Len(P) >= 1
  BY TailFacts, SeqSome
<1> SUFFICES ASSUME NEW k \in Keys
    PROVE /\ (\A i \in 1 .. Len(Tail(P)) : ~Touches(Tail(P)[i], k))
                => Merge(Head(P), map)[k] = rs[k]
          /\ \A i \in 1 .. Len(Tail(P)) :
                /\ Touches(Tail(P)[i], k)
                /\ \A j \in i + 1 .. Len(Tail(P)) : ~Touches(Tail(P)[j], k)
                => Effect(Tail(P)[i], k) = rs[k]
  BY SMTT(40) DEF ReplayYields
<1> DEFINE T(i) == Touches(P[i], k)
<1>2. /\ (\A i \in 1 .. Len(P) : ~T(i)) => map[k] = rs[k]
      /\ \A i \in 1 .. Len(P) :
            T(i) /\ (\A j \in i + 1 .. Len(P) : ~T(j)) => Effect(P[i], k) = rs[k]
  BY DEF ReplayYields
<1>3. Merge(Head(P), map)[k] = IF T(1) THEN Effect(P[1], k) ELSE map[k]
  BY <1>1 DEF Merge
<1>4. \A i \in 1 .. Len(P) - 1 : Touches(Tail(P)[i], k) <=> T(i + 1)
  BY <1>1
<1> HIDE DEF T
<1>5. ASSUME \A i \in 1 .. Len(P) - 1 : ~T(i + 1)
      PROVE  Merge(Head(P), map)[k] = rs[k]
  <2>1. \A i \in 2 .. Len(P) : ~T(i)
    <3> TAKE i \in 2 .. Len(P)
    <3>1. i - 1 \in 1 .. Len(P) - 1 /\ (i - 1) + 1 = i
      BY <1>1
    <3> QED
      BY <1>5, <3>1
  <2>2. CASE T(1)
    BY <2>1, <2>2, <1>1, <1>2, <1>3
  <2>3. CASE ~T(1)
    <3>1. \A i \in 1 .. Len(P) : ~T(i)
      BY <2>1, <2>3, <1>1
    <3> QED
      BY <2>3, <3>1, <1>2, <1>3
  <2> QED
    BY <2>2, <2>3
<1>6. ASSUME NEW i \in 1 .. Len(P) - 1, T(i + 1),
             \A j \in i + 1 .. Len(P) - 1 : ~T(j + 1)
      PROVE  Effect(Tail(P)[i], k) = rs[k]
  <2>1. \A j \in i + 2 .. Len(P) : ~T(j)
    <3> TAKE j \in i + 2 .. Len(P)
    <3>1. j - 1 \in i + 1 .. Len(P) - 1 /\ (j - 1) + 1 = j
      BY <1>1
    <3> QED
      BY <1>6, <3>1
  <2>2. i + 1 \in 1 .. Len(P) /\ (i + 1) + 1 = i + 2
    BY <1>1
  <2>3. Effect(P[i + 1], k) = rs[k]
    BY <1>6, <1>2, <2>1, <2>2
  <2> QED
    BY <2>3, <1>1
<1> QED
  BY <1>1, <1>4, <1>5, <1>6

(* A delta appended to the queue changes what the queue yields the way it *)
(* changes the rules.                                                     *)
LEMMA ReplayAppend ==
    ASSUME NEW P \in Seq(Messages), NEW m \in Messages,
           NEW map \in RuleSets, NEW rs \in RuleSets, NEW new \in RuleSets,
           m.snap \/ ReplayYields(P, map, rs),
           \A k \in Keys : new[k] = IF Touches(m, k) THEN Effect(m, k) ELSE rs[k]
    PROVE  ReplayYields(Append(P, m), map, new)
<1> DEFINE Q == Append(P, m)
           n == Len(P)
<1>1. /\ n \in Nat /\ Len(Q) = n + 1 /\ Q[n + 1] = m
      /\ \A i \in 1 .. n : Q[i] = P[i]
  BY AppendFacts, SeqLen
<1> SUFFICES ASSUME NEW k \in Keys
    PROVE /\ (\A i \in 1 .. Len(Q) : ~Touches(Q[i], k)) => map[k] = new[k]
          /\ \A i \in 1 .. Len(Q) :
                /\ Touches(Q[i], k)
                /\ \A j \in i + 1 .. Len(Q) : ~Touches(Q[j], k)
                => Effect(Q[i], k) = new[k]
  BY DEF ReplayYields
<1> HIDE DEF Q, n
<1>2. CASE Touches(m, k)
  <2>1. n + 1 \in 1 .. Len(Q) /\ Touches(Q[n + 1], k)
    BY <1>1, <1>2
  <2>2. ASSUME NEW i \in 1 .. Len(Q),
               \A j \in i + 1 .. Len(Q) : ~Touches(Q[j], k)
        PROVE  i = n + 1
    BY <2>1, <2>2, <1>1
  <2>3. Effect(Q[n + 1], k) = new[k]
    BY <1>1, <1>2
  <2> QED
    BY <2>1, <2>2, <2>3
<1>3. CASE ~Touches(m, k)
  <2>1. ~m.snap /\ new[k] = rs[k]
    BY <1>3 DEF Touches
  <2>2. /\ (\A i \in 1 .. n : ~Touches(P[i], k)) => map[k] = rs[k]
        /\ \A i \in 1 .. n :
              /\ Touches(P[i], k)
              /\ \A j \in i + 1 .. n : ~Touches(P[j], k)
              => Effect(P[i], k) = rs[k]
    BY <2>1 DEF ReplayYields, n
  <2>3. \A i \in 1 .. Len(Q) : Touches(Q[i], k) => i \in 1 .. n
    BY <1>1, <1>3
  <2>4. \A i \in 1 .. n : i \in 1 .. Len(Q) /\ Q[i] = P[i]
    BY <1>1
  <2>5. ASSUME NEW i \in 1 .. n,
               \A j \in i + 1 .. Len(Q) : ~Touches(Q[j], k)
        PROVE  \A j \in i + 1 .. n : ~Touches(P[j], k)
    BY <2>5, <1>1
  <2> QED
    BY <2>1, <2>2, <2>3, <2>4, <2>5
<1> QED
  BY <1>2, <1>3

-----------------------------------------------------------------------------
(* Type correctness.                                                       *)

(* The three kinds of response are messages. *)
LEMMA MessageTypes ==
    /\ EmptyRules \in RuleSets
    /\ \A rs \in RuleSets, v \in Nat : Snapshot(rs, v) \in Messages
    /\ \A k \in Keys, x \in Values, v \in Nat : Upserted(k, x, v) \in Messages
    /\ \A r \in Refs, v \in Nat : Removed(r, v) \in Messages
  BY DEF Messages, Snapshot, Upserted, Removed, RuleSets, EmptyRules

(* A broadcast of a message with the next version keeps the types. *)
LEMMA BroadcastType ==
    ASSUME TypeOK, NEW m \in Messages, m.version = version + 1,
           rules' \in RuleSets, Broadcast(m)
    PROVE  TypeOK'
<1> USE DEF TypeOK
<1>1. log' \in Seq(RuleSets) /\ Len(log') = Len(log) + 1
  BY AppendFacts DEF Broadcast
<1>2. version' \in Nat /\ version' < Len(log')
  BY <1>1, SeqLen DEF Broadcast
<1>3. gap' \in [Clients -> BOOLEAN]
  BY DEF Broadcast
<1>4. ASSUME NEW c \in Clients
      PROVE  /\ chan'[c] \in Seq(Messages) /\ Len(chan'[c]) <= ChanCap
             /\ phase[c] # "streaming" => chan'[c] = <<>>
  <2>1. CASE Room(c)
    <3>1. chan'[c] = Append(chan[c], m) /\ Len(chan[c]) < ChanCap
      BY <2>1 DEF Broadcast, Room
    <3> QED
      BY <2>1, <3>1, AppendFacts, SeqLen, BoundsAssumption DEF Room
  <2>2. CASE ~Room(c)
    BY <2>2 DEF Broadcast
  <2> QED
    BY <2>1, <2>2
<1>5. chan' \in [Clients -> Seq(Messages)]
  <2>1. chan' = [c \in Clients |-> chan'[c]]
    BY SMTT(40) DEF Broadcast
  <2> QED
    BY <2>1, <1>4
<1> QED
  BY <1>1, <1>2, <1>3, <1>4, <1>5, SMTT(40) DEF Broadcast, clientVars

(* TypeOK is preserved by every step. *)
LEMMA TypeStep == TypeOK /\ [Next]_vars => TypeOK'
<1> SUFFICES ASSUME TypeOK, [Next]_vars PROVE TypeOK'
  OBVIOUS
<1> USE DEF TypeOK, serverVars, clientVars, Phases
<1>1. ASSUME NEW rs \in RuleSets, UpdateRules(rs) PROVE TypeOK'
  <2>1. Snapshot(rs, version + 1) \in Messages
    BY MessageTypes
  <2> QED
    BY <1>1, <2>1, BroadcastType, SMTT(40) DEF UpdateRules, Snapshot
<1>2. ASSUME NEW k \in Keys, NEW x \in Values, UpsertRule(k, x) PROVE TypeOK'
  <2>1. Upserted(k, x, version + 1) \in Messages
    BY MessageTypes
  <2>2. rules' \in RuleSets
    BY <1>2 DEF UpsertRule, RuleSets
  <2> QED
    BY <1>2, <2>1, <2>2, BroadcastType, Zenon DEF UpsertRule, Upserted
<1>3. ASSUME NEW r \in Refs, RemoveRule(r) PROVE TypeOK'
  <2>1. Removed(r, version + 1) \in Messages
    BY MessageTypes
  <2>2. rules' \in RuleSets
    BY <1>3 DEF RemoveRule, RuleSets
  <2> QED
    BY <1>3, <2>1, <2>2, BroadcastType, Zenon DEF RemoveRule, Removed
<1>4. ASSUME NEW c \in Clients, Connect(c) PROVE TypeOK'
  BY <1>4, MessageTypes DEF Connect
<1>5. ASSUME NEW c \in Clients, Subscribe(c) PROVE TypeOK'
  <2>1. Snapshot(rules, version) \in Messages
    BY MessageTypes
  <2> QED
    BY <1>5, <2>1 DEF Subscribe
<1>6. ASSUME NEW c \in Clients, Send(c) PROVE TypeOK'
  <2>1. Head(hand[c]) \in Messages
    BY <1>6, TailFacts DEF Send
  <2>2. /\ Append(wire[c], Head(hand[c])) \in Seq(Messages)
        /\ Len(Append(wire[c], Head(hand[c]))) <= WireCap
    BY <1>6, <2>1, AppendFacts, SeqLen, BoundsAssumption DEF Send
  <2> QED
    BY <1>6, <2>2 DEF Send
<1>7. ASSUME NEW c \in Clients, Take(c) PROVE TypeOK'
  <2>1. Head(chan[c]) \in Messages /\ Tail(chan[c]) \in Seq(Messages)
        /\ Len(Tail(chan[c])) <= ChanCap
    BY <1>7, TailFacts, SeqLen, BoundsAssumption DEF Take
  <2> QED
    BY <1>7, <2>1, SMTT(40) DEF Take
<1>8. ASSUME NEW c \in Clients, Recv(c) PROVE TypeOK'
  <2> DEFINE m == Head(wire[c])
             map == Merge(m, local[c])
  <2>1. m \in Messages /\ Tail(wire[c]) \in Seq(Messages)
        /\ Len(Tail(wire[c])) <= WireCap
    BY <1>8, TailFacts, SeqLen, BoundsAssumption DEF Recv
  <2>2. map \in RuleSets /\ m.version \in Nat
    BY <2>1, MergeType, Zenon DEF Messages
  <2>3. Len(log) - version + m.version \in Nat
    BY <2>2, SeqLen, SMTT(40)
  <2> HIDE DEF m, map
  <2>4. /\ local' = [local EXCEPT ![c] = map]
        /\ wire' = [wire EXCEPT ![c] = Tail(@)]
        /\ \/ /\ applied' = [applied EXCEPT ![c] = map]
              /\ synced' = [synced EXCEPT ![c] = TRUE]
              /\ at' = [at EXCEPT ![c] = Len(log) - version + m.version]
           \/ UNCHANGED <<applied, synced, at>>
        /\ UNCHANGED <<serverVars, phase, chan, hand, gap>>
    BY <1>8 DEF Recv, m, map
  <2>5. phase[c] = "streaming"
    BY <1>8 DEF Recv
  <2>6. local' \in [Clients -> RuleSets]
    BY <2>2, <2>4
  <2>7. applied' \in [Clients -> RuleSets]
    BY <2>2, <2>4, Zenon
  <2>8. synced' \in [Clients -> BOOLEAN]
    BY <2>4, Zenon
  <2>9. at' \in [Clients -> Nat]
    BY <2>3, <2>4, Zenon
  <2>10. wire' \in [Clients -> Seq(Messages)]
    BY <2>1, <2>4
  <2>11. \A d \in Clients : /\ Len(wire'[d]) <= WireCap
                            /\ phase[d] # "streaming" => wire'[d] = <<>>
    BY <2>1, <2>4, <2>5
  <2> QED
    BY <2>4, <2>6, <2>7, <2>8, <2>9, <2>10, <2>11, SMTT(40)
<1>9. CASE ControllerRestart
  <2>1. log' \in Seq(RuleSets) /\ Len(log') = Len(log) + 1
    BY <1>9, MessageTypes, AppendFacts DEF ControllerRestart
  <2> QED
    BY <1>9, <2>1, MessageTypes, SeqLen, BoundsAssumption DEF ControllerRestart
<1>10. ASSUME NEW c \in Clients, Disconnect(c) PROVE TypeOK'
  <2>1. <<>> \in Seq(Messages) /\ Len(<<>>) <= ChanCap /\ Len(<<>>) <= WireCap
    BY BoundsAssumption
  <2>2. /\ chan' \in [Clients -> Seq(Messages)]
        /\ hand' \in [Clients -> Seq(Messages)]
        /\ wire' \in [Clients -> Seq(Messages)]
        /\ phase' \in [Clients -> Phases] /\ gap' \in [Clients -> BOOLEAN]
    BY <1>10, <2>1 DEF Disconnect
  <2>3. ASSUME NEW d \in Clients
        PROVE  /\ Len(chan'[d]) <= ChanCap
               /\ Len(hand'[d]) <= 1
               /\ Len(wire'[d]) <= WireCap
               /\ phase'[d] # "streaming" =>
                     chan'[d] = <<>> /\ hand'[d] = <<>> /\ wire'[d] = <<>>
    BY <1>10, <2>1 DEF Disconnect
  <2> QED
    BY <1>10, <2>2, <2>3 DEF Disconnect
<1>11. ASSUME NEW c \in Clients, ClientRestart(c) PROVE TypeOK'
  BY <1>11, MessageTypes, BoundsAssumption, SMTT(40) DEF ClientRestart
<1>12. CASE UNCHANGED vars
  BY <1>12 DEF vars, streamVars
<1> QED
  BY <1>1, <1>2, <1>3, <1>4, <1>5, <1>6, <1>7, <1>8, <1>9, <1>10, <1>11, <1>12, Zenon
     DEF Next, Stream, Failure

(* Every reachable state is well typed, the queues keep their capacities,   *)
(* and only a subscribed client has messages pending.                       *)
THEOREM TypeCorrect == Spec => []TypeOK
<1>1. Init => TypeOK
  <2> SUFFICES ASSUME Init PROVE TypeOK
    OBVIOUS
  <2>1. log \in Seq(RuleSets) /\ Len(log) = 1
    BY MessageTypes DEF Init
  <2> QED
    BY <2>1, MessageTypes, BoundsAssumption DEF Init, TypeOK, Phases
<1> QED
  BY <1>1, TypeStep, PTL DEF Spec

-----------------------------------------------------------------------------
(* What the steps do to the queue of pending messages.                     *)

(* The pending messages of a client are a sequence of messages. *)
LEMMA PendingType ==
    ASSUME TypeOK, NEW c \in Clients
    PROVE  Pending(c) \in Seq(Messages)
  BY CatFacts, SMTT(40) DEF TypeOK, Pending

(* A broadcast reaches the subscribers that have room, and nobody else. *)
LEMMA BroadcastPending ==
    ASSUME TypeOK, NEW m \in Messages, Broadcast(m), NEW c \in Clients
    PROVE  /\ Room(c) => Pending(c)' = Append(Pending(c), m)
           /\ ~Room(c) => Pending(c)' = Pending(c)
<1>1. wire[c] \in Seq(Messages) /\ hand[c] \in Seq(Messages) /\ chan[c] \in Seq(Messages)
  BY DEF TypeOK
<1>2. /\ wire'[c] = wire[c] /\ hand'[c] = hand[c]
      /\ Room(c) => chan'[c] = Append(chan[c], m)
      /\ ~Room(c) => chan'[c] = chan[c]
  BY DEF Broadcast
<1>3. wire[c] \o hand[c] \o Append(chan[c], m) = Append(wire[c] \o hand[c] \o chan[c], m)
  BY <1>1, PendingBroadcast, Zenon
<1> QED
  BY <1>2, <1>3, Zenon DEF Pending

(* Send and Take move a message along without changing the queue; every *)
(* other client keeps its queue too.                                    *)
LEMMA MovePending ==
    ASSUME TypeOK, NEW c \in Clients, Send(c) \/ Take(c), NEW d \in Clients
    PROVE  Pending(d)' = Pending(d)
<1>1. wire[d] \in Seq(Messages) /\ hand[d] \in Seq(Messages) /\ chan[d] \in Seq(Messages)
      /\ Len(hand[d]) <= 1
  BY DEF TypeOK
<1>2. CASE d # c
  <2>1. wire'[d] = wire[d] /\ hand'[d] = hand[d] /\ chan'[d] = chan[d]
    BY <1>2 DEF Send, Take, TypeOK
  <2> QED
    BY <2>1 DEF Pending
<1>3. CASE d = c /\ Send(c)
  <2>1. /\ wire'[d] = Append(wire[d], Head(hand[d])) /\ hand'[d] = <<>>
        /\ chan'[d] = chan[d] /\ hand[d] # <<>>
    BY <1>3 DEF Send, TypeOK
  <2>2. Append(wire[d], Head(hand[d])) \o <<>> \o chan[d] = wire[d] \o hand[d] \o chan[d]
    BY <1>1, <2>1, PendingSend, Zenon
  <2> QED
    BY <2>1, <2>2, Zenon DEF Pending
<1>4. CASE d = c /\ Take(c)
  <2>1. /\ wire'[d] = wire[d] /\ hand'[d] = <<Head(chan[d])>>
        /\ chan'[d] = Tail(chan[d]) /\ hand[d] = <<>> /\ chan[d] # <<>>
    BY <1>4 DEF Take, TypeOK
  <2> QED
    BY <1>1, <2>1, PendingTake, Zenon DEF Pending
<1> QED
  BY <1>2, <1>3, <1>4

(* Recv consumes the head of the client's own queue. *)
LEMMA RecvPending ==
    ASSUME TypeOK, NEW c \in Clients, Recv(c)
    PROVE  /\ Pending(c) # <<>>
           /\ Head(Pending(c)) = Head(wire[c])
           /\ Pending(c)' = Tail(Pending(c))
           /\ \A d \in Clients \ {c} : Pending(d)' = Pending(d)
<1>1. wire[c] \in Seq(Messages) /\ hand[c] \in Seq(Messages) /\ chan[c] \in Seq(Messages)
  BY DEF TypeOK
<1>2. /\ wire[c] # <<>> /\ wire'[c] = Tail(wire[c])
      /\ hand'[c] = hand[c] /\ chan'[c] = chan[c]
      /\ \A d \in Clients \ {c} :
            wire'[d] = wire[d] /\ hand'[d] = hand[d] /\ chan'[d] = chan[d]
  BY DEF Recv, TypeOK
<1>3. /\ wire[c] \o hand[c] \o chan[c] # <<>>
      /\ Head(wire[c] \o hand[c] \o chan[c]) = Head(wire[c])
      /\ Tail(wire[c]) \o hand[c] \o chan[c] = Tail(wire[c] \o hand[c] \o chan[c])
  BY <1>1, <1>2, PendingRecv, Zenon
<1> QED
  BY <1>2, <1>3, Zenon DEF Pending

(* The queue of a client that has no stream is empty; a subscription starts *)
(* with the snapshot alone.                                                  *)
LEMMA SubscribePending ==
    ASSUME TypeOK, NEW c \in Clients, Subscribe(c)
    PROVE  /\ Pending(c)' = <<Snapshot(rules, version)>>
           /\ \A d \in Clients \ {c} : Pending(d)' = Pending(d)
<1>1. /\ wire'[c] = <<>> /\ chan'[c] = <<>>
      /\ hand'[c] = <<Snapshot(rules, version)>>
      /\ \A d \in Clients \ {c} :
            wire'[d] = wire[d] /\ hand'[d] = hand[d] /\ chan'[d] = chan[d]
  BY DEF Subscribe, TypeOK
<1> DEFINE h == <<Snapshot(rules, version)>>
<1>2. h \in Seq(Messages)
  BY MessageTypes DEF TypeOK
<1> HIDE DEF h
<1>3. <<>> \o h \o <<>> = h
  BY <1>2, CatNone
<1> QED
  BY <1>1, <1>3, Zenon DEF Pending, h

-----------------------------------------------------------------------------
(* The replay invariant.                                                    *)

(* A broadcast keeps the replay invariant if its message does to a client's *)
(* map what the operation does to the server's rules.                       *)
LEMMA ReplayBroadcast ==
    ASSUME TypeOK, ReplayReachesServer, NEW m \in Messages, Broadcast(m),
           rules' \in RuleSets,
           \A k \in Keys :
              rules'[k] = IF Touches(m, k) THEN Effect(m, k) ELSE rules[k]
    PROVE  ReplayReachesServer'
<1> SUFFICES ASSUME NEW c \in Clients, phase'[c] = "streaming", ~gap'[c]
             PROVE  ReplayYields(Pending(c)', local'[c], rules')
  BY SMTT(40) DEF ReplayReachesServer
<1>1. phase[c] = "streaming" /\ local'[c] = local[c]
  BY DEF Broadcast, clientVars
<1>2. Room(c) /\ (~gap[c] \/ m.snap)
  BY <1>1 DEF Broadcast
<1>3. Pending(c)' = Append(Pending(c), m)
  BY <1>2, BroadcastPending, SMTT(40)
<1>4. Pending(c) \in Seq(Messages) /\ local[c] \in RuleSets /\ rules \in RuleSets
  BY PendingType, SMTT(40) DEF TypeOK
<1>5. m.snap \/ ReplayYields(Pending(c), local[c], rules)
  BY <1>1, <1>2 DEF ReplayReachesServer
<1>6. ReplayYields(Append(Pending(c), m), local[c], rules')
  BY <1>4, <1>5, ReplayAppend
<1> QED
  BY <1>1, <1>3, <1>6, SMTT(40)

(* The replay invariant is preserved by every step. *)
LEMMA ReplayStep ==
    TypeOK /\ ReplayReachesServer /\ [Next]_vars => ReplayReachesServer'
<1> SUFFICES ASSUME TypeOK, ReplayReachesServer, [Next]_vars
             PROVE  ReplayReachesServer'
  OBVIOUS
<1>0. TypeOK'
  BY TypeStep
<1>1. ASSUME NEW rs \in RuleSets, UpdateRules(rs) PROVE ReplayReachesServer'
  <2> DEFINE m == Snapshot(rs, version + 1)
  <2>1. m \in Messages
    BY MessageTypes, SMTT(40) DEF TypeOK
  <2>2. \A k \in Keys : Touches(m, k) /\ Effect(m, k) = rs[k]
    BY DEF Touches, Effect, Snapshot
  <2> QED
    BY <1>1, <2>1, <2>2, ReplayBroadcast DEF UpdateRules
<1>2. ASSUME NEW k \in Keys, NEW x \in Values, UpsertRule(k, x)
      PROVE  ReplayReachesServer'
  <2> DEFINE m == Upserted(k, x, version + 1)
  <2>1. m \in Messages
    BY MessageTypes DEF TypeOK
  <2>2. rules' \in RuleSets
    BY <1>0 DEF TypeOK
  <2>3. \A l \in Keys :
           rules'[l] = IF Touches(m, l) THEN Effect(m, l) ELSE rules[l]
    BY <1>2, ValuesAssumption, SMTT(40)
       DEF UpsertRule, Touches, Effect, Upserted, EmptyRules, TypeOK, RuleSets
  <2> QED
    BY <1>2, <2>1, <2>2, <2>3, ReplayBroadcast, Zenon DEF UpsertRule
<1>3. ASSUME NEW r \in Refs, RemoveRule(r) PROVE ReplayReachesServer'
  <2> DEFINE m == Removed(r, version + 1)
  <2>1. m \in Messages
    BY MessageTypes DEF TypeOK
  <2>2. rules' \in RuleSets
    BY <1>0, SMTT(40) DEF TypeOK
  <2>3. \A l \in Keys :
           rules'[l] = IF Touches(m, l) THEN Effect(m, l) ELSE rules[l]
    BY <1>3, SMTT(40) DEF RemoveRule, Touches, Effect, Removed, EmptyRules
  <2> QED
    BY <1>3, <2>1, <2>2, <2>3, ReplayBroadcast DEF RemoveRule
<1>4. ASSUME NEW c \in Clients, Send(c) \/ Take(c) PROVE ReplayReachesServer'
  <2> SUFFICES ASSUME NEW d \in Clients, phase'[d] = "streaming", ~gap'[d]
               PROVE  ReplayYields(Pending(d)', local'[d], rules')
    BY SMTT(40) DEF ReplayReachesServer
  <2>1. phase' = phase /\ gap' = gap /\ local' = local /\ rules' = rules
    BY <1>4 DEF Send, Take, clientVars, serverVars
  <2>2. Pending(d)' = Pending(d)
    BY <1>4, MovePending
  <2> QED
    BY <2>1, <2>2 DEF ReplayReachesServer
<1>5. ASSUME NEW c \in Clients, Subscribe(c) PROVE ReplayReachesServer'
  <2> SUFFICES ASSUME NEW d \in Clients, phase'[d] = "streaming", ~gap'[d]
               PROVE  ReplayYields(Pending(d)', local'[d], rules')
    BY DEF ReplayReachesServer
  <2>1. gap' = gap /\ local' = local /\ rules' = rules
    BY <1>5 DEF Subscribe, clientVars, serverVars
  <2>2. CASE d # c
    <3>1. phase[d] = "streaming" /\ Pending(d)' = Pending(d)
      BY <1>5, <2>2, SubscribePending, Zenon DEF Subscribe, TypeOK
    <3> QED
      BY <2>1, <3>1, SMTT(40) DEF ReplayReachesServer
  <2>3. CASE d = c
    <3> DEFINE m == Snapshot(rules, version)
    <3>1. Pending(d)' = <<m>>
      BY <1>5, <2>3, SubscribePending, SMTT(40)
    <3>2. \A k \in Keys : Touches(m, k) /\ Effect(m, k) = rules[k]
      BY DEF Touches, Effect, Snapshot
    <3> HIDE DEF m
    <3>3. ReplayYields(<<m>>, local[d], rules)
      BY <3>2, SMTT(40) DEF ReplayYields
    <3> QED
      BY <2>1, <3>1, <3>3
  <2> QED
    BY <2>2, <2>3
<1>6. ASSUME NEW c \in Clients, Recv(c) PROVE ReplayReachesServer'
  <2> SUFFICES ASSUME NEW d \in Clients, phase'[d] = "streaming", ~gap'[d]
               PROVE  ReplayYields(Pending(d)', local'[d], rules')
    BY DEF ReplayReachesServer
  <2>1. phase' = phase /\ gap' = gap /\ rules' = rules
        /\ local' = [local EXCEPT ![c] = Merge(Head(wire[c]), local[c])]
    BY <1>6 DEF Recv, serverVars
  <2>2. ReplayYields(Pending(d), local[d], rules)
    BY <2>1 DEF ReplayReachesServer
  <2>3. CASE d # c
    <3>1. Pending(d)' = Pending(d) /\ local'[d] = local[d]
      BY <1>6, <2>1, <2>3, RecvPending, Zenon DEF TypeOK
    <3> QED
      BY <2>1, <2>2, <3>1, SMTT(40)
  <2>4. CASE d = c
    <3>1. /\ Pending(d) # <<>> /\ Pending(d)' = Tail(Pending(d))
          /\ local'[d] = Merge(Head(Pending(d)), local[d])
      BY <1>6, <2>1, <2>4, RecvPending, SMTT(40) DEF TypeOK
    <3>2. Pending(d) \in Seq(Messages) /\ local[d] \in RuleSets /\ rules \in RuleSets
      BY PendingType, Zenon DEF TypeOK
    <3>3. ReplayYields(Tail(Pending(d)), Merge(Head(Pending(d)), local[d]), rules)
      BY <2>2, <3>1, <3>2, ReplayRecv, SMTT(40)
    <3> QED
      BY <2>1, <3>1, <3>3, Zenon
  <2> QED
    BY <2>3, <2>4
<1>7. CASE ControllerRestart
  BY <1>7 DEF ControllerRestart, ReplayReachesServer
<1>8. ASSUME NEW c \in Clients, Connect(c) \/ Disconnect(c) \/ ClientRestart(c)
      PROVE  ReplayReachesServer'
  <2> SUFFICES ASSUME NEW d \in Clients, phase'[d] = "streaming", ~gap'[d]
               PROVE  ReplayYields(Pending(d)', local'[d], rules')
    BY DEF ReplayReachesServer
  <2>1. d # c /\ phase[d] = "streaming" /\ ~gap[d]
    BY <1>8, SMTT(40) DEF Connect, Disconnect, ClientRestart, TypeOK
  <2>2. /\ wire'[d] = wire[d] /\ hand'[d] = hand[d] /\ chan'[d] = chan[d]
        /\ local'[d] = local[d] /\ rules' = rules
    BY <1>8, <2>1, SMTT(40) DEF Connect, Disconnect, ClientRestart, TypeOK, serverVars, clientVars
  <2>3. Pending(d)' = Pending(d)
    BY <2>2 DEF Pending
  <2> QED
    BY <2>1, <2>2, <2>3 DEF ReplayReachesServer
<1>9. CASE UNCHANGED vars
  BY <1>9 DEF vars, serverVars, streamVars, clientVars, ReplayReachesServer, Pending
<1> QED
  BY <1>1, <1>2, <1>3, <1>4, <1>5, <1>6, <1>7, <1>8, <1>9 DEF Next, Stream, Failure

(* On every stream, whatever is pending brings the client to the server's  *)
(* rules, unless a broadcast was dropped and not yet made up for by a full  *)
(* snapshot: for any number of clients and rules and any channel capacity.  *)
THEOREM ReplaySafe == Spec => []ReplayReachesServer
<1>1. Init => ReplayReachesServer
  BY DEF Init, ReplayReachesServer
<1> QED
  BY <1>1, ReplayStep, TypeCorrect, PTL DEF Spec

-----------------------------------------------------------------------------
(* A drained stream.                                                        *)

(* Appending to a queue that starts with a snapshot leaves the snapshot at *)
(* its head.                                                               *)
LEMMA AppendKeepsHead ==
    \A P \in Seq(Messages), m \in Messages :
        P # <<>> => Append(P, m) # <<>> /\ Head(Append(P, m)) = Head(P)
  OBVIOUS

(* A broadcast touches no client. *)
LEMMA AppliedBroadcast ==
    ASSUME TypeOK, AppliedFollowsLocal, NEW m \in Messages, Broadcast(m)
    PROVE  AppliedFollowsLocal'
<1> SUFFICES ASSUME NEW c \in Clients, phase'[c] = "streaming"
             PROVE  \/ Accepted(local'[c]) => applied'[c] = local'[c]
                    \/ Pending(c)' # <<>> /\ Head(Pending(c)').snap
  BY DEF AppliedFollowsLocal, Accepted
<1>1. phase[c] = "streaming" /\ local' = local /\ applied' = applied
  BY DEF Broadcast, clientVars
<1>2. \/ Pending(c)' = Append(Pending(c), m)
      \/ Pending(c)' = Pending(c)
  BY BroadcastPending
<1>3. Pending(c) \in Seq(Messages)
  BY PendingType
<1>4. Pending(c) # <<>> => Pending(c)' # <<>> /\ Head(Pending(c)') = Head(Pending(c))
  BY <1>2, <1>3, AppendKeepsHead, SMTT(40)
<1> QED
  BY <1>1, <1>4 DEF AppliedFollowsLocal

(* AppliedFollowsLocal is preserved by every step. *)
LEMMA AppliedStep ==
    TypeOK /\ AppliedFollowsLocal /\ [Next]_vars => AppliedFollowsLocal'
<1> SUFFICES ASSUME TypeOK, AppliedFollowsLocal, [Next]_vars
             PROVE  AppliedFollowsLocal'
  OBVIOUS
<1>1. ASSUME NEW rs \in RuleSets, UpdateRules(rs) PROVE AppliedFollowsLocal'
  BY <1>1, AppliedBroadcast, MessageTypes, SMTT(40) DEF UpdateRules, TypeOK
<1>2. ASSUME NEW k \in Keys, NEW x \in Values, UpsertRule(k, x)
      PROVE  AppliedFollowsLocal'
  BY <1>2, AppliedBroadcast, MessageTypes, SMTT(40) DEF UpsertRule, TypeOK
<1>3. ASSUME NEW r \in Refs, RemoveRule(r) PROVE AppliedFollowsLocal'
  BY <1>3, AppliedBroadcast, MessageTypes, SMTT(40) DEF RemoveRule, TypeOK
<1>4. ASSUME NEW c \in Clients, Send(c) \/ Take(c) PROVE AppliedFollowsLocal'
  <2>1. phase' = phase /\ applied' = applied /\ local' = local
    BY <1>4 DEF Send, Take, clientVars
  <2>2. \A d \in Clients : Pending(d)' = Pending(d)
    BY <1>4, MovePending, SMTT(40)
  <2> QED
    BY <2>1, <2>2 DEF AppliedFollowsLocal, Accepted
<1>5. ASSUME NEW c \in Clients, Subscribe(c) PROVE AppliedFollowsLocal'
  <2>1. applied' = applied /\ local' = local
        /\ \A d \in Clients \ {c} : phase'[d] = phase[d] /\ Pending(d)' = Pending(d)
    BY <1>5, SubscribePending, Zenon DEF Subscribe, clientVars, TypeOK
  <2>2. Pending(c)' # <<>> /\ Head(Pending(c)').snap
    BY <1>5, SubscribePending DEF Snapshot
  <2> QED
    BY <2>1, <2>2, SMTT(40) DEF AppliedFollowsLocal, Accepted
<1>6. ASSUME NEW c \in Clients, Recv(c) PROVE AppliedFollowsLocal'
  <2>1. /\ phase' = phase
        /\ \A d \in Clients \ {c} :
              /\ Pending(d)' = Pending(d)
              /\ local'[d] = local[d] /\ applied'[d] = applied[d]
    BY <1>6, RecvPending, ZenonT(40) DEF Recv, TypeOK
  <2>2. Accepted(local'[c]) => applied'[c] = local'[c]
    BY <1>6, SMTT(40) DEF Recv, TypeOK
  <2> QED
    BY <2>1, <2>2 DEF AppliedFollowsLocal, Accepted
<1>7. CASE ControllerRestart
  BY <1>7, SMTT(40) DEF ControllerRestart, AppliedFollowsLocal
<1>8. ASSUME NEW c \in Clients, Connect(c) \/ Disconnect(c) \/ ClientRestart(c)
      PROVE  AppliedFollowsLocal'
  <2> SUFFICES ASSUME NEW d \in Clients, phase'[d] = "streaming"
               PROVE  \/ Accepted(local'[d]) => applied'[d] = local'[d]
                      \/ Pending(d)' # <<>> /\ Head(Pending(d)').snap
    BY SMTT(40) DEF AppliedFollowsLocal, Accepted
  <2>1. d # c /\ phase[d] = "streaming"
    BY <1>8, SMTT(40) DEF Connect, Disconnect, ClientRestart, TypeOK
  <2>2. /\ wire'[d] = wire[d] /\ hand'[d] = hand[d] /\ chan'[d] = chan[d]
        /\ local'[d] = local[d] /\ applied'[d] = applied[d]
    BY <1>8, <2>1, SMTT(40) DEF Connect, Disconnect, ClientRestart, TypeOK, clientVars
  <2>3. Pending(d)' = Pending(d)
    BY <2>2, SMTT(40) DEF Pending
  <2> QED
    BY <2>1, <2>2, <2>3, SMTT(40) DEF AppliedFollowsLocal
<1>9. CASE UNCHANGED vars
  BY <1>9, Zenon DEF vars, serverVars, streamVars, clientVars, AppliedFollowsLocal, Pending, Accepted
<1> QED
  BY <1>1, <1>2, <1>3, <1>4, <1>5, <1>6, <1>7, <1>8, <1>9 DEF Next, Stream, Failure

(* A subscriber with an empty queue and no unrepaired loss holds the         *)
(* server's rules, and enforces them if its setter accepts them.             *)
THEOREM DrainedSafe == Spec => []DrainedIsCurrent
<1>1. Init => AppliedFollowsLocal
  BY DEF Init, AppliedFollowsLocal
<1>2. TypeOK /\ ReplayReachesServer /\ AppliedFollowsLocal => DrainedIsCurrent
  <2> SUFFICES ASSUME TypeOK, ReplayReachesServer, AppliedFollowsLocal,
                      NEW c \in Clients, phase[c] = "streaming", ~gap[c],
                      Pending(c) = <<>>
               PROVE  local[c] = rules /\ (Accepted(rules) => applied[c] = rules)
    BY DEF DrainedIsCurrent
  <2>1. ReplayYields(<<>>, local[c], rules)
    BY SMTT(40) DEF ReplayReachesServer
  <2>e. \A i \in 1 .. Len(<<>>) : FALSE
    BY SMTT(40)
  <2>2. \A k \in Keys : local[c][k] = rules[k]
    BY <2>1, <2>e, Zenon DEF ReplayYields
  <2>3. local[c] = rules
    BY <2>2 DEF TypeOK, RuleSets
  <2> QED
    BY <2>3 DEF AppliedFollowsLocal
<1> QED
  BY <1>1, <1>2, AppliedStep, TypeCorrect, ReplaySafe, PTL DEF Spec

-----------------------------------------------------------------------------
(* The order of versions.                                                   *)

(* A message with the next version goes to the end of the queue. *)
LEMMA OrderBroadcast ==
    \A P \in Seq(Messages), m \in Messages, v, n, a \in Nat :
        v < n /\ InOrder(P, v, n, a) /\ m.version = v + 1 =>
            /\ InOrder(P, v + 1, n + 1, a)
            /\ InOrder(Append(P, m), v + 1, n + 1, a)
<1> SUFFICES ASSUME NEW P \in Seq(Messages), NEW m \in Messages,
                    NEW v \in Nat, NEW n \in Nat, NEW a \in Nat,
                    v < n, InOrder(P, v, n, a), m.version = v + 1
             PROVE  /\ InOrder(P, v + 1, n + 1, a)
                    /\ InOrder(Append(P, m), v + 1, n + 1, a)
  OBVIOUS
<1>1. \A i \in 1 .. Len(P) : P[i].version \in Nat
  <2>1. \A i \in 1 .. Len(P) : P[i] \in Messages
    BY SeqItem
  <2> QED
    BY <2>1 DEF Messages
<1>2. InOrder(P, v + 1, n + 1, a)
  BY <1>1, SeqLen DEF InOrder
<1>3. /\ Len(P) \in Nat /\ Len(Append(P, m)) = Len(P) + 1
      /\ Append(P, m)[Len(P) + 1] = m
      /\ \A i \in 1 .. Len(P) : Append(P, m)[i] = P[i]
  BY AppendFacts, SeqLen, SMTT(40)
<1>4. ASSUME NEW i \in 1 .. Len(P) + 1
      PROVE  /\ Append(P, m)[i].version <= v + 1
             /\ a <= (n + 1) - (v + 1) + Append(P, m)[i].version
             /\ \A j \in 1 .. i - 1 :
                   Append(P, m)[j].version < Append(P, m)[i].version
  <2>1. CASE i \in 1 .. Len(P)
    BY <1>1, <1>2, <1>3, <2>1 DEF InOrder
  <2>2. CASE i = Len(P) + 1
    BY <1>1, <1>3, <2>2 DEF InOrder
  <2> QED
    BY <1>3, <2>1, <2>2
<1>5. InOrder(Append(P, m), v + 1, n + 1, a)
  BY <1>3, <1>4, SMTT(40) DEF InOrder
<1> QED
  BY <1>2, <1>5

(* Receiving the head leaves newer messages only. *)
LEMMA OrderRecv ==
    \A P \in Seq(Messages), v, n, a \in Nat :
        v < n /\ P # <<>> /\ InOrder(P, v, n, a) =>
            /\ Head(P).version \in Nat
            /\ Head(P).version <= v
            /\ a <= n - v + Head(P).version
            /\ InOrder(Tail(P), v, n, a)
            /\ InOrder(Tail(P), v, n, n - v + Head(P).version)
<1> SUFFICES ASSUME NEW P \in Seq(Messages),
                    NEW v \in Nat, NEW n \in Nat, NEW a \in Nat,
                    v < n, P # <<>>, InOrder(P, v, n, a)
             PROVE  /\ Head(P).version \in Nat
                    /\ Head(P).version <= v
                    /\ a <= n - v + Head(P).version
                    /\ InOrder(Tail(P), v, n, a)
                    /\ InOrder(Tail(P), v, n, n - v + Head(P).version)
  OBVIOUS
<1>1. \A i \in 1 .. Len(P) : P[i].version \in Nat
  <2>1. \A i \in 1 .. Len(P) : P[i] \in Messages
    BY SeqItem
  <2> QED
    BY <2>1 DEF Messages
<1>2. /\ Len(P) \in Nat /\ Len(P) >= 1 /\ Head(P) = P[1]
      /\ Len(Tail(P)) = Len(P) - 1
      /\ \A i \in 1 .. Len(P) - 1 : Tail(P)[i] = P[i + 1]
  BY TailFacts, SeqSome
<1>3. /\ Head(P).version \in Nat /\ Head(P).version <= v
      /\ a <= n - v + Head(P).version
  BY <1>1, <1>2 DEF InOrder
<1>4. ASSUME NEW i \in 1 .. Len(P) - 1
      PROVE  /\ Tail(P)[i].version <= v
             /\ a <= n - v + Tail(P)[i].version
             /\ n - v + Head(P).version <= n - v + Tail(P)[i].version
             /\ \A j \in 1 .. i - 1 : Tail(P)[j].version < Tail(P)[i].version
  <2>1. i + 1 \in 1 .. Len(P) /\ 1 \in 1 .. (i + 1) - 1
        /\ Tail(P)[i] = P[i + 1]
    BY <1>2
  <2>2. /\ P[i + 1].version <= v
        /\ a <= n - v + P[i + 1].version
        /\ \A j \in 1 .. (i + 1) - 1 : P[j].version < P[i + 1].version
    BY <2>1 DEF InOrder
  <2>3. \A j \in 1 .. i - 1 : j + 1 \in 1 .. (i + 1) - 1 /\ Tail(P)[j] = P[j + 1]
    BY <1>2
  <2>4. P[1].version < P[i + 1].version
    BY <2>1, <2>2
  <2> QED
    BY <1>1, <1>2, <2>1, <2>2, <2>3, <2>4
<1> QED
  BY <1>2, <1>3, <1>4 DEF InOrder

(* A single message of the current version is in order. *)
LEMMA OrderSnapshot ==
    \A m \in Messages, v, n, a \in Nat :
        a <= n /\ m.version = v => InOrder(<<m>>, v, n, a)
  BY DEF InOrder, Messages

(* An empty queue is in order. *)
LEMMA OrderEmpty ==
    \A v, n, a \in Nat : a <= n => InOrder(<<>>, v, n, a)
  BY DEF InOrder

(* A broadcast keeps every queue in order. *)
LEMMA OrderedBroadcast ==
    ASSUME TypeOK, VersionsInOrder, NEW m \in Messages, m.version = version + 1,
           Broadcast(m), rules' \in RuleSets
    PROVE  VersionsInOrder'
<1> SUFFICES ASSUME NEW c \in Clients
             PROVE  InOrder(Pending(c)', version', Len(log'), at'[c])
  BY SMTT(40) DEF VersionsInOrder
<1>1. version' = version + 1 /\ at' = at /\ Len(log') = Len(log) + 1
  BY AppendFacts DEF Broadcast, TypeOK, clientVars
<1>2. \/ Pending(c)' = Append(Pending(c), m)
      \/ Pending(c)' = Pending(c)
  BY BroadcastPending
<1>3. /\ Pending(c) \in Seq(Messages)
      /\ version \in Nat /\ Len(log) \in Nat /\ at[c] \in Nat /\ version < Len(log)
  BY PendingType, SeqLen, SMTT(40) DEF TypeOK
<1>4. /\ InOrder(Pending(c), version + 1, Len(log) + 1, at[c])
      /\ InOrder(Append(Pending(c), m), version + 1, Len(log) + 1, at[c])
  BY <1>3, OrderBroadcast DEF VersionsInOrder
<1> QED
  BY <1>1, <1>2, <1>4, Zenon

(* What a received message does to the queue, and to the place in the log. *)
LEMMA OrderedRecv ==
    ASSUME TypeOK, VersionsInOrder, NEW c \in Clients, Recv(c)
    PROVE  /\ InOrder(Pending(c)', version, Len(log), at'[c])
           /\ at'[c] \in Nat /\ at[c] <= at'[c]
           /\ \/ at'[c] >= 1 /\ synced'[c]
              \/ at'[c] = at[c] /\ synced'[c] = synced[c] /\ applied'[c] = applied[c]
<1>1. /\ Pending(c) \in Seq(Messages)
      /\ version \in Nat /\ Len(log) \in Nat /\ at[c] \in Nat /\ version < Len(log)
  BY PendingType, SeqLen, SMTT(40) DEF TypeOK
<1>2. /\ Pending(c) # <<>> /\ Pending(c)' = Tail(Pending(c))
      /\ Head(Pending(c)) = Head(wire[c])
  BY RecvPending
<1> DEFINE h == Head(Pending(c)).version
<1>3. /\ h \in Nat /\ h <= version /\ at[c] <= Len(log) - version + h
      /\ InOrder(Tail(Pending(c)), version, Len(log), at[c])
      /\ InOrder(Tail(Pending(c)), version, Len(log), Len(log) - version + h)
  BY <1>1, <1>2, OrderRecv DEF VersionsInOrder
<1>4. \/ at'[c] = Len(log) - version + h /\ synced'[c]
      \/ at'[c] = at[c] /\ synced'[c] = synced[c] /\ applied'[c] = applied[c]
  BY <1>2, SMTT(40) DEF Recv, TypeOK
<1> HIDE DEF h
<1>5. CASE at'[c] = Len(log) - version + h /\ synced'[c]
  <2>1. at'[c] \in Nat /\ at'[c] >= 1 /\ at[c] <= at'[c]
    BY <1>1, <1>3, <1>5, SMTT(40)
  <2>2. InOrder(Pending(c)', version, Len(log), at'[c])
    BY <1>2, <1>3, <1>5, SMTT(40)
  <2> QED
    BY <1>5, <2>1, <2>2, ZenonT(40)
<1>6. CASE at'[c] = at[c] /\ synced'[c] = synced[c] /\ applied'[c] = applied[c]
  <2>1. at'[c] \in Nat /\ at[c] <= at'[c]
    BY <1>1, <1>6, SMTT(40)
  <2>2. InOrder(Pending(c)', version, Len(log), at'[c])
    BY <1>2, <1>3, <1>6, SMTT(40)
  <2> QED
    BY <1>6, <2>1, <2>2, SMTT(40)
<1> QED
  BY <1>4, <1>5, <1>6

(* A received message concerns one client only. *)
LEMMA RecvOthers ==
    ASSUME TypeOK, NEW d \in Clients, Recv(d), NEW c \in Clients, c # d
    PROVE  at'[c] = at[c] /\ synced'[c] = synced[c] /\ applied'[c] = applied[c]
<1>1. /\ at \in [Clients -> Nat] /\ synced \in [Clients -> BOOLEAN]
      /\ applied \in [Clients -> RuleSets]
  BY SMTT(40) DEF TypeOK
<1>2. \/ /\ \E x : applied' = [applied EXCEPT ![d] = x]
         /\ synced' = [synced EXCEPT ![d] = TRUE]
         /\ \E n : at' = [at EXCEPT ![d] = n]
      \/ applied' = applied /\ synced' = synced /\ at' = at
  BY Zenon DEF Recv
<1>3. applied'[c] = applied[c]
  BY <1>1, <1>2
<1>4. synced'[c] = synced[c]
  BY <1>1, <1>2
<1>5. at'[c] = at[c]
  BY <1>1, <1>2, SMTT(40)
<1> QED
  BY <1>3, <1>4, <1>5

(* Every step keeps the versions in order. *)
LEMMA OrderedStep ==
    TypeOK /\ VersionsInOrder /\ [Next]_vars => VersionsInOrder'
<1> SUFFICES ASSUME TypeOK, VersionsInOrder, [Next]_vars
             PROVE  VersionsInOrder'
  OBVIOUS
<1>0. TypeOK'
  BY TypeStep
<1>1. ASSUME NEW rs \in RuleSets, UpdateRules(rs) PROVE VersionsInOrder'
  <2>1. /\ Snapshot(rs, version + 1) \in Messages
        /\ Snapshot(rs, version + 1).version = version + 1
    <3>1. version + 1 \in Nat
      BY SMTT(40) DEF TypeOK
    <3> QED
      BY <3>1, MessageTypes, Zenon DEF Snapshot
  <2> QED
    BY <1>0, <1>1, <2>1, OrderedBroadcast, SMTT(40) DEF UpdateRules, TypeOK
<1>2. ASSUME NEW k \in Keys, NEW x \in Values, UpsertRule(k, x)
      PROVE  VersionsInOrder'
  <2>1. /\ Upserted(k, x, version + 1) \in Messages
        /\ Upserted(k, x, version + 1).version = version + 1
    <3>1. version + 1 \in Nat
      BY SMTT(40) DEF TypeOK
    <3> QED
      BY <3>1, MessageTypes, Zenon DEF Upserted
  <2> QED
    BY <1>0, <1>2, <2>1, OrderedBroadcast, ZenonT(40) DEF UpsertRule, TypeOK
<1>3. ASSUME NEW r \in Refs, RemoveRule(r) PROVE VersionsInOrder'
  <2>1. /\ Removed(r, version + 1) \in Messages
        /\ Removed(r, version + 1).version = version + 1
    BY MessageTypes DEF TypeOK, Removed
  <2> QED
    BY <1>0, <1>3, <2>1, OrderedBroadcast, SMTT(40) DEF RemoveRule, TypeOK
<1>4. ASSUME NEW c \in Clients, Send(c) \/ Take(c) PROVE VersionsInOrder'
  <2>1. version' = version /\ log' = log /\ at' = at
    BY <1>4, SMTT(40) DEF Send, Take, clientVars, serverVars
  <2>2. \A d \in Clients : Pending(d)' = Pending(d)
    BY <1>4, MovePending
  <2> QED
    BY <2>1, <2>2 DEF VersionsInOrder
<1>5. ASSUME NEW c \in Clients, Subscribe(c) PROVE VersionsInOrder'
  <2>1. version' = version /\ log' = log /\ at' = at
    BY <1>5 DEF Subscribe, clientVars, serverVars
  <2>2. \A d \in Clients \ {c} : Pending(d)' = Pending(d)
    BY <1>5, SubscribePending, SMTT(40)
  <2> DEFINE m == Snapshot(rules, version)
  <2>3. m \in Messages /\ m.version = version /\ Pending(c)' = <<m>>
    BY <1>5, SubscribePending, MessageTypes, ZenonT(40) DEF TypeOK, Snapshot
  <2>4. version \in Nat /\ Len(log) \in Nat /\ at[c] \in Nat /\ at[c] <= Len(log)
    BY SeqLen DEF TypeOK, VersionsInOrder, InOrder
  <2> HIDE DEF m
  <2>5. InOrder(<<m>>, version, Len(log), at[c])
    BY <2>3, <2>4, OrderSnapshot, SMTT(40)
  <2> QED
    BY <2>1, <2>2, <2>3, <2>5 DEF VersionsInOrder
<1>6. ASSUME NEW c \in Clients, Recv(c) PROVE VersionsInOrder'
  <2>1. /\ version' = version /\ log' = log
        /\ \A d \in Clients \ {c} : Pending(d)' = Pending(d) /\ at'[d] = at[d]
    BY <1>6, RecvPending, ZenonT(40) DEF Recv, serverVars, TypeOK
  <2>2. InOrder(Pending(c)', version, Len(log), at'[c])
    BY <1>6, OrderedRecv, Zenon
  <2> QED
    BY <2>1, <2>2, ZenonT(40) DEF VersionsInOrder
<1>7. CASE ControllerRestart
  <2> SUFFICES ASSUME NEW c \in Clients
               PROVE  InOrder(Pending(c)', version', Len(log'), at'[c])
    BY DEF VersionsInOrder
  <2>0. log \in Seq(RuleSets)
    BY SMTT(40) DEF TypeOK
  <2>1. /\ at' = at /\ version' = 0 /\ Len(log') = Len(log) + 1
        /\ wire'[c] = <<>> /\ hand'[c] = <<>> /\ chan'[c] = <<>>
    BY <1>7, <2>0, MessageTypes, AppendFacts DEF ControllerRestart, clientVars
  <2>2. Pending(c)' = <<>>
    BY <2>1, SMTT(40) DEF Pending
  <2>3. at[c] \in Nat /\ Len(log) \in Nat /\ at[c] <= Len(log)
    BY SeqLen DEF TypeOK, VersionsInOrder, InOrder
  <2>4. at[c] <= Len(log) + 1
    BY <2>3, SMTT(40)
  <2> QED
    BY <2>1, <2>2, <2>3, <2>4, OrderEmpty, SMTT(40)
<1>8. ASSUME NEW c \in Clients, Connect(c) \/ Disconnect(c) \/ ClientRestart(c)
      PROVE  VersionsInOrder'
  <2>1. version' = version /\ log' = log
    BY <1>8, SMTT(40) DEF Connect, Disconnect, ClientRestart, serverVars
  <2>2. \A d \in Clients \ {c} :
           /\ wire'[d] = wire[d] /\ hand'[d] = hand[d] /\ chan'[d] = chan[d]
           /\ at'[d] = at[d]
    BY <1>8, SMTT(40) DEF Connect, Disconnect, ClientRestart, TypeOK, clientVars
  <2>3. \A d \in Clients \ {c} : Pending(d)' = Pending(d)
    BY <2>2, Zenon DEF Pending
  <2>4. /\ wire'[c] = <<>> /\ hand'[c] = <<>> /\ chan'[c] = <<>>
        /\ at'[c] = at[c] \/ at'[c] = 0
    BY <1>8 DEF Connect, Disconnect, ClientRestart, TypeOK, clientVars
  <2>5. Pending(c)' = <<>>
    BY <2>4 DEF Pending
  <2>6. /\ version \in Nat /\ Len(log) \in Nat /\ at[c] \in Nat
        /\ at[c] <= Len(log)
    BY SeqLen, Zenon DEF TypeOK, VersionsInOrder, InOrder
  <2>7. at'[c] \in Nat /\ at'[c] <= Len(log)
    BY <2>4, <2>6, SMTT(40)
  <2>8. InOrder(<<>>, version, Len(log), at'[c])
    BY <2>6, <2>7, OrderEmpty
  <2> QED
    BY <2>1, <2>2, <2>3, <2>5, <2>8, SMTT(40) DEF VersionsInOrder
<1>9. CASE UNCHANGED vars
  BY <1>9 DEF vars, serverVars, streamVars, clientVars, VersionsInOrder, Pending
<1> QED
  BY <1>1, <1>2, <1>3, <1>4, <1>5, <1>6, <1>7, <1>8, <1>9 DEF Next, Stream, Failure

(* On every stream version_info strictly increases and no message is older *)
(* than what its receiver already enforces, for any number of clients,     *)
(* drops, reconnects and restarts.                                         *)
THEOREM VersionsSafe == Spec => []VersionsInOrder
<1>1. Init => VersionsInOrder
  <2> SUFFICES ASSUME Init, NEW c \in Clients
               PROVE  InOrder(Pending(c), version, Len(log), at[c])
    BY Zenon DEF VersionsInOrder
  <2>1. Pending(c) = <<>>
    BY DEF Init, Pending
  <2>2. version = 0 /\ Len(log) = 1 /\ at[c] = 0
    BY MessageTypes DEF Init
  <2> QED
    BY <2>1, <2>2, OrderEmpty
<1> QED
  BY <1>1, OrderedStep, TypeCorrect, PTL DEF Spec

(* No client ever goes back to an older published rule set. *)
THEOREM ForwardSafe == Spec => ForwardOnly
<1> DEFINE Forward == \A c \in Clients : at'[c] >= at[c] \/ (at'[c] = 0 /\ ~synced'[c])
<1>1. TypeOK /\ VersionsInOrder /\ [Next]_vars => [Forward]_vars
  <2> SUFFICES ASSUME TypeOK, VersionsInOrder, Next,
                      NEW c \in Clients
               PROVE  at'[c] >= at[c] \/ (at'[c] = 0 /\ ~synced'[c])
    OBVIOUS
  <2>1. at[c] \in Nat
    BY DEF TypeOK
  <2>2. ASSUME NEW d \in Clients, Recv(d) PROVE at'[c] >= at[c]
    <3>1. CASE c = d
      BY <2>1, <2>2, <3>1, OrderedRecv, SMTT(40)
    <3>2. CASE c # d
      BY <2>1, <2>2, <3>2, SMTT(40) DEF Recv, TypeOK
    <3> QED
      BY <3>1, <3>2, SMTT(40)
  <2>3. ASSUME NEW d \in Clients, ClientRestart(d)
        PROVE  at'[c] >= at[c] \/ (at'[c] = 0 /\ ~synced'[c])
    BY <2>1, <2>3 DEF ClientRestart, TypeOK
  <2>4. CASE at' = at
    BY <2>1, <2>4, SMTT(40)
  <2>5. \/ at' = at
        \/ \E d \in Clients : Recv(d) \/ ClientRestart(d)
    BY Zenon DEF Next, Stream, Failure, UpdateRules, UpsertRule, RemoveRule, Broadcast,
           Connect, Subscribe, Send, Take, Disconnect, ControllerRestart, clientVars
  <2> QED
    BY <2>2, <2>3, <2>4, <2>5, SMTT(40)
<1> QED
  BY <1>1, VersionsSafe, TypeCorrect, PTL DEF Spec, ForwardOnly

(* A client is ready exactly when it enforces a published rule set. *)
THEOREM ReadySafe == Spec => []ReadyMeansPublished
<1>1. Init => ReadyMeansPublished
  BY Zenon DEF Init, ReadyMeansPublished
<1>2. /\ TypeOK /\ VersionsInOrder /\ ReadyMeansPublished /\ [Next]_vars
      /\ TypeOK' /\ VersionsInOrder'
      => ReadyMeansPublished'
  <2> SUFFICES ASSUME TypeOK, VersionsInOrder, ReadyMeansPublished, [Next]_vars,
                      TypeOK', VersionsInOrder', NEW c \in Clients
               PROVE  IF synced'[c] THEN at'[c] \in 1 .. Len(log')
                                    ELSE applied'[c] = EmptyRules
    BY ZenonT(40) DEF ReadyMeansPublished
  <2>1. at[c] \in Nat /\ at'[c] \in Nat /\ Len(log') \in Nat /\ at'[c] <= Len(log')
    BY SeqLen DEF TypeOK, VersionsInOrder, InOrder
  <2>2. IF synced[c] THEN at[c] >= 1 ELSE applied[c] = EmptyRules
    <3>1. IF synced[c] THEN at[c] \in 1 .. Len(log) ELSE applied[c] = EmptyRules
      BY DEF ReadyMeansPublished
    <3>2. at[c] \in 1 .. Len(log) => at[c] >= 1
      OBVIOUS
    <3> QED
      BY <3>1, <3>2, ZenonT(40)
  <2>3. ASSUME NEW d \in Clients, Recv(d)
        PROVE  IF synced'[c] THEN at'[c] >= 1 ELSE applied'[c] = EmptyRules
    <3>1. \/ at'[c] >= 1 /\ synced'[c]
          \/ at'[c] = at[c] /\ synced'[c] = synced[c] /\ applied'[c] = applied[c]
      <4>1. CASE c = d
        BY <2>3, <4>1, OrderedRecv, SMTT(40)
      <4>2. CASE c # d
        BY <2>3, <4>2, RecvOthers
      <4> QED
        BY <4>1, <4>2, SMTT(40)
    <3> QED
      BY <2>2, <3>1, Zenon
  <2>4. ASSUME NEW d \in Clients, ClientRestart(d)
        PROVE  IF synced'[c] THEN at'[c] >= 1 ELSE applied'[c] = EmptyRules
    <3>1. CASE c = d
      BY <2>4, <3>1 DEF ClientRestart, TypeOK
    <3>2. CASE c # d
      <4>0. /\ at \in [Clients -> Nat] /\ synced \in [Clients -> BOOLEAN]
            /\ applied \in [Clients -> RuleSets]
        BY Zenon DEF TypeOK
      <4>1. at'[c] = at[c] /\ applied'[c] = applied[c] /\ synced'[c] = synced[c]
        BY <2>4, <3>2, <4>0 DEF ClientRestart
      <4> QED
        BY <2>2, <4>1, Zenon
    <3> QED
      BY <3>1, <3>2, SMTT(40)
  <2>5. ASSUME at' = at, synced' = synced, applied' = applied
        PROVE  IF synced'[c] THEN at'[c] >= 1 ELSE applied'[c] = EmptyRules
    BY <2>2, <2>5, Zenon
  <2>6. \/ at' = at /\ synced' = synced /\ applied' = applied
        \/ \E d \in Clients : Recv(d) \/ ClientRestart(d)
    BY ZenonT(40) DEF Next, Stream, Failure, UpdateRules, UpsertRule, RemoveRule, Broadcast, vars,
           Connect, Subscribe, Send, Take, Disconnect, ControllerRestart, clientVars
  <2>7. IF synced'[c] THEN at'[c] >= 1 ELSE applied'[c] = EmptyRules
    BY <2>3, <2>4, <2>5, <2>6, Zenon
  <2> QED
    BY <2>1, <2>7, SMTT(40)
<1> QED
  BY <1>1, <1>2, VersionsSafe, TypeCorrect, PTL DEF Spec

-----------------------------------------------------------------------------
(* Full rule sets: the refinement of RuleLog.                               *)

(* Every message of P is a full snapshot: of entry n of the log L, where n  *)
(* is found from the message's version as Recv finds it.                    *)
Carries(P, v, L) ==
    \A i \in 1 .. Len(P) :
        /\ P[i].snap
        /\ P[i].del = {}
        /\ P[i].put = L[Len(L) - v + P[i].version]

(* The server holds the last entry of the log, and every message on its way *)
(* to a client is the entry of the log that its version stands for.  With   *)
(* it the map a client builds is an entry of the log, whatever it held.     *)
FromLog ==
    /\ rules = log[Len(log)]
    /\ \A c \in Clients : Carries(Pending(c), version, log)

(* Publishing full sets only is one way to use the rule server. *)
LEMMA FullSetsAreSteps == [NextFullSets]_vars => [Next]_vars
  BY Zenon DEF NextFullSets, Next

(* Hence every invariant of the rule server holds for it. *)
LEMMA FullSetsInvariants ==
    SpecFullSets => [](TypeOK /\ VersionsInOrder)
<1>1. SpecFullSets => Spec
  BY FullSetsAreSteps, PTL DEF SpecFullSets, Spec
<1> QED
  BY <1>1, TypeCorrect, VersionsSafe, PTL

(* What a message carries is a rule set. *)
LEMMA MessagePut == \A m \in Messages : m.put \in RuleSets
  BY SMTT(40) DEF Messages

(* A snapshot replaces the client's map by the rules it carries. *)
LEMMA MergeSnapshot ==
    ASSUME NEW m \in Messages, m.snap, m.del = {}, NEW map
    PROVE  Merge(m, map) = m.put
<1>1. \A k \in Keys : Touches(m, k) /\ Effect(m, k) = m.put[k]
  BY Zenon DEF Touches, Effect
<1>2. m.put \in RuleSets
  BY MessagePut, Zenon
<1>3. Merge(m, map) = [k \in Keys |-> m.put[k]]
  BY <1>1, Zenon DEF Merge
<1> QED
  BY <1>2, <1>3, SMTT(40) DEF RuleSets

(* A longer log and a higher version leave the entries of the messages as  *)
(* they are; the new message carries the new entry.                        *)
LEMMA CarriesAppend ==
    ASSUME NEW P \in Seq(Messages), NEW L \in Seq(RuleSets), NEW rs \in RuleSets,
           NEW v \in Nat, NEW a \in Nat, v < Len(L),
           InOrder(P, v, Len(L), a), Carries(P, v, L)
    PROVE  /\ Carries(P, v + 1, Append(L, rs))
           /\ Carries(Append(P, Snapshot(rs, v + 1)), v + 1, Append(L, rs))
<1> DEFINE m == Snapshot(rs, v + 1)
           Q == Append(P, m)
           K == Append(L, rs)
<1>1. /\ m \in Messages /\ m.snap /\ m.del = {} /\ m.put = rs /\ m.version = v + 1
  BY MessageTypes, SMTT(40) DEF Snapshot
<1>2. /\ Len(L) \in Nat /\ Len(K) = Len(L) + 1 /\ K[Len(L) + 1] = rs
      /\ \A j \in 1 .. Len(L) : K[j] = L[j]
  BY AppendFacts, SeqLen, SMTT(40)
<1> HIDE DEF m, K
<1>3. /\ Len(P) \in Nat /\ Len(Q) = Len(P) + 1 /\ Q[Len(P) + 1] = m
      /\ \A i \in 1 .. Len(P) : Q[i] = P[i]
  BY <1>1, AppendFacts, SeqLen, SMTT(40)
<1> HIDE DEF Q
<1>4. ASSUME NEW i \in 1 .. Len(P)
      PROVE  P[i].snap /\ P[i].del = {} /\ P[i].put = K[Len(K) - (v + 1) + P[i].version]
  <2>1. P[i] \in Messages
    BY SeqItem
  <2>2. P[i].version \in Nat /\ P[i].version <= v
    BY <2>1, SMTT(40) DEF InOrder, Messages
  <2>3. /\ Len(L) - v + P[i].version \in 1 .. Len(L)
        /\ Len(K) - (v + 1) + P[i].version = Len(L) - v + P[i].version
    BY <1>2, <2>2, SMTT(40)
  <2>4. P[i].snap /\ P[i].del = {} /\ P[i].put = L[Len(L) - v + P[i].version]
    BY Zenon DEF Carries
  <2> QED
    BY <1>2, <2>3, <2>4, Zenon
<1>5. Len(K) - (v + 1) + m.version = Len(L) + 1
  BY <1>1, <1>2, SMTT(40)
<1>6. ASSUME NEW i \in 1 .. Len(Q)
      PROVE  Q[i].snap /\ Q[i].del = {} /\ Q[i].put = K[Len(K) - (v + 1) + Q[i].version]
  <2>1. i \in 1 .. Len(P) \/ i = Len(P) + 1
    BY <1>3, SMTT(40)
  <2>2. CASE i \in 1 .. Len(P)
    BY <1>3, <1>4, <2>2, Zenon
  <2>3. CASE i = Len(P) + 1
    BY <1>1, <1>2, <1>3, <1>5, <2>3, Zenon
  <2> QED
    BY <2>1, <2>2, <2>3, Zenon
<1>7. Carries(P, v + 1, K)
  BY <1>4, Zenon DEF Carries
<1>8. Carries(Q, v + 1, K)
  BY <1>6, Zenon DEF Carries
<1> QED
  BY <1>7, <1>8, Zenon DEF Q, K, m

(* Receiving the head leaves messages of the log, and the head is one. *)
LEMMA CarriesTail ==
    ASSUME NEW P \in Seq(Messages), P # <<>>, NEW v, NEW L, Carries(P, v, L)
    PROVE  /\ Head(P) \in Messages /\ Head(P).snap /\ Head(P).del = {}
           /\ Head(P).put = L[Len(L) - v + Head(P).version]
           /\ Carries(Tail(P), v, L)
<1>1. /\ Len(P) \in Nat /\ Len(P) >= 1 /\ Head(P) = P[1]
      /\ Len(Tail(P)) = Len(P) - 1
      /\ \A i \in 1 .. Len(P) - 1 : Tail(P)[i] = P[i + 1]
  BY TailFacts, SeqSome
<1>2. 1 \in 1 .. Len(P) /\ \A i \in 1 .. Len(Tail(P)) :
         i + 1 \in 1 .. Len(P) /\ Tail(P)[i] = P[i + 1]
  BY <1>1, SMTT(40)
<1>3. Head(P) \in Messages
  BY <1>1, <1>2, SeqItem
<1>4. Carries(Tail(P), v, L)
  BY <1>2, ZenonT(60) DEF Carries
<1> QED
  BY <1>1, <1>2, <1>3, <1>4, Zenon DEF Carries

(* Nothing on its way, or the snapshot of a new subscription alone. *)
LEMMA CarriesFew ==
    ASSUME NEW L \in Seq(RuleSets), NEW v \in Nat, v < Len(L)
    PROVE  /\ Carries(<<>>, v, L)
           /\ Carries(<<Snapshot(L[Len(L)], v)>>, v, L)
<1>1. Carries(<<>>, v, L)
  BY SMTT(40) DEF Carries
<1> DEFINE m == Snapshot(L[Len(L)], v)
<1>2. m.snap /\ m.del = {} /\ m.put = L[Len(L)] /\ m.version = v
  BY SMTT(40) DEF Snapshot
<1> HIDE DEF m
<1>3. Len(L) - v + m.version = Len(L)
  BY <1>2, SeqLen, SMTT(40)
<1>4. Len(<<m>>) = 1 /\ <<m>>[1] = m
  BY SMTT(40)
<1>5. \A i \in 1 .. Len(<<m>>) : <<m>>[i] = m
  BY <1>4, SMTT(40)
<1>6. Carries(<<m>>, v, L)
  BY <1>2, <1>3, <1>5, Zenon DEF Carries
<1> QED
  BY <1>1, <1>6, Zenon DEF m

(* Every step of a controller that publishes full sets keeps it so. *)
LEMMA FromLogStep ==
    TypeOK /\ VersionsInOrder /\ FromLog /\ [NextFullSets]_vars => FromLog'
<1> SUFFICES ASSUME TypeOK, VersionsInOrder, FromLog, [NextFullSets]_vars
             PROVE  FromLog'
  OBVIOUS
<1>0. /\ rules \in RuleSets /\ log \in Seq(RuleSets) /\ Len(log) \in Nat
      /\ version \in Nat /\ version < Len(log) /\ at \in [Clients -> Nat]
      /\ \A c \in Clients : Pending(c) \in Seq(Messages)
  BY PendingType, SeqLen, SMTT(40) DEF TypeOK
<1>1. ASSUME NEW rs \in RuleSets, UpdateRules(rs) PROVE FromLog'
  <2> DEFINE m == Snapshot(rs, version + 1)
  <2>1. m \in Messages /\ m.version = version + 1 /\ Broadcast(m) /\ rules' = rs
    <3>1. version + 1 \in Nat
      BY <1>0, SMTT(40)
    <3> QED
      BY <1>1, <3>1, MessageTypes, Zenon DEF UpdateRules, Snapshot
  <2>2. version' = version + 1 /\ log' = Append(log, rs)
    BY <2>1, Zenon DEF Broadcast
  <2>3. rules' = log'[Len(log')]
    BY <1>0, <2>1, <2>2, AppendFacts, SMTT(40)
  <2>4. ASSUME NEW c \in Clients PROVE Carries(Pending(c)', version', log')
    <3>1. Pending(c)' = Append(Pending(c), m) \/ Pending(c)' = Pending(c)
      BY <2>1, BroadcastPending, Zenon
    <3>2. InOrder(Pending(c), version, Len(log), at[c]) /\ at[c] \in Nat
      BY <1>0, Zenon DEF VersionsInOrder
    <3>3. Carries(Pending(c), version, log)
      BY Zenon DEF FromLog
    <3>4. /\ Carries(Pending(c), version + 1, Append(log, rs))
          /\ Carries(Append(Pending(c), m), version + 1, Append(log, rs))
      BY <1>0, <3>2, <3>3, CarriesAppend, Zenon
    <3> QED
      BY <2>2, <3>1, <3>4, Zenon
  <2> QED
    BY <2>3, <2>4, Zenon DEF FromLog
<1>2. ASSUME NEW c \in Clients, Send(c) \/ Take(c) PROVE FromLog'
  <2>1. version' = version /\ log' = log /\ rules' = rules
    BY <1>2, Zenon DEF Send, Take, serverVars
  <2>2. \A d \in Clients : Pending(d)' = Pending(d)
    BY <1>2, MovePending, Zenon
  <2> QED
    BY <2>1, <2>2, Zenon DEF FromLog
<1>3. ASSUME NEW c \in Clients, Subscribe(c) PROVE FromLog'
  <2>1. version' = version /\ log' = log /\ rules' = rules
    BY <1>3, Zenon DEF Subscribe, serverVars
  <2>2. /\ Pending(c)' = <<Snapshot(rules, version)>>
        /\ \A d \in Clients \ {c} : Pending(d)' = Pending(d)
    BY <1>3, SubscribePending, Zenon
  <2>3. Carries(<<Snapshot(rules, version)>>, version, log)
    <3>1. rules = log[Len(log)]
      BY Zenon DEF FromLog
    <3> QED
      BY <1>0, <3>1, CarriesFew, Zenon
  <2>4. ASSUME NEW d \in Clients PROVE Carries(Pending(d)', version, log)
    BY <2>2, <2>3, Zenon DEF FromLog
  <2> QED
    BY <2>1, <2>4, Zenon DEF FromLog
<1>4. ASSUME NEW c \in Clients, Recv(c) PROVE FromLog'
  <2>1. version' = version /\ log' = log /\ rules' = rules
    BY <1>4, Zenon DEF Recv, serverVars
  <2>2. /\ Pending(c) # <<>> /\ Pending(c)' = Tail(Pending(c))
        /\ \A d \in Clients \ {c} : Pending(d)' = Pending(d)
    BY <1>4, RecvPending, Zenon
  <2>3. Carries(Tail(Pending(c)), version, log)
    <3>1. Pending(c) \in Seq(Messages) /\ Carries(Pending(c), version, log)
      BY <1>0, Zenon DEF FromLog
    <3> QED
      BY <2>2, <3>1, CarriesTail, Zenon
  <2>4. ASSUME NEW d \in Clients PROVE Carries(Pending(d)', version, log)
    BY <2>2, <2>3, Zenon DEF FromLog
  <2> QED
    BY <2>1, <2>4, Zenon DEF FromLog
<1>5. CASE ControllerRestart
  <2>1. /\ rules' = EmptyRules /\ version' = 0 /\ log' = Append(log, EmptyRules)
        /\ \A c \in Clients : wire'[c] = <<>> /\ hand'[c] = <<>> /\ chan'[c] = <<>>
    BY <1>5, Zenon DEF ControllerRestart
  <2>2. EmptyRules \in RuleSets
    BY MessageTypes
  <2>3. /\ log' \in Seq(RuleSets) /\ Len(log') = Len(log) + 1
        /\ log'[Len(log')] = EmptyRules
    BY <1>0, <2>1, <2>2, AppendFacts, SMTT(40)
  <2>4. version' \in Nat /\ version' < Len(log')
    BY <1>0, <2>1, <2>3, SMTT(40)
  <2>5. \A c \in Clients : Pending(c)' = <<>>
    BY <2>1, SMTT(40) DEF Pending
  <2>6. Carries(<<>>, version', log')
    BY <2>3, <2>4, CarriesFew, Zenon
  <2> QED
    BY <2>1, <2>3, <2>5, <2>6, Zenon DEF FromLog
<1>6. ASSUME NEW c \in Clients, Connect(c) \/ Disconnect(c) \/ ClientRestart(c)
      PROVE  FromLog'
  <2>1. version' = version /\ log' = log /\ rules' = rules
    BY <1>6, Zenon DEF Connect, Disconnect, ClientRestart, serverVars
  <2>2. /\ wire'[c] = <<>> /\ hand'[c] = <<>> /\ chan'[c] = <<>>
        /\ \A d \in Clients \ {c} :
              wire'[d] = wire[d] /\ hand'[d] = hand[d] /\ chan'[d] = chan[d]
    BY <1>6, SMTT(40) DEF Connect, Disconnect, ClientRestart, TypeOK, clientVars
  <2>3. \A d \in Clients \ {c} : Pending(d)' = Pending(d)
    BY <2>2, Zenon DEF Pending
  <2>4. Pending(c)' = <<>>
    BY <2>2, SMTT(40) DEF Pending
  <2>5. Carries(<<>>, version, log)
    BY <1>0, CarriesFew, Zenon
  <2>6. ASSUME NEW d \in Clients PROVE Carries(Pending(d)', version, log)
    BY <2>3, <2>4, <2>5, Zenon DEF FromLog
  <2> QED
    BY <2>1, <2>6, Zenon DEF FromLog
<1>7. CASE UNCHANGED vars
  BY <1>7, Zenon DEF vars, serverVars, streamVars, FromLog, Pending
<1> QED
  BY <1>1, <1>2, <1>3, <1>4, <1>5, <1>6, <1>7, Zenon DEF NextFullSets, Stream, Failure

(* It holds of a new controller, which has the empty set in its log. *)
LEMMA FromLogInit == Init => FromLog
<1> SUFFICES ASSUME Init PROVE FromLog
  OBVIOUS
<1>1. rules = EmptyRules /\ log = <<EmptyRules>> /\ version = 0
  BY Zenon DEF Init
<1>2. EmptyRules \in RuleSets
  BY MessageTypes
<1>3. /\ log \in Seq(RuleSets) /\ Len(log) = 1 /\ log[Len(log)] = EmptyRules
  BY <1>1, <1>2, SMTT(40)
<1>4. version \in Nat /\ version < Len(log)
  BY <1>1, <1>3, SMTT(40)
<1>5. ASSUME NEW c \in Clients PROVE Pending(c) = <<>>
  <2>1. wire[c] = <<>> /\ hand[c] = <<>> /\ chan[c] = <<>>
    BY Zenon DEF Init
  <2> QED
    BY <2>1, SMTT(40) DEF Pending
<1>6. Carries(<<>>, version, log)
  BY <1>3, <1>4, CarriesFew, Zenon
<1> QED
  BY <1>1, <1>3, <1>5, <1>6, Zenon DEF FromLog

(* A received snapshot moves the client forward in the log, to the entry it *)
(* carries, or is refused by the setter and changes nothing it enforces.    *)
LEMMA RecvDelivers ==
    ASSUME TypeOK, VersionsInOrder, FromLog, NEW c \in Clients, Recv(c)
    PROVE  Log!Deliver(c) \/ UNCHANGED <<log, at, applied>>
<1>1. /\ log \in Seq(RuleSets) /\ Len(log) \in Nat /\ version \in Nat
      /\ version < Len(log) /\ at[c] \in Nat /\ Pending(c) \in Seq(Messages)
  BY PendingType, SeqLen, SMTT(40) DEF TypeOK
<1>2. Pending(c) # <<>> /\ Head(Pending(c)) = Head(wire[c])
  BY RecvPending, Zenon
<1> DEFINE m == Head(Pending(c))
           p == Len(log) - version + m.version
<1>3. m.version \in Nat /\ m.version <= version /\ at[c] <= p
  <2>1. InOrder(Pending(c), version, Len(log), at[c])
    BY Zenon DEF VersionsInOrder
  <2> QED
    BY <1>1, <1>2, <2>1, OrderRecv, Zenon
<1>4. m \in Messages /\ m.snap /\ m.del = {} /\ m.put = log[p]
  <2>1. Carries(Pending(c), version, log)
    BY Zenon DEF FromLog
  <2> QED
    BY <1>1, <1>2, <2>1, CarriesTail, Zenon
<1>5. Merge(m, local[c]) = log[p]
  BY <1>4, MergeSnapshot, Zenon
<1>6. p \in 1 .. Len(log) /\ p >= at[c]
  BY <1>1, <1>3, SMTT(40)
<1>7. /\ log' = log
      /\ \/ /\ applied' = [applied EXCEPT ![c] = Merge(m, local[c])]
            /\ at' = [at EXCEPT ![c] = p]
         \/ applied' = applied /\ at' = at
  BY <1>2, Zenon DEF Recv, serverVars
<1> HIDE DEF m, p
<1> QED
  BY <1>5, <1>6, <1>7, Zenon DEF Log!Deliver

(* The reconcilers publish full rule sets only.  Used so, the streams       *)
(* implement RuleLog: every client enforces one of the published sets,      *)
(* whole, and moves forward in the order of publication, for any number of  *)
(* clients and rules and any channel capacity, whatever broadcasts a full   *)
(* channel drops and whoever reconnects or restarts.                        *)
THEOREM FullSetsImplementRuleLog == SpecFullSets => ImplementsRuleLog
<1>1. Init => FromLog /\ Log!Init
  BY FromLogInit, Zenon DEF Init, Log!Init
<1>2. TypeOK /\ VersionsInOrder /\ FromLog /\ [NextFullSets]_vars
      => [Log!Next]_(Log!vars)
  <2> SUFFICES ASSUME TypeOK, VersionsInOrder, FromLog, [NextFullSets]_vars
               PROVE  Log!Next \/ UNCHANGED <<log, at, applied>>
    BY Zenon DEF Log!vars
  <2>1. ASSUME NEW rs \in RuleSets, UpdateRules(rs) PROVE Log!Publish
    BY <2>1, Zenon DEF UpdateRules, Broadcast, clientVars, Log!Publish
  <2>2. CASE ControllerRestart
    <3>1. EmptyRules \in RuleSets
      BY MessageTypes
    <3>2. Log!Publish
      BY <2>2, <3>1, Zenon DEF ControllerRestart, clientVars, Log!Publish
    <3> QED
      BY <3>2, Zenon DEF Log!Next
  <2>3. ASSUME NEW c \in Clients, Recv(c)
        PROVE  Log!Deliver(c) \/ UNCHANGED <<log, at, applied>>
    BY <2>3, RecvDelivers, Zenon
  <2>4. ASSUME NEW c \in Clients, ClientRestart(c) PROVE Log!ClientRestart(c)
    BY <2>4, Zenon DEF ClientRestart, serverVars, Log!ClientRestart
  <2>5. ASSUME NEW c \in Clients,
               Connect(c) \/ Subscribe(c) \/ Send(c) \/ Take(c) \/ Disconnect(c)
        PROVE  UNCHANGED <<log, at, applied>>
    BY <2>5, Zenon DEF Connect, Subscribe, Send, Take, Disconnect, serverVars, clientVars
  <2>6. CASE UNCHANGED vars
    BY <2>6, Zenon DEF vars, serverVars, clientVars
  <2> QED
    BY <2>1, <2>2, <2>3, <2>4, <2>5, <2>6, Zenon
       DEF NextFullSets, Stream, Failure, Log!Next
<1> QED
  BY <1>1, <1>2, FromLogStep, FullSetsInvariants, PTL
     DEF SpecFullSets, ImplementsRuleLog, Log!Spec

-----------------------------------------------------------------------------
(* Full rule sets: the refinement of RuleFeed, one client at a time.        *)

(* The rule sets of a queue of messages: appending, taking the head and     *)
(* counting are the same on the messages and on their sets.                 *)
LEMMA PutsLen ==
    ASSUME NEW P \in Seq(Messages)
    PROVE  /\ Puts(P) \in Seq(RuleSets) /\ Len(P) \in Nat /\ Len(Puts(P)) = Len(P)
           /\ \A i \in 1 .. Len(P) : Puts(P)[i] = P[i].put
<1>1. Len(P) \in Nat
  BY SeqLen
<1>2. ASSUME NEW i \in 1 .. Len(P) PROVE P[i].put \in RuleSets
  <2>1. P[i] \in Messages
    BY SeqItem
  <2> QED
    BY <2>1, MessagePut, Zenon
<1> DEFINE n == Len(P)
           f(i) == P[i].put
<1> HIDE DEF n, f
<1>3. \A m \in Nat : (\A i \in 1 .. m : f(i) \in RuleSets) =>
         /\ [i \in 1 .. m |-> f(i)] \in Seq(RuleSets)
         /\ Len([i \in 1 .. m |-> f(i)]) = m
  BY SMTT(40)
<1>4. n \in Nat /\ \A i \in 1 .. n : f(i) \in RuleSets
  BY <1>1, <1>2, Zenon DEF n, f
<1>5. Puts(P) = [i \in 1 .. n |-> f(i)]
  BY Zenon DEF Puts, n, f
<1>6. \A i \in 1 .. n : Puts(P)[i] = f(i)
  BY <1>5, Zenon
<1>7. Puts(P) \in Seq(RuleSets) /\ Len(Puts(P)) = n
  BY <1>3, <1>4, <1>5, Zenon
<1> QED
  BY <1>4, <1>6, <1>7, Zenon DEF n, f

(* A message appended to the queue appends its set. *)
LEMMA PutsAppend ==
    ASSUME NEW P \in Seq(Messages), NEW m \in Messages
    PROVE  Puts(Append(P, m)) = Append(Puts(P), m.put)
<1> DEFINE Q == Append(P, m)
           s == Puts(P)
           t == Puts(Q)
           x == m.put
<1>1. /\ Q \in Seq(Messages) /\ Len(P) \in Nat /\ Len(Q) = Len(P) + 1 /\ Q[Len(P) + 1] = m
      /\ \A i \in 1 .. Len(P) : Q[i] = P[i]
  BY AppendFacts, SeqLen, SMTT(40)
<1>2. x \in RuleSets
  BY MessagePut, Zenon
<1> HIDE DEF Q
<1>3. /\ s \in Seq(RuleSets) /\ Len(s) = Len(P)
      /\ \A i \in 1 .. Len(P) : s[i] = P[i].put
  BY PutsLen, Zenon
<1>4. /\ t \in Seq(RuleSets) /\ Len(t) = Len(Q)
      /\ \A i \in 1 .. Len(Q) : t[i] = Q[i].put
  BY <1>1, PutsLen, Zenon
<1> HIDE DEF s, t
<1>5. Len(P) + 1 \in 1 .. Len(Q) /\ \A i \in 1 .. Len(P) : i \in 1 .. Len(Q)
  BY <1>1, SMTT(40)
<1>6. t[Len(P) + 1] = x /\ \A i \in 1 .. Len(P) : t[i] = s[i]
  BY <1>1, <1>3, <1>4, <1>5, Zenon
<1> HIDE DEF x
<1>7. /\ Append(s, x) \in Seq(RuleSets) /\ Len(Append(s, x)) = Len(P) + 1
      /\ Append(s, x)[Len(P) + 1] = x
      /\ \A i \in 1 .. Len(P) : Append(s, x)[i] = s[i]
  BY <1>2, <1>3, AppendFacts
<1>8. Len(t) = Len(Append(s, x))
  BY <1>1, <1>4, <1>7
<1>9. \A i \in 1 .. Len(t) : t[i] = Append(s, x)[i]
  <2>1. \A i \in 1 .. Len(t) : i \in 1 .. Len(P) \/ i = Len(P) + 1
    BY <1>1, <1>4, SMTT(40)
  <2> QED
    BY <1>6, <1>7, <2>1, Zenon
<1> QED
  BY <1>4, <1>7, <1>8, <1>9, SeqSame DEF s, t, x, Q

(* Receiving the next message takes its set off the queue. *)
LEMMA PutsTail ==
    ASSUME NEW P \in Seq(Messages), P # <<>>
    PROVE  /\ Puts(P) # <<>>
           /\ Head(Puts(P)) = Head(P).put
           /\ Puts(Tail(P)) = Tail(Puts(P))
<1> DEFINE Q == Tail(P)
           s == Puts(P)
           t == Puts(Q)
<1>1. /\ Q \in Seq(Messages) /\ Len(P) \in Nat /\ Len(P) # 0 /\ Len(Q) = Len(P) - 1 /\ Head(P) = P[1]
      /\ \A i \in 1 .. Len(P) - 1 : Q[i] = P[i + 1]
  BY TailFacts, SeqLen, SeqSome
<1> HIDE DEF Q
<1>2. /\ s \in Seq(RuleSets) /\ Len(s) = Len(P)
      /\ \A i \in 1 .. Len(P) : s[i] = P[i].put
  BY PutsLen, Zenon
<1>3. /\ t \in Seq(RuleSets) /\ Len(t) = Len(Q)
      /\ \A i \in 1 .. Len(Q) : t[i] = Q[i].put
  BY <1>1, PutsLen, Zenon
<1> HIDE DEF s, t
<1>4. s # <<>>
  BY <1>1, <1>2, SeqSome
<1>5. /\ Head(s) = s[1] /\ Tail(s) \in Seq(RuleSets) /\ Len(Tail(s)) = Len(s) - 1
      /\ \A i \in 1 .. Len(s) - 1 : Tail(s)[i] = s[i + 1]
  BY <1>2, <1>4, TailFacts
<1>6. 1 \in 1 .. Len(P) /\ \A i \in 1 .. Len(Q) : i \in 1 .. Len(P) - 1 /\ i + 1 \in 1 .. Len(P)
  BY <1>1, SMTT(40)
<1>7. \A i \in 1 .. Len(t) : t[i] = Tail(s)[i]
  BY <1>1, <1>2, <1>3, <1>5, <1>6, Zenon
<1>8. Len(t) = Len(Tail(s))
  BY <1>1, <1>2, <1>3, <1>5
<1>9. t = Tail(s)
  BY <1>3, <1>5, <1>7, <1>8, SeqSame
<1>10. Head(s) = Head(P).put
  BY <1>1, <1>2, <1>5, <1>6, Zenon
<1> QED
  BY <1>4, <1>9, <1>10, Zenon DEF s, t, Q

(* A queue of no message has no set, one of one message has its set. *)
LEMMA PutsFew ==
    /\ Puts(<<>>) = <<>>
    /\ \A m \in Messages : Puts(<<m>>) = <<m.put>>
<1>1. Puts(<<>>) = <<>>
  BY SMTT(40) DEF Puts
<1>2. ASSUME NEW m \in Messages PROVE Puts(<<m>>) = <<m.put>>
  BY SMTT(40) DEF Puts
<1> QED
  BY <1>1, <1>2

(* How many messages are on their way to a client. *)
LEMMA PendingLen ==
    ASSUME TypeOK, NEW c \in Clients
    PROVE  /\ Len(Pending(c)) = Len(wire[c]) + Len(hand[c]) + Len(chan[c])
           /\ Len(wire[c]) \in 0 .. WireCap /\ Len(hand[c]) \in 0 .. 1
           /\ Len(chan[c]) \in 0 .. ChanCap
<1>1. wire[c] \in Seq(Messages) /\ hand[c] \in Seq(Messages) /\ chan[c] \in Seq(Messages)
      /\ Len(wire[c]) <= WireCap /\ Len(hand[c]) <= 1 /\ Len(chan[c]) <= ChanCap
  BY DEF TypeOK
<1>2. Len(wire[c]) \in Nat /\ Len(hand[c]) \in Nat /\ Len(chan[c]) \in Nat
  BY <1>1, SeqLen
<1>3. /\ wire[c] \o hand[c] \in Seq(Messages)
      /\ Len(wire[c] \o hand[c]) = Len(wire[c]) + Len(hand[c])
  BY <1>1, CatFacts
<1>4. Len((wire[c] \o hand[c]) \o chan[c]) = Len(wire[c] \o hand[c]) + Len(chan[c])
  BY <1>1, <1>3, CatFacts
<1>5. \A n, b \in Nat : n <= b => n \in 0 .. b
  OBVIOUS
<1>6. WireCap \in Nat /\ ChanCap \in Nat /\ 1 \in Nat
  BY BoundsAssumption
<1> QED
  BY <1>1, <1>2, <1>3, <1>4, <1>5, <1>6, Zenon DEF Pending

(* Room in the channel is room in the queue; a full channel is a queue of   *)
(* at least its length.                                                     *)
LEMMA PendingRoom ==
    ASSUME TypeOK, NEW c \in Clients
    PROVE  /\ Len(chan[c]) < ChanCap => Len(Pending(c)) < ChanCap + (WireCap + 1)
           /\ ~(Len(chan[c]) < ChanCap) => Len(Pending(c)) >= ChanCap
<1>1. WireCap \in Nat /\ ChanCap \in Nat
  BY BoundsAssumption
<1>2. \A b, d \in Nat : \A w \in 0 .. b, h \in 0 .. 1, q \in 0 .. d :
         /\ q < d => w + h + q < d + (b + 1)
         /\ ~(q < d) => w + h + q >= d
  BY SMTT(40)
<1> QED
  BY <1>1, <1>2, PendingLen, Zenon

(* A stream loses a message only while it is up. *)
GapInv == \A c \in Clients : gap[c] => phase[c] = "streaming"

LEMMA GapStep == TypeOK /\ GapInv /\ [Next]_vars => GapInv'
<1> SUFFICES ASSUME TypeOK, GapInv, [Next]_vars, NEW d \in Clients, gap'[d]
             PROVE  phase'[d] = "streaming"
  BY DEF GapInv
<1>0. phase \in [Clients -> Phases] /\ gap \in [Clients -> BOOLEAN] /\ (gap[d] => phase[d] = "streaming")
  BY DEF TypeOK, GapInv
<1>1. ASSUME NEW m, Broadcast(m) PROVE phase'[d] = "streaming"
  BY <1>1, Zenon DEF Broadcast
<1>2. CASE ControllerRestart
  BY <1>2, Zenon DEF ControllerRestart
<1>3. ASSUME NEW c \in Clients, Connect(c) PROVE phase'[d] = "streaming"
  <2>1. gap' = gap /\ phase[c] = "down" /\ phase' = [phase EXCEPT ![c] = "requested"]
    BY <1>3, Zenon DEF Connect
  <2>2. d # c
    BY <1>0, <2>1
  <2> QED
    BY <1>0, <2>1, <2>2, Zenon
<1>4. ASSUME NEW c \in Clients, Subscribe(c) PROVE phase'[d] = "streaming"
  <2>1. gap' = gap /\ phase' = [phase EXCEPT ![c] = "streaming"]
    BY <1>4, Zenon DEF Subscribe
  <2> QED
    BY <1>0, <2>1, Zenon
<1>5. ASSUME NEW c \in Clients, Send(c) \/ Take(c) \/ Recv(c) PROVE phase'[d] = "streaming"
  <2>1. gap' = gap /\ phase' = phase
    BY <1>5, Zenon DEF Send, Take, Recv
  <2> QED
    BY <1>0, <2>1, Zenon
<1>6. ASSUME NEW c \in Clients, Disconnect(c) \/ ClientRestart(c) PROVE phase'[d] = "streaming"
  <2>1. gap' = [gap EXCEPT ![c] = FALSE] /\ phase' = [phase EXCEPT ![c] = "down"]
    BY <1>6, Zenon DEF Disconnect, ClientRestart
  <2>2. d # c
    BY <1>0, <2>1, Zenon
  <2> QED
    BY <1>0, <2>1, <2>2, Zenon
<1>7. CASE UNCHANGED vars
  BY <1>0, <1>7, Zenon DEF vars, streamVars
<1> QED
  BY <1>1, <1>2, <1>3, <1>4, <1>5, <1>6, <1>7, Zenon
     DEF Next, UpdateRules, UpsertRule, RemoveRule, Stream, Failure

(* A publication is one of the feed: it reaches a subscriber whose channel  *)
(* has room and is lost to one whose channel has none.                      *)
LEMMA PublishFeeds ==
    ASSUME TypeOK, GapInv, NEW rs \in RuleSets, UpdateRules(rs), NEW c \in Clients
    PROVE  Feed(c)!Publish
<1> DEFINE m == Snapshot(rs, version + 1)
<1>1. m \in Messages /\ m.snap /\ m.put = rs /\ Broadcast(m) /\ rules' = rs
  <2>1. version + 1 \in Nat
    BY SMTT(40) DEF TypeOK
  <2> QED
    BY <2>1, MessageTypes, Zenon DEF UpdateRules, Snapshot
<1> HIDE DEF m
<1>2. /\ phase' = phase /\ applied' = applied /\ gap[c] \in BOOLEAN
      /\ gap'[c] = (phase[c] = "streaming" /\ (Room(c) => gap[c] /\ ~m.snap))
  BY <1>1, Zenon DEF Broadcast, clientVars, TypeOK
<1>3. /\ Room(c) => Pending(c)' = Append(Pending(c), m)
      /\ ~Room(c) => Pending(c)' = Pending(c)
  BY <1>1, BroadcastPending, Zenon
<1>4. Pending(c) \in Seq(Messages)
  BY PendingType
<1>5. /\ Room(c) => Puts(Pending(c))' = Append(Puts(Pending(c)), rules')
      /\ ~Room(c) => Puts(Pending(c))' = Puts(Pending(c))
  BY <1>1, <1>3, <1>4, PutsAppend, Zenon
<1>6. Len(Puts(Pending(c))) = Len(Pending(c))
  BY <1>4, PutsLen, Zenon
<1>7. CASE Room(c)
  <2>1. phase[c] = "streaming" /\ Len(chan[c]) < ChanCap
    BY <1>7, Zenon DEF Room
  <2>2. Len(Puts(Pending(c))) < ChanCap + (WireCap + 1)
    BY <1>6, <2>1, PendingRoom, Zenon
  <2>3. gap'[c] = FALSE
    BY <1>1, <1>2, <1>7, Zenon
  <2> QED
    BY <1>2, <1>5, <1>7, <2>1, <2>2, <2>3, Zenon DEF Feed!Publish
<1>8. CASE ~Room(c) /\ phase[c] = "streaming"
  <2>1. ~(Len(chan[c]) < ChanCap)
    BY <1>8, Zenon DEF Room
  <2>2. Len(Puts(Pending(c))) >= ChanCap
    BY <1>6, <2>1, PendingRoom, Zenon
  <2>3. gap'[c] = TRUE
    BY <1>2, <1>8, Zenon
  <2> QED
    BY <1>2, <1>5, <1>8, <2>2, <2>3, Zenon DEF Feed!Publish
<1>9. CASE phase[c] # "streaming"
  <2>1. ~Room(c)
    BY <1>9, Zenon DEF Room
  <2>2. gap'[c] = gap[c]
    BY <1>2, <1>9, Zenon DEF GapInv
  <2> QED
    BY <1>2, <1>5, <1>9, <2>1, <2>2, Zenon DEF Feed!Publish
<1> QED
  BY <1>7, <1>8, <1>9, Zenon

(* A subscription opens the queue with the server's rules. *)
LEMMA SubscribeFeeds ==
    ASSUME TypeOK, NEW c \in Clients, Subscribe(c)
    PROVE  Feed(c)!Subscribe
<1>1. /\ phase[c] = "requested" /\ phase'[c] = "streaming" /\ rules' = rules
      /\ applied' = applied /\ gap' = gap
  BY Zenon DEF Subscribe, serverVars, clientVars, TypeOK
<1>2. Pending(c)' = <<Snapshot(rules, version)>>
  BY SubscribePending, Zenon
<1>3. Snapshot(rules, version) \in Messages /\ Snapshot(rules, version).put = rules
  <2>1. rules \in RuleSets /\ version \in Nat
    BY DEF TypeOK
  <2> QED
    BY <2>1, MessageTypes, SMTT(40) DEF Snapshot
<1>4. Puts(Pending(c))' = <<rules>>
  BY <1>2, <1>3, PutsFew, Zenon
<1>5. phase[c] # "streaming"
  BY <1>1
<1> QED
  BY <1>1, <1>4, <1>5, Zenon DEF Feed!Subscribe

(* A received set is enforced unless the setter refuses it. *)
LEMMA RecvFeeds ==
    ASSUME TypeOK, FromLog, NEW c \in Clients, Recv(c)
    PROVE  Feed(c)!Receive
<1>1. /\ rules' = rules /\ phase' = phase /\ gap' = gap
  BY Zenon DEF Recv, serverVars
<1>2. Pending(c) \in Seq(Messages)
  BY PendingType
<1>3. /\ Pending(c) # <<>> /\ Head(Pending(c)) = Head(wire[c])
      /\ Pending(c)' = Tail(Pending(c))
  BY RecvPending, Zenon
<1> DEFINE m == Head(Pending(c))
<1>4. m \in Messages /\ m.snap /\ m.del = {}
  <2>1. Carries(Pending(c), version, log)
    BY Zenon DEF FromLog
  <2> QED
    BY <1>2, <1>3, <2>1, CarriesTail, Zenon
<1>5. Merge(m, local[c]) = m.put /\ m.put \in RuleSets
  <2>1. m.put \in RuleSets
    BY <1>4, MessagePut, Zenon
  <2> QED
    BY <1>4, <2>1, MergeSnapshot, Zenon
<1>6. \/ Accepted(m.put) /\ applied' = [applied EXCEPT ![c] = m.put]
      \/ ~Accepted(m.put) /\ applied' = applied
  BY <1>3, <1>5, Zenon DEF Recv
<1>7. /\ Puts(Pending(c)) # <<>> /\ Head(Puts(Pending(c))) = m.put
      /\ Puts(Pending(c))' = Tail(Puts(Pending(c)))
  BY <1>2, <1>3, PutsTail, Zenon
<1> HIDE DEF m
<1>8. applied'[c] = IF m.put \in {rs \in RuleSets : ~Accepted(rs)} THEN applied[c] ELSE m.put
  <2>1. applied \in [Clients -> RuleSets]
    BY DEF TypeOK
  <2>2. CASE Accepted(m.put)
    BY <1>6, <2>1, <2>2, Zenon
  <2>3. CASE ~Accepted(m.put)
    BY <1>5, <1>6, <2>3, Zenon
  <2> QED
    BY <2>2, <2>3, Zenon
<1> QED
  BY <1>1, <1>7, <1>8, Zenon DEF Feed!Receive

(* Every step of the streams is a step of the feed of each client, or does  *)
(* not show on it: moving a message along, and whatever other clients do.   *)
LEMMA FeedStep ==
    ASSUME TypeOK, FromLog, GapInv, [NextFullSets]_vars, NEW d \in Clients
    PROVE  [Feed(d)!Next]_(Feed(d)!vars)
<1>0. /\ phase \in [Clients -> Phases] /\ gap \in [Clients -> BOOLEAN]
      /\ applied \in [Clients -> RuleSets]
  BY DEF TypeOK
<1>1. ASSUME UNCHANGED <<rules, phase[d], Pending(d), applied[d], gap[d]>>
      PROVE  UNCHANGED Feed(d)!vars
  BY <1>1, Zenon DEF Feed!vars
<1>2. ASSUME NEW rs \in RuleSets, UpdateRules(rs) PROVE Feed(d)!Next
  BY <1>2, PublishFeeds, Zenon DEF Feed!Next
<1>3. CASE ControllerRestart
  <2>1. /\ rules' = EmptyRules /\ phase'[d] = "down" /\ gap'[d] = FALSE /\ applied' = applied
        /\ wire'[d] = <<>> /\ hand'[d] = <<>> /\ chan'[d] = <<>>
    BY <1>3, Zenon DEF ControllerRestart, clientVars
  <2>2. Pending(d)' = <<>>
    BY <2>1, SMTT(40) DEF Pending
  <2>3. Puts(Pending(d))' = <<>>
    BY <2>2, PutsFew, Zenon
  <2>4. (phase'[d] = "streaming") = FALSE
    BY <2>1
  <2> QED
    BY <2>1, <2>3, <2>4, Zenon DEF Feed!Next, Feed!ControllerRestart, Feed!Down
<1>4. ASSUME NEW c \in Clients, Connect(c) PROVE UNCHANGED Feed(d)!vars
  <2>1. /\ UNCHANGED <<rules, applied, gap, wire, hand, chan>>
        /\ phase[c] = "down" /\ phase' = [phase EXCEPT ![c] = "requested"]
    BY <1>4, Zenon DEF Connect, serverVars
  <2>2. (phase'[d] = "streaming") = (phase[d] = "streaming")
    BY <1>0, <2>1
  <2> QED
    BY <2>1, <2>2, Zenon DEF Feed!vars, Pending
<1>5. ASSUME NEW c \in Clients, Subscribe(c) PROVE [Feed(d)!Next]_(Feed(d)!vars)
  <2>1. CASE c = d
    BY <1>5, <2>1, SubscribeFeeds, Zenon DEF Feed!Next
  <2>2. CASE c # d
    <3>1. UNCHANGED <<rules, applied, gap>> /\ phase'[d] = phase[d]
      BY <1>0, <1>5, <2>2, Zenon DEF Subscribe, serverVars, clientVars
    <3>2. Pending(d)' = Pending(d)
      BY <1>5, <2>2, SubscribePending, Zenon
    <3> QED
      BY <1>1, <3>1, <3>2, Zenon
  <2> QED
    BY <2>1, <2>2, Zenon
<1>6. ASSUME NEW c \in Clients, Send(c) \/ Take(c) PROVE UNCHANGED Feed(d)!vars
  <2>1. UNCHANGED <<rules, applied, gap, phase>>
    BY <1>6, Zenon DEF Send, Take, serverVars, clientVars
  <2>2. Pending(d)' = Pending(d)
    BY <1>6, MovePending, Zenon
  <2> QED
    BY <1>1, <2>1, <2>2, Zenon
<1>7. ASSUME NEW c \in Clients, Recv(c) PROVE [Feed(d)!Next]_(Feed(d)!vars)
  <2>1. CASE c = d
    BY <1>7, <2>1, RecvFeeds, Zenon DEF Feed!Next
  <2>2. CASE c # d
    <3>1. UNCHANGED <<rules, gap, phase>> /\ applied'[d] = applied[d]
      BY <1>0, <1>7, <2>2, Zenon DEF Recv, serverVars
    <3>2. Pending(d)' = Pending(d)
      BY <1>7, <2>2, RecvPending, Zenon
    <3> QED
      BY <1>1, <3>1, <3>2, Zenon
  <2> QED
    BY <2>1, <2>2, Zenon
<1>8. ASSUME NEW c \in Clients, Disconnect(c) \/ ClientRestart(c)
      PROVE  [Feed(d)!Next]_(Feed(d)!vars)
  <2>1. /\ rules' = rules
        /\ phase' = [phase EXCEPT ![c] = "down"] /\ gap' = [gap EXCEPT ![c] = FALSE]
        /\ wire' = [wire EXCEPT ![c] = <<>>] /\ hand' = [hand EXCEPT ![c] = <<>>]
        /\ chan' = [chan EXCEPT ![c] = <<>>]
        /\ \/ Disconnect(c) /\ applied' = applied
           \/ ClientRestart(c) /\ applied' = [applied EXCEPT ![c] = EmptyRules]
    BY <1>8, Zenon DEF Disconnect, ClientRestart, serverVars, clientVars
  <2>2. /\ wire \in [Clients -> Seq(Messages)] /\ hand \in [Clients -> Seq(Messages)]
        /\ chan \in [Clients -> Seq(Messages)]
    BY DEF TypeOK
  <2>3. CASE c = d
    <3>1. /\ phase'[d] = "down" /\ gap'[d] = FALSE
          /\ wire'[d] = <<>> /\ hand'[d] = <<>> /\ chan'[d] = <<>>
          /\ applied'[d] = applied[d] \/ applied'[d] = EmptyRules
      BY <1>0, <2>1, <2>2, <2>3, Zenon
    <3>2. Pending(d)' = <<>>
      BY <3>1, SMTT(40) DEF Pending
    <3>3. Puts(Pending(d))' = <<>>
      BY <3>2, PutsFew, Zenon
    <3>4. (phase'[d] = "streaming") = FALSE
      BY <3>1
    <3> QED
      BY <2>1, <3>1, <3>3, <3>4, Zenon
         DEF Feed!Next, Feed!Disconnect, Feed!ClientRestart, Feed!Down
  <2>4. CASE c # d
    <3>1. /\ phase'[d] = phase[d] /\ gap'[d] = gap[d] /\ applied'[d] = applied[d]
          /\ wire'[d] = wire[d] /\ hand'[d] = hand[d] /\ chan'[d] = chan[d]
      BY <1>0, <2>1, <2>2, <2>4, Zenon
    <3>2. Pending(d)' = Pending(d)
      BY <3>1, Zenon DEF Pending
    <3> QED
      BY <1>1, <2>1, <3>1, <3>2, Zenon
  <2> QED
    BY <2>3, <2>4, Zenon
<1>9. CASE UNCHANGED vars
  BY <1>1, <1>9, Zenon DEF vars, serverVars, streamVars, clientVars, Pending
<1> QED
  BY <1>2, <1>3, <1>4, <1>5, <1>6, <1>7, <1>8, <1>9, Zenon
     DEF NextFullSets, Stream, Failure

(* The reconcilers publish full rule sets only.  Used so, subscriber        *)
(* channel, handler and connection are to each client one queue of rule     *)
(* sets that opens with the server's rules, loses a set only while ChanCap  *)
(* or more wait and holds at most ChanCap + WireCap + 1 (Stream*Rules,      *)
(* Update*Rules, streamGeneration).                                         *)
THEOREM FullSetsImplementRuleFeed == SpecFullSets => ImplementsRuleFeed
<1>1. Init => FromLog /\ GapInv /\ \A c \in Clients : Feed(c)!Init
  <2> SUFFICES ASSUME Init PROVE GapInv /\ \A c \in Clients : Feed(c)!Init
    BY FromLogInit
  <2>1. GapInv
    BY Zenon DEF Init, GapInv
  <2>2. ASSUME NEW c \in Clients PROVE Feed(c)!Init
    <3>1. /\ wire[c] = <<>> /\ hand[c] = <<>> /\ chan[c] = <<>> /\ rules = EmptyRules
          /\ phase[c] = "down" /\ applied[c] = EmptyRules /\ gap[c] = FALSE
      BY Zenon DEF Init
    <3>2. Pending(c) = <<>>
      BY <3>1, SMTT(40) DEF Pending
    <3>3. Puts(Pending(c)) = <<>> /\ (phase[c] = "streaming") = FALSE
      BY <3>1, <3>2, PutsFew
    <3> QED
      BY <3>1, <3>3, Zenon DEF Feed!Init
  <2> QED
    BY <2>1, <2>2
<1>2. TypeOK /\ FromLog /\ GapInv /\ [NextFullSets]_vars
      => [\A c \in Clients : [Feed(c)!Next]_(Feed(c)!vars)]_vars
  BY FeedStep, Zenon
<1>3. TypeOK /\ GapInv /\ [NextFullSets]_vars => GapInv'
  BY GapStep, FullSetsAreSteps, Zenon
<1> QED
  BY <1>1, <1>2, <1>3, FromLogStep, FullSetsInvariants, PTL
     DEF SpecFullSets, ImplementsRuleFeed

(* The same, said with the specification of the feed: every behaviour of    *)
(* the streams is, for each client, a behaviour of RuleFeed.                *)
THEOREM EveryClientHasAFeed == SpecFullSets => \A c \in Clients : Feed(c)!Spec
<1>1. ASSUME NEW d \in Clients PROVE SpecFullSets => Feed(d)!Spec
  <2>1. (\A c \in Clients : Feed(c)!Init) => Feed(d)!Init
    OBVIOUS
  <2>2. [\A c \in Clients : [Feed(c)!Next]_(Feed(c)!vars)]_vars
        => [Feed(d)!Next]_(Feed(d)!vars)
    BY Zenon DEF vars, serverVars, streamVars, clientVars, Feed!vars, Pending
  <2>3. ImplementsRuleFeed => Feed(d)!Init
    BY <2>1, PTL DEF ImplementsRuleFeed
  <2>4. ImplementsRuleFeed => [][Feed(d)!Next]_(Feed(d)!vars)
    BY <2>2, PTL DEF ImplementsRuleFeed
  <2>5. Feed(d)!Init /\ [][Feed(d)!Next]_(Feed(d)!vars) => Feed(d)!Spec
    BY PTL DEF Feed!Spec
  <2> QED
    BY <2>3, <2>4, <2>5, FullSetsImplementRuleFeed, PTL
<1> QED
  BY <1>1, Zenon

-----------------------------------------------------------------------------
(* Progress of a delivery, the part of StableStreamConverges that needs no *)
(* fairness: how many steps are left until the client has received         *)
(* everything, and that one of them can always be taken.                   *)

(* Steps left until c is subscribed and has received what is on its way: a *)
(* message in the channel is still to be taken, sent and received.         *)
Weight(q, h, w) == 3 * q + 2 * h + w
Left(c) ==
    IF phase[c] = "down" THEN 4
    ELSE IF phase[c] = "requested" THEN 3
    ELSE Weight(Len(chan[c]), Len(hand[c]), Len(wire[c]))

(* The guard of one of the steps of Stream(c) holds. *)
Steppable(c) ==
    \/ phase[c] = "down"
    \/ phase[c] = "requested"
    \/ hand[c] # <<>> /\ Len(wire[c]) < WireCap
    \/ hand[c] = <<>> /\ chan[c] # <<>>
    \/ wire[c] # <<>>

(* The steps left are a number, and receiving a message makes it smaller. *)
LEMMA WeightFacts ==
    /\ Weight(0, 1, 0) < 3
    /\ \A q, h, w \in Nat :
          /\ Weight(q, h, w) \in Nat
          /\ Weight(q, h, w) = 0 <=> q = 0 /\ h = 0 /\ w = 0
          /\ w # 0 => Weight(q, h, w - 1) < Weight(q, h, w)
  BY DEF Weight

(* So do sending a message and taking the next one. *)
LEMMA WeightMoves ==
    /\ \A q, w \in Nat : Weight(q, 0, w + 1) < Weight(q, 1, w)
    /\ \A q, w \in Nat : q # 0 => Weight(q - 1, 1, w) < Weight(q, 0, w)
  BY DEF Weight

(* The lengths Left is made of. *)
LEMMA LeftTypes ==
    ASSUME TypeOK, NEW c \in Clients
    PROVE  /\ Len(chan[c]) \in Nat /\ Len(hand[c]) \in Nat /\ Len(wire[c]) \in Nat
           /\ Left(c) \in Nat
           /\ Len(chan[c]) = 0 <=> chan[c] = <<>>
           /\ Len(hand[c]) = 0 <=> hand[c] = <<>>
           /\ Len(wire[c]) = 0 <=> wire[c] = <<>>
<1>1. chan[c] \in Seq(Messages) /\ hand[c] \in Seq(Messages) /\ wire[c] \in Seq(Messages)
  BY Zenon DEF TypeOK
<1>2. Len(chan[c]) \in Nat /\ Len(hand[c]) \in Nat /\ Len(wire[c]) \in Nat
  BY <1>1, SeqLen, Zenon
<1>3. /\ Len(chan[c]) = 0 <=> chan[c] = <<>>
      /\ Len(hand[c]) = 0 <=> hand[c] = <<>>
      /\ Len(wire[c]) = 0 <=> wire[c] = <<>>
  BY <1>1, SMTT(40)
<1>4. Left(c) \in Nat
  BY <1>2, WeightFacts, 3 \in Nat, 4 \in Nat, Zenon DEF Left
<1> QED
  BY <1>2, <1>3, <1>4

(* What is left of a delivery depends on that stream alone. *)
LEMMA LeftOthers ==
    ASSUME TypeOK, NEW c \in Clients, NEW d \in Clients, d # c, Stream(c)
    PROVE  Left(d)' = Left(d)
<1>1. /\ phase'[d] = phase[d] /\ chan'[d] = chan[d]
      /\ hand'[d] = hand[d] /\ wire'[d] = wire[d]
  BY SMTT(40) DEF Stream, Connect, Subscribe, Send, Take, Recv, TypeOK
<1> QED
  BY <1>1, Zenon DEF Left

(* Each step of a stream takes the delivery one step on, or two. *)
LEMMA LeftFalls ==
    ASSUME TypeOK, NEW c \in Clients, Stream(c)
    PROVE  Left(c)' < Left(c)
<1>0. /\ chan[c] \in Seq(Messages) /\ hand[c] \in Seq(Messages)
      /\ wire[c] \in Seq(Messages) /\ phase[c] \in Phases
      /\ Len(hand[c]) <= 1
      /\ phase[c] # "streaming" => chan[c] = <<>> /\ hand[c] = <<>> /\ wire[c] = <<>>
  BY Zenon DEF TypeOK
<1>1. CASE Connect(c)
  <2>1. phase[c] = "down" /\ phase'[c] = "requested"
    BY <1>1, Zenon DEF Connect, TypeOK
  <2> QED
    BY <2>1 DEF Left
<1>2. CASE Subscribe(c)
  <2>1. /\ phase[c] = "requested" /\ phase'[c] = "streaming"
        /\ hand'[c] = <<Snapshot(rules, version)>>
        /\ chan'[c] = chan[c] /\ wire'[c] = wire[c]
    BY <1>2, Zenon DEF Subscribe, TypeOK
  <2>2. chan'[c] = <<>> /\ wire'[c] = <<>>
    BY <1>0, <2>1
  <2>3. Len(chan'[c]) = 0 /\ Len(wire'[c]) = 0 /\ Len(hand'[c]) = 1
    BY <2>1, <2>2, SMTT(40)
  <2> QED
    BY <2>1, <2>3, WeightFacts, "requested" # "down", "streaming" # "down",
       "streaming" # "requested", Zenon DEF Left
<1>3. CASE Send(c)
  <2>1. /\ hand[c] # <<>> /\ phase'[c] = phase[c] /\ chan'[c] = chan[c]
        /\ hand'[c] = <<>> /\ wire'[c] = Append(wire[c], Head(hand[c]))
    BY <1>3, Zenon DEF Send, TypeOK
  <2>2. Len(hand[c]) = 1 /\ Len(hand'[c]) = 0 /\ Head(hand[c]) \in Messages
    <3>1. Len(hand[c]) \in Nat \ {0} /\ Head(hand[c]) \in Messages
      BY <1>0, <2>1, SeqSome, TailFacts, Zenon
    <3>2. \A n \in Nat \ {0} : n <= 1 => n = 1
      OBVIOUS
    <3>3. Len(hand'[c]) = 0
      BY <2>1
    <3> QED
      BY <1>0, <3>1, <3>2, <3>3, Zenon
  <2>3. Len(wire'[c]) = Len(wire[c]) + 1
    <3>1. ASSUME NEW q \in Seq(Messages), NEW m \in Messages
          PROVE  Len(Append(q, m)) = Len(q) + 1
      OBVIOUS
    <3> QED
      BY <1>0, <2>1, <2>2, <3>1, Zenon
  <2>4. phase[c] = "streaming" /\ phase'[c] = "streaming"
    BY <1>0, <2>1, Zenon
  <2>5. /\ Left(c) = Weight(Len(chan[c]), 1, Len(wire[c]))
        /\ Left(c)' = Weight(Len(chan[c]), 0, Len(wire[c]) + 1)
    BY <2>1, <2>2, <2>3, <2>4, "streaming" # "down", "streaming" # "requested", Zenon
       DEF Left
  <2>6. Len(chan[c]) \in Nat /\ Len(wire[c]) \in Nat
    BY LeftTypes
  <2> QED
    BY <2>5, <2>6, WeightMoves, Zenon
<1>4. CASE Take(c)
  <2>1. /\ hand[c] = <<>> /\ chan[c] # <<>> /\ phase'[c] = phase[c]
        /\ chan'[c] = Tail(chan[c]) /\ hand'[c] = <<Head(chan[c])>>
        /\ wire'[c] = wire[c]
    BY <1>4, Zenon DEF Take, TypeOK
  <2>2. Len(hand[c]) = 0 /\ Len(hand'[c]) = 1
    BY <2>1, SMTT(40)
  <2>3. Len(chan'[c]) = Len(chan[c]) - 1
    BY <1>0, <2>1, TailFacts, Zenon
  <2>4. phase[c] = "streaming" /\ phase'[c] = "streaming"
    BY <1>0, <2>1, Zenon
  <2>5. /\ Left(c) = Weight(Len(chan[c]), 0, Len(wire[c]))
        /\ Left(c)' = Weight(Len(chan[c]) - 1, 1, Len(wire[c]))
    BY <2>1, <2>2, <2>3, <2>4, "streaming" # "down", "streaming" # "requested", Zenon
       DEF Left
  <2>6. Len(chan[c]) \in Nat /\ Len(wire[c]) \in Nat /\ Len(chan[c]) # 0
    BY <2>1, LeftTypes
  <2> QED
    BY <2>5, <2>6, WeightMoves, Zenon
<1>5. CASE Recv(c)
  <2>1. /\ wire[c] # <<>> /\ wire'[c] = Tail(wire[c])
        /\ phase'[c] = phase[c] /\ chan'[c] = chan[c] /\ hand'[c] = hand[c]
    BY <1>5, Zenon DEF Recv, TypeOK
  <2>2. Len(wire'[c]) = Len(wire[c]) - 1
    BY <1>0, <2>1, TailFacts, Zenon
  <2>3. phase[c] = "streaming" /\ phase'[c] = "streaming"
    BY <1>0, <2>1, Zenon
  <2> QED
    BY <2>1, <2>2, <2>3, LeftTypes, WeightFacts, "streaming" # "down",
       "streaming" # "requested", Zenon DEF Left
<1> QED
  BY <1>1, <1>2, <1>3, <1>4, <1>5, Zenon DEF Stream

(* Every step of a stream handler or its client brings that client closer   *)
(* to having received everything and delays no other client, so between two *)
(* publications or failures a stream takes at most Left(c) steps            *)
(* (streamGeneration, Stream*Rules).                                        *)
THEOREM DeliveriesAdvance ==
    Spec => [][\A c \in Clients : Stream(c) =>
                  /\ Left(c)' < Left(c)
                  /\ \A d \in Clients \ {c} : Left(d)' = Left(d)]_vars
<1>1. TypeOK => [\A c \in Clients : Stream(c) =>
                    /\ Left(c)' < Left(c)
                    /\ \A d \in Clients \ {c} : Left(d)' = Left(d)]_vars
  BY LeftFalls, LeftOthers, Zenon
<1> QED
  BY <1>1, TypeCorrect, PTL DEF Spec

(* A delivery is never stuck: while the client has not received everything  *)
(* the guard of one of its steps holds, whoever holds the other streams up, *)
(* and when nothing is left it is subscribed, has nothing on its way and,   *)
(* with no unrepaired loss, holds the server's rules.                       *)
THEOREM DeliveriesNeverStuck ==
    Spec => [](\A c \in Clients :
                  IF Left(c) = 0
                  THEN /\ phase[c] = "streaming" /\ Pending(c) = <<>>
                       /\ ~gap[c] => local[c] = rules
                  ELSE Steppable(c))
<1>1. TypeOK /\ DrainedIsCurrent
      => \A c \in Clients :
            IF Left(c) = 0
            THEN /\ phase[c] = "streaming" /\ Pending(c) = <<>>
                 /\ ~gap[c] => local[c] = rules
            ELSE Steppable(c)
  <2> SUFFICES ASSUME TypeOK, DrainedIsCurrent, NEW c \in Clients
               PROVE  IF Left(c) = 0
                      THEN /\ phase[c] = "streaming" /\ Pending(c) = <<>>
                           /\ ~gap[c] => local[c] = rules
                      ELSE Steppable(c)
    BY Zenon
  <2>0. phase[c] \in Phases /\ Len(wire[c]) <= WireCap
    BY Zenon DEF TypeOK
  <2>1. CASE Left(c) = 0
    <3>1. phase[c] = "streaming"
      BY <2>0, <2>1, 3 # 0, 4 # 0, Zenon DEF Left, Phases
    <3>2. chan[c] = <<>> /\ hand[c] = <<>> /\ wire[c] = <<>>
      <4>1. Weight(Len(chan[c]), Len(hand[c]), Len(wire[c])) = 0
        BY <2>1, <3>1, "streaming" # "down", "streaming" # "requested", Zenon DEF Left
      <4>2. Len(chan[c]) \in Nat /\ Len(hand[c]) \in Nat /\ Len(wire[c]) \in Nat
        BY LeftTypes
      <4>3. Len(chan[c]) = 0 /\ Len(hand[c]) = 0 /\ Len(wire[c]) = 0
        BY <4>1, <4>2, WeightFacts, Zenon
      <4> QED
        BY <4>3, LeftTypes, Zenon
    <3>3. Pending(c) = <<>>
      BY <3>2, SMTT(40) DEF Pending
    <3> QED
      BY <2>1, <3>1, <3>3, Zenon DEF DrainedIsCurrent
  <2>2. CASE Left(c) # 0
    <3>1. CASE phase[c] = "streaming" /\ wire[c] = <<>>
      <4>1. Len(wire[c]) < WireCap
        BY <3>1, LeftTypes, BoundsAssumption, SMTT(40)
      <4>2. chan[c] # <<>> \/ hand[c] # <<>>
        BY <2>2, <3>1, LeftTypes, WeightFacts, "streaming" # "down",
           "streaming" # "requested", Zenon DEF Left
      <4> QED
        BY <2>2, <4>1, <4>2, Zenon DEF Steppable
    <3> QED
      BY <2>0, <2>2, <3>1, Zenon DEF Steppable, Phases
  <2> QED
    BY <2>1, <2>2
<1> QED
  BY <1>1, TypeCorrect, DrainedSafe, PTL

=============================================================================
