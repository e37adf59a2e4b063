-------------------------- MODULE RuleClient_proofs --------------------------
(***************************************************************************)
(* Proofs about the ext-auth rule client, for any number of connections,   *)
(* controllers, publications and faults: the state is well typed, a        *)
(* drained stream has the rules of its controller, and only a leftover of  *)
(* a closed connection takes a setter back to an older set.                *)
(***************************************************************************)
EXTENDS RuleClient, TLAPS

(* Facts about the sequence of publications a stream has not handed over. *)
Sorted(q) == \A i, j \in 1 .. Len(q) : i <= j => q[i] <= q[j]
AtMost(q, n) == \A i \in 1 .. Len(q) : q[i] <= n
AtLeast(q, n) == \A i \in 1 .. Len(q) : n <= q[i]
Precedes(q, r) == \A i \in 1 .. Len(q), j \in 1 .. Len(r) : q[i] <= r[j]
Ends(q, n) == q # <<>> /\ q[Len(q)] = n

Streams ==
    [st : {"off", "opening", "streaming", "leftover"}, proc : 0 .. MaxController, inbox : Seq(Nat)]

Types ==
    /\ setters \in SUBSET Kinds /\ setters # {}
    /\ ctxDone \in BOOLEAN
    /\ run \in {"connect", "select", "backoff", "returned"}
    /\ cur \in Slots
    /\ stream \in [Slots -> [Kinds -> Streams]]
    /\ errCh \in [Slots -> 0 .. ErrChCap]
    /\ applied \in [Kinds -> Nat]
    /\ controller \in [Controllers -> {"new", "serving", "draining", "gone"}]
    /\ rules \in [Controllers -> [Kinds -> Nat]]
    /\ published \in Nat
    /\ overtaken \in SUBSET Kinds

(* Controllers start one after the other, and only the newest serves.       *)
Generation(n) ==
    /\ n \in Controllers
    /\ \A q \in Controllers : controller[q] # "new" <=> q <= n
    /\ \A q \in Controllers : controller[q] = "serving" => q = n

(* The newest controller holds the newest publication of every kind.        *)
ControllerInv ==
    /\ Generation(Newest)
    /\ 1 <= published /\ published <= MaxPublished + Newest
    /\ \A q \in Controllers, k \in Kinds :
          rules[q][k] <= rules[Newest][k] /\ rules[q][k] <= published

(* A stream that is up belongs to the connection Run waits for, and to a    *)
(* controller that has been started.                                        *)
StreamInv(c, k) ==
    LET s == stream[c][k]
    IN  /\ s # Off => k \in setters
        /\ s.st = "off" => s = Off
        /\ s.inbox # <<>> => s.st \in {"streaming", "leftover"}
        /\ s.st \in {"opening", "streaming"} => run = "select" /\ c = cur
        /\ s.st = "streaming" => s.proc \in Controllers /\ controller[s.proc] # "new"

(* What a stream hands over last is what its controller holds.              *)
LatestInv(c, k) ==
    LET s == stream[c][k]
    IN  s.st = "streaming" =>
           \/ Ends(s.inbox, rules[s.proc][k])
           \/ s.inbox = <<>> /\ (k \in overtaken \/ applied[k] = rules[s.proc][k])

(* Nothing is newer than the rules of the newest controller.                *)
AgeInv(k) ==
    /\ applied[k] <= rules[Newest][k]
    /\ \A c \in Slots : AtMost(stream[c][k].inbox, rules[Newest][k])

(* A stream hands over its messages oldest first.  One that is up goes on   *)
(* from what the setter has, and no leftover has anything newer; without a  *)
(* second kind of stream a leftover goes on from there too.                 *)
OrderInv(c, k) ==
    LET s == stream[c][k]
    IN  /\ Sorted(s.inbox)
        /\ s.st = "streaming" \/ setters # Kinds => AtLeast(s.inbox, applied[k])
        /\ s.st = "streaming" =>
              \A d \in Slots : stream[d][k].st = "leftover" => Precedes(stream[d][k].inbox, s.inbox)

(* With one setter, connect does not return before its only stream has      *)
(* ended, unless the process is told to stop: no leftover meets a new       *)
(* connection.                                                              *)
SingleInv ==
    setters # Kinds =>
        /\ \A c \in Slots, k \in Kinds :
              stream[c][k] # Off => c = cur /\ run \in {"select", "returned"}
        /\ \A c \in Slots : errCh[c] > 0 => Finished(c) /\ c = cur /\ run = "select"

IInv ==
    /\ Types
    /\ run = "returned" => ctxDone
    /\ ControllerInv
    /\ \A c \in Slots, k \in Kinds : StreamInv(c, k) /\ LatestInv(c, k) /\ OrderInv(c, k)
    /\ \A k \in Kinds : AgeInv(k)
    /\ SingleInv

(* Most leaves are first-order and go to Zenon; the ones that need the SMT *)
(* solver name it.                                                         *)
USE Zenon

-----------------------------------------------------------------------------
(* Sequences of publications.                                              *)

LEMMA EmptyFacts ==
    ASSUME NEW n \in Nat, NEW q \in Seq(Nat)
    PROVE  /\ Sorted(<<>>) /\ AtMost(<<>>, n) /\ AtLeast(<<>>, n)
           /\ Precedes(<<>>, q) /\ Precedes(q, <<>>) /\ ~Ends(<<>>, n)
BY SMTT(40) DEF Sorted, AtMost, AtLeast, Precedes, Ends

LEMMA SingletonFacts ==
    ASSUME NEW n \in Nat
    PROVE  /\ <<n>> \in Seq(Nat) /\ <<n>> # <<>>
           /\ Sorted(<<n>>) /\ AtMost(<<n>>, n) /\ Ends(<<n>>, n)
           /\ \A m \in Nat : m <= n => AtLeast(<<n>>, m)
           /\ \A q \in Seq(Nat) : AtMost(q, n) => Precedes(q, <<n>>)
BY SMTT(40) DEF Sorted, AtMost, AtLeast, Precedes, Ends

LEMMA AppendFacts ==
    ASSUME NEW q \in Seq(Nat), NEW m \in Nat, NEW n \in Nat, m <= n, Sorted(q), AtMost(q, m)
    PROVE  /\ Append(q, n) \in Seq(Nat) /\ Append(q, n) # <<>>
           /\ Sorted(Append(q, n)) /\ AtMost(Append(q, n), n) /\ Ends(Append(q, n), n)
           /\ \A l \in Nat : l <= n /\ AtLeast(q, l) => AtLeast(Append(q, n), l)
           /\ \A r \in Seq(Nat) : AtMost(r, m) /\ Precedes(r, q) => Precedes(r, Append(q, n))
BY SMTT(40) DEF Sorted, AtMost, AtLeast, Precedes, Ends

LEMMA EmptySeq ==
    ASSUME NEW q \in Seq(Nat)
    PROVE  q = <<>> <=> Len(q) = 0
BY SMTT(40)

LEMMA TailFacts ==
    ASSUME NEW q \in Seq(Nat), q # <<>>, Sorted(q)
    PROVE  /\ Head(q) \in Nat /\ Tail(q) \in Seq(Nat)
           /\ Sorted(Tail(q)) /\ AtLeast(Tail(q), Head(q))
           /\ \A n \in Nat : AtMost(q, n) => AtMost(Tail(q), n) /\ Head(q) <= n
           /\ \A n \in Nat : AtLeast(q, n) => n <= Head(q)
           /\ \A r \in Seq(Nat) : Precedes(r, q) => Precedes(r, Tail(q))
           /\ \A r \in Seq(Nat) : Precedes(q, r) => Precedes(Tail(q), r) /\ AtLeast(r, Head(q))
           /\ \A n \in Nat : Ends(q, n) => Ends(Tail(q), n) \/ (Tail(q) = <<>> /\ Head(q) = n)
<1>1. /\ Len(q) \in Nat \ {0} /\ Head(q) = q[1] /\ Head(q) \in Nat /\ Tail(q) \in Seq(Nat)
      /\ Len(Tail(q)) = Len(q) - 1 /\ \A i \in 1 .. Len(Tail(q)) : Tail(q)[i] = q[i + 1]
      /\ \A i \in 1 .. Len(q) : q[i] \in Nat
  BY SMTT(40)
<1>2. Sorted(Tail(q)) /\ AtLeast(Tail(q), Head(q))
  BY <1>1, SMTT(40) DEF Sorted, AtLeast
<1>3. /\ \A n \in Nat : AtMost(q, n) => AtMost(Tail(q), n) /\ Head(q) <= n
      /\ \A n \in Nat : AtLeast(q, n) => n <= Head(q)
  BY <1>1, SMTT(40) DEF AtMost, AtLeast
<1>4. /\ \A r \in Seq(Nat) : Precedes(r, q) => Precedes(r, Tail(q))
      /\ \A r \in Seq(Nat) : Precedes(q, r) => Precedes(Tail(q), r) /\ AtLeast(r, Head(q))
  BY <1>1, SMTT(40) DEF Precedes, AtLeast
<1>5. \A n \in Nat : Ends(q, n) => Ends(Tail(q), n) \/ (Tail(q) = <<>> /\ Head(q) = n)
  <2> SUFFICES ASSUME NEW n \in Nat, q[Len(q)] = n
               PROVE  Ends(Tail(q), n) \/ (Tail(q) = <<>> /\ Head(q) = n)
    BY DEF Ends
  <2>1. CASE Len(q) = 1
    <3>1. Len(Tail(q)) = 0 /\ Head(q) = n
      BY <1>1, <2>1, SMTT(40)
    <3> QED
      BY <1>1, <3>1, EmptySeq
  <2>2. CASE Len(q) > 1
    <3>1. Len(Tail(q)) \in 1 .. Len(Tail(q)) /\ Len(Tail(q)) + 1 = Len(q) /\ Len(Tail(q)) # 0
      BY <1>1, <2>2, SMTT(40)
    <3>2. Tail(q)[Len(Tail(q))] = n
      BY <1>1, <3>1
    <3>3. Tail(q) # <<>>
      BY <1>1, <3>1, EmptySeq
    <3> QED
      BY <3>2, <3>3 DEF Ends
  <2> QED
    BY <1>1, <2>1, <2>2, SMTT(40)
<1> QED
  BY <1>1, <1>2, <1>3, <1>4, <1>5

LEMMA Weaken ==
    ASSUME NEW q \in Seq(Nat), NEW m \in Nat, NEW n \in Nat, m <= n, AtMost(q, m)
    PROVE  AtMost(q, n)
BY SMTT(40) DEF AtMost

-----------------------------------------------------------------------------
(* Streams and controllers.                                                *)

LEMMA OffFacts ==
    /\ Off \in Streams /\ Opening \in Streams /\ Off # Opening
    /\ Off.st = "off" /\ Off.proc = 0 /\ Off.inbox = <<>>
    /\ Opening.st = "opening" /\ Opening.proc = 0 /\ Opening.inbox = <<>>
<1>1. 0 \in 0 .. MaxController /\ <<>> \in Seq(Nat)
  BY ClientBoundsAssumption, SMTT(40)
<1>2. Opening = [st |-> "opening", proc |-> 0, inbox |-> <<>>]
  BY SMTT(40) DEF Off, Opening
<1>3. Off \in Streams /\ Off.st = "off" /\ Off.proc = 0 /\ Off.inbox = <<>>
  BY <1>1, SMTT(40) DEF Off, Streams
<1>4. /\ Opening \in Streams
      /\ Opening.st = "opening" /\ Opening.proc = 0 /\ Opening.inbox = <<>>
  BY <1>1, <1>2, SMTT(40) DEF Streams
<1>5. Off # Opening
  <2>1. "off" # "opening"
    BY SMTT(40)
  <2> QED
    BY <1>3, <1>4, <2>1
<1> QED
  BY <1>3, <1>4, <1>5

LEMMA LeftoverFacts ==
    ASSUME NEW s \in Streams
    PROVE  /\ Leftover(s) \in Streams /\ Leftover(Off) = Off
           /\ s # Off => Leftover(s).st = "leftover" /\ Leftover(s).inbox = s.inbox /\ Leftover(s) # Off
BY ClientBoundsAssumption, SMTT(40) DEF Off, Leftover, Streams

LEMMA InboxFacts ==
    ASSUME NEW s \in Streams, NEW q \in Seq(Nat)
    PROVE  /\ [s EXCEPT !.inbox = q] \in Streams
           /\ [s EXCEPT !.inbox = q].st = s.st
           /\ [s EXCEPT !.inbox = q].proc = s.proc
           /\ [s EXCEPT !.inbox = q].inbox = q
BY SMTT(40) DEF Streams

LEMMA NewestIs ==
    ASSUME NEW n \in Controllers, \A q \in Controllers : controller[q] # "new" <=> q <= n
    PROVE  Newest = n
<1>1. controller[n] # "new"
  BY ClientBoundsAssumption, SMTT(40) DEF Controllers
<1>2. \A q \in Controllers : controller[q] # "new" => q <= n
  OBVIOUS
<1>3. \A p \in Controllers : controller[p] # "new" /\ (\A q \in Controllers : controller[q] # "new" => q <= p) => p = n
  BY <1>1, ClientBoundsAssumption, SMTT(40) DEF Controllers
<1> QED
  BY <1>1, <1>2, <1>3 DEF Newest

LEMMA FinishedIs ==
    Types => \A c \in Slots : Finished(c) <=> \A k \in Kinds : stream[c][k] = Off
BY SMTT(40) DEF Types, Finished

LEMMA FinishedNext ==
    Types' => \A c \in Slots : Finished(c)' <=> \A k \in Kinds : stream'[c][k] = Off
<1>1. (Types => \A c \in Slots : Finished(c) <=> \A k \in Kinds : stream[c][k] = Off)'
  BY FinishedIs, PTL
<1> QED
  BY <1>1

LEMMA OneKind ==
    ASSUME NEW K \in SUBSET Kinds, K # Kinds, NEW k \in K, NEW j \in Kinds, j # k
    PROVE  j \notin K
<1>1. SUFFICES ASSUME j \in K PROVE FALSE
  OBVIOUS
<1>2. \A i \in Kinds : i = j \/ i = k
  BY SMTT(40) DEF Kinds
<1> QED
  BY <1>1, <1>2

(* What the invariant says about one stream.                                *)
LEMMA OneStream ==
    ASSUME IInv, NEW c \in Slots, NEW k \in Kinds
    PROVE  /\ stream[c][k] \in Streams /\ stream[c][k].inbox \in Seq(Nat)
           /\ applied[k] \in Nat /\ rules[Newest][k] \in Nat /\ published \in Nat
           /\ StreamInv(c, k) /\ LatestInv(c, k) /\ OrderInv(c, k) /\ AgeInv(k)
           /\ rules[Newest][k] <= published
<1>1. stream[c][k] \in Streams /\ applied[k] \in Nat /\ published \in Nat
  BY SMTT(40) DEF IInv, Types
<1>2. stream[c][k].inbox \in Seq(Nat)
  BY <1>1, SMTT(40) DEF Streams
<1>3. Newest \in Controllers
  BY DEF IInv, ControllerInv, Generation
<1>4. rules[Newest][k] \in Nat
  BY <1>3, SMTT(40) DEF IInv, Types
<1>5. StreamInv(c, k) /\ LatestInv(c, k) /\ OrderInv(c, k) /\ AgeInv(k) /\ rules[Newest][k] <= published
  BY <1>3 DEF IInv, ControllerInv
<1> QED
  BY <1>1, <1>2, <1>4, <1>5

LEMMA SameControllers ==
    ASSUME IInv, UNCHANGED controllerVars
    PROVE  ControllerInv' /\ Newest' = Newest /\ rules' = rules /\ controller' = controller /\ published' = published
BY DEF IInv, ControllerInv, Generation, Newest, controllerVars

-----------------------------------------------------------------------------
(* A message is handed to the setter.                                      *)

LEMMA RecvStep ==
    ASSUME IInv, NEW c \in Slots, NEW k \in Kinds, Recv(c, k)
    PROVE  IInv'
<1> DEFINE s == stream[c][k]
           t == [s EXCEPT !.inbox = Tail(@)]
<1>1. /\ s \in Streams /\ s.inbox \in Seq(Nat) /\ s.inbox # <<>> /\ Sorted(s.inbox)
      /\ s.st \in {"streaming", "leftover"} /\ s # Off
  BY OneStream, OffFacts DEF Recv, StreamInv, OrderInv
<1>2. t \in Streams /\ t.st = s.st /\ t.proc = s.proc /\ t.inbox = Tail(s.inbox) /\ t # Off
  <2>1. Tail(s.inbox) \in Seq(Nat)
    BY <1>1, TailFacts
  <2>2. t \in Streams /\ t.st = s.st /\ t.proc = s.proc /\ t.inbox = Tail(s.inbox)
    BY <1>1, <2>1, InboxFacts
  <2>3. s.st # "off"
    BY <1>1, SMTT(40)
  <2> QED
    BY <2>2, <2>3, OffFacts
<1>3. /\ stream' \in [Slots -> [Kinds -> Streams]] /\ stream'[c][k] = t
      /\ \A d \in Slots : d # c => stream'[d] = stream[d]
      /\ \A d \in Slots, j \in Kinds : d # c \/ j # k => stream'[d][j] = stream[d][j]
  <2>1. stream' = [stream EXCEPT ![c] = [stream[c] EXCEPT ![k] = t]]
    BY SMTT(40) DEF Recv, IInv, Types
  <2> HIDE DEF t
  <2> QED
    BY <1>2, <2>1, SMTT(40) DEF IInv, Types
<1>4. /\ Head(s.inbox) \in Nat /\ applied' \in [Kinds -> Nat] /\ applied'[k] = Head(s.inbox)
      /\ \A j \in Kinds : j # k => applied'[j] = applied[j]
  <2>1. Head(s.inbox) \in Nat
    BY <1>1, TailFacts
  <2>2. applied' = [applied EXCEPT ![k] = Head(s.inbox)]
    BY DEF Recv
  <2> QED
    BY <2>1, <2>2, SMTT(40) DEF IInv, Types
<1>5. /\ UNCHANGED <<setters, ctxDone, run, cur, errCh, controller, rules, published>>
      /\ UNCHANGED controllerVars
  BY DEF Recv, clientVars, controllerVars
<1>6. /\ \A j \in Kinds : j # k => (j \in overtaken' <=> j \in overtaken)
      /\ overtaken' \in SUBSET Kinds
      /\ s.st = "leftover" => k \in overtaken'
  BY SMTT(40) DEF Recv, IInv, Types
<1> HIDE DEF s, t
<1>7. ControllerInv' /\ Newest' = Newest
  BY <1>5, SameControllers
<1>8. Types'
  BY <1>3, <1>4, <1>5, <1>6 DEF IInv, Types
<1>9. ASSUME NEW d \in Slots, NEW j \in Kinds PROVE StreamInv(d, j)'
  <2>1. StreamInv(d, j)
    BY OneStream
  <2>2. CASE d # c \/ j # k
    BY <1>3, <1>5, <2>1, <2>2 DEF StreamInv
  <2>3. CASE d = c /\ j = k
    <3>1. stream[d][j] = s /\ stream'[d][j] = t /\ s.st # "off"
      BY <1>1, <1>3, <2>3, SMTT(40) DEF s
    <3> QED
      BY <1>1, <1>2, <1>5, <2>1, <3>1 DEF StreamInv
  <2> QED
    BY <2>2, <2>3
<1>10. ASSUME NEW d \in Slots, NEW j \in Kinds PROVE LatestInv(d, j)'
  <2>1. LatestInv(d, j) /\ StreamInv(d, j) /\ StreamInv(c, k) /\ OrderInv(c, k)
    BY OneStream
  <2>2. CASE j # k
    BY <1>3, <1>4, <1>5, <1>6, <2>1, <2>2 DEF LatestInv
  <2>3. CASE j = k /\ d # c
    <3> SUFFICES ASSUME stream[d][k].st = "streaming"
                 PROVE  LatestInv(d, k)'
      BY <1>3, <2>3 DEF LatestInv
    <3>1. s.st = "leftover"
      BY <1>1, <2>1, <2>3 DEF StreamInv, s
    <3> QED
      BY <1>3, <1>5, <1>6, <2>1, <2>3, <3>1 DEF LatestInv
  <2>4. CASE j = k /\ d = c
    <3> SUFFICES ASSUME s.st = "streaming"
                 PROVE  LatestInv(c, k)'
      BY <1>2, <1>3, <2>4 DEF LatestInv
    <3>1. rules[s.proc][k] \in Nat /\ Ends(s.inbox, rules[s.proc][k])
      <4>1. s.proc \in Controllers
        BY <2>1 DEF StreamInv, s
      <4>2. rules[s.proc][k] \in Nat
        BY <4>1, SMTT(40) DEF IInv, Types
      <4> QED
        BY <1>1, <2>1, <2>4, <4>2 DEF LatestInv, s
    <3>2. Ends(Tail(s.inbox), rules[s.proc][k]) \/ (Tail(s.inbox) = <<>> /\ Head(s.inbox) = rules[s.proc][k])
      BY <1>1, <3>1, TailFacts
    <3> QED
      BY <1>2, <1>3, <1>4, <1>5, <3>2 DEF LatestInv
  <2> QED
    BY <2>2, <2>3, <2>4
<1>11. ASSUME NEW d \in Slots, NEW j \in Kinds PROVE OrderInv(d, j)'
  <2> DEFINE r == stream[d][j].inbox
  <2>1. /\ OrderInv(d, j) /\ StreamInv(d, j) /\ StreamInv(c, k) /\ OrderInv(c, k)
        /\ r \in Seq(Nat) /\ applied[k] \in Nat
    BY OneStream
  <2>2. CASE j # k
    BY <1>3, <1>4, <1>5, <2>1, <2>2 DEF OrderInv
  <2>3. CASE j = k /\ d # c
    <3>1. stream'[d][k] = stream[d][k]
      BY <1>3, <2>3
    <3>2. ASSUME stream[d][k].st = "streaming"
          PROVE  /\ AtLeast(r, Head(s.inbox))
                 /\ \A e \in Slots : stream'[e][k].st = "leftover" => Precedes(stream'[e][k].inbox, r)
      <4>1. s.st = "leftover"
        BY <1>1, <2>1, <2>3, <3>2 DEF StreamInv, s
      <4>2. Precedes(s.inbox, r)
        BY <2>1, <2>3, <3>2, <4>1 DEF OrderInv, s
      <4>3. AtLeast(r, Head(s.inbox)) /\ Precedes(Tail(s.inbox), r)
        BY <1>1, <2>1, <4>2, TailFacts
      <4> QED
        BY <1>2, <1>3, <2>1, <2>3, <3>2, <4>3 DEF OrderInv
    <3>3. ASSUME setters # Kinds PROVE AtLeast(r, Head(s.inbox))
      <4>1. stream[d][k] = Off
        BY <1>1, <2>3, <3>3 DEF IInv, SingleInv, s
      <4> QED
        BY <1>4, <2>1, <2>3, <4>1, OffFacts, EmptyFacts
    <3> QED
      BY <1>4, <1>5, <2>1, <2>3, <3>1, <3>2, <3>3 DEF OrderInv
  <2>4. CASE j = k /\ d = c
    <3>1. Sorted(Tail(s.inbox)) /\ AtLeast(Tail(s.inbox), Head(s.inbox))
      BY <1>1, TailFacts
    <3>2. ASSUME s.st = "streaming", NEW e \in Slots, stream'[e][k].st = "leftover"
          PROVE  Precedes(stream'[e][k].inbox, Tail(s.inbox))
      <4>1. e # c
        BY <1>2, <1>3, <3>2, SMTT(40)
      <4>2. stream'[e][k] = stream[e][k] /\ stream[e][k].inbox \in Seq(Nat)
        BY <1>3, <4>1, OneStream
      <4>3. Precedes(stream[e][k].inbox, s.inbox)
        BY <2>1, <3>2, <4>2 DEF OrderInv, s
      <4> QED
        BY <1>1, <4>2, <4>3, TailFacts
    <3> QED
      BY <1>2, <1>3, <1>4, <2>4, <3>1, <3>2 DEF OrderInv
  <2> QED
    BY <2>2, <2>3, <2>4
<1>12. ASSUME NEW j \in Kinds PROVE AgeInv(j)'
  <2>1. AgeInv(j) /\ AgeInv(k) /\ rules[Newest][k] \in Nat
    BY OneStream
  <2>2. CASE j # k
    BY <1>3, <1>4, <1>5, <1>7, <2>1, <2>2 DEF AgeInv
  <2>3. CASE j = k
    <3>1. AtMost(Tail(s.inbox), rules[Newest][k]) /\ Head(s.inbox) <= rules[Newest][k]
      <4>1. AtMost(s.inbox, rules[Newest][k])
        BY <2>1 DEF AgeInv, s
      <4> QED
        BY <1>1, <2>1, <4>1, TailFacts
    <3>2. ASSUME NEW d \in Slots PROVE AtMost(stream'[d][k].inbox, rules[Newest][k])
      BY <1>2, <1>3, <2>1, <3>1 DEF AgeInv
    <3> QED
      BY <1>4, <1>5, <1>7, <2>3, <3>1, <3>2 DEF AgeInv
  <2> QED
    BY <2>2, <2>3
<1>13. SingleInv'
  <2>1. \A d \in Slots, j \in Kinds : stream'[d][j] # Off <=> stream[d][j] # Off
    BY <1>1, <1>2, <1>3 DEF s
  <2>2. \A d \in Slots : Finished(d)' <=> Finished(d)
    BY <1>8, <2>1, FinishedIs, FinishedNext DEF IInv
  <2> QED
    BY <1>5, <2>1, <2>2 DEF IInv, SingleInv
<1> QED
  BY <1>5, <1>7, <1>8, <1>9, <1>10, <1>11, <1>12, <1>13 DEF IInv

-----------------------------------------------------------------------------
(* A stream ends.                                                          *)

LEMMA FailStep ==
    ASSUME IInv, NEW c \in Slots, NEW k \in Kinds, NEW faulty \in BOOLEAN, Fail(c, k, faulty)
    PROVE  IInv'
<1>1. /\ stream' \in [Slots -> [Kinds -> Streams]] /\ stream'[c][k] = Off
      /\ \A d \in Slots : d # c => stream'[d] = stream[d]
      /\ \A d \in Slots, j \in Kinds : d # c \/ j # k => stream'[d][j] = stream[d][j]
  <2>1. stream' = [stream EXCEPT ![c] = [stream[c] EXCEPT ![k] = Off]]
    BY SMTT(40) DEF Fail, IInv, Types
  <2> QED
    BY <2>1, OffFacts, SMTT(40) DEF IInv, Types
<1>2. /\ errCh' \in [Slots -> 0 .. ErrChCap]
      /\ \A d \in Slots : d # c => errCh'[d] = errCh[d]
      /\ Last(c, k) => errCh'[c] = 0
  BY SMTT(40) DEF Fail, IInv, Types, ErrChCap
<1>3. /\ UNCHANGED <<setters, ctxDone, run, cur, applied, overtaken, controller, rules, published>>
      /\ UNCHANGED controllerVars
  BY DEF Fail, controllerVars
<1>4. ControllerInv' /\ Newest' = Newest
  BY <1>3, SameControllers
<1>5. Types'
  BY <1>1, <1>2, <1>3 DEF IInv, Types
<1>6. /\ Off.st # "opening" /\ Off.st # "streaming" /\ Off.st # "leftover"
      /\ Off.inbox = <<>>
  BY OffFacts, SMTT(40)
<1>7. ASSUME NEW d \in Slots, NEW j \in Kinds PROVE StreamInv(d, j)' /\ LatestInv(d, j)'
  <2>1. LatestInv(d, j) /\ StreamInv(d, j)
    BY OneStream
  <2>2. CASE d # c \/ j # k
    <3>1. stream'[d][j] = stream[d][j]
      BY <1>1, <2>2
    <3> QED
      BY <1>3, <2>1, <3>1 DEF StreamInv, LatestInv
  <2>3. CASE d = c /\ j = k
    BY <1>1, <1>6, <2>3 DEF StreamInv, LatestInv
  <2> QED
    BY <2>2, <2>3
<1>8. ASSUME NEW d \in Slots, NEW j \in Kinds PROVE OrderInv(d, j)'
  <2>1. OrderInv(d, j) /\ applied[j] \in Nat /\ stream[d][j].inbox \in Seq(Nat)
    BY OneStream
  <2>2. CASE d = c /\ j = k
    BY <1>1, <1>3, <1>6, <2>1, <2>2, EmptyFacts DEF OrderInv
  <2>3. CASE d # c \/ j # k
    <3>1. stream'[d][j] = stream[d][j]
      BY <1>1, <2>3
    <3>2. \A e \in Slots : stream'[e][j].st = "leftover" => stream'[e][j] = stream[e][j]
      BY <1>1, <1>6
    <3> QED
      BY <1>3, <2>1, <3>1, <3>2 DEF OrderInv
  <2> QED
    BY <2>2, <2>3
<1>9. ASSUME NEW j \in Kinds PROVE AgeInv(j)'
  <2>1. AgeInv(j)
    BY DEF IInv
  <2>2. ASSUME NEW d \in Slots PROVE AtMost(stream'[d][j].inbox, rules[Newest][j])
    <3>1. rules[Newest][j] \in Nat /\ stream[d][j].inbox \in Seq(Nat)
      BY OneStream
    <3>2. AtMost(<<>>, rules[Newest][j])
      BY <3>1, EmptyFacts
    <3> QED
      BY <1>1, <1>6, <2>1, <3>2 DEF AgeInv
  <2> QED
    BY <1>3, <1>4, <2>1, <2>2 DEF AgeInv
<1>10. SingleInv'
  <2> SUFFICES ASSUME setters # Kinds
               PROVE  /\ \A d \in Slots, j \in Kinds :
                            stream'[d][j] # Off => d = cur /\ run \in {"select", "returned"}
                      /\ \A d \in Slots : errCh'[d] > 0 => Finished(d)' /\ d = cur /\ run = "select"
    BY <1>3 DEF SingleInv
  <2>1. /\ \A d \in Slots, j \in Kinds : stream[d][j] # Off => d = cur /\ run \in {"select", "returned"}
        /\ \A d \in Slots : errCh[d] > 0 => Finished(d) /\ d = cur /\ run = "select"
    BY DEF IInv, SingleInv
  <2>2. \A j \in Kinds : j # k => stream[c][j] = Off
    <3>1. \A j \in Kinds : stream[c][j] # Off => j \in setters
      BY OneStream DEF StreamInv
    <3>2. k \in setters
      BY <3>1 DEF Fail
    <3>3. \A j \in Kinds : j # k => j \notin setters
      BY <3>2, OneKind DEF IInv, Types
    <3> QED
      BY <3>1, <3>3
  <2>3. stream[c][k] # Off /\ c = cur /\ run \in {"select", "returned"}
    BY <2>1 DEF Fail
  <2>4. ASSUME NEW d \in Slots, errCh'[d] > 0 PROVE Finished(d)' /\ d = cur /\ run = "select"
    <3>1. CASE d # c
      BY <1>1, <1>2, <2>1, <2>4, <3>1 DEF Finished
    <3>2. CASE d = c
      <4>1. Finished(c)'
        <5>0. /\ stream'[c][k] = Off
              /\ \A j \in Kinds : j # k => stream'[c][j] = stream[c][j]
          BY <1>1
        <5>1. \A j \in Kinds : stream'[c][j] = Off
          BY <5>0, <2>2, SMTT(40)
        <5> QED
          BY <1>5, <5>1, FinishedNext
      <4>2. ~Last(c, k)
        BY <1>2, <2>4, <3>2, SMTT(40)
      <4>3. stream[c][k].st # "leftover"
        BY <2>2, <4>2 DEF Last
      <4>4. stream[c][k].st \in {"opening", "streaming"}
        <5>1. stream[c][k] \in Streams /\ StreamInv(c, k)
          BY OneStream
        <5>2. stream[c][k].st \in {"off", "opening", "streaming", "leftover"}
          BY <5>1, SMTT(40) DEF Streams
        <5> QED
          BY <2>3, <4>3, <5>1, <5>2 DEF StreamInv
      <4>5. run = "select"
        BY <4>4, OneStream DEF StreamInv
      <4> QED
        BY <2>3, <3>2, <4>1, <4>5
    <3> QED
      BY <3>1, <3>2
  <2>5. \A d \in Slots, j \in Kinds : stream'[d][j] # Off => stream'[d][j] = stream[d][j]
    BY <1>1
  <2>6. \A d \in Slots, j \in Kinds : stream'[d][j] # Off => d = cur /\ run \in {"select", "returned"}
    BY <2>1, <2>5
  <2> QED
    BY <2>4, <2>6
<1> QED
  BY <1>3, <1>4, <1>5, <1>7, <1>8, <1>9, <1>10 DEF IInv

-----------------------------------------------------------------------------
(* A stream is opened.                                                     *)

LEMMA OpenStep ==
    ASSUME IInv, NEW c \in Slots, NEW k \in Kinds, Open(c, k)
    PROVE  IInv'
<1> DEFINE s == stream[c][k]
<1> PICK p \in Serving : stream' = [stream EXCEPT ![c][k] = [st |-> "streaming", proc |-> p,
                                                              inbox |-> <<rules[p][k]>>]]
  BY DEF Open
<1> DEFINE t == [st |-> "streaming", proc |-> p, inbox |-> <<rules[p][k]>>]
           n == rules[Newest][k]
<1>1. p \in Controllers /\ p = Newest /\ controller[p] # "new" /\ n \in Nat /\ <<n>> \in Seq(Nat)
  <2>1. p \in Controllers /\ controller[p] = "serving"
    BY DEF Serving
  <2>2. p = Newest
    BY <2>1 DEF IInv, ControllerInv, Generation
  <2>3. "serving" # "new"
    BY SMTT(40)
  <2> QED
    BY <2>1, <2>2, <2>3, OneStream, SingletonFacts
<1>2. t \in Streams /\ t.st = "streaming" /\ t.proc = p /\ t.inbox = <<n>>
  BY <1>1, SMTT(40) DEF Streams, Controllers
<1>3. /\ stream' \in [Slots -> [Kinds -> Streams]] /\ stream'[c][k] = t
      /\ \A d \in Slots : d # c => stream'[d] = stream[d]
      /\ \A d \in Slots, j \in Kinds : d # c \/ j # k => stream'[d][j] = stream[d][j]
  <2>1. stream' = [stream EXCEPT ![c] = [stream[c] EXCEPT ![k] = t]]
    BY SMTT(40) DEF IInv, Types
  <2> HIDE DEF t
  <2> QED
    BY <1>2, <2>1, SMTT(40) DEF IInv, Types
<1> HIDE DEF t, n
<1>4. /\ UNCHANGED <<setters, ctxDone, run, cur, errCh, applied, overtaken, controller, rules, published>>
      /\ UNCHANGED controllerVars
  BY DEF Open, controllerVars, clientVars
<1>5. ControllerInv' /\ Newest' = Newest
  BY <1>4, SameControllers
<1>6. Types'
  BY <1>3, <1>4 DEF IInv, Types
<1>7. s.st = "opening" /\ k \in setters /\ run = "select" /\ c = cur /\ s # Off
  <2>1. s.st = "opening" /\ "opening" # "off"
    BY SMTT(40) DEF Open
  <2> QED
    BY <2>1, OneStream, OffFacts DEF StreamInv
<1>8. t # Off /\ "streaming" # "off" /\ "streaming" # "leftover" /\ <<n>> # <<>>
  <2>1. "streaming" # "off" /\ "streaming" # "leftover"
    BY SMTT(40)
  <2> QED
    BY <1>1, <1>2, <2>1, OffFacts, SingletonFacts
<1>9. ASSUME NEW d \in Slots, NEW j \in Kinds PROVE StreamInv(d, j)' /\ LatestInv(d, j)'
  <2>1. LatestInv(d, j) /\ StreamInv(d, j)
    BY OneStream
  <2>2. CASE d # c \/ j # k
    BY <1>3, <1>4, <2>1, <2>2 DEF StreamInv, LatestInv
  <2>3. CASE d = c /\ j = k
    <3>1. Ends(<<n>>, n)
      BY <1>1, SingletonFacts
    <3>2. StreamInv(c, k)'
      BY <1>1, <1>2, <1>3, <1>4, <1>7, <1>8 DEF StreamInv
    <3>3. rules'[stream'[c][k].proc][k] = n
      BY <1>1, <1>2, <1>3, <1>4 DEF n
    <3>4. LatestInv(c, k)'
      <4>1. stream'[c][k].inbox = <<n>>
        BY <1>2, <1>3
      <4>2. Ends(stream'[c][k].inbox, rules'[stream'[c][k].proc][k])
        BY <3>1, <3>3, <4>1
      <4> QED
        BY <4>2 DEF LatestInv
    <3> QED
      BY <2>3, <3>2, <3>4
  <2> QED
    BY <2>2, <2>3
<1>10. ASSUME NEW d \in Slots, NEW j \in Kinds PROVE OrderInv(d, j)'
  <2>1. OrderInv(d, j)
    BY OneStream
  <2>2. CASE d = c /\ j = k
    <3>1. applied[k] \in Nat /\ applied[k] <= n
      BY OneStream DEF AgeInv, n
    <3>2. Sorted(<<n>>) /\ AtLeast(<<n>>, applied[k])
      BY <1>1, <3>1, SingletonFacts
    <3>3. ASSUME NEW e \in Slots, stream'[e][k].st = "leftover" PROVE Precedes(stream'[e][k].inbox, <<n>>)
      <4>1. stream'[e][k] = stream[e][k]
        BY <1>2, <1>3, <1>8, <3>3
      <4>2. stream[e][k].inbox \in Seq(Nat) /\ AtMost(stream[e][k].inbox, n)
        BY OneStream DEF AgeInv, n
      <4> QED
        BY <1>1, <4>1, <4>2, SingletonFacts
    <3>4. stream'[c][k].inbox = <<n>>
      BY <1>2, <1>3
    <3> QED
      BY <1>4, <2>2, <3>2, <3>3, <3>4 DEF OrderInv
  <2>3. CASE d # c \/ j # k
    <3>1. stream'[d][j] = stream[d][j]
      BY <1>3, <2>3
    <3>2. \A e \in Slots : stream'[e][j].st = "leftover" => stream'[e][j] = stream[e][j]
      BY <1>2, <1>3, <1>8
    <3> QED
      BY <1>4, <2>1, <3>1, <3>2 DEF OrderInv
  <2> QED
    BY <2>2, <2>3
<1>11. ASSUME NEW j \in Kinds PROVE AgeInv(j)'
  <2>1. AgeInv(j)
    BY DEF IInv
  <2>2. AtMost(<<n>>, n)
    BY <1>1, SingletonFacts
  <2>3. ASSUME NEW d \in Slots PROVE AtMost(stream'[d][j].inbox, rules[Newest][j])
    <3>1. CASE d = c /\ j = k
      BY <1>2, <1>3, <2>2, <3>1 DEF n
    <3>2. CASE d # c \/ j # k
      BY <1>3, <2>1, <3>2 DEF AgeInv
    <3> QED
      BY <3>1, <3>2
  <2> QED
    BY <1>4, <1>5, <2>1, <2>3 DEF AgeInv
<1>12. SingleInv'
  <2>1. \A d \in Slots, j \in Kinds : stream'[d][j] # Off <=> stream[d][j] # Off
    BY <1>3, <1>7, <1>8
  <2>2. \A d \in Slots : Finished(d)' <=> Finished(d)
    BY <1>6, <2>1, FinishedIs, FinishedNext DEF IInv
  <2> QED
    BY <1>4, <2>1, <2>2 DEF IInv, SingleInv
<1> QED
  BY <1>4, <1>5, <1>6, <1>9, <1>10, <1>11, <1>12 DEF IInv

-----------------------------------------------------------------------------
(* Run and connect.                                                        *)

LEMMA ConnectStep ==
    ASSUME IInv, NEW c \in Slots, Connect(c)
    PROVE  IInv'
<1> DEFINE T(k) == IF k \in setters THEN Opening ELSE Off
<1>1. /\ stream' \in [Slots -> [Kinds -> Streams]]
      /\ \A k \in Kinds : stream'[c][k] = T(k)
      /\ \A d \in Slots : d # c => stream'[d] = stream[d]
  <2>1. stream' = [stream EXCEPT ![c] = [k \in Kinds |-> T(k)]] /\ \A k \in Kinds : T(k) \in Streams
    BY OffFacts DEF Connect
  <2> HIDE DEF T
  <2> QED
    BY <2>1, SMTT(40) DEF IInv, Types
<1>2. /\ UNCHANGED <<setters, ctxDone, errCh, applied, overtaken, controller, rules, published>>
      /\ UNCHANGED controllerVars
      /\ run = "connect" /\ run' = "select" /\ cur' = c /\ Finished(c)
  BY DEF Connect, controllerVars
<1>3. ControllerInv' /\ Newest' = Newest
  BY <1>2, SameControllers
<1>4. Types'
  BY <1>1, <1>2 DEF IInv, Types
<1>5. /\ \A d \in Slots, k \in Kinds : stream[d][k].st # "opening" /\ stream[d][k].st # "streaming"
      /\ setters # Kinds => \A d \in Slots, k \in Kinds : stream[d][k] = Off
      /\ setters # Kinds => \A d \in Slots : ~(errCh[d] > 0)
  <2>1. run # "select" /\ run # "returned"
    BY <1>2, SMTT(40)
  <2> QED
    BY <2>1, OneStream DEF StreamInv, IInv, SingleInv
<1>6. \A k \in Kinds : /\ T(k).inbox = <<>> /\ T(k).st # "streaming" /\ T(k).st # "leftover"
                       /\ T(k) # Off => k \in setters
                       /\ T(k).st = "off" => T(k) = Off
  <2>1. "off" # "streaming" /\ "off" # "leftover" /\ "opening" # "streaming" /\ "opening" # "leftover" /\ "opening" # "off"
    BY SMTT(40)
  <2> QED
    BY <2>1, OffFacts
<1> HIDE DEF T
<1>7. ASSUME NEW d \in Slots, NEW k \in Kinds PROVE StreamInv(d, k)' /\ LatestInv(d, k)' /\ OrderInv(d, k)'
  <2>1. StreamInv(d, k) /\ OrderInv(d, k) /\ applied[k] \in Nat /\ stream[d][k].inbox \in Seq(Nat)
    BY OneStream
  <2>2. CASE d = c
    <3>1. stream'[d][k] = T(k)
      BY <1>1, <2>2
    <3>2. Sorted(<<>>) /\ AtLeast(<<>>, applied[k])
      BY <2>1, EmptyFacts
    <3>3. StreamInv(d, k)'
      BY <1>2, <1>6, <2>2, <3>1 DEF StreamInv
    <3>4. LatestInv(d, k)'
      BY <1>6, <3>1 DEF LatestInv
    <3>5. OrderInv(d, k)'
      BY <1>2, <1>6, <3>1, <3>2 DEF OrderInv
    <3> QED
      BY <3>3, <3>4, <3>5
  <2>3. CASE d # c
    <3>1. stream'[d][k] = stream[d][k]
      BY <1>1, <2>3
    <3>2. StreamInv(d, k)'
      BY <1>2, <1>5, <2>1, <3>1 DEF StreamInv
    <3>3. LatestInv(d, k)'
      BY <1>5, <3>1 DEF LatestInv
    <3>4. OrderInv(d, k)'
      BY <1>2, <1>5, <2>1, <3>1 DEF OrderInv
    <3> QED
      BY <3>2, <3>3, <3>4
  <2> QED
    BY <2>2, <2>3
<1>8. ASSUME NEW k \in Kinds PROVE AgeInv(k)'
  <2>1. AgeInv(k)
    BY DEF IInv
  <2>2. ASSUME NEW d \in Slots PROVE AtMost(stream'[d][k].inbox, rules[Newest][k])
    <3>1. AtMost(<<>>, rules[Newest][k])
      BY OneStream, EmptyFacts
    <3> QED
      BY <1>1, <1>6, <2>1, <3>1 DEF AgeInv
  <2> QED
    BY <1>2, <1>3, <2>1, <2>2 DEF AgeInv
<1>9. SingleInv'
  <2>1. ASSUME setters # Kinds, NEW d \in Slots, d # c, NEW k \in Kinds PROVE stream'[d][k] = Off
    BY <1>1, <1>5, <2>1
  <2> QED
    BY <1>2, <1>5, <2>1 DEF SingleInv
<1> QED
  BY <1>2, <1>3, <1>4, <1>7, <1>8, <1>9 DEF IInv

LEMMA ConnectReturnsStep ==
    ASSUME IInv, ConnectReturns
    PROVE  IInv'
<1>1. /\ cur \in Slots
      /\ stream' \in [Slots -> [Kinds -> Streams]]
      /\ \A k \in Kinds : stream'[cur][k] = Leftover(stream[cur][k])
      /\ \A d \in Slots : d # cur => stream'[d] = stream[d]
  <2>1. stream' = [stream EXCEPT ![cur] = [k \in Kinds |-> Leftover(stream[cur][k])]]
    BY DEF ConnectReturns, Close
  <2>2. cur \in Slots /\ \A k \in Kinds : Leftover(stream[cur][k]) \in Streams
    BY OneStream, LeftoverFacts DEF IInv, Types
  <2> QED
    BY <2>1, <2>2, SMTT(40) DEF IInv, Types
<1>2. /\ errCh' \in [Slots -> 0 .. ErrChCap]
      /\ \A d \in Slots : d # cur => errCh'[d] = errCh[d]
      /\ Finished(cur) \/ errCh[cur] = 0 => errCh'[cur] = 0
  BY <1>1, SMTT(40) DEF ConnectReturns, IInv, Types, ErrChCap
<1>3. /\ UNCHANGED <<setters, ctxDone, cur, applied, overtaken, controller, rules, published>>
      /\ UNCHANGED controllerVars
      /\ run' \in {"returned", "backoff"} /\ (run' = "returned" <=> ctxDone)
  <2>1. "returned" # "backoff"
    BY SMTT(40)
  <2> QED
    BY <2>1 DEF ConnectReturns, controllerVars
<1>4. ControllerInv' /\ Newest' = Newest
  BY <1>3, SameControllers
<1>5. Types'
  BY <1>1, <1>2, <1>3 DEF IInv, Types
<1>6. \A d \in Slots, k \in Kinds :
         /\ stream'[d][k] \in Streams
         /\ stream'[d][k] = Off <=> stream[d][k] = Off
         /\ stream'[d][k].inbox = stream[d][k].inbox
         /\ stream'[d][k].st \in {"off", "leftover"}
         /\ stream'[d][k].st = "off" => stream'[d][k] = Off
  <2> TAKE d \in Slots, k \in Kinds
  <2>1. stream[d][k] \in Streams /\ StreamInv(d, k)
    BY OneStream
  <2>2. CASE d = cur
    <3>1. stream'[d][k] = Leftover(stream[d][k])
      BY <1>1, <2>2
    <3>2. "leftover" # "off"
      BY SMTT(40)
    <3> QED
      BY <2>1, <3>1, <3>2, LeftoverFacts, OffFacts
  <2>3. CASE d # cur
    <3>1. stream'[d][k] = stream[d][k]
      BY <1>1, <2>3
    <3>2. stream[d][k].st \in {"off", "opening", "streaming", "leftover"}
      BY <2>1, SMTT(40) DEF Streams
    <3> QED
      BY <2>1, <2>3, <3>1, <3>2 DEF StreamInv
  <2> QED
    BY <2>2, <2>3
<1>7. \A d \in Slots, k \in Kinds : stream'[d][k].st # "opening" /\ stream'[d][k].st # "streaming"
  BY <1>6, SMTT(40)
<1>8. ASSUME NEW d \in Slots, NEW k \in Kinds PROVE StreamInv(d, k)' /\ LatestInv(d, k)' /\ OrderInv(d, k)'
  <2>2. StreamInv(d, k)'
    <3>1. stream'[d][k].inbox # <<>> => stream'[d][k].st = "leftover"
      BY <1>6, OffFacts
    <3> QED
      BY <1>3, <1>6, <1>7, <3>1, OneStream DEF StreamInv
  <2>3. LatestInv(d, k)'
    BY <1>7 DEF LatestInv
  <2>4. OrderInv(d, k)'
    BY <1>3, <1>6, <1>7, OneStream DEF OrderInv
  <2> QED
    BY <2>2, <2>3, <2>4
<1>9. ASSUME NEW k \in Kinds PROVE AgeInv(k)'
  BY <1>3, <1>4, <1>6 DEF IInv, AgeInv
<1>10. SingleInv'
  <2> SUFFICES ASSUME setters # Kinds
               PROVE  /\ \A d \in Slots, k \in Kinds : stream'[d][k] # Off => d = cur /\ run' = "returned"
                      /\ \A d \in Slots : ~(errCh'[d] > 0)
    BY <1>3 DEF SingleInv
  <2>1. /\ \A d \in Slots, j \in Kinds : stream[d][j] # Off => d = cur
        /\ \A d \in Slots : errCh[d] > 0 => Finished(d) /\ d = cur
    BY DEF IInv, SingleInv
  <2>2. ASSUME NEW d \in Slots PROVE ~(errCh'[d] > 0)
    <3>1. CASE d # cur
      BY <1>2, <2>1, <3>1
    <3>2. CASE d = cur
      <4>1. errCh[cur] \in Nat
        BY <1>1, SMTT(40) DEF IInv, Types, ErrChCap
      <4>2. errCh'[cur] = 0
        BY <1>1, <1>2, <2>1, <4>1, SMTT(40)
      <4> QED
        BY <3>2, <4>2, SMTT(40)
    <3> QED
      BY <3>1, <3>2
  <2>3. ASSUME NEW d \in Slots, NEW k \in Kinds, stream'[d][k] # Off PROVE d = cur /\ run' = "returned"
    <3>1. d = cur /\ stream[d][k] # Off
      BY <1>6, <2>1, <2>3
    <3>2. ~Finished(cur)
      BY <3>1, FinishedIs DEF IInv
    <3>3. ctxDone
      BY <1>1, <2>1, <3>2 DEF ConnectReturns
    <3> QED
      BY <1>3, <3>1, <3>3
  <2> QED
    BY <2>2, <2>3
<1> QED
  BY <1>3, <1>4, <1>5, <1>8, <1>9, <1>10 DEF IInv

(* Run goes on, or the process is told to stop: no stream is up, or the     *)
(* place of Run does not change.                                            *)
LEMMA WaitStep ==
    ASSUME IInv, Wait \/ Cancel
    PROVE  IInv'
<1>1. /\ UNCHANGED <<setters, cur, stream, errCh, applied, overtaken, controller, rules, published>>
      /\ UNCHANGED controllerVars
  BY DEF Wait, Cancel, controllerVars
<1>2. /\ run' = "returned" => ctxDone'
      /\ ctxDone' \in BOOLEAN /\ run' \in {"connect", "select", "backoff", "returned"}
      /\ run' = run \/ (run = "backoff" /\ run' \in {"connect", "returned"})
  <2>1. CASE Wait
    <3>1. run = "backoff" /\ ((ctxDone /\ run' = "returned") \/ run' = "connect") /\ ctxDone' = ctxDone
      BY <2>1 DEF Wait
    <3>2. "connect" # "returned"
      BY SMTT(40)
    <3> QED
      BY <3>1, <3>2 DEF IInv, Types
  <2>2. CASE Cancel
    BY <2>2 DEF Cancel, IInv, Types
  <2> QED
    BY <2>1, <2>2
<1>3. ControllerInv' /\ Newest' = Newest
  BY <1>1, SameControllers
<1>4. Types'
  BY <1>1, <1>2 DEF IInv, Types
<1>5. run = "select" => run' = "select"
  BY <1>2, SMTT(40)
<1>6. run \in {"select", "returned"} => run' = run
  BY <1>2, SMTT(40)
<1>7. ASSUME NEW d \in Slots, NEW k \in Kinds PROVE StreamInv(d, k)' /\ LatestInv(d, k)' /\ OrderInv(d, k)'
  <2>1. StreamInv(d, k) /\ LatestInv(d, k) /\ OrderInv(d, k)
    BY OneStream
  <2>2. StreamInv(d, k)'
    BY <1>1, <1>5, <2>1 DEF StreamInv
  <2>3. LatestInv(d, k)' /\ OrderInv(d, k)'
    BY <1>1, <2>1 DEF LatestInv, OrderInv
  <2> QED
    BY <2>2, <2>3
<1>8. ASSUME NEW k \in Kinds PROVE AgeInv(k)'
  BY <1>1, <1>3 DEF IInv, AgeInv
<1>9. SingleInv'
  BY <1>1, <1>5, <1>6 DEF IInv, SingleInv, Finished
<1> QED
  BY <1>2, <1>3, <1>4, <1>7, <1>8, <1>9 DEF IInv

-----------------------------------------------------------------------------
(* The controllers.                                                        *)

(* What a step of a controller that is being stopped leaves alone.          *)
LEMMA StopStep ==
    ASSUME IInv, NEW p \in Controllers, Drain(p) \/ Drained(p) \/ Kill(p)
    PROVE  IInv'
<1>1. UNCHANGED <<setters, ctxDone, run, cur, stream, errCh, applied, overtaken, rules, published>>
  BY DEF Drain, Drained, Kill, clientVars
<1>2. /\ controller' \in [Controllers -> {"new", "serving", "draining", "gone"}]
      /\ \A q \in Controllers : controller'[q] # "new" <=> controller[q] # "new"
      /\ \A q \in Controllers : controller'[q] = "serving" => controller[q] = "serving"
  <2>1. PICK x \in {"draining", "gone"} : controller' = [controller EXCEPT ![p] = x]
    BY DEF Drain, Drained, Kill
  <2>2. controller[p] = "serving" \/ controller[p] = "draining"
    BY DEF Drain, Drained, Kill
  <2>3. /\ controller' \in [Controllers -> {"new", "serving", "draining", "gone"}]
        /\ controller'[p] = x /\ x # "new" /\ x # "serving" /\ controller[p] # "new"
        /\ \A q \in Controllers : q # p => controller'[q] = controller[q]
    BY <2>1, <2>2, SMTT(40) DEF IInv, Types
  <2> QED
    BY <2>3
<1>3. Newest' = Newest /\ ControllerInv'
  <2>1. Newest' = Newest
    BY <1>2 DEF Newest
  <2> QED
    BY <1>1, <1>2, <2>1 DEF IInv, ControllerInv, Generation
<1>4. Types'
  BY <1>1, <1>2 DEF IInv, Types
<1>5. ASSUME NEW d \in Slots, NEW k \in Kinds PROVE StreamInv(d, k)' /\ LatestInv(d, k)' /\ OrderInv(d, k)'
  <2>1. StreamInv(d, k) /\ LatestInv(d, k) /\ OrderInv(d, k)
    BY OneStream
  <2>2. StreamInv(d, k)'
    BY <1>1, <1>2, <2>1 DEF StreamInv
  <2>3. LatestInv(d, k)' /\ OrderInv(d, k)'
    BY <1>1, <2>1 DEF LatestInv, OrderInv
  <2> QED
    BY <2>2, <2>3
<1>6. ASSUME NEW k \in Kinds PROVE AgeInv(k)'
  BY <1>1, <1>3 DEF IInv, AgeInv
<1>7. SingleInv'
  BY <1>1 DEF IInv, SingleInv, Finished
<1> QED
  BY <1>1, <1>3, <1>4, <1>5, <1>6, <1>7 DEF IInv

LEMMA StartStep ==
    ASSUME IInv, NEW p \in Controllers, Start(p)
    PROVE  IInv'
<1> DEFINE n == published + 1
<1>1. UNCHANGED <<setters, ctxDone, run, cur, stream, errCh, applied, overtaken>>
  BY DEF Start, clientVars
<1>2. /\ Newest \in Controllers /\ p = Newest + 1 /\ controller[p] = "new"
      /\ \A q \in Controllers : controller[q] # "new" <=> q <= Newest
      /\ \A q \in Controllers : controller[q] # "serving"
  BY DEF Start, IInv, ControllerInv, Generation, Serving
<1>3. /\ controller' \in [Controllers -> {"new", "serving", "draining", "gone"}]
      /\ controller'[p] = "serving"
      /\ \A q \in Controllers : q # p => controller'[q] = controller[q]
      /\ rules' \in [Controllers -> [Kinds -> Nat]]
      /\ \A k \in Kinds : rules'[p][k] = n
      /\ \A q \in Controllers : q # p => rules'[q] = rules[q]
      /\ published' = n /\ published \in Nat /\ n \in Nat
  <2>1. published' = n /\ published \in Nat /\ n \in Nat
    BY SMTT(40) DEF Start, IInv, Types
  <2>2. controller' = [controller EXCEPT ![p] = "serving"] /\ rules' = [rules EXCEPT ![p] = [k \in Kinds |-> n]]
    BY DEF Start
  <2> HIDE DEF n
  <2>3. /\ controller' \in [Controllers -> {"new", "serving", "draining", "gone"}]
        /\ controller'[p] = "serving"
        /\ \A q \in Controllers : q # p => controller'[q] = controller[q]
    BY <2>2, SMTT(40) DEF IInv, Types
  <2>4. /\ rules' \in [Controllers -> [Kinds -> Nat]]
        /\ \A k \in Kinds : rules'[p][k] = n
        /\ \A q \in Controllers : q # p => rules'[q] = rules[q]
    BY <2>1, <2>2, SMTT(40) DEF IInv, Types
  <2> QED
    BY <2>1, <2>3, <2>4
<1>4. Newest' = p
  <2>1. \A q \in Controllers : controller'[q] # "new" <=> q <= p
    BY <1>2, <1>3, ClientBoundsAssumption, SMTT(40) DEF Controllers
  <2>2. (\A q \in Controllers : controller'[q] # "new" => q <= p) /\ controller'[p] # "new"
    BY <1>3, <2>1, SMTT(40)
  <2>3. \A r \in Controllers : controller'[r] # "new" /\ (\A q \in Controllers : controller'[q] # "new" => q <= r) => r = p
    BY <2>1, <2>2, ClientBoundsAssumption, SMTT(40) DEF Controllers
  <2> QED
    BY <2>2, <2>3 DEF Newest
<1>5. ControllerInv'
  <2>1. \A q \in Controllers : controller'[q] # "new" <=> q <= p
    BY <1>2, <1>3, ClientBoundsAssumption, SMTT(40) DEF Controllers
  <2>2. \A q \in Controllers : controller'[q] = "serving" => q = p
    BY <1>2, <1>3
  <2>3. 1 <= published' /\ published' <= MaxPublished + p
    BY <1>2, <1>3, ClientBoundsAssumption, SMTT(40) DEF IInv, ControllerInv, Controllers
  <2>4. \A q \in Controllers, k \in Kinds : rules[q][k] \in Nat /\ rules[q][k] <= published
    BY SMTT(40) DEF IInv, ControllerInv, Types
  <2>5. \A q \in Controllers, k \in Kinds : rules'[q][k] <= rules'[p][k] /\ rules'[q][k] <= published'
    BY <1>3, <2>4, SMTT(40)
  <2> QED
    BY <1>4, <2>1, <2>2, <2>3, <2>5 DEF ControllerInv, Generation
<1>6. Types'
  BY <1>1, <1>3 DEF IInv, Types
<1>7. ASSUME NEW d \in Slots, NEW k \in Kinds PROVE StreamInv(d, k)' /\ LatestInv(d, k)' /\ OrderInv(d, k)'
  <2>1. StreamInv(d, k) /\ LatestInv(d, k) /\ OrderInv(d, k)
    BY OneStream
  <2>2. ASSUME stream[d][k].st = "streaming"
        PROVE  /\ rules'[stream[d][k].proc] = rules[stream[d][k].proc]
               /\ controller'[stream[d][k].proc] # "new"
    <3>1. stream[d][k].proc \in Controllers /\ controller[stream[d][k].proc] # "new"
      BY <2>1, <2>2 DEF StreamInv
    <3> QED
      BY <1>2, <1>3, <3>1
  <2>3. StreamInv(d, k)'
    BY <1>1, <2>1, <2>2 DEF StreamInv
  <2>4. LatestInv(d, k)' /\ OrderInv(d, k)'
    BY <1>1, <2>1, <2>2 DEF LatestInv, OrderInv
  <2> QED
    BY <2>3, <2>4
<1>8. ASSUME NEW k \in Kinds PROVE AgeInv(k)'
  <2>1. /\ rules[Newest][k] \in Nat /\ rules[Newest][k] <= n
        /\ applied[k] <= n
    <3>1. cur \in Slots
      BY DEF IInv, Types
    <3>2. /\ rules[Newest][k] \in Nat /\ rules[Newest][k] <= published /\ applied[k] \in Nat
          /\ applied[k] <= rules[Newest][k]
      BY <3>1, OneStream DEF AgeInv
    <3> QED
      BY <1>3, <3>2, SMTT(40)
  <2>2. ASSUME NEW d \in Slots PROVE AtMost(stream[d][k].inbox, n)
    BY <1>3, <2>1, OneStream, Weaken DEF AgeInv
  <2> QED
    BY <1>1, <1>3, <1>4, <2>1, <2>2 DEF AgeInv
<1>9. SingleInv'
  BY <1>1 DEF IInv, SingleInv, Finished
<1> QED
  BY <1>1, <1>5, <1>6, <1>7, <1>8, <1>9 DEF IInv

LEMMA PublishStep ==
    ASSUME IInv, NEW p \in Controllers, NEW k \in Kinds, Publish(p, k)
    PROVE  IInv'
<1> DEFINE n == published + 1
           m == rules[Newest][k]
           s(c) == stream[c][k]
           t(c) == [s(c) EXCEPT !.inbox = Append(s(c).inbox, n)]
<1>1. UNCHANGED <<setters, ctxDone, run, cur, errCh, applied, overtaken, controller>>
  BY DEF Publish, clientVars
<1>2. /\ published' = n /\ published \in Nat /\ n \in Nat /\ published < MaxPublished
      /\ p = Newest /\ Newest' = Newest /\ controller[p] = "serving"
  <2>1. controller[p] = "serving" /\ published' = n /\ published < MaxPublished
    BY DEF Publish
  <2>2. p = Newest
    BY <2>1 DEF IInv, ControllerInv, Generation
  <2>3. published \in Nat /\ n \in Nat
    BY SMTT(40) DEF IInv, Types
  <2>4. Newest' = Newest
    BY <1>1 DEF Newest
  <2> QED
    BY <2>1, <2>2, <2>3, <2>4
<1>3. /\ rules' \in [Controllers -> [Kinds -> Nat]] /\ rules'[p][k] = n
      /\ \A q \in Controllers, j \in Kinds : q # p \/ j # k => rules'[q][j] = rules[q][j]
  <2>1. rules' = [rules EXCEPT ![p] = [rules[p] EXCEPT ![k] = n]]
    BY SMTT(40) DEF Publish, IInv, Types
  <2> HIDE DEF n
  <2> QED
    BY <1>2, <2>1, SMTT(40) DEF IInv, Types
<1>4. m \in Nat /\ m <= n /\ applied[k] \in Nat /\ applied[k] <= n
  <2>1. cur \in Slots
    BY DEF IInv, Types
  <2>2. m \in Nat /\ m <= published /\ applied[k] \in Nat /\ applied[k] <= m
    BY <2>1, OneStream DEF AgeInv
  <2> QED
    BY <1>2, <2>2, SMTT(40)
<1>5. \A c \in Slots : /\ s(c) \in Streams /\ s(c).inbox \in Seq(Nat)
                       /\ Sorted(s(c).inbox) /\ AtMost(s(c).inbox, m) /\ OrderInv(c, k)
  BY OneStream DEF OrderInv, AgeInv
<1>6. \A c \in Slots : /\ t(c) \in Streams /\ t(c).st = s(c).st /\ t(c).proc = s(c).proc
                       /\ t(c).inbox = Append(s(c).inbox, n)
  <2> TAKE c \in Slots
  <2>1. Append(s(c).inbox, n) \in Seq(Nat)
    BY <1>2, <1>4, <1>5, AppendFacts
  <2> QED
    BY <1>5, <2>1, InboxFacts
<1>7. /\ stream' \in [Slots -> [Kinds -> Streams]]
      /\ \A c \in Slots : Attached(p, c, k) => stream'[c][k] = t(c)
      /\ \A c \in Slots : ~Attached(p, c, k) => stream'[c] = stream[c]
      /\ \A c \in Slots, j \in Kinds : j # k => stream'[c][j] = stream[c][j]
  <2>1. stream' = [c \in Slots |-> IF Attached(p, c, k) THEN [stream[c] EXCEPT ![k] = t(c)] ELSE stream[c]]
    <3>1. \A c \in Slots : [stream[c] EXCEPT ![k].inbox = Append(@, n)] = [stream[c] EXCEPT ![k] = t(c)]
      BY SMTT(40) DEF IInv, Types
    <3> QED
      BY <3>1 DEF Publish
  <2> HIDE DEF t
  <2> QED
    BY <1>6, <2>1, SMTT(40) DEF IInv, Types
<1> HIDE DEF n, m, t, s
<1>8. \A c \in Slots, j \in Kinds : j # k \/ ~Attached(p, c, k) => stream'[c][j] = stream[c][j]
  BY <1>7
<1>9. \A c \in Slots, j \in Kinds : stream'[c][j].st = stream[c][j].st /\ stream'[c][j].proc = stream[c][j].proc
  <2> TAKE c \in Slots, j \in Kinds
  <2>1. CASE j # k \/ ~Attached(p, c, k)
    BY <1>8, <2>1
  <2>2. CASE j = k /\ Attached(p, c, k)
    BY <1>6, <1>7, <2>2 DEF s
  <2> QED
    BY <2>1, <2>2
<1>10. \A c \in Slots : /\ Attached(p, c, k) <=> s(c).st = "streaming" /\ s(c).proc = p
                        /\ Attached(p, c, k) => s(c) # Off /\ t(c) # Off
  <2>1. "streaming" # "off"
    BY SMTT(40)
  <2>2. \A c \in Slots : Attached(p, c, k) <=> s(c).st = "streaming" /\ s(c).proc = p
    BY DEF Attached, s
  <2> QED
    BY <1>6, <2>1, <2>2, OffFacts
<1>11. Types'
  <2>1. published' \in Nat
    BY <1>2
  <2> QED
    BY <1>1, <1>3, <1>7, <2>1 DEF IInv, Types
<1>12. ControllerInv'
  <2>1. 1 <= published' /\ published' <= MaxPublished + Newest
    <3>1. Newest \in Nat
      BY <1>2, ClientBoundsAssumption, SMTT(40) DEF Controllers
    <3> QED
      BY <1>2, <3>1, ClientBoundsAssumption, SMTT(40) DEF n
  <2>2. \A q \in Controllers, j \in Kinds :
           rules[q][j] \in Nat /\ rules[q][j] <= rules[p][j] /\ rules[q][j] <= published
    BY <1>2, SMTT(40) DEF IInv, Types, ControllerInv
  <2>3. ASSUME NEW q \in Controllers, NEW j \in Kinds
        PROVE  rules'[q][j] <= rules'[p][j] /\ rules'[q][j] <= published'
    <3>1. rules[q][j] <= n /\ n <= n
      BY <1>2, <2>2, SMTT(40) DEF n
    <3>2. CASE j = k
      BY <1>2, <1>3, <3>1, <3>2
    <3>3. CASE j # k
      BY <1>2, <1>3, <2>2, <3>1, <3>3
    <3> QED
      BY <3>2, <3>3
  <2>4. Generation(Newest)'
    BY <1>1, <1>2 DEF IInv, ControllerInv, Generation
  <2> QED
    BY <1>2, <2>1, <2>3, <2>4 DEF ControllerInv
<1>13. ASSUME NEW d \in Slots, Attached(p, d, k)
       PROVE  /\ Append(s(d).inbox, n) # <<>> /\ Sorted(Append(s(d).inbox, n))
              /\ AtMost(Append(s(d).inbox, n), n) /\ Ends(Append(s(d).inbox, n), n)
              /\ AtLeast(Append(s(d).inbox, n), applied[k])
              /\ \A e \in Slots : s(e).st = "leftover" => Precedes(s(e).inbox, Append(s(d).inbox, n))
  <2>1. /\ AtLeast(s(d).inbox, applied[k])
        /\ \A e \in Slots : s(e).st = "leftover" => Precedes(s(e).inbox, s(d).inbox)
    BY <1>5, <1>10, <1>13 DEF OrderInv, s
  <2> QED
    BY <1>2, <1>4, <1>5, <2>1, AppendFacts
<1>14. ASSUME NEW d \in Slots, NEW j \in Kinds PROVE StreamInv(d, j)'
  <2>1. StreamInv(d, j)
    BY OneStream
  <2>2. CASE j # k \/ ~Attached(p, d, k)
    BY <1>1, <1>8, <2>1, <2>2 DEF StreamInv
  <2>3. CASE j = k /\ Attached(p, d, k)
    <3>1. stream[d][j] # Off /\ stream'[d][j] # Off /\ stream[d][j].st = "streaming" /\ "streaming" # "off"
      <4>1. "streaming" # "off"
        BY SMTT(40)
      <4> QED
        BY <1>7, <1>10, <2>3, <4>1 DEF s
    <3> QED
      BY <1>1, <1>9, <2>1, <3>1 DEF StreamInv
  <2> QED
    BY <2>2, <2>3
<1>15. ASSUME NEW d \in Slots, NEW j \in Kinds PROVE LatestInv(d, j)'
  <2>1. LatestInv(d, j) /\ StreamInv(d, j)
    BY OneStream
  <2> SUFFICES ASSUME stream[d][j].st = "streaming" PROVE LatestInv(d, j)'
    BY <1>9 DEF LatestInv
  <2>2. stream[d][j].proc \in Controllers
    BY <2>1 DEF StreamInv
  <2>3. CASE j = k /\ Attached(p, d, k)
    <3>1. stream'[d][j].inbox = Append(s(d).inbox, n) /\ rules'[stream'[d][j].proc][j] = n
      BY <1>3, <1>6, <1>7, <1>10, <2>3
    <3>2. Ends(stream'[d][j].inbox, rules'[stream'[d][j].proc][j])
      BY <1>13, <2>3, <3>1
    <3> QED
      BY <3>2 DEF LatestInv
  <2>4. CASE ~(j = k /\ Attached(p, d, k))
    <3>1. j # k \/ stream[d][j].proc # p
      BY <1>10, <2>4 DEF s
    <3>2. stream'[d][j] = stream[d][j] /\ rules'[stream[d][j].proc][j] = rules[stream[d][j].proc][j]
      BY <1>3, <1>8, <2>2, <2>4, <3>1
    <3> QED
      BY <1>1, <2>1, <3>2 DEF LatestInv
  <2> QED
    BY <2>3, <2>4
<1>16. ASSUME NEW d \in Slots, NEW j \in Kinds PROVE OrderInv(d, j)'
  <2>1. OrderInv(d, j)
    BY OneStream
  <2>2. \A e \in Slots : stream'[e][j].st = "leftover" => stream'[e][j] = stream[e][j]
    <3>1. "streaming" # "leftover"
      BY SMTT(40)
    <3> QED
      <4> SUFFICES ASSUME NEW e \in Slots, stream[e][j].st = "leftover" PROVE stream'[e][j] = stream[e][j]
        BY <1>9
      <4>1. j # k \/ ~Attached(p, e, k)
        BY <1>10, <3>1 DEF s
      <4> QED
        BY <1>8, <4>1
  <2>3. CASE j = k /\ Attached(p, d, k)
    <3>1. stream'[d][j].inbox = Append(s(d).inbox, n)
      BY <1>6, <1>7, <2>3
    <3>2. \A e \in Slots : stream'[e][j].st = "leftover" => Precedes(stream'[e][j].inbox, Append(s(d).inbox, n))
      BY <1>13, <2>2, <2>3 DEF s
    <3> QED
      BY <1>1, <1>13, <2>3, <3>1, <3>2 DEF OrderInv
  <2>4. CASE ~(j = k /\ Attached(p, d, k))
    <3>1. stream'[d][j] = stream[d][j]
      BY <1>8, <2>4
    <3> QED
      BY <1>1, <2>1, <2>2, <3>1 DEF OrderInv
  <2> QED
    BY <2>3, <2>4
<1>17. ASSUME NEW j \in Kinds PROVE AgeInv(j)'
  <2>1. AgeInv(j)
    BY DEF IInv
  <2>2. CASE j # k
    <3>1. rules'[Newest'][j] = rules[Newest][j]
      BY <1>2, <1>3, <2>2
    <3> QED
      BY <1>1, <1>8, <2>1, <2>2, <3>1 DEF AgeInv
  <2>3. CASE j = k
    <3>1. rules'[Newest'][k] = n
      BY <1>2, <1>3
    <3>2. ASSUME NEW d \in Slots PROVE AtMost(stream'[d][k].inbox, n)
      <4>1. CASE Attached(p, d, k)
        BY <1>6, <1>7, <1>13, <4>1
      <4>2. CASE ~Attached(p, d, k)
        <5>1. AtMost(s(d).inbox, n)
          BY <1>2, <1>4, <1>5, Weaken
        <5> QED
          BY <1>8, <4>2, <5>1 DEF s
      <4> QED
        BY <4>1, <4>2
    <3> QED
      BY <1>1, <1>4, <2>3, <3>1, <3>2 DEF AgeInv
  <2> QED
    BY <2>2, <2>3
<1>18. SingleInv'
  <2>1. \A d \in Slots, j \in Kinds : stream'[d][j] # Off <=> stream[d][j] # Off
    BY <1>7, <1>8, <1>10 DEF s
  <2>2. \A d \in Slots : Finished(d)' <=> Finished(d)
    BY <1>11, <2>1, FinishedIs, FinishedNext DEF IInv
  <2> QED
    BY <1>1, <2>1, <2>2 DEF IInv, SingleInv
<1> QED
  BY <1>1, <1>11, <1>12, <1>14, <1>15, <1>16, <1>17, <1>18 DEF IInv

-----------------------------------------------------------------------------
(* Every reachable state has the invariant.                                *)

LEMMA InitIInv == Init => IInv
<1> SUFFICES ASSUME Init PROVE IInv
  OBVIOUS
<1>1. 1 \in Controllers /\ \A q \in Controllers : q \in Nat /\ (q <= 1 <=> q = 1)
  BY ClientBoundsAssumption, SMTT(40) DEF Controllers
<1>2. \A q \in Controllers : controller[q] = IF q = 1 THEN "serving" ELSE "new"
  BY DEF Init
<1>3. "serving" # "new"
  BY SMTT(40)
<1>4. Newest = 1
  BY <1>1, <1>2, <1>3, NewestIs
<1>5. \A q \in Controllers, k \in Kinds : rules[q][k] = IF q = 1 THEN 1 ELSE 0
  BY DEF Init
<1>6. \A c \in Slots, k \in Kinds : stream[c][k] = Off /\ applied[k] = 0
  BY DEF Init
<1>7. cur \in Slots
  BY ClientBoundsAssumption DEF Init
<1>8. Types
  <2>1. stream \in [Slots -> [Kinds -> Streams]]
    BY OffFacts, SMTT(40) DEF Init
  <2>2. rules \in [Controllers -> [Kinds -> Nat]]
    BY SMTT(40) DEF Init
  <2>3. controller \in [Controllers -> {"new", "serving", "draining", "gone"}]
    BY SMTT(40) DEF Init
  <2>4. errCh \in [Slots -> 0 .. ErrChCap] /\ applied \in [Kinds -> Nat] /\ published \in Nat
    BY SMTT(40) DEF Init, ErrChCap
  <2>5. /\ setters \in SUBSET Kinds /\ setters # {} /\ overtaken \in SUBSET Kinds
        /\ ctxDone \in BOOLEAN /\ run \in {"connect", "select", "backoff", "returned"}
    <3>1. setters \in (SUBSET Kinds) \ {{}} /\ ctxDone = FALSE /\ run = "connect" /\ overtaken = {}
      BY DEF Init
    <3> QED
      BY <3>1
  <2> QED
    BY <1>7, <2>1, <2>2, <2>3, <2>4, <2>5 DEF Types
<1>9. ControllerInv
  <2>1. Generation(1)
    BY <1>1, <1>2, <1>3 DEF Generation
  <2>2. 1 <= published /\ published <= MaxPublished + 1
    BY ClientBoundsAssumption, SMTT(40) DEF Init
  <2>3. \A q \in Controllers, k \in Kinds : rules[q][k] <= rules[1][k] /\ rules[q][k] <= published
    <3>1. published = 1
      BY DEF Init
    <3> QED
      BY <1>1, <1>5, <3>1, SMTT(40)
  <2> QED
    BY <1>4, <2>1, <2>2, <2>3 DEF ControllerInv
<1>10. /\ Off.inbox = <<>> /\ Off.st # "opening" /\ Off.st # "streaming" /\ Off.st # "leftover"
       /\ <<>> \in Seq(Nat) /\ 0 \in Nat /\ 1 \in Nat /\ 0 <= 1
  BY OffFacts, SMTT(40)
<1>11. ASSUME NEW c \in Slots, NEW k \in Kinds PROVE StreamInv(c, k) /\ LatestInv(c, k) /\ OrderInv(c, k)
  <2>1. Sorted(<<>>) /\ AtLeast(<<>>, 0)
    BY <1>10, EmptyFacts
  <2>2. OrderInv(c, k)
    BY <1>6, <1>10, <2>1 DEF OrderInv
  <2> QED
    BY <1>6, <1>10, <2>2 DEF StreamInv, LatestInv
<1>12. ASSUME NEW k \in Kinds PROVE AgeInv(k)
  <2>1. rules[Newest][k] = 1 /\ applied[k] = 0
    BY <1>1, <1>4, <1>5, <1>6, <1>7
  <2>2. AtMost(<<>>, 1)
    BY <1>10, EmptyFacts
  <2> QED
    BY <1>6, <1>10, <2>1, <2>2 DEF AgeInv
<1>13. SingleInv
  <2>1. \A c \in Slots : ~(errCh[c] > 0)
    BY SMTT(40) DEF Init
  <2> QED
    BY <1>6, <2>1 DEF SingleInv
<1>14. run # "returned"
  BY SMTT(40) DEF Init
<1> QED
  BY <1>8, <1>9, <1>11, <1>12, <1>13, <1>14 DEF IInv

LEMMA NextIInv == IInv /\ [Next]_vars => IInv'
<1> SUFFICES ASSUME IInv, [Next]_vars PROVE IInv'
  OBVIOUS
<1>1. CASE Run
  BY <1>1, ConnectStep, ConnectReturnsStep, WaitStep DEF Run
<1>2. CASE Cancel
  BY <1>2, WaitStep
<1>3. ASSUME NEW c \in Slots, NEW k \in Kinds, Stream(c, k) \/ Fail(c, k, TRUE)
      PROVE  IInv'
  BY <1>3, OpenStep, RecvStep, FailStep DEF Stream
<1>4. ASSUME NEW p \in Controllers, NEW k \in Kinds, Publish(p, k)
      PROVE  IInv'
  BY <1>4, PublishStep
<1>5. ASSUME NEW p \in Controllers, Drain(p) \/ Drained(p) \/ Kill(p) \/ Start(p)
      PROVE  IInv'
  BY <1>5, StopStep, StartStep
<1>6. CASE UNCHANGED vars
  <2>1. /\ UNCHANGED <<setters, ctxDone, run, cur, stream, errCh, applied, overtaken, controller, rules, published>>
        /\ UNCHANGED controllerVars
    BY <1>6 DEF vars, clientVars, controllerVars
  <2>2. ControllerInv' /\ Newest' = Newest
    BY <2>1, SameControllers
  <2>3. Types'
    BY <2>1 DEF IInv, Types
  <2>4. ASSUME NEW c \in Slots, NEW k \in Kinds PROVE StreamInv(c, k)' /\ LatestInv(c, k)' /\ OrderInv(c, k)'
    <3>1. StreamInv(c, k) /\ LatestInv(c, k) /\ OrderInv(c, k)
      BY OneStream
    <3>2. StreamInv(c, k)'
      BY <2>1, <3>1 DEF StreamInv
    <3>3. LatestInv(c, k)' /\ OrderInv(c, k)'
      BY <2>1, <3>1 DEF LatestInv, OrderInv
    <3> QED
      BY <3>2, <3>3
  <2>5. \A k \in Kinds : AgeInv(k)'
    BY <2>1, <2>2 DEF IInv, AgeInv
  <2>6. SingleInv'
    BY <2>1 DEF IInv, SingleInv, Finished
  <2> QED
    BY <2>1, <2>2, <2>3, <2>4, <2>5, <2>6 DEF IInv
<1> QED
  BY <1>1, <1>2, <1>3, <1>4, <1>5, <1>6 DEF Next

LEMMA AlwaysIInv == Spec => []IInv
BY InitIInv, NextIInv, PTL DEF Spec

-----------------------------------------------------------------------------
(* The theorems.                                                           *)

(* Whatever breaks, reconnects or is replaced, the error channel holds at   *)
(* most its two errors, a goroutine exists only for a configured setter,    *)
(* and only the connection that Run waits for is open (Run, connect).       *)
THEOREM RuleClientTypeCorrect == Spec => []TypeOK
<1>1. IInv => TypeOK
  <2> SUFFICES ASSUME IInv PROVE TypeOK
    OBVIOUS
  <2>1. published \in 1 .. MaxPublished + MaxController
    BY ClientBoundsAssumption, SMTT(40) DEF IInv, Types, ControllerInv, Generation, Controllers
  <2>2. \A c \in Slots : errCh[c] \in 0 .. ErrChCap
    BY DEF IInv, Types
  <2> QED
    BY <2>1, <2>2 DEF IInv, Types, TypeOK, StreamInv
<1> QED
  BY <1>1, AlwaysIInv, PTL

(* A stream that is up and has handed over everything gave the setter what  *)
(* its controller holds, and that is behind the newest controller only when *)
(* the stream's own is shutting down, unless a leftover came last           *)
(* (streamGeneration, streamVerification, GracefulStop).                    *)
THEOREM BehindSafe == Spec => []BehindOnlyWhileDraining
<1>1. IInv => BehindOnlyWhileDraining
  <2> SUFFICES ASSUME IInv, NEW k \in setters,
                      stream[cur][k].st = "streaming", stream[cur][k].inbox = <<>>, k \notin overtaken
               PROVE  /\ applied[k] = rules[stream[cur][k].proc][k]
                      /\ applied[k] # rules[Newest][k] => controller[stream[cur][k].proc] # "serving"
    BY DEF BehindOnlyWhileDraining
  <2>1. k \in Kinds /\ cur \in Slots
    BY DEF IInv, Types
  <2>2. applied[k] = rules[stream[cur][k].proc][k] /\ stream[cur][k].proc \in Controllers
    BY <2>1, OneStream DEF LatestInv, StreamInv, Ends
  <2>3. controller[stream[cur][k].proc] = "serving" => stream[cur][k].proc = Newest
    BY <2>2 DEF IInv, ControllerInv, Generation
  <2> QED
    BY <2>2, <2>3
<1> QED
  BY <1>1, AlwaysIInv, PTL

(* A setter goes back to an older rule set only by what the goroutine of a  *)
(* closed connection had still received, and never in a client with a       *)
(* single setter (connect).                                                 *)
THEOREM BackSafe == Spec => BackOnlyByLeftover
<1> DEFINE Back(k) == applied'[k] < applied[k] =>
                         /\ setters = Kinds
                         /\ \E c \in Slots : stream[c][k].st = "leftover" /\ stream[c][k].inbox # <<>> /\ applied'[k] = Head(stream[c][k].inbox)
<1>1. IInv /\ [Next]_vars => [\A k \in Kinds : Back(k)]_vars
  <2> SUFFICES ASSUME IInv, Next, NEW k \in Kinds PROVE Back(k)
    OBVIOUS
  <2>1. ASSUME NEW c \in Slots, Recv(c, k) PROVE Back(k)
    <3> DEFINE q == stream[c][k].inbox
    <3>1. /\ q \in Seq(Nat) /\ q # <<>> /\ Sorted(q) /\ applied[k] \in Nat
          /\ StreamInv(c, k) /\ OrderInv(c, k)
      BY <2>1, OneStream DEF Recv, OrderInv
    <3>2. applied'[k] = Head(q) /\ Head(q) \in Nat
      <4>1. applied' = [applied EXCEPT ![k] = Head(q)]
        BY <2>1 DEF Recv
      <4> QED
        BY <3>1, <4>1, TailFacts, SMTT(40) DEF IInv, Types
    <3>3. CASE AtLeast(q, applied[k])
      <4>1. applied[k] <= Head(q)
        BY <3>1, <3>3, TailFacts
      <4>2. ~(Head(q) < applied[k])
        BY <3>1, <3>2, <4>1, SMTT(40)
      <4> QED
        BY <3>2, <4>2
    <3>4. CASE stream[c][k].st # "streaming" /\ setters = Kinds
      BY <3>1, <3>2, <3>4 DEF StreamInv
    <3> QED
      BY <3>1, <3>3, <3>4 DEF OrderInv
  <2>2. applied'[k] = applied[k] => Back(k)
    <3>1. applied[k] \in Nat
      BY SMTT(40) DEF IInv, Types
    <3> QED
      BY <3>1, SMTT(40)
  <2>3. ASSUME NEW c \in Slots, NEW j \in Kinds, j # k, Recv(c, j) PROVE applied'[k] = applied[k]
    BY <2>3, SMTT(40) DEF Recv, IInv, Types
  <2>4. ASSUME ~(\E c \in Slots, j \in Kinds : Recv(c, j)) PROVE UNCHANGED applied
    BY <2>4 DEF Next, Run, Stream, Connect, ConnectReturns, Wait, Cancel, Open, Fail, Publish, Drain, Drained, Kill, Start
  <2> QED
    BY <2>1, <2>2, <2>3, <2>4
<1> QED
  BY <1>1, AlwaysIInv, PTL DEF Spec, BackOnlyByLeftover

-----------------------------------------------------------------------------
(* Room in the error channel, the part of ShutsDown that needs no fairness.*)

(* Errors and goroutines of a connection are at most two together, and a    *)
(* connection that nobody waits for and that has no goroutine has no error. *)
RoomInv(c) ==
    /\ \A k \in Kinds : stream[c][k] # Off => errCh[c] <= 1
    /\ (\A k \in Kinds : stream[c][k] # Off) => errCh[c] = 0
    /\ (\A k \in Kinds : stream[c][k] = Off) => errCh[c] = 0 \/ (run = "select" /\ c = cur)

(* A step that starts and ends no goroutine of a connection keeps its room. *)
LEMMA RoomKept ==
    ASSUME NEW c \in Slots, RoomInv(c), errCh'[c] = errCh[c],
           \A k \in Kinds : stream'[c][k] = Off <=> stream[c][k] = Off,
           run = "select" /\ c = cur => run' = "select" /\ c = cur'
    PROVE  RoomInv(c)'
BY DEF RoomInv

(* An empty error channel has room. *)
LEMMA RoomEmpty ==
    ASSUME NEW c \in Slots, errCh'[c] = 0
    PROVE  RoomInv(c)'
<1>1. 0 <= 1
  BY SMTT(40)
<1> QED
  BY <1>1 DEF RoomInv

(* The goroutine of kind k reports its error. *)
LEMMA RoomFail ==
    ASSUME IInv, NEW c \in Slots, RoomInv(c), NEW k \in Kinds, NEW faulty \in BOOLEAN,
           Fail(c, k, faulty), NEW d \in Slots, RoomInv(d)
    PROVE  RoomInv(d)'
<1>1. /\ stream[c][k] # Off /\ stream'[c][k] = Off
      /\ \A j \in Kinds : j # k => stream'[c][j] = stream[c][j]
      /\ d # c => stream'[d] = stream[d]
  <2>1. stream' = [stream EXCEPT ![c] = [stream[c] EXCEPT ![k] = Off]] /\ stream[c][k] # Off
    BY SMTT(40) DEF Fail, IInv, Types
  <2> QED
    BY <2>1, SMTT(40) DEF IInv, Types
<1>2. /\ errCh[c] \in 0 .. 2
      /\ errCh'[c] = IF Last(c, k) THEN 0 ELSE errCh[c] + 1
      /\ d # c => errCh'[d] = errCh[d]
      /\ run' = run /\ cur' = cur
  BY SMTT(40) DEF Fail, IInv, Types, ErrChCap
<1>3. CASE d # c
  BY <1>1, <1>2, <1>3, RoomKept
<1>4. CASE d = c
  <2>1. ASSUME NEW j \in Kinds, stream'[c][j] # Off PROVE errCh'[c] <= 1
    <3>1. j # k /\ \A l \in Kinds : l = j \/ l = k
      BY <1>1, <2>1, SMTT(40) DEF Kinds
    <3>2. \A l \in Kinds : stream[c][l] # Off
      BY <1>1, <2>1, <3>1
    <3>3. errCh[c] = 0
      BY <3>2 DEF RoomInv
    <3> QED
      BY <1>2, <3>3, SMTT(40)
  <2>2. ASSUME \A j \in Kinds : stream'[c][j] = Off
        PROVE  errCh'[c] = 0 \/ (run' = "select" /\ c = cur')
    <3>1. CASE stream[c][k].st = "leftover"
      <4>1. Last(c, k)
        BY <1>1, <2>2, <3>1 DEF Last
      <4> QED
        BY <1>2, <4>1
    <3>2. CASE stream[c][k].st # "leftover"
      <4>1. stream[c][k] \in Streams /\ StreamInv(c, k)
        BY OneStream
      <4>2. stream[c][k].st \in {"off", "opening", "streaming", "leftover"}
        BY <4>1, SMTT(40) DEF Streams
      <4> QED
        BY <1>1, <1>2, <3>2, <4>1, <4>2 DEF StreamInv
    <3> QED
      BY <3>1, <3>2
  <2> QED
    BY <1>1, <1>4, <2>1, <2>2 DEF RoomInv
<1> QED
  BY <1>3, <1>4

(* connect returns, and what is left of the connection has room. *)
LEMMA RoomReturns ==
    ASSUME IInv, ConnectReturns, NEW d \in Slots, RoomInv(d)
    PROVE  RoomInv(d)'
<1>0. cur \in Slots /\ errCh[cur] \in 0 .. 2
  BY SMTT(40) DEF IInv, Types, ErrChCap
<1>1. /\ stream' = [stream EXCEPT ![cur] = [k \in Kinds |-> Leftover(stream[cur][k])]]
      /\ run = "select"
  BY DEF ConnectReturns, Close
<1>2. /\ errCh'[cur] = IF Finished(cur) \/ errCh[cur] = 0 THEN 0 ELSE errCh[cur] - 1
      /\ d # cur => errCh'[d] = errCh[d]
  BY <1>0, SMTT(40) DEF ConnectReturns, IInv, Types
<1>3. CASE d = cur
  <2>1. Finished(cur) \/ errCh[cur] <= 1
    <3>1. Finished(cur) <=> \A k \in Kinds : stream[cur][k] = Off
      BY <1>0, FinishedIs DEF IInv
    <3> QED
      BY <1>3, <3>1 DEF RoomInv
  <2>2. errCh'[cur] = 0
    BY <1>0, <1>2, <2>1, SMTT(40)
  <2> QED
    BY <1>3, <2>2, RoomEmpty
<1>4. CASE d # cur
  <2>1. stream'[d] = stream[d]
    BY <1>0, <1>1, <1>4 DEF IInv, Types
  <2> QED
    BY <1>2, <1>4, <2>1, RoomKept
<1> QED
  BY <1>3, <1>4

(* A connection is made in a slot that has no errors left in it. *)
LEMMA RoomConnect ==
    ASSUME IInv, NEW c \in Slots, RoomInv(c), Connect(c), NEW d \in Slots, RoomInv(d)
    PROVE  RoomInv(d)'
<1>0. run # "select"
  <2>1. "connect" # "select"
    BY SMTT(40)
  <2> QED
    BY <2>1 DEF Connect
<1>1. errCh' = errCh /\ Finished(c)
  BY DEF Connect
<1>2. CASE d = c
  <2>1. \A k \in Kinds : stream[c][k] = Off
    BY <1>1, FinishedIs DEF IInv
  <2>2. errCh[c] = 0
    BY <1>0, <2>1 DEF RoomInv
  <2> QED
    BY <1>1, <1>2, <2>2, RoomEmpty
<1>3. CASE d # c
  <2>1. stream'[d] = stream[d]
    BY <1>3 DEF Connect, IInv, Types
  <2> QED
    BY <1>0, <1>1, <2>1, RoomKept
<1> QED
  BY <1>2, <1>3

(* A goroutine that opens its stream or hands a message over goes on. *)
LEMMA RoomStream ==
    ASSUME IInv, NEW c \in Slots, NEW k \in Kinds, Open(c, k) \/ Recv(c, k),
           NEW d \in Slots, RoomInv(d)
    PROVE  RoomInv(d)'
<1>0. /\ stream[c][k] \in Streams /\ StreamInv(c, k) /\ Off.st = "off" /\ Off.inbox = <<>>
      /\ "streaming" # "off" /\ "leftover" # "off" /\ "opening" # "off"
  BY OneStream, OffFacts, SMTT(40)
<1>1. run' = run /\ cur' = cur /\ errCh' = errCh
  BY DEF Open, Recv, clientVars
<1>2. \E s : stream' = [stream EXCEPT ![c] = [stream[c] EXCEPT ![k] = s]] /\ s # Off
  <2>1. CASE Open(c, k)
    <3>1. PICK p \in Serving :
             stream' = [stream EXCEPT ![c][k] = [st |-> "streaming", proc |-> p,
                                                 inbox |-> <<rules[p][k]>>]]
      BY <2>1 DEF Open
    <3>2. [st |-> "streaming", proc |-> p, inbox |-> <<rules[p][k]>>].st = "streaming"
      BY SMTT(40)
    <3>3. [st |-> "streaming", proc |-> p, inbox |-> <<rules[p][k]>>] # Off
      BY <1>0, <3>2
    <3> QED
      BY <3>1, <3>3
  <2>2. CASE Recv(c, k)
    <3>1. stream[c][k].st # "off"
      BY <1>0, <2>2 DEF Recv, StreamInv
    <3>2. [stream[c][k] EXCEPT !.inbox = Tail(stream[c][k].inbox)].st = stream[c][k].st
      BY <1>0, SMTT(40) DEF Streams
    <3>3. [stream[c][k] EXCEPT !.inbox = Tail(stream[c][k].inbox)] # Off
      BY <1>0, <3>1, <3>2
    <3>4. stream' = [stream EXCEPT ![c] = [stream[c] EXCEPT ![k] =
                        [stream[c][k] EXCEPT !.inbox = Tail(stream[c][k].inbox)]]]
      BY <2>2 DEF Recv
    <3> QED
      BY <3>3, <3>4
  <2> QED
    BY <2>1, <2>2
<1>3. stream[c][k] # Off
  BY <1>0 DEF Open, Recv
<1>4. \A j \in Kinds : stream'[d][j] = Off <=> stream[d][j] = Off
  BY <1>2, <1>3, SMTT(40) DEF IInv, Types
<1> QED
  BY <1>1, <1>4, RoomKept

(* A publication reaches the goroutines there are. *)
LEMMA RoomPublish ==
    ASSUME IInv, NEW p \in Controllers, NEW k \in Kinds, Publish(p, k),
           NEW d \in Slots, RoomInv(d)
    PROVE  RoomInv(d)'
<1>0. /\ stream[d][k] \in Streams /\ Off.st = "off" /\ "streaming" # "off"
  BY OneStream, OffFacts, SMTT(40)
<1>1. run' = run /\ cur' = cur /\ errCh' = errCh
  BY DEF Publish, clientVars
<1>2. CASE Attached(p, d, k)
  <2>1. stream'[d] = [stream[d] EXCEPT ![k] =
                         [stream[d][k] EXCEPT !.inbox = Append(stream[d][k].inbox, published + 1)]]
    BY <1>2 DEF Publish
  <2>2. [stream[d][k] EXCEPT !.inbox = Append(stream[d][k].inbox, published + 1)].st = stream[d][k].st
    BY <1>0, SMTT(40) DEF Streams
  <2>3. /\ [stream[d][k] EXCEPT !.inbox = Append(stream[d][k].inbox, published + 1)] # Off
        /\ stream[d][k] # Off
    BY <1>0, <1>2, <2>2 DEF Attached
  <2>4. stream[d] \in [Kinds -> Streams]
    BY DEF IInv, Types
  <2>5. \A j \in Kinds : stream'[d][j] = Off <=> stream[d][j] = Off
    BY <2>1, <2>3, <2>4
  <2> QED
    BY <1>1, <2>5, RoomKept
<1>3. CASE ~Attached(p, d, k)
  <2>1. stream'[d] = stream[d]
    BY <1>3 DEF Publish
  <2> QED
    BY <1>1, <2>1, RoomKept
<1> QED
  BY <1>2, <1>3

(* A goroutine that has failed never waits to report it: the error channel  *)
(* of its connection has room for as long as the goroutine runs, also when  *)
(* connect has returned and nobody reads the channel any more, and also in  *)
(* a slot used before.  So no goroutine is leaked (connect).                *)
THEOREM RoomSafe == Spec => []ErrorsHaveRoom
<1>1. Init => \A c \in Slots : RoomInv(c)
  <2> SUFFICES ASSUME Init, NEW c \in Slots PROVE RoomInv(c)
    OBVIOUS
  <2>1. errCh[c] = 0 /\ 0 <= 1
    BY SMTT(40) DEF Init
  <2> QED
    BY <2>1 DEF RoomInv
<1>2. IInv /\ (\A c \in Slots : RoomInv(c)) /\ [Next]_vars => (\A c \in Slots : RoomInv(c))'
  <2> SUFFICES ASSUME IInv, \A c \in Slots : RoomInv(c), [Next]_vars, NEW d \in Slots
               PROVE  RoomInv(d)'
    OBVIOUS
  <2>1. ASSUME UNCHANGED <<stream, errCh>>, UNCHANGED <<run, cur>> \/ run # "select" PROVE RoomInv(d)'
    BY <2>1, RoomKept
  <2>2. CASE Run
    <3>1. Wait => run # "select" /\ UNCHANGED <<stream, errCh>>
      <4>1. "backoff" # "select"
        BY SMTT(40)
      <4> QED
        BY <4>1 DEF Wait
    <3> QED
      BY <2>1, <2>2, <3>1, RoomConnect, RoomReturns DEF Run
  <2>3. ASSUME NEW c \in Slots, NEW k \in Kinds, Stream(c, k) \/ Fail(c, k, TRUE)
        PROVE  RoomInv(d)'
    <3>1. \E faulty \in BOOLEAN : Open(c, k) \/ Recv(c, k) \/ Fail(c, k, faulty)
      BY <2>3 DEF Stream
    <3>2. RoomInv(c) /\ RoomInv(d)
      OBVIOUS
    <3> QED
      BY <3>1, <3>2, RoomStream, RoomFail
  <2>4. ASSUME NEW p \in Controllers, NEW k \in Kinds, Publish(p, k) PROVE RoomInv(d)'
    BY <2>4, RoomPublish
  <2>5. ASSUME NEW p \in Controllers, Drain(p) \/ Drained(p) \/ Kill(p) \/ Start(p)
        PROVE  RoomInv(d)'
    BY <2>1, <2>5 DEF Drain, Drained, Kill, Start, clientVars
  <2>6. CASE Cancel \/ UNCHANGED vars
    BY <2>1, <2>6 DEF Cancel, vars, clientVars
  <2> QED
    BY <2>2, <2>3, <2>4, <2>5, <2>6 DEF Next
<1>3. IInv /\ (\A c \in Slots : RoomInv(c)) => ErrorsHaveRoom
  <2> SUFFICES ASSUME IInv, NEW c \in Slots, errCh[c] <= 1 PROVE errCh[c] < ErrChCap
    BY DEF RoomInv, ErrorsHaveRoom
  <2>1. errCh[c] \in 0 .. 2
    BY SMTT(40) DEF IInv, Types, ErrChCap
  <2> QED
    BY <2>1, SMTT(40) DEF ErrChCap
<1> QED
  BY <1>1, <1>2, <1>3, AlwaysIInv, PTL DEF Spec

=============================================================================
