------------------------------ MODULE A2818Proofs ------------------------------
(* Proofs about A2818 for any number of threads and slaves, any sizes of the *)
(* answers, and any calls, failures of the link and interrupts: a call       *)
(* returns its own answer.                                                   *)
EXTENDS A2818, SequenceTheorems, WellFoundedInduction, TLAPS

-----------------------------------------------------------------------------
(* dispatch_pkt() as a recursive function: the replies after each packet.    *)

(* A set of numbers has a least element.                                     *)
LEMMA LeastIn ==
  ASSUME NEW T, T \subseteq Nat, T # {}
  PROVE  \E m \in T : \A k \in T : m <= k
<1> DEFINE R == {ss \in Nat \X Nat : ss[1] < ss[2]}
<1>1. IsWellFoundedOn(R, Nat)
  BY NatLessThanWellFounded DEF OpToRel
<1>2. PICK x \in T : \A y \in T : ~(<<y, x>> \in R)
  BY <1>1, WFMin
<1>3. ASSUME NEW y \in T PROVE x <= y
  <2>1. x \in Nat /\ y \in Nat /\ <<y, x>> \notin R
    BY <1>2
  <2>2. <<y, x>> \in Nat \X Nat /\ <<y, x>>[1] = y /\ <<y, x>>[2] = x
    BY <2>1
  <2>3. ~(y < x)
    BY <2>1, <2>2
  <2> QED
    BY <2>1, <2>3
<1> QED
  BY <1>3

(* The replies after the first 0, 1, ..., m packets.                         *)
Steps(f, replies, packets, m) ==
  f = [n \in 0..m |->
        IF n = 0 THEN replies
        ELSE Deliver(f[n - 1], packets[n])]

(* The recursion has a solution: a shortest list of packets without one would *)
(* have one, that of its front and one step more.                            *)
LEMMA StepsExist ==
  ASSUME NEW replies, NEW packets, NEW l \in Nat
  PROVE  \E f : Steps(f, replies, packets, l)
<1> DEFINE T == {m \in Nat : ~ \E f : Steps(f, replies, packets, m)}
<1>1. SUFFICES ASSUME T # {} PROVE FALSE
  OBVIOUS
<1>2. PICK m \in T : \A k \in T : m <= k
  BY <1>1, LeastIn
<1>3. m \in Nat /\ ~ \E f : Steps(f, replies, packets, m)
  BY <1>2
<1>4. CASE m = 0
  <2> DEFINE g == [n \in 0..0 |-> replies]
  <2>1. Steps(g, replies, packets, 0)
    BY DEF Steps
  <2> QED
    BY <1>3, <1>4, <2>1
<1>5. CASE m # 0
  <2>1. m - 1 \in Nat /\ m - 1 \notin T
    BY <1>2, <1>3, <1>5
  <2>2. PICK f : Steps(f, replies, packets, m - 1)
    BY <2>1
  <2> DEFINE g == [n \in 0..m |->
        IF n = 0 THEN replies
        ELSE Deliver(f[n - 1], packets[n])]
  <2>3. \A n \in 0..(m - 1) : g[n] = f[n]
    BY <1>3, <2>1, <2>2 DEF Steps
  <2>4. \A n \in 0..m : n # 0 => g[n - 1] = f[n - 1]
    BY <1>3, <2>3
  <2>5. g = [n \in 0..m |->
        IF n = 0 THEN replies
        ELSE Deliver(g[n - 1], packets[n])]
    BY <2>4
  <2>6. Steps(g, replies, packets, m)
    BY <2>5 DEF Steps
  <2> QED
    BY <1>3, <2>6
<1> QED
  BY <1>4, <1>5

(* Dispatch(replies, packets) is the last of these.                          *)
LEMMA DispatchSteps ==
  ASSUME NEW replies, NEW packets, Len(packets) \in Nat
  PROVE  \E f : Steps(f, replies, packets, Len(packets)) /\ Dispatch(replies, packets) = f[Len(packets)]
<1>1. \E f : Steps(f, replies, packets, Len(packets))
  BY StepsExist
<1> DEFINE f == CHOOSE g : Steps(g, replies, packets, Len(packets))
<1>2. Steps(f, replies, packets, Len(packets))
  BY <1>1
<1>3. Dispatch(replies, packets) = f[Len(packets)]
  BY DEF Dispatch, Steps
<1> QED
  BY <1>2, <1>3

-----------------------------------------------------------------------------
(* Answers and where they are on their way.                                  *)

(* The reception buffers of a slave, by the fields of TypeOK.                *)
Replies == [buf : Seq(Packets), p : Nat, sz : Nat, ready : BOOLEAN]

(* The first n packets of the answer of slave s to call r. *)
Parts(s, r, n) == [k \in 1..n |-> [slave |-> s, call |-> r, part |-> k]]

(* The reply when p of them have been delivered. *)
Received(s, r, p) ==
  [buf |-> Parts(s, r, p), p |-> p, sz |-> p, ready |-> p = AnswerSize[r]]

(* The packets that have been received and not been delivered. *)
Stream == i_buf \o RXFIFO

(* The places in w of the packets of slave s.                                *)
Of(s, w) == {i \in 1..Len(w) : w[i].slave = s}

(* The packets of slave s in w are packets p + 1, p + 2, ... of its answer   *)
(* to call r, in this order.                                                 *)
InOrder(s, r, p, w) ==
  \A i \in Of(s, w) :
    /\ w[i].call = r /\ w[i].part \in (p + 1)..AnswerSize[r]
    /\ \A j \in Of(s, w) : j < i => w[j].part < w[i].part
    /\ w[i].part = p + 1 \/ \E j \in Of(s, w) : j < i /\ w[j].part = w[i].part - 1

(* And the last of them is packet k. *)
UpTo(s, p, k, w) ==
  /\ \A i \in Of(s, w) : w[i].part <= k
  /\ k = p \/ \E i \in Of(s, w) : w[i].part = k

(* A set of places that has 0 and, with each, the next has all.              *)
LEMMA Induction ==
  ASSUME NEW l \in Nat, NEW G, 0 \in G, \A n \in 1..l : n - 1 \in G => n \in G
  PROVE  0..l \subseteq G
<1> DEFINE T == {m \in 0..l : m \notin G}
<1>1. SUFFICES ASSUME T # {} PROVE FALSE
  OBVIOUS
<1>2. PICK m \in T : \A k \in T : m <= k
  <2>1. T \subseteq Nat
    OBVIOUS
  <2> HIDE DEF T
  <2> QED
    BY <1>1, <2>1, LeastIn
<1>3. m \in 0..l /\ m \notin G /\ m # 0
  OBVIOUS
<1>4. m - 1 \in 0..l /\ m - 1 \notin T /\ m \in 1..l
  BY <1>2, <1>3
<1> QED
  BY <1>3, <1>4

LEMMA SizeType ==
  ASSUME NEW r \in Calls
  PROVE  AnswerSize[r] \in Nat /\ AnswerSize[r] > 0
BY A2818Assumption

LEMMA PartsType ==
  ASSUME NEW s \in Slaves, NEW r \in Calls, NEW n \in Nat
  PROVE  /\ Parts(s, r, n) \in Seq(Packets) /\ Len(Parts(s, r, n)) = n
         /\ Append(Parts(s, r, n), [slave |-> s, call |-> r, part |-> n + 1]) = Parts(s, r, n + 1)
<1> DEFINE q(k) == [slave |-> s, call |-> r, part |-> k]
<1>1. \A k \in Nat : q(k) \in Packets
  BY DEF Packets
<1>2. ASSUME NEW m \in Nat PROVE Parts(s, r, m) \in Seq(Packets) /\ Len(Parts(s, r, m)) = m
  <2>1. Parts(s, r, m) \in [1..m -> Packets] /\ DOMAIN Parts(s, r, m) = 1..m
    BY <1>1 DEF Parts
  <2>2. Parts(s, r, m) \in Seq(Packets)
    BY <2>1, SeqDef
  <2>3. Len(Parts(s, r, m)) \in Nat /\ DOMAIN Parts(s, r, m) = 1..Len(Parts(s, r, m))
    BY <2>2, LenProperties
  <2> QED
    BY <2>1, <2>2, <2>3
<1> DEFINE a == Append(Parts(s, r, n), q(n + 1))
<1>3. /\ a \in Seq(Packets) /\ Len(a) = n + 1 /\ a[n + 1] = q(n + 1)
      /\ \A i \in 1..n : a[i] = Parts(s, r, n)[i]
  BY <1>1, <1>2, AppendProperties
<1>4. n + 1 \in Nat /\ \A i \in 1..n : Parts(s, r, n)[i] = q(i) /\ Parts(s, r, n + 1)[i] = q(i)
  BY DEF Parts
<1>5. Parts(s, r, n + 1)[n + 1] = q(n + 1)
  BY DEF Parts
<1>6. Parts(s, r, n + 1) \in Seq(Packets) /\ Len(Parts(s, r, n + 1)) = n + 1
  BY <1>2, <1>4
<1> HIDE DEF a, q
<1>7. \A i \in 1..(n + 1) : a[i] = Parts(s, r, n + 1)[i]
  BY <1>3, <1>4, <1>5
<1>8. a = Parts(s, r, n + 1)
  BY <1>3, <1>6, <1>7, SeqEqual
<1> QED
  BY <1>2, <1>8 DEF a, q

LEMMA PutType ==
  ASSUME NEW x \in Replies, NEW packet \in Packets
  PROVE  Put(x, packet) \in Replies
<1>1. x.buf \in Seq(Packets) /\ x.p \in Nat /\ x.sz \in Nat /\ x.ready \in BOOLEAN
  BY DEF Replies
<1>2. Append(x.buf, packet) \in Seq(Packets) /\ Len(x.buf) \in Nat
  BY <1>1, AppendProperties, LenProperties
<1>3. x.p < Len(x.buf) => [x.buf EXCEPT ![x.p + 1] = packet] \in Seq(Packets)
  <2>1. x.p < Len(x.buf) => x.p + 1 \in 1..Len(x.buf)
    BY <1>1, <1>2
  <2> QED
    BY <1>1, <2>1, ExceptSeq
<1> DEFINE b == IF x.p < Len(x.buf) THEN [x.buf EXCEPT ![x.p + 1] = packet]
                ELSE Append(x.buf, packet)
           d == x.ready \/ packet.part = AnswerSize[packet.call]
<1>4. b \in Seq(Packets) /\ d \in BOOLEAN
  BY <1>1, <1>2, <1>3
<1>5. Put(x, packet) = [buf |-> b, p |-> x.p + 1, sz |-> x.sz + 1, ready |-> d]
  BY DEF Put
<1> HIDE DEF b, d
<1> QED
  BY <1>1, <1>4, <1>5 DEF Replies

(* The next packet of an answer is put behind those that are there; the last *)
(* makes it ready.                                                           *)
LEMMA PutReceived ==
  ASSUME NEW s \in Slaves, NEW r \in Calls, NEW p \in Nat, p < AnswerSize[r]
  PROVE  Put(Received(s, r, p), [slave |-> s, call |-> r, part |-> p + 1]) = Received(s, r, p + 1)
<1> DEFINE k == [slave |-> s, call |-> r, part |-> p + 1]
           b == Parts(s, r, p)
<1>1. Len(b) = p /\ Append(b, k) = Parts(s, r, p + 1)
  BY PartsType
<1>2. (p = AnswerSize[r] \/ k.part = AnswerSize[k.call]) = (p + 1 = AnswerSize[r])
  BY SizeType
<1>3. ~(p < Len(b))
  BY <1>1
<1> HIDE DEF b, k
<1>4. Put([buf |-> b, p |-> p, sz |-> p, ready |-> p = AnswerSize[r]], k)
      = [buf |-> Append(b, k), p |-> p + 1, sz |-> p + 1,
         ready |-> p = AnswerSize[r] \/ k.part = AnswerSize[k.call]]
  BY <1>3 DEF Put
<1> QED
  BY <1>1, <1>2, <1>4 DEF Received, b, k

(* A packet changes the reply of its own slave only.                         *)
LEMMA DeliverElsewhere ==
  ASSUME NEW replies \in [Slaves -> Replies], NEW packet \in Packets
  PROVE  /\ Deliver(replies, packet) \in [Slaves -> Replies]
         /\ \A s \in Slaves : s # packet.slave => Deliver(replies, packet)[s] = replies[s]
         /\ Deliver(replies, packet)[packet.slave] = Put(replies[packet.slave], packet)
<1>1. packet.slave \in Slaves
  BY DEF Packets
<1>2. Put(replies[packet.slave], packet) \in Replies
  BY <1>1, PutType
<1> QED
  BY <1>1, <1>2 DEF Deliver

(* What dispatching does, packet after packet. *)
LEMMA DispatchType ==
  ASSUME NEW replies \in [Slaves -> Replies], NEW a \in Seq(Packets),
         NEW f, Steps(f, replies, a, Len(a))
  PROVE  /\ Len(a) \in Nat /\ f[0] = replies
         /\ \A n \in 0..Len(a) : f[n] \in [Slaves -> Replies]
         /\ \A n \in 1..Len(a) : n - 1 \in 0..Len(a) /\ f[n] = Deliver(f[n - 1], a[n]) /\ a[n] \in Packets
<1>1. Len(a) \in Nat /\ \A n \in 1..Len(a) : a[n] \in Packets
  BY LenProperties, ElementOfSeq
<1>2. /\ f[0] = replies
      /\ \A n \in 1..Len(a) : n - 1 \in 0..Len(a) /\ f[n] = Deliver(f[n - 1], a[n])
  <2>1. 0 \in 0..Len(a) /\ \A n \in 1..Len(a) : n \in 0..Len(a) /\ n - 1 \in 0..Len(a) /\ n # 0
    BY <1>1
  <2>2. \A n \in 0..Len(a) : f[n] = IF n = 0 THEN replies ELSE Deliver(f[n - 1], a[n])
    BY DEF Steps
  <2> QED
    BY <2>1, <2>2
<1> DEFINE G == {n \in 0..Len(a) : f[n] \in [Slaves -> Replies]}
<1>3. 0 \in G
  BY <1>1, <1>2
<1>4. ASSUME NEW n \in 1..Len(a), n - 1 \in G PROVE n \in G
  <2>1. f[n - 1] \in [Slaves -> Replies] /\ a[n] \in Packets /\ n \in 0..Len(a)
    BY <1>1, <1>4
  <2>2. Deliver(f[n - 1], a[n]) \in [Slaves -> Replies]
    BY <2>1, DeliverElsewhere
  <2> QED
    BY <1>2, <2>1, <2>2
<1> HIDE DEF G
<1>5. 0..Len(a) \subseteq G
  BY <1>1, <1>3, <1>4, Induction
<1> QED
  BY <1>1, <1>2, <1>5 DEF G

-----------------------------------------------------------------------------
(* One packet of the stream is delivered.                                    *)

(* The places of the packets of a slave move by one.                         *)
LEMMA TailOf ==
  ASSUME NEW s \in Slaves, NEW w \in Seq(Packets), w # <<>>
  PROVE  /\ Len(w) \in Nat /\ 1 \in 1..Len(w) /\ w[1] \in Packets
         /\ Tail(w) \in Seq(Packets)
         /\ \A i \in Of(s, Tail(w)) : i \in Nat /\ i + 1 \in Of(s, w) /\ Tail(w)[i] = w[i + 1]
         /\ \A i \in Of(s, w) : i # 1 => i - 1 \in Of(s, Tail(w)) /\ Tail(w)[i - 1] = w[i]
<1>1. Len(w) \in Nat /\ Len(w) > 0
  BY EmptySeq, LenProperties
<1>2. w[1] \in Packets
  BY <1>1, ElementOfSeq
<1>3. /\ Tail(w) \in Seq(Packets) /\ Len(Tail(w)) = Len(w) - 1
      /\ \A i \in 1..Len(Tail(w)) : Tail(w)[i] = w[i + 1]
  BY HeadTailProperties
<1>4. \A i \in Of(s, Tail(w)) : i \in Nat /\ i + 1 \in Of(s, w) /\ Tail(w)[i] = w[i + 1]
  BY <1>1, <1>3 DEF Of
<1>5. ASSUME NEW i \in Of(s, w), i # 1 PROVE i - 1 \in Of(s, Tail(w)) /\ Tail(w)[i - 1] = w[i]
  <2>1. i \in 1..Len(w) /\ w[i].slave = s /\ i - 1 \in 1..(Len(w) - 1) /\ (i - 1) + 1 = i
    BY <1>1, <1>5 DEF Of
  <2>2. Tail(w)[i - 1] = w[(i - 1) + 1]
    BY <1>3, <2>1
  <2> QED
    BY <1>3, <2>1, <2>2 DEF Of
<1>6. 1 \in 1..Len(w)
  BY <1>1
<1> QED
  BY ONLY <1>1, <1>2, <1>3, <1>4, <1>5, <1>6

(* The packet at the head of the stream is for another slave. *)
LEMMA AdvanceOther ==
  ASSUME NEW s \in Slaves, NEW r \in Calls, NEW p \in Nat, NEW w \in Seq(Packets), w # <<>>,
         w[1].slave # s, InOrder(s, r, p, w)
  PROVE  /\ InOrder(s, r, p, Tail(w))
         /\ \A k \in Nat : UpTo(s, p, k, w) => UpTo(s, p, k, Tail(w))
<1> DEFINE v == Tail(w)
<1>1. /\ \A i \in Of(s, v) : i \in Nat /\ i + 1 \in Of(s, w) /\ v[i] = w[i + 1]
      /\ \A i \in Of(s, w) : i \in Nat /\ i # 1 /\ i - 1 \in Of(s, v) /\ v[i - 1] = w[i]
  BY TailOf DEF Of
<1> HIDE DEF v
<1>2. ASSUME NEW i \in Of(s, v)
      PROVE  /\ v[i].call = r /\ v[i].part \in (p + 1)..AnswerSize[r]
             /\ \A j \in Of(s, v) : j < i => v[j].part < v[i].part
             /\ v[i].part = p + 1 \/ \E j \in Of(s, v) : j < i /\ v[j].part = v[i].part - 1
  <2>1. i \in Nat /\ i + 1 \in Of(s, w) /\ v[i] = w[i + 1]
    BY <1>1
  <2>2. /\ w[i + 1].call = r /\ w[i + 1].part \in (p + 1)..AnswerSize[r]
        /\ \A j \in Of(s, w) : j < i + 1 => w[j].part < w[i + 1].part
        /\ w[i + 1].part = p + 1 \/ \E j \in Of(s, w) : j < i + 1 /\ w[j].part = w[i + 1].part - 1
    BY <2>1 DEF InOrder
  <2>3. ASSUME NEW j \in Of(s, v), j < i PROVE v[j].part < v[i].part
    <3>1. j \in Nat /\ j + 1 \in Of(s, w) /\ v[j] = w[j + 1] /\ j + 1 < i + 1
      BY <1>1, <2>1, <2>3
    <3> QED
      BY <2>1, <2>2, <3>1
  <2>4. ASSUME NEW j \in Of(s, w), j < i + 1, w[j].part = w[i + 1].part - 1
        PROVE  \E m \in Of(s, v) : m < i /\ v[m].part = v[i].part - 1
    <3>1. j \in Nat /\ j - 1 \in Of(s, v) /\ v[j - 1] = w[j] /\ j - 1 < i
      BY <1>1, <2>1, <2>4
    <3> QED
      BY <2>1, <2>4, <3>1
  <2> QED
    BY <2>1, <2>2, <2>3, <2>4
<1>3. ASSUME NEW k \in Nat, UpTo(s, p, k, w) PROVE UpTo(s, p, k, v)
  <2>1. \A i \in Of(s, v) : v[i].part <= k
    BY <1>1, <1>3 DEF UpTo
  <2>2. ASSUME NEW i \in Of(s, w), w[i].part = k PROVE \E j \in Of(s, v) : v[j].part = k
    BY <1>1, <2>2
  <2> QED
    BY <1>3, <2>1, <2>2 DEF UpTo
<1> QED
  BY <1>2, <1>3 DEF InOrder, v

(* It is for s: it is the next of its answer. *)
LEMMA AdvanceOwn ==
  ASSUME NEW s \in Slaves, NEW r \in Calls, NEW p \in Nat, NEW w \in Seq(Packets), w # <<>>,
         w[1].slave = s, InOrder(s, r, p, w)
  PROVE  /\ w[1] = [slave |-> s, call |-> r, part |-> p + 1] /\ p + 1 <= AnswerSize[r]
         /\ InOrder(s, r, p + 1, Tail(w))
         /\ \A k \in Nat : UpTo(s, p, k, w) => p + 1 <= k /\ UpTo(s, p + 1, k, Tail(w))
<1> DEFINE v == Tail(w)
<1>1. /\ 1 \in Of(s, w) /\ w[1] \in Packets
      /\ \A i \in Of(s, v) : i \in Nat /\ i > 0 /\ i + 1 \in Of(s, w) /\ v[i] = w[i + 1]
      /\ \A i \in Of(s, w) : i \in Nat /\ i > 0 /\ (i # 1 => i - 1 \in Of(s, v) /\ v[i - 1] = w[i])
  <2>1. \A i \in Of(s, v) : i \in 1..Len(v)
    BY DEF Of
  <2>2. \A i \in Of(s, w) : i \in 1..Len(w)
    BY DEF Of
  <2>3. 1 \in Of(s, w)
    BY TailOf DEF Of
  <2> HIDE DEF v
  <2> QED
    BY <2>1, <2>2, <2>3, TailOf DEF v
<1>2. w[1].call = r /\ w[1].part = p + 1 /\ p + 1 <= AnswerSize[r]
  <2>1. /\ w[1].call = r /\ w[1].part \in (p + 1)..AnswerSize[r]
        /\ w[1].part = p + 1 \/ \E j \in Of(s, w) : j < 1 /\ w[j].part = w[1].part - 1
    BY <1>1 DEF InOrder
  <2>2. \A j \in Of(s, w) : ~(j < 1)
    BY <1>1
  <2> QED
    BY <2>1, <2>2, SizeType
<1>3. w[1] = [slave |-> s, call |-> r, part |-> p + 1]
  BY <1>1, <1>2 DEF Packets
<1> HIDE DEF v
<1>4. ASSUME NEW i \in Of(s, v)
      PROVE  /\ v[i].call = r /\ v[i].part \in (p + 2)..AnswerSize[r]
             /\ \A j \in Of(s, v) : j < i => v[j].part < v[i].part
             /\ v[i].part = p + 2 \/ \E j \in Of(s, v) : j < i /\ v[j].part = v[i].part - 1
  <2>1. i \in Nat /\ i > 0 /\ i + 1 \in Of(s, w) /\ v[i] = w[i + 1]
    BY <1>1
  <2>2. /\ w[i + 1].call = r /\ w[i + 1].part \in (p + 1)..AnswerSize[r]
        /\ \A j \in Of(s, w) : j < i + 1 => w[j].part < w[i + 1].part
        /\ w[i + 1].part = p + 1 \/ \E j \in Of(s, w) : j < i + 1 /\ w[j].part = w[i + 1].part - 1
    BY <2>1 DEF InOrder
  <2>3. p + 1 < v[i].part
    BY <1>1, <1>2, <2>1, <2>2
  <2>4. ASSUME NEW j \in Of(s, v), j < i PROVE v[j].part < v[i].part
    <3>1. j \in Nat /\ j + 1 \in Of(s, w) /\ v[j] = w[j + 1] /\ j + 1 < i + 1
      BY <1>1, <2>1, <2>4
    <3> QED
      BY <2>1, <2>2, <3>1
  <2>5. v[i].part = p + 2 \/ \E j \in Of(s, v) : j < i /\ v[j].part = v[i].part - 1
    <3>1. PICK j \in Of(s, w) : j < i + 1 /\ w[j].part = w[i + 1].part - 1
      BY <2>1, <2>2, <2>3
    <3>2. CASE j = 1
      BY <1>2, <2>1, <2>2, <3>1, <3>2, SizeType
    <3>3. CASE j # 1
      <4>1. j \in Nat /\ j - 1 \in Of(s, v) /\ v[j - 1] = w[j] /\ j - 1 < i
        BY <1>1, <2>1, <3>1, <3>3
      <4> QED
        BY <2>1, <3>1, <4>1
    <3> QED
      BY <3>2, <3>3
  <2>6. v[i].part \in (p + 2)..AnswerSize[r]
    BY <2>1, <2>2, <2>3, SizeType
  <2> QED
    BY <2>1, <2>2, <2>4, <2>5, <2>6
<1>5. InOrder(s, r, p + 1, v)
  <2>1. (p + 1) + 1 = p + 2
    OBVIOUS
  <2> QED
    BY <1>4, <2>1 DEF InOrder
<1>6. ASSUME NEW k \in Nat, UpTo(s, p, k, w) PROVE p + 1 <= k /\ UpTo(s, p + 1, k, v)
  <2>1. p + 1 <= k
    BY <1>1, <1>2, <1>6 DEF UpTo
  <2>2. \A i \in Of(s, v) : v[i].part <= k
    BY <1>1, <1>6 DEF UpTo
  <2>3. PICK i \in Of(s, w) : w[i].part = k
    BY <1>6, <2>1 DEF UpTo
  <2>4. k = p + 1 \/ \E j \in Of(s, v) : v[j].part = k
    BY <1>1, <1>2, <2>3
  <2> QED
    BY <2>1, <2>2, <2>4 DEF UpTo
<1> QED
  BY <1>2, <1>3, <1>5, <1>6 DEF v

-----------------------------------------------------------------------------
(* The packets of a transfer are delivered, and those behind them stay.      *)

(* From replies rep and stream w the reception comes to rep2 and w2, as far  *)
(* as slave s is concerned: what was quiet stays quiet, and an answer is     *)
(* continued where it was.                                                   *)
Follows(s, rep, w, rep2, w2) ==
  /\ Of(s, w) = {} => rep2[s] = rep[s] /\ Of(s, w2) = {}
  /\ \A r \in Calls, p \in Nat :
       (p <= AnswerSize[r] /\ rep[s] = Received(s, r, p) /\ InOrder(s, r, p, w))
       => \E q \in Nat :
            /\ p <= q /\ q <= AnswerSize[r]
            /\ rep2[s] = Received(s, r, q) /\ InOrder(s, r, q, w2)
            /\ \A k \in Nat : p <= k /\ UpTo(s, p, k, w) => q <= k /\ UpTo(s, q, k, w2)
            /\ Of(s, w) = {} => q = p

LEMMA FollowsItself ==
  ASSUME NEW s, NEW rep, NEW w
  PROVE  Follows(s, rep, w, rep, w)
BY DEF Follows

LEMMA FollowsTransitive ==
  ASSUME NEW s, NEW rep1, NEW w1, NEW rep2, NEW w2, NEW rep3, NEW w3,
         Follows(s, rep1, w1, rep2, w2), Follows(s, rep2, w2, rep3, w3)
  PROVE  Follows(s, rep1, w1, rep3, w3)
<1>1. Of(s, w1) = {} => rep3[s] = rep1[s] /\ Of(s, w3) = {} /\ Of(s, w2) = {}
  BY DEF Follows
<1>2. ASSUME NEW r \in Calls, NEW p \in Nat, p <= AnswerSize[r],
             rep1[s] = Received(s, r, p), InOrder(s, r, p, w1)
      PROVE  \E q \in Nat :
               /\ p <= q /\ q <= AnswerSize[r]
               /\ rep3[s] = Received(s, r, q) /\ InOrder(s, r, q, w3)
               /\ \A k \in Nat : p <= k /\ UpTo(s, p, k, w1) => q <= k /\ UpTo(s, q, k, w3)
               /\ Of(s, w1) = {} => q = p
  <2>1. PICK q \in Nat :
          /\ p <= q /\ q <= AnswerSize[r]
          /\ rep2[s] = Received(s, r, q) /\ InOrder(s, r, q, w2)
          /\ \A k \in Nat : p <= k /\ UpTo(s, p, k, w1) => q <= k /\ UpTo(s, q, k, w2)
          /\ Of(s, w1) = {} => q = p
    BY <1>2 DEF Follows
  <2>2. PICK z \in Nat :
          /\ q <= z /\ z <= AnswerSize[r]
          /\ rep3[s] = Received(s, r, z) /\ InOrder(s, r, z, w3)
          /\ \A k \in Nat : q <= k /\ UpTo(s, q, k, w2) => z <= k /\ UpTo(s, z, k, w3)
          /\ Of(s, w2) = {} => z = q
    BY <2>1 DEF Follows
  <2>3. p <= z
    BY <2>1, <2>2
  <2>4. \A k \in Nat : p <= k /\ UpTo(s, p, k, w1) => z <= k /\ UpTo(s, z, k, w3)
    BY <2>1, <2>2
  <2>5. Of(s, w1) = {} => z = p
    BY <1>1, <2>1, <2>2
  <2> QED
    BY <2>2, <2>3, <2>4, <2>5
<1> QED
  BY <1>1, <1>2 DEF Follows

(* One packet. *)
LEMMA DeliverFollows ==
  ASSUME NEW s \in Slaves, NEW rep \in [Slaves -> Replies], NEW w \in Seq(Packets), w # <<>>
  PROVE  Follows(s, rep, w, Deliver(rep, w[1]), Tail(w))
<1> DEFINE d == Deliver(rep, w[1])
<1>1. w[1] \in Packets /\ Tail(w) \in Seq(Packets)
  BY TailOf
<1>2. /\ w[1].slave # s => d[s] = rep[s]
      /\ d[w[1].slave] = Put(rep[w[1].slave], w[1])
  BY <1>1, DeliverElsewhere
<1> HIDE DEF d
<1>3. Of(s, w) = {} => w[1].slave # s /\ Of(s, Tail(w)) = {}
  <2>1. 1 \in 1..Len(w) /\ \A i \in Of(s, Tail(w)) : i + 1 \in Of(s, w)
    BY TailOf
  <2> QED
    BY <2>1 DEF Of
<1>4. ASSUME NEW r \in Calls, NEW p \in Nat, p <= AnswerSize[r],
             rep[s] = Received(s, r, p), InOrder(s, r, p, w)
      PROVE  \E q \in Nat :
               /\ p <= q /\ q <= AnswerSize[r]
               /\ d[s] = Received(s, r, q) /\ InOrder(s, r, q, Tail(w))
               /\ \A k \in Nat : p <= k /\ UpTo(s, p, k, w) => q <= k /\ UpTo(s, q, k, Tail(w))
               /\ Of(s, w) = {} => q = p
  <2>1. CASE w[1].slave # s
    <3>1. /\ InOrder(s, r, p, Tail(w))
          /\ \A k \in Nat : UpTo(s, p, k, w) => UpTo(s, p, k, Tail(w))
      BY <1>4, <2>1, AdvanceOther
    <3>2. d[s] = Received(s, r, p)
      BY <1>2, <1>4, <2>1
    <3> QED
      BY <1>4, <3>1, <3>2
  <2>2. CASE w[1].slave = s
    <3>1. /\ w[1] = [slave |-> s, call |-> r, part |-> p + 1] /\ p + 1 <= AnswerSize[r]
          /\ InOrder(s, r, p + 1, Tail(w))
          /\ \A k \in Nat : UpTo(s, p, k, w) => p + 1 <= k /\ UpTo(s, p + 1, k, Tail(w))
      BY <1>4, <2>2, AdvanceOwn
    <3>2. p < AnswerSize[r]
      BY <3>1, SizeType
    <3>3. Put(Received(s, r, p), [slave |-> s, call |-> r, part |-> p + 1]) = Received(s, r, p + 1)
      BY <3>2, PutReceived
    <3>4. d[s] = Received(s, r, p + 1)
      BY <1>2, <1>4, <2>2, <3>1, <3>3
    <3>5. p + 1 \in Nat /\ p <= p + 1
      OBVIOUS
    <3>6. Of(s, w) # {}
      BY <1>3, <2>2
    <3> QED
      BY <3>1, <3>4, <3>5, <3>6
  <2> QED
    BY <2>1, <2>2
<1>5. Of(s, w) = {} => d[s] = rep[s] /\ Of(s, Tail(w)) = {}
  BY <1>2, <1>3
<1>6. Follows(s, rep, w, d, Tail(w))
  BY <1>4, <1>5 DEF Follows
<1> QED
  BY <1>6 DEF d

(* What is left after the first packets of a transfer.                       *)
LEMMA RestOf ==
  ASSUME NEW a \in Seq(Packets), NEW b \in Seq(Packets), NEW n \in 1..Len(a)
  PROVE  LET rest(m) == SubSeq(a \o b, m + 1, Len(a \o b)) IN
         /\ rest(n - 1) \in Seq(Packets) /\ rest(n - 1) # <<>>
         /\ rest(n - 1)[1] = a[n] /\ Tail(rest(n - 1)) = rest(n)
<1> DEFINE w == a \o b
           l == Len(a) + Len(b)
<1>1. /\ w \in Seq(Packets) /\ Len(w) = l /\ l \in Nat /\ Len(a) \in Nat /\ Len(b) \in Nat
      /\ w[n] = a[n]
  <2>1. Len(a) \in Nat /\ Len(b) \in Nat
    BY LenProperties
  <2>2. n \in 1..l /\ n <= Len(a)
    BY <2>1
  <2> QED
    BY <2>1, <2>2, ConcatProperties
<1> HIDE DEF w, l
<1>2. n \in 1..Len(w) /\ Len(w) \in n..Len(w) /\ (n - 1) + 1 = n /\ n \in Int /\ Len(w) \in Int
  BY <1>1 DEF l
<1> DEFINE x == SubSeq(w, n, Len(w))
<1>3. \A i \in n..Len(w) : w[i] \in Packets
  <2>1. \A i \in n..Len(w) : i \in 1..Len(w)
    BY <1>2
  <2> QED
    BY <1>1, <2>1, ElementOfSeq
<1>4. /\ x \in Seq(Packets) /\ Len(x) = IF n <= Len(w) THEN Len(w) - n + 1 ELSE 0
  BY <1>2, <1>3, SubSeqProperties
<1>5. x # <<>>
  <2>1. Len(x) # 0
    BY <1>2, <1>4
  <2> QED
    BY <2>1, EmptySeq
<1>6. Head(x) = w[n] /\ Tail(x) = SubSeq(w, n + 1, Len(w))
  BY <1>1, <1>2, HeadTailOfSubSeq
<1>7. Head(x) = x[1]
  BY <1>4, <1>5
<1>8. /\ SubSeq(w, (n - 1) + 1, Len(w)) = x
  BY <1>2
<1> HIDE DEF x
<1> QED
  BY <1>1, <1>4, <1>5, <1>6, <1>7, <1>8 DEF w

LEMMA ConcatRest ==
  ASSUME NEW a \in Seq(Packets), NEW b \in Seq(Packets)
  PROVE  /\ SubSeq(a \o b, 1, Len(a \o b)) = a \o b
         /\ SubSeq(a \o b, Len(a) + 1, Len(a \o b)) = b
<1> DEFINE w == a \o b
<1>1. /\ w \in Seq(Packets) /\ Len(w) = Len(a) + Len(b) /\ Len(a) \in Nat /\ Len(b) \in Nat
      /\ \A i \in 1..(Len(a) + Len(b)) : w[i] = IF i <= Len(a) THEN a[i] ELSE b[i - Len(a)]
  BY ConcatProperties, LenProperties
<1> HIDE DEF w
<1>2. SubSeq(w, 1, Len(w)) = w
  BY <1>1, SubSeqFull
<1> DEFINE m == Len(a) + 1
           x == SubSeq(w, m, Len(w))
<1>3. \A i \in m..Len(w) : w[i] \in Packets
  <2>1. \A i \in m..Len(w) : i \in 1..Len(w)
    BY <1>1
  <2> QED
    BY <1>1, <2>1, ElementOfSeq
<1>4. m \in Int /\ Len(w) \in Int
  BY <1>1
<1> HIDE DEF m
<1>5. /\ x \in Seq(Packets) /\ Len(x) = IF m <= Len(w) THEN Len(w) - m + 1 ELSE 0
      /\ \A i \in 1..(Len(w) - m + 1) : x[i] = w[m + i - 1]
  BY <1>3, <1>4, SubSeqProperties
<1> HIDE DEF x
<1>6. Len(x) = Len(b) /\ Len(w) - m + 1 = Len(b)
  BY <1>1, <1>5 DEF m
<1>7. \A i \in 1..Len(b) : x[i] = b[i]
  <2> TAKE i \in 1..Len(b)
  <2> DEFINE j == m + i - 1
  <2>1. j \in 1..(Len(a) + Len(b)) /\ ~(j <= Len(a)) /\ j - Len(a) = i
    BY <1>1 DEF m
  <2>2. x[i] = w[j]
    BY <1>5, <1>6
  <2> HIDE DEF j
  <2>3. w[j] = b[j - Len(a)]
    BY <1>1, <2>1
  <2> QED
    BY <2>1, <2>2, <2>3
<1>8. x = b
  BY <1>5, <1>6, <1>7, SeqEqual
<1> QED
  BY <1>2, <1>8 DEF w, x, m

(* All packets of a transfer: what slave s gets continues its answer.        *)
LEMMA DispatchFollows ==
  ASSUME NEW rep \in [Slaves -> Replies], NEW a \in Seq(Packets), NEW b \in Seq(Packets)
  PROVE  /\ Dispatch(rep, a) \in [Slaves -> Replies]
         /\ \A s \in Slaves : Follows(s, rep, a \o b, Dispatch(rep, a), b)
<1>1. Len(a) \in Nat
  BY LenProperties
<1>2. PICK f : Steps(f, rep, a, Len(a)) /\ Dispatch(rep, a) = f[Len(a)]
  BY <1>1, DispatchSteps
<1>3. /\ f[0] = rep /\ \A n \in 0..Len(a) : f[n] \in [Slaves -> Replies]
      /\ \A n \in 1..Len(a) : n - 1 \in 0..Len(a) /\ f[n] = Deliver(f[n - 1], a[n]) /\ a[n] \in Packets
  BY <1>2, DispatchType
<1> DEFINE rest(m) == SubSeq(a \o b, m + 1, Len(a \o b))
<1>4. rest(0) = a \o b /\ rest(Len(a)) = b
  <2>1. 0 + 1 = 1
    OBVIOUS
  <2>2. rest(0) = SubSeq(a \o b, 1, Len(a \o b))
    BY <2>1
  <2>3. rest(Len(a)) = SubSeq(a \o b, Len(a) + 1, Len(a \o b))
    OBVIOUS
  <2> HIDE DEF rest
  <2> QED
    BY <2>2, <2>3, ConcatRest
<1>5. \A n \in 1..Len(a) : /\ rest(n - 1) \in Seq(Packets) /\ rest(n - 1) # <<>>
                           /\ rest(n - 1)[1] = a[n] /\ Tail(rest(n - 1)) = rest(n)
  BY RestOf
<1> HIDE DEF rest
<1>6. ASSUME NEW s \in Slaves PROVE Follows(s, rep, a \o b, Dispatch(rep, a), b)
  <2> DEFINE G == {n \in 0..Len(a) : Follows(s, rep, a \o b, f[n], rest(n))}
  <2>1. 0 \in G
    <3>1. Follows(s, rep, a \o b, rep, a \o b)
      BY FollowsItself
    <3>2. Follows(s, rep, a \o b, f[0], rest(0))
      BY <1>3, <1>4, <3>1
    <3> QED
      BY <1>1, <3>2
  <2>2. ASSUME NEW n \in 1..Len(a), n - 1 \in G PROVE n \in G
    <3>1. f[n - 1] \in [Slaves -> Replies] /\ f[n] = Deliver(f[n - 1], a[n])
      BY <1>3
    <3>2. /\ rest(n - 1) \in Seq(Packets) /\ rest(n - 1) # <<>>
          /\ rest(n - 1)[1] = a[n] /\ Tail(rest(n - 1)) = rest(n)
      BY <1>5
    <3>3. Follows(s, f[n - 1], rest(n - 1), f[n], rest(n))
      BY <3>1, <3>2, DeliverFollows
    <3>4. Follows(s, rep, a \o b, f[n - 1], rest(n - 1))
      BY <2>2
    <3>5. Follows(s, rep, a \o b, f[n], rest(n))
      BY <3>3, <3>4, FollowsTransitive
    <3>6. n \in 0..Len(a)
      BY <1>1
    <3> QED
      BY <3>5, <3>6
  <2> HIDE DEF G
  <2>3. 0..Len(a) \subseteq G
    BY <1>1, <2>1, <2>2, Induction
  <2>4. Len(a) \in G
    BY <1>1, <2>3
  <2> QED
    BY <1>2, <1>4, <2>4 DEF G
<1> QED
  BY <1>1, <1>2, <1>3, <1>6

(* Packets of other slaves are lost: nothing changes for s. *)
LEMMA DropFollows ==
  ASSUME NEW s \in Slaves, NEW a \in Seq(Packets), NEW b \in Seq(Packets), Of(s, a) = {}
  PROVE  \A rep : Follows(s, rep, a \o b, rep, b)
<1> DEFINE w == a \o b
           l == Len(a)
<1>1. /\ l \in Nat /\ Len(b) \in Nat /\ Len(w) = l + Len(b)
      /\ \A i \in 1..(l + Len(b)) : w[i] = IF i <= l THEN a[i] ELSE b[i - l]
  BY ConcatProperties, LenProperties
<1> HIDE DEF w, l
<1>2. ASSUME NEW i \in Of(s, w)
      PROVE  i \in Nat /\ i > l /\ i - l \in Of(s, b) /\ b[i - l] = w[i]
  <2>1. i \in 1..(l + Len(b)) /\ w[i].slave = s
    BY <1>1 DEF Of
  <2>2. ~(i <= l)
    <3>1. i <= l => i \in 1..Len(a) /\ w[i] = a[i]
      BY <1>1, <2>1 DEF l
    <3> QED
      BY <2>1, <3>1 DEF Of
  <2> QED
    BY <1>1, <2>1, <2>2 DEF Of
<1>3. ASSUME NEW i \in Of(s, b)
      PROVE  i \in Nat /\ i + l \in Of(s, w) /\ w[i + l] = b[i]
  <2>1. i \in 1..Len(b) /\ b[i].slave = s
    BY DEF Of
  <2>2. i + l \in 1..(l + Len(b)) /\ ~(i + l <= l) /\ (i + l) - l = i
    BY <1>1, <2>1
  <2>3. w[i + l] = b[i]
    BY <1>1, <2>2
  <2> QED
    BY <1>1, <2>1, <2>2, <2>3 DEF Of
<1>4. ASSUME NEW r, NEW p, InOrder(s, r, p, w) PROVE InOrder(s, r, p, b)
  <2>1. ASSUME NEW i \in Of(s, b)
        PROVE  /\ b[i].call = r /\ b[i].part \in (p + 1)..AnswerSize[r]
               /\ \A j \in Of(s, b) : j < i => b[j].part < b[i].part
               /\ b[i].part = p + 1 \/ \E j \in Of(s, b) : j < i /\ b[j].part = b[i].part - 1
    <3>1. i \in Nat /\ i + l \in Of(s, w) /\ w[i + l] = b[i]
      BY <1>3
    <3>2. /\ w[i + l].call = r /\ w[i + l].part \in (p + 1)..AnswerSize[r]
          /\ \A j \in Of(s, w) : j < i + l => w[j].part < w[i + l].part
          /\ w[i + l].part = p + 1 \/ \E j \in Of(s, w) : j < i + l /\ w[j].part = w[i + l].part - 1
      BY <1>4, <3>1 DEF InOrder
    <3>3. ASSUME NEW j \in Of(s, b), j < i PROVE b[j].part < b[i].part
      <4>1. j \in Nat /\ j + l \in Of(s, w) /\ w[j + l] = b[j] /\ j + l < i + l
        BY <1>1, <1>3, <3>1, <3>3
      <4> QED
        BY <3>1, <3>2, <4>1
    <3>4. ASSUME NEW j \in Of(s, w), j < i + l, w[j].part = w[i + l].part - 1
          PROVE  \E m \in Of(s, b) : m < i /\ b[m].part = b[i].part - 1
      <4>1. j \in Nat /\ j - l \in Of(s, b) /\ b[j - l] = w[j] /\ j - l < i
        BY <1>1, <1>2, <3>1, <3>4
      <4> QED
        BY <3>1, <3>4, <4>1
    <3> QED
      BY <3>1, <3>2, <3>3, <3>4
  <2> QED
    BY <2>1 DEF InOrder
<1>5. ASSUME NEW p, NEW k, UpTo(s, p, k, w) PROVE UpTo(s, p, k, b)
  <2>1. \A i \in Of(s, b) : b[i].part <= k
    BY <1>3, <1>5 DEF UpTo
  <2>2. ASSUME NEW i \in Of(s, w), w[i].part = k PROVE \E j \in Of(s, b) : b[j].part = k
    BY <1>2, <2>2
  <2> QED
    BY <1>5, <2>1, <2>2 DEF UpTo
<1>6. Of(s, w) = {} => Of(s, b) = {}
  BY <1>3
<1>7. TAKE rep
<1>8. ASSUME NEW r \in Calls, NEW p \in Nat,
             p <= AnswerSize[r] /\ rep[s] = Received(s, r, p) /\ InOrder(s, r, p, w)
      PROVE  \E q \in Nat :
               /\ p <= q /\ q <= AnswerSize[r]
               /\ rep[s] = Received(s, r, q) /\ InOrder(s, r, q, b)
               /\ \A n \in Nat : p <= n /\ UpTo(s, p, n, w) => q <= n /\ UpTo(s, q, n, b)
               /\ Of(s, w) = {} => q = p
  <2>1. p <= p
    OBVIOUS
  <2> QED
    BY <1>4, <1>5, <1>8, <2>1
<1>9. Follows(s, rep, w, rep, b)
  BY <1>6, <1>8 DEF Follows
<1> QED
  BY <1>9 DEF w

(* A sequence is its first packets and the others. *)
LEMMA Split ==
  ASSUME NEW w \in Seq(Packets), NEW n \in 0..Len(w)
  PROVE  LET a == SubSeq(w, 1, n)
             b == SubSeq(w, n + 1, Len(w))
         IN  /\ a \in Seq(Packets) /\ b \in Seq(Packets) /\ a \o b = w
             /\ \A i \in 1..Len(b) : n + i \in (n + 1)..Len(w) /\ b[i] = w[n + i]
<1> DEFINE a == SubSeq(w, 1, n)
           b == SubSeq(w, n + 1, Len(w))
<1>1. Len(w) \in Nat /\ \A i \in 1..Len(w) : w[i] \in Packets
  BY LenProperties, ElementOfSeq
<1>2. /\ 1 \in 1..Len(w) + 1 /\ n \in 0..Len(w) /\ Len(w) \in n..Len(w)
      /\ 1 \in Int /\ n \in Int /\ n + 1 \in Int /\ Len(w) \in Int /\ n \in 1 - 1..Len(w)
      /\ \A i \in 1..n : i \in 1..Len(w)
      /\ \A i \in n + 1..Len(w) : i \in 1..Len(w)
  BY <1>1
<1>3. \A i \in 1..n : w[i] \in Packets
  BY <1>1, <1>2
<1>4. \A i \in n + 1..Len(w) : w[i] \in Packets
  BY <1>1, <1>2
<1>5. a \in Seq(Packets)
  BY <1>2, <1>3, SubSeqProperties
<1> DEFINE m == n + 1
<1>6. m \in Int /\ \A i \in m..Len(w) : w[i] \in Packets
  BY <1>2, <1>4
<1> HIDE DEF m
<1>7. LET x == SubSeq(w, m, Len(w)) IN
      /\ x \in Seq(Packets) /\ Len(x) = IF m <= Len(w) THEN Len(w) - m + 1 ELSE 0
      /\ \A i \in 1..(Len(w) - m + 1) : x[i] = w[m + i - 1]
  BY <1>2, <1>6, SubSeqProperties
<1>8. /\ b \in Seq(Packets) /\ Len(b) = IF m <= Len(w) THEN Len(w) - m + 1 ELSE 0
      /\ \A i \in 1..(Len(w) - m + 1) : b[i] = w[m + i - 1]
  BY <1>7 DEF m
<1>9. a \o b = w
  <2>1. a \o b = SubSeq(w, 1, Len(w))
    BY <1>1, <1>2, ConcatAdjacentSubSeq
  <2> QED
    BY <2>1, SubSeqFull
<1> HIDE DEF a, b
<1>10. ASSUME NEW i \in 1..Len(b) PROVE n + i \in (n + 1)..Len(w) /\ b[i] = w[n + i]
  <2>1. i \in 1..(Len(w) - m + 1) /\ m + i - 1 = n + i /\ n + i \in (n + 1)..Len(w)
    BY <1>1, <1>8 DEF m
  <2> QED
    BY <1>8, <2>1
<1> QED
  BY <1>5, <1>8, <1>9, <1>10 DEF a, b

(* Where a transfer is cut, and who loses by it. *)
LEMMA LostType ==
  ASSUME NEW a \in Seq(Packets), NEW h \in Handled(a)
  PROVE  /\ h \in 0..Len(a) /\ Lost(a, h) \in SUBSET Slaves
         /\ Lost(a, h) # {} => linkFails < MaxLinkFails
<1>1. Len(a) \in Nat /\ \A i \in 1..Len(a) : a[i] \in Packets
  BY LenProperties, ElementOfSeq
<1>2. h \in 0..Len(a) /\ (h = Len(a) \/ linkFails < MaxLinkFails)
  BY DEF Handled
<1>3. \A i \in (h + 1)..Len(a) : a[i].slave \in Slaves
  <2>1. \A i \in (h + 1)..Len(a) : i \in 1..Len(a)
    BY <1>1, <1>2
  <2> QED
    BY <1>1, <2>1 DEF Packets
<1>4. h = Len(a) => Lost(a, h) = {}
  <2>1. h = Len(a) => (h + 1)..Len(a) = {}
    BY <1>1
  <2> QED
    BY <2>1 DEF Lost
<1> QED
  BY <1>2, <1>3, <1>4 DEF Lost

(* The packets of a transfer that are handled: a slave of which none is lost *)
(* gets what continues its answer.                                           *)
LEMMA TransferFollows ==
  ASSUME NEW rep \in [Slaves -> Replies], NEW a \in Seq(Packets), NEW b \in Seq(Packets),
         NEW h \in 0..Len(a)
  PROVE  LET d == Dispatch(rep, SubSeq(a, 1, h)) IN
         /\ d \in [Slaves -> Replies]
         /\ \A s \in Slaves \ Lost(a, h) : Follows(s, rep, a \o b, d, b)
<1> DEFINE c == SubSeq(a, 1, h)
           e == SubSeq(a, h + 1, Len(a))
           d == Dispatch(rep, c)
<1> HIDE DEF d
<1>1. /\ c \in Seq(Packets) /\ e \in Seq(Packets) /\ c \o e = a
      /\ \A i \in 1..Len(e) : h + i \in (h + 1)..Len(a) /\ e[i] = a[h + i]
  BY Split
<1> HIDE DEF c, e
<1>2. e \o b \in Seq(Packets) /\ c \o (e \o b) = a \o b
  <2>1. e \o b \in Seq(Packets)
    BY <1>1, ConcatProperties
  <2>2. (c \o e) \o b = c \o (e \o b)
    <3> SUFFICES ASSUME c \in Seq(Packets), e \in Seq(Packets)
                 PROVE  (c \o e) \o b = c \o (e \o b)
      BY <1>1
    <3> QED
      BY ONLY c \in Seq(Packets), e \in Seq(Packets), b \in Seq(Packets), ConcatAssociative
  <2> QED
    BY <1>1, <2>1, <2>2
<1>3. d \in [Slaves -> Replies] /\ \A s \in Slaves : Follows(s, rep, a \o b, d, e \o b)
  BY <1>1, <1>2, DispatchFollows DEF d
<1>4. ASSUME NEW s \in Slaves \ Lost(a, h) PROVE Follows(s, rep, a \o b, d, b)
  <2>1. Of(s, e) = {}
    BY <1>1 DEF Of, Lost
  <2>2. Follows(s, d, e \o b, d, b)
    BY <1>1, <2>1, DropFollows
  <2> QED
    BY <1>3, <2>2, FollowsTransitive
<1> QED
  BY <1>3, <1>4 DEF d, c

-----------------------------------------------------------------------------
(* A slave, its reply and the link.                                          *)

(* What the link still brings to a slave whose call r has got p packets.     *)
Coming(s, r, p, w) ==
  /\ InOrder(s, r, p, w)
  /\ asked[s] = <<>> \/ \E k \in Nat :
       /\ p <= k /\ k < AnswerSize[r]
       /\ asked[s] = <<[call |-> r, sent |-> k]>> /\ UpTo(s, p, k, w)
  /\ txDma.slave = s => txDma.call = r /\ p = 0 /\ asked[s] = <<>> /\ Of(s, w) = {}

(* Nothing of slave s is on the link, nor asked for.                         *)
Silent(s) == asked[s] = <<>> /\ txDma.slave # s /\ Of(s, Stream) = {}

(* The answer to call r has come up to packet p and the rest is on its way.  *)
Underway(s, r) ==
  \E p \in Nat : p <= AnswerSize[r] /\ reply[s] = Received(s, r, p) /\ Coming(s, r, p, Stream)

(* Nothing is there and nothing will come.                                   *)
Idle(s) == Silent(s) /\ reply[s] = EmptyReply

(* All packets of the answer to call r, in their order.                      *)
Whole(s, r) == Parts(s, r, AnswerSize[r])

(* The whole answer is there, and nothing else will come.                    *)
Arrived(s, r) == Silent(s) /\ reply[s] = Received(s, r, AnswerSize[r])

(* A step loses nothing of what is underway to slave s, and brings nothing   *)
(* that nobody waits for.                                                    *)
Kept(s) ==
  /\ Silent(s) => Silent(s)' /\ reply'[s] = reply[s]
  /\ \A r \in Calls : Underway(s, r) => Underway(s, r)'

(* A delivery keeps.                                                         *)
LEMMA FollowsKept ==
  ASSUME NEW s \in Slaves, Follows(s, reply, Stream, reply', Stream'),
         asked'[s] = asked[s], txDma' = txDma
  PROVE  Kept(s)
<1>1. Silent(s) => Silent(s)' /\ reply'[s] = reply[s]
  BY DEF Silent, Follows
<1>2. ASSUME NEW r \in Calls, Underway(s, r) PROVE Underway(s, r)'
  <2>1. PICK p \in Nat : p <= AnswerSize[r] /\ reply[s] = Received(s, r, p) /\ Coming(s, r, p, Stream)
    BY <1>2 DEF Underway
  <2>2. InOrder(s, r, p, Stream)
    BY <2>1 DEF Coming
  <2>3. PICK q \in Nat :
          /\ p <= q /\ q <= AnswerSize[r]
          /\ reply'[s] = Received(s, r, q) /\ InOrder(s, r, q, Stream')
          /\ \A k \in Nat : p <= k /\ UpTo(s, p, k, Stream) => q <= k /\ UpTo(s, q, k, Stream')
          /\ Of(s, Stream) = {} => q = p
    BY <2>1, <2>2 DEF Follows
  <2>4. asked'[s] = <<>> \/ \E k \in Nat :
          /\ q <= k /\ k < AnswerSize[r]
          /\ asked'[s] = <<[call |-> r, sent |-> k]>> /\ UpTo(s, q, k, Stream')
    BY <2>1, <2>3 DEF Coming
  <2>5. txDma'.slave = s => txDma'.call = r /\ q = 0 /\ asked'[s] = <<>> /\ Of(s, Stream') = {}
    <3>1. Of(s, Stream) = {} => Of(s, Stream') = {}
      BY DEF Follows
    <3> QED
      BY <2>1, <2>3, <3>1 DEF Coming
  <2>6. Coming(s, r, q, Stream)'
    BY <2>3, <2>4, <2>5 DEF Coming
  <2> QED
    BY <2>3, <2>6 DEF Underway
<1> QED
  BY <1>1, <1>2 DEF Kept

(* So does a step that is not about the link.                                *)
LEMMA UnchangedKept ==
  ASSUME NEW s \in Slaves, UNCHANGED <<txDma, i_buf, RXFIFO>>, asked'[s] = asked[s], reply'[s] = reply[s]
  PROVE  Kept(s)
<1>1. Stream' = Stream
  BY DEF Stream
<1>2. Follows(s, reply, Stream, reply', Stream')
  BY <1>1 DEF Follows
<1> QED
  BY <1>2, FollowsKept

(* A reset ends what is on the link, not what is in i_buf. *)
LEMMA OrderOfPrefix ==
  ASSUME NEW s \in Slaves, NEW r \in Calls, NEW p \in Nat,
         NEW a \in Seq(Packets), NEW b \in Seq(Packets), InOrder(s, r, p, a \o b)
  PROVE  InOrder(s, r, p, a)
<1> DEFINE w == a \o b
<1>1. \A i \in Of(s, a) : i \in Nat /\ i \in Of(s, w) /\ w[i] = a[i]
  BY ConcatProperties, LenProperties DEF Of
<1>2. \A i \in Of(s, a) : \A j \in Of(s, w) : j < i => j \in Of(s, a)
  <2>1. /\ Len(a) \in Nat /\ Len(b) \in Nat /\ Len(w) = Len(a) + Len(b)
        /\ \A i \in 1..(Len(a) + Len(b)) : w[i] = IF i <= Len(a) THEN a[i] ELSE b[i - Len(a)]
    BY ConcatProperties, LenProperties
  <2> HIDE DEF w
  <2> QED
    BY <2>1 DEF Of
<1> HIDE DEF w
<1>3. InOrder(s, r, p, w)
  BY DEF w
<1>4. ASSUME NEW i \in Of(s, a)
      PROVE  /\ a[i].call = r /\ a[i].part \in (p + 1)..AnswerSize[r]
             /\ \A j \in Of(s, a) : j < i => a[j].part < a[i].part
             /\ a[i].part = p + 1 \/ \E j \in Of(s, a) : j < i /\ a[j].part = a[i].part - 1
  <2>1. i \in Of(s, w) /\ w[i] = a[i]
    BY <1>1
  <2>2. /\ w[i].call = r /\ w[i].part \in (p + 1)..AnswerSize[r]
        /\ \A j \in Of(s, w) : j < i => w[j].part < w[i].part
        /\ w[i].part = p + 1 \/ \E j \in Of(s, w) : j < i /\ w[j].part = w[i].part - 1
    BY <1>3, <2>1 DEF InOrder
  <2> QED
    BY <1>1, <1>2, <2>1, <2>2
<1> QED
  BY <1>4 DEF InOrder

(* A packet that is in i_buf is in the stream.                               *)
LEMMA OfPrefix ==
  ASSUME NEW s \in Slaves, NEW a \in Seq(Packets), NEW b \in Seq(Packets), Of(s, a \o b) = {}
  PROVE  Of(s, a) = {} /\ Of(s, b) = {}
<1> DEFINE w == a \o b
<1>1. /\ Len(a) \in Nat /\ Len(b) \in Nat /\ Len(w) = Len(a) + Len(b)
      /\ \A i \in 1..(Len(a) + Len(b)) : w[i] = IF i <= Len(a) THEN a[i] ELSE b[i - Len(a)]
  BY ConcatProperties, LenProperties
<1>2. Of(s, w) = {}
  OBVIOUS
<1> HIDE DEF w
<1>3. ASSUME NEW i \in Of(s, a) PROVE FALSE
  <2>1. i \in 1..Len(w) /\ w[i] = a[i] /\ a[i].slave = s
    BY <1>1 DEF Of
  <2> QED
    BY <1>2, <2>1 DEF Of
<1>4. ASSUME NEW i \in Of(s, b) PROVE FALSE
  <2>1. i \in 1..Len(b) /\ b[i].slave = s
    BY DEF Of
  <2>2. i + Len(a) \in 1..Len(w) /\ ~(i + Len(a) <= Len(a)) /\ (i + Len(a)) - Len(a) = i
    BY <1>1, <2>1
  <2>3. w[i + Len(a)] = b[i]
    BY <1>1, <2>2
  <2> QED
    BY <1>2, <2>1, <2>2, <2>3 DEF Of
<1> QED
  BY <1>3, <1>4

LEMMA ResetKept ==
  ASSUME NEW s \in Slaves, i_buf \in Seq(Packets), RXFIFO \in Seq(Packets), NoSlave \notin Slaves,
         i_buf' = i_buf, RXFIFO' = <<>>, txDma' = NoDma, asked'[s] = <<>>, reply' = reply
  PROVE  Kept(s)
<1>1. Stream' = i_buf
  BY ConcatEmptySeq DEF Stream
<1>2. txDma'.slave # s
  BY DEF NoDma
<1>3. Silent(s) => Silent(s)'
  BY <1>1, <1>2, OfPrefix DEF Silent, Stream
<1>4. ASSUME NEW r \in Calls, Underway(s, r) PROVE Underway(s, r)'
  <2>1. PICK p \in Nat : p <= AnswerSize[r] /\ reply[s] = Received(s, r, p) /\ Coming(s, r, p, Stream)
    BY <1>4 DEF Underway
  <2>2. InOrder(s, r, p, i_buf)
    BY <2>1, OrderOfPrefix DEF Coming, Stream
  <2>3. Coming(s, r, p, Stream)'
    BY <1>1, <1>2, <2>2 DEF Coming
  <2> QED
    BY <2>1, <2>3 DEF Underway
<1> QED
  BY <1>3, <1>4 DEF Kept

-----------------------------------------------------------------------------
(* The inductive invariant: types and what goes with a place in a call.      *)

(* The places of a thread: out of the driver, or in one of its calls.        *)
Labels == {"closed", "user", "lock", "wait", "relock", "irqWait", "irqRelock"} \cup Locked

(* What the place of a thread in its call says of the call.                  *)
ThreadInv(t) ==
  /\ pc[t] # "closed" => slave[t] \in Slaves
  /\ pc[t] \notin {"closed", "user"} => call[t] \in Calls
  /\ pc[t] \in {"closed", "user"} => cmd[t] = "COMM" /\ ~failed[t]
  /\ pc[t] \in {"lock", "ioctl", "poll", "send"} => ~failed[t]
  /\ pc[t] \in {"irqWait", "irqRelock"} => cmd[t] = "IRQ_WAIT"
  /\ pc[t] \in {"copy", "relock", "poll", "send", "wait"} \cup Clearing => cmd[t] # "IRQ_WAIT"
  /\ pc[t] = "poll" => cmd[t] = "COMM"
  /\ pc[t] \in {"wait", "relock"} => cmd[t] \in {"COMM", "RECV"}
  /\ pc[t] \in Clearing => cmd[t] \in Comm
  /\ cmd[t] \in {"SEND", "COMM_OUT"} => slave[t] \in spoiled

(* The threads; ioctl_lock is the thread that is where the lock is held.     *)
ThreadsOK ==
  /\ pc \in [Threads -> Labels] /\ cmd \in [Threads -> Commands]
  /\ slave \in [Threads -> Slaves \cup {NoSlave}] /\ call \in [Threads -> 0..MaxCalls]
  /\ failed \in [Threads -> BOOLEAN] /\ answer \in [Threads -> Seq(Packets)]
  /\ ioctl_lock \in Threads \cup {NoThread}
  /\ \A t \in Threads : ioctl_lock = t <=> pc[t] \in Locked
  /\ \A t \in Threads : ThreadInv(t)

(* The interrupts of the slaves, and what the runs bound.                    *)
VmeOK ==
  /\ irq \subseteq Slaves /\ irqs \in 0..MaxIrqs /\ VINTDIS \in BOOLEAN /\ woken \subseteq Threads
  /\ spoiled \subseteq Slaves /\ calls \in 0..MaxCalls /\ linkFails \in 0..MaxLinkFails
  /\ LINK_FAIL \in BOOLEAN /\ tooLong \in BOOLEAN

(* The card; a transfer that ended, or that a reset has lost, is one that the *)
(* driver takes to be in progress, and i_buf holds packets of it only.       *)
LinkOK ==
  /\ reply \in [Slaves -> Replies]
  /\ i_buf \in Seq(Packets) /\ DMAInProgress \in BOOLEAN /\ dmaDone \in BOOLEAN
  /\ (dmaDone \/ dmaLost) => DMAInProgress
  /\ ~DMAInProgress => i_buf = <<>>
  /\ ~(dmaDone /\ dmaLost)
  /\ txDma \in [slave : Slaves, call : Calls] \cup {NoDma}
  /\ asked \in [Slaves -> Seq([call : Calls, sent : Nat])]
  /\ RXFIFO \in Seq(Packets)

LEMMA TypeFromParts ==
  ASSUME ThreadsOK, VmeOK, LinkOK
  PROVE  TypeOK
<1>1. reply \in [Slaves -> [buf : Seq(Packets), p : Nat, sz : Nat, ready : BOOLEAN]]
  BY DEF LinkOK, Replies
<1> QED
  BY <1>1 DEF ThreadsOK, VmeOK, LinkOK, TypeOK, Labels

LEMMA ThreadsKept ==
  ASSUME ThreadsOK, UNCHANGED <<threads, ioctl_lock>>, spoiled \subseteq spoiled'
  PROVE  ThreadsOK'
<1>1. UNCHANGED <<pc, cmd, slave, call, failed, answer, ioctl_lock>>
  BY DEF threads
<1>2. \A t \in Threads : ThreadInv(t)'
  BY <1>1 DEF ThreadsOK, ThreadInv
<1> QED
  BY <1>1, <1>2 DEF ThreadsOK

LEMMA OpenThreads ==
  ASSUME ThreadsOK, NEW t \in Threads, NEW s \in MayOpen[t], Open(t, s)
  PROVE  ThreadsOK'
BY A2818Assumption DEF ThreadsOK, ThreadInv, Open, Goto, Labels, Locked, Clearing

LEMMA ReleaseThreads ==
  ASSUME ThreadsOK, NEW t \in Threads, Release(t)
  PROVE  ThreadsOK'
BY A2818Assumption DEF ThreadsOK, ThreadInv, Release, Goto, Labels, Locked, Clearing

LEMMA LockThreads ==
  ASSUME ThreadsOK, NEW t \in Threads, Lock(t)
  PROVE  ThreadsOK'
BY A2818Assumption DEF ThreadsOK, ThreadInv, Lock, Goto, Labels, Locked, Clearing, Comm

-----------------------------------------------------------------------------
(* What each action does to the threads.                                     *)

LEMMA IoctlThreads ==
  ASSUME ThreadsOK, VmeOK, NEW t \in Threads, NEW c \in Commands, Ioctl(t, c)
  PROVE  ThreadsOK' /\ VmeOK'
<1>1. calls' \in Calls /\ calls' \in 0..MaxCalls
  BY A2818Assumption DEF VmeOK, Ioctl, Calls
<1>2. slave[t] \in Slaves
  BY DEF ThreadsOK, ThreadInv, Ioctl
<1>3. spoiled \subseteq spoiled' /\ spoiled' \subseteq Slaves /\ (c \in {"SEND", "COMM_OUT"} => slave[t] \in spoiled')
  BY <1>2 DEF Ioctl, Spoil, VmeOK
<1>4. VmeOK'
  BY <1>1, <1>3 DEF Ioctl, VmeOK, vme, link
<1>5. ThreadsOK'
  <2>1. call' \in [Threads -> 0..MaxCalls] /\ call'[t] \in Calls
    BY <1>1 DEF Ioctl, ThreadsOK
  <2>2. ThreadInv(t)'
    BY <1>2, <1>3, <2>1 DEF ThreadsOK, ThreadInv, Ioctl, Goto, Labels, Locked, Clearing
  <2>3. \A u \in Threads \ {t} : ThreadInv(u)'
    BY <1>3 DEF ThreadsOK, ThreadInv, Ioctl, Goto
  <2> QED
    BY <2>1, <2>2, <2>3, A2818Assumption DEF ThreadsOK, Ioctl, Goto, Labels, Locked, Clearing
<1> QED
  BY <1>4, <1>5

LEMMA UnlockThreads ==
  ASSUME ThreadsOK, NEW t \in Threads, Unlock(t)
  PROVE  ThreadsOK'
<1>1. call' \in [Threads -> 0..MaxCalls]
  BY A2818Assumption DEF ThreadsOK, Unlock
<1>2. answer' \in [Threads -> Seq(Packets)]
  <2> DEFINE none == <<>>
  <2>1. none \in Seq(Packets) /\ answer' = [answer EXCEPT ![t] = none]
    BY EmptySeq DEF Unlock
  <2> HIDE DEF none
  <2> QED
    BY <2>1 DEF ThreadsOK
<1>3. \A u \in Threads : ThreadInv(u)'
  BY DEF ThreadsOK, ThreadInv, Unlock, Goto, Locked, Clearing
<1>4. /\ pc' \in [Threads -> Labels] /\ cmd' \in [Threads -> Commands] /\ failed' \in [Threads -> BOOLEAN]
      /\ slave' \in [Threads -> Slaves \cup {NoSlave}]
  BY DEF ThreadsOK, Unlock, Goto, Labels, Commands, Comm, Locked
<1>5. \A u \in Threads : pc'[u] \notin Locked
  BY DEF ThreadsOK, Unlock, Goto, Locked, Clearing
<1>6. ioctl_lock' \in Threads \cup {NoThread} /\ \A u \in Threads : ioctl_lock' = u <=> pc'[u] \in Locked
  BY <1>5, A2818Assumption DEF Unlock
<1> QED
  BY <1>1, <1>2, <1>3, <1>4, <1>6 DEF ThreadsOK

LEMMA SendThreads ==
  ASSUME ThreadsOK, NEW t \in Threads, Send(t)
  PROVE  ThreadsOK'
<1>1. \E l \in {"poll", "send", "copy", "clear il_buf_p", "unlock"}, still \in BOOLEAN :
        /\ pc' = [pc EXCEPT ![t] = l] /\ failed' = [failed EXCEPT ![t] = still]
        /\ l = "poll" => cmd[t] = "COMM"
        /\ l = "clear il_buf_p" => cmd[t] \in Comm
        /\ still => l \in {"clear il_buf_p", "unlock"}
  <2>1. ASSUME UNCHANGED failed PROVE failed' = [failed EXCEPT ![t] = FALSE]
    BY <2>1 DEF ThreadsOK, ThreadInv, Send
  <2>2. CASE LINK_FAIL /\ pc[t] = "ioctl"
    <3>1. PICK still \in BOOLEAN :
            /\ Goto(t, IF still THEN IF cmd[t] \in Comm THEN "clear il_buf_p" ELSE "unlock" ELSE "send")
            /\ failed' = [failed EXCEPT ![t] = still]
      BY <2>2 DEF Send
    <3> QED
      BY <3>1 DEF Goto
  <2>3. CASE ~(LINK_FAIL /\ pc[t] = "ioctl")
    <3>1. UNCHANGED failed /\ Goto(t, IF cmd[t] = "COMM" THEN "poll" ELSE "copy")
      BY <2>3 DEF Send
    <3> QED
      BY <2>1, <3>1 DEF Goto
  <2> QED
    BY <2>2, <2>3
<1>2. PICK l \in {"poll", "send", "copy", "clear il_buf_p", "unlock"}, still \in BOOLEAN :
        /\ pc' = [pc EXCEPT ![t] = l] /\ failed' = [failed EXCEPT ![t] = still]
        /\ l = "poll" => cmd[t] = "COMM"
        /\ l = "clear il_buf_p" => cmd[t] \in Comm
        /\ still => l \in {"clear il_buf_p", "unlock"}
  BY <1>1
<1>3. /\ UNCHANGED <<cmd, slave, call, answer, ioctl_lock, spoiled>>
      /\ pc[t] \in {"ioctl", "send"} /\ cmd[t] # "IRQ_WAIT"
  BY DEF Send, Comm
<1> QED
  BY <1>2, <1>3 DEF ThreadsOK, ThreadInv, Labels, Locked, Clearing

LEMMA CopyFromUserFailsThreads ==
  ASSUME ThreadsOK, NEW t \in Threads, CopyFromUserFails(t)
  PROVE  ThreadsOK'
BY DEF ThreadsOK, ThreadInv, CopyFromUserFails, Goto, Labels, Locked, Clearing

LEMMA PollThreads ==
  ASSUME ThreadsOK, NEW t \in Threads, Poll(t)
  PROVE  ThreadsOK'
<1>1. spoiled \subseteq spoiled'
  BY DEF Poll, HandleRx, Lose
<1>2. /\ pc[t] = "poll" \/ (pc[t] = "ioctl" /\ cmd[t] = "RECV")
      /\ ioctl_lock' = NoThread /\ pc' = [pc EXCEPT ![t] = "wait"]
      /\ UNCHANGED <<cmd, slave, call, failed, answer>>
  BY DEF Poll, Goto
<1> QED
  BY <1>1, <1>2, A2818Assumption DEF ThreadsOK, ThreadInv, Labels, Locked, Clearing

LEMMA WakeUpThreads ==
  ASSUME ThreadsOK, NEW t \in Threads, WakeUp(t)
  PROVE  ThreadsOK'
BY A2818Assumption DEF ThreadsOK, ThreadInv, WakeUp, Goto, Labels, Locked, Clearing

LEMMA GiveUpWaitingThreads ==
  ASSUME ThreadsOK, NEW t \in Threads, GiveUpWaiting(t)
  PROVE  ThreadsOK'
BY A2818Assumption DEF ThreadsOK, ThreadInv, GiveUpWaiting, Spoil, Goto, Labels, Locked, Clearing

LEMMA CopyThreads ==
  ASSUME ThreadsOK, LinkOK, NEW t \in Threads, Copy(t)
  PROVE  ThreadsOK'
<1>1. slave[t] \in Slaves
  BY DEF ThreadsOK, ThreadInv, Copy
<1> DEFINE r == reply[slave[t]]
           n == IF r.sz < Len(r.buf) THEN r.sz ELSE Len(r.buf)
<1>2. r.buf \in Seq(Packets) /\ Len(r.buf) \in Nat /\ r.sz \in Nat
  BY <1>1, LenProperties DEF LinkOK, Replies
<1>3. n \in Int /\ n <= Len(r.buf)
  BY <1>2
<1>4. \A i \in 1..n : r.buf[i] \in Packets
  <2>1. \A i \in 1..n : i \in 1..Len(r.buf)
    BY <1>2, <1>3
  <2> QED
    BY <1>2, <2>1, ElementOfSeq
<1>5. SubSeq(r.buf, 1, n) \in Seq(Packets)
  BY <1>3, <1>4, SubSeqProperties
<1> DEFINE x == SubSeq(r.buf, 1, n)
<1>6. \/ answer' = [answer EXCEPT ![t] = x]
      \/ UNCHANGED answer
  BY DEF Copy
<1>6a. \E l \in {"clear il_buf_p", "unlock"}, z \in BOOLEAN :
         /\ pc' = [pc EXCEPT ![t] = l] /\ failed' = [failed EXCEPT ![t] = z]
         /\ l = "clear il_buf_p" => cmd[t] \in Comm
  <2>1. failed = [failed EXCEPT ![t] = failed[t]] /\ failed[t] \in BOOLEAN
    BY DEF ThreadsOK
  <2>2. \/ cmd[t] \in Comm /\ Goto(t, "clear il_buf_p") /\ failed' = failed
        \/ Goto(t, IF cmd[t] \in Comm THEN "clear il_buf_p" ELSE "unlock")
           /\ failed' = [failed EXCEPT ![t] = TRUE]
        \/ Goto(t, "unlock") /\ failed' = failed
    BY DEF Copy
  <2> QED
    BY <2>1, <2>2 DEF Goto
<1>6b. PICK l \in {"clear il_buf_p", "unlock"}, z \in BOOLEAN :
         /\ pc' = [pc EXCEPT ![t] = l] /\ failed' = [failed EXCEPT ![t] = z]
         /\ l = "clear il_buf_p" => cmd[t] \in Comm
  BY <1>6a
<1>6c. pc[t] = "copy" /\ UNCHANGED <<cmd, slave, call, ioctl_lock, spoiled>>
  BY DEF Copy
<1>7. x \in Seq(Packets)
  BY <1>5
<1> HIDE DEF x
<1>8. answer' \in [Threads -> Seq(Packets)]
  BY <1>6, <1>7 DEF ThreadsOK
<1> QED
  BY <1>6b, <1>6c, <1>8, A2818Assumption DEF ThreadsOK, ThreadInv, Labels, Locked, Clearing

LEMMA ClearThreads ==
  ASSUME ThreadsOK, NEW t \in Threads, Clear(t)
  PROVE  ThreadsOK'
BY ZenonT(40), A2818Assumption DEF ThreadsOK, ThreadInv, Clear, Goto, Labels, Locked, Clearing

LEMMA IrqWaitThreads ==
  ASSUME ThreadsOK, NEW t \in Threads, IrqWait(t)
  PROVE  ThreadsOK'
BY ZenonT(40), A2818Assumption DEF ThreadsOK, ThreadInv, IrqWait, Goto, Labels, Locked, Clearing

LEMMA IrqWakeUpThreads ==
  ASSUME ThreadsOK, NEW t \in Threads, IrqWakeUp(t)
  PROVE  ThreadsOK'
BY ZenonT(40), A2818Assumption DEF ThreadsOK, ThreadInv, IrqWakeUp, Goto, Labels, Locked, Clearing

LEMMA IrqTimeoutThreads ==
  ASSUME ThreadsOK, NEW t \in Threads, IrqTimeout(t)
  PROVE  ThreadsOK'
BY ZenonT(40), A2818Assumption DEF ThreadsOK, ThreadInv, IrqTimeout, Goto, Labels, Locked, Clearing

LEMMA ResetCardThreads ==
  ASSUME ThreadsOK, NEW t \in Threads, ResetCard(t)
  PROVE  ThreadsOK'
BY A2818Assumption DEF ThreadsOK, ThreadInv, ResetCard, Goto, Labels, Locked, Clearing

-----------------------------------------------------------------------------
(* The card and the link.                                                    *)

LEMMA AnswerLink ==
  ASSUME LinkOK, NEW s \in Slaves, Answer(s)
  PROVE  LinkOK'
<1> DEFINE h == Head(asked[s])
           n == h.sent + 1
           k == [slave |-> s, call |-> h.call, part |-> n]
           a == IF n = AnswerSize[h.call] THEN Tail(asked[s]) ELSE [asked[s] EXCEPT ![1].sent = n]
<1>1. asked[s] \in Seq([call : Calls, sent : Nat]) /\ asked[s] # <<>>
  BY DEF LinkOK, Answer
<1>2. h \in [call : Calls, sent : Nat] /\ Tail(asked[s]) \in Seq([call : Calls, sent : Nat])
  BY <1>1, HeadTailProperties
<1>3. k \in Packets /\ n \in Nat
  BY <1>2 DEF Packets
<1>4. [asked[s] EXCEPT ![1].sent = n] \in Seq([call : Calls, sent : Nat])
  <2>1. Len(asked[s]) \in Nat /\ Len(asked[s]) # 0
    BY <1>1, EmptySeq, LenProperties
  <2>2. 1 \in 1..Len(asked[s])
    BY <2>1
  <2>3. asked[s][1] \in [call : Calls, sent : Nat]
    BY <1>1, <2>2, ElementOfSeq
  <2>4. [asked[s][1] EXCEPT !.sent = n] \in [call : Calls, sent : Nat]
    BY <1>3, <2>3
  <2>5. [asked[s] EXCEPT ![1] = [asked[s][1] EXCEPT !.sent = n]] \in Seq([call : Calls, sent : Nat])
    BY <1>1, <2>2, <2>4, ExceptSeq
  <2> QED
    BY <2>5
<1>5. a \in Seq([call : Calls, sent : Nat])
  BY <1>2, <1>4
<1>6. asked' = [asked EXCEPT ![s] = a] /\ RXFIFO' = Append(RXFIFO, k)
  BY DEF Answer
<1> HIDE DEF a, k
<1>7. asked' \in [Slaves -> Seq([call : Calls, sent : Nat])]
  BY <1>5, <1>6 DEF LinkOK
<1>8. RXFIFO' \in Seq(Packets)
  BY <1>3, <1>6, AppendProperties DEF LinkOK
<1>9. UNCHANGED <<reply, i_buf, DMAInProgress, dmaDone, dmaLost, txDma>>
  BY DEF Answer, dma
<1> QED
  BY <1>7, <1>8, <1>9 DEF LinkOK

LEMMA AskType ==
  ASSUME LinkOK, NEW s \in Slaves, NEW r \in Calls
  PROVE  [asked EXCEPT ![s] = Append(@, Request(r))] \in [Slaves -> Seq([call : Calls, sent : Nat])]
<1>1. Request(r) \in [call : Calls, sent : Nat]
  BY DEF Request
<1>2. asked[s] \in Seq([call : Calls, sent : Nat])
  BY DEF LinkOK
<1>3. Append(asked[s], Request(r)) \in Seq([call : Calls, sent : Nat])
  BY <1>1, <1>2, AppendProperties
<1> QED
  BY <1>3 DEF LinkOK

LEMMA TxDmaEndsLink ==
  ASSUME LinkOK, TxDmaEnds
  PROVE  LinkOK'
<1>1. txDma.slave \in Slaves /\ txDma.call \in Calls
  BY DEF TxDmaEnds, LinkOK
<1>2. asked' \in [Slaves -> Seq([call : Calls, sent : Nat])]
  BY <1>1, AskType DEF TxDmaEnds
<1> QED
  BY <1>2 DEF LinkOK, TxDmaEnds, dma

LEMMA SendPktLink ==
  ASSUME LinkOK, NEW s \in Slaves, NEW r \in Calls, SendPkt(s, r), UNCHANGED <<reply, RXFIFO, dma>>
  PROVE  LinkOK'
<1>1. asked' \in [Slaves -> Seq([call : Calls, sent : Nat])]
  <2>1. asked' = [asked EXCEPT ![s] = Append(@, Request(r))] \/ asked' = asked
    BY DEF SendPkt
  <2>2. asked \in [Slaves -> Seq([call : Calls, sent : Nat])]
    BY DEF LinkOK
  <2> QED
    BY <2>1, <2>2, AskType
<1>2. txDma' \in [slave : Slaves, call : Calls] \cup {NoDma}
  <2>1. txDma.slave = s => txDma \in [slave : Slaves, call : Calls]
    BY A2818Assumption DEF LinkOK, NoDma
  <2> QED
    BY <2>1 DEF SendPkt, LinkOK
<1> QED
  BY <1>1, <1>2 DEF LinkOK, dma

LEMMA ResetLink ==
  ASSUME LinkOK, NEW still, Reset(still), reply' = reply
  PROVE  LinkOK'
<1>1. asked' \in [Slaves -> Seq([call : Calls, sent : Nat])] /\ RXFIFO' \in Seq(Packets)
  BY EmptySeq DEF Reset
<1> QED
  BY <1>1 DEF LinkOK, Reset

(* What is lost is counted, and its slaves are spoiled. *)
Losing(lost) ==
  /\ spoiled \subseteq spoiled' /\ lost \subseteq spoiled' /\ spoiled' \subseteq Slaves
  /\ linkFails' \in 0..MaxLinkFails

LEMMA LoseType ==
  ASSUME VmeOK, NEW lost \in SUBSET Slaves, lost # {} => linkFails < MaxLinkFails, Lose(lost)
  PROVE  Losing(lost)
BY A2818Assumption DEF VmeOK, Lose, Losing

LEMMA HandleRxLink ==
  ASSUME LinkOK, VmeOK, NEW replies \in [Slaves -> Replies], NEW lost \in SUBSET Slaves,
         lost # {} => linkFails < MaxLinkFails, HandleRx(replies, lost), ~dmaLost',
         UNCHANGED <<txDma, asked>>
  PROVE  /\ LinkOK' /\ Losing(lost)
         /\ \A s \in Slaves \ spoiled' : Follows(s, replies, RXFIFO, reply', Stream')
<1>1. RXFIFO \in Seq(Packets) /\ Len(RXFIFO) \in Nat
  BY LenProperties DEF LinkOK
<1>2. CASE /\ reply' = replies /\ i_buf' = <<>> /\ DMAInProgress' = FALSE /\ dmaDone' = FALSE
           /\ Lose(lost) /\ RXFIFO' = RXFIFO
  <2>1. LinkOK'
    BY <1>1, <1>2, EmptySeq DEF LinkOK
  <2>2. Stream' = RXFIFO
    BY <1>1, <1>2, ConcatEmptySeq DEF Stream
  <2>3. Losing(lost)
    BY <1>2, LoseType
  <2> QED
    BY <1>2, <2>1, <2>2, <2>3, FollowsItself
<1>3. ASSUME NEW n \in 1..Len(RXFIFO), NEW long \in BOOLEAN,
             RXFIFO' = SubSeq(RXFIFO, n + 1, Len(RXFIFO)),
             i_buf' = IF long THEN SubSeq(RXFIFO, 1, n) ELSE <<>>,
             DMAInProgress' = long, dmaDone' = FALSE,
             \/ long /\ reply' = replies /\ Lose(lost)
             \/ /\ ~long
                /\ \E h \in Handled(SubSeq(RXFIFO, 1, n)) :
                     /\ reply' = Dispatch(replies, SubSeq(SubSeq(RXFIFO, 1, n), 1, h))
                     /\ Lose(lost \cup Lost(SubSeq(RXFIFO, 1, n), h))
      PROVE  /\ LinkOK' /\ Losing(lost)
             /\ \A s \in Slaves \ spoiled' : Follows(s, replies, RXFIFO, reply', Stream')
  <2> DEFINE a == SubSeq(RXFIFO, 1, n)
             b == SubSeq(RXFIFO, n + 1, Len(RXFIFO))
  <2>1. a \in Seq(Packets) /\ b \in Seq(Packets) /\ a \o b = RXFIFO /\ RXFIFO' = b
    <3>1. n \in 0..Len(RXFIFO)
      BY <1>1
    <3> QED
      BY <1>1, <1>3, <3>1, Split
  <2>2. CASE long
    <3>1. i_buf' = a /\ reply' = replies /\ Lose(lost) /\ DMAInProgress' = TRUE
      BY <1>3, <2>2
    <3> HIDE DEF a, b
    <3>2. LinkOK'
      BY <1>3, <2>1, <3>1 DEF LinkOK
    <3>3. Stream' = RXFIFO
      BY <2>1, <3>1 DEF Stream
    <3>4. Losing(lost)
      BY <3>1, LoseType
    <3> QED
      BY <3>1, <3>2, <3>3, <3>4, FollowsItself
  <2>3. CASE ~long
    <3>1. PICK h \in Handled(a) :
            reply' = Dispatch(replies, SubSeq(a, 1, h)) /\ Lose(lost \cup Lost(a, h))
      BY <1>3, <2>3
    <3>2. i_buf' = <<>> /\ DMAInProgress' = FALSE
      BY <1>3, <2>3
    <3> HIDE DEF a, b
    <3>3. /\ h \in 0..Len(a) /\ Lost(a, h) \in SUBSET Slaves
          /\ Lost(a, h) # {} => linkFails < MaxLinkFails
      BY <2>1, <3>1, LostType
    <3> DEFINE all == lost \cup Lost(a, h)
    <3>4. all \in SUBSET Slaves /\ (all # {} => linkFails < MaxLinkFails) /\ Lose(all)
      BY <3>1, <3>3
    <3>5. lost \subseteq all /\ Lost(a, h) \subseteq all
      OBVIOUS
    <3> HIDE DEF all
    <3>6. Losing(all)
      BY <3>4, LoseType
    <3>7. Losing(lost) /\ \A s \in Slaves \ spoiled' : s \notin Lost(a, h)
      BY <3>5, <3>6 DEF Losing
    <3>8. /\ reply' \in [Slaves -> Replies]
          /\ \A s \in Slaves \ Lost(a, h) : Follows(s, replies, a \o b, reply', b)
      BY <2>1, <3>1, <3>3, TransferFollows
    <3>9. LinkOK'
      BY <1>3, <2>1, <3>2, <3>8, EmptySeq DEF LinkOK
    <3>10. Stream' = b
      BY <2>1, <3>2, ConcatEmptySeq DEF Stream
    <3> QED
      BY <2>1, <3>7, <3>8, <3>9, <3>10
  <2> QED
    BY <2>2, <2>3
<1> QED
  BY <1>2, <1>3 DEF HandleRx

LEMMA InterruptLink ==
  ASSUME LinkOK, VmeOK, Interrupt
  PROVE  /\ LinkOK' /\ Losing({})
         /\ \A s \in Slaves \ spoiled' : Kept(s)
<1> DEFINE busy == DMAInProgress /\ ~dmaDone
<1>1. /\ i_buf \in Seq(Packets) /\ RXFIFO \in Seq(Packets) /\ reply \in [Slaves -> Replies]
      /\ UNCHANGED <<dmaLost, txDma, asked>> /\ Ended \in Seq(Packets)
  BY EmptySeq DEF LinkOK, Interrupt, Ended
<1>2. PICK h \in Handled(Ended) :
        LET replies == Dispatch(reply, SubSeq(Ended, 1, h)) IN
        IF ~busy /\ RXFIFO # <<>>
          THEN HandleRx(replies, Lost(Ended, h))
          ELSE /\ reply' = replies /\ Lose(Lost(Ended, h))
               /\ DMAInProgress' = busy /\ dmaDone' = FALSE
               /\ i_buf' = IF dmaDone THEN <<>> ELSE i_buf
               /\ RXFIFO' = RXFIFO
  BY DEF Interrupt
<1> DEFINE replies == Dispatch(reply, SubSeq(Ended, 1, h))
           lost    == Lost(Ended, h)
<1>3. h \in 0..Len(Ended) /\ lost \in SUBSET Slaves /\ (lost # {} => linkFails < MaxLinkFails)
  BY <1>1, LostType
<1>4. \/ ~busy /\ HandleRx(replies, lost)
      \/ /\ reply' = replies /\ Lose(lost)
         /\ DMAInProgress' = busy /\ dmaDone' = FALSE
         /\ i_buf' = IF dmaDone THEN <<>> ELSE i_buf
         /\ RXFIFO' = RXFIFO
  BY <1>2
<1>5. /\ replies \in [Slaves -> Replies]
      /\ \A b \in Seq(Packets) : \A s \in Slaves \ lost : Follows(s, reply, Ended \o b, replies, b)
  BY <1>1, <1>3, TransferFollows, EmptySeq
<1>6. ~busy => Stream = Ended \o RXFIFO
  BY DEF LinkOK, Ended, Stream
<1>7. Stream \in Seq(Packets) /\ (~dmaDone => Ended \o Stream = Stream)
  BY <1>1, ConcatEmptySeq, ConcatProperties DEF Ended, Stream
<1> HIDE DEF replies, lost
<1>8. CASE ~busy /\ HandleRx(replies, lost)
  <2>1. ~dmaLost'
    BY <1>1, <1>8 DEF LinkOK
  <2>2. /\ LinkOK' /\ Losing(lost)
        /\ \A s \in Slaves \ spoiled' : Follows(s, replies, RXFIFO, reply', Stream')
    BY <1>1, <1>3, <1>5, <1>8, <2>1, HandleRxLink
  <2>3. Losing({}) /\ \A s \in Slaves \ spoiled' : s \notin lost
    BY <2>2 DEF Losing
  <2>4. ASSUME NEW s \in Slaves \ spoiled' PROVE Kept(s)
    <3>1. Follows(s, reply, Stream, replies, RXFIFO)
      BY <1>1, <1>5, <1>6, <1>8, <2>3
    <3>2. Follows(s, reply, Stream, reply', Stream')
      BY <2>2, <3>1, FollowsTransitive
    <3> QED
      BY <1>1, <3>2, FollowsKept
  <2> QED
    BY <2>2, <2>3, <2>4
<1>9. CASE /\ reply' = replies /\ Lose(lost)
           /\ DMAInProgress' = busy /\ dmaDone' = FALSE
           /\ i_buf' = IF dmaDone THEN <<>> ELSE i_buf
           /\ RXFIFO' = RXFIFO
  <2>1. LinkOK'
    <3>1. i_buf' \in Seq(Packets)
      BY <1>1, <1>9, EmptySeq
    <3> QED
      BY <1>1, <1>5, <1>9, <3>1 DEF LinkOK
  <2>2. Losing(lost)
    BY <1>3, <1>9, LoseType
  <2>3. Losing({}) /\ \A s \in Slaves \ spoiled' : s \notin lost
    BY <2>2 DEF Losing
  <2>4. ASSUME NEW s \in Slaves \ spoiled' PROVE Kept(s)
    <3>1. CASE dmaDone
      <4>1. Stream' = RXFIFO
        BY <1>1, <1>9, <3>1, ConcatEmptySeq DEF Stream
      <4>2. Follows(s, reply, Stream, reply', Stream')
        BY <1>1, <1>5, <1>6, <1>9, <2>3, <3>1, <4>1
      <4> QED
        BY <1>1, <4>2, FollowsKept
    <3>2. CASE ~dmaDone
      <4>1. Stream' = Stream
        BY <1>9, <3>2 DEF Stream
      <4>2. Follows(s, reply, Stream, reply', Stream')
        BY <1>5, <1>7, <1>9, <2>3, <3>2, <4>1
      <4> QED
        BY <1>1, <4>2, FollowsKept
    <3> QED
      BY <3>1, <3>2
  <2> QED
    BY <2>1, <2>3, <2>4
<1> QED
  BY <1>4, <1>8, <1>9

-----------------------------------------------------------------------------
(* The card takes, asks for and answers a call.                              *)

(* How far the one call on a slave has come, and what its answer has.        *)
Progress(t, s) ==
  \/ pc[t] \in {"lock", "ioctl"} /\ ~failed[t] /\ Idle(s)
  \/ pc[t] = "send" /\ cmd[t] \in {"COMM", "COMM_IN"} /\ ~failed[t] /\ Idle(s)
  \/ pc[t] = "copy" /\ cmd[t] = "COMM_IN" /\ ~failed[t] /\ Idle(s)
  \/ pc[t] = "wait" /\ cmd[t] = "RECV" /\ Idle(s)
  \/ pc[t] = "unlock" /\ cmd[t] = "RESET" /\ Idle(s)
  \/ /\ pc[t] \in Clearing \cup {"unlock"} /\ Idle(s)
     /\ (cmd[t] = "COMM" /\ failed[t]) \/ cmd[t] = "COMM_IN"
  \/ pc[t] \in {"poll", "wait"} /\ cmd[t] = "COMM" /\ ~failed[t] /\ Underway(s, call[t])
  \/ pc[t] \in {"relock", "copy"} /\ cmd[t] = "COMM" /\ ~failed[t] /\ Arrived(s, call[t])
  \/ /\ cmd[t] = "COMM" /\ (failed[t] \/ answer[t] = Whole(s, call[t])) /\ Silent(s)
     /\ \/ pc[t] = "clear il_buf_p" /\ Arrived(s, call[t])
        \/ pc[t] = "clear rx_ready"
           /\ reply[s] = [buf |-> <<>>, p |-> 0, sz |-> AnswerSize[call[t]], ready |-> TRUE]
        \/ pc[t] = "clear il_buf_sz"
           /\ reply[s] = [buf |-> <<>>, p |-> 0, sz |-> AnswerSize[call[t]], ready |-> FALSE]
        \/ pc[t] = "unlock" /\ Idle(s)

(* At most one call is on a slave, and an idle slave has no answer waiting.  *)
(* The threads open it one at a time unless it is spoiled.                   *)
SlaveInv(s) ==
  \/ On(s) = {} /\ Idle(s)
  \/ \E t \in Threads : On(s) = {t} /\ Progress(t, s)

(* A packet of another slave follows on the link.                            *)
LEMMA AppendOther ==
  ASSUME NEW s \in Slaves, NEW w \in Seq(Packets), NEW k \in Packets, k.slave # s
  PROVE  \A rep : Follows(s, rep, w, rep, Append(w, k))
<1> DEFINE v == Append(w, k)
<1>1. /\ Len(w) \in Nat /\ Len(v) = Len(w) + 1
      /\ \A i \in 1..Len(w) : v[i] = w[i]
      /\ v[Len(w) + 1] = k
  BY AppendProperties, LenProperties
<1> HIDE DEF v
<1>2. \A i \in 1..Len(v) : i \in 1..Len(w) \/ i = Len(w) + 1
  BY <1>1
<1>3. Of(s, v) = Of(s, w) /\ \A i \in Of(s, w) : v[i] = w[i]
  BY <1>1, <1>2 DEF Of
<1>4. ASSUME NEW r, NEW p, InOrder(s, r, p, w) PROVE InOrder(s, r, p, v)
  BY <1>3, <1>4 DEF InOrder
<1>5. ASSUME NEW p, NEW n, UpTo(s, p, n, w) PROVE UpTo(s, p, n, v)
  BY <1>3, <1>5 DEF UpTo
<1>6. \A r \in Calls, p \in Nat : p <= p
  OBVIOUS
<1>7. TAKE rep
<1>8. ASSUME NEW r \in Calls, NEW p \in Nat,
             p <= AnswerSize[r] /\ rep[s] = Received(s, r, p) /\ InOrder(s, r, p, w)
      PROVE  \E q \in Nat :
               /\ p <= q /\ q <= AnswerSize[r]
               /\ rep[s] = Received(s, r, q) /\ InOrder(s, r, q, v)
               /\ \A n \in Nat : p <= n /\ UpTo(s, p, n, w) => q <= n /\ UpTo(s, q, n, v)
               /\ Of(s, w) = {} => q = p
  BY <1>4, <1>5, <1>6, <1>8
<1>9. Follows(s, rep, w, rep, v)
  BY <1>3, <1>8 DEF Follows
<1> QED
  BY <1>9 DEF v

(* A slave sends the next packet. *)
LEMMA AppendOwn ==
  ASSUME NEW s \in Slaves, NEW r \in Calls, NEW p \in Nat, NEW n \in Nat, NEW w \in Seq(Packets),
         p <= n, n < AnswerSize[r], InOrder(s, r, p, w), UpTo(s, p, n, w),
         NEW k, k = [slave |-> s, call |-> r, part |-> n + 1]
  PROVE  InOrder(s, r, p, Append(w, k)) /\ UpTo(s, p, n + 1, Append(w, k))
<1> DEFINE v == Append(w, k)
           l == Len(w) + 1
<1>1. k \in Packets /\ k.slave = s /\ k.call = r /\ k.part = n + 1 /\ n + 1 \in Nat
  BY DEF Packets
<1>2. /\ Len(w) \in Nat /\ Len(v) = Len(w) + 1
      /\ \A i \in 1..Len(w) : v[i] = w[i]
      /\ v[l] = k
  BY <1>1, AppendProperties, LenProperties
<1> HIDE DEF v
<1>3. /\ l \in Of(s, v) /\ v[l] = k
      /\ \A i \in Of(s, w) : i \in Of(s, v) /\ v[i] = w[i] /\ i < l /\ i \in Nat
      /\ \A i \in Of(s, v) : i = l \/ i \in Of(s, w)
      /\ l \in Nat
  BY <1>1, <1>2 DEF Of
<1> HIDE DEF l
<1>4. ASSUME NEW i \in Of(s, v)
      PROVE  /\ v[i].call = r /\ v[i].part \in (p + 1)..AnswerSize[r]
             /\ \A j \in Of(s, v) : j < i => v[j].part < v[i].part
             /\ v[i].part = p + 1 \/ \E j \in Of(s, v) : j < i /\ v[j].part = v[i].part - 1
  <2>1. CASE i = l
    <3>1. v[i].call = r /\ v[i].part = n + 1
      BY <1>1, <1>3, <2>1
    <3>2. n + 1 \in (p + 1)..AnswerSize[r]
      BY SizeType
    <3>3. \A j \in Of(s, w) : w[j].part <= n /\ w[j].part \in Nat
      BY SizeType DEF UpTo, InOrder
    <3>4. \A j \in Of(s, v) : j < i => v[j].part < n + 1
      BY <1>3, <2>1, <3>3
    <3>5. n = p \/ \E j \in Of(s, w) : w[j].part = n
      BY DEF UpTo
    <3>6. n + 1 = p + 1 \/ \E j \in Of(s, v) : j < i /\ v[j].part = (n + 1) - 1
      BY <1>3, <2>1, <3>5
    <3> QED
      BY <3>1, <3>2, <3>4, <3>6
  <2>2. CASE i \in Of(s, w)
    <3>1. /\ w[i].call = r /\ w[i].part \in (p + 1)..AnswerSize[r]
          /\ \A j \in Of(s, w) : j < i => w[j].part < w[i].part
          /\ w[i].part = p + 1 \/ \E j \in Of(s, w) : j < i /\ w[j].part = w[i].part - 1
      BY <2>2 DEF InOrder
    <3>2. v[i] = w[i] /\ i < l /\ i \in Nat
      BY <1>3, <2>2
    <3> QED
      BY <1>3, <3>1, <3>2
  <2> QED
    BY <1>3, <2>1, <2>2
<1>5. \A i \in Of(s, v) : v[i].part <= n + 1
  <2>1. \A j \in Of(s, w) : w[j].part <= n /\ w[j].part \in Nat
    BY SizeType DEF UpTo, InOrder
  <2> QED
    BY <1>1, <1>3, <2>1
<1>6. UpTo(s, p, n + 1, v)
  BY <1>1, <1>3, <1>5 DEF UpTo
<1> QED
  BY <1>4, <1>6 DEF InOrder, v

(* A slave that answers keeps what is underway, to it and to the others.     *)
LEMMA AnswerKept ==
  ASSUME LinkOK, NEW s0 \in Slaves, Answer(s0), NEW s \in Slaves
  PROVE  Kept(s)
<1> DEFINE h == Head(asked[s0])
           k == [slave |-> s0, call |-> h.call, part |-> h.sent + 1]
<1>1. /\ asked[s0] \in Seq([call : Calls, sent : Nat]) /\ asked[s0] # <<>>
      /\ i_buf \in Seq(Packets) /\ RXFIFO \in Seq(Packets)
  BY DEF LinkOK, Answer
<1>2. h \in [call : Calls, sent : Nat]
  BY <1>1, HeadTailProperties
<1>3. k \in Packets /\ k.slave = s0
  BY <1>2 DEF Packets
<1>4. Stream \in Seq(Packets) /\ Stream' = Append(Stream, k)
  <2>1. RXFIFO' = Append(RXFIFO, k) /\ i_buf' = i_buf
    BY DEF Answer, dma
  <2> HIDE DEF k
  <2>2. <<k>> \in Seq(Packets)
    BY <1>3
  <2>3. i_buf \o (RXFIFO \o <<k>>) = (i_buf \o RXFIFO) \o <<k>>
    BY <1>1, <2>2, ConcatAssociative
  <2>4. i_buf \o RXFIFO \in Seq(Packets)
    BY <1>1, ConcatProperties
  <2> QED
    BY <1>1, <1>3, <2>1, <2>3, <2>4, AppendIsConcat DEF Stream
<1>5. CASE s # s0
  <2>1. asked'[s] = asked[s] /\ txDma' = txDma /\ reply' = reply
    BY <1>5 DEF Answer, LinkOK
  <2>2. Follows(s, reply, Stream, reply, Append(Stream, k))
    BY <1>3, <1>4, <1>5, AppendOther
  <2>3. Follows(s, reply, Stream, reply', Stream')
    BY <1>4, <2>1, <2>2
  <2> QED
    BY <2>1, <2>3, FollowsKept
<1>6. CASE s = s0
  <2>1. ASSUME NEW r \in Calls, Underway(s, r) PROVE Underway(s, r)'
    <3>1. PICK p \in Nat : p <= AnswerSize[r] /\ reply[s] = Received(s, r, p) /\ Coming(s, r, p, Stream)
      BY <2>1 DEF Underway
    <3>2. PICK n \in Nat : /\ p <= n /\ n < AnswerSize[r]
                           /\ asked[s] = <<[call |-> r, sent |-> n]>> /\ UpTo(s, p, n, Stream)
      BY <1>1, <1>6, <3>1 DEF Coming
    <3>3. h = [call |-> r, sent |-> n] /\ k = [slave |-> s, call |-> r, part |-> n + 1]
      BY <1>6, <3>2
    <3>4. InOrder(s, r, p, Stream') /\ UpTo(s, p, n + 1, Stream')
      BY <1>4, <3>1, <3>2, <3>3, AppendOwn DEF Coming
    <3>5. asked'[s] = IF n + 1 = AnswerSize[r] THEN <<>> ELSE <<[call |-> r, sent |-> n + 1]>>
      <4>1. asked'[s] = IF n + 1 = AnswerSize[r] THEN Tail(asked[s]) ELSE [asked[s] EXCEPT ![1].sent = n + 1]
        BY <1>6, <3>3 DEF Answer, LinkOK
      <4> QED
        BY <3>2, <4>1
    <3>6. asked'[s] = <<>> \/ \E m \in Nat :
            /\ p <= m /\ m < AnswerSize[r]
            /\ asked'[s] = <<[call |-> r, sent |-> m]>> /\ UpTo(s, p, m, Stream')
      <4>1. n + 1 \in Nat /\ p <= n + 1 /\ (n + 1 # AnswerSize[r] => n + 1 < AnswerSize[r])
        BY <3>2, SizeType
      <4> QED
        BY <3>4, <3>5, <4>1
    <3>7. txDma' = txDma /\ reply' = reply
      BY DEF Answer
    <3>8. txDma.slave # s
      BY <1>1, <1>6, <3>1 DEF Coming
    <3>9. Coming(s, r, p, Stream)'
      BY <3>4, <3>6, <3>7, <3>8 DEF Coming
    <3> QED
      BY <3>1, <3>7, <3>9 DEF Underway
  <2> QED
    BY <1>1, <1>6, <2>1 DEF Kept, Silent
<1> QED
  BY <1>5, <1>6

(* The link of s is used by none but the DMA's slave. *)
LEMMA TxDmaEndsKept ==
  ASSUME LinkOK, TxDmaEnds, NEW s \in Slaves
  PROVE  Kept(s)
<1>1. txDma.slave \in Slaves /\ txDma.call \in Calls
  BY DEF TxDmaEnds, LinkOK
<1>2. UNCHANGED <<reply, i_buf, RXFIFO>> /\ txDma' = NoDma /\ txDma'.slave # s
  BY A2818Assumption DEF TxDmaEnds, dma, NoDma
<1>3. Stream' = Stream
  BY <1>2 DEF Stream
<1>4. asked'[s] = IF s = txDma.slave THEN Append(asked[s], Request(txDma.call)) ELSE asked[s]
  BY <1>1 DEF TxDmaEnds, LinkOK
<1>5. Silent(s) => Silent(s)'
  BY <1>2, <1>3, <1>4 DEF Silent
<1>6. ASSUME NEW r \in Calls, Underway(s, r) PROVE Underway(s, r)'
  <2>1. PICK p \in Nat : p <= AnswerSize[r] /\ reply[s] = Received(s, r, p) /\ Coming(s, r, p, Stream)
    BY <1>6 DEF Underway
  <2>2. CASE s # txDma.slave
    <3>1. Coming(s, r, p, Stream)'
      BY <1>2, <1>3, <1>4, <2>1, <2>2 DEF Coming
    <3> QED
      BY <1>2, <2>1, <3>1 DEF Underway
  <2>3. CASE s = txDma.slave
    <3>1. txDma.call = r /\ p = 0 /\ asked[s] = <<>> /\ Of(s, Stream) = {}
      BY <2>1, <2>3 DEF Coming
    <3>2. asked'[s] = <<[call |-> r, sent |-> 0]>>
      BY <1>4, <2>3, <3>1 DEF Request
    <3>3. UpTo(s, p, 0, Stream) /\ p <= 0 /\ 0 < AnswerSize[r] /\ 0 \in Nat
      BY <3>1, SizeType DEF UpTo
    <3>4. Coming(s, r, p, Stream)'
      BY <1>2, <1>3, <2>1, <3>2, <3>3 DEF Coming
    <3> QED
      BY <1>2, <2>1, <3>4 DEF Underway
  <2> QED
    BY <2>2, <2>3
<1> QED
  BY <1>2, <1>5, <1>6 DEF Kept

(* A slave of which nothing is asked, and from whose buffer no DMA is begun. *)
LEMMA OtherLinkKept ==
  ASSUME NEW s \in Slaves, UNCHANGED <<reply, i_buf, RXFIFO>>, asked'[s] = asked[s],
         txDma'.slave = s => txDma' = txDma
  PROVE  Kept(s)
<1>1. Stream' = Stream
  BY DEF Stream
<1>2. Silent(s) => Silent(s)'
  BY <1>1 DEF Silent
<1>3. ASSUME NEW r \in Calls, Underway(s, r) PROVE Underway(s, r)'
  <2>1. PICK p \in Nat : p <= AnswerSize[r] /\ reply[s] = Received(s, r, p) /\ Coming(s, r, p, Stream)
    BY <1>3 DEF Underway
  <2>2. Coming(s, r, p, Stream)'
    BY <1>1, <2>1 DEF Coming
  <2> QED
    BY <2>1, <2>2 DEF Underway
<1> QED
  BY <1>2, <1>3 DEF Kept

(* What is put into the buffer of a slave is not sent from another one. *)
LEMMA BufferOfOther ==
  ASSUME LinkOK, NEW s0 \in Slaves, NEW r0, NEW s \in Slaves, s # s0,
         \/ txDma' = txDma \/ txDma' = [slave |-> s0, call |-> r0]
         \/ txDma.slave = s0 /\ txDma' = [txDma EXCEPT !.call = r0]
  PROVE  txDma'.slave = s => txDma' = txDma
<1> DEFINE x == [txDma EXCEPT !.call = r0]
<1>1. txDma.slave = s0 => x.slave = s0
  BY A2818Assumption DEF LinkOK, NoDma
<1> HIDE DEF x
<1>2. (txDma' = x /\ x.slave = s0) \/ txDma' = txDma \/ txDma' = [slave |-> s0, call |-> r0]
  BY <1>1 DEF x
<1> QED
  BY <1>2

(* A call that is sent keeps what is underway to the other slaves.           *)
LEMMA SendPktKept ==
  ASSUME LinkOK, NEW s0 \in Slaves, NEW r0 \in Calls, SendPkt(s0, r0),
         UNCHANGED <<reply, i_buf, RXFIFO>>, NEW s \in Slaves, s # s0
  PROVE  Kept(s)
<1>1. asked'[s] = asked[s]
  BY DEF SendPkt, LinkOK
<1>2. txDma'.slave = s => txDma' = txDma
  <2>1. \/ txDma' = txDma \/ txDma' = [slave |-> s0, call |-> r0]
        \/ txDma.slave = s0 /\ txDma' = [txDma EXCEPT !.call = r0]
    BY DEF SendPkt
  <2> QED
    BY <2>1, BufferOfOther
<1> QED
  BY <1>1, <1>2, OtherLinkKept

(* An empty reply is an answer of which nothing has come.                    *)
LEMMA EmptyIsReceived ==
  ASSUME NEW s, NEW r \in Calls
  PROVE  EmptyReply = Received(s, r, 0)
<1>1. Parts(s, r, 0) = <<>>
  BY DEF Parts
<1>2. (0 = AnswerSize[r]) = FALSE
  BY SizeType
<1> QED
  BY <1>1, <1>2 DEF Received, EmptyReply

(* A call that is sent on an idle slave is underway. *)
LEMMA SendPktStarts ==
  ASSUME LinkOK, NEW s \in Slaves, NEW r \in Calls, SendPkt(s, r),
         UNCHANGED <<reply, i_buf, RXFIFO>>, Idle(s)
  PROVE  Underway(s, r)'
<1>1. Stream' = Stream /\ Of(s, Stream) = {} /\ asked[s] = <<>> /\ txDma.slave # s
  BY DEF Stream, Idle, Silent
<1>2. reply'[s] = Received(s, r, 0)
  BY EmptyIsReceived DEF Idle
<1>3. InOrder(s, r, 0, Stream') /\ UpTo(s, 0, 0, Stream')
  BY <1>1 DEF InOrder, UpTo
<1>4. 0 \in Nat /\ 0 <= 0 /\ 0 < AnswerSize[r] /\ 0 <= AnswerSize[r]
  BY SizeType
<1>5. CASE asked' = [asked EXCEPT ![s] = Append(@, Request(r))] /\ txDma' = txDma
  <2>1. asked'[s] = <<[call |-> r, sent |-> 0]>>
    BY <1>1, <1>5 DEF Request, LinkOK
  <2>2. Coming(s, r, 0, Stream)'
    BY <1>1, <1>3, <1>4, <1>5, <2>1 DEF Coming
  <2> QED
    BY <1>2, <1>4, <2>2 DEF Underway
<1>6. CASE txDma' = [slave |-> s, call |-> r] /\ asked' = asked
  <2>1. Coming(s, r, 0, Stream)'
    BY <1>1, <1>3, <1>6 DEF Coming
  <2> QED
    BY <1>2, <1>4, <2>1 DEF Underway
<1> QED
  BY <1>1, <1>5, <1>6 DEF SendPkt

(* When the last packet is there, nothing is left on the link. *)
LEMMA ReadyArrived ==
  ASSUME NEW s \in Slaves, NEW r \in Calls, Underway(s, r), reply[s].ready
  PROVE  Arrived(s, r)
<1>1. PICK p \in Nat : p <= AnswerSize[r] /\ reply[s] = Received(s, r, p) /\ Coming(s, r, p, Stream)
  BY DEF Underway
<1>2. p = AnswerSize[r]
  <2>1. Received(s, r, p).ready = (p = AnswerSize[r])
    BY DEF Received
  <2> QED
    BY <1>1, <2>1
<1>3. Of(s, Stream) = {}
  <2>1. \A i \in Of(s, Stream) : Stream[i].part \in (p + 1)..AnswerSize[r]
    BY <1>1 DEF Coming, InOrder
  <2> QED
    BY <1>2, <2>1, SizeType
<1>4. asked[s] = <<>> /\ txDma.slave # s
  <2>1. ~ \E k \in Nat : p <= k /\ k < AnswerSize[r]
    BY <1>2, SizeType
  <2>2. p # 0
    BY <1>2, SizeType
  <2> QED
    BY <1>1, <2>1, <2>2 DEF Coming
<1> QED
  BY <1>1, <1>2, <1>3, <1>4 DEF Arrived, Silent

-----------------------------------------------------------------------------
(* From what a step keeps to the invariant of a slave.                       *)

(* The other threads are where they were.                                    *)
OthersKept(t) ==
  \A u \in Threads \ {t} :
    /\ pc'[u] = pc[u] /\ cmd'[u] = cmd[u] /\ slave'[u] = slave[u]
    /\ call'[u] = call[u] /\ failed'[u] = failed[u] /\ answer'[u] = answer[u]

(* A thread that stays where it is, on a slave of which nothing is lost.     *)
LEMMA ProgressKept ==
  ASSUME NEW s \in Slaves, Kept(s), NEW u \in Threads, ThreadInv(u), u \in On(s), Progress(u, s),
         pc'[u] = pc[u], cmd'[u] = cmd[u], call'[u] = call[u], failed'[u] = failed[u],
         answer'[u] = answer[u]
  PROVE  Progress(u, s)'
<1>1. call[u] \in Calls
  BY DEF On, ThreadInv
<1>2. Idle(s) => Idle(s)'
  BY DEF Kept, Idle
<1>3. Arrived(s, call[u]) => Arrived(s, call[u])'
  BY DEF Kept, Arrived
<1>4. Underway(s, call[u]) => Underway(s, call[u])'
  <2>1. Underway(s, call[u]) => (\A r \in Calls : Underway(s, r) => Underway(s, r)')
    BY DEF Kept
  <2>2. ASSUME Underway(s, call[u]) PROVE Underway(s, call[u])'
    <3> DEFINE r == call[u]
    <3>1. r \in Calls
      BY <1>1
    <3>2. r' = r
      OBVIOUS
    <3> QED
      BY <1>1, <2>1, <2>2 DEF Underway, Coming
  <2> QED
    BY <2>2
<1>5. Silent(s) => Silent(s)' /\ reply'[s] = reply[s]
  BY DEF Kept
<1> QED
  BY <1>2, <1>3, <1>4, <1>5 DEF Progress, Clearing, Whole

(* A slave that no thread uses stays so.                                     *)
LEMMA NobodyKept ==
  ASSUME NEW s \in Slaves, Kept(s), SlaveInv(s), ThreadsOK, ThreadsOK',
         UNCHANGED <<pc, cmd, slave, call, failed, answer>>
  PROVE  SlaveInv(s)'
<1>1. On(s)' = On(s)
  BY DEF On
<1>2. CASE On(s) = {} /\ Idle(s)
  BY <1>1, <1>2 DEF SlaveInv, Kept, Idle
<1>3. ASSUME NEW u \in Threads, On(s) = {u}, Progress(u, s) PROVE SlaveInv(s)'
  <2>1. Progress(u, s)'
    BY <1>3, ProgressKept DEF ThreadsOK
  <2> QED
    BY <1>1, <1>3, <2>1 DEF SlaveInv
<1> QED
  BY <1>2, <1>3 DEF SlaveInv

(* A thread that does not, and will not, use slave s. *)
LEMMA OtherKept ==
  ASSUME NEW s \in Slaves, Kept(s), SlaveInv(s), ThreadsOK,
         NEW t \in Threads, OthersKept(t), t \notin On(s), t \notin On(s)'
  PROVE  SlaveInv(s)'
<1>1. On(s)' = On(s)
  BY DEF On, OthersKept
<1>2. CASE On(s) = {} /\ Idle(s)
  BY <1>1, <1>2 DEF SlaveInv, Kept, Idle
<1>3. ASSUME NEW u \in Threads, On(s) = {u}, Progress(u, s) PROVE SlaveInv(s)'
  <2>1. u # t /\ u \in On(s)
    BY <1>3
  <2>2. Progress(u, s)'
    BY <1>3, <2>1, ProgressKept DEF ThreadsOK, OthersKept
  <2> QED
    BY <1>1, <1>3, <2>2 DEF SlaveInv
<1> QED
  BY <1>2, <1>3 DEF SlaveInv

(* The thread that uses slave s.                                             *)
LEMMA OwnSlave ==
  ASSUME NEW s \in Slaves, SlaveInv(s), NEW t \in Threads, t \in On(s)
  PROVE  On(s) = {t} /\ Progress(t, s)
BY DEF SlaveInv

(* A thread that goes on with its call on its slave.                         *)
LEMMA OwnKept ==
  ASSUME NEW s \in Slaves, NEW t \in Threads, OthersKept(t), On(s) \subseteq {t},
         \/ t \in On(s)' /\ Progress(t, s)'
         \/ t \notin On(s)' /\ Idle(s)'
  PROVE  SlaveInv(s)'
<1>1. On(s)' \subseteq {t}
  BY DEF On, OthersKept
<1> QED
  BY <1>1 DEF SlaveInv

(* The step of a thread leaves the others where they are.                    *)
LEMMA StepOthers ==
  ASSUME ThreadsOK, NEW t \in Threads,
         \/ Step(t) \/ GiveUpWaiting(t) \/ IrqTimeout(t) \/ CopyFromUserFails(t) \/ Release(t)
         \/ \E s \in MayOpen[t] : Open(t, s)
         \/ \E c \in Commands : Ioctl(t, c)
  PROVE  OthersKept(t)
<1>1. ASSUME NEW s \in MayOpen[t], Open(t, s) PROVE OthersKept(t)
  BY <1>1 DEF OthersKept, ThreadsOK, Open, Goto
<1>2. ASSUME NEW c \in Commands, Ioctl(t, c) PROVE OthersKept(t)
  BY <1>2 DEF OthersKept, ThreadsOK, Ioctl, Goto
<1>3. ASSUME Release(t) PROVE OthersKept(t)
  BY <1>3 DEF OthersKept, ThreadsOK, Release, Goto
<1>4. ASSUME Lock(t) PROVE OthersKept(t)
  BY <1>4 DEF OthersKept, ThreadsOK, Lock, Goto
<1>5. ASSUME Unlock(t) PROVE OthersKept(t)
  BY <1>5 DEF OthersKept, ThreadsOK, Unlock, Goto
<1>6. ASSUME Send(t) PROVE OthersKept(t)
  <2>1. \A u \in Threads \ {t} : pc'[u] = pc[u] /\ failed'[u] = failed[u]
    BY <1>6 DEF ThreadsOK, Send, Goto
  <2>2. UNCHANGED <<cmd, slave, call, answer>>
    BY <1>6 DEF Send
  <2> QED
    BY <2>1, <2>2 DEF OthersKept
<1>7. ASSUME Poll(t) PROVE OthersKept(t)
  BY <1>7 DEF OthersKept, ThreadsOK, Poll, Goto
<1>8. ASSUME WakeUp(t) PROVE OthersKept(t)
  BY <1>8 DEF OthersKept, ThreadsOK, WakeUp, Goto
<1>9. ASSUME GiveUpWaiting(t) PROVE OthersKept(t)
  BY <1>9 DEF OthersKept, ThreadsOK, GiveUpWaiting, Goto
<1>10. ASSUME Copy(t) PROVE OthersKept(t)
  BY <1>10 DEF OthersKept, ThreadsOK, Copy, Goto
<1>11. ASSUME Clear(t) PROVE OthersKept(t)
  BY <1>11 DEF OthersKept, ThreadsOK, Clear, Goto
<1>12. ASSUME IrqWait(t) PROVE OthersKept(t)
  BY <1>12 DEF OthersKept, ThreadsOK, IrqWait, Goto
<1>13. ASSUME IrqWakeUp(t) PROVE OthersKept(t)
  BY <1>13 DEF OthersKept, ThreadsOK, IrqWakeUp, Goto
<1>14. ASSUME IrqTimeout(t) PROVE OthersKept(t)
  BY <1>14 DEF OthersKept, ThreadsOK, IrqTimeout, Goto
<1>15. ASSUME ResetCard(t) PROVE OthersKept(t)
  BY <1>15 DEF OthersKept, ThreadsOK, ResetCard, Goto
<1>16. ASSUME CopyFromUserFails(t) PROVE OthersKept(t)
  BY <1>16 DEF OthersKept, ThreadsOK, CopyFromUserFails, Goto
<1> QED
  BY <1>1, <1>2, <1>3, <1>4, <1>5, <1>6, <1>7, <1>8, <1>9, <1>10, <1>11, <1>12, <1>13, <1>14, <1>15,
     <1>16 DEF Step

-----------------------------------------------------------------------------
(* The inductive invariant, and each action of a thread.                     *)

(* A slave whose calls were never mixed, by two threads or by a raw send, has *)
(* at most one call on it, which is as far as its packets.                   *)
SlavesOK == \A s \in Slaves \ spoiled : SlaveInv(s)

(* The inductive invariant.                                                  *)
IInv == ThreadsOK /\ VmeOK /\ LinkOK /\ SlavesOK

(* An answer that is there is whole. *)
LEMMA CopyWhole ==
  ASSUME NEW s \in Slaves, NEW r \in Calls
  PROVE  LET x == Received(s, r, AnswerSize[r])
             n == IF x.sz < Len(x.buf) THEN x.sz ELSE Len(x.buf)
         IN  SubSeq(x.buf, 1, n) = Whole(s, r)
<1> DEFINE b == Parts(s, r, AnswerSize[r])
<1>1. b \in Seq(Packets) /\ Len(b) = AnswerSize[r] /\ AnswerSize[r] \in Nat
  BY SizeType, PartsType
<1>2. SubSeq(b, 1, Len(b)) = b
  BY <1>1, SubSeqFull
<1> HIDE DEF b
<1>3. Received(s, r, AnswerSize[r]).buf = b /\ Received(s, r, AnswerSize[r]).sz = AnswerSize[r]
  BY DEF Received, b
<1> QED
  BY <1>1, <1>2, <1>3 DEF Whole, b

LEMMA OpenInv ==
  ASSUME IInv, NEW t \in Threads, NEW s0 \in MayOpen[t], Open(t, s0)
  PROVE  IInv'
<1>1. ThreadsOK /\ VmeOK /\ LinkOK /\ SlavesOK
  BY DEF IInv
<1>2. s0 \in Slaves
  BY A2818Assumption
<1>3. UNCHANGED <<i_buf, DMAInProgress, dmaDone, dmaLost, txDma, asked, RXFIFO>> /\ VmeOK'
      /\ spoiled' = spoiled
  BY <1>1 DEF Open, VmeOK, dma, link, vme
<1>4. ASSUME NEW s \in Slaves \ spoiled PROVE reply'[s] = reply[s]
  <2>1. SlaveInv(s)
    BY <1>1 DEF SlavesOK
  <2>2. CASE \E u \in Threads : pc[u] # "closed" /\ slave[u] = s0
    BY <2>2 DEF Open
  <2>3. CASE ~ \E u \in Threads : pc[u] # "closed" /\ slave[u] = s0
    <3>1. reply' = [reply EXCEPT ![s0] = EmptyReply]
      BY <2>3 DEF Open
    <3>2. s = s0 => reply[s] = EmptyReply
      <4>1. s = s0 => On(s) = {}
        BY <2>3 DEF On
      <4> QED
        BY <2>1, <4>1 DEF SlaveInv, Idle
    <3> QED
      BY <1>1, <3>1, <3>2 DEF LinkOK
  <2> QED
    BY <2>2, <2>3
<1>5. LinkOK'
  <2>1. EmptyReply \in Replies
    <3>1. <<>> \in Seq(Packets)
      BY EmptySeq
    <3> QED
      BY <3>1 DEF EmptyReply, Replies
  <2> HIDE <1>4
  <2>2. reply' \in [Slaves -> Replies]
    BY <1>1, <1>2, <2>1 DEF Open, LinkOK
  <2> QED
    BY <1>1, <1>3, <2>2 DEF LinkOK
<1>6. ASSUME NEW s \in Slaves \ spoiled' PROVE SlaveInv(s)'
  <2>1. SlaveInv(s) /\ Kept(s)
    BY <1>1, <1>3, <1>4, <1>6, UnchangedKept DEF SlavesOK
  <2>2. t \notin On(s) /\ t \notin On(s)'
    BY <1>1 DEF Open, Goto, On, ThreadsOK
  <2>3. OthersKept(t)
    BY <1>1, StepOthers
  <2> QED
    BY <1>1, <2>1, <2>2, <2>3, OtherKept
<1>7. ThreadsOK'
  BY <1>1, OpenThreads
<1> QED
  BY <1>3, <1>5, <1>6, <1>7 DEF IInv, SlavesOK

LEMMA IoctlInv ==
  ASSUME IInv, NEW t \in Threads, NEW c \in Commands, Ioctl(t, c)
  PROVE  IInv'
<1>1. ThreadsOK /\ VmeOK /\ LinkOK /\ SlavesOK
  BY DEF IInv
<1>2. UNCHANGED <<reply, i_buf, DMAInProgress, dmaDone, dmaLost, txDma, asked, RXFIFO>>
  BY DEF Ioctl, dma, link
<1>3. LinkOK'
  BY <1>1, <1>2 DEF LinkOK
<1>4. ThreadsOK' /\ VmeOK'
  BY <1>1, IoctlThreads
<1>5. ASSUME NEW s \in Slaves \ spoiled' PROVE SlaveInv(s)'
  <2>1. s \in Slaves \ spoiled
    BY <1>5 DEF Ioctl, Spoil
  <2>2. SlaveInv(s) /\ Kept(s) /\ OthersKept(t)
    BY <1>1, <1>2, <2>1, UnchangedKept, StepOthers DEF SlavesOK
  <2>3. t \notin On(s)
    BY DEF Ioctl, On
  <2>4. CASE t \notin On(s)'
    BY <1>1, <2>2, <2>3, <2>4, OtherKept
  <2>5. CASE t \in On(s)'
    <3>1. s = slave[t] /\ c # "IRQ_WAIT" /\ pc'[t] = "lock" /\ ~failed'[t]
      BY <1>1, <2>5 DEF Ioctl, On, ThreadsOK, ThreadInv, Goto
    <3>2. On(s) = {}
      BY <1>5, <3>1 DEF Ioctl, Spoil
    <3>3. Idle(s)
      BY <2>2, <3>2 DEF SlaveInv
    <3>4. Idle(s)'
      BY <2>2, <3>3 DEF Kept, Idle
    <3>5. Progress(t, s)'
      BY <3>1, <3>4 DEF Progress
    <3> QED
      BY <2>2, <2>5, <3>2, <3>5, OwnKept
  <2> QED
    BY <2>4, <2>5
<1> QED
  BY <1>3, <1>4, <1>5 DEF IInv, SlavesOK

(* A step of a thread that keeps the slaves it does not use.                 *)
LEMMA ThreadStepSlaves ==
  ASSUME ThreadsOK, SlavesOK, spoiled \subseteq spoiled', NEW t \in Threads, OthersKept(t),
         slave' = slave,
         \A s \in Slaves \ spoiled' : t \notin On(s) => t \notin On(s)' /\ Kept(s),
         \A s \in Slaves \ spoiled' : t \in On(s) /\ Progress(t, s) =>
           \/ t \in On(s)' /\ Progress(t, s)'
           \/ t \notin On(s)' /\ Idle(s)'
  PROVE  SlavesOK'
<1> SUFFICES ASSUME NEW s \in Slaves \ spoiled' PROVE SlaveInv(s)'
  BY DEF SlavesOK
<1>1. SlaveInv(s)
  BY DEF SlavesOK
<1>2. CASE t \notin On(s)
  BY <1>1, <1>2, OtherKept
<1>3. CASE t \in On(s)
  <2>1. On(s) = {t} /\ Progress(t, s)
    BY <1>1, <1>3, OwnSlave
  <2>2. On(s) \subseteq {t}
    BY <2>1
  <2> QED
    BY <1>3, <2>1, <2>2, OwnKept
<1> QED
  BY <1>2, <1>3

LEMMA IrqWaitInv ==
  ASSUME IInv, NEW t \in Threads, IrqWait(t)
  PROVE  IInv'
<1>1. ThreadsOK /\ VmeOK /\ LinkOK /\ SlavesOK
  BY DEF IInv
<1>2. ThreadsOK' /\ OthersKept(t)
  BY <1>1, StepOthers, IrqWaitThreads DEF Step
<1>3. UNCHANGED <<reply, i_buf, DMAInProgress, dmaDone, dmaLost, txDma, asked, RXFIFO>>
  BY DEF IrqWait, dma, link
<1>4. LinkOK' /\ VmeOK' /\ spoiled \subseteq spoiled' /\ slave' = slave
  <2>1. LinkOK'
    BY <1>1, <1>3 DEF LinkOK
  <2>2. VmeOK' /\ spoiled \subseteq spoiled'
    BY <1>1 DEF IrqWait, VmeOK, vme, link
  <2> QED
    BY <2>1, <2>2 DEF IrqWait
<1>5. \A s \in Slaves : Kept(s)
  BY <1>3, UnchangedKept
<1>6. \A s \in Slaves : (Idle(s) => Idle(s)') /\ (Silent(s) => Silent(s)' /\ reply'[s] = reply[s])
  BY <1>5 DEF Kept, Idle
<1>7. \A s \in Slaves : t \notin On(s) /\ t \notin On(s)'
  BY <1>1, <1>2 DEF IrqWait, Goto, On, ThreadsOK, ThreadInv
<1>8. SlavesOK'
  BY <1>1, <1>2, <1>4, <1>5, <1>7, ThreadStepSlaves
<1> QED
  BY <1>2, <1>4, <1>8 DEF IInv

LEMMA IrqWakeUpInv ==
  ASSUME IInv, NEW t \in Threads, IrqWakeUp(t)
  PROVE  IInv'
<1>1. ThreadsOK /\ VmeOK /\ LinkOK /\ SlavesOK
  BY DEF IInv
<1>2. ThreadsOK' /\ OthersKept(t)
  BY <1>1, StepOthers, IrqWakeUpThreads DEF Step
<1>3. UNCHANGED <<reply, i_buf, DMAInProgress, dmaDone, dmaLost, txDma, asked, RXFIFO>>
  BY DEF IrqWakeUp, dma, link
<1>4. LinkOK' /\ VmeOK' /\ spoiled \subseteq spoiled' /\ slave' = slave
  <2>1. LinkOK'
    BY <1>1, <1>3 DEF LinkOK
  <2>2. VmeOK' /\ spoiled \subseteq spoiled'
    BY <1>1 DEF IrqWakeUp, VmeOK, vme, link
  <2> QED
    BY <2>1, <2>2 DEF IrqWakeUp
<1>5. \A s \in Slaves : Kept(s)
  BY <1>3, UnchangedKept
<1>6. \A s \in Slaves : (Idle(s) => Idle(s)') /\ (Silent(s) => Silent(s)' /\ reply'[s] = reply[s])
  BY <1>5 DEF Kept, Idle
<1>7. \A s \in Slaves : t \notin On(s) /\ t \notin On(s)'
  BY <1>1, <1>2 DEF IrqWakeUp, Goto, On, ThreadsOK, ThreadInv
<1>8. SlavesOK'
  BY <1>1, <1>2, <1>4, <1>5, <1>7, ThreadStepSlaves
<1> QED
  BY <1>2, <1>4, <1>8 DEF IInv

LEMMA IrqTimeoutInv ==
  ASSUME IInv, NEW t \in Threads, IrqTimeout(t)
  PROVE  IInv'
<1>1. ThreadsOK /\ VmeOK /\ LinkOK /\ SlavesOK
  BY DEF IInv
<1>2. ThreadsOK' /\ OthersKept(t)
  BY <1>1, StepOthers, IrqTimeoutThreads
<1>3. UNCHANGED <<reply, i_buf, DMAInProgress, dmaDone, dmaLost, txDma, asked, RXFIFO>>
  BY DEF IrqTimeout, dma, link
<1>4. LinkOK' /\ VmeOK' /\ spoiled \subseteq spoiled' /\ slave' = slave
  <2>1. LinkOK'
    BY <1>1, <1>3 DEF LinkOK
  <2>2. VmeOK' /\ spoiled \subseteq spoiled'
    BY <1>1 DEF IrqTimeout, VmeOK, vme, link
  <2> QED
    BY <2>1, <2>2 DEF IrqTimeout
<1>5. \A s \in Slaves : Kept(s)
  BY <1>3, UnchangedKept
<1>6. \A s \in Slaves : (Idle(s) => Idle(s)') /\ (Silent(s) => Silent(s)' /\ reply'[s] = reply[s])
  BY <1>5 DEF Kept, Idle
<1>7. \A s \in Slaves : t \notin On(s) /\ t \notin On(s)'
  BY <1>1, <1>2 DEF IrqTimeout, Goto, On, ThreadsOK, ThreadInv
<1>8. SlavesOK'
  BY <1>1, <1>2, <1>4, <1>5, <1>7, ThreadStepSlaves
<1> QED
  BY <1>2, <1>4, <1>8 DEF IInv

LEMMA LockInv ==
  ASSUME IInv, NEW t \in Threads, Lock(t)
  PROVE  IInv'
<1>1. ThreadsOK /\ VmeOK /\ LinkOK /\ SlavesOK
  BY DEF IInv
<1>2. ThreadsOK' /\ OthersKept(t)
  BY <1>1, StepOthers, LockThreads DEF Step
<1>3. UNCHANGED <<reply, i_buf, DMAInProgress, dmaDone, dmaLost, txDma, asked, RXFIFO>>
  BY DEF Lock, dma, link
<1>4. LinkOK' /\ VmeOK' /\ spoiled \subseteq spoiled' /\ slave' = slave
  <2>1. LinkOK'
    BY <1>1, <1>3 DEF LinkOK
  <2>2. VmeOK' /\ spoiled \subseteq spoiled'
    BY <1>1 DEF Lock, VmeOK, vme, link
  <2> QED
    BY <2>1, <2>2 DEF Lock
<1>5. \A s \in Slaves : Kept(s)
  BY <1>3, UnchangedKept
<1>6. \A s \in Slaves : (Idle(s) => Idle(s)') /\ (Silent(s) => Silent(s)' /\ reply'[s] = reply[s])
  BY <1>5 DEF Kept, Idle
<1>7. ASSUME NEW s \in Slaves PROVE t \notin On(s) => t \notin On(s)'
  BY <1>1 DEF Lock, Goto, On, ThreadsOK
<1>8. ASSUME NEW s \in Slaves \ spoiled', t \in On(s), Progress(t, s)
      PROVE  \/ t \in On(s)' /\ Progress(t, s)'
             \/ t \notin On(s)' /\ Idle(s)'
  <2>1. /\ pc[t] \in {"lock", "relock"} /\ cmd[t] # "IRQ_WAIT" /\ slave[t] = s
        /\ UNCHANGED <<cmd, call, failed, answer>> /\ call[t] \in Calls
    BY <1>1, <1>8 DEF Lock, On, ThreadsOK, ThreadInv
  <2>2. CASE pc[t] = "lock"
    <3>1. pc'[t] = "ioctl" /\ ~failed'[t] /\ Idle(s)'
      BY <1>1, <1>6, <1>8, <2>1, <2>2 DEF Lock, Goto, Progress, ThreadsOK, Clearing
    <3>2. t \in On(s)' /\ Progress(t, s)'
      BY <1>4, <2>1, <3>1 DEF On, Progress
    <3> QED
      BY <3>2
  <2>3. CASE pc[t] = "relock"
    <3>1. cmd[t] = "COMM" /\ ~failed[t] /\ Arrived(s, call[t])
      BY <1>8, <2>3 DEF Progress, Clearing
    <3>2. pc'[t] = "copy"
      BY <1>1, <2>3, <3>1 DEF Lock, Goto, ThreadsOK
    <3>3. Arrived(s, call[t])'
      BY <1>6, <2>1, <3>1 DEF Arrived
    <3>4. t \in On(s)' /\ Progress(t, s)'
      BY <1>4, <2>1, <3>1, <3>2, <3>3 DEF On, Progress
    <3> QED
      BY <3>4
  <2> QED
    BY <2>1, <2>2, <2>3
<1>9. SlavesOK'
  BY <1>1, <1>2, <1>4, <1>5, <1>7, <1>8, ThreadStepSlaves
<1> QED
  BY <1>2, <1>4, <1>9 DEF IInv

LEMMA UnlockInv ==
  ASSUME IInv, NEW t \in Threads, Unlock(t)
  PROVE  IInv'
<1>1. ThreadsOK /\ VmeOK /\ LinkOK /\ SlavesOK
  BY DEF IInv
<1>2. ThreadsOK' /\ OthersKept(t)
  BY <1>1, StepOthers, UnlockThreads DEF Step
<1>3. UNCHANGED <<reply, i_buf, DMAInProgress, dmaDone, dmaLost, txDma, asked, RXFIFO>>
  BY DEF Unlock, dma, link
<1>4. LinkOK' /\ VmeOK' /\ spoiled \subseteq spoiled' /\ slave' = slave
  <2>1. LinkOK'
    BY <1>1, <1>3 DEF LinkOK
  <2>2. VmeOK' /\ spoiled \subseteq spoiled'
    BY <1>1 DEF Unlock, VmeOK, vme, link
  <2> QED
    BY <2>1, <2>2 DEF Unlock
<1>5. \A s \in Slaves : Kept(s)
  BY <1>3, UnchangedKept
<1>6. \A s \in Slaves : (Idle(s) => Idle(s)') /\ (Silent(s) => Silent(s)' /\ reply'[s] = reply[s])
  BY <1>5 DEF Kept, Idle
<1>7. ASSUME NEW s \in Slaves PROVE t \notin On(s) => t \notin On(s)'
  BY <1>1 DEF Unlock, Goto, On, ThreadsOK
<1>8. ASSUME NEW s \in Slaves \ spoiled', t \in On(s), Progress(t, s)
      PROVE  \/ t \in On(s)' /\ Progress(t, s)'
             \/ t \notin On(s)' /\ Idle(s)'
  <2>1. Idle(s) /\ pc'[t] = "user"
    BY <1>1, <1>8 DEF Unlock, Goto, Progress, ThreadsOK, Clearing
  <2>2. t \notin On(s)' /\ Idle(s)'
    BY <1>6, <2>1 DEF On
  <2> QED
    BY <2>2
<1>9. SlavesOK'
  BY <1>1, <1>2, <1>4, <1>5, <1>7, <1>8, ThreadStepSlaves
<1> QED
  BY <1>2, <1>4, <1>9 DEF IInv

LEMMA WakeUpInv ==
  ASSUME IInv, NEW t \in Threads, WakeUp(t)
  PROVE  IInv'
<1>1. ThreadsOK /\ VmeOK /\ LinkOK /\ SlavesOK
  BY DEF IInv
<1>2. ThreadsOK' /\ OthersKept(t)
  BY <1>1, StepOthers, WakeUpThreads DEF Step
<1>3. UNCHANGED <<reply, i_buf, DMAInProgress, dmaDone, dmaLost, txDma, asked, RXFIFO>>
  BY DEF WakeUp, dma, link
<1>4. LinkOK' /\ VmeOK' /\ spoiled \subseteq spoiled' /\ slave' = slave
  <2>1. LinkOK'
    BY <1>1, <1>3 DEF LinkOK
  <2>2. VmeOK' /\ spoiled \subseteq spoiled'
    BY <1>1 DEF WakeUp, VmeOK, vme, link
  <2> QED
    BY <2>1, <2>2 DEF WakeUp
<1>5. \A s \in Slaves : Kept(s)
  BY <1>3, UnchangedKept
<1>6. \A s \in Slaves : (Idle(s) => Idle(s)') /\ (Silent(s) => Silent(s)' /\ reply'[s] = reply[s])
  BY <1>5 DEF Kept, Idle
<1>7. ASSUME NEW s \in Slaves PROVE t \notin On(s) => t \notin On(s)'
  BY <1>1 DEF WakeUp, Goto, On, ThreadsOK
<1>8. ASSUME NEW s \in Slaves \ spoiled', t \in On(s), Progress(t, s)
      PROVE  \/ t \in On(s)' /\ Progress(t, s)'
             \/ t \notin On(s)' /\ Idle(s)'
  <2>1. /\ pc[t] = "wait" /\ slave[t] = s /\ reply[s].ready /\ pc'[t] = "relock" /\ cmd[t] # "IRQ_WAIT"
        /\ UNCHANGED <<cmd, call, failed, answer>> /\ call[t] \in Calls
    BY <1>1, <1>8 DEF WakeUp, Goto, On, ThreadsOK, ThreadInv
  <2>2. ~Idle(s)
    BY <2>1 DEF Idle, EmptyReply
  <2>3. cmd[t] = "COMM" /\ ~failed[t] /\ Underway(s, call[t])
    BY <1>8, <2>1, <2>2 DEF Progress, Clearing
  <2>4. Arrived(s, call[t])
    BY <2>1, <2>3, ReadyArrived
  <2>5. Arrived(s, call[t])'
    BY <1>6, <2>1, <2>4 DEF Arrived
  <2>6. t \in On(s)' /\ Progress(t, s)'
    BY <1>4, <2>1, <2>3, <2>5 DEF On, Progress
  <2> QED
    BY <2>6
<1>9. SlavesOK'
  BY <1>1, <1>2, <1>4, <1>5, <1>7, <1>8, ThreadStepSlaves
<1> QED
  BY <1>2, <1>4, <1>9 DEF IInv

LEMMA GiveUpWaitingInv ==
  ASSUME IInv, NEW t \in Threads, GiveUpWaiting(t)
  PROVE  IInv'
<1>1. ThreadsOK /\ VmeOK /\ LinkOK /\ SlavesOK
  BY DEF IInv
<1>2. ThreadsOK' /\ OthersKept(t)
  BY <1>1, StepOthers, GiveUpWaitingThreads
<1>3. UNCHANGED <<reply, i_buf, DMAInProgress, dmaDone, dmaLost, txDma, asked, RXFIFO>>
  BY DEF GiveUpWaiting, dma, link
<1>4. LinkOK' /\ VmeOK' /\ spoiled \subseteq spoiled' /\ slave' = slave
  <2>1. LinkOK'
    BY <1>1, <1>3 DEF LinkOK
  <2>2. VmeOK' /\ spoiled \subseteq spoiled'
    BY <1>1 DEF GiveUpWaiting, VmeOK, vme, link, Spoil, ThreadsOK, ThreadInv
  <2> QED
    BY <2>1, <2>2 DEF GiveUpWaiting
<1>5. \A s \in Slaves : Kept(s)
  BY <1>3, UnchangedKept
<1>6. \A s \in Slaves : (Idle(s) => Idle(s)') /\ (Silent(s) => Silent(s)' /\ reply'[s] = reply[s])
  BY <1>5 DEF Kept, Idle
<1>7. ASSUME NEW s \in Slaves PROVE t \notin On(s) => t \notin On(s)'
  BY <1>1 DEF GiveUpWaiting, Goto, On, ThreadsOK
<1>8. ASSUME NEW s \in Slaves \ spoiled', t \in On(s), Progress(t, s)
      PROVE  \/ t \in On(s)' /\ Progress(t, s)'
             \/ t \notin On(s)' /\ Idle(s)'
  <2>1. slave[t] = s /\ s \in spoiled'
    BY <1>8 DEF On, GiveUpWaiting, Spoil
  <2> QED
    BY <1>8, <2>1
<1>9. SlavesOK'
  BY <1>1, <1>2, <1>4, <1>5, <1>7, <1>8, ThreadStepSlaves
<1> QED
  BY <1>2, <1>4, <1>9 DEF IInv

LEMMA CopyInv ==
  ASSUME IInv, NEW t \in Threads, Copy(t)
  PROVE  IInv'
<1>1. ThreadsOK /\ VmeOK /\ LinkOK /\ SlavesOK
  BY DEF IInv
<1>2. ThreadsOK' /\ OthersKept(t)
  BY <1>1, StepOthers, CopyThreads DEF Step
<1>3. UNCHANGED <<reply, i_buf, DMAInProgress, dmaDone, dmaLost, txDma, asked, RXFIFO>>
  BY DEF Copy, dma, link
<1>4. LinkOK' /\ VmeOK' /\ spoiled \subseteq spoiled' /\ slave' = slave
  <2>1. LinkOK'
    BY <1>1, <1>3 DEF LinkOK
  <2>2. VmeOK' /\ spoiled \subseteq spoiled'
    BY <1>1 DEF Copy, VmeOK, vme, link
  <2> QED
    BY <2>1, <2>2 DEF Copy
<1>5. \A s \in Slaves : Kept(s)
  BY <1>3, UnchangedKept
<1>6. \A s \in Slaves : (Idle(s) => Idle(s)') /\ (Silent(s) => Silent(s)' /\ reply'[s] = reply[s])
  BY <1>5 DEF Kept, Idle
<1>7. ASSUME NEW s \in Slaves PROVE t \notin On(s) => t \notin On(s)'
  BY <1>1 DEF Copy, Goto, On, ThreadsOK
<1>8. ASSUME NEW s \in Slaves \ spoiled', t \in On(s), Progress(t, s)
      PROVE  \/ t \in On(s)' /\ Progress(t, s)'
             \/ t \notin On(s)' /\ Idle(s)'
  <2>1. /\ pc[t] = "copy" /\ slave[t] = s /\ UNCHANGED <<cmd, call>> /\ call[t] \in Calls
        /\ cmd[t] # "IRQ_WAIT" /\ ~failed[t]
        /\ \/ cmd[t] = "COMM" /\ Arrived(s, call[t])
           \/ cmd[t] = "COMM_IN" /\ Idle(s)
    BY <1>1, <1>8 DEF Copy, On, ThreadsOK, ThreadInv, Progress, Clearing
  <2>2. pc'[t] = "clear il_buf_p"
    <3>1. Goto(t, "clear il_buf_p")
      BY <2>1 DEF Copy, Comm
    <3> QED
      BY <1>1, <3>1 DEF Goto, ThreadsOK
  <2>3. t \in On(s)'
    BY <1>4, <2>1, <2>2 DEF On
  <2>4. CASE cmd[t] = "COMM_IN"
    <3>1. Idle(s)'
      BY <1>6, <2>1, <2>4
    <3> QED
      BY <2>1, <2>2, <2>3, <2>4, <3>1 DEF Progress, Clearing
  <2>5. CASE cmd[t] = "COMM"
    <3> DEFINE x == reply[s]
               n == IF x.sz < Len(x.buf) THEN x.sz ELSE Len(x.buf)
               a == SubSeq(x.buf, 1, n)
    <3>1. reply[s] = Received(s, call[t], AnswerSize[call[t]])
      BY <2>1, <2>5 DEF Arrived
    <3>2. a = Whole(s, call[t])
      BY <2>1, <3>1, CopyWhole
    <3>3. \/ answer' = [answer EXCEPT ![t] = a] /\ failed' = failed
          \/ failed' = [failed EXCEPT ![t] = TRUE]
      BY <2>1, <2>5 DEF Copy, Comm
    <3> HIDE DEF a
    <3>4. failed'[t] \/ answer'[t] = Whole(s, call[t])
      BY <1>1, <3>2, <3>3 DEF ThreadsOK
    <3>5. Arrived(s, call[t])' /\ Silent(s)'
      BY <1>6, <2>1, <2>5 DEF Arrived
    <3>6. Whole(s, call[t])' = Whole(s, call[t])
      BY <2>1 DEF Whole
    <3>7. Progress(t, s)'
      BY <2>1, <2>2, <2>5, <3>4, <3>5, <3>6 DEF Progress
    <3> QED
      BY <2>3, <3>7
  <2> QED
    BY <2>1, <2>4, <2>5
<1>9. SlavesOK'
  BY <1>1, <1>2, <1>4, <1>5, <1>7, <1>8, ThreadStepSlaves
<1> QED
  BY <1>2, <1>4, <1>9 DEF IInv

LEMMA ReleaseInv ==
  ASSUME IInv, NEW t \in Threads, Release(t)
  PROVE  IInv'
<1>1. ThreadsOK /\ VmeOK /\ LinkOK /\ SlavesOK
  BY DEF IInv
<1>2. ThreadsOK' /\ OthersKept(t)
  BY <1>1, StepOthers, ReleaseThreads
<1>3. UNCHANGED <<reply, i_buf, DMAInProgress, dmaDone, dmaLost, txDma, asked, RXFIFO>>
  BY DEF Release, dma, link
<1>4. LinkOK' /\ VmeOK' /\ spoiled \subseteq spoiled'
  <2>1. LinkOK'
    BY <1>1, <1>3 DEF LinkOK
  <2>2. VmeOK' /\ spoiled \subseteq spoiled'
    BY <1>1 DEF Release, VmeOK, vme, link
  <2> QED
    BY <2>1, <2>2 DEF Release
<1>5. \A s \in Slaves : Kept(s)
  BY <1>3, UnchangedKept
<1>6. \A s \in Slaves : (Idle(s) => Idle(s)') /\ (Silent(s) => Silent(s)' /\ reply'[s] = reply[s])
  BY <1>5 DEF Kept, Idle
<1>7. ASSUME NEW s \in Slaves \ spoiled' PROVE SlaveInv(s)'
  <2>1. SlaveInv(s) /\ Kept(s)
    BY <1>1, <1>5, <1>7 DEF SlavesOK, Release
  <2>2. t \notin On(s) /\ t \notin On(s)'
    BY <1>1 DEF Release, Goto, On, ThreadsOK
  <2> QED
    BY <1>1, <1>2, <2>1, <2>2, OtherKept
<1> QED
  BY <1>2, <1>4, <1>7 DEF IInv, SlavesOK

-----------------------------------------------------------------------------
(* The actions that use the link: send, poll, reset, and clearing a reply.   *)

LEMMA SendInv ==
  ASSUME IInv, NEW t \in Threads, Send(t)
  PROVE  IInv'
<1>1. ThreadsOK /\ VmeOK /\ LinkOK /\ SlavesOK
  BY DEF IInv
<1>2. ThreadsOK' /\ OthersKept(t)
  BY <1>1, StepOthers, SendThreads DEF Step
<1> DEFINE s0 == slave[t]
           r0 == call[t]
<1>3. /\ UNCHANGED <<cmd, slave, call, answer, reply, spoiled>> /\ s0 \in Slaves /\ r0 \in Calls
      /\ ~failed[t] /\ pc[t] \in {"ioctl", "send"} /\ cmd[t] \in Comm \cup {"SEND"}
      /\ cmd[t] # "IRQ_WAIT"
  BY <1>1 DEF Send, ThreadsOK, ThreadInv, Comm
<1>4. \A s \in Slaves : t \in On(s) <=> s = s0
  BY <1>3 DEF On
<1>5. pc'[t] \notin {"closed", "user"} => \A s \in Slaves : t \in On(s)' <=> s = s0
  BY <1>3 DEF On
<1>6. CASE LINK_FAIL /\ pc[t] = "ioctl"
  <2>1. PICK still \in BOOLEAN :
          /\ Reset(still)
          /\ Goto(t, IF still THEN IF cmd[t] \in Comm THEN "clear il_buf_p" ELSE "unlock" ELSE "send")
          /\ failed' = [failed EXCEPT ![t] = still]
    BY <1>6 DEF Send
  <2>2. LinkOK'
    BY <1>1, <1>3, <2>1, ResetLink
  <2>3. \A s \in Slaves : Kept(s)
    BY <1>1, <1>3, <2>1, ResetKept, A2818Assumption DEF Reset, LinkOK
  <2>4. VmeOK'
    BY <1>1, <2>1 DEF Send, VmeOK, vme, Reset
  <2>5. /\ pc'[t] = IF still THEN IF cmd[t] \in Comm THEN "clear il_buf_p" ELSE "unlock" ELSE "send"
        /\ failed'[t] = still
    BY <1>1, <2>1 DEF Goto, ThreadsOK
  <2>6. \A s \in Slaves : t \in On(s)' <=> s = s0
    BY <1>5, <2>5
  <2>7. ASSUME NEW s \in Slaves \ spoiled', t \in On(s), Progress(t, s) PROVE Progress(t, s)'
    <3>1. s = s0 /\ cmd[t] \in {"COMM", "COMM_IN"} /\ Idle(s)
      BY <1>1, <1>3, <1>4, <1>6, <2>7 DEF ThreadsOK, ThreadInv, Progress, Clearing, Comm
    <3>2. Idle(s)'
      BY <2>3, <3>1 DEF Kept, Idle
    <3> QED
      BY <1>3, <2>5, <3>1, <3>2 DEF Progress, Clearing, Comm
  <2>8. SlavesOK'
    BY <1>1, <1>2, <1>3, <1>4, <2>3, <2>6, <2>7, ThreadStepSlaves
  <2> QED
    BY <1>2, <2>2, <2>4, <2>8 DEF IInv
<1>7. CASE ~(LINK_FAIL /\ pc[t] = "ioctl")
  <2>1. /\ \/ cmd[t] # "COMM_IN" /\ SendPkt(s0, r0)
           \/ cmd[t] \in {"COMM_IN", "SEND"} /\ UNCHANGED <<asked, txDma>>
        /\ Goto(t, IF cmd[t] = "COMM" THEN "poll" ELSE "copy")
        /\ UNCHANGED <<failed, RXFIFO, LINK_FAIL, tooLong, linkFails, dma>>
    BY <1>7 DEF Send
  <2>2. LinkOK'
    <3>1. CASE SendPkt(s0, r0)
      BY <1>1, <1>3, <2>1, <3>1, SendPktLink
    <3>2. CASE UNCHANGED <<asked, txDma>>
      BY <1>1, <1>3, <2>1, <3>2 DEF LinkOK, dma
    <3> QED
      BY <2>1, <3>1, <3>2
  <2>3. \A s \in Slaves : s # s0 => Kept(s)
    <3>1. CASE SendPkt(s0, r0)
      BY <1>1, <1>3, <2>1, <3>1, SendPktKept DEF dma
    <3>2. CASE UNCHANGED <<asked, txDma>>
      BY <1>1, <1>3, <2>1, <3>2, UnchangedKept DEF LinkOK, dma
    <3> QED
      BY <2>1, <3>1, <3>2
  <2>4. VmeOK'
    BY <1>1, <2>1 DEF Send, VmeOK, vme
  <2>5. pc'[t] = IF cmd[t] = "COMM" THEN "poll" ELSE "copy"
    BY <1>1, <2>1 DEF Goto, ThreadsOK
  <2>6. \A s \in Slaves : t \in On(s)' <=> s = s0
    BY <1>5, <2>5
  <2>7. ASSUME NEW s \in Slaves \ spoiled', t \in On(s), Progress(t, s) PROVE Progress(t, s)'
    <3>1. s = s0 /\ cmd[t] \in {"COMM", "COMM_IN"} /\ Idle(s)
      BY <1>1, <1>3, <1>4, <2>7 DEF ThreadsOK, ThreadInv, Progress, Clearing, Comm
    <3>2. CASE cmd[t] = "COMM"
      <4>1. Underway(s, r0)'
        BY <1>1, <1>3, <2>1, <3>1, <3>2, SendPktStarts DEF dma
      <4>2. Underway(s, call[t])'
        BY <1>3, <4>1 DEF Underway, Coming
      <4>3. pc'[t] = "poll" /\ cmd'[t] = "COMM" /\ ~failed'[t]
        BY <1>3, <2>1, <2>5, <3>2
      <4> QED
        BY <4>2, <4>3 DEF Progress
    <3>3. CASE cmd[t] = "COMM_IN"
      <4>1. Kept(s)
        BY <1>1, <1>3, <2>1, <3>3, UnchangedKept DEF LinkOK, dma
      <4>2. Idle(s)'
        BY <3>1, <4>1 DEF Kept, Idle
      <4>3. pc'[t] = "copy" /\ cmd'[t] = "COMM_IN" /\ ~failed'[t]
        BY <1>3, <2>1, <2>5, <3>3
      <4> QED
        BY <4>2, <4>3 DEF Progress
    <3> QED
      BY <3>1, <3>2, <3>3
  <2>8. SlavesOK'
    BY <1>1, <1>2, <1>3, <1>4, <2>3, <2>6, <2>7, ThreadStepSlaves
  <2> QED
    BY <1>2, <2>2, <2>4, <2>8 DEF IInv
<1> QED
  BY <1>6, <1>7

(* What cannot be copied from the process is not sent. *)
LEMMA CopyFromUserFailsInv ==
  ASSUME IInv, NEW t \in Threads, CopyFromUserFails(t)
  PROVE  IInv'
<1>1. ThreadsOK /\ VmeOK /\ LinkOK /\ SlavesOK
  BY DEF IInv
<1>2. ThreadsOK' /\ OthersKept(t)
  BY <1>1, StepOthers, CopyFromUserFailsThreads
<1> DEFINE s0 == slave[t]
<1>3. /\ UNCHANGED <<cmd, slave, call, answer, reply, spoiled, asked, RXFIFO>>
      /\ UNCHANGED <<i_buf, DMAInProgress, dmaDone, dmaLost>>
      /\ s0 \in Slaves /\ call[t] \in Calls
      /\ pc[t] = "ioctl" /\ pc'[t] = "unlock" /\ failed'[t] /\ cmd[t] \notin {"RECV", "RESET"}
  BY <1>1 DEF CopyFromUserFails, ThreadsOK, ThreadInv, Goto, dma
<1>4. \/ txDma' = txDma
      \/ /\ txDma.slave = s0 /\ txDma' = [txDma EXCEPT !.call = call[t]]
         /\ cmd[t] \notin {"IRQ_WAIT", "COMM_IN"}
  BY DEF CopyFromUserFails
<1>5. LinkOK' /\ VmeOK'
  <2>1. txDma.slave = s0 => txDma \in [slave : Slaves, call : Calls]
    BY <1>1, <1>3, A2818Assumption DEF LinkOK, NoDma
  <2>2. txDma' \in [slave : Slaves, call : Calls] \cup {NoDma}
    BY <1>1, <1>3, <1>4, <2>1 DEF LinkOK
  <2>3. VmeOK'
    BY <1>1 DEF CopyFromUserFails, VmeOK, vme
  <2> QED
    BY <1>1, <1>3, <2>2, <2>3 DEF LinkOK
<1>6. \A s \in Slaves : t \in On(s) <=> s = s0 /\ cmd[t] # "IRQ_WAIT"
  BY <1>3 DEF On
<1>7. \A s \in Slaves : t \in On(s)' <=> s = s0 /\ cmd[t] # "IRQ_WAIT"
  BY <1>3 DEF On
<1>8. ASSUME NEW s \in Slaves, t \notin On(s) PROVE Kept(s)
  <2>1. txDma'.slave = s => txDma' = txDma
    <3>1. CASE s # s0
      BY <1>1, <1>3, <1>4, <3>1, BufferOfOther
    <3>2. CASE s = s0
      BY <1>4, <1>6, <1>8, <3>2
    <3> QED
      BY <3>1, <3>2
  <2> QED
    BY <1>3, <2>1, OtherLinkKept
<1>9. ASSUME NEW s \in Slaves \ spoiled', t \in On(s), Progress(t, s) PROVE Progress(t, s)'
  <2>1. s = s0 /\ cmd[t] \in {"COMM", "COMM_IN"} /\ Idle(s)
    BY <1>1, <1>3, <1>6, <1>9 DEF ThreadsOK, ThreadInv, Progress, Clearing, Commands, Comm
  <2>2. txDma' = txDma
    BY <1>4, <2>1 DEF Idle, Silent
  <2>3. Idle(s)'
    <3>1. Kept(s)
      BY <1>3, <2>2, UnchangedKept
    <3> QED
      BY <2>1, <3>1 DEF Kept, Idle
  <2> QED
    BY <1>3, <2>1, <2>3 DEF Progress
<1>10. SlavesOK'
  BY <1>1, <1>2, <1>3, <1>6, <1>7, <1>8, <1>9, ThreadStepSlaves
<1> QED
  BY <1>2, <1>5, <1>10 DEF IInv

LEMMA PollLink ==
  ASSUME LinkOK, VmeOK, NEW t \in Threads, Poll(t)
  PROVE  /\ LinkOK' /\ Losing({})
         /\ \A s \in Slaves \ spoiled' : Kept(s)
<1>1. UNCHANGED <<dmaLost, txDma, asked>>
  BY DEF Poll
<1>2. CASE ~DMAInProgress /\ HandleRx(reply, {})
  <2>1. ~dmaLost' /\ Stream = RXFIFO /\ reply \in [Slaves -> Replies]
    BY <1>1, <1>2, ConcatEmptySeq DEF LinkOK, Stream
  <2>2. {} \in SUBSET Slaves
    OBVIOUS
  <2>3. /\ LinkOK' /\ Losing({})
        /\ \A s \in Slaves \ spoiled' : Follows(s, reply, RXFIFO, reply', Stream')
    BY <1>1, <1>2, <2>1, <2>2, HandleRxLink
  <2> QED
    BY <1>1, <2>1, <2>3, FollowsKept
<1>3. CASE UNCHANGED <<reply, RXFIFO, i_buf, DMAInProgress, dmaDone, spoiled, linkFails>>
  <2>1. LinkOK' /\ Losing({})
    BY <1>1, <1>3 DEF LinkOK, VmeOK, Losing
  <2> QED
    BY <1>1, <1>3, <2>1, UnchangedKept
<1> QED
  BY <1>2, <1>3 DEF Poll

LEMMA PollInv ==
  ASSUME IInv, NEW t \in Threads, Poll(t)
  PROVE  IInv'
<1>1. ThreadsOK /\ VmeOK /\ LinkOK /\ SlavesOK
  BY DEF IInv
<1>2. ThreadsOK' /\ OthersKept(t)
  BY <1>1, StepOthers, PollThreads DEF Step
<1>3. LinkOK' /\ Losing({}) /\ \A s \in Slaves \ spoiled' : Kept(s)
  BY <1>1, PollLink
<1>4. VmeOK' /\ UNCHANGED <<cmd, slave, call, failed, answer>> /\ spoiled \subseteq spoiled'
  BY <1>1, <1>3 DEF Poll, VmeOK, vme, Losing
<1>5. ASSUME NEW s \in Slaves PROVE t \notin On(s) => t \notin On(s)'
  BY <1>1 DEF Poll, Goto, On, ThreadsOK
<1>6. ASSUME NEW s \in Slaves \ spoiled', t \in On(s), Progress(t, s)
      PROVE  t \in On(s)' /\ Progress(t, s)'
  <2>1. /\ pc[t] = "poll" \/ (pc[t] = "ioctl" /\ cmd[t] = "RECV")
        /\ pc'[t] = "wait" /\ slave[t] = s /\ cmd[t] # "IRQ_WAIT" /\ call[t] \in Calls
    BY <1>1, <1>6 DEF Poll, Goto, On, ThreadsOK, ThreadInv
  <2>2. t \in On(s)'
    BY <1>4, <2>1 DEF On
  <2>3. CASE pc[t] = "poll"
    <3>1. cmd[t] = "COMM" /\ ~failed[t] /\ Underway(s, call[t])
      BY <1>6, <2>3 DEF Progress, Clearing
    <3>2. \A r \in Calls : Underway(s, r) => Underway(s, r)'
      BY <1>3, <1>6 DEF Kept
    <3>3. Underway(s, call[t])'
      BY <1>4, <2>1, <3>1, <3>2 DEF Underway, Coming
    <3> QED
      BY <1>4, <2>1, <2>2, <3>1, <3>3 DEF Progress
  <2>4. CASE pc[t] = "ioctl" /\ cmd[t] = "RECV"
    <3>1. Idle(s)
      BY <1>6, <2>4 DEF Progress, Clearing
    <3>2. Idle(s)'
      BY <1>3, <1>6, <3>1 DEF Kept, Idle
    <3> QED
      BY <1>4, <2>1, <2>2, <2>4, <3>2 DEF Progress
  <2> QED
    BY <2>1, <2>3, <2>4
<1>7. SlavesOK'
  BY <1>1, <1>2, <1>3, <1>4, <1>5, <1>6, ThreadStepSlaves
<1> QED
  BY <1>2, <1>3, <1>4, <1>7 DEF IInv

LEMMA ResetCardInv ==
  ASSUME IInv, NEW t \in Threads, ResetCard(t)
  PROVE  IInv'
<1>1. ThreadsOK /\ VmeOK /\ LinkOK /\ SlavesOK
  BY DEF IInv
<1>2. ThreadsOK' /\ OthersKept(t)
  BY <1>1, StepOthers, ResetCardThreads DEF Step
<1>3. PICK still \in {FALSE, LINK_FAIL} : Reset(still)
  BY DEF ResetCard
<1>4. UNCHANGED <<cmd, slave, call, failed, answer, reply, spoiled>>
  BY DEF ResetCard
<1>5. LinkOK'
  BY <1>1, <1>3, <1>4, ResetLink
<1>6. \A s \in Slaves : Kept(s)
  BY <1>1, <1>3, <1>4, ResetKept, A2818Assumption DEF Reset, LinkOK
<1>7. VmeOK'
  BY <1>1, <1>3 DEF ResetCard, Reset, VmeOK, vme
<1>8. ASSUME NEW s \in Slaves PROVE t \notin On(s) => t \notin On(s)'
  BY <1>1 DEF ResetCard, Goto, On, ThreadsOK
<1>9. ASSUME NEW s \in Slaves \ spoiled', t \in On(s), Progress(t, s)
      PROVE  t \in On(s)' /\ Progress(t, s)'
  <2>1. pc[t] = "ioctl" /\ cmd[t] = "RESET" /\ pc'[t] = "unlock" /\ slave[t] = s
    BY <1>1, <1>9 DEF ResetCard, Goto, On, ThreadsOK
  <2>2. Idle(s)
    BY <1>9, <2>1 DEF Progress, Clearing
  <2>3. Idle(s)'
    BY <1>6, <2>2 DEF Kept, Idle
  <2> QED
    BY <1>4, <2>1, <2>3 DEF On, Progress
<1>10. SlavesOK'
  BY <1>1, <1>2, <1>4, <1>6, <1>8, <1>9, ThreadStepSlaves
<1> QED
  BY <1>2, <1>5, <1>7, <1>10 DEF IInv

LEMMA ReplyFields ==
  ASSUME NEW x \in Replies
  PROVE x = [buf |-> x.buf, p |-> x.p, sz |-> x.sz, ready |-> x.ready]
BY DEF Replies

LEMMA ReadyCleared ==
  ASSUME NEW x \in Replies
  PROVE  [x EXCEPT !.ready = FALSE] = [buf |-> x.buf, p |-> x.p, sz |-> x.sz, ready |-> FALSE]
<1> DEFINE z == [x EXCEPT !.ready = FALSE]
<1>1. z \in Replies
  BY DEF Replies
<1>2. z.buf = x.buf /\ z.p = x.p /\ z.sz = x.sz
  BY DEF Replies
<1>3. z.ready = FALSE
  BY DEF Replies
<1> HIDE DEF z
<1>4. z = [buf |-> z.buf, p |-> z.p, sz |-> z.sz, ready |-> z.ready]
  BY <1>1, ReplyFields
<1> QED
  BY <1>2, <1>3, <1>4 DEF z

LEMMA BufferCleared ==
  ASSUME NEW x \in Replies
  PROVE  [[x EXCEPT !.p = 0] EXCEPT !.buf = <<>>] = [buf |-> <<>>, p |-> 0, sz |-> x.sz, ready |-> x.ready]
<1> DEFINE n == <<>>
<1>1. n \in Seq(Packets)
  BY EmptySeq
<1> HIDE DEF n
<1> DEFINE z == [[x EXCEPT !.p = 0] EXCEPT !.buf = n]
<1>2. z \in Replies
  BY <1>1 DEF Replies
<1>3. z.buf = n /\ z.p = 0 /\ z.sz = x.sz
  BY DEF Replies
<1>4. z.ready = x.ready
  BY DEF Replies
<1> HIDE DEF z
<1>5. z = [buf |-> z.buf, p |-> z.p, sz |-> z.sz, ready |-> z.ready]
  BY <1>2, ReplyFields
<1>6. z = [buf |-> n, p |-> 0, sz |-> x.sz, ready |-> x.ready]
  BY <1>3, <1>4, <1>5
<1> QED
  BY <1>6 DEF z, n

(* The driver takes an answer back in three steps, none of which another     *)
(* thread's packets can come between, for the slave is silent.               *)
LEMMA ClearInv ==
  ASSUME IInv, NEW t \in Threads, Clear(t)
  PROVE  IInv'
<1>1. ThreadsOK /\ VmeOK /\ LinkOK /\ SlavesOK
  BY DEF IInv
<1>2. ThreadsOK' /\ OthersKept(t)
  BY <1>1, StepOthers, ClearThreads DEF Step
<1> DEFINE s0 == slave[t]
           x == reply[s0]
<1>3. /\ UNCHANGED <<cmd, slave, call, failed, answer, spoiled>> /\ s0 \in Slaves /\ call[t] \in Calls
      /\ UNCHANGED <<i_buf, DMAInProgress, dmaDone, dmaLost, txDma, asked, RXFIFO>>
      /\ pc[t] \in Clearing /\ cmd[t] # "IRQ_WAIT"
  BY <1>1 DEF Clear, ThreadsOK, ThreadInv, Clearing, dma, link
<1>4. x \in Replies
  BY <1>1, <1>3 DEF LinkOK
<1> DEFINE one   == [buf |-> <<>>, p |-> 0, sz |-> x.sz, ready |-> x.ready]
           two   == [buf |-> x.buf, p |-> x.p, sz |-> x.sz, ready |-> FALSE]
           three == [buf |-> x.buf, p |-> x.p, sz |-> 0, ready |-> x.ready]
<1>5. PICK y :
        /\ reply' = [reply EXCEPT ![s0] = y]
        /\ \/ pc[t] = "clear il_buf_p" /\ pc'[t] = "clear rx_ready" /\ y = one
           \/ pc[t] = "clear rx_ready" /\ pc'[t] = "clear il_buf_sz" /\ y = two
           \/ pc[t] = "clear il_buf_sz" /\ pc'[t] = "unlock" /\ y = three
  <2>1. /\ [[x EXCEPT !.p = 0] EXCEPT !.buf = <<>>] = one
        /\ [x EXCEPT !.ready = FALSE] = two
        /\ [x EXCEPT !.sz = 0] = three
    <3> HIDE DEF x
    <3>1. [[x EXCEPT !.p = 0] EXCEPT !.buf = <<>>] = one
      BY <1>4, BufferCleared
    <3>2. [x EXCEPT !.ready = FALSE] = two
      BY <1>4, ReadyCleared
    <3>3. [x EXCEPT !.sz = 0] = three
      BY <1>4 DEF Replies
    <3> QED
      BY <3>1, <3>2, <3>3
  <2>2. CASE pc[t] = "clear il_buf_p"
    <3>1. reply' = [reply EXCEPT ![s0].p = 0, ![s0].buf = <<>>] /\ Goto(t, "clear rx_ready")
      BY <2>2 DEF Clear
    <3>2. reply' = [reply EXCEPT ![s0] = [[x EXCEPT !.p = 0] EXCEPT !.buf = <<>>]]
      BY <1>1, <1>3, <3>1 DEF LinkOK
    <3>3. pc'[t] = "clear rx_ready"
      BY <1>1, <3>1 DEF Goto, ThreadsOK
    <3> HIDE DEF one, x
    <3> QED
      BY <2>1, <2>2, <3>2, <3>3
  <2>3. CASE pc[t] = "clear rx_ready"
    <3>1. reply' = [reply EXCEPT ![s0].ready = FALSE] /\ Goto(t, "clear il_buf_sz")
      BY <2>3 DEF Clear
    <3>2. reply' = [reply EXCEPT ![s0] = [x EXCEPT !.ready = FALSE]]
      BY <3>1
    <3>3. pc'[t] = "clear il_buf_sz"
      BY <1>1, <3>1 DEF Goto, ThreadsOK
    <3> HIDE DEF two, x
    <3> QED
      BY <2>1, <2>3, <3>2, <3>3
  <2>4. CASE pc[t] = "clear il_buf_sz"
    <3>1. reply' = [reply EXCEPT ![s0].sz = 0] /\ Goto(t, "unlock")
      BY <2>4 DEF Clear
    <3>2. reply' = [reply EXCEPT ![s0] = [x EXCEPT !.sz = 0]]
      BY <3>1
    <3>3. pc'[t] = "unlock"
      BY <1>1, <3>1 DEF Goto, ThreadsOK
    <3> HIDE DEF three, x
    <3> QED
      BY <2>1, <2>4, <3>2, <3>3
  <2> QED
    BY <1>3, <2>2, <2>3, <2>4 DEF Clearing
<1>6. LinkOK' /\ VmeOK'
  <2>1. <<>> \in Seq(Packets)
    BY EmptySeq
  <2>2. one \in Replies /\ two \in Replies /\ three \in Replies
    BY <1>4, <2>1 DEF Replies
  <2> HIDE DEF one, two, three
  <2>3. reply' \in [Slaves -> Replies]
    BY <1>1, <1>5, <2>2 DEF LinkOK
  <2>4. VmeOK'
    BY <1>1 DEF Clear, VmeOK, vme, link
  <2> QED
    BY <1>1, <1>3, <2>3, <2>4 DEF LinkOK
<1>6a. reply'[s0] = y
  BY <1>1, <1>3, <1>5 DEF LinkOK
<1>7. \A s \in Slaves : s # s0 => Kept(s)
  <2>1. \A s \in Slaves : s # s0 => reply'[s] = reply[s]
    BY <1>1, <1>5 DEF LinkOK
  <2> QED
    BY <1>3, <2>1, UnchangedKept
<1>8. \A s \in Slaves : t \in On(s) <=> s = s0
  BY <1>3 DEF On, Clearing
<1>9. \A s \in Slaves : t \in On(s)' <=> s = s0
  BY <1>3, <1>5 DEF On
<1>10. Silent(s0) => Silent(s0)'
  BY <1>3 DEF Silent, Stream
<1>11. ASSUME NEW s \in Slaves \ spoiled', t \in On(s), Progress(t, s) PROVE Progress(t, s)'
  <2>1. s = s0 /\ Silent(s)' /\ pc'[t] \in Clearing \cup {"unlock"}
    BY <1>3, <1>5, <1>8, <1>10, <1>11 DEF Progress, Clearing, Idle, Arrived
  <2>2. CASE Idle(s) /\ ((cmd[t] = "COMM" /\ failed[t]) \/ cmd[t] = "COMM_IN")
    <3>1. reply[s0] = EmptyReply
      BY <2>1, <2>2 DEF Idle
    <3>2. reply'[s0] = EmptyReply
      <4>1. one = EmptyReply /\ two = EmptyReply /\ three = EmptyReply
        BY <3>1 DEF EmptyReply
      <4> HIDE DEF one, two, three
      <4> QED
        BY <1>5, <1>6a, <4>1
    <3> QED
      BY <1>3, <2>1, <2>2, <3>2 DEF Progress, Idle
  <2>3. CASE /\ cmd[t] = "COMM" /\ (failed[t] \/ answer[t] = Whole(s, call[t]))
             /\ \/ pc[t] = "clear il_buf_p" /\ Arrived(s, call[t])
                \/ pc[t] = "clear rx_ready"
                   /\ reply[s] = [buf |-> <<>>, p |-> 0, sz |-> AnswerSize[call[t]], ready |-> TRUE]
                \/ pc[t] = "clear il_buf_sz"
                   /\ reply[s] = [buf |-> <<>>, p |-> 0, sz |-> AnswerSize[call[t]], ready |-> FALSE]
    <3>1. failed[t] \/ answer[t] = Whole(s, call[t])
      BY <2>3
    <3>2. Whole(s, call[t])' = Whole(s, call[t])
      BY <1>3 DEF Whole
    <3>3. CASE pc[t] = "clear il_buf_p"
      <4>1. x = Received(s, call[t], AnswerSize[call[t]])
        BY <2>1, <2>3, <3>3 DEF Arrived
      <4>2. one = [buf |-> <<>>, p |-> 0, sz |-> AnswerSize[call[t]], ready |-> TRUE]
        <5>1. /\ Received(s, call[t], AnswerSize[call[t]]).sz = AnswerSize[call[t]]
              /\ Received(s, call[t], AnswerSize[call[t]]).ready = TRUE
          BY DEF Received
        <5> HIDE DEF x
        <5> QED
          BY <4>1, <5>1
      <4>3. reply'[s] = [buf |-> <<>>, p |-> 0, sz |-> AnswerSize[call[t]], ready |-> TRUE]
        BY <1>5, <1>6a, <2>1, <3>3, <4>2
      <4>4. pc'[t] = "clear rx_ready"
        BY <1>5, <3>3
      <4> QED
        BY <1>3, <2>1, <2>3, <3>1, <3>2, <4>3, <4>4 DEF Progress
    <3>4. CASE pc[t] = "clear rx_ready"
      <4>1. x = [buf |-> <<>>, p |-> 0, sz |-> AnswerSize[call[t]], ready |-> TRUE]
        BY <2>1, <2>3, <3>4
      <4>2. reply'[s] = [buf |-> <<>>, p |-> 0, sz |-> AnswerSize[call[t]], ready |-> FALSE]
        <5>1. two = [buf |-> <<>>, p |-> 0, sz |-> AnswerSize[call[t]], ready |-> FALSE]
          <6> HIDE DEF x
          <6> QED
            BY <4>1
        <5> HIDE DEF two
        <5> QED
          BY <1>5, <1>6a, <2>1, <3>4, <5>1
      <4>3. pc'[t] = "clear il_buf_sz"
        BY <1>5, <3>4
      <4> QED
        BY <1>3, <2>1, <2>3, <3>1, <3>2, <4>2, <4>3 DEF Progress
    <3>5. CASE pc[t] = "clear il_buf_sz"
      <4>1. x = [buf |-> <<>>, p |-> 0, sz |-> AnswerSize[call[t]], ready |-> FALSE]
        BY <2>1, <2>3, <3>5
      <4>2. reply'[s] = EmptyReply
        <5>1. three = EmptyReply
          <6> HIDE DEF x
          <6> QED
            BY <4>1 DEF EmptyReply
        <5> HIDE DEF three
        <5> QED
          BY <1>5, <1>6a, <2>1, <3>5, <5>1
      <4>3. pc'[t] = "unlock"
        BY <1>5, <3>5
      <4> QED
        BY <1>3, <2>1, <2>3, <3>1, <3>2, <4>2, <4>3 DEF Progress, Idle
    <3> QED
      BY <1>3, <3>3, <3>4, <3>5 DEF Clearing
  <2> QED
    BY <1>3, <1>11, <2>2, <2>3 DEF Progress, Clearing
<1>12. SlavesOK'
  BY <1>1, <1>2, <1>3, <1>7, <1>8, <1>9, <1>11, ThreadStepSlaves
<1> QED
  BY <1>2, <1>6, <1>12 DEF IInv

-----------------------------------------------------------------------------
(* The steps together.                                                       *)

(* The card's and the interrupt's steps keep the invariant.                  *)
LEMMA CardInv ==
  ASSUME IInv, Interrupt \/ RxDmaEnds \/ Card \/ \E t \in Threads : EnableVmeInt(t)
  PROVE  IInv'
<1>1. ThreadsOK /\ VmeOK /\ LinkOK /\ SlavesOK
  BY DEF IInv
<1>2. /\ UNCHANGED <<pc, cmd, slave, call, failed, answer, ioctl_lock, calls>>
      /\ UNCHANGED spoiled \/ Interrupt
  BY DEF Interrupt, RxDmaEnds, Card, TxDmaEnds, LinkFails, CountFails, Answer, VmeIrq, EnableVmeInt,
         threads
<1>2a. spoiled \subseteq spoiled'
  BY <1>1, <1>2, InterruptLink DEF Losing
<1>3. ThreadsOK'
  BY <1>1, <1>2, <1>2a, ThreadsKept DEF threads
<1>4. ASSUME \A s \in Slaves \ spoiled' : Kept(s) PROVE SlavesOK'
  BY <1>1, <1>2, <1>2a, <1>3, <1>4, NobodyKept DEF SlavesOK
<1>5. ASSUME UNCHANGED <<reply, i_buf, DMAInProgress, dmaLost, txDma, asked, RXFIFO>>,
             UNCHANGED dmaDone \/ RxDmaEnds
      PROVE  LinkOK' /\ \A s \in Slaves : Kept(s)
  <2>1. LinkOK'
    <3>1. /\ dmaDone' \in BOOLEAN /\ (dmaDone' \/ dmaLost' => DMAInProgress')
          /\ ~(dmaDone' /\ dmaLost')
      <4>1. CASE UNCHANGED dmaDone
        BY <1>1, <1>5, <4>1 DEF LinkOK
      <4>2. CASE RxDmaEnds
        BY <1>1, <1>5, <4>2 DEF LinkOK, RxDmaEnds
      <4> QED
        BY <1>5, <4>1, <4>2
    <3> QED
      BY <1>1, <1>5, <3>1 DEF LinkOK
  <2> QED
    BY <1>5, <2>1, UnchangedKept
<1>6. CASE Interrupt
  <2>1. LinkOK' /\ Losing({}) /\ \A s \in Slaves \ spoiled' : Kept(s)
    BY <1>1, <1>6, InterruptLink
  <2>2. VmeOK'
    BY <1>1, <1>2, <1>6, <2>1 DEF Interrupt, HandleVmeIrq, VmeOK, Losing
  <2> QED
    BY <1>3, <1>4, <2>1, <2>2 DEF IInv
<1>7. CASE RxDmaEnds
  <2>1. VmeOK'
    BY <1>1, <1>2, <1>7 DEF RxDmaEnds, VmeOK, link, vme
  <2> QED
    BY <1>3, <1>4, <1>5, <1>7, <2>1 DEF IInv, RxDmaEnds, link
<1>8. CASE TxDmaEnds
  <2>1. LinkOK' /\ \A s \in Slaves : Kept(s)
    BY <1>1, <1>8, TxDmaEndsLink, TxDmaEndsKept
  <2>2. VmeOK'
    BY <1>1, <1>2, <1>8 DEF TxDmaEnds, VmeOK, vme
  <2> QED
    BY <1>3, <1>4, <2>1, <2>2 DEF IInv
<1>9. CASE LinkFails
  <2>1. VmeOK'
    BY <1>1, <1>2, <1>9, A2818Assumption DEF LinkFails, VmeOK, vme
  <2> QED
    BY <1>3, <1>4, <1>5, <1>9, <2>1 DEF IInv, LinkFails, dma
<1>9a. CASE CountFails
  <2>1. VmeOK'
    BY <1>1, <1>2, <1>9a, A2818Assumption DEF CountFails, VmeOK, vme
  <2> QED
    BY <1>3, <1>4, <1>5, <1>9a, <2>1 DEF IInv, CountFails, dma
<1>10. ASSUME NEW s \in Slaves, Answer(s) PROVE IInv'
  <2>1. LinkOK' /\ \A u \in Slaves : Kept(u)
    BY <1>1, <1>10, AnswerLink, AnswerKept
  <2>2. VmeOK'
    BY <1>1, <1>2, <1>10 DEF Answer, VmeOK, vme
  <2> QED
    BY <1>3, <1>4, <2>1, <2>2 DEF IInv
<1>11. ASSUME NEW s \in Slaves, VmeIrq(s) PROVE IInv'
  <2>1. VmeOK'
    BY <1>1, <1>2, <1>11, A2818Assumption DEF VmeIrq, VmeOK, link
  <2> QED
    BY <1>3, <1>4, <1>5, <1>11, <2>1 DEF IInv, VmeIrq, dma, link
<1>12. ASSUME NEW t \in Threads, EnableVmeInt(t) PROVE IInv'
  <2>1. VmeOK'
    BY <1>1, <1>2, <1>12 DEF EnableVmeInt, VmeOK, link
  <2> QED
    BY <1>3, <1>4, <1>5, <1>12, <2>1 DEF IInv, EnableVmeInt, dma, link
<1> QED
  BY <1>6, <1>7, <1>8, <1>9, <1>9a, <1>10, <1>11, <1>12 DEF Card

LEMMA InitInv ==
  ASSUME Init
  PROVE  IInv
<1>1. <<>> \in Seq(Packets) /\ <<>> \in Seq([call : Calls, sent : Nat])
  BY EmptySeq
<1> DEFINE none == <<>>
<1>2. ThreadsOK
  <2>1. answer \in [Threads -> Seq(Packets)]
    <3>1. none \in Seq(Packets) /\ answer = [t \in Threads |-> none]
      BY <1>1 DEF Init
    <3> HIDE DEF none
    <3> QED
      BY <3>1
  <2>2. \A t \in Threads : ThreadInv(t)
    BY DEF Init, ThreadInv, Clearing
  <2> QED
    BY <2>1, <2>2, A2818Assumption DEF Init, ThreadsOK, Labels, Locked, Clearing, Commands, Comm
<1>3. VmeOK
  <2>1. 0 \in 0..MaxIrqs /\ 0 \in 0..MaxCalls /\ 0 \in 0..MaxLinkFails
    BY A2818Assumption
  <2>2. irqs = 0 /\ calls = 0 /\ linkFails = 0 /\ irq = {} /\ woken = {} /\ spoiled = {}
    BY DEF Init
  <2>3. VINTDIS \in BOOLEAN /\ LINK_FAIL \in BOOLEAN /\ tooLong \in BOOLEAN
    BY DEF Init
  <2> QED
    BY <2>1, <2>2, <2>3 DEF VmeOK
<1>4. LinkOK
  <2>1. EmptyReply \in Replies
    BY <1>1 DEF EmptyReply, Replies
  <2>2. reply \in [Slaves -> Replies]
    BY <2>1 DEF Init
  <2>3. asked \in [Slaves -> Seq([call : Calls, sent : Nat])]
    <3>1. none \in Seq([call : Calls, sent : Nat]) /\ asked = [s \in Slaves |-> none]
      BY <1>1 DEF Init
    <3> HIDE DEF none
    <3> QED
      BY <3>1
  <2>4. i_buf \in Seq(Packets) /\ RXFIFO \in Seq(Packets)
    BY <1>1 DEF Init
  <2> QED
    BY <2>2, <2>3, <2>4 DEF Init, LinkOK
<1>5. ASSUME NEW s \in Slaves PROVE SlaveInv(s)
  <2>1. On(s) = {}
    BY DEF Init, On
  <2>2. Stream = <<>>
    BY <1>1, ConcatEmptySeq DEF Init, Stream
  <2>3. Of(s, Stream) = {}
    <3>1. Len(Stream) = 0
      BY <2>2, EmptySeq
    <3> QED
      BY <3>1 DEF Of
  <2>4. txDma.slave # s /\ asked[s] = <<>> /\ reply[s] = EmptyReply
    BY A2818Assumption DEF Init, NoDma
  <2> QED
    BY <2>1, <2>3, <2>4 DEF SlaveInv, Idle, Silent
<1> QED
  BY <1>2, <1>3, <1>4, <1>5 DEF IInv, SlavesOK

LEMMA StepInv ==
  ASSUME IInv, [Next]_vars
  PROVE  IInv'
<1>1. ASSUME NEW t \in Threads, Step(t) PROVE IInv'
  BY <1>1, LockInv, UnlockInv, SendInv, PollInv, WakeUpInv, CopyInv, ClearInv, IrqWaitInv,
     IrqWakeUpInv, ResetCardInv DEF Step
<1>2. ASSUME NEW t \in Threads, User(t) PROVE IInv'
  BY <1>2, OpenInv, ReleaseInv, IoctlInv, CardInv DEF User
<1>3. ASSUME NEW t \in Threads, GiveUpWaiting(t) \/ IrqTimeout(t) \/ CopyFromUserFails(t) PROVE IInv'
  BY <1>3, GiveUpWaitingInv, IrqTimeoutInv, CopyFromUserFailsInv
<1>4. CASE UNCHANGED vars
  <2>1. /\ UNCHANGED <<pc, cmd, slave, call, failed, answer, ioctl_lock, spoiled, calls>>
        /\ UNCHANGED <<reply, i_buf, DMAInProgress, dmaDone, dmaLost, txDma, asked, RXFIFO>>
        /\ UNCHANGED <<LINK_FAIL, tooLong, linkFails, irq, irqs, VINTDIS, woken>>
    BY <1>4 DEF vars, threads, dma, link, vme
  <2>2. ThreadsOK' /\ VmeOK' /\ LinkOK'
    <3>1. ThreadsOK'
      BY <2>1, ThreadsKept DEF IInv, threads
    <3>2. VmeOK'
      BY <2>1 DEF IInv, VmeOK
    <3>3. LinkOK'
      BY <2>1 DEF IInv, LinkOK
    <3> QED
      BY <3>1, <3>2, <3>3
  <2>3. \A s \in Slaves : Kept(s)
    BY <2>1, UnchangedKept
  <2>4. SlavesOK'
    BY <2>1, <2>2, <2>3, NobodyKept DEF IInv, SlavesOK
  <2> QED
    BY <2>2, <2>4 DEF IInv
<1> QED
  BY <1>1, <1>2, <1>3, <1>4, CardInv DEF Next

(* The inductive invariant holds in every state, whatever the threads, slaves, *)
(* sizes of answers, failures of the link and interrupts.                    *)
THEOREM Invariant == Spec => []IInv
<1>1. Init => IInv
  BY InitInv
<1>2. IInv /\ [Next]_vars => IInv'
  BY StepInv
<1> QED
  BY <1>1, <1>2, PTL DEF Spec

(* Every variable keeps its type.                                            *)
THEOREM TypeInvariant == Spec => []TypeOK
<1>1. IInv => TypeOK
  BY TypeFromParts DEF IInv
<1> QED
  BY <1>1, Invariant, PTL

(* What a call has copied is then the whole answer to it.                    *)
LEMMA AnswerOfProgress ==
  ASSUME IInv
  PROVE  AnswerIsOwn
<1> SUFFICES ASSUME NEW t \in Threads, cmd[t] = "COMM", ~failed[t],
                    pc[t] \in Clearing \cup {"unlock"}, slave[t] \notin spoiled
             PROVE  answer[t] = [n \in 1..AnswerSize[call[t]] |->
                                  [slave |-> slave[t], call |-> call[t], part |-> n]]
  BY DEF AnswerIsOwn
<1> DEFINE s == slave[t]
<1>1. s \in Slaves \ spoiled /\ t \in On(s)
  BY DEF IInv, ThreadsOK, ThreadInv, On, Clearing
<1>2. Progress(t, s)
  BY <1>1, OwnSlave DEF IInv, SlavesOK
<1>3. answer[t] = Whole(s, call[t])
  BY <1>2 DEF Progress, Clearing
<1> QED
  BY <1>3 DEF Whole, Parts

(* A call that succeeds on a slave used properly returns the packets of the  *)
(* answer to this call, all of them and in their order: none of an earlier   *)
(* call, none of another slave, none lost when transfers are cut anywhere.   *)
THEOREM AnswerIsOwnTheorem == Spec => []AnswerIsOwn
<1>1. IInv => AnswerIsOwn
  BY AnswerOfProgress
<1> QED
  BY <1>1, Invariant, PTL
=============================================================================
