--------------------------- MODULE LibraryProofs ----------------------------
(***************************************************************************)
(* Proofs about the parts of the library and the kernel that stand alone.  *)
(***************************************************************************)
EXTENDS RingBuf, Encoder, KernelTime, HashTable, ReadyHeap, Printf, CommonLemmas

-----------------------------------------------------------------------------
(* lib/include/ring_buffer.h: the ring buffer implements the abstract      *)
(* queue, for every capacity and every set of senders.                     *)

Rings == [head : 0..RingCap - 1, size : 0..RingCap,
          array : [0..RingCap - 1 -> Senders \cup {NoSender}]]

\* What RB_PUSH and RB_POP keep: head is an index of the array, size never
\* passes the capacity, and the slots from the oldest element to the newest
\* hold senders.  The other slots hold whatever was popped from them.
RingInv == ring \in Rings /\ Contents(ring) \in Seq(Senders)

-----------------------------------------------------------------------------
(* Indices of the ring.                                                    *)

\* The sums the macros reduce modulo the capacity are below three times it.
LEMMA Wrap ==
  ASSUME NEW i \in Nat, i < 3 * RingCap
  PROVE  i % RingCap = IF i < RingCap THEN i
                       ELSE IF i < 2 * RingCap THEN i - RingCap
                       ELSE i - 2 * RingCap
BY RingAssumption

\* The slot of the i-th oldest of r.size elements lies r.size - i slots behind
\* head, counted backwards around the end of the array.
LEMMA SlotOf ==
  ASSUME NEW r \in Rings, NEW i \in 1..r.size
  PROVE  (PeekSlot(r) + i - 1) % RingCap
           = IF r.head + i < r.size THEN r.head + i + RingCap - r.size
             ELSE r.head + i - r.size
<1> DEFINE h == r.head  n == r.size
<1>1. h \in 0..RingCap - 1 /\ n \in 0..RingCap /\ RingCap \in Nat \ {0}
  BY RingAssumption DEF Rings
<1>2. h + RingCap + 1 - n \in Nat /\ h + RingCap + 1 - n < 3 * RingCap
  BY <1>1
<1>3. PeekSlot(r) = IF h + 1 < n THEN h + RingCap + 1 - n
                    ELSE IF h + 1 < RingCap + n THEN h + 1 - n
                    ELSE h + 1 - RingCap - n
  BY <1>1, <1>2, Wrap DEF PeekSlot
<1>4. PeekSlot(r) + i - 1 \in Nat /\ PeekSlot(r) + i - 1 < 3 * RingCap
  BY <1>1, <1>3
<1>5. QED BY <1>1, <1>3, <1>4, Wrap

\* The slot RB_PUSH_PRE hands out is the one after head.
LEMMA PushSlotOf ==
  ASSUME NEW r \in Rings
  PROVE  /\ PushSlot(r) = IF r.head + 1 = RingCap THEN 0 ELSE r.head + 1
         /\ PushSlot(r) \in 0..RingCap - 1
<1>1. r.head \in 0..RingCap - 1 /\ RingCap \in Nat \ {0}
  BY RingAssumption DEF Rings
<1> DEFINE i == r.head + 1
<1>2. i \in 1..RingCap
  BY <1>1
<1> HIDE DEF i
<1>3. i % RingCap = IF i = RingCap THEN 0 ELSE i
  BY <1>1, <1>2, Wrap
<1>4. QED BY <1>1, <1>2, <1>3 DEF PushSlot, i

\* The oldest element stands in the slot RB_PEEK reads.
LEMMA PeekSlotOf ==
  ASSUME NEW r \in Rings, r.size # 0
  PROVE  Contents(r)[1] = r.array[PeekSlot(r)]
<1>1. /\ r.head \in 0..RingCap - 1 /\ r.size \in 1..RingCap
      /\ RingCap \in Nat \ {0}
  BY RingAssumption DEF Rings
<1>2. r.head + RingCap + 1 - r.size \in Nat
      /\ r.head + RingCap + 1 - r.size < 3 * RingCap
  BY <1>1
<1>3. PeekSlot(r) \in 0..RingCap - 1
  BY <1>1, <1>2, Wrap DEF PeekSlot
<1>4. PeekSlot(r) + 1 - 1 = PeekSlot(r) /\ PeekSlot(r) \in Nat
      /\ PeekSlot(r) < RingCap /\ PeekSlot(r) < 3 * RingCap
  BY <1>1, <1>3
<1>5. (PeekSlot(r) + 1 - 1) % RingCap = PeekSlot(r)
  BY <1>4, Wrap
<1>6. 1 \in 1..r.size
  BY <1>1
<1>7. QED BY <1>5, <1>6 DEF Contents

-----------------------------------------------------------------------------
(* What each operation does to the contents.                               *)

\* A push writes behind the newest element and moves no other, whether or
\* not head wraps around.
LEMMA PushAppends ==
  ASSUME RingInv, NEW td \in Senders, k_mbox_add_send_queue(td)
  PROVE  /\ ring' \in Rings
         /\ Contents(ring') = Append(Contents(ring), td)
<1>1. /\ ring.head \in 0..RingCap - 1 /\ ring.size \in 0..RingCap
      /\ ring.array \in [0..RingCap - 1 -> Senders \cup {NoSender}]
      /\ RingCap \in Nat \ {0} /\ ring.size < RingCap /\ ring \in Rings
  BY RingAssumption DEF RingInv, Rings, k_mbox_add_send_queue
<1>2. /\ ring'.head = PushSlot(ring) /\ ring'.size = ring.size + 1
      /\ ring'.array = [ring.array EXCEPT ![PushSlot(ring)] = td]
      /\ ring' = [head |-> PushSlot(ring), size |-> ring.size + 1,
                  array |-> [ring.array EXCEPT ![PushSlot(ring)] = td]]
  BY DEF k_mbox_add_send_queue
<1>3. /\ PushSlot(ring) = IF ring.head + 1 = RingCap THEN 0 ELSE ring.head + 1
      /\ PushSlot(ring) \in 0..RingCap - 1
  BY <1>1, PushSlotOf
<1>4. ring' \in Rings
  BY <1>1, <1>2, <1>3 DEF Rings
<1> DEFINE c == Contents(ring)  d == Contents(ring')
<1>5. /\ c \in Seq(Senders) /\ Len(c) = ring.size
      /\ d = [i \in 1..ring.size + 1 |-> ring'.array[(PeekSlot(ring') + i - 1) % RingCap]]
  <2>1. c \in Seq(Senders) /\ DOMAIN c = 1..ring.size /\ ring.size \in Nat
    BY <1>1 DEF RingInv, Contents
  <2>2. Len(c) = ring.size
    <3> HIDE DEF c
    <3>1. QED BY <2>1
  <2>3. QED BY <1>2, <2>1, <2>2 DEF Contents
<1>6. ASSUME NEW i \in 1..ring.size + 1
      PROVE  d[i] = IF i = ring.size + 1 THEN td ELSE c[i]
  <2> DEFINE j == (PeekSlot(ring') + i - 1) % RingCap
             k == (PeekSlot(ring) + i - 1) % RingCap
  <2>1. i \in 1..ring'.size /\ d[i] = ring'.array[j]
    BY <1>2, <1>5
  <2>2. j = IF ring'.head + i < ring'.size THEN ring'.head + i + RingCap - ring'.size
            ELSE ring'.head + i - ring'.size
    BY <1>4, <2>1, SlotOf
  <2> HIDE DEF j, d
  <2>3. CASE i = ring.size + 1
    <3>1. j = PushSlot(ring)
      BY <1>1, <1>2, <1>3, <2>2, <2>3
    <3>2. ring'.array[j] = td
      BY <1>1, <1>2, <1>3, <3>1
    <3>3. QED BY <2>1, <2>3, <3>2
  <2>4. CASE i # ring.size + 1
    <3>1. i \in 1..ring.size
      BY <1>1, <2>4
    <3>2. k = IF ring.head + i < ring.size THEN ring.head + i + RingCap - ring.size
              ELSE ring.head + i - ring.size
      BY <1>1, <3>1, SlotOf
    <3>3. c[i] = ring.array[k]
      BY <3>1 DEF Contents
    <3> HIDE DEF k, c
    <3> DEFINE h == ring.head  n == ring.size  s == PushSlot(ring)
    <3>4. /\ h \in 0..RingCap - 1 /\ n \in 0..RingCap - 1 /\ i \in 1..n
          /\ s = IF h + 1 = RingCap THEN 0 ELSE h + 1
          /\ k = IF h + i < n THEN h + i + RingCap - n ELSE h + i - n
      BY <1>1, <1>3, <3>1, <3>2
    <3>5. j = IF s + i < n + 1 THEN s + i + RingCap - (n + 1) ELSE s + i - (n + 1)
      BY <1>2, <2>2
    <3> HIDE DEF h, n, s
    <3>6. j = k /\ k # s /\ k \in 0..RingCap - 1
      BY <3>4, <3>5, RingAssumption
    <3>7. ring'.array[j] = ring.array[k]
      BY <1>1, <1>2, <1>3, <3>6 DEF s
    <3>8. QED BY <2>1, <2>4, <3>3, <3>7
  <2>5. QED BY <2>3, <2>4
<1> HIDE DEF c, d
<1>7. d \in Seq(Senders) /\ Len(d) = ring.size + 1
  <2>1. \A i \in 1..ring.size + 1 : d[i] \in Senders
    <3> TAKE i \in 1..ring.size + 1
    <3>1. CASE i = ring.size + 1
      BY <1>6, <3>1
    <3>2. CASE i # ring.size + 1
      <4>1. i \in 1..Len(c)
        BY <1>1, <1>5, <3>2
      <4>2. QED BY <1>5, <1>6, <3>2, <4>1, ElementOfSeq
    <3>3. QED BY <3>1, <3>2
  <2> DEFINE n == ring.size + 1
  <2>2. n \in Nat /\ DOMAIN d = 1..n /\ d = [i \in 1..n |-> d[i]]
    BY <1>1, <1>5
  <2> HIDE DEF n
  <2>3. d \in [1..n -> Senders]
    BY <2>1, <2>2 DEF n
  <2>4. d \in Seq(Senders) /\ Len(d) = n
    BY <2>2, <2>3
  <2>5. QED BY <2>4 DEF n
<1>8. d = Append(c, td)
  <2>1. /\ Append(c, td) \in Seq(Senders) /\ Len(Append(c, td)) = ring.size + 1
        /\ \A i \in 1..ring.size : Append(c, td)[i] = c[i]
        /\ Append(c, td)[ring.size + 1] = td
    BY <1>5, AppendProperties
  <2>2. \A i \in 1..ring.size + 1 : d[i] = Append(c, td)[i]
    BY <1>1, <1>6, <2>1
  <2>3. QED BY <1>7, <2>1, <2>2, SeqEqual
<1>9. QED BY <1>4, <1>8 DEF c, d


\* RB_POP leaves head alone: every element that stays keeps its slot, and its
\* place moves up by one.
LEMMA PopRemovesHead ==
  ASSUME RingInv, ring.size # 0, k_mbox_pop_send_queue
  PROVE  /\ ring' \in Rings
         /\ Contents(ring) # <<>>
         /\ Contents(ring') = Tail(Contents(ring))
         /\ got' = Head(Contents(ring))
<1>1. /\ ring.head \in 0..RingCap - 1 /\ ring.size \in 1..RingCap
      /\ ring.array \in [0..RingCap - 1 -> Senders \cup {NoSender}]
      /\ RingCap \in Nat \ {0} /\ ring \in Rings
  BY RingAssumption DEF RingInv, Rings
<1>2. /\ ring'.head = ring.head /\ ring'.size = ring.size - 1
      /\ ring'.array = ring.array /\ ring' \in Rings
      /\ got' = ring.array[PeekSlot(ring)]
  BY <1>1 DEF k_mbox_pop_send_queue, Rings
<1> DEFINE c == Contents(ring)  d == Contents(ring')  n == ring.size - 1
<1>3. /\ c \in Seq(Senders) /\ DOMAIN c = 1..n + 1
      /\ n \in Nat /\ DOMAIN d = 1..n
      /\ d = [i \in 1..n |-> ring'.array[(PeekSlot(ring') + i - 1) % RingCap]]
  BY <1>1, <1>2 DEF RingInv, Contents
<1>4. Len(c) = n + 1 /\ c # <<>>
  <2> HIDE DEF c, n
  <2>1. QED BY <1>3
<1>5. Head(c) = c[1] /\ c[1] = ring.array[PeekSlot(ring)]
  <2>1. c[1] = ring.array[PeekSlot(ring)]
    BY <1>1, PeekSlotOf
  <2> HIDE DEF c
  <2>2. QED BY <1>3, <2>1
<1>6. ASSUME NEW i \in 1..n PROVE d[i] = c[i + 1]
  <2> DEFINE j == (PeekSlot(ring') + i - 1) % RingCap
             k == (PeekSlot(ring) + (i + 1) - 1) % RingCap
  <2>1. i \in 1..ring'.size /\ i + 1 \in 1..ring.size
    BY <1>1, <1>2
  <2>2. j = IF ring'.head + i < ring'.size THEN ring'.head + i + RingCap - ring'.size
            ELSE ring'.head + i - ring'.size
    BY <1>2, <2>1, SlotOf
  <2>3. k = IF ring.head + (i + 1) < ring.size THEN ring.head + (i + 1) + RingCap - ring.size
            ELSE ring.head + (i + 1) - ring.size
    BY <1>1, <2>1, SlotOf
  <2>4. d[i] = ring.array[j] /\ c[i + 1] = ring.array[k]
    BY <1>2, <1>3, <2>1 DEF Contents
  <2> DEFINE h == ring.head  m == ring.size
  <2>5. j = k
    <3>1. /\ h \in Nat /\ m \in Nat /\ i \in Nat /\ RingCap \in Nat
          /\ ring'.head = h /\ ring'.size = m - 1
      BY <1>1, <1>2
    <3>2. j = IF h + i < m - 1 THEN h + i + RingCap - (m - 1) ELSE h + i - (m - 1)
      BY <2>2, <3>1
    <3>3. k = IF h + (i + 1) < m THEN h + (i + 1) + RingCap - m ELSE h + (i + 1) - m
      BY <2>3
    <3> HIDE DEF h, m, j, k
    <3>4. QED BY <3>1, <3>2, <3>3
  <2> HIDE DEF j, k, c, d
  <2>6. QED BY <2>4, <2>5
<1> HIDE DEF c, d, n
<1>7. d = Tail(c)
  <2>1. /\ Tail(c) \in Seq(Senders) /\ Len(Tail(c)) = n
        /\ \A i \in 1..n : Tail(c)[i] = c[i + 1]
    BY <1>3, <1>4, HeadTailProperties
  <2>2. d \in [1..n -> Senders]
    <3>1. \A i \in 1..n : i + 1 \in 1..Len(c)
      BY <1>3, <1>4
    <3>2. \A i \in 1..n : d[i] \in Senders
      BY <1>3, <1>6, <3>1, ElementOfSeq
    <3>3. d = [i \in 1..n |-> d[i]]
      BY <1>3
    <3>4. QED BY <3>2, <3>3
  <2>3. d \in Seq(Senders) /\ Len(d) = n
    BY <1>3, <2>2
  <2>4. QED BY <1>6, <2>1, <2>3, SeqEqual
<1>8. QED BY <1>2, <1>4, <1>5, <1>7 DEF c, d

-----------------------------------------------------------------------------
(* The refinement.                                                         *)

\* RB_INIT gives the empty queue, and both operations keep the invariant.
LEMMA RingInvariance == RingSpec => []RingInv
<1>1. RB_INIT => RingInv
  <2> SUFFICES ASSUME RB_INIT PROVE RingInv
    OBVIOUS
  <2>1. ring \in Rings
    BY RingAssumption DEF RB_INIT, Rings
  <2>2. Contents(ring) = <<>>
    BY DEF RB_INIT, Contents
  <2>3. QED BY <2>1, <2>2 DEF RingInv
<1>2. RingInv /\ [RingNext]_ringvars => RingInv'
  <2> SUFFICES ASSUME RingInv, [RingNext]_ringvars PROVE RingInv'
    OBVIOUS
  <2>1. ASSUME NEW td \in Senders, k_mbox_add_send_queue(td) PROVE RingInv'
    <3>1. ring' \in Rings /\ Contents(ring') = Append(Contents(ring), td)
      BY <2>1, PushAppends
    <3>2. Append(Contents(ring), td) \in Seq(Senders)
      BY AppendProperties DEF RingInv
    <3>3. QED BY <3>1, <3>2 DEF RingInv
  <2>2. CASE k_mbox_pop_send_queue /\ ring.size # 0
    <3>1. /\ ring' \in Rings /\ Contents(ring) # <<>>
          /\ Contents(ring') = Tail(Contents(ring))
      BY <2>2, PopRemovesHead
    <3>2. Tail(Contents(ring)) \in Seq(Senders)
      BY <3>1, HeadTailProperties DEF RingInv
    <3>3. QED BY <3>1, <3>2 DEF RingInv
  <2>3. CASE UNCHANGED ring
    BY <2>3 DEF RingInv, Contents, PeekSlot
  <2>4. QED BY <2>1, <2>2, <2>3 DEF RingNext, ringvars, k_mbox_pop_send_queue
<1>3. QED BY <1>1, <1>2, PTL DEF RingSpec

\* The buffer of any capacity is a bounded queue: RB_INIT is the empty queue,
\* RB_PUSH inserts at the end, RB_PEEK with RB_POP takes the oldest element,
\* and a pop of an empty buffer changes nothing.
THEOREM RingImplementsFifo == RingSpec => RingIsFifo
<1> DEFINE fq == [p \in {0} |-> Contents(ring)]
<1>1. RB_INIT => Fifo!Init
  <2> SUFFICES ASSUME RB_INIT PROVE Fifo!Init
    OBVIOUS
  <2>1. Contents(ring) = <<>> /\ ring.size = 0 /\ got = NoSender
    BY DEF RB_INIT, Contents
  <2>2. QED BY <2>1 DEF Fifo!Init
<1>2. RingInv /\ [RingNext]_ringvars
        => [Fifo!Next]_<<[p \in {0} |-> Contents(ring)], ring.size, got>>
  <2> SUFFICES ASSUME RingInv, [RingNext]_ringvars
               PROVE  Fifo!Next \/ UNCHANGED <<fq, ring.size, got>>
    OBVIOUS
  <2>1. ASSUME NEW td \in Senders, k_mbox_add_send_queue(td)
        PROVE  Fifo!Insert(td, 0)
    <3>1. /\ Contents(ring') = Append(Contents(ring), td)
          /\ ring.size < RingCap /\ ring'.size = ring.size + 1 /\ got' = NoSender
      BY <2>1, PushAppends DEF k_mbox_add_send_queue
    <3>2. fq' = [fq EXCEPT ![0] = Append(@, td)]
      BY <3>1 DEF Contents, PeekSlot
    <3>3. QED BY <3>1, <3>2 DEF Fifo!Insert
  <2>2. CASE k_mbox_pop_send_queue /\ ring.size # 0
    <3>1. /\ Contents(ring) # <<>>
          /\ Contents(ring') = Tail(Contents(ring))
          /\ got' = Head(Contents(ring))
      BY <2>2, PopRemovesHead
    <3>2. ring'.size = ring.size - 1
      BY <2>2 DEF k_mbox_pop_send_queue, RingInv, Rings
    <3>3. fq' = [fq EXCEPT ![0] = Tail(@)]
      BY <3>1
    <3>4. fq[0] # <<>> /\ (\A r \in {0} : r < 0 => fq[r] = <<>>) /\ got' = Head(fq[0])
      BY <3>1
    <3>5. QED BY <3>2, <3>3, <3>4 DEF Fifo!Pop, Fifo!Next
  <2>3. CASE k_mbox_pop_send_queue /\ ring.size = 0
    <3>1. got' = NoSender /\ ring' = ring
      BY <2>3 DEF k_mbox_pop_send_queue
    <3>2. fq' = fq /\ ring'.size = ring.size
      BY <3>1
    <3>3. QED BY <2>3, <3>1, <3>2 DEF Fifo!Pop, Fifo!Next
  <2>4. CASE UNCHANGED ringvars
    <3>1. ring' = ring /\ got' = got
      BY <2>4 DEF ringvars
    <3>2. QED BY <3>1
  <2>5. QED BY <2>1, <2>2, <2>3, <2>4 DEF RingNext, Fifo!Next
<1>3. QED BY <1>1, <1>2, RingInvariance, PTL DEF RingSpec, RingIsFifo, Fifo!Spec

-----------------------------------------------------------------------------
(* kernel/src/encoder.c: the quadrature encoders.                          *)

Levels == [{"a", "b"} -> 0 .. 1]
Counts == [forward : 0 .. 3, backward : 0 .. 3, invalid_2 : 0 .. 1]
Encoders == [encoders_n : 0 .. 1, pin_lookup : {{}, {"a", "b"}}, last : Levels, start : Levels,
             stat : Counts]

EncTypes ==
  /\ pins \in Levels /\ edges \subseteq {"a", "b"} /\ armed \in {{}, {"a"}, {"a", "b"}}
  /\ scan \in {NoScan, <<>>, <<"a">>, <<"b">>, <<"a", "b">>}
  /\ missed \in BOOLEAN /\ reported \in 0 .. 3 /\ enc \in Encoders

\* Pins are armed, and interrupts handled, for an encoder that is set up.
SetUp ==
  /\ enc.encoders_n = 0 => armed = {} /\ scan = NoScan /\ reported = 0
  /\ enc.encoders_n = 1 => enc.pin_lookup = {"a", "b"}

\* What the encoder does not know of the pins is an edge that is recorded, or a
\* pin the handler has still to look at.
SeenOrPending ==
  enc.encoders_n = 1 /\ ~missed =>
    /\ scan = NoScan /\ edges = {} => enc.last = pins
    /\ scan = <<>> => enc.last = pins

EncInv == EncTypes /\ SetUp /\ SeenOrPending /\ CountsFollowPins

\* Four positions, in the order of the steps.
LEMMA Positions ==
  ASSUME NEW p \in Levels
  PROVE  /\ p["a"] \in {0, 1} /\ p["b"] \in {0, 1}
         /\ Position(p) = IF p["a"] = 0 THEN IF p["b"] = 0 THEN 0 ELSE 3
                          ELSE IF p["b"] = 0 THEN 1 ELSE 2
<1>1. p["a"] \in {0, 1} /\ p["b"] \in {0, 1}
  BY DEF Levels
<1> DEFINE t == <<<<0, 0>>, <<1, 0>>, <<1, 1>>, <<0, 1>>>>
           n == IF p["a"] = 0 THEN IF p["b"] = 0 THEN 0 ELSE 3
                ELSE IF p["b"] = 0 THEN 1 ELSE 2
<1>2. /\ n \in 0 .. 3 /\ <<p["a"], p["b"]>> = t[n + 1]
      /\ \A i \in 0 .. 3 : <<p["a"], p["b"]>> = t[i + 1] => i = n
  <2>1. t[1] = <<0, 0>> /\ t[2] = <<1, 0>> /\ t[3] = <<1, 1>> /\ t[4] = <<0, 1>>
    OBVIOUS
  <2>2. \A i \in 0 .. 3 : i = 0 \/ i = 1 \/ i = 2 \/ i = 3
    OBVIOUS
  <2>3. n \in 0 .. 3
    OBVIOUS
  <2>4. <<p["a"], p["b"]>> = t[n + 1]
    BY <1>1, <2>1
  <2>5. \A i \in 0 .. 3 : <<p["a"], p["b"]>> = t[i + 1] => i = n
    BY <1>1, <2>1, <2>2
  <2>6. QED BY <2>3, <2>4, <2>5
<1> HIDE DEF n
<1>3. (CHOOSE i \in 0 .. 3 : <<p["a"], p["b"]>> = t[i + 1]) = n
  BY <1>2
<1>4. QED BY <1>1, <1>3 DEF Position, n

\* encoder_update counts a step forward, a step back, or two steps at once in
\* a direction it cannot tell.
LEMMA StepCounted ==
  ASSUME NEW l \in Levels, NEW p \in Levels
  PROVE  LET c == change_lookup(l, p)
             d == Position(p) - Position(l)
         IN  /\ c = 1 => d \in {1, -3}
             /\ c = -1 => d \in {-1, 3}
             /\ c = 0 /\ l # p => d \in {2, -2}
             /\ c = 0 /\ l = p => d = 0
             /\ c \in {-1, 0, 1}
<1>1. l # p => l["a"] # p["a"] \/ l["b"] # p["b"]
  BY DEF Levels
<1> DEFINE la == l["a"]  lb == l["b"]  pa == p["a"]  pb == p["b"]  c == change_lookup(l, p)
<1>2. /\ la \in {0, 1} /\ lb \in {0, 1} /\ pa \in {0, 1} /\ pb \in {0, 1}
      /\ Position(l) = IF la = 0 THEN IF lb = 0 THEN 0 ELSE 3 ELSE IF lb = 0 THEN 1 ELSE 2
      /\ Position(p) = IF pa = 0 THEN IF pb = 0 THEN 0 ELSE 3 ELSE IF pb = 0 THEN 1 ELSE 2
  BY Positions
<1>3. c = LET code == <<la, lb, pa, pb>>
          IN  IF code \in {<<0, 0, 1, 0>>, <<1, 0, 1, 1>>, <<1, 1, 0, 1>>, <<0, 1, 0, 0>>} THEN 1
              ELSE IF code \in {<<0, 0, 0, 1>>, <<0, 1, 1, 1>>, <<1, 1, 1, 0>>, <<1, 0, 0, 0>>} THEN -1
              ELSE 0
  BY DEF change_lookup
<1> HIDE DEF la, lb, pa, pb, c
<1>4. QED BY <1>1, <1>2, <1>3 DEF la, lb, pa, pb, c

\* The counts lead from the pins of encoder_init to those last seen.
Balanced(r, e) == (r + Steps(e.stat) - Position(e.last) + Position(e.start)) % 4 = 0

\* A look at the pins keeps the counts in step with them.
LEMMA UpdateBalances ==
  ASSUME NEW e \in Encoders, NEW p \in Levels, NEW r \in 0 .. 3, Balanced(r, e)
  PROVE  LET u == encoder_update(e, p)
         IN  /\ u \in Encoders /\ u.last = p /\ Balanced(r, u)
             /\ u.encoders_n = e.encoders_n /\ u.pin_lookup = e.pin_lookup
<1> DEFINE c == change_lookup(e.last, p)  f == e.stat.forward  b == e.stat.backward
           v == e.stat.invalid_2
           f2 == IF c = 1 THEN Inc(f) ELSE f
           b2 == IF c = -1 THEN Inc(b) ELSE b
           v2 == IF c = 0 /\ e.last # p THEN 1 - v ELSE v
           u == encoder_update(e, p)
           x == Position(e.last)  y == Position(p)  z == Position(e.start)
<1>1. /\ e.last \in Levels /\ e.start \in Levels /\ e.stat \in Counts
      /\ f \in 0 .. 3 /\ b \in 0 .. 3 /\ v \in 0 .. 1
  BY DEF Encoders, Counts
<1>2. x \in 0 .. 3 /\ y \in 0 .. 3 /\ z \in 0 .. 3
  BY <1>1, Positions
<1>3. /\ c = 1 => y - x \in {1, -3}
      /\ c = -1 => y - x \in {-1, 3}
      /\ c = 0 /\ e.last # p => y - x \in {2, -2}
      /\ c = 0 /\ e.last = p => y - x = 0
      /\ c \in {-1, 0, 1}
  BY <1>1, StepCounted
<1>4. (r + (f - b + 2 * v) - x + z) % 4 = 0
  BY DEF Balanced, Steps
<1>5. u = [e EXCEPT !.last = p,
                    !.stat = [e.stat EXCEPT !.forward = f2, !.backward = b2, !.invalid_2 = v2]]
  BY <1>1 DEF encoder_update, Encoders, Counts
<1> HIDE DEF c, f, b, v, x, y, z
<1>6. /\ f2 = IF c = 1 THEN IF f = 3 THEN 0 ELSE f + 1 ELSE f
      /\ b2 = IF c = -1 THEN IF b = 3 THEN 0 ELSE b + 1 ELSE b
      /\ f2 \in 0 .. 3 /\ b2 \in 0 .. 3 /\ v2 \in 0 .. 1
  BY <1>1 DEF Inc
<1>7. (r + (f2 - b2 + 2 * v2) - y + z) % 4 = 0
  <2> DEFINE df == f2 - f  db == b2 - b  dv == v2 - v  dy == y - x
  <2>1. PICK k \in {-2, -1, 0, 1, 2} : df - db + 2 * dv - dy = 4 * k
    <3>1. CASE c = 1
      <4>1. df \in {1, -3} /\ db = 0 /\ dv = 0 /\ dy \in {1, -3}
        BY <1>1, <1>3, <1>6, <3>1
      <4> HIDE DEF df, db, dv, dy
      <4>2. QED BY <4>1
    <3>2. CASE c = -1
      <4>1. df = 0 /\ db \in {1, -3} /\ dv = 0 /\ dy \in {-1, 3}
        BY <1>1, <1>3, <1>6, <3>2
      <4> HIDE DEF df, db, dv, dy
      <4>2. QED BY <4>1
    <3>3. CASE c = 0
      <4>1. df = 0 /\ db = 0 /\ ((dv \in {-1, 1} /\ dy \in {2, -2}) \/ (dv = 0 /\ dy = 0))
        <5>1. f2 = f /\ b2 = b
          BY <1>6, <3>3
        <5>2. CASE e.last = p
          <6>1. v2 = v /\ y - x = 0
            BY <1>3, <3>3, <5>2
          <6>2. QED BY <1>1, <5>1, <6>1
        <5>3. CASE e.last # p
          <6>1. v2 = 1 - v /\ y - x \in {2, -2}
            BY <1>3, <3>3, <5>3
          <6>2. QED BY <1>1, <5>1, <6>1
        <5>4. QED BY <5>2, <5>3
      <4> HIDE DEF df, db, dv, dy
      <4>2. QED BY <4>1
    <3>4. QED BY <1>3, <3>1, <3>2, <3>3
  <2>2. r + (f2 - b2 + 2 * v2) - y + z = r + (f - b + 2 * v) - x + z + 4 * k
    BY <1>1, <1>2, <1>6, <2>1
  <2> DEFINE m == r + (f - b + 2 * v) - x + z
  <2>3. m \in Int /\ m % 4 = 0
    BY <1>1, <1>2, <1>4
  <2> HIDE DEF m
  <2>4. (m + 4 * k) % 4 = 0
    BY <2>3
  <2>5. QED BY <2>2, <2>4 DEF m
<1> HIDE DEF f2, b2, v2, u
<1>8. /\ [e.stat EXCEPT !.forward = f2, !.backward = b2, !.invalid_2 = v2] \in Counts
      /\ [e.stat EXCEPT !.forward = f2, !.backward = b2, !.invalid_2 = v2].forward = f2
      /\ [e.stat EXCEPT !.forward = f2, !.backward = b2, !.invalid_2 = v2].backward = b2
      /\ [e.stat EXCEPT !.forward = f2, !.backward = b2, !.invalid_2 = v2].invalid_2 = v2
  BY <1>1, <1>6 DEF Counts
<1>9. /\ u \in Encoders /\ u.last = p /\ u.start = e.start /\ u.encoders_n = e.encoders_n
      /\ u.pin_lookup = e.pin_lookup
      /\ u.stat.forward = f2 /\ u.stat.backward = b2 /\ u.stat.invalid_2 = v2
  BY <1>5, <1>8 DEF Encoders
<1>10. Balanced(r, u)
  BY <1>7, <1>9 DEF Balanced, Steps, y, z
<1>11. QED BY <1>9, <1>10 DEF u

\* Reading the counts moves them to the reader: none is lost or read twice.
LEMMA GetBalances ==
  ASSUME NEW e \in Encoders, NEW r \in 0 .. 3, Balanced(r, e)
  PROVE  LET q == (r + Steps(e.stat)) % 4
             u == [e EXCEPT !.stat = NoCounts]
         IN  q \in 0 .. 3 /\ u \in Encoders /\ Balanced(q, u)
<1> DEFINE q == (r + Steps(e.stat)) % 4  u == [e EXCEPT !.stat = NoCounts]
           n == Steps(e.stat)  x == Position(e.last)  z == Position(e.start)
<1>1. e.last \in Levels /\ e.start \in Levels /\ e.stat \in Counts
  BY DEF Encoders
<1>2. x \in 0 .. 3 /\ z \in 0 .. 3
  BY <1>1, Positions
<1>3. n \in Int
  BY <1>1 DEF Steps, Counts
<1>4. (r + n - x + z) % 4 = 0
  BY DEF Balanced
<1>5. /\ u \in Encoders /\ u.last = e.last /\ u.start = e.start /\ Steps(u.stat) = 0
  BY <1>1 DEF Encoders, Counts, NoCounts, Steps
<1>6. q = (r + n) % 4
  OBVIOUS
<1> HIDE DEF q, u, n, x, z
<1>7. q \in 0 .. 3 /\ (q + 0 - x + z) % 4 = 0
  BY <1>2, <1>3, <1>4, <1>6
<1>8. Balanced(q, u)
  BY <1>5, <1>7 DEF Balanced, x, z
<1>9. QED BY <1>5, <1>7, <1>8 DEF q, u

\* The lists of pins gpio_get_triggered goes through.
LEMMA PinLists ==
  /\ <<"a">> \o <<>> = <<"a">> /\ <<>> \o <<"b">> = <<"b">> /\ <<"a">> \o <<"b">> = <<"a", "b">>
  /\ \A s \in {<<"a">>, <<"b">>, <<"a", "b">>} : Head(s) \in {"a", "b"} /\ Tail(s) \in {<<>>, <<"b">>}
<1>1. <<"a">> \o <<>> = <<"a">>
  OBVIOUS
<1>2. <<>> \o <<"b">> = <<"b">>
  OBVIOUS
<1>3. <<"a">> \o <<"b">> = <<"a", "b">>
  <2> DEFINE c == <<"a">> \o <<"b">>  d == <<"a", "b">>
  <2>1. c \in Seq({"a", "b"}) /\ Len(c) = 2 /\ c[1] = "a" /\ c[2] = "b"
    OBVIOUS
  <2>2. d \in Seq({"a", "b"}) /\ Len(d) = 2 /\ d[1] = "a" /\ d[2] = "b"
    OBVIOUS
  <2> HIDE DEF c, d
  <2>3. \A i \in 1..2 : c[i] = d[i]
    BY <2>1, <2>2
  <2>4. c = d
    BY <2>1, <2>2, <2>3, SeqEqual
  <2>5. QED BY <2>4 DEF c, d
<1>4. Head(<<"a">>) = "a" /\ Head(<<"b">>) = "b" /\ Head(<<"a", "b">>) = "a"
  OBVIOUS
<1>5. Tail(<<"a">>) = <<>> /\ Tail(<<"b">>) = <<>>
  OBVIOUS
<1>6. Tail(<<"a", "b">>) = <<"b">>
  <2> DEFINE c == Tail(<<"a", "b">>)  d == <<"b">>
  <2>1. c \in Seq({"a", "b"}) /\ Len(c) = 1 /\ c[1] = "b"
    OBVIOUS
  <2>2. d \in Seq({"a", "b"}) /\ Len(d) = 1 /\ d[1] = "b"
    OBVIOUS
  <2> HIDE DEF c, d
  <2>3. \A i \in 1..1 : c[i] = d[i]
    BY <2>1, <2>2
  <2>4. c = d
    BY <2>1, <2>2, <2>3, SeqEqual
  <2>5. QED BY <2>4 DEF c, d
<1>7. QED BY <1>1, <1>2, <1>3, <1>4, <1>5, <1>6

\* The encoder's counts follow the wheel, whenever edges come: before the pins
\* are armed, during the interrupt handler and between two calls
\* (process_intr_gpio_bank, k_quadrature_encoder_get).
THEOREM EncoderFollowsTheorem == EncoderInit /\ [][EncoderNext]_encvars => []EncoderFollows
<1>1. EncoderInit => EncInv
  <2> SUFFICES ASSUME EncoderInit
               PROVE  EncInv
    OBVIOUS
  <2>1. /\ pins \in Levels /\ edges = {} /\ armed = {} /\ scan = NoScan /\ missed = FALSE /\ reported = 0
        /\ enc = [encoders_n |-> 0, pin_lookup |-> {}, last |-> pins, start |-> pins, stat |-> NoCounts]
    BY DEF EncoderInit, Levels
  <2>2. enc \in Encoders /\ enc.encoders_n = 0
    BY <2>1 DEF Encoders, Counts, NoCounts
  <2>3. EncTypes
    <3>1. edges \subseteq {"a", "b"} /\ armed \in {{}, {"a"}, {"a", "b"}}
      BY <2>1
    <3>2. scan \in {NoScan, <<>>, <<"a">>, <<"b">>, <<"a", "b">>} /\ missed \in BOOLEAN
      BY <2>1
    <3>3. reported \in 0 .. 3
      BY <2>1
    <3>4. QED BY <2>1, <2>2, <3>1, <3>2, <3>3 DEF EncTypes
  <2>4. SetUp /\ SeenOrPending /\ CountsFollowPins
    BY <2>1, <2>2 DEF SetUp, SeenOrPending, CountsFollowPins
  <2>5. QED BY <2>3, <2>4 DEF EncInv
<1>2. EncInv /\ [EncoderNext]_encvars => EncInv'
  <2> SUFFICES ASSUME EncInv, [EncoderNext]_encvars
               PROVE  EncInv'
    OBVIOUS
  <2>1. /\ EncTypes /\ SetUp /\ SeenOrPending /\ enc \in Encoders /\ pins \in Levels /\ reported \in 0 .. 3
        /\ enc.encoders_n \in {0, 1} /\ (enc.encoders_n = 1 => Balanced(reported, enc))
    BY DEF EncInv, EncTypes, CountsFollowPins, Balanced, Encoders
  <2>2. NoScan # <<>> /\ NoScan # <<"a">> /\ NoScan # <<"b">> /\ NoScan # <<"a", "b">>
    <3>1. NoScan = <<"idle">>
      BY DEF NoScan
    <3>2. NoScan[1] = "idle" /\ Len(NoScan) = 1
      BY <3>1
    <3>3. Len(<<>>) = 0 /\ Len(<<"a", "b">>) = 2 /\ <<"a">>[1] = "a" /\ <<"b">>[1] = "b"
      OBVIOUS
    <3>4. QED BY <3>2, <3>3
  <2>3. CASE encoder_init
    <3>1. enc.encoders_n = 0 /\ scan = NoScan /\ UNCHANGED <<pins, edges, armed, scan, reported>>
      BY <2>3 DEF encoder_init
    <3>2. QED
      <4>1. /\ enc' = [enc EXCEPT !.encoders_n = 1, !.pin_lookup = {"a", "b"},
                                  !.last = pins, !.start = pins, !.stat = NoCounts]
            /\ missed' = FALSE
        BY <2>3 DEF encoder_init
      <4>2. /\ enc' \in Encoders /\ enc'.encoders_n = 1 /\ enc'.pin_lookup = {"a", "b"}
            /\ enc'.last = pins /\ enc'.start = pins /\ enc'.stat = NoCounts
        <5>1. NoCounts \in Counts /\ {"a", "b"} \in {{}, {"a", "b"}}
          BY DEF NoCounts, Counts
        <5> DEFINE ab == {"a", "b"}  lookups == {{}, {"a", "b"}}
        <5>2. enc \in [encoders_n : 0 .. 1, pin_lookup : lookups, last : Levels, start : Levels, stat : Counts]
          BY <2>1 DEF Encoders
        <5>3. enc' = [enc EXCEPT !.encoders_n = 1, !.pin_lookup = ab, !.last = pins, !.start = pins,
                                 !.stat = NoCounts]
          BY <4>1
        <5> HIDE DEF ab, lookups
        <5>4. ab \in lookups
          BY <5>1 DEF ab, lookups
        <5>5. /\ enc' \in [encoders_n : 0 .. 1, pin_lookup : lookups, last : Levels, start : Levels,
                            stat : Counts]
              /\ enc'.encoders_n = 1 /\ enc'.pin_lookup = ab
              /\ enc'.last = pins /\ enc'.start = pins /\ enc'.stat = NoCounts
          <6>1. pins \in Levels /\ NoCounts \in Counts
            BY <2>1, <5>1
          <6>2. enc' = [encoders_n |-> 1, pin_lookup |-> ab, last |-> pins, start |-> pins, stat |-> NoCounts]
            BY <5>2, <5>3
          <6>3. QED BY <5>4, <6>1, <6>2
        <5>6. QED BY <5>5 DEF Encoders, ab, lookups
      <4>3. Steps(enc'.stat) = 0 /\ reported = 0 /\ Position(pins) \in 0 .. 3
        BY <2>1, <3>1, <4>2, Positions DEF Steps, NoCounts, SetUp
      <4>4. (reported + Steps(enc'.stat) - Position(enc'.last) + Position(enc'.start)) % 4 = 0
        BY <4>2, <4>3
      <4>5. QED BY <2>1, <2>2, <3>1, <4>1, <4>2, <4>4
                DEF EncInv, EncTypes, SetUp, SeenOrPending, CountsFollowPins
  <2>4. ASSUME NEW p \in {"a", "b"}, gpio_set_edge_trigger(p)
        PROVE  EncInv'
    <3>1. /\ enc.encoders_n = 1 /\ armed' = armed \cup {p} /\ (p = "b" => "a" \in armed)
          /\ UNCHANGED <<pins, edges, enc, scan, reported, missed>>
      BY <2>1, <2>4 DEF gpio_set_edge_trigger
    <3>2. armed' \in {{}, {"a"}, {"a", "b"}}
      BY <2>1, <3>1 DEF EncTypes
    <3>3. QED BY <3>1, <3>2 DEF EncInv, EncTypes, SetUp, SeenOrPending, CountsFollowPins
  <2>5. ASSUME NEW p \in {"a", "b"}, Edge(p)
        PROVE  EncInv'
    <3>1. /\ pins' = [pins EXCEPT ![p] = 1 - @]
          /\ edges' = IF p \in armed THEN edges \cup {p} ELSE edges
          /\ missed' = (missed \/ (enc.encoders_n > 0 /\ (p \notin armed \/ scan = <<>>)))
          /\ UNCHANGED <<armed, enc, scan, reported>>
      BY <2>5 DEF Edge
    <3>2. pins' \in Levels /\ edges' \subseteq {"a", "b"} /\ missed' \in BOOLEAN
      BY <2>1, <3>1 DEF EncTypes, Levels
    <3>3. SeenOrPending'
      <4>1. enc.encoders_n = 1 /\ ~missed' => p \in armed /\ scan # <<>>
        <5> DEFINE late == enc.encoders_n > 0 /\ (p \notin armed \/ scan = <<>>)
        <5>1. ~missed' => ~late
          BY <3>1, Zenon
        <5>2. QED BY <5>1
      <4>2. p \in armed => edges' # {}
        BY <3>1
      <4>3. QED BY <3>1, <4>1, <4>2 DEF SeenOrPending
    <3>4. QED BY <2>1, <3>1, <3>2, <3>3 DEF EncInv, EncTypes, SetUp, CountsFollowPins
  <2>6. CASE k_quadrature_encoder_get
    <3>1. /\ enc.encoders_n = 1 /\ reported' = (reported + Steps(enc.stat)) % 4
          /\ enc' = [enc EXCEPT !.stat = NoCounts]
          /\ UNCHANGED <<pins, edges, armed, scan, missed>>
      BY <2>1, <2>6 DEF k_quadrature_encoder_get
    <3>2. reported' \in 0 .. 3 /\ enc' \in Encoders /\ Balanced(reported', enc')
      BY <2>1, <3>1, GetBalances
    <3>3. enc'.last = enc.last /\ enc'.encoders_n = enc.encoders_n /\ enc'.pin_lookup = enc.pin_lookup
      BY <2>1, <3>1 DEF Encoders
    <3>4. QED BY <2>1, <3>1, <3>2, <3>3
              DEF EncInv, EncTypes, SetUp, SeenOrPending, CountsFollowPins, Balanced
  <2>7. CASE GetTriggered
    <3>1. /\ edges # {} /\ armed = {"a", "b"}
          /\ scan' = (IF "a" \in edges THEN <<"a">> ELSE <<>>) \o (IF "b" \in edges THEN <<"b">> ELSE <<>>)
          /\ UNCHANGED <<pins, edges, armed, enc, reported, missed>>
      BY <2>7 DEF GetTriggered
    <3>2. scan' \in {<<"a">>, <<"b">>, <<"a", "b">>}
      <4>1. "a" \in edges \/ "b" \in edges
        BY <2>1, <3>1 DEF EncTypes
      <4>2. QED BY <3>1, <4>1, PinLists
    <3>3. scan' # NoScan /\ scan' # <<>>
      BY <2>2, <3>2
    <3>4. QED BY <2>1, <3>1, <3>2, <3>3 DEF EncInv, EncTypes, SetUp, SeenOrPending, CountsFollowPins
  <2>8. CASE ProcessPin
    <3>1. /\ scan # NoScan /\ scan # <<>> /\ scan' = Tail(scan) /\ missed' = FALSE
          /\ enc' = IF Head(scan) \in enc.pin_lookup THEN encoder_update(enc, pins) ELSE enc
          /\ UNCHANGED <<pins, edges, armed, reported>>
      BY <2>8 DEF ProcessPin
    <3>2. enc.encoders_n = 1 /\ enc.pin_lookup = {"a", "b"} /\ Balanced(reported, enc)
      BY <2>1, <3>1 DEF SetUp
    <3>3. scan \in {<<"a">>, <<"b">>, <<"a", "b">>}
      BY <2>1, <3>1 DEF EncTypes
    <3>4. Head(scan) \in {"a", "b"} /\ scan' \in {<<>>, <<"b">>}
      BY <3>1, <3>3, PinLists
    <3>5. enc' = encoder_update(enc, pins)
      BY <3>1, <3>2, <3>4
    <3>6. /\ enc' \in Encoders /\ enc'.last = pins /\ Balanced(reported, enc')
          /\ enc'.encoders_n = 1 /\ enc'.pin_lookup = {"a", "b"}
      BY <2>1, <3>2, <3>5, UpdateBalances
    <3>7. QED BY <2>1, <2>2, <3>1, <3>4, <3>6
              DEF EncInv, EncTypes, SetUp, SeenOrPending, CountsFollowPins, Balanced
  <2>9. CASE ClearTriggered
    <3>1. scan = <<>> /\ scan' = NoScan /\ edges' = {} /\ UNCHANGED <<pins, armed, enc, reported, missed>>
      BY <2>9 DEF ClearTriggered
    <3>2. QED BY <2>1, <2>2, <3>1 DEF EncInv, EncTypes, SetUp, SeenOrPending, CountsFollowPins
  <2>10. CASE UNCHANGED encvars
    BY <2>10 DEF encvars, EncInv, EncTypes, SetUp, SeenOrPending, CountsFollowPins
  <2>11. QED BY <2>3, <2>4, <2>5, <2>6, <2>7, <2>8, <2>9, <2>10 DEF EncoderNext
<1>3. EncInv => EncoderFollows
  <2>1. EncInv => (enc.encoders_n > 0 => enc.encoders_n = 1)
    BY DEF EncInv, EncTypes, Encoders
  <2>2. QED BY <2>1 DEF EncInv, EncTypes, SeenOrPending, EncoderFollows, QuietIsCurrent
<1>4. QED BY <1>1, <1>2, <1>3, PTL

-----------------------------------------------------------------------------
(* The system timer (lib/include/timer.h) and idle time (kernel/src/loop.c). *)

\* The two halves of the clock.
LEMMA DivMod ==
  ASSUME NEW n \in Nat
  PROVE  /\ n % Half \in 0 .. Half - 1 /\ n \div Half \in Nat
         /\ n = (n \div Half) * Half + (n % Half)
<1>1. Half \in Nat \ {0} /\ n \in Int /\ n >= 0
  BY TimeAssumption
<1>2. QED BY <1>1, Quotient

\* Times that differ by whole turns of the low half.
Turns(a, b) == \E k \in Int : a = b + k * Half

\* They add up, and the word is made of whole turns.
LEMMA TurnsAdd ==
  ASSUME NEW a \in Int, NEW b \in Int, NEW c \in Int, NEW d \in Int, Turns(a, b), Turns(c, d)
  PROVE  Turns(a + c, b + d) /\ Turns(a - c, b - d)
<1>1. PICK k \in Int : a = b + k * Half
  BY DEF Turns
<1>2. PICK l \in Int : c = d + l * Half
  BY DEF Turns
<1>3. Half \in Nat /\ k + l \in Int /\ k - l \in Int
  BY TimeAssumption
<1>4. a + c = (b + d) + (k + l) * Half /\ a - c = (b - d) + (k - l) * Half
  BY <1>1, <1>2, <1>3
<1>5. QED BY <1>3, <1>4 DEF Turns

LEMMA TurnsWord ==
  ASSUME NEW a \in Int, NEW b \in Int, Turns(a, b)
  PROVE  a % ClockSpan \in Int /\ Turns(a % ClockSpan, b)
<1>1. PICK k \in Int : a = b + k * Half
  BY DEF Turns
<1>2. Half \in Nat \ {0}
  BY TimeAssumption
<1>3. Half * Half \in Nat \ {0}
  BY <1>2
<1>4. PICK q \in Int, r \in Int : a = q * (Half * Half) + r /\ r = a % ClockSpan
  <2>1. PICK w \in Nat \ {0} : w = Half * Half
    BY <1>3
  <2>2. a \div w \in Int /\ a % w \in Int /\ a = (a \div w) * w + (a % w)
    BY Quotient
  <2>3. QED BY <2>1, <2>2 DEF ClockSpan
<1>5. k - q * Half \in Int /\ r = b + (k - q * Half) * Half
  BY <1>1, <1>2, <1>4
<1>6. Turns(r, b)
  BY <1>5 DEF Turns
<1>7. QED BY <1>4, <1>6

\* Such times have the same low half.
LEMMA TurnsVanish ==
  ASSUME NEW a \in Int, NEW b \in Int, Turns(a, b)
  PROVE  (a - b) % Half = 0
<1>1. PICK k \in Int : a = b + k * Half
  BY DEF Turns
<1>2. Half \in Nat \ {0}
  BY TimeAssumption
<1>3. PICK q \in Int, r \in 0 .. Half - 1 : a - b = q * Half + r /\ r = (a - b) % Half
  <2>1. PICK n \in Int : n = a - b
    OBVIOUS
  <2>2. n \div Half \in Int /\ n % Half \in 0 .. Half - 1 /\ n = (n \div Half) * Half + (n % Half)
    BY <1>2, Quotient
  <2>3. QED BY <2>1, <2>2
<1>4. PICK d \in Int : d = k - q
  BY <1>3
<1>5. r = d * Half
  BY <1>1, <1>2, <1>3, <1>4
<1>6. CASE d >= 1
  BY <1>2, <1>3, <1>5, <1>6
<1>7. CASE d <= -1
  BY <1>2, <1>3, <1>5, <1>7
<1>8. CASE d = 0
  BY <1>2, <1>3, <1>5, <1>8
<1>9. QED BY <1>6, <1>7, <1>8

\* Nothing of the bounded clock leaves a word.
LEMMA WordHolds ==
  ASSUME NEW n \in Nat, n < ClockSpan
  PROVE  n % ClockSpan = n
<1>1. Half \in Nat \ {0}
  BY TimeAssumption
<1>2. Half * Half \in Nat \ {0}
  BY <1>1
<1>3. n \in 0 .. Half * Half - 1
  BY <1>2 DEF ClockSpan
<1>4. PICK w \in Nat \ {0} : w = Half * Half
  BY <1>2
<1>5. n \in 0 .. w - 1 /\ ClockSpan = w
  BY <1>3, <1>4 DEF ClockSpan
<1>6. (0 * w + n) % w = n
  BY <1>4, <1>5, QuotientIs
<1>7. 0 * w + n = n
  BY <1>4
<1>8. QED BY <1>5, <1>6, <1>7

\* A time within the bound, and its share of all of the time.
LEMMA TimesHold ==
  ASSUME NEW n \in Nat, n <= MaxTime
  PROVE  n % ClockSpan = n /\ n * Scale \in Nat /\ (n * Scale) % ClockSpan = n * Scale
<1>1. MaxTime \in Nat \ {0} /\ Scale \in Nat \ {0} /\ MaxTime * Scale < ClockSpan
  BY TimeAssumption DEF ClockSpan
<1>2. ClockSpan \in Nat
  BY TimeAssumption DEF ClockSpan
<1>3. n * Scale \in Nat /\ n * Scale <= MaxTime * Scale /\ n <= n * Scale
  <2>1. PICK d \in Nat : MaxTime = n + d
    <3>1. MaxTime - n \in Nat /\ MaxTime = n + (MaxTime - n)
      BY <1>1
    <3>2. QED BY <3>1
  <2>2. PICK c \in Nat : Scale = 1 + c
    <3>1. Scale - 1 \in Nat /\ Scale = 1 + (Scale - 1)
      BY <1>1
    <3>2. QED BY <3>1
  <2>3. MaxTime * Scale = n * Scale + d * Scale /\ d * Scale \in Nat /\ n * Scale \in Nat
    BY <1>1, <2>1
  <2>4. n * Scale = n + n * c /\ n * c \in Nat
    BY <2>2
  <2>5. QED BY <2>3, <2>4
<1>4. MaxTime * Scale \in Nat
  BY <1>1
<1>5. n * Scale < ClockSpan /\ n < ClockSpan
  BY <1>1, <1>2, <1>3, <1>4
<1>6. QED BY <1>3, <1>5, WordHolds

\* A share of at most all is at most Scale.
LEMMA ShareBounded ==
  ASSUME NEW a \in Nat, NEW b \in Nat, a <= b, a <= MaxTime
  PROVE  Share(a, b) \in 0 .. Scale
<1>0. Scale \in Nat
  BY TimeAssumption
<1>1. CASE b = 0
  BY <1>0, <1>1 DEF Share
<1>2. CASE b # 0
  <2> DEFINE n == a * Scale  q == n \div b
  <2>1. Share(a, b) = q /\ n \in Nat
    BY <1>2, TimesHold DEF Share
  <2>2. n <= b * Scale
    <3>1. PICK d \in Nat : b = a + d
      <4>1. b - a \in Nat /\ b = a + (b - a)
        OBVIOUS
      <4>2. QED BY <4>1
    <3>2. b * Scale = a * Scale + d * Scale /\ d * Scale \in Nat /\ a * Scale \in Nat
      BY <1>0, <3>1
    <3>3. QED BY <3>2
  <2> HIDE DEF n
  <2>3. q \in Nat /\ n % b \in Nat /\ n = q * b + (n % b)
    <3>1. b \in Nat \ {0} /\ n \in Int /\ n >= 0
      BY <1>2, <2>1
    <3>2. \A m \in Int : /\ m % b \in 0 .. b - 1 /\ m = (m \div b) * b + (m % b)
                         /\ m >= 0 => m \div b \in Nat
      BY <3>1, Quotient
    <3>3. QED BY <3>1, <3>2
  <2> HIDE DEF q
  <2>4. ASSUME q > Scale
        PROVE  FALSE
    <3>1. PICK d \in Nat : q = Scale + 1 + d
      <4>1. q - (Scale + 1) \in Nat /\ q = Scale + 1 + (q - (Scale + 1))
        BY <1>0, <2>3, <2>4
      <4>2. QED BY <4>1
    <3>2. q * b = Scale * b + b + d * b /\ d * b \in Nat /\ Scale * b \in Nat /\ b * Scale = Scale * b
      BY <1>0, <3>1
    <3>3. QED BY <1>2, <2>1, <2>2, <2>3, <3>2
  <2>5. QED BY <1>0, <2>1, <2>3, <2>4
<1>3. QED BY <1>1, <1>2

\* Every reading of the clock began with the low half it is made of.
Reading ==
  IF kt.doing \in {"busy", "idle"} THEN kt.lo = -1
  ELSE kt.from \in Nat /\ kt.from <= now /\ kt.lo = kt.from % Half

\* When no reading was torn, idle time and the time before it do not overlap,
\* and every tick of the idle task is in the idle time or still to be added.
IdleUntil(end) ==
  /\ kt.idle_ts = kt.begun /\ kt.start + kt.idle_duration <= kt.idle_ts /\ kt.idle_ts <= end
  /\ kt.idled <= kt.idle_duration + end - kt.idle_ts

BusyUntil(end) == kt.start + kt.idle_duration <= end /\ kt.idled <= kt.idle_duration

IdleSound ==
  /\ kt.idle_duration = kt.spent /\ kt.idle_duration >= 0 /\ kt.start >= 0
  /\ kt.doing = "idle" => IdleUntil(now)
  /\ kt.doing = "add_idle_duration" => IdleUntil(kt.from)
  /\ kt.doing = "busy" => BusyUntil(now)
  /\ kt.doing \in {"note_idle_ts", "report"} => BusyUntil(kt.from)

TimeFields == {"doing", "lo", "idle_ts", "idle_duration", "start", "percent", "from",
               "begun", "spent", "idled", "torn", "skewed"}

\* A record with these fields.
TimeShape(k) == DOMAIN k = TimeFields

TimeTypes ==
  /\ now \in Nat /\ now <= MaxTime /\ TimeShape(kt)
  /\ kt.doing \in {"busy", "note_idle_ts", "idle", "add_idle_duration", "report"}
  /\ kt.idle_ts \in Int /\ kt.idle_duration \in Int /\ kt.start \in Int /\ kt.idled \in Nat
  /\ kt.begun \in Int /\ kt.spent \in Int

TimeInv ==
  /\ TimeTypes /\ Reading
  /\ Turns(kt.idle_ts, kt.begun) /\ Turns(kt.idle_duration, kt.spent)
  /\ ~kt.torn => IdleSound
  /\ ~kt.skewed => kt.percent \in 0 .. Scale

\* A reading is off by whole turns, and one that is not torn gives the time at
\* which it began.
LEMMA ReadingIs ==
  ASSUME TimeInv, kt.doing \notin {"busy", "idle"}
  PROVE  /\ ReadValue \in Int /\ kt.from \in Int /\ Turns(ReadValue, kt.from)
         /\ ~TornNow => ReadValue = kt.from
<1>1. now \in Nat /\ kt.from \in Nat /\ kt.lo = kt.from % Half /\ Half \in Nat \ {0}
  BY TimeAssumption DEF TimeInv, TimeTypes, Reading
<1> DEFINE q == kt.from \div Half  r == kt.from % Half  k == now \div Half
<1>2. r \in Nat /\ k \in Nat /\ q \in Nat /\ kt.from = q * Half + r
  <2>1. \A n \in Nat : n % Half \in Nat /\ n \div Half \in Nat /\ n = (n \div Half) * Half + (n % Half)
    BY <1>1, DivMod
  <2>2. QED BY <1>1, <2>1, Zenon
<1>3. ReadValue = r + k * Half
  BY <1>1 DEF ReadValue
<1>4. ~TornNow => q = k
  BY DEF TornNow
<1> HIDE DEF q, r, k
<1>5. k - q \in Int /\ ReadValue = kt.from + (k - q) * Half
  BY <1>1, <1>2, <1>3
<1>6. ~TornNow => ReadValue = kt.from
  <2>1. q = k => r + k * Half = q * Half + r
    BY <1>1, <1>2
  <2>2. QED BY <1>2, <1>3, <1>4, <2>1
<1>7. ReadValue \in Int
  BY <1>1, <1>2, <1>3
<1>8. QED BY <1>1, <1>5, <1>6, <1>7 DEF Turns

\* What the invariant says of the times, apart from the clock's halves.
LEMMA TimeFacts ==
  ASSUME TimeInv
  PROVE  /\ now \in Nat /\ now <= MaxTime /\ kt.idle_ts \in Int /\ kt.idle_duration \in Int
         /\ kt.start \in Int /\ kt.idled \in Nat /\ kt.begun \in Int /\ kt.spent \in Int
         /\ TimeShape(kt)
         /\ ~kt.torn => IdleSound
         /\ kt.doing \notin {"busy", "idle"} => kt.from \in Nat /\ kt.from <= now
BY DEF TimeInv, TimeTypes, Reading

\* A step that begins a reading.
LEMMA BeginsReading ==
  ASSUME TimeInv, NEW next \in {"note_idle_ts", "add_idle_duration", "report"}, ReadLo(next),
         kt.doing = IF next = "add_idle_duration" THEN "idle" ELSE "busy"
  PROVE  TimeInv'
<1>0. now' = now
  BY DEF ReadLo
<1>1. kt' = [kt EXCEPT !.doing = next, !.lo = now % Half, !.from = now]
  BY DEF ReadLo
<1>2. /\ kt'.doing = next /\ kt'.lo = now % Half /\ kt'.from = now /\ TimeShape(kt')
  BY <1>1 DEF TimeInv, TimeTypes, TimeFields, TimeShape
<1>3. /\ kt'.torn = kt.torn /\ kt'.idle_ts = kt.idle_ts /\ kt'.idle_duration = kt.idle_duration
      /\ kt'.start = kt.start /\ kt'.idled = kt.idled /\ kt'.percent = kt.percent
      /\ kt'.begun = kt.begun /\ kt'.spent = kt.spent /\ kt'.skewed = kt.skewed
  BY <1>1 DEF TimeInv, TimeTypes, TimeFields, TimeShape
<1>4. TimeTypes' /\ Reading'
  BY <1>0, <1>2, <1>3 DEF TimeInv, TimeTypes, Reading
<1>5. ASSUME ~kt.torn
      PROVE  IdleSound'
  BY <1>0, <1>2, <1>3, <1>5, TimeFacts DEF IdleSound, IdleUntil, BusyUntil
<1>6. QED BY <1>3, <1>4, <1>5 DEF TimeInv, Turns

\* The invariant holds for every size of the clock's halves.
LEMMA TimeInvariance == TimeInit /\ [][TimeNext]_timevars => []TimeInv
<1>0. Scale \in Nat /\ Half \in Nat \ {0} /\ MaxTime \in Nat
  BY TimeAssumption
<1>1. TimeInit => TimeInv
  <2> SUFFICES ASSUME TimeInit
               PROVE  TimeInv
    OBVIOUS
  <2>1. now \in Nat /\ now <= MaxTime
    BY <1>0 DEF TimeInit
  <2>2. kt = [doing |-> "busy", lo |-> -1, idle_ts |-> now, idle_duration |-> 0, start |-> now,
              percent |-> 0, from |-> -1, begun |-> now, spent |-> 0, idled |-> 0,
              torn |-> FALSE, skewed |-> FALSE]
    BY DEF TimeInit
  <2>3. /\ kt.doing = "busy" /\ kt.lo = -1 /\ kt.torn = FALSE /\ kt.idle_ts = now /\ kt.idle_duration = 0
        /\ kt.start = now /\ kt.percent = 0 /\ kt.idled = 0 /\ TimeShape(kt)
        /\ kt.begun = now /\ kt.spent = 0
    BY <2>2 DEF TimeFields, TimeShape
  <2>4. TimeTypes /\ Reading
    BY <2>1, <2>3 DEF TimeTypes, Reading
  <2>5. IdleSound
    BY <2>1, <2>3 DEF IdleSound, IdleUntil, BusyUntil
  <2>6. \A n \in Int : Turns(n, n)
    <3>1. \A n \in Int : n = n + 0 * Half
      BY <1>0
    <3>2. QED BY <3>1 DEF Turns
  <2>7. Turns(kt.idle_ts, kt.begun) /\ Turns(kt.idle_duration, kt.spent)
    BY <2>1, <2>3, <2>6
  <2>8. kt.percent \in 0 .. Scale
    BY <1>0, <2>3
  <2>9. QED BY <2>4, <2>5, <2>7, <2>8 DEF TimeInv
<1>2. TimeInv /\ [TimeNext]_timevars => TimeInv'
  <2> SUFFICES ASSUME TimeInv, [TimeNext]_timevars
               PROVE  TimeInv'
    OBVIOUS
  <2>1. /\ TimeTypes /\ now \in Nat /\ now <= MaxTime /\ TimeShape(kt)
        /\ kt.idle_ts \in Int /\ kt.idle_duration \in Int /\ kt.start \in Int /\ kt.idled \in Nat
        /\ kt.begun \in Int /\ kt.spent \in Int
        /\ Turns(kt.idle_ts, kt.begun) /\ Turns(kt.idle_duration, kt.spent)
        /\ ~kt.torn => IdleSound
        /\ ~kt.skewed => kt.percent \in 0 .. Scale
    BY DEF TimeInv, TimeTypes
  <2>2. CASE Tick
    <3>1. /\ now' = now + 1 /\ now < MaxTime /\ TimeShape(kt')
          /\ kt'.idled = IF kt.doing = "idle" THEN kt.idled + 1 ELSE kt.idled
      BY <2>1, <2>2 DEF Tick, TimeFields, TimeShape
    <3>2. /\ kt'.doing = kt.doing /\ kt'.lo = kt.lo /\ kt'.torn = kt.torn /\ kt'.from = kt.from
          /\ kt'.idle_ts = kt.idle_ts /\ kt'.idle_duration = kt.idle_duration
          /\ kt'.start = kt.start /\ kt'.percent = kt.percent
          /\ kt'.begun = kt.begun /\ kt'.spent = kt.spent /\ kt'.skewed = kt.skewed
      BY <2>1, <2>2 DEF Tick, TimeFields, TimeShape
    <3>3. TimeTypes'
      BY <1>0, <2>1, <3>1, <3>2 DEF TimeTypes
    <3>4. Reading'
      BY <2>1, <3>1, <3>2 DEF TimeInv, Reading
    <3>5. ~kt.torn => IdleSound'
      BY <3>1, <3>2, TimeFacts DEF IdleSound, IdleUntil, BusyUntil
    <3>6. QED BY <2>1, <3>2, <3>3, <3>4, <3>5 DEF TimeInv, Turns
  <2>3. CASE BeginIdle \/ EndIdle \/ SysHealth
    BY <2>3, BeginsReading DEF BeginIdle, EndIdle, SysHealth
  <2>4. CASE EndBeginIdle
    <3>0. kt.doing = "note_idle_ts" /\ now' = now
      BY <2>4 DEF EndBeginIdle
    <3>1. kt' = [kt EXCEPT !.doing = "idle", !.lo = -1, !.from = -1, !.torn = @ \/ TornNow,
                           !.idle_ts = ReadValue, !.begun = kt.from]
      BY <2>4 DEF EndBeginIdle
    <3>2. /\ kt'.doing = "idle" /\ kt'.lo = -1 /\ kt'.idle_ts = ReadValue /\ kt'.begun = kt.from
          /\ kt'.torn = (kt.torn \/ TornNow) /\ TimeShape(kt')
          /\ kt'.idle_duration = kt.idle_duration /\ kt'.start = kt.start /\ kt'.percent = kt.percent
          /\ kt'.idled = kt.idled /\ kt'.spent = kt.spent /\ kt'.skewed = kt.skewed
      BY <2>1, <3>1 DEF TimeFields, TimeShape
    <3>3. /\ ReadValue \in Int /\ kt.from \in Int /\ Turns(ReadValue, kt.from)
          /\ ~TornNow => ReadValue = kt.from
      BY <3>0, ReadingIs
    <3>4. ASSUME ~kt'.torn
          PROVE  IdleSound'
      <4>1. ~kt.torn /\ ReadValue = kt.from
        BY <3>2, <3>3, <3>4
      <4>2. QED BY <3>0, <3>2, <3>3, <4>1, TimeFacts DEF IdleSound, IdleUntil, BusyUntil
    <3>5. TimeTypes' /\ Reading'
      BY <1>0, <2>1, <3>0, <3>2, <3>3 DEF TimeTypes, Reading
    <3>6. QED BY <2>1, <3>2, <3>3, <3>4, <3>5 DEF TimeInv, Turns
  <2>5. CASE EndEndIdle
    <3>0. kt.doing = "add_idle_duration" /\ now' = now
      BY <2>5 DEF EndEndIdle
    <3> DEFINE sum == kt.idle_duration + ReadValue - kt.idle_ts
    <3>1. kt' = [kt EXCEPT !.doing = "busy", !.lo = -1, !.from = -1, !.torn = @ \/ TornNow,
                           !.idle_duration = sum % ClockSpan, !.spent = @ + kt.from - kt.begun]
      BY <2>1, <2>5 DEF EndEndIdle, TimeFields, TimeShape
    <3>2. /\ kt'.doing = "busy" /\ kt'.lo = -1 /\ kt'.idle_ts = kt.idle_ts /\ kt'.begun = kt.begun
          /\ kt'.torn = (kt.torn \/ TornNow) /\ TimeShape(kt')
          /\ kt'.idle_duration = sum % ClockSpan /\ kt'.spent = kt.spent + kt.from - kt.begun
          /\ kt'.start = kt.start /\ kt'.percent = kt.percent /\ kt'.idled = kt.idled
          /\ kt'.skewed = kt.skewed
      BY <2>1, <3>1 DEF TimeFields, TimeShape
    <3>3. /\ ReadValue \in Int /\ kt.from \in Int /\ Turns(ReadValue, kt.from)
          /\ ~TornNow => ReadValue = kt.from
      BY <3>0, ReadingIs
    <3>4. sum \in Int /\ Turns(sum, kt.spent + kt.from - kt.begun)
      <4>1. Turns(kt.idle_duration + ReadValue, kt.spent + kt.from)
        BY <2>1, <3>3, TurnsAdd
      <4>2. kt.idle_duration + ReadValue \in Int /\ kt.spent + kt.from \in Int
        BY <2>1, <3>3
      <4>3. Turns((kt.idle_duration + ReadValue) - kt.idle_ts, (kt.spent + kt.from) - kt.begun)
        BY <2>1, <4>1, <4>2, TurnsAdd
      <4>4. QED BY <2>1, <3>3, <4>3
    <3>5. sum % ClockSpan \in Int /\ Turns(sum % ClockSpan, kt.spent + kt.from - kt.begun)
      <4> HIDE DEF sum
      <4>1. kt.spent + kt.from - kt.begun \in Int
        BY <2>1, <3>3
      <4>2. QED BY <3>4, <4>1, TurnsWord
    <3>6. ASSUME ~kt'.torn
          PROVE  IdleSound'
      <4>1. ~kt.torn /\ ReadValue = kt.from
        BY <3>2, <3>3, <3>6
      <4>2. /\ IdleUntil(kt.from) /\ kt.idle_duration = kt.spent /\ kt.idle_duration >= 0 /\ kt.start >= 0
            /\ kt.from \in Nat /\ kt.from <= now
        BY <3>0, <4>1, TimeFacts DEF IdleSound
      <4>3. sum = kt.idle_duration + kt.from - kt.idle_ts /\ kt.idle_ts = kt.begun
        BY <4>1, <4>2 DEF IdleUntil
      <4>4. sum \in Nat /\ kt.start + sum <= kt.from /\ kt.idled <= sum /\ sum <= MaxTime
            /\ sum = kt.spent + kt.from - kt.begun
        <5> HIDE DEF sum
        <5>1. QED BY <1>0, <2>1, <4>2, <4>3 DEF IdleUntil
      <4> HIDE DEF sum
      <4>5. sum % ClockSpan = sum
        BY <4>4, TimesHold
      <4>6. QED BY <2>1, <3>0, <3>2, <4>2, <4>4, <4>5 DEF IdleSound, BusyUntil
    <3> HIDE DEF sum
    <3>7. TimeTypes' /\ Reading'
      BY <1>0, <2>1, <3>0, <3>2, <3>3, <3>5 DEF TimeTypes, Reading
    <3>8. QED BY <2>1, <3>2, <3>5, <3>6, <3>7 DEF TimeInv, Turns
  <2>6. CASE EndSysHealth
    <3>0. kt.doing = "report" /\ now' = now
      BY <2>6 DEF EndSysHealth
    <3> DEFINE share == Share(kt.idle_duration, (ReadValue - kt.start) % ClockSpan)
    <3>1. kt' = [kt EXCEPT !.doing = "busy", !.lo = -1, !.from = -1,
                           !.torn = TornNow, !.skewed = kt.torn \/ TornNow, !.percent = share,
                           !.idle_duration = 0, !.start = ReadValue, !.spent = 0, !.idled = 0]
      BY <2>6 DEF EndSysHealth
    <3> HIDE DEF share
    <3>2. /\ kt'.doing = "busy" /\ kt'.lo = -1 /\ kt'.idle_ts = kt.idle_ts /\ kt'.begun = kt.begun
          /\ kt'.torn = TornNow /\ kt'.skewed = (kt.torn \/ TornNow) /\ TimeShape(kt')
          /\ kt'.idle_duration = 0 /\ kt'.spent = 0
          /\ kt'.start = ReadValue /\ kt'.percent = share /\ kt'.idled = 0
      BY <2>1, <3>1 DEF TimeFields, TimeShape
    <3>3. /\ ReadValue \in Int /\ kt.from \in Int /\ Turns(ReadValue, kt.from)
          /\ ~TornNow => ReadValue = kt.from
      BY <3>0, ReadingIs
    <3>4. kt.from \in Nat /\ kt.from <= now
      BY <3>0, TimeFacts
    <3>5. ASSUME ~kt'.torn
          PROVE  IdleSound'
      <4>1. ReadValue = kt.from
        BY <3>2, <3>3, <3>5
      <4>2. QED BY <2>1, <3>0, <3>2, <3>4, <4>1 DEF IdleSound, BusyUntil
    <3>6. ASSUME ~kt'.skewed
          PROVE  kt'.percent \in 0 .. Scale
      <4>1. ~kt.torn /\ ReadValue = kt.from
        BY <3>2, <3>3, <3>6
      <4>2. kt.start + kt.idle_duration <= kt.from /\ kt.idle_duration >= 0 /\ kt.start >= 0
        BY <3>0, <4>1, TimeFacts DEF IdleSound, BusyUntil
      <4>3. PICK e \in Nat : e = kt.from - kt.start /\ kt.idle_duration <= e /\ e <= MaxTime
        <5>1. /\ kt.from - kt.start \in Nat /\ kt.idle_duration <= kt.from - kt.start
              /\ kt.from - kt.start <= MaxTime
          BY <1>0, <2>1, <3>4, <4>2
        <5>2. QED BY <5>1
      <4>4. kt.idle_duration \in Nat /\ kt.idle_duration <= MaxTime
        BY <1>0, <2>1, <4>2, <4>3
      <4>5. e % ClockSpan = e
        BY <4>3, TimesHold
      <4>6. share = Share(kt.idle_duration, e)
        BY <4>1, <4>3, <4>5 DEF share
      <4>7. Share(kt.idle_duration, e) \in 0 .. Scale
        BY <4>3, <4>4, ShareBounded
      <4>8. QED BY <3>2, <4>6, <4>7
    <3>7. TimeTypes' /\ Reading'
      BY <1>0, <2>1, <3>0, <3>2, <3>3 DEF TimeTypes, Reading
    <3>8. Turns(kt'.idle_duration, kt'.spent)
      <4>1. 0 = 0 + 0 * Half
        BY <1>0
      <4>2. QED BY <3>2, <4>1 DEF Turns
    <3>9. Turns(kt'.idle_ts, kt'.begun)
      BY <2>1, <3>2
    <3>10. QED BY <3>5, <3>6, <3>7, <3>8, <3>9 DEF TimeInv, Turns
  <2>7. CASE UNCHANGED timevars
    <3>1. now' = now /\ kt' = kt
      BY <2>7 DEF timevars
    <3>2. TimeTypes' /\ Reading'
      BY <3>1 DEF TimeInv, TimeTypes, Reading
    <3>3. ~kt.torn => IdleSound'
      BY <3>1, TimeFacts DEF IdleSound, IdleUntil, BusyUntil
    <3>4. QED BY <2>1, <3>1, <3>2, <3>3 DEF TimeInv, Turns
  <2>8. QED BY <2>2, <2>3, <2>4, <2>5, <2>6, <2>7 DEF TimeNext
<1>3. QED BY <1>1, <1>2, PTL

\* While no reading since that of the last report was torn, the idle time of
\* k_loop is what passed between its readings, lies within the time that
\* k_sys_health divides it by and covers every tick of the idle task, and a report
\* that rests on no torn reading gives at most all of the time; and however the
\* clock steps between the reads of its halves, the idle time is off by whole
\* turns of the low half.
THEOREM TimerExactTheorem == TimeInit /\ [][TimeNext]_timevars => []TimerExact
<1>1. TimeInv => TimerExact
  <2> SUFFICES ASSUME TimeInv PROVE TimerExact
    OBVIOUS
  <2>1. LowHalfExact
    BY TurnsVanish DEF TimeInv, TimeTypes, LowHalfExact
  <2>2. IdleWithinElapsed
    BY TimeFacts DEF TimeInv, IdleSound, BusyUntil, IdleWithinElapsed
  <2>3. QED BY <2>1, <2>2 DEF TimerExact
<1>2. QED BY <1>1, TimeInvariance, PTL

-----------------------------------------------------------------------------
(* lib/include/hashtable.h and nameserver.c: the directory of the tasks.   *)

\* The table holds as many elements as there are names to register: U_NAME_HT_CAPACITY
\* is enough for the names the programs use (the code never checks).
NamesFit == IsFiniteSet(NsNames) /\ Cardinality(NsNames) <= HtCap

Slots  == 0..HtCap
Hashes == 0..Bucksz - 1
Tables == [buckets : [Hashes -> Seq(Slots)], free : Seq(Slots), key : [Slots -> Nat],
           val : [Slots -> NsTids \cup {0}]]

\* Each chained element has a name of its own and is in the chain of its hash.
ChainsSound(h) ==
  \A b \in Hashes : \A i \in 1..Len(h.buckets[b]) :
    /\ h.key[h.buckets[b][i]] \in NsNames /\ HT_IDX(h.key[h.buckets[b][i]]) = b
    /\ \A j \in 1..Len(h.buckets[b]) : h.key[h.buckets[b][j]] = h.key[h.buckets[b][i]] => j = i

\* Every element is in a chain or free, and the one past the array is the last
\* that would be taken.
FreeSound(h) ==
  /\ IsInjective(h.free) /\ h.free # <<>> /\ h.free[Len(h.free)] = HtCap
  /\ Chained(h) \cap ToSet(h.free) = {}
  /\ Len(h.free) + Cardinality(Chained(h)) = HtCap + 1

HtSound(h) == h \in Tables /\ ChainsSound(h) /\ FreeSound(h)

\* The chained elements, one by one.
LEMMA ChainedElements ==
  ASSUME NEW h \in Tables
  PROVE  /\ \A e : e \in Chained(h) <=> \E b \in Hashes : \E i \in 1..Len(h.buckets[b]) : e = h.buckets[b][i]
         /\ Chained(h) \subseteq Slots /\ IsFiniteSet(Chained(h)) /\ Cardinality(Chained(h)) \in Nat
<1>1. h.buckets \in [Hashes -> Seq(Slots)] /\ DOMAIN h.buckets = Hashes
  BY DEF Tables
<1>2. \A b \in Hashes : DOMAIN h.buckets[b] = 1..Len(h.buckets[b])
  BY <1>1
<1>3. \A e : e \in Chained(h) <=> \E b \in Hashes : \E i \in 1..Len(h.buckets[b]) : e = h.buckets[b][i]
  BY <1>1, <1>2 DEF Chained, ToSet
<1>4. Chained(h) \subseteq Slots
  BY <1>1, <1>3
<1>5. IsFiniteSet(Slots)
  BY HtAssumption, FS_Interval DEF Slots
<1>6. IsFiniteSet(Chained(h))
  BY <1>4, <1>5, FS_Subset
<1>7. Cardinality(Chained(h)) \in Nat
  BY <1>6, FS_CardinalityType
<1>8. QED BY <1>3, <1>4, <1>6, <1>7

\* The remainder is the number of a bucket.
LEMMA HashInRange ==
  ASSUME NEW n \in NsNames
  PROVE  n \in Nat /\ HT_IDX(n) \in Hashes
BY HtAssumption DEF HT_IDX, Hashes

\* Two elements in chains have different names.
LEMMA NamesApart ==
  ASSUME NEW h, HtSound(h), NEW e \in Chained(h), NEW f \in Chained(h), h.key[e] = h.key[f]
  PROVE  e = f
<1>1. h \in Tables
  BY DEF HtSound
<1>2. PICK b \in Hashes : \E i \in 1..Len(h.buckets[b]) : e = h.buckets[b][i]
  BY <1>1, ChainedElements
<1>3. PICK i \in 1..Len(h.buckets[b]) : e = h.buckets[b][i]
  BY <1>2
<1>4. PICK c \in Hashes : \E j \in 1..Len(h.buckets[c]) : f = h.buckets[c][j]
  BY <1>1, ChainedElements
<1>5. PICK j \in 1..Len(h.buckets[c]) : f = h.buckets[c][j]
  BY <1>4
<1>6. HT_IDX(h.key[e]) = b /\ HT_IDX(h.key[f]) = c
  BY <1>3, <1>5 DEF HtSound, ChainsSound
<1>7. b = c
  BY <1>6
<1>8. j = i
  BY <1>3, <1>5, <1>7 DEF HtSound, ChainsSound
<1>9. QED BY <1>3, <1>5, <1>7, <1>8

\* A search finds the element of the name, wherever it is in its chain.
LEMMA FindsElement ==
  ASSUME NEW h, HtSound(h), NEW n \in NsNames
  PROVE  LET k == HT_AT(h, n)
             b == h.buckets[HT_IDX(n)]
         IN  /\ HT_FIND(h, n) = -1 => \A e \in Chained(h) : h.key[e] # n
             /\ HT_FIND(h, n) # -1 => /\ k \in 1..Len(b) /\ b[k] = HT_FIND(h, n)
                                      /\ HT_FIND(h, n) \in Chained(h) /\ h.key[HT_FIND(h, n)] = n
<1> DEFINE k == HT_AT(h, n)  b == h.buckets[HT_IDX(n)]
           at == {i \in DOMAIN b : h.key[b[i]] = n}
<1>1. h \in Tables /\ n \in Nat /\ HT_IDX(n) \in Hashes
  BY HashInRange DEF HtSound
<1>2. b \in Seq(Slots) /\ DOMAIN b = 1..Len(b) /\ Len(b) \in Nat
  BY <1>1 DEF Tables
<1>3. \A i, j \in at : i = j
  BY <1>1, <1>2 DEF HtSound, ChainsSound
<1>4. k = IF at = {} THEN 0 ELSE CHOOSE i \in at : \A j \in at : i <= j
  BY DEF HT_AT
<1>5. CASE at = {}
  <2>1. HT_FIND(h, n) = -1
    BY <1>4, <1>5 DEF HT_FIND
  <2>2. ASSUME NEW e \in Chained(h), h.key[e] = n
        PROVE  FALSE
    <3>1. PICK c \in Hashes : \E i \in 1..Len(h.buckets[c]) : e = h.buckets[c][i]
      BY <1>1, ChainedElements
    <3>2. PICK i \in 1..Len(h.buckets[c]) : e = h.buckets[c][i]
      BY <3>1
    <3>3. c = HT_IDX(n)
      BY <2>2, <3>2 DEF HtSound, ChainsSound
    <3>4. i \in at
      BY <1>2, <2>2, <3>2, <3>3
    <3>5. QED BY <1>5, <3>4
  <2>3. QED BY <2>1, <2>2
<1>6. CASE at # {}
  <2>1. PICK i \in at : TRUE
    BY <1>6
  <2>2. i \in Nat /\ \A j \in at : i <= j
    BY <1>2, <1>3, <2>1
  <2>3. k = i
    <3> HIDE DEF at
    <3>1. \E x \in at : \A j \in at : x <= j
      BY <2>1, <2>2
    <3>2. (CHOOSE x \in at : \A j \in at : x <= j) \in at
      BY <3>1
    <3>3. QED BY <1>3, <1>4, <1>6, <2>1, <3>2
  <2>4. k \in 1..Len(b) /\ h.key[b[k]] = n
    BY <1>2, <2>1, <2>3
  <2>5. HT_FIND(h, n) = b[k] /\ b[k] \in Chained(h)
    BY <1>1, <1>2, <2>4, ChainedElements DEF HT_FIND
  <2>6. b[k] \in Slots /\ b[k] # -1
    <3>1. b[k] \in Slots
      BY <1>2, <2>4
    <3>2. \A s \in Slots : s # -1
      BY HtAssumption DEF Slots
    <3>3. QED BY <3>1, <3>2
  <2>7. QED BY <2>4, <2>5, <2>6
<1>7. QED BY <1>5, <1>6

\* What ns_whois_tid gives, in terms of the chained elements.
LEMMA FindIs ==
  ASSUME NEW h, HtSound(h), NEW n \in NsNames
  PROVE  /\ \A e \in Chained(h) : h.key[e] = n => HT_FIND(h, n) = e
         /\ (\A e \in Chained(h) : h.key[e] # n) => HT_FIND(h, n) = -1
BY FindsElement, NamesApart

\* An element is free while a name is not registered, and it is not the last.
LEMMA ElementLeft ==
  ASSUME NamesFit, NEW h, HtSound(h), NEW n \in NsNames, HT_FIND(h, n) = -1
  PROVE  Len(h.free) >= 2
<1> DEFINE C == Chained(h)  N == NsNames \ {n}
           f == [e \in C |-> h.key[e]]
<1>1. h \in Tables /\ IsFiniteSet(C) /\ Cardinality(C) \in Nat
  BY ChainedElements DEF HtSound
<1>2. \A e \in C : h.key[e] \in NsNames /\ h.key[e] # n
  <2>1. \A e \in C : h.key[e] \in NsNames
    BY <1>1, ChainedElements DEF HtSound, ChainsSound
  <2>2. QED BY <2>1, FindsElement
<1>3. IsFiniteSet(N) /\ Cardinality(N) = Cardinality(NsNames) - 1
  BY FS_RemoveElement DEF NamesFit
<1>4. f \in Injection(C, N)
  <2>1. f \in [C -> N]
    BY <1>2
  <2>2. \A x, y \in C : f[x] = f[y] => x = y
    BY NamesApart
  <2>3. QED BY <2>1, <2>2 DEF Injection, IsInjective
<1>5. Cardinality(C) <= Cardinality(N)
  BY <1>3, <1>4, FS_Injection
<1>6. Cardinality(NsNames) \in Nat
  BY FS_CardinalityType DEF NamesFit
<1>7. Len(h.free) + Cardinality(C) = HtCap + 1 /\ Len(h.free) \in Nat
  BY <1>1 DEF HtSound, FreeSound, Tables
<1>8. QED BY <1>1, <1>3, <1>5, <1>6, <1>7, HtAssumption DEF NamesFit

\* LL_PREPEND2 and LL_DELETE2 on a chain or the free list.
LEMMA Prepended ==
  ASSUME NEW s \in Seq(Slots), NEW e \in Slots
  PROVE  LET p == <<e>> \o s
         IN  /\ p \in Seq(Slots) /\ Len(p) = Len(s) + 1
             /\ \A i \in 1..Len(p) : p[i] = IF i = 1 THEN e ELSE s[i - 1]
OBVIOUS

\* Two sequences of elements, one after the other.
LEMMA Joined ==
  ASSUME NEW u \in Seq(Slots), NEW v \in Seq(Slots)
  PROVE  /\ u \o v \in Seq(Slots) /\ Len(u \o v) = Len(u) + Len(v)
         /\ \A i \in 1..Len(u) + Len(v) : (u \o v)[i] = IF i <= Len(u) THEN u[i] ELSE v[i - Len(u)]
BY ConcatProperties

\* A chain without its k-th element.
LEMMA RemovedAt ==
  ASSUME NEW s \in Seq(Slots), NEW k \in 1..Len(s)
  PROVE  LET r == RemoveAt(s, k)
         IN  /\ r \in Seq(Slots) /\ Len(r) = Len(s) - 1
             /\ \A i \in 1..Len(r) : r[i] = IF i < k THEN s[i] ELSE s[i + 1]
<1> DEFINE u == SubSeq(s, 1, k - 1)  v == SubSeq(s, k + 1, Len(s))  r == u \o v
<1>1. Len(s) \in Nat /\ k \in Nat /\ k >= 1 /\ k <= Len(s)
  OBVIOUS
<1>2. u \in Seq(Slots) /\ Len(u) = k - 1 /\ \A i \in 1..k - 1 : u[i] = s[i]
  OBVIOUS
<1>3. v \in Seq(Slots) /\ Len(v) = Len(s) - k /\ \A i \in 1..Len(s) - k : v[i] = s[k + i]
  OBVIOUS
<1> HIDE DEF u, v
<1>4. r \in Seq(Slots) /\ Len(r) = Len(s) - 1
  <2>1. u \in Seq(Slots) /\ v \in Seq(Slots) /\ Len(u) = k - 1 /\ Len(v) = Len(s) - k
    BY <1>2, <1>3
  <2>2. u \o v \in Seq(Slots) /\ Len(u \o v) = Len(u) + Len(v)
    BY <2>1, Joined
  <2>3. QED BY <1>1, <2>1, <2>2
<1>5. \A i \in 1..Len(r) : r[i] = IF i < k THEN u[i] ELSE v[i - (k - 1)]
  BY <1>1, <1>2, <1>3, Joined
<1> HIDE DEF r
<1>6. ASSUME NEW i \in 1..Len(r)
      PROVE  r[i] = IF i < k THEN s[i] ELSE s[i + 1]
  <2>1. CASE i < k
    BY <1>1, <1>2, <1>5, <2>1
  <2>2. CASE ~(i < k)
    <3>1. i - (k - 1) \in 1..Len(s) - k /\ k + (i - (k - 1)) = i + 1
      BY <1>1, <1>4, <2>2
    <3>2. QED BY <1>3, <1>5, <2>2, <3>1
  <2>3. QED BY <2>1, <2>2
<1>7. QED BY <1>4, <1>6 DEF RemoveAt, r, u, v

\* The table with the first free element taken, one chain set, one tid set, and
\* the element of a name freed.
Taken(h, e, n, t) == [h EXCEPT !.free = Tail(@), !.key[e] = n, !.val[e] = t]
WithChain(h, x, p) == [h EXCEPT !.buckets[x] = p]
WithTid(h, e, t) == [h EXCEPT !.val[e] = t]
Freed(h, x, r, e) ==
  [h EXCEPT !.buckets[x] = r, !.free = <<e>> \o @, !.key[e] = 0, !.val[e] = 0]

\* The fields of the table after the last of these, and then after each.
FreedFields(h, x, r, e, g) ==
  /\ g \in Tables /\ g.buckets = [h.buckets EXCEPT ![x] = r] /\ g.free = <<e>> \o h.free
  /\ g.key = [h.key EXCEPT ![e] = 0] /\ g.val = [h.val EXCEPT ![e] = 0]

\* A chain replaced.
LEMMA ChainSet ==
  ASSUME NEW h \in Tables, NEW x \in Hashes, NEW p \in Seq(Slots), NEW g, g = WithChain(h, x, p)
  PROVE  /\ g \in Tables /\ g.buckets = [h.buckets EXCEPT ![x] = p]
         /\ g.free = h.free /\ g.key = h.key /\ g.val = h.val
<1>1. [h EXCEPT !.buckets[x] = p] \in Tables
  BY DEF Tables
<1>2. QED BY <1>1 DEF Tables, WithChain

\* A tid written into an element.
LEMMA TidSet ==
  ASSUME NEW h \in Tables, NEW e \in Slots, NEW t \in NsTids, NEW g, g = WithTid(h, e, t)
  PROVE  /\ g \in Tables /\ g.buckets = h.buckets /\ g.free = h.free /\ g.key = h.key
         /\ g.val = [h.val EXCEPT ![e] = t]
<1>1. [h EXCEPT !.val[e] = t] \in Tables
  BY DEF Tables
<1>2. QED BY <1>1 DEF Tables, WithTid

\* The first free element taken for a name and a tid.
LEMMA ElementSet ==
  ASSUME NEW h \in Tables, Tail(h.free) \in Seq(Slots),
         NEW e \in Slots, NEW n \in Nat, NEW t \in NsTids, NEW g, g = Taken(h, e, n, t)
  PROVE  /\ g \in Tables /\ g.buckets = h.buckets /\ g.free = Tail(h.free)
         /\ g.key = [h.key EXCEPT ![e] = n] /\ g.val = [h.val EXCEPT ![e] = t]
<1>1. [h EXCEPT !.free = Tail(@), !.key[e] = n, !.val[e] = t] \in Tables
  BY DEF Tables
<1>2. QED BY <1>1 DEF Tables, Taken

\* An element taken out of its chain.
LEMMA ElementFreed ==
  ASSUME NEW h \in Tables, NEW x \in Hashes, NEW r \in Seq(Slots), NEW e \in Slots,
         <<e>> \o h.free \in Seq(Slots), NEW g, g = Freed(h, x, r, e)
  PROVE  FreedFields(h, x, r, e, g)
<1>1. [h EXCEPT !.buckets[x] = r, !.free = <<e>> \o @, !.key[e] = 0, !.val[e] = 0] \in Tables
  BY DEF Tables
<1>2. QED BY <1>1 DEF Tables, Freed, FreedFields

\* The fields of a table.
LEMMA FieldsAt ==
  ASSUME NEW h \in Tables
  PROVE  /\ h.buckets \in [Hashes -> Seq(Slots)] /\ h.free \in Seq(Slots)
         /\ h.key \in [Slots -> Nat] /\ h.val \in [Slots -> NsTids \cup {0}]
BY DEF Tables

\* The fields of g after a new name n was given the element e of h.
Inserted(h, g, n, e) ==
  /\ g \in Tables /\ g.buckets = [h.buckets EXCEPT ![HT_IDX(n)] = <<e>> \o @]
  /\ g.free = Tail(h.free) /\ g.key = [h.key EXCEPT ![e] = n]

\* Registering a new name takes the first free element.
LEMMA InsertSound ==
  ASSUME NEW h, HtSound(h), NEW n \in NsNames, Len(h.free) >= 2,
         HT_FIND(h, n) = -1, NEW e, e = Head(h.free),
         NEW g, Inserted(h, g, n, e)
  PROVE  HtSound(g) /\ e \in Slots /\ e \notin Chained(h) /\ Chained(g) = Chained(h) \cup {e}
<1> DEFINE x == HT_IDX(n)  b == h.buckets[x]  p == <<e>> \o b  F == h.free
<1>1. /\ h \in Tables /\ n \in Nat /\ x \in Hashes /\ F \in Seq(Slots) /\ b \in Seq(Slots)
      /\ h.buckets \in [Hashes -> Seq(Slots)] /\ h.key \in [Slots -> Nat]
  BY HashInRange, FieldsAt DEF HtSound
<1>2. Len(F) \in Nat /\ Len(F) >= 2
  BY <1>1
<1>3. /\ e \in Slots /\ e = F[1] /\ Tail(F) \in Seq(Slots) /\ Len(Tail(F)) = Len(F) - 1
      /\ \A i \in 1..Len(F) - 1 : Tail(F)[i] = F[i + 1]
  BY <1>1, <1>2
<1>4. p \in Seq(Slots) /\ Len(p) = Len(b) + 1 /\ \A i \in 1..Len(p) : p[i] = IF i = 1 THEN e ELSE b[i - 1]
  BY <1>1, <1>3, Prepended
<1>5. g.buckets = [h.buckets EXCEPT ![x] = p] /\ g.key = [h.key EXCEPT ![e] = n]
  BY DEF Inserted
<1>6. g \in Tables /\ g.free = Tail(F)
  BY DEF Inserted
<1>7. e \notin Chained(h)
  <2>1. e \in ToSet(F)
    BY <1>1, <1>2, <1>3 DEF ToSet
  <2>2. QED BY <2>1 DEF HtSound, FreeSound
<1>8. /\ g.buckets[x] = p /\ \A c \in Hashes : c # x => g.buckets[c] = h.buckets[c]
      /\ g.key[e] = n /\ \A f \in Chained(h) : g.key[f] = h.key[f]
  <2>1. h.buckets \in [Hashes -> Seq(Slots)] /\ h.key \in [Slots -> Nat] /\ Chained(h) \subseteq Slots
    BY <1>1, ChainedElements DEF Tables
  <2> HIDE DEF x, p
  <2>2. g.buckets[x] = p /\ \A c \in Hashes : c # x => g.buckets[c] = h.buckets[c]
    BY <1>1, <1>5, <2>1
  <2>3. g.key[e] = n /\ \A f \in Chained(h) : g.key[f] = h.key[f]
    BY <1>3, <1>5, <1>7, <2>1
  <2>4. QED BY <2>2, <2>3
<1> HIDE DEF x, b, p, F
<1>9. Chained(g) = Chained(h) \cup {e}
  <2>1. ASSUME NEW f \in Chained(g)
        PROVE  f \in Chained(h) \cup {e}
    <3>1. PICK c \in Hashes : \E i \in 1..Len(g.buckets[c]) : f = g.buckets[c][i]
      BY <1>6, ChainedElements
    <3>2. PICK i \in 1..Len(g.buckets[c]) : f = g.buckets[c][i]
      BY <3>1
    <3>3. CASE c = x
      <4>1. f = IF i = 1 THEN e ELSE b[i - 1]
        BY <1>4, <1>8, <3>2, <3>3
      <4>2. CASE i # 1
        <5>1. i - 1 \in 1..Len(b)
          BY <1>1, <1>4, <1>8, <3>2, <3>3, <4>2
        <5>2. f \in Chained(h)
          BY <1>1, <4>1, <4>2, <5>1, ChainedElements DEF b
        <5>3. QED BY <5>2
      <4>3. QED BY <4>1, <4>2
    <3>4. CASE c # x
      BY <1>1, <1>8, <3>2, <3>4, ChainedElements
    <3>5. QED BY <3>3, <3>4
  <2>2. e \in Chained(g)
    <3>1. 1 \in 1..Len(g.buckets[x]) /\ g.buckets[x][1] = e
      BY <1>1, <1>4, <1>8
    <3>2. QED BY <1>1, <1>6, <3>1, ChainedElements
  <2>3. ASSUME NEW f \in Chained(h)
        PROVE  f \in Chained(g)
    <3>1. PICK c \in Hashes : \E i \in 1..Len(h.buckets[c]) : f = h.buckets[c][i]
      BY <1>1, ChainedElements
    <3>2. PICK i \in 1..Len(h.buckets[c]) : f = h.buckets[c][i]
      BY <3>1
    <3>3. CASE c = x
      <4>1. i + 1 \in 1..Len(p) /\ p[i + 1] = f
        <5>1. h.buckets[c] = b
          BY <3>3 DEF b
        <5>2. i + 1 \in 1..Len(p) /\ i + 1 # 1 /\ (i + 1) - 1 = i
          BY <1>1, <1>4, <3>2, <5>1
        <5>3. QED BY <1>4, <3>2, <5>1, <5>2
      <4>2. QED BY <1>1, <1>6, <1>8, <4>1, ChainedElements
    <3>4. CASE c # x
      BY <1>6, <1>8, <3>2, <3>4, ChainedElements
    <3>5. QED BY <3>3, <3>4
  <2>4. QED BY <2>1, <2>2, <2>3
<1>10. ChainsSound(g)
  <2> SUFFICES ASSUME NEW c \in Hashes, NEW i \in 1..Len(g.buckets[c])
               PROVE  /\ g.key[g.buckets[c][i]] \in NsNames /\ HT_IDX(g.key[g.buckets[c][i]]) = c
                      /\ \A j \in 1..Len(g.buckets[c]) :
                           g.key[g.buckets[c][j]] = g.key[g.buckets[c][i]] => j = i
    BY DEF ChainsSound
  <2>1. \A k \in 1..Len(h.buckets[c]) : /\ h.buckets[c][k] \in Chained(h)
                                        /\ h.key[h.buckets[c][k]] \in NsNames /\ HT_IDX(h.key[h.buckets[c][k]]) = c
                                        /\ h.key[h.buckets[c][k]] # n
    <3>1. \A k \in 1..Len(h.buckets[c]) : h.buckets[c][k] \in Chained(h)
      BY <1>1, ChainedElements
    <3>2. QED BY <3>1, FindsElement DEF HtSound, ChainsSound
  <2>2. \A k, l \in 1..Len(h.buckets[c]) : h.key[h.buckets[c][k]] = h.key[h.buckets[c][l]] => k = l
    BY DEF HtSound, ChainsSound
  <2>3. CASE c # x
    <3>1. g.buckets[c] = h.buckets[c]
      BY <1>8, <2>3
    <3>2. \A k \in 1..Len(h.buckets[c]) : g.key[h.buckets[c][k]] = h.key[h.buckets[c][k]]
      BY <1>8, <2>1
    <3>3. i \in 1..Len(h.buckets[c])
      BY <3>1
    <3>4. QED BY <2>1, <2>2, <3>1, <3>2, <3>3
  <2>4. CASE c = x
    <3>1. g.buckets[c] = p /\ h.buckets[c] = b
      BY <1>8, <2>4 DEF b
    <3>2. \A k \in 1..Len(p) : k # 1 => k - 1 \in 1..Len(b) /\ p[k] = b[k - 1] /\ g.key[p[k]] = h.key[b[k - 1]]
      <4> SUFFICES ASSUME NEW k \in 1..Len(p), k # 1
                   PROVE  k - 1 \in 1..Len(b) /\ p[k] = b[k - 1] /\ g.key[p[k]] = h.key[b[k - 1]]
        OBVIOUS
      <4>1. k - 1 \in 1..Len(b)
        BY <1>1, <1>4
      <4>2. p[k] = b[k - 1]
        BY <1>4
      <4>3. b[k - 1] \in Chained(h)
        BY <2>1, <3>1, <4>1
      <4>4. QED BY <1>8, <4>1, <4>2, <4>3
    <3>3. p[1] = e /\ g.key[p[1]] = n /\ 1 \in 1..Len(p)
      <4>1. 1 \in 1..Len(p)
        BY <1>1, <1>4
      <4>2. p[1] = e
        BY <1>4, <4>1
      <4>3. QED BY <1>8, <4>1, <4>2
    <3>4. g.key[p[i]] \in NsNames /\ HT_IDX(g.key[p[i]]) = c
      <4>1. CASE i = 1
        BY <2>4, <3>3, <4>1 DEF x
      <4>2. CASE i # 1
        <5>1. i - 1 \in 1..Len(b) /\ g.key[p[i]] = h.key[b[i - 1]]
          BY <3>1, <3>2, <4>2
        <5>2. \A k \in 1..Len(b) : h.key[b[k]] \in NsNames /\ HT_IDX(h.key[b[k]]) = c
          BY <2>1, <3>1
        <5>3. QED BY <5>1, <5>2
      <4>3. QED BY <4>1, <4>2
    <3>5. ASSUME NEW j \in 1..Len(p), g.key[p[j]] = g.key[p[i]]
          PROVE  j = i
      <4>1. CASE i = 1
        BY <2>1, <3>1, <3>2, <3>3, <3>5, <4>1
      <4>2. CASE i # 1 /\ j = 1
        BY <2>1, <3>1, <3>2, <3>3, <3>5, <4>2
      <4>3. CASE i # 1 /\ j # 1
        <5>1. i - 1 \in 1..Len(b) /\ g.key[p[i]] = h.key[b[i - 1]]
          BY <3>1, <3>2, <4>3
        <5>2. j - 1 \in 1..Len(b) /\ g.key[p[j]] = h.key[b[j - 1]]
          BY <3>2, <4>3
        <5>3. h.key[b[j - 1]] = h.key[b[i - 1]]
          BY <3>5, <5>1, <5>2
        <5>4. \A k, l \in 1..Len(b) : h.key[b[k]] = h.key[b[l]] => k = l
          BY <2>2, <3>1
        <5>5. j - 1 = i - 1
          BY <5>1, <5>2, <5>3, <5>4
        <5>6. i \in Int /\ j \in Int
          BY <3>1
        <5>7. QED BY <5>5, <5>6
      <4>4. QED BY <4>1, <4>2, <4>3
    <3>6. QED BY <3>1, <3>4, <3>5
  <2>5. QED BY <2>3, <2>4
<1>11. FreeSound(g)
  <2> DEFINE T == Tail(F)
  <2>1. g.free = T /\ T \in Seq(Slots) /\ Len(T) = Len(F) - 1 /\ \A i \in 1..Len(T) : T[i] = F[i + 1]
    BY <1>2, <1>3, <1>6
  <2>2. DOMAIN T = 1..Len(T) /\ DOMAIN F = 1..Len(F)
    BY <1>1, <2>1
  <2>3. \A i, j \in 1..Len(F) : F[i] = F[j] => i = j
    BY <2>2 DEF HtSound, FreeSound, IsInjective, F
  <2> HIDE DEF T
  <2>4. IsInjective(T)
    <3> SUFFICES ASSUME NEW i \in 1..Len(T), NEW j \in 1..Len(T), T[i] = T[j]
                 PROVE  i = j
      BY <2>2 DEF IsInjective
    <3>1. i + 1 \in 1..Len(F) /\ j + 1 \in 1..Len(F) /\ F[i + 1] = F[j + 1]
      BY <1>2, <2>1
    <3>2. i + 1 = j + 1
      BY <2>3, <3>1
    <3>3. QED BY <3>2
  <2>5. Len(T) >= 1 /\ T # <<>> /\ T[Len(T)] = HtCap
    <3>1. Len(T) \in 1..Len(T) /\ Len(T) + 1 = Len(F)
      BY <1>2, <2>1
    <3>2. F[Len(F)] = HtCap
      BY DEF HtSound, FreeSound, F
    <3>3. T # <<>>
      BY <3>1
    <3>4. QED BY <2>1, <3>1, <3>2, <3>3
  <2>6. Chained(g) \cap ToSet(T) = {}
    <3>1. ASSUME NEW f \in ToSet(T)
          PROVE  f \in ToSet(F) /\ f # e
      <4>1. PICK i \in 1..Len(T) : f = T[i]
        BY <2>2, <3>1 DEF ToSet
      <4>2. i + 1 \in 1..Len(F) /\ f = F[i + 1] /\ i + 1 # 1 /\ 1 \in 1..Len(F)
        BY <1>2, <2>1, <4>1
      <4>3. QED BY <1>3, <2>2, <2>3, <4>2 DEF ToSet
    <3>2. Chained(h) \cap ToSet(F) = {}
      BY DEF HtSound, FreeSound, F
    <3>3. QED BY <1>9, <3>1, <3>2
  <2>7. Len(T) + Cardinality(Chained(g)) = HtCap + 1
    <3>1. IsFiniteSet(Chained(h)) /\ Cardinality(Chained(h)) \in Nat
      BY <1>1, ChainedElements
    <3>2. Cardinality(Chained(g)) = Cardinality(Chained(h)) + 1
      BY <1>7, <1>9, <3>1, FS_AddElement
    <3>3. Len(F) + Cardinality(Chained(h)) = HtCap + 1
      BY DEF HtSound, FreeSound, F
    <3>4. QED BY <1>2, <2>1, <3>1, <3>2, <3>3
  <2>8. QED BY <2>1, <2>4, <2>5, <2>6, <2>7 DEF FreeSound
<1>12. QED BY <1>3, <1>6, <1>7, <1>9, <1>10, <1>11 DEF HtSound

\* The fields of g after n was deleted from h.
Deleted(h, g, n) ==
  /\ g \in Tables /\ g.buckets = [h.buckets EXCEPT ![HT_IDX(n)] = RemoveAt(@, HT_AT(h, n))]
  /\ g.free = <<HT_FIND(h, n)>> \o h.free /\ g.key = [h.key EXCEPT ![HT_FIND(h, n)] = 0]

\* Deleting a name moves its element from its chain to the front of the free list.
LEMMA DeleteSound ==
  ASSUME NEW h, HtSound(h), NEW n \in NsNames, HT_FIND(h, n) # -1,
         NEW g, Deleted(h, g, n)
  PROVE  HtSound(g) /\ Chained(g) = Chained(h) \ {HT_FIND(h, n)}
<1> DEFINE e == HT_FIND(h, n)  k == HT_AT(h, n)  x == HT_IDX(n)  b == h.buckets[x]
           r == RemoveAt(b, k)  F == h.free  p == <<e>> \o F
<1>1. /\ h \in Tables /\ n \in Nat /\ x \in Hashes /\ F \in Seq(Slots) /\ b \in Seq(Slots)
      /\ h.buckets \in [Hashes -> Seq(Slots)] /\ h.key \in [Slots -> Nat]
  BY HashInRange, FieldsAt DEF HtSound
<1>2. k \in 1..Len(b) /\ b[k] = e /\ e \in Chained(h) /\ h.key[e] = n
  BY FindsElement
<1>3. e \in Slots /\ Len(b) \in Nat /\ Len(F) \in Nat
  BY <1>1, <1>2
<1>4. g.buckets = [h.buckets EXCEPT ![x] = r] /\ g.key = [h.key EXCEPT ![e] = 0]
  BY DEF Deleted
<1>5. g \in Tables /\ g.free = p
  BY DEF Deleted
<1>6. r \in Seq(Slots) /\ Len(r) = Len(b) - 1 /\ \A i \in 1..Len(r) : r[i] = IF i < k THEN b[i] ELSE b[i + 1]
  BY <1>1, <1>2, RemovedAt
<1>7. p \in Seq(Slots) /\ Len(p) = Len(F) + 1 /\ \A i \in 1..Len(p) : p[i] = IF i = 1 THEN e ELSE F[i - 1]
  BY <1>1, <1>3, Prepended
<1>8. /\ g.buckets[x] = r /\ \A c \in Hashes : c # x => g.buckets[c] = h.buckets[c]
      /\ \A f \in Chained(h) \ {e} : g.key[f] = h.key[f]
  <2>1. Chained(h) \subseteq Slots
    BY <1>1, ChainedElements
  <2> HIDE DEF e, k, x, b, r, F, p
  <2>2. g.buckets[x] = r /\ \A c \in Hashes : c # x => g.buckets[c] = h.buckets[c]
    BY <1>1, <1>4
  <2>3. \A f \in Chained(h) \ {e} : g.key[f] = h.key[f]
    BY <1>1, <1>3, <1>4, <2>1
  <2>4. QED BY <2>2, <2>3
\* In its place in its chain, and nowhere else, is the deleted element.
<1>9. \A c \in Hashes : \A i \in 1..Len(h.buckets[c]) :
        /\ h.buckets[c][i] \in Chained(h)
        /\ h.buckets[c][i] = e => c = x /\ i = k
  <2> SUFFICES ASSUME NEW c \in Hashes, NEW i \in 1..Len(h.buckets[c])
               PROVE  /\ h.buckets[c][i] \in Chained(h)
                      /\ h.buckets[c][i] = e => c = x /\ i = k
    OBVIOUS
  <2>1. h.buckets[c][i] \in Chained(h)
    BY <1>1, ChainedElements
  <2>2. ASSUME h.buckets[c][i] = e
        PROVE  c = x /\ i = k
    <3>1. c = x
      BY <1>2, <2>2 DEF HtSound, ChainsSound
    <3>2. i = k
      BY <1>2, <2>2, <3>1 DEF HtSound, ChainsSound
    <3>3. QED BY <3>1, <3>2
  <2>3. QED BY <2>1, <2>2
<1> HIDE DEF e, k, x, b, r, F, p
\* What is left in a chain was in it, one place further behind the deleted one.
<1> DEFINE old(c, i) == IF c = x /\ i >= k THEN i + 1 ELSE i
<1>10. \A c \in Hashes : \A i \in 1..Len(g.buckets[c]) :
         /\ old(c, i) \in 1..Len(h.buckets[c]) /\ g.buckets[c][i] = h.buckets[c][old(c, i)]
         /\ ~(c = x /\ old(c, i) = k)
  <2> SUFFICES ASSUME NEW c \in Hashes, NEW i \in 1..Len(g.buckets[c])
               PROVE  /\ old(c, i) \in 1..Len(h.buckets[c]) /\ g.buckets[c][i] = h.buckets[c][old(c, i)]
                      /\ ~(c = x /\ old(c, i) = k)
    OBVIOUS
  <2>1. CASE c # x
    BY <1>8, <2>1
  <2>2. CASE c = x
    <3>1. h.buckets[c] = b /\ g.buckets[c] = r
      BY <1>8, <2>2 DEF b
    <3>2. i \in Nat /\ i >= 1 /\ i <= Len(b) - 1 /\ k \in Nat /\ k <= Len(b)
      BY <1>2, <1>3, <1>6, <3>1
    <3>3. r[i] = IF i < k THEN b[i] ELSE b[i + 1]
      BY <1>6, <3>1
    <3>4. CASE i < k
      BY <1>3, <2>2, <3>1, <3>2, <3>3, <3>4
    <3>5. CASE i >= k
      BY <1>3, <2>2, <3>1, <3>2, <3>3, <3>5
    <3>6. QED BY <3>2, <3>4, <3>5
  <2>3. QED BY <2>1, <2>2
<1>11. Chained(g) = Chained(h) \ {e}
  <2>1. ASSUME NEW f \in Chained(g)
        PROVE  f \in Chained(h) /\ f # e
    <3>1. PICK c \in Hashes : \E i \in 1..Len(g.buckets[c]) : f = g.buckets[c][i]
      BY <1>5, ChainedElements
    <3>2. PICK i \in 1..Len(g.buckets[c]) : f = g.buckets[c][i]
      BY <3>1
    <3> HIDE DEF old
    <3>3. QED BY <1>9, <1>10, <3>2
  <2>2. ASSUME NEW f \in Chained(h), f # e
        PROVE  f \in Chained(g)
    <3>1. PICK c \in Hashes : \E i \in 1..Len(h.buckets[c]) : f = h.buckets[c][i]
      BY <1>1, ChainedElements
    <3>2. PICK i \in 1..Len(h.buckets[c]) : f = h.buckets[c][i]
      BY <3>1
    <3>3. CASE c # x
      BY <1>5, <1>8, <3>2, <3>3, ChainedElements
    <3>4. CASE c = x
      <4>1. h.buckets[c] = b /\ g.buckets[c] = r
        BY <1>8, <3>4 DEF b
      <4>2. i # k /\ i \in Nat /\ i >= 1 /\ i <= Len(b) /\ k \in Nat /\ k >= 1 /\ k <= Len(b)
        BY <1>2, <1>3, <2>2, <3>2, <4>1
      <4>3. CASE i < k
        <5>1. i \in 1..Len(r)
          BY <1>3, <1>6, <4>2, <4>3
        <5>2. r[i] = f
          BY <1>6, <3>2, <4>1, <4>3, <5>1
        <5>3. QED BY <1>5, <4>1, <5>1, <5>2, ChainedElements
      <4>4. CASE i > k
        <5>1. i - 1 \in 1..Len(r) /\ ~(i - 1 < k) /\ (i - 1) + 1 = i
          BY <1>3, <1>6, <4>2, <4>4
        <5>2. r[i - 1] = f
          BY <1>6, <3>2, <4>1, <5>1
        <5>3. QED BY <1>5, <4>1, <5>1, <5>2, ChainedElements
      <4>5. QED BY <4>2, <4>3, <4>4
    <3>5. QED BY <3>3, <3>4
  <2>3. QED BY <2>1, <2>2
<1>12. ChainsSound(g)
  <2> SUFFICES ASSUME NEW c \in Hashes, NEW i \in 1..Len(g.buckets[c])
               PROVE  /\ g.key[g.buckets[c][i]] \in NsNames /\ HT_IDX(g.key[g.buckets[c][i]]) = c
                      /\ \A j \in 1..Len(g.buckets[c]) :
                           g.key[g.buckets[c][j]] = g.key[g.buckets[c][i]] => j = i
    BY DEF ChainsSound
  <2>1. \A j \in 1..Len(g.buckets[c]) : g.key[g.buckets[c][j]] = h.key[h.buckets[c][old(c, j)]]
    <3> SUFFICES ASSUME NEW j \in 1..Len(g.buckets[c])
                 PROVE  g.key[g.buckets[c][j]] = h.key[h.buckets[c][old(c, j)]]
      OBVIOUS
    <3>1. /\ old(c, j) \in 1..Len(h.buckets[c]) /\ g.buckets[c][j] = h.buckets[c][old(c, j)]
          /\ ~(c = x /\ old(c, j) = k)
      BY <1>10
    <3> HIDE DEF old
    <3>2. h.buckets[c][old(c, j)] \in Chained(h) \ {e}
      BY <1>9, <3>1
    <3>3. QED BY <1>8, <3>1, <3>2
  <2>2. old(c, i) \in 1..Len(h.buckets[c])
    BY <1>10
  <2>3. ASSUME NEW j \in 1..Len(g.buckets[c]), g.key[g.buckets[c][j]] = g.key[g.buckets[c][i]]
        PROVE  j = i
    <3>1. old(c, j) \in 1..Len(h.buckets[c])
      BY <1>10
    <3>2. old(c, j) = old(c, i)
      <4> HIDE DEF old
      <4>1. h.key[h.buckets[c][old(c, j)]] = h.key[h.buckets[c][old(c, i)]]
        BY <2>1, <2>3
      <4>2. QED BY <2>2, <3>1, <4>1 DEF HtSound, ChainsSound
    <3>3. QED BY <1>2, <3>2
  <2> HIDE DEF old
  <2>4. g.key[g.buckets[c][i]] \in NsNames /\ HT_IDX(g.key[g.buckets[c][i]]) = c
    <3> DEFINE i2 == old(c, i)
    <3>1. i2 \in 1..Len(h.buckets[c]) /\ g.key[g.buckets[c][i]] = h.key[h.buckets[c][i2]]
      BY <2>1, <2>2
    <3> HIDE DEF i2
    <3>2. h.key[h.buckets[c][i2]] \in NsNames /\ HT_IDX(h.key[h.buckets[c][i2]]) = c
      BY <3>1 DEF HtSound, ChainsSound
    <3>3. QED BY <3>1, <3>2
  <2>5. QED BY <2>3, <2>4
<1>13. FreeSound(g)
  <2>1. DOMAIN p = 1..Len(p) /\ DOMAIN F = 1..Len(F)
    BY <1>1, <1>7
  <2>2. /\ \A i, j \in 1..Len(F) : F[i] = F[j] => i = j
        /\ F # <<>> /\ F[Len(F)] = HtCap /\ Chained(h) \cap ToSet(F) = {}
        /\ Len(F) + Cardinality(Chained(h)) = HtCap + 1
    BY <2>1 DEF HtSound, FreeSound, IsInjective, F
  <2>3. \A i \in 1..Len(p) : i # 1 => i - 1 \in 1..Len(F) /\ p[i] = F[i - 1] /\ p[i] \in ToSet(F)
    <3> SUFFICES ASSUME NEW i \in 1..Len(p), i # 1
                 PROVE  i - 1 \in 1..Len(F) /\ p[i] = F[i - 1] /\ p[i] \in ToSet(F)
      OBVIOUS
    <3>1. i - 1 \in 1..Len(F) /\ p[i] = F[i - 1]
      BY <1>3, <1>7
    <3>2. F[i - 1] \in ToSet(F)
      BY <2>1, <3>1 DEF ToSet
    <3>3. QED BY <3>1, <3>2
  <2>4. 1 \in 1..Len(p) /\ p[1] = e /\ e \notin ToSet(F)
    <3>1. 1 \in 1..Len(p)
      BY <1>3, <1>7
    <3>2. QED BY <1>2, <1>7, <2>2, <3>1
  <2>5. IsInjective(p)
    <3> SUFFICES ASSUME NEW i \in 1..Len(p), NEW j \in 1..Len(p), p[i] = p[j]
                 PROVE  i = j
      BY <2>1 DEF IsInjective
    <3>1. CASE i = 1
      BY <2>3, <2>4, <3>1
    <3>2. CASE j = 1
      BY <2>3, <2>4, <3>2
    <3>3. CASE i # 1 /\ j # 1
      <4>1. i - 1 = j - 1
        BY <2>2, <2>3, <3>3
      <4>2. QED BY <1>3, <1>7, <4>1
    <3>4. QED BY <3>1, <3>2, <3>3
  <2>6. p # <<>> /\ p[Len(p)] = HtCap
    <3>1. Len(F) # 0
      BY <1>1, <2>2
    <3>2. Len(p) \in 1..Len(p) /\ Len(p) # 1 /\ Len(p) - 1 = Len(F)
      BY <1>3, <1>7, <3>1
    <3>3. p # <<>>
      BY <3>2
    <3>4. QED BY <2>2, <2>3, <3>2, <3>3
  <2>7. Chained(g) \cap ToSet(p) = {}
    <3>1. \A f \in ToSet(p) : f = e \/ f \in ToSet(F)
      BY <2>1, <2>3, <2>4 DEF ToSet
    <3>2. QED BY <1>11, <2>2, <3>1
  <2>8. Len(p) + Cardinality(Chained(g)) = HtCap + 1
    <3>1. IsFiniteSet(Chained(h)) /\ Cardinality(Chained(h)) \in Nat
      BY <1>1, ChainedElements
    <3>2. Cardinality(Chained(g)) = Cardinality(Chained(h)) - 1
      BY <1>2, <1>11, <3>1, FS_RemoveElement
    <3>3. QED BY <1>3, <1>7, <2>2, <3>1, <3>2
  <2>9. QED BY <1>5, <2>5, <2>6, <2>7, <2>8 DEF FreeSound
<1>14. QED BY <1>5, <1>11, <1>12, <1>13 DEF HtSound, e

\* ns_whois_tid in a given table.
Lookup(h, n) == IF HT_FIND(h, n) = -1 THEN U_NO_TID_FOUND ELSE h.val[HT_FIND(h, n)]

\* A name that was there keeps its element; only the tid in it changes.
LEMMA Overwritten ==
  ASSUME NEW h, HtSound(h), NEW n \in NsNames, NEW t \in NsTids, HT_FIND(h, n) # -1,
         NEW g, g = WithTid(h, HT_FIND(h, n), t)
  PROVE  /\ HtSound(g)
         /\ \A m \in NsNames : Lookup(g, m) = IF m = n THEN t ELSE Lookup(h, m)
<1> DEFINE e == HT_FIND(h, n)
<1>1. h \in Tables /\ e \in Chained(h) /\ h.key[e] = n
  BY FindsElement DEF HtSound
<1>2. e \in Slots
  BY <1>1, ChainedElements
<1>3. h.val \in [Slots -> NsTids \cup {0}]
  BY <1>1, FieldsAt
<1> HIDE DEF e
<1>4. g = WithTid(h, e, t)
  BY DEF e
<1>5. g \in Tables
  BY <1>1, <1>2, <1>4, TidSet
<1>6. g.buckets = h.buckets /\ g.free = h.free /\ g.key = h.key /\ g.val = [h.val EXCEPT ![e] = t]
  BY <1>1, <1>2, <1>4, TidSet
<1>7. Chained(g) = Chained(h)
  BY <1>6 DEF Chained
<1>8. HtSound(g)
  BY <1>5, <1>6, <1>7 DEF HtSound, ChainsSound, FreeSound
<1>9. \A m \in NsNames : HT_FIND(g, m) = HT_FIND(h, m)
  <2>1. g.buckets = h.buckets /\ g.key = h.key
    BY <1>6
  <2>2. \A m \in NsNames : HT_AT(g, m) = HT_AT(h, m)
    <3> SUFFICES ASSUME NEW m \in NsNames
                 PROVE  HT_AT(g, m) = HT_AT(h, m)
      OBVIOUS
    <3> DEFINE at(u) == {i \in DOMAIN u.buckets[HT_IDX(m)] : u.key[u.buckets[HT_IDX(m)][i]] = m}
               first(S) == IF S = {} THEN 0 ELSE CHOOSE i \in S : \A j \in S : i <= j
    <3>1. HT_AT(g, m) = first(at(g)) /\ HT_AT(h, m) = first(at(h))
      BY Zenon DEF HT_AT
    <3> HIDE DEF first
    <3>2. at(g) = at(h)
      BY <2>1
    <3> HIDE DEF at
    <3>3. QED BY <3>1, <3>2, Zenon
  <2>3. QED BY <2>1, <2>2, Zenon DEF HT_FIND
<1>10. ASSUME NEW m \in NsNames
       PROVE  Lookup(g, m) = IF m = n THEN t ELSE Lookup(h, m)
  <2>1. CASE m = n
    BY <1>2, <1>3, <1>6, <1>9, <2>1 DEF Lookup, e
  <2>2. CASE m # n /\ HT_FIND(h, m) = -1
    BY <1>9, <2>2 DEF Lookup
  <2>3. CASE m # n /\ HT_FIND(h, m) # -1
    <3>1. HT_FIND(h, m) \in Chained(h) /\ h.key[HT_FIND(h, m)] = m
      BY <2>3, FindsElement
    <3>2. HT_FIND(h, m) \in Slots /\ HT_FIND(h, m) # e
      BY <1>1, <2>3, <3>1, ChainedElements
    <3>3. g.val[HT_FIND(h, m)] = h.val[HT_FIND(h, m)]
      BY <1>3, <1>6, <3>2
    <3>4. QED BY <1>9, <2>3, <3>3 DEF Lookup
  <2>4. QED BY <2>1, <2>2, <2>3
<1>11. QED BY <1>8, <1>10

\* Lookups after an element was chained for a new name, or taken out.
LEMMA LookupKept ==
  ASSUME NEW h, HtSound(h), NEW g, HtSound(g), NEW e \in Slots, NEW m \in NsNames,
         \A f \in Chained(h) : h.key[f] = m => f \in Chained(g),
         \A f \in Chained(g) : g.key[f] = m => f \in Chained(h),
         \A f \in Chained(h) \cap Chained(g) \cap (Slots \ {e}) : g.key[f] = h.key[f] /\ g.val[f] = h.val[f],
         e \in Chained(h) => h.key[e] # m,
         e \in Chained(g) => g.key[e] # m
  PROVE  Lookup(g, m) = Lookup(h, m)
<1>1. Chained(h) \subseteq Slots /\ Chained(g) \subseteq Slots
  BY ChainedElements DEF HtSound
<1>2. CASE HT_FIND(h, m) = -1
  <2>1. \A f \in Chained(g) : g.key[f] # m
    <3> SUFFICES ASSUME NEW f \in Chained(g), g.key[f] = m
                 PROVE  FALSE
      OBVIOUS
    <3>1. f \in Chained(h) /\ f \in Slots /\ f # e
      BY <1>1
    <3>2. h.key[f] = m
      BY <3>1
    <3>3. QED BY <1>2, <3>1, <3>2, FindsElement
  <2>2. HT_FIND(g, m) = -1
    BY <2>1, FindIs
  <2>3. QED BY <1>2, <2>2 DEF Lookup
<1>3. CASE HT_FIND(h, m) # -1
  <2> DEFINE f == HT_FIND(h, m)
  <2>1. f \in Chained(h) /\ h.key[f] = m
    BY <1>3, FindsElement
  <2>2. f \in Chained(g) /\ f \in Slots /\ f # e
    BY <1>1, <2>1
  <2>3. g.key[f] = m /\ g.val[f] = h.val[f]
    BY <2>1, <2>2
  <2>4. HT_FIND(g, m) = f
    BY <2>2, <2>3, FindIs
  <2>5. QED BY <1>3, <2>3, <2>4 DEF Lookup
<1>4. QED BY <1>2, <1>3

\* A new name is found with its tid, and every other as before.
LEMMA Registered ==
  ASSUME NamesFit, NEW h, HtSound(h), NEW n \in NsNames, NEW t \in NsTids, HT_FIND(h, n) = -1,
         NEW g, g = HT_INSERT(Taken(h, Head(h.free), n, t), Head(h.free))
  PROVE  /\ HtSound(g)
         /\ \A m \in NsNames : Lookup(g, m) = IF m = n THEN t ELSE Lookup(h, m)
<1> DEFINE e == Head(h.free)
           u == Taken(h, e, n, t)
<1>1. h \in Tables /\ n \in Nat /\ HT_IDX(n) \in Hashes /\ Len(h.free) >= 2
  BY HashInRange, ElementLeft DEF HtSound
<1>2. h.free \in Seq(Slots) /\ h.key \in [Slots -> Nat] /\ h.val \in [Slots -> NsTids \cup {0}]
  BY <1>1, FieldsAt
<1>3. e \in Slots /\ Tail(h.free) \in Seq(Slots)
  BY <1>1, <1>2
<1>4. g = HT_INSERT(u, e)
  OBVIOUS
<1> HIDE DEF e
<1>5. /\ u \in Tables /\ u.buckets = h.buckets /\ u.free = Tail(h.free)
      /\ u.key = [h.key EXCEPT ![e] = n] /\ u.val = [h.val EXCEPT ![e] = t]
  BY <1>1, <1>3, ElementSet
<1> HIDE DEF u
<1>6. u.key[e] = n
  BY <1>2, <1>3, <1>5
<1> DEFINE p == <<e>> \o h.buckets[HT_IDX(n)]
<1>7. g = WithChain(u, HT_IDX(n), p)
  <2>1. g = WithChain(u, HT_IDX(u.key[e]), <<e>> \o u.buckets[HT_IDX(u.key[e])])
    BY <1>4 DEF HT_INSERT, WithChain
  <2>2. QED BY <1>5, <1>6, <2>1
<1>8. p \in Seq(Slots)
  <2>1. h.buckets[HT_IDX(n)] \in Seq(Slots)
    BY <1>1, FieldsAt
  <2>2. QED BY <1>3, <2>1, Prepended
<1> HIDE DEF p
<1>9. /\ g \in Tables /\ g.buckets = [h.buckets EXCEPT ![HT_IDX(n)] = p]
      /\ g.free = Tail(h.free) /\ g.key = [h.key EXCEPT ![e] = n] /\ g.val = [h.val EXCEPT ![e] = t]
  BY <1>1, <1>5, <1>7, <1>8, ChainSet
<1>10. Inserted(h, g, n, e)
  BY <1>9 DEF Inserted, p
<1>11. HtSound(g) /\ e \notin Chained(h) /\ Chained(g) = Chained(h) \cup {e}
  BY <1>1, <1>10, InsertSound DEF e
<1>12. Chained(h) \subseteq Slots
  BY <1>1, ChainedElements
<1>13. /\ g.key[e] = n /\ g.val[e] = t
       /\ \A f \in Slots \ {e} : g.key[f] = h.key[f] /\ g.val[f] = h.val[f]
  BY <1>2, <1>3, <1>9
<1>14. ASSUME NEW m \in NsNames
       PROVE  Lookup(g, m) = IF m = n THEN t ELSE Lookup(h, m)
  <2>1. CASE m = n
    <3>1. HT_FIND(g, n) = e
      BY <1>11, <1>13, FindIs
    <3>2. e # -1
      BY <1>3, HtAssumption DEF Slots
    <3>3. QED BY <1>13, <2>1, <3>1, <3>2 DEF Lookup
  <2>2. CASE m # n
    <3>1. \A f \in Chained(g) : g.key[f] = m => f \in Chained(h)
      BY <1>11, <1>13, <2>2
    <3>2. Lookup(g, m) = Lookup(h, m)
      BY <1>3, <1>11, <1>13, <2>2, <3>1, LookupKept
    <3>3. QED BY <2>2, <3>2
  <2>3. QED BY <2>1, <2>2
<1>15. QED BY <1>11, <1>14

\* A deleted name is not found, and every other is as before.
LEMMA Unregistered ==
  ASSUME NEW h, HtSound(h), NEW n \in NsNames, HT_FIND(h, n) # -1,
         NEW g, g = Freed(h, HT_IDX(n), RemoveAt(h.buckets[HT_IDX(n)], HT_AT(h, n)), HT_FIND(h, n))
  PROVE  /\ HtSound(g)
         /\ \A m \in NsNames : Lookup(g, m) = IF m = n THEN U_NO_TID_FOUND ELSE Lookup(h, m)
<1> DEFINE e == HT_FIND(h, n)  r == RemoveAt(h.buckets[HT_IDX(n)], HT_AT(h, n))
           p == <<e>> \o h.free
<1>1. h \in Tables /\ HT_IDX(n) \in Hashes /\ e \in Chained(h) /\ h.key[e] = n
  BY HashInRange, FindsElement DEF HtSound
<1>2. h.free \in Seq(Slots) /\ h.key \in [Slots -> Nat] /\ h.val \in [Slots -> NsTids \cup {0}]
  BY <1>1, FieldsAt
<1>3. e \in Slots
  BY <1>1, ChainedElements
<1>4. p \in Seq(Slots)
  BY <1>2, <1>3, Prepended
<1>5. r \in Seq(Slots)
  <2>1. h.buckets[HT_IDX(n)] \in Seq(Slots) /\ HT_AT(h, n) \in 1..Len(h.buckets[HT_IDX(n)])
    BY <1>1, FieldsAt, FindsElement
  <2>2. QED BY <2>1, RemovedAt
<1>6. g = Freed(h, HT_IDX(n), r, e)
  OBVIOUS
<1> HIDE DEF e, r
<1>7. h.free \in Seq(Slots) /\ <<e>> \o h.free \in Seq(Slots)
  BY <1>2, <1>4
<1>8. /\ g \in Tables /\ g.buckets = [h.buckets EXCEPT ![HT_IDX(n)] = r]
      /\ g.free = <<e>> \o h.free
      /\ g.key = [h.key EXCEPT ![e] = 0] /\ g.val = [h.val EXCEPT ![e] = 0]
  <2>1. FreedFields(h, HT_IDX(n), r, e, g)
    BY <1>1, <1>3, <1>5, <1>6, <1>7, ElementFreed
  <2>2. QED BY <2>1 DEF FreedFields
<1> HIDE DEF p
<1>9. Deleted(h, g, n)
  BY <1>8 DEF Deleted, e, r, p
<1>10. HtSound(g) /\ Chained(g) = Chained(h) \ {e}
  BY <1>9, DeleteSound DEF e
<1>11. \A f \in Slots \ {e} : g.key[f] = h.key[f] /\ g.val[f] = h.val[f]
  BY <1>2, <1>3, <1>8
<1>12. Chained(h) \subseteq Slots
  BY <1>1, ChainedElements
<1>13. ASSUME NEW m \in NsNames
       PROVE  Lookup(g, m) = IF m = n THEN U_NO_TID_FOUND ELSE Lookup(h, m)
  <2>1. CASE m = n
    <3>1. \A f \in Chained(g) : g.key[f] # n
      <4> SUFFICES ASSUME NEW f \in Chained(g), g.key[f] = n
                   PROVE  FALSE
        OBVIOUS
      <4>1. f \in Chained(h) /\ f # e /\ h.key[f] = n
        BY <1>10, <1>11, <1>12
      <4>2. QED BY <1>1, <4>1, NamesApart
    <3>2. HT_FIND(g, n) = -1
      BY <1>10, <3>1, FindIs
    <3>3. QED BY <2>1, <3>2 DEF Lookup
  <2>2. CASE m # n
    <3>1. \A f \in Chained(h) : h.key[f] = m => f \in Chained(g)
      BY <1>1, <1>10, <2>2
    <3>2. Lookup(g, m) = Lookup(h, m)
      BY <1>1, <1>3, <1>10, <1>11, <2>2, <3>1, LookupKept
    <3>3. QED BY <2>2, <3>2
  <2>3. QED BY <2>1, <2>2
<1>14. QED BY <1>10, <1>13

\* At first every element is free.
LEMMA InitSound ==
  ASSUME NEW h, h = [buckets |-> [b \in 0..Bucksz - 1 |-> <<>>], free |-> HT_INIT_FREE,
                     key |-> [i \in 0..HtCap |-> 0], val |-> [i \in 0..HtCap |-> 0]]
  PROVE  HtSound(h)
<1>1. /\ h.buckets = [b \in Hashes |-> <<>>] /\ h.free = HT_INIT_FREE
  BY DEF Hashes
<1>2. HT_INIT_FREE \in Seq(Slots) /\ Len(HT_INIT_FREE) = HtCap + 1 /\ HT_INIT_FREE # <<>>
  <2>1. HtCap + 1 \in Nat /\ HT_INIT_FREE \in [1..HtCap + 1 -> Slots]
    BY HtAssumption DEF HT_INIT_FREE, Slots
  <2> HIDE DEF HT_INIT_FREE
  <2>2. HT_INIT_FREE \in Seq(Slots)
    BY <2>1, SeqDef
  <2>3. Len(HT_INIT_FREE) = HtCap + 1
    BY <2>1, <2>2
  <2>4. QED BY <2>2, <2>3, HtAssumption
<1>3. h \in Tables
  BY <1>2 DEF Tables, Hashes, Slots
<1> HIDE DEF HtSound
<1>4. \A b \in Hashes : 1..Len(h.buckets[b]) = {}
  <2>1. \A b \in Hashes : h.buckets[b] = <<>>
    BY <1>1
  <2>2. 1..Len(<<>>) = {}
    OBVIOUS
  <2>3. QED BY <2>1, <2>2, Zenon
<1>5. Chained(h) = {} /\ ChainsSound(h)
  BY <1>3, <1>4, ChainedElements DEF ChainsSound
<1>6. IsInjective(HT_INIT_FREE) /\ HT_INIT_FREE[HtCap + 1] = HtCap
  BY HtAssumption DEF HT_INIT_FREE, IsInjective
<1>7. Cardinality(Chained(h)) = 0
  BY <1>5, FS_EmptySet
<1>8. FreeSound(h)
  <2>1. h.free = HT_INIT_FREE
    BY <1>1
  <2>2. h.free # <<>> /\ Len(h.free) = HtCap + 1 /\ IsInjective(h.free) /\ h.free[HtCap + 1] = HtCap
    BY <1>2, <1>6, <2>1, Zenon
  <2>3. h.free[Len(h.free)] = HtCap
    BY <2>2, Zenon
  <2>4. Len(h.free) + Cardinality(Chained(h)) = HtCap + 1
    BY <1>7, <2>2, HtAssumption
  <2>5. QED BY <1>5, <2>2, <2>3, <2>4, Zenon DEF FreeSound
<1>9. QED BY <1>3, <1>5, <1>8 DEF HtSound

\* HtSound says what ElementsAccounted says of the table.
LEMMA Accounted ==
  ASSUME HtSound(ht)
  PROVE  ElementsAccounted
<1>1. ht \in Tables /\ FreeSound(ht)
  BY DEF HtSound
<1>2. ht.free \in Seq(Slots) /\ DOMAIN ht.free = 1..Len(ht.free) /\ Len(ht.free) # 0
  BY <1>1, FieldsAt DEF FreeSound
<1>3. HtCap \in ToSet(ht.free)
  BY <1>1, <1>2 DEF FreeSound, ToSet
<1>4. QED BY <1>1, <1>3 DEF FreeSound, ElementsAccounted

\* The action DirectoryExact is about.
DirectoryStep ==
  \A n \in NsNames :
    /\ HT_DEL_BY_KEY(n) => Directory' = [Directory EXCEPT ![n] = U_NO_TID_FOUND]
    /\ \A t \in NsTids :
         ns_register_name_with_tid(n, t) => Directory' = [Directory EXCEPT ![n] = t]

\* A registration keeps the table sound and gives that name, alone, its tid.
LEMMA RegisterStep ==
  ASSUME NamesFit, HtSound(ht), NEW n \in NsNames, NEW t \in NsTids, ns_register_name_with_tid(n, t)
  PROVE  HtSound(ht') /\ Directory' = [Directory EXCEPT ![n] = t]
<1>1. PICK h : h = ht
  OBVIOUS
<1>2. PICK g : g = ht'
  OBVIOUS
<1>3. HtSound(h)
  BY <1>1
<1>4. /\ HT_FIND(h, n) # -1 => g = WithTid(h, HT_FIND(h, n), t)
      /\ HT_FIND(h, n) = -1 => g = HT_INSERT(Taken(h, Head(h.free), n, t), Head(h.free))
  BY <1>1, <1>2, Zenon DEF ns_register_name_with_tid, WithTid, Taken
<1>5. HtSound(g) /\ \A m \in NsNames : Lookup(g, m) = IF m = n THEN t ELSE Lookup(h, m)
  <2>1. CASE HT_FIND(h, n) # -1
    BY <1>3, <1>4, <2>1, Overwritten
  <2>2. CASE HT_FIND(h, n) = -1
    BY <1>3, <1>4, <2>2, Registered
  <2>3. QED BY <2>1, <2>2
<1>6. Directory = [m \in NsNames |-> Lookup(h, m)]
  BY <1>1 DEF Directory, ns_whois_tid, Lookup
<1>7. Directory' = [m \in NsNames |-> Lookup(g, m)]
  BY <1>2 DEF Directory, ns_whois_tid, Lookup
<1>8. QED BY <1>2, <1>5, <1>6, <1>7

\* A deletion does too.
LEMMA DeleteStep ==
  ASSUME HtSound(ht), NEW n \in NsNames, HT_DEL_BY_KEY(n)
  PROVE  HtSound(ht') /\ Directory' = [Directory EXCEPT ![n] = U_NO_TID_FOUND]
<1>1. PICK h : h = ht
  OBVIOUS
<1>2. PICK g : g = ht'
  OBVIOUS
<1>3. HtSound(h)
  BY <1>1
<1>4. /\ HT_FIND(h, n) # -1
      /\ g = Freed(h, HT_IDX(n), RemoveAt(h.buckets[HT_IDX(n)], HT_AT(h, n)), HT_FIND(h, n))
  BY <1>1, <1>2, Zenon DEF HT_DEL_BY_KEY, Freed
<1>5. HtSound(g) /\ \A m \in NsNames : Lookup(g, m) = IF m = n THEN U_NO_TID_FOUND ELSE Lookup(h, m)
  BY <1>3, <1>4, Unregistered
<1>6. Directory = [m \in NsNames |-> Lookup(h, m)]
  BY <1>1 DEF Directory, ns_whois_tid, Lookup
<1>7. Directory' = [m \in NsNames |-> Lookup(g, m)]
  BY <1>2 DEF Directory, ns_whois_tid, Lookup
<1>8. QED BY <1>2, <1>5, <1>6, <1>7

\* As long as the names fit, ns_whois_tid (nameserver.c) answers with the last tid
\* registered for the name: HT_INSERT and HT_DEL_BY_KEY (hashtable.h) change what
\* is found under their own key only, whatever names collide, and lose no element
\* and use none twice.
THEOREM DirectoryExactTheorem ==
  ASSUME NamesFit
  PROVE  HtSpec => DirectoryExact
<1>1. HT_INIT => HtSound(ht)
  BY InitSound DEF HT_INIT
<1>2. HtSound(ht) /\ [HtNext]_ht => HtSound(ht)'
  BY RegisterStep, DeleteStep DEF HtNext
<1>3. HtSound(ht) /\ [HtNext]_ht => [DirectoryStep]_ht
  BY RegisterStep, DeleteStep DEF DirectoryStep
<1>4. HtSound(ht) => ElementsAccounted
  BY Accounted
<1>5. HtSpec => []ElementsAccounted /\ [][DirectoryStep]_ht
  BY <1>1, <1>2, <1>3, <1>4, PTL DEF HtSpec
<1>6. QED BY <1>5 DEF DirectoryExact, DirectoryStep

-----------------------------------------------------------------------------
(* lib/include/heap.h: the scheduler's heap implements one queue for each  *)
(* priority, for every capacity and every set of priorities.               *)

Heaps(n) == [0 .. n - 1 -> HeapEntries]

\* No entry is before its parent: at all, or but for the entry at j and its parent.
Ordered(h) == \A i \in DOMAIN h : i > 0 => ~Before(h[i], h[Parent(i)])

OrderedBut(h, j) ==
  /\ \A i \in DOMAIN h : i > 0 /\ i # j => ~Before(h[i], h[Parent(i)])
  /\ \A i \in DOMAIN h : i > 0 /\ Parent(i) = j /\ j > 0 => ~Before(h[i], h[Parent(j)])

\* The same, but for the children of the entry at j.
OrderedBelow(h, j) ==
  /\ \A i \in DOMAIN h : i > 0 /\ Parent(i) # j => ~Before(h[i], h[Parent(i)])
  /\ \A i \in DOMAIN h : i > 0 /\ Parent(i) = j /\ j > 0 => ~Before(h[i], h[Parent(j)])

Distinct(h) == \A i, j \in DOMAIN h : h[i].insert_val = h[j].insert_val => i = j

\* The same entries in another order.
Rearranged(g, h) == Range(g) = Range(h) /\ (Distinct(h) => Distinct(g))

LEMMA ParentIs ==
  ASSUME NEW n \in Nat, NEW i \in 0 .. n - 1
  PROVE  /\ Parent(i) \in 0 .. n - 1 /\ Parent(i) <= i /\ (i > 0 => Parent(i) < i)
         /\ i > 0 => (i = 2 * Parent(i) + 1 \/ i = 2 * Parent(i) + 2)
BY DEF Parent

\* cmp_keys_task_dsp is a strict order.
LEMMA BeforeOrders ==
  ASSUME NEW a \in HeapEntries, NEW b \in HeapEntries, NEW c \in HeapEntries
  PROVE  /\ ~Before(a, a)
         /\ Before(a, b) => ~Before(b, a)
         /\ ~Before(a, b) /\ ~Before(b, c) => ~Before(a, c)
         /\ Before(a, b) /\ ~Before(c, b) => ~Before(c, a)
         /\ Before(a, b) /\ ~Before(a, c) => ~Before(b, c)
<1>1. \A e \in HeapEntries : e.priority \in Nat /\ e.insert_val \in Nat
  BY HeapAssumption DEF HeapEntries
<1>2. QED BY <1>1 DEF Before

LEMMA Swapped ==
  ASSUME NEW n \in Nat, NEW h \in Heaps(n), NEW i \in 0 .. n - 1, NEW j \in 0 .. n - 1
  PROVE  /\ Swap(h, i, j) \in Heaps(n) /\ Rearranged(Swap(h, i, j), h)
         /\ \A k \in 0 .. n - 1 :
              Swap(h, i, j)[k] = IF k = j THEN h[i] ELSE IF k = i THEN h[j] ELSE h[k]
<1> DEFINE g == Swap(h, i, j)
<1>1. /\ g \in Heaps(n) /\ DOMAIN g = 0 .. n - 1 /\ DOMAIN h = 0 .. n - 1
      /\ \A k \in 0 .. n - 1 : g[k] = IF k = j THEN h[i] ELSE IF k = i THEN h[j] ELSE h[k]
  BY DEF Heaps, Swap
<1> HIDE DEF g
<1>2. Range(g) = Range(h)
  <2>1. \A k \in 0 .. n - 1 : \E l \in 0 .. n - 1 : g[k] = h[l]
    BY <1>1
  <2>2. \A k \in 0 .. n - 1 : \E l \in 0 .. n - 1 : h[k] = g[l]
    <3> TAKE k \in 0 .. n - 1
    <3>1. CASE k = i
      BY <1>1, <3>1
    <3>2. CASE k = j
      BY <1>1, <3>2
    <3>3. CASE k # i /\ k # j
      BY <1>1, <3>3
    <3>4. QED BY <3>1, <3>2, <3>3
  <2>3. Range(g) = {g[k] : k \in 0 .. n - 1} /\ Range(h) = {h[k] : k \in 0 .. n - 1}
    BY <1>1 DEF Range
  <2>4. Range(g) \subseteq Range(h)
    BY <2>1, <2>3
  <2>5. Range(h) \subseteq Range(g)
    BY <2>2, <2>3
  <2>6. QED BY <2>4, <2>5
<1>3. Distinct(h) => Distinct(g)
  BY <1>1 DEF Distinct
<1>4. QED BY <1>1, <1>2, <1>3 DEF Rearranged, g

-----------------------------------------------------------------------------
(* heapify_bottom_top                                                      *)

IsUp(f, n, k) ==
  f = [j \in 0 .. k |-> [g \in Heaps(n) |->
        IF Before(g[j], g[Parent(j)]) THEN f[Parent(j)][Swap(g, j, Parent(j))] ELSE g]]

\* There is a function as the recursion defines it.
LEMMA UpExists ==
  ASSUME NEW n \in Nat, NEW k \in 0 .. n - 1
  PROVE  \E f : IsUp(f, n, k)
<1> DEFINE T == {m \in 0 .. n - 1 : ~\E f : IsUp(f, n, m)}
<1>1. T \in SUBSET Nat
  OBVIOUS
<1>2. ASSUME NEW m \in T
      PROVE  m - 1 \in T
  <2>1. m \in 0 .. n - 1 /\ ~\E f : IsUp(f, n, m)
    OBVIOUS
  <2>2. m # 0
    <3> SUFFICES ASSUME m = 0
                 PROVE  FALSE
      OBVIOUS
    <3> DEFINE f == [j \in 0 .. 0 |-> [g \in Heaps(n) |-> g]]
    <3>1. \A j \in 0 .. 0 : j = 0 /\ Parent(j) = 0
      BY DEF Parent
    <3>2. \A g \in Heaps(n) : ~Before(g[0], g[0])
      BY <2>1, BeforeOrders DEF Heaps
    <3>3. \A j \in 0 .. 0, g \in Heaps(n) :
             g = IF Before(g[j], g[Parent(j)]) THEN f[Parent(j)][Swap(g, j, Parent(j))] ELSE g
      BY <3>1, <3>2
    <3>4. IsUp(f, n, 0)
      BY <3>3 DEF IsUp
    <3>5. QED BY <2>1, <3>4
  <2>3. SUFFICES ASSUME NEW f, IsUp(f, n, m - 1)
                 PROVE  FALSE
    BY <2>1, <2>2
  <2> DEFINE u == [j \in 0 .. m |-> [g \in Heaps(n) |->
                    IF Before(g[j], g[Parent(j)]) THEN f[Parent(j)][Swap(g, j, Parent(j))] ELSE g]]
  <2>4. \A j \in 0 .. m : j > 0 => Parent(j) \in 0 .. m - 1
    BY <2>1, <2>2 DEF Parent
  <2>5. \A j \in 0 .. m - 1 : u[j] = f[j]
    <3> TAKE j \in 0 .. m - 1
    <3>1. f = [l \in 0 .. m - 1 |-> [g \in Heaps(n) |->
               IF Before(g[l], g[Parent(l)]) THEN f[Parent(l)][Swap(g, l, Parent(l))] ELSE g]]
      BY <2>3 DEF IsUp
    <3>2. f[j] = [g \in Heaps(n) |->
               IF Before(g[j], g[Parent(j)]) THEN f[Parent(j)][Swap(g, j, Parent(j))] ELSE g]
      BY <3>1
    <3>3. j \in 0 .. m
      BY <2>1, <2>2
    <3>4. QED BY <3>2, <3>3
  <2>6. \A g \in Heaps(n) : ~Before(g[0], g[Parent(0)])
    BY <2>1, BeforeOrders DEF Heaps, Parent
  <2>7. \A j \in 0 .. m, g \in Heaps(n) :
           Before(g[j], g[Parent(j)]) => u[Parent(j)] = f[Parent(j)]
    <3> TAKE j \in 0 .. m, g \in Heaps(n)
    <3>1. CASE j = 0
      BY <2>6, <3>1
    <3>2. CASE j # 0
      <4>1. Parent(j) \in 0 .. m - 1
        BY <2>4, <3>2
      <4>2. u[Parent(j)] = f[Parent(j)]
        BY <2>5, <4>1
      <4>3. QED BY <4>2
    <3>3. QED BY <3>1, <3>2
  <2>8. u = [j \in 0 .. m |-> [g \in Heaps(n) |->
              IF Before(g[j], g[Parent(j)]) THEN u[Parent(j)][Swap(g, j, Parent(j))] ELSE g]]
    <3> HIDE DEF u
    <3>1. u = [j \in 0 .. m |-> [g \in Heaps(n) |->
                IF Before(g[j], g[Parent(j)]) THEN f[Parent(j)][Swap(g, j, Parent(j))] ELSE g]]
      BY DEF u
    <3>2. \A j \in 0 .. m :
            [g \in Heaps(n) |->
                IF Before(g[j], g[Parent(j)]) THEN f[Parent(j)][Swap(g, j, Parent(j))] ELSE g]
            = [g \in Heaps(n) |->
                IF Before(g[j], g[Parent(j)]) THEN u[Parent(j)][Swap(g, j, Parent(j))] ELSE g]
      BY <2>7
    <3>3. QED BY <3>1, <3>2
  <2>9. IsUp(u, n, m)
    <3> HIDE DEF u
    <3>1. QED BY <2>8 DEF IsUp
  <2>10. QED BY <2>1, <2>9
<1> HIDE DEF T
<1>3. T = {}
  BY <1>1, <1>2, Descent
<1>4. QED BY <1>3 DEF T

\* One call of heapify_bottom_top.
LEMMA UpIs ==
  ASSUME NEW n \in Nat, NEW h \in Heaps(n), NEW i \in 0 .. n - 1
  PROVE  heapify_bottom_top(h, i) =
           IF Before(h[i], h[Parent(i)]) THEN heapify_bottom_top(Swap(h, i, Parent(i)), Parent(i))
           ELSE h
<1> DEFINE U(f) == IsUp(f, n, n - 1)
           F == CHOOSE f : U(f)
<1>1. n - 1 \in 0 .. n - 1
  OBVIOUS
<1>2. U(F)
  BY <1>1, UpExists
<1>3. F = [j \in 0 .. n - 1 |-> [g \in Heaps(n) |->
              IF Before(g[j], g[Parent(j)]) THEN F[Parent(j)][Swap(g, j, Parent(j))] ELSE g]]
  <2> HIDE DEF F
  <2>1. QED BY <1>2 DEF IsUp
<1>4. \A g \in Heaps(n), j \in 0 .. n - 1 : heapify_bottom_top(g, j) = F[j][g]
  <2> TAKE g \in Heaps(n), j \in 0 .. n - 1
  <2>1. DOMAIN g = 0 .. n - 1
    BY DEF Heaps
  <2>2. QED BY <2>1 DEF heapify_bottom_top, IsUp, Heaps
<1> HIDE DEF F
<1>5. F[i][h] = IF Before(h[i], h[Parent(i)]) THEN F[Parent(i)][Swap(h, i, Parent(i))] ELSE h
  <2>1. F[i] = [g \in Heaps(n) |->
              IF Before(g[i], g[Parent(i)]) THEN F[Parent(i)][Swap(g, i, Parent(i))] ELSE g]
    BY <1>3
  <2>2. QED BY <2>1
<1>6. Parent(i) \in 0 .. n - 1
  BY ParentIs
<1>7. Swap(h, i, Parent(i)) \in Heaps(n)
  BY <1>6, Swapped
<1>8. heapify_bottom_top(Swap(h, i, Parent(i)), Parent(i)) = F[Parent(i)][Swap(h, i, Parent(i))]
  BY <1>4, <1>6, <1>7
<1>9. QED BY <1>4, <1>5, <1>8

\* The entry at i moves up to where it belongs.
LEMMA UpSorts ==
  ASSUME NEW n \in Nat, NEW h \in Heaps(n), NEW i \in 0 .. n - 1, OrderedBut(h, i)
  PROVE  LET r == heapify_bottom_top(h, i)
         IN  r \in Heaps(n) /\ Ordered(r) /\ Rearranged(r, h)
<1> DEFINE Good(g, j) == LET r == heapify_bottom_top(g, j)
                         IN  r \in Heaps(n) /\ Ordered(r) /\ Rearranged(r, g)
           Bad == {j \in 0 .. n - 1 : \E g \in Heaps(n) : OrderedBut(g, j) /\ ~Good(g, j)}
<1>1. SUFFICES Bad = {}
  OBVIOUS
<1>2. SUFFICES ASSUME Bad # {}
               PROVE  FALSE
  OBVIOUS
<1>3. Bad \in SUBSET Nat
  OBVIOUS
<1> HIDE DEF Bad
<1>4. PICK j \in Bad : \A k \in Bad : j <= k
  BY <1>2, <1>3, SmallestOf
<1>5. j \in 0 .. n - 1
  BY DEF Bad
<1>6. PICK g \in Heaps(n) : OrderedBut(g, j) /\ ~Good(g, j)
  BY DEF Bad
<1> HIDE DEF Good
<1> DEFINE p == Parent(j)  s == Swap(g, j, p)
<1>7. p \in 0 .. n - 1 /\ (j > 0 => p < j) /\ (j = 0 => p = j)
  BY <1>5, ParentIs DEF Parent
<1>8. DOMAIN g = 0 .. n - 1 /\ \A k \in 0 .. n - 1 : g[k] \in HeapEntries
  BY DEF Heaps
<1>9. CASE ~Before(g[j], g[p])
  <2>1. heapify_bottom_top(g, j) = g
    BY <1>5, <1>9, UpIs
  <2>2. Ordered(g)
    BY <1>6, <1>9 DEF Ordered, OrderedBut
  <2>3. Rearranged(g, g)
    BY DEF Rearranged
  <2>4. QED BY <1>6, <2>1, <2>2, <2>3 DEF Good
<1>10. CASE Before(g[j], g[p])
  <2>1. j > 0
    <3>1. ~Before(g[j], g[j])
      BY <1>5, <1>8, BeforeOrders
    <3>2. QED BY <1>5, <1>7, <1>10, <3>1
  <2>2. p < j
    BY <1>7, <2>1
  <2>3. /\ s \in Heaps(n) /\ DOMAIN s = 0 .. n - 1 /\ Rearranged(s, g)
        /\ \A k \in 0 .. n - 1 : s[k] = IF k = p THEN g[j] ELSE IF k = j THEN g[p] ELSE g[k]
    <3> HIDE DEF p
    <3>1. s \in Heaps(n) /\ Rearranged(s, g)
          /\ (\A k \in 0 .. n - 1 : s[k] = IF k = p THEN g[j] ELSE IF k = j THEN g[p] ELSE g[k])
      <4>1. s \in Heaps(n) /\ Rearranged(s, g)
        BY <1>5, <1>7, Swapped
      <4>2. \A k \in 0 .. n - 1 : s[k] = IF k = p THEN g[j] ELSE IF k = j THEN g[p] ELSE g[k]
        BY <1>5, <1>7, Swapped
      <4>3. QED BY <4>1, <4>2
    <3> HIDE DEF s
    <3>2. DOMAIN s = 0 .. n - 1
      BY <3>1 DEF Heaps
    <3>3. QED BY <3>1, <3>2
  <2> HIDE DEF s
  <2>4. OrderedBut(s, p)
    <3>1. ASSUME NEW k \in 0 .. n - 1, k > 0, k # p
          PROVE  ~Before(s[k], s[Parent(k)])
      <4>1. Parent(k) \in 0 .. n - 1 /\ Parent(k) < k
        BY <3>1, ParentIs
      <4>2. CASE k = j
        <5>1. s[k] = g[p] /\ s[Parent(k)] = g[j]
          BY <1>5, <1>7, <2>2, <2>3, <4>2
        <5>2. QED BY <1>5, <1>7, <1>8, <1>10, <5>1, BeforeOrders
      <4>3. CASE k # j /\ Parent(k) = j
        <5>1. s[k] = g[k] /\ s[Parent(k)] = g[p]
          BY <1>5, <1>7, <2>2, <2>3, <3>1, <4>3
        <5>2. ~Before(g[k], g[p])
          BY <1>6, <1>8, <2>1, <3>1, <4>3 DEF OrderedBut
        <5>3. QED BY <5>1, <5>2
      <4>4. CASE k # j /\ Parent(k) = p
        <5>1. s[k] = g[k] /\ s[Parent(k)] = g[j]
          BY <1>5, <1>7, <2>2, <2>3, <3>1, <4>4
        <5>2. ~Before(g[k], g[p])
          BY <1>6, <1>8, <3>1, <4>4 DEF OrderedBut
        <5>3. QED BY <1>5, <1>7, <1>8, <1>10, <5>1, <5>2, BeforeOrders
      <4>5. CASE k # j /\ Parent(k) # j /\ Parent(k) # p
        <5>1. s[k] = g[k] /\ s[Parent(k)] = g[Parent(k)]
          BY <2>3, <3>1, <4>1, <4>5
        <5>2. QED BY <1>6, <1>8, <3>1, <4>5, <5>1 DEF OrderedBut
      <4>6. QED BY <4>2, <4>3, <4>4, <4>5
    <3>2. ASSUME NEW k \in 0 .. n - 1, k > 0, Parent(k) = p, p > 0
          PROVE  ~Before(s[k], s[Parent(p)])
      <4>1. Parent(p) \in 0 .. n - 1 /\ Parent(p) < p
        BY <1>7, <3>2, ParentIs
      <4>2. s[Parent(p)] = g[Parent(p)]
        BY <1>5, <1>7, <2>2, <2>3, <4>1
      <4>3. ~Before(g[p], g[Parent(p)])
        BY <1>6, <1>7, <1>8, <2>2, <3>2 DEF OrderedBut
      <4>4. CASE k = j
        <5>1. s[k] = g[p]
          BY <1>5, <2>2, <2>3, <4>4, <1>7
        <5>2. QED BY <4>2, <4>3, <5>1
      <4>5. CASE k # j
        <5>1. k # p
          BY <3>2, ParentIs
        <5>2. s[k] = g[k]
          BY <2>3, <4>5, <5>1
        <5>3. ~Before(g[k], g[p])
          BY <1>6, <1>8, <3>2, <4>5 DEF OrderedBut
        <5>4. QED BY <1>7, <1>8, <4>1, <4>2, <4>3, <5>2, <5>3, BeforeOrders
      <4>6. QED BY <4>4, <4>5
    <3>3. QED BY <2>3, <3>1, <3>2 DEF OrderedBut
  <2>5. p \notin Bad
    BY <1>4, <1>5, <1>7, <2>2
  <2>6. Good(s, p)
    BY <1>7, <2>3, <2>4, <2>5 DEF Bad
  <2>7. heapify_bottom_top(g, j) = heapify_bottom_top(s, p)
    BY <1>5, <1>10, UpIs DEF s
  <2>8. Good(g, j)
    BY <2>3, <2>6, <2>7 DEF Good, Rearranged
  <2>9. QED BY <1>6, <2>8
<1>11. QED BY <1>9, <1>10

-----------------------------------------------------------------------------
(* heapify_top_bottom                                                      *)

\* The child that takes the place of the entry at i, if there is one.
LEMMA MinChildIs ==
  ASSUME NEW n \in Nat, NEW h \in Heaps(n), NEW i \in 0 .. n - 1
  PROVE  LET m == MinChild(h, i)
         IN  /\ m \in 0 .. n - 1 /\ i <= m
             /\ m # i => m > i /\ Parent(m) = i /\ Before(h[m], h[i])
             /\ \A k \in 0 .. n - 1 : k > 0 /\ Parent(k) = i => ~Before(h[k], h[m])
<1> DEFINE l == 2 * i + 1  r == 2 * i + 2  m == MinChild(h, i)
           b == IF l < n /\ Before(h[l], h[i]) THEN l ELSE i
<1>1. DOMAIN h = 0 .. n - 1 /\ (\A k \in 0 .. n - 1 : h[k] \in HeapEntries) /\ Count(h) = n
  <2>1. Cardinality(0 .. n - 1) = n
    BY FS_Interval
  <2>2. QED BY <2>1 DEF Count, Heaps
<1>2. m = IF r < n /\ Before(h[r], h[b]) THEN r ELSE b
  BY <1>1 DEF MinChild
<1> HIDE DEF m
<1>3. b \in 0 .. n - 1 /\ i <= b /\ (b # i => b = l /\ Before(h[l], h[i]))
  OBVIOUS
<1>4. l < n => ~Before(h[l], h[b])
  BY <1>1, BeforeOrders
<1> HIDE DEF b
<1>5. Parent(l) = i /\ Parent(r) = i /\ l > i /\ r > i
  BY DEF Parent
<1>6. \A k \in 0 .. n - 1 : k > 0 /\ Parent(k) = i => k = l \/ k = r
  BY ParentIs
<1> HIDE DEF l, r
<1>7. CASE r < n /\ Before(h[r], h[b])
  <2>1. m = r /\ r \in 0 .. n - 1
    BY <1>2, <1>5, <1>7 DEF r
  <2>2. Before(h[r], h[i])
    BY <1>1, <1>3, <1>4, <1>7, <2>1, BeforeOrders DEF l
  <2>3. l < n => ~Before(h[l], h[r])
    <3>1. l \in Nat
      BY DEF l
    <3>2. QED BY <1>1, <1>3, <1>4, <1>7, <2>1, <3>1, BeforeOrders
  <2>4. ~Before(h[r], h[r])
    BY <1>1, <2>1, BeforeOrders
  <2>5. QED BY <1>5, <1>6, <2>1, <2>2, <2>3, <2>4 DEF m
<1>8. CASE ~(r < n /\ Before(h[r], h[b]))
  <2>1. m = b
    BY <1>2, <1>8
  <2>2. QED BY <1>3, <1>4, <1>5, <1>6, <1>8, <2>1 DEF m
<1>9. QED BY <1>7, <1>8

IsDown(f, n, k) ==
  f = [j \in k .. n - 1 |-> [g \in Heaps(n) |->
        IF MinChild(g, j) # j THEN f[MinChild(g, j)][Swap(g, MinChild(g, j), j)] ELSE g]]

\* There is a function as the recursion defines it.
LEMMA DownExists ==
  ASSUME NEW n \in Nat, NEW k \in 0 .. n
  PROVE  \E f : IsDown(f, n, k)
<1> DEFINE T == {m \in 0 .. n : ~\E f : IsDown(f, n, n - m)}
<1>1. T \in SUBSET Nat
  OBVIOUS
<1>2. ASSUME NEW m \in T
      PROVE  m - 1 \in T
  <2>1. m \in 0 .. n /\ ~\E f : IsDown(f, n, n - m)
    OBVIOUS
  <2>2. m # 0
    <3> SUFFICES ASSUME m = 0
                 PROVE  FALSE
      OBVIOUS
    <3> DEFINE f == [j \in {} |-> 0]
    <3>1. n - m .. n - 1 = {}
      BY <2>1
    <3>2. IsDown(f, n, n - m)
      BY <3>1 DEF IsDown
    <3>3. QED BY <2>1, <3>2
  <2> DEFINE c == n - m
  <2>3. c \in 0 .. n - 1 /\ n - (m - 1) = c + 1 /\ m - 1 \in 0 .. n
    BY <2>1, <2>2
  <2>4. SUFFICES ASSUME NEW f, IsDown(f, n, c + 1)
                 PROVE  FALSE
    BY <2>3
  <2>5. ~\E u : IsDown(u, n, c)
    BY <2>1
  <2> HIDE DEF c
  <2> DEFINE u == [j \in c .. n - 1 |-> [g \in Heaps(n) |->
                    IF MinChild(g, j) # j THEN f[MinChild(g, j)][Swap(g, MinChild(g, j), j)] ELSE g]]
  <2>6. \A j \in c + 1 .. n - 1 : u[j] = f[j]
    <3> TAKE j \in c + 1 .. n - 1
    <3>1. f = [l \in c + 1 .. n - 1 |-> [g \in Heaps(n) |->
               IF MinChild(g, l) # l THEN f[MinChild(g, l)][Swap(g, MinChild(g, l), l)] ELSE g]]
      BY <2>4 DEF IsDown
    <3>2. f[j] = [g \in Heaps(n) |->
               IF MinChild(g, j) # j THEN f[MinChild(g, j)][Swap(g, MinChild(g, j), j)] ELSE g]
      BY <3>1
    <3>3. j \in c .. n - 1
      BY <2>3
    <3>4. QED BY <3>2, <3>3
  <2>7. \A j \in c .. n - 1, g \in Heaps(n) :
           MinChild(g, j) # j => u[MinChild(g, j)] = f[MinChild(g, j)]
    <3> TAKE j \in c .. n - 1, g \in Heaps(n)
    <3> HAVE MinChild(g, j) # j
    <3>1. j \in 0 .. n - 1
      BY <2>3
    <3>2. MinChild(g, j) \in 0 .. n - 1 /\ MinChild(g, j) > j
      BY <3>1, MinChildIs
    <3>3. MinChild(g, j) \in c + 1 .. n - 1
      BY <2>3, <3>2
    <3> HIDE DEF u
    <3>4. QED BY <2>6, <3>3
  <2>8. IsDown(u, n, c)
    <3> HIDE DEF u
    <3>1. u = [j \in c .. n - 1 |-> [g \in Heaps(n) |->
                IF MinChild(g, j) # j THEN f[MinChild(g, j)][Swap(g, MinChild(g, j), j)] ELSE g]]
      BY DEF u
    <3>2. \A j \in c .. n - 1 :
            [g \in Heaps(n) |->
                IF MinChild(g, j) # j THEN f[MinChild(g, j)][Swap(g, MinChild(g, j), j)] ELSE g]
            = [g \in Heaps(n) |->
                IF MinChild(g, j) # j THEN u[MinChild(g, j)][Swap(g, MinChild(g, j), j)] ELSE g]
      BY <2>7
    <3>3. QED BY <3>1, <3>2 DEF IsDown
  <2> HIDE DEF u
  <2>9. QED BY <2>5, <2>8
<1> HIDE DEF T
<1>3. T = {}
  BY <1>1, <1>2, Descent
<1>4. n - k \in 0 .. n /\ n - (n - k) = k
  OBVIOUS
<1>5. QED BY <1>3, <1>4 DEF T

\* One call of heapify_top_bottom.
LEMMA DownIs ==
  ASSUME NEW n \in Nat, NEW h \in Heaps(n), NEW i \in 0 .. n - 1
  PROVE  LET m == MinChild(h, i)
         IN  heapify_top_bottom(h, i) =
               IF m # i THEN heapify_top_bottom(Swap(h, m, i), m) ELSE h
<1> DEFINE U(f) == IsDown(f, n, 0)
           F == CHOOSE f : U(f)
           m == MinChild(h, i)
<1>1. 0 \in 0 .. n
  OBVIOUS
<1>2. U(F)
  BY <1>1, DownExists
<1>3. F = [j \in 0 .. n - 1 |-> [g \in Heaps(n) |->
              IF MinChild(g, j) # j THEN F[MinChild(g, j)][Swap(g, MinChild(g, j), j)] ELSE g]]
  <2> HIDE DEF F
  <2>1. QED BY <1>2 DEF IsDown
<1>4. \A g \in Heaps(n), j \in 0 .. n - 1 : heapify_top_bottom(g, j) = F[j][g]
  <2> TAKE g \in Heaps(n), j \in 0 .. n - 1
  <2>1. DOMAIN g = 0 .. n - 1
    BY DEF Heaps
  <2>2. QED BY <2>1 DEF heapify_top_bottom, IsDown, Heaps
<1> HIDE DEF F
<1>5. F[i][h] = IF m # i THEN F[m][Swap(h, m, i)] ELSE h
  <2>1. F[i] = [g \in Heaps(n) |->
              IF MinChild(g, i) # i THEN F[MinChild(g, i)][Swap(g, MinChild(g, i), i)] ELSE g]
    BY <1>3
  <2>2. QED BY <2>1
<1>6. m \in 0 .. n - 1
  BY MinChildIs
<1> HIDE DEF m
<1>7. Swap(h, m, i) \in Heaps(n)
  BY <1>6, Swapped
<1>8. heapify_top_bottom(Swap(h, m, i), m) = F[m][Swap(h, m, i)]
  BY <1>4, <1>6, <1>7
<1>9. heapify_top_bottom(h, i) = IF m # i THEN heapify_top_bottom(Swap(h, m, i), m) ELSE h
  BY <1>4, <1>5, <1>8
<1>10. QED BY <1>9 DEF m

\* The entry at i moves down to where it belongs.
LEMMA DownSorts ==
  ASSUME NEW n \in Nat, NEW h \in Heaps(n), NEW i \in 0 .. n - 1, OrderedBelow(h, i)
  PROVE  LET r == heapify_top_bottom(h, i)
         IN  r \in Heaps(n) /\ Ordered(r) /\ Rearranged(r, h)
<1> DEFINE Good(g, j) == LET r == heapify_top_bottom(g, j)
                         IN  r \in Heaps(n) /\ Ordered(r) /\ Rearranged(r, g)
           Bad == {k \in 1 .. n : \E g \in Heaps(n) : OrderedBelow(g, n - k) /\ ~Good(g, n - k)}
<1>1. SUFFICES Bad = {}
  <2>1. n - i \in 1 .. n /\ n - (n - i) = i
    OBVIOUS
  <2> HIDE DEF Good
  <2>2. Good(h, i)
    BY <1>1, <2>1
  <2>3. QED BY <2>2 DEF Good
<1>2. SUFFICES ASSUME Bad # {}
               PROVE  FALSE
  OBVIOUS
<1>3. Bad \in SUBSET Nat
  OBVIOUS
<1> HIDE DEF Bad
<1>4. PICK d \in Bad : \A k \in Bad : d <= k
  BY <1>2, <1>3, SmallestOf
<1>5. d \in 1 .. n
  BY DEF Bad
<1> DEFINE j == n - d
<1>6. PICK g \in Heaps(n) : OrderedBelow(g, j) /\ ~Good(g, j)
  BY DEF Bad
<1>7. j \in 0 .. n - 1 /\ d = n - j
  BY <1>5
<1> HIDE DEF Good, j
<1> DEFINE m == MinChild(g, j)  s == Swap(g, m, j)
<1>8. DOMAIN g = 0 .. n - 1 /\ \A k \in 0 .. n - 1 : g[k] \in HeapEntries
  BY DEF Heaps
<1>9. /\ m \in 0 .. n - 1 /\ j <= m
      /\ m # j => m > j /\ Parent(m) = j /\ Before(g[m], g[j])
      /\ \A k \in 0 .. n - 1 : k > 0 /\ Parent(k) = j => ~Before(g[k], g[m])
  BY <1>7, MinChildIs
<1>10. heapify_top_bottom(g, j) = IF m # j THEN heapify_top_bottom(s, m) ELSE g
  BY <1>7, DownIs
<1> HIDE DEF m
<1>11. CASE m = j
  <2>1. Ordered(g)
    BY <1>6, <1>8, <1>9, <1>11 DEF Ordered, OrderedBelow
  <2>2. Rearranged(g, g)
    BY DEF Rearranged
  <2>3. QED BY <1>6, <1>10, <1>11, <2>1, <2>2 DEF Good
<1>12. CASE m # j
  <2>1. m > j /\ Parent(m) = j /\ Before(g[m], g[j])
    BY <1>9, <1>12
  <2>2. /\ s \in Heaps(n) /\ DOMAIN s = 0 .. n - 1 /\ Rearranged(s, g)
        /\ \A k \in 0 .. n - 1 : s[k] = IF k = j THEN g[m] ELSE IF k = m THEN g[j] ELSE g[k]
    <3>1. s \in Heaps(n) /\ Rearranged(s, g)
          /\ (\A k \in 0 .. n - 1 : s[k] = IF k = j THEN g[m] ELSE IF k = m THEN g[j] ELSE g[k])
      <4>1. s \in Heaps(n) /\ Rearranged(s, g)
        BY <1>7, <1>9, Swapped
      <4>2. \A k \in 0 .. n - 1 : s[k] = IF k = j THEN g[m] ELSE IF k = m THEN g[j] ELSE g[k]
        BY <1>7, <1>9, Swapped
      <4>3. QED BY <4>1, <4>2
    <3> HIDE DEF s
    <3>2. DOMAIN s = 0 .. n - 1
      BY <3>1 DEF Heaps
    <3>3. QED BY <3>1, <3>2
  <2> HIDE DEF s
  <2>3. OrderedBelow(s, m)
    <3>1. ASSUME NEW k \in 0 .. n - 1, k > 0, Parent(k) # m
          PROVE  ~Before(s[k], s[Parent(k)])
      <4>1. Parent(k) \in 0 .. n - 1 /\ Parent(k) < k
        BY <3>1, ParentIs
      <4>2. CASE k = j
        <5>1. s[k] = g[m] /\ s[Parent(k)] = g[Parent(j)]
          BY <1>7, <1>9, <2>1, <2>2, <3>1, <4>1, <4>2
        <5>2. ~Before(g[m], g[Parent(j)])
          BY <1>6, <1>8, <1>9, <2>1, <3>1, <4>2, <1>7 DEF OrderedBelow
        <5>3. QED BY <5>1, <5>2
      <4>3. CASE k = m
        <5>1. s[k] = g[j] /\ s[Parent(k)] = g[m]
          BY <1>7, <1>9, <2>1, <2>2, <4>3
        <5>2. QED BY <1>7, <1>8, <1>9, <2>1, <5>1, BeforeOrders
      <4>4. CASE k # m /\ Parent(k) = j
        <5>1. s[k] = g[k] /\ s[Parent(k)] = g[m]
          BY <1>7, <1>9, <2>2, <4>1, <4>4
        <5>2. ~Before(g[k], g[m])
          BY <1>9, <3>1, <4>4
        <5>3. QED BY <5>1, <5>2
      <4>5. CASE k # j /\ k # m /\ Parent(k) # j
        <5>1. s[k] = g[k] /\ s[Parent(k)] = g[Parent(k)]
          BY <2>2, <3>1, <4>1, <4>5
        <5>2. QED BY <1>6, <1>8, <3>1, <4>5, <5>1 DEF OrderedBelow
      <4>6. QED BY <4>2, <4>3, <4>4, <4>5
    <3>2. ASSUME NEW k \in 0 .. n - 1, k > 0, Parent(k) = m, m > 0
          PROVE  ~Before(s[k], s[Parent(m)])
      <4>1. k # m /\ k # j
        BY <1>7, <1>9, <2>1, <3>2, ParentIs
      <4>2. s[k] = g[k] /\ s[Parent(m)] = g[m]
        BY <1>7, <2>1, <2>2, <4>1
      <4>3. QED BY <1>6, <1>8, <2>1, <3>2, <4>2, <1>7, <1>9 DEF OrderedBelow
    <3>3. QED BY <2>2, <3>1, <3>2 DEF OrderedBelow
  <2>4. n - m \in 1 .. n /\ n - m < d /\ n - (n - m) = m
    BY <1>7, <1>9, <2>1
  <2>5. n - m \notin Bad
    BY <1>4, <1>5, <2>4
  <2>6. Good(s, m)
    BY <2>2, <2>3, <2>4, <2>5 DEF Bad
  <2>7. Good(g, j)
    BY <1>10, <1>12, <2>2, <2>6 DEF Good, Rearranged
  <2>8. QED BY <1>6, <2>7
<1>13. QED BY <1>11, <1>12

-----------------------------------------------------------------------------
(* The queues                                                              *)

LEMMA RanksOf ==
  ASSUME NEW es \in SUBSET HeapEntries, IsFiniteSet(es), NEW e \in es
  PROVE  LET earlier == {f \in es : f.insert_val < e.insert_val}
         IN  IsFiniteSet(earlier) /\ Cardinality(earlier) \in 0 .. Cardinality(es) - 1
<1> DEFINE earlier == {f \in es : f.insert_val < e.insert_val}
<1>1. e.insert_val \in Nat /\ e \notin earlier /\ earlier \subseteq es \ {e}
  BY DEF HeapEntries
<1> HIDE DEF earlier
<1>2. IsFiniteSet(es \ {e}) /\ Cardinality(es \ {e}) = Cardinality(es) - 1 /\ Cardinality(es) \in Nat
  BY FS_RemoveElement, FS_CardinalityType
<1>3. IsFiniteSet(earlier) /\ Cardinality(earlier) <= Cardinality(es) - 1
  BY <1>1, <1>2, FS_Subset
<1>4. Cardinality(earlier) \in Nat
  BY <1>3, FS_CardinalityType
<1>5. QED BY <1>2, <1>3, <1>4 DEF earlier

\* The entry inserted last is the last of its queue.
LEMMA LastInserted ==
  ASSUME NEW es \in SUBSET HeapEntries, IsFiniteSet(es), NEW e \in HeapEntries,
         \A f \in es : f.insert_val < e.insert_val
  PROVE  InInsertOrder(es \cup {e}) = Append(InInsertOrder(es), e.td)
<1> DEFINE us == es \cup {e}  c == Cardinality(es)
           Rank(x) == Cardinality({f \in es : f.insert_val < x.insert_val})
           RankU(x) == Cardinality({f \in us : f.insert_val < x.insert_val})
           q == InInsertOrder(es)  u == InInsertOrder(us)
<1>1. \A x \in us : x.insert_val \in Nat
  BY DEF HeapEntries
<1>2. e \notin es
  BY <1>1
<1>3. IsFiniteSet(us) /\ Cardinality(us) = c + 1 /\ c \in Nat
  BY <1>2, FS_AddElement, FS_CardinalityType
<1>4. \A x \in es : RankU(x) = Rank(x) /\ Rank(x) \in 0 .. c - 1
  <2> TAKE x \in es
  <2>1. {f \in us : f.insert_val < x.insert_val} = {f \in es : f.insert_val < x.insert_val}
    BY <1>1
  <2>2. Rank(x) \in 0 .. c - 1
    BY RanksOf
  <2>3. QED BY <2>1, <2>2
<1>5. RankU(e) = c
  <2>1. {f \in us : f.insert_val < e.insert_val} = es
    BY <1>1
  <2>2. QED BY <2>1
<1>6. /\ q = [k \in 1 .. c |-> (CHOOSE x \in es : Rank(x) = k - 1).td]
      /\ u = [k \in 1 .. c + 1 |-> (CHOOSE x \in us : RankU(x) = k - 1).td]
  BY <1>3 DEF InInsertOrder
<1> HIDE DEF q, u, Rank, RankU
<1>7. \A k \in 1 .. c : u[k] = q[k]
  <2> TAKE k \in 1 .. c
  <2>1. \A x : (x \in us /\ RankU(x) = k - 1) <=> (x \in es /\ Rank(x) = k - 1)
    BY <1>2, <1>3, <1>4, <1>5
  <2>2. (CHOOSE x \in us : RankU(x) = k - 1) = (CHOOSE x \in es : Rank(x) = k - 1)
    BY <2>1
  <2>3. QED BY <1>3, <1>6, <2>2
<1>8. u[c + 1] = e.td
  <2> HIDE DEF c
  <2> SUFFICES ASSUME NEW k \in 1 .. c + 1, k = c + 1
               PROVE  u[k] = e.td
    BY <1>3
  <2>1. \A x : (x \in us /\ RankU(x) = k - 1) <=> x = e
    BY <1>2, <1>3, <1>4, <1>5
  <2>2. (CHOOSE x \in us : RankU(x) = k - 1) = e
    BY <2>1
  <2>3. u[k] = (CHOOSE x \in us : RankU(x) = k - 1).td
    BY <1>6
  <2>4. QED BY <2>2, <2>3
<1> DEFINE V == {q[k] : k \in 1 .. c} \cup {e.td}
<1>9. q \in Seq(V) /\ Len(q) = c
  <2>1. q \in [1 .. c -> V]
    BY <1>6
  <2>2. QED BY <1>3, <2>1
<1>10. u \in Seq(V) /\ Len(u) = c + 1
  <2>1. \A k \in 1 .. c + 1 : u[k] \in V
    BY <1>3, <1>7, <1>8
  <2>2. u \in [1 .. c + 1 -> V]
    BY <1>6, <2>1
  <2>3. QED BY <1>3, <2>2
<1> HIDE DEF V, c
<1>11. e.td \in V
  BY DEF V
<1>12. Append(q, e.td) \in Seq(V) /\ Len(Append(q, e.td)) = c + 1
       /\ \A k \in 1 .. c + 1 : Append(q, e.td)[k] = IF k <= c THEN q[k] ELSE e.td
  BY <1>3, <1>9, <1>11
<1>13. \A k \in 1 .. c + 1 : u[k] = Append(q, e.td)[k]
  BY <1>3, <1>7, <1>8, <1>12
<1>14. u = Append(q, e.td)
  BY <1>3, <1>10, <1>12, <1>13, SeqEqual
<1>15. QED BY <1>14 DEF u, q

\* The entry inserted first is the first of its queue.
LEMMA FirstInserted ==
  ASSUME NEW es \in SUBSET HeapEntries, IsFiniteSet(es), NEW e \in es,
         \A f \in es : f # e => e.insert_val < f.insert_val
  PROVE  /\ InInsertOrder(es) # <<>> /\ Head(InInsertOrder(es)) = e.td
         /\ InInsertOrder(es \ {e}) = Tail(InInsertOrder(es))
<1> DEFINE us == es \ {e}  c == Cardinality(us)
           Rank(x) == Cardinality({f \in es : f.insert_val < x.insert_val})
           RankU(x) == Cardinality({f \in us : f.insert_val < x.insert_val})
           q == InInsertOrder(es)  u == InInsertOrder(us)
<1>1. \A x \in es : x.insert_val \in Nat
  BY DEF HeapEntries
<1>2. IsFiniteSet(us) /\ Cardinality(es) = c + 1 /\ c \in Nat
  <2>1. IsFiniteSet(us) /\ Cardinality(us) = Cardinality(es) - 1
    BY FS_RemoveElement
  <2>2. Cardinality(es) \in Nat /\ Cardinality(us) \in Nat
    BY <2>1, FS_CardinalityType
  <2>3. QED BY <2>1, <2>2
<1>3. Rank(e) = 0
  <2>1. {f \in es : f.insert_val < e.insert_val} = {}
    BY <1>1
  <2>2. QED BY <2>1, FS_EmptySet
<1>4. \A x \in us : Rank(x) = RankU(x) + 1 /\ RankU(x) \in Nat
  <2> TAKE x \in us
  <2> DEFINE lo == {f \in es : f.insert_val < x.insert_val}
             lou == {f \in us : f.insert_val < x.insert_val}
  <2>1. e \in lo /\ lou = lo \ {e}
    OBVIOUS
  <2>2. IsFiniteSet(lo)
    BY RanksOf
  <2> HIDE DEF lo, lou
  <2>3. Cardinality(lou) = Cardinality(lo) - 1 /\ Cardinality(lo) \in Nat /\ Cardinality(lou) \in Nat
    BY <2>1, <2>2, FS_RemoveElement, FS_CardinalityType
  <2>4. QED BY <2>3 DEF lo, lou
<1>5. /\ q = [k \in 1 .. c + 1 |-> (CHOOSE x \in es : Rank(x) = k - 1).td]
      /\ u = [k \in 1 .. c |-> (CHOOSE x \in us : RankU(x) = k - 1).td]
  BY <1>2 DEF InInsertOrder
<1> HIDE DEF q, u, Rank, RankU
<1>6. \A k \in 1 .. c : u[k] = q[k + 1]
  <2> TAKE k \in 1 .. c
  <2> HIDE DEF c
  <2>1. \A x : (x \in us /\ RankU(x) = k - 1) <=> (x \in es /\ Rank(x) = k + 1 - 1)
    BY <1>2, <1>3, <1>4
  <2>2. (CHOOSE x \in us : RankU(x) = k - 1) = (CHOOSE x \in es : Rank(x) = k + 1 - 1)
    BY <2>1
  <2>3. k + 1 \in 1 .. c + 1
    BY <1>2
  <2>4. u[k] = (CHOOSE x \in us : RankU(x) = k - 1).td
    BY <1>5
  <2>5. q[k + 1] = (CHOOSE x \in es : Rank(x) = k + 1 - 1).td
    BY <1>5, <2>3
  <2>6. QED BY <2>2, <2>4, <2>5
<1>7. q[1] = e.td
  <2>1. \A x : (x \in es /\ Rank(x) = 0) <=> x = e
    BY <1>3, <1>4
  <2>2. (CHOOSE x \in es : Rank(x) = 0) = e
    BY <2>1
  <2>3. 1 \in 1 .. c + 1 /\ 1 - 1 = 0
    BY <1>2
  <2>4. QED BY <1>5, <2>2, <2>3
<1> DEFINE V == {q[k] : k \in 1 .. c + 1}
<1>8. q \in Seq(V) /\ Len(q) = c + 1
  <2>1. q \in [1 .. c + 1 -> V]
    BY <1>5
  <2> HIDE DEF V, c
  <2>2. QED BY <1>2, <2>1
<1>9. u \in Seq(V) /\ Len(u) = c
  <2>1. \A k \in 1 .. c : u[k] \in V
    BY <1>2, <1>6
  <2>2. u \in [1 .. c -> V]
    BY <1>5, <2>1
  <2> HIDE DEF V, c
  <2>3. QED BY <1>2, <2>2
<1> HIDE DEF V, c
<1>10. q # <<>> /\ Head(q) = e.td
  BY <1>2, <1>7, <1>8
<1>11. Tail(q) \in Seq(V) /\ Len(Tail(q)) = c /\ \A k \in 1 .. c : Tail(q)[k] = q[k + 1]
  BY <1>2, <1>8, <1>10
<1>12. u = Tail(q)
  BY <1>2, <1>6, <1>9, <1>11, SeqEqual
<1>13. QED BY <1>10, <1>12 DEF u, q

-----------------------------------------------------------------------------
(* The invariant and the refinement                                        *)

HeapInv ==
  /\ global_insertion_count \in Nat
  /\ \E n \in 0 .. Cap : heap_array \in Heaps(n)
  /\ Ordered(heap_array) /\ Distinct(heap_array)
  /\ \A e \in Range(heap_array) : e.insert_val < global_insertion_count

\* What is at the root is before everything else.
LEMMA RootFirst ==
  ASSUME NEW n \in Nat, NEW h \in Heaps(n), Ordered(h), NEW i \in 0 .. n - 1
  PROVE  ~Before(h[i], h[0])
<1> DEFINE Bad == {k \in 0 .. n - 1 : Before(h[k], h[0])}
<1>1. SUFFICES ASSUME Bad # {}
               PROVE  FALSE
  OBVIOUS
<1>2. Bad \in SUBSET Nat
  OBVIOUS
<1> HIDE DEF Bad
<1>3. PICK k \in Bad : \A l \in Bad : k <= l
  BY <1>1, <1>2, SmallestOf
<1>4. k \in 0 .. n - 1 /\ Before(h[k], h[0])
  BY DEF Bad
<1>5. DOMAIN h = 0 .. n - 1 /\ \A l \in 0 .. n - 1 : h[l] \in HeapEntries
  BY DEF Heaps
<1>6. 0 \in 0 .. n - 1
  BY <1>4
<1>7. k > 0
  <2>1. ~Before(h[0], h[0])
    BY <1>5, <1>6, BeforeOrders
  <2>2. k # 0
    BY <1>4, <2>1
  <2>3. QED BY <1>4, <2>2
<1>8. Parent(k) \in 0 .. n - 1 /\ Parent(k) < k
  BY <1>4, <1>7, ParentIs
<1>9. ~Before(h[Parent(k)], h[0])
  BY <1>3, <1>4, <1>8 DEF Bad
<1>10. ~Before(h[k], h[Parent(k)])
  BY <1>4, <1>5, <1>7 DEF Ordered
<1>11. QED BY <1>4, <1>5, <1>6, <1>8, <1>9, <1>10, BeforeOrders

LEMMA HeapCount ==
  ASSUME NEW n \in Nat, NEW h \in Heaps(n)
  PROVE  /\ DOMAIN h = 0 .. n - 1 /\ Count(h) = n
         /\ Range(h) = {h[k] : k \in 0 .. n - 1} /\ Range(h) \in SUBSET HeapEntries
         /\ IsFiniteSet(Range(h))
<1>1. DOMAIN h = 0 .. n - 1 /\ \A k \in 0 .. n - 1 : h[k] \in HeapEntries
  BY DEF Heaps
<1>2. IsFiniteSet(0 .. n - 1) /\ Cardinality(0 .. n - 1) = n
  BY FS_Interval
<1>3. Range(h) = {h[k] : k \in 0 .. n - 1}
  BY <1>1 DEF Range
<1>4. IsFiniteSet({h[k] : k \in 0 .. n - 1})
  <2>1. h \in Surjection(0 .. n - 1, {h[k] : k \in 0 .. n - 1})
    BY <1>1 DEF Surjection, Heaps
  <2>2. QED BY <1>2, <2>1, FS_Surjection
<1>5. QED BY <1>1, <1>2, <1>3, <1>4 DEF Count

LEMMA HeapInitInv == HeapInit => HeapInv /\ Abstract!Init
<1> SUFFICES ASSUME HeapInit
             PROVE  HeapInv /\ Abstract!Init
  OBVIOUS
<1>1. heap_array \in Heaps(0) /\ 0 \in Nat /\ 0 \in 0 .. Cap
  BY HeapAssumption DEF HeapInit, Heaps
<1>2. DOMAIN heap_array = {} /\ Count(heap_array) = 0 /\ Range(heap_array) = {}
  BY <1>1, HeapCount
<1>3. HeapInv
  BY <1>1, <1>2 DEF HeapInit, HeapInv, Ordered, Distinct
<1>4. \A p \in Prios : InInsertOrder(EntriesOf(p)) = <<>>
  <2> TAKE p \in Prios
  <2>1. EntriesOf(p) = {} /\ Cardinality({}) = 0
    BY <1>2, FS_EmptySet DEF EntriesOf
  <2>2. QED BY <2>1 DEF InInsertOrder
<1>5. QED BY <1>2, <1>3, <1>4 DEF HeapInit, Abstract!Init

LEMMA InsertStep ==
  ASSUME HeapInv, NEW t \in Tds, NEW p \in Prios, HEAP_INSERT(t, p)
  PROVE  HeapInv' /\ Abstract!Insert(t, p)
<1> DEFINE n == Count(heap_array)  x == global_insertion_count
           e == [td |-> t, priority |-> p, insert_val |-> x]
           h == [i \in 0 .. n |-> IF i = n THEN e ELSE heap_array[i]]
           r == heapify_bottom_top(h, n)
<1>1. n \in 0 .. Cap /\ heap_array \in Heaps(n) /\ x \in Nat
  BY HeapAssumption, HeapCount DEF HeapInv
<1>2. /\ DOMAIN heap_array = 0 .. n - 1 /\ IsFiniteSet(Range(heap_array))
      /\ Range(heap_array) = {heap_array[k] : k \in 0 .. n - 1}
      /\ Range(heap_array) \in SUBSET HeapEntries
  BY <1>1, HeapCount
<1>3. popped' = None
  BY DEF HEAP_INSERT
<1>4. CASE ~(n < Cap)
  <2>1. UNCHANGED <<heap_array, global_insertion_count>>
    BY <1>4 DEF HEAP_INSERT
  <2>2. HeapInv'
    BY <2>1 DEF HeapInv, Ordered, Distinct, Range
  <2>3. UNCHANGED <<[q \in Prios |-> InInsertOrder(EntriesOf(q))], Count(heap_array)>>
    BY <2>1 DEF EntriesOf, InInsertOrder, Count
  <2>4. QED BY <1>3, <1>4, <2>2, <2>3 DEF Abstract!Insert
<1>5. CASE n < Cap
  <2>1. heap_array' = r /\ global_insertion_count' = x + 1
    BY <1>5 DEF HEAP_INSERT
  <2>2. e \in HeapEntries /\ e.insert_val = x /\ e.priority = p /\ e.td = t
    BY <1>1 DEF HeapEntries
  <2> HIDE DEF n, e, r
  <2>3. /\ h \in Heaps(n + 1) /\ DOMAIN h = 0 .. n /\ n + 1 \in 0 .. Cap
        /\ \A k \in 0 .. n : h[k] = IF k = n THEN e ELSE heap_array[k]
    BY <1>1, <1>5, <2>2, HeapAssumption DEF Heaps
  <2> HIDE DEF h
  <2>4. n + 1 \in Nat /\ n \in 0 .. n + 1 - 1
    BY <1>1
  <2>5. OrderedBut(h, n)
    <3>1. ASSUME NEW i \in 0 .. n, i > 0
          PROVE  Parent(i) \in 0 .. n - 1
      BY <1>1, <3>1 DEF Parent
    <3>2. \A i \in 0 .. n : i > 0 /\ i # n => ~Before(h[i], h[Parent(i)])
      BY <1>1, <1>2, <2>3, <3>1 DEF HeapInv, Ordered
    <3>3. QED BY <1>1, <2>3, <3>1, <3>2 DEF OrderedBut
  <2>6. r \in Heaps(n + 1) /\ Ordered(r) /\ Rearranged(r, h)
    BY <2>3, <2>4, <2>5, UpSorts DEF r
  <2>7. \A k \in 0 .. n - 1 : heap_array[k].insert_val < x /\ h[k] = heap_array[k]
    <3>1. \A k \in 0 .. n - 1 : heap_array[k] \in Range(heap_array)
      BY <1>2
    <3>2. QED BY <1>1, <2>3, <3>1 DEF HeapInv
  <2>8. Distinct(h)
    <3> SUFFICES ASSUME NEW i \in 0 .. n, NEW j \in 0 .. n, h[i].insert_val = h[j].insert_val
                 PROVE  i = j
      BY <2>3 DEF Distinct
    <3>1. \A k \in 0 .. n - 1 : heap_array[k].insert_val \in Nat
      BY <1>1 DEF Heaps, HeapEntries
    <3>2. CASE i < n /\ j < n
      BY <1>1, <1>2, <2>7, <3>2 DEF HeapInv, Distinct
    <3>3. CASE i = n /\ j < n
      BY <1>1, <2>2, <2>3, <2>7, <3>1, <3>3
    <3>4. CASE i < n /\ j = n
      BY <1>1, <2>2, <2>3, <2>7, <3>1, <3>4
    <3>5. CASE i = n /\ j = n
      BY <3>5
    <3>6. QED BY <1>1, <3>2, <3>3, <3>4, <3>5
  <2>9. Range(r) = Range(heap_array) \cup {e}
    <3>1. Range(h) = {h[k] : k \in 0 .. n}
      BY <2>3 DEF Range
    <3>2. h[n] = e /\ n \in 0 .. n /\ \A k \in 0 .. n : k = n \/ k \in 0 .. n - 1
      BY <1>1, <2>3
    <3>3. \A k \in 0 .. n - 1 : k \in 0 .. n
      BY <1>1
    <3>4. Range(h) \subseteq Range(heap_array) \cup {e}
      BY <1>2, <2>7, <3>1, <3>2
    <3>5. Range(heap_array) \cup {e} \subseteq Range(h)
      BY <1>2, <2>7, <3>1, <3>2, <3>3
    <3>6. QED BY <2>6, <3>4, <3>5 DEF Rearranged
  <2>10. Distinct(r)
    BY <2>6, <2>8 DEF Rearranged
  <2>11. \A f \in Range(heap_array) : f.insert_val < x /\ f.insert_val \in Nat
    BY <1>2 DEF HeapInv, HeapEntries
  <2>12. HeapInv'
    <3>1. \A f \in Range(r) : f.insert_val < x + 1
      BY <1>1, <2>2, <2>9, <2>11
    <3>2. x + 1 \in Nat
      BY <1>1
    <3>3. \E m \in 0 .. Cap : r \in Heaps(m)
      BY <2>3, <2>6
    <3>4. QED BY <2>1, <2>6, <2>10, <3>1, <3>2, <3>3 DEF HeapInv
  <2>13. Count(heap_array') = n + 1
    BY <2>1, <2>4, <2>6, HeapCount
  <2> DEFINE Of(q) == {f \in Range(heap_array) : f.priority = q}
  <2>14. \A q \in Prios : InInsertOrder(EntriesOf(q))' =
            IF q = p THEN Append(InInsertOrder(EntriesOf(q)), t) ELSE InInsertOrder(EntriesOf(q))
    <3> TAKE q \in Prios
    <3>1. InInsertOrder(EntriesOf(q))' = InInsertOrder({f \in Range(r) : f.priority = q})
      BY <2>1 DEF EntriesOf, InInsertOrder
    <3>2. InInsertOrder(EntriesOf(q)) = InInsertOrder(Of(q))
      BY DEF EntriesOf
    <3>3. CASE q = p
      <4>1. {f \in Range(r) : f.priority = q} = Of(q) \cup {e}
        BY <2>2, <2>9, <3>3
      <4>2. IsFiniteSet(Of(q)) /\ Of(q) \in SUBSET HeapEntries
        BY <1>2, FS_Subset
      <4>3. \A f \in Of(q) : f.insert_val < e.insert_val
        BY <2>2, <2>11
      <4> HIDE DEF Of
      <4>4. InInsertOrder(Of(q) \cup {e}) = Append(InInsertOrder(Of(q)), t)
        BY <2>2, <4>2, <4>3, LastInserted
      <4>5. QED BY <3>1, <3>2, <3>3, <4>1, <4>4
    <3>4. CASE q # p
      <4>1. {f \in Range(r) : f.priority = q} = Of(q)
        BY <2>2, <2>9, <3>4
      <4>2. QED BY <3>1, <3>2, <3>4, <4>1
    <3>5. QED BY <3>3, <3>4
  <2>15. QED BY <1>3, <1>5, <2>12, <2>13, <2>14 DEF Abstract!Insert, n
<1>6. QED BY <1>4, <1>5

LEMMA PopStep ==
  ASSUME HeapInv, HEAP_POP
  PROVE  HeapInv' /\ Abstract!Pop
<1> DEFINE n == Count(heap_array)  e == heap_array[0]
           h == [i \in 0 .. n - 2 |-> IF i = 0 THEN heap_array[n - 1] ELSE heap_array[i]]
           r == heap_array'
<1>1. n \in 0 .. Cap /\ heap_array \in Heaps(n) /\ global_insertion_count \in Nat
  BY HeapAssumption, HeapCount DEF HeapInv
<1>2. /\ DOMAIN heap_array = 0 .. n - 1 /\ IsFiniteSet(Range(heap_array))
      /\ Range(heap_array) = {heap_array[k] : k \in 0 .. n - 1}
      /\ Range(heap_array) \in SUBSET HeapEntries
  BY <1>1, HeapCount
<1>3. CASE n = 0
  <2>1. popped' = None /\ UNCHANGED <<heap_array, global_insertion_count>>
    BY <1>3 DEF HEAP_POP
  <2>2. HeapInv'
    BY <2>1 DEF HeapInv, Ordered, Distinct, Range
  <2>3. UNCHANGED <<[q \in Prios |-> InInsertOrder(EntriesOf(q))], Count(heap_array)>>
    BY <2>1 DEF EntriesOf, InInsertOrder, Count
  <2>4. QED BY <1>3, <2>1, <2>2, <2>3 DEF Abstract!Pop
<1>4. CASE n > 0
  <2>1. /\ popped' = e.td /\ UNCHANGED global_insertion_count
        /\ r = IF n = 1 THEN [i \in {} |-> None] ELSE heapify_top_bottom(h, 0)
    BY <1>4 DEF HEAP_POP
  <2> HIDE DEF n, e, r, h
  <2>2. n - 1 \in Nat /\ n - 1 \in 0 .. Cap /\ n - 1 \in 0 .. n - 1 /\ 0 \in 0 .. n - 1
    BY <1>1, <1>4, HeapAssumption
  <2>3. e \in Range(heap_array) /\ e \in HeapEntries
    BY <1>2, <2>2 DEF e
  <2>4. r \in Heaps(n - 1) /\ Ordered(r) /\ Distinct(r) /\ Range(r) = Range(heap_array) \ {e}
    <3>1. \A i, j \in 0 .. n - 1 : heap_array[i] = heap_array[j] => i = j
      BY <1>2 DEF HeapInv, Distinct
    <3>2. CASE n = 1
      <4>1. r = [i \in {} |-> None] /\ 0 .. n - 1 - 1 = {} /\ 0 .. n - 1 = {0}
        BY <2>1, <3>2
      <4>2. r \in Heaps(n - 1) /\ Range(r) = {}
        BY <4>1 DEF Heaps, Range
      <4>3. Range(heap_array) = {e}
        BY <1>2, <4>1 DEF e
      <4>4. Ordered(r) /\ Distinct(r)
        BY <4>1 DEF Ordered, Distinct
      <4>5. QED BY <4>2, <4>3, <4>4
    <3>3. CASE n # 1
      <4>1. r = heapify_top_bottom(h, 0) /\ n - 2 \in Nat /\ n - 1 - 1 = n - 2 /\ 0 \in 0 .. n - 1 - 1
        BY <1>1, <1>4, <2>1, <3>3
      <4>2. /\ h \in Heaps(n - 1) /\ DOMAIN h = 0 .. n - 2
            /\ \A k \in 0 .. n - 2 : h[k] = IF k = 0 THEN heap_array[n - 1] ELSE heap_array[k]
        BY <1>1, <4>1 DEF h, Heaps
      <4>3. OrderedBelow(h, 0)
        <5>1. ASSUME NEW i \in 0 .. n - 2, i > 0, Parent(i) # 0
              PROVE  ~Before(h[i], h[Parent(i)])
          <6>1. Parent(i) \in 0 .. n - 2 /\ i \in 0 .. n - 1
            BY <1>1, <5>1 DEF Parent
          <6>2. h[i] = heap_array[i] /\ h[Parent(i)] = heap_array[Parent(i)]
            BY <4>2, <5>1, <6>1
          <6>3. QED BY <1>2, <5>1, <6>1, <6>2 DEF HeapInv, Ordered
        <5>2. QED BY <4>2, <5>1 DEF OrderedBelow
      <4>4. r \in Heaps(n - 1) /\ Ordered(r) /\ Rearranged(r, h)
        BY <2>2, <4>1, <4>2, <4>3, DownSorts
      <4>5. Distinct(h)
        <5> SUFFICES ASSUME NEW i \in 0 .. n - 2, NEW j \in 0 .. n - 2, h[i].insert_val = h[j].insert_val
                     PROVE  i = j
          BY <4>2 DEF Distinct
        <5> DEFINE at(k) == IF k = 0 THEN n - 1 ELSE k
        <5>1. \A k \in 0 .. n - 2 : at(k) \in 0 .. n - 1 /\ h[k] = heap_array[at(k)]
          BY <1>1, <4>1, <4>2
        <5>2. at(i) = at(j)
          BY <1>2, <5>1 DEF HeapInv, Distinct
        <5>3. QED BY <1>1, <4>1, <5>2
      <4>6. Range(h) = Range(heap_array) \ {e}
        <5>1. Range(h) = {h[k] : k \in 0 .. n - 2}
          BY <4>2 DEF Range
        <5>2. Range(h) \subseteq Range(heap_array) \ {e}
          <6> SUFFICES ASSUME NEW k \in 0 .. n - 2
                       PROVE  h[k] \in Range(heap_array) /\ h[k] # e
            BY <5>1
          <6>1. PICK l \in 0 .. n - 1 : h[k] = heap_array[l] /\ l # 0
            <7>1. CASE k = 0
              BY <1>1, <2>2, <4>1, <4>2, <7>1
            <7>2. CASE k # 0
              <8>1. k \in 0 .. n - 1
                BY <1>1, <4>1
              <8>2. QED BY <4>2, <7>2, <8>1
            <7>3. QED BY <7>1, <7>2
          <6>2. QED BY <1>2, <2>2, <3>1, <6>1 DEF e
        <5>3. Range(heap_array) \ {e} \subseteq Range(h)
          <6> SUFFICES ASSUME NEW l \in 0 .. n - 1, heap_array[l] # e
                       PROVE  heap_array[l] \in Range(h)
            BY <1>2
          <6>1. l # 0
            BY DEF e
          <6>2. CASE l = n - 1
            BY <4>1, <4>2, <5>1, <6>2
          <6>3. CASE l # n - 1
            <7>1. l \in 0 .. n - 2
              BY <1>1, <6>3
            <7>2. QED BY <4>2, <5>1, <6>1, <7>1
          <6>4. QED BY <6>2, <6>3
        <5>4. QED BY <5>2, <5>3
      <4>7. QED BY <4>4, <4>5, <4>6 DEF Rearranged
    <3>4. QED BY <3>2, <3>3
  <2>5. HeapInv'
    <3>1. \A f \in Range(r) : f.insert_val < global_insertion_count
      BY <2>4 DEF HeapInv
    <3>2. QED BY <1>1, <2>1, <2>2, <2>4, <3>1 DEF HeapInv, r
  <2>6. Count(heap_array') = n - 1
    BY <2>2, <2>4, HeapCount DEF r
  <2>7. ASSUME NEW f \in Range(heap_array), f # e
        PROVE  /\ ~(f.priority < e.priority)
               /\ f.priority = e.priority => e.insert_val < f.insert_val
    <3>1. PICK i \in 0 .. n - 1 : f = heap_array[i]
      BY <1>2
    <3>2. i # 0
      BY <2>7, <3>1 DEF e
    <3>3. ~Before(f, e)
      BY <1>1, <3>1, RootFirst DEF HeapInv, e
    <3>4. f.insert_val # e.insert_val
      BY <1>2, <2>2, <3>1, <3>2 DEF HeapInv, Distinct, e
    <3>5. f.insert_val \in Nat /\ e.insert_val \in Nat /\ f.priority \in Nat /\ e.priority \in Nat
      BY <1>2, <2>3, HeapAssumption DEF HeapEntries
    <3>6. QED BY <3>3, <3>4, <3>5 DEF Before
  <2> DEFINE Of(q) == {f \in Range(heap_array) : f.priority = q}
             Q(q) == InInsertOrder(EntriesOf(q))
  <2>8. \A q \in Prios : IsFiniteSet(Of(q)) /\ Of(q) \in SUBSET HeapEntries
    BY <1>2, FS_Subset
  <2>9. \A q \in Prios : Q(q) = InInsertOrder(Of(q))
    BY DEF EntriesOf
  <2>10. \A q \in Prios : Q(q)' = InInsertOrder({f \in Range(r) : f.priority = q})
    BY DEF EntriesOf, InInsertOrder, r
  <2> PICK p \in Prios : p = e.priority
    BY <2>3 DEF HeapEntries
  <2>11. p \in Prios /\ e \in Of(p)
    BY <2>3
  <2>12. \A f \in Of(p) : f # e => e.insert_val < f.insert_val
    BY <2>7
  <2>13. \A q \in Prios : q < p => Q(q) = <<>>
    <3> TAKE q \in Prios
    <3> HAVE q < p
    <3>1. p \in Nat /\ q \in Nat
      BY <2>11, HeapAssumption
    <3>2. Of(q) = {}
      BY <2>7, <3>1
    <3>3. Cardinality(Of(q)) = 0
      BY <3>2, FS_EmptySet
    <3> HIDE DEF Of
    <3>4. InInsertOrder(Of(q)) = <<>>
      BY <3>3 DEF InInsertOrder
    <3>5. QED BY <2>9, <3>4
  <2>14. {f \in Range(r) : f.priority = p} = Of(p) \ {e}
    BY <2>4
  <2>15. \A q \in Prios : q # p => {f \in Range(r) : f.priority = q} = Of(q)
    BY <2>4
  <2> HIDE DEF Of
  <2>16. /\ InInsertOrder(Of(p)) # <<>> /\ Head(InInsertOrder(Of(p))) = e.td
         /\ InInsertOrder(Of(p) \ {e}) = Tail(InInsertOrder(Of(p)))
    BY <2>8, <2>11, <2>12, FirstInserted
  <2>17. Q(p) # <<>> /\ Head(Q(p)) = e.td /\ Q(p)' = Tail(Q(p))
    BY <2>9, <2>10, <2>11, <2>14, <2>16
  <2>18. \A q \in Prios : q # p => Q(q)' = Q(q)
    BY <2>9, <2>10, <2>15
  <2>19. \A q \in Prios : Q(q)' = IF q = p THEN Tail(Q(q)) ELSE Q(q)
    BY <2>17, <2>18
  <2>20. QED BY <2>1, <2>5, <2>6, <2>11, <2>13, <2>17, <2>19 DEF Abstract!Pop, n
<1>5. QED BY <1>1, <1>3, <1>4

\* HEAP_INSERT and HEAP_POP keep the heap one queue for each priority: what
\* k_sched_get_next takes from the heap is what has been ready for longest at
\* the most urgent priority.
THEOREM HeapImplementsQueues == HeapSpec => ImplementsPrioFifo
<1>1. HeapInit => HeapInv /\ Abstract!Init
  BY HeapInitInv
<1>2. HeapInv /\ [HeapNext]_heapvars =>
        HeapInv' /\ [Abstract!Next]_<<[p \in Prios |-> InInsertOrder(EntriesOf(p))], Count(heap_array), popped>>
  <2> SUFFICES ASSUME HeapInv, [HeapNext]_heapvars
               PROVE  HeapInv' /\ [Abstract!Next]_<<[p \in Prios |-> InInsertOrder(EntriesOf(p))],
                                                     Count(heap_array), popped>>
    OBVIOUS
  <2>1. CASE HEAP_POP
    <3>1. HeapInv' /\ Abstract!Pop
      BY <2>1, PopStep
    <3>2. QED BY <3>1 DEF Abstract!Next
  <2>2. CASE \E t \in Tds, p \in Prios : HEAP_INSERT(t, p)
    <3>1. PICK t \in Tds, p \in Prios : HEAP_INSERT(t, p)
      BY <2>2
    <3>2. HeapInv' /\ Abstract!Insert(t, p)
      BY <3>1, InsertStep
    <3>3. QED BY <3>2 DEF Abstract!Next
  <2>3. CASE UNCHANGED heapvars
    <3>1. heap_array' = heap_array /\ global_insertion_count' = global_insertion_count /\ popped' = popped
      BY <2>3 DEF heapvars
    <3>2. HeapInv'
      BY <3>1 DEF HeapInv, Ordered, Distinct, Range
    <3>3. UNCHANGED <<[p \in Prios |-> InInsertOrder(EntriesOf(p))], Count(heap_array), popped>>
      BY <3>1 DEF EntriesOf, InInsertOrder, Count
    <3>4. QED BY <3>2, <3>3
  <2>4. QED BY <2>1, <2>2, <2>3 DEF HeapNext
<1>3. HeapInv /\ [HeapNext]_heapvars => HeapInv'
  BY <1>2
<1>4. HeapInv /\ [HeapNext]_heapvars =>
        [Abstract!Next]_<<[p \in Prios |-> InInsertOrder(EntriesOf(p))], Count(heap_array), popped>>
  BY <1>2
<1>5. HeapInit => HeapInv
  BY <1>1
<1>6. HeapInit => Abstract!Init
  BY <1>1
<1>7. QED BY <1>3, <1>4, <1>5, <1>6, PTL DEF HeapSpec, ImplementsPrioFifo, Abstract!Spec

-----------------------------------------------------------------------------
(* lib/libbase/printf.c: a directive prints what the standard says, fills  *)
(* its field and leaves its buffer terminated, for every argument, width,  *)
(* precision and room.  First, sequences of numbers and the digits.        *)

LEMMA SeqIs ==
  ASSUME NEW n \in Nat, NEW f, f \in [1 .. n -> Nat]
  PROVE  f \in Seq(Nat) /\ Len(f) = n
<1>1. f \in Seq(Nat)
  OBVIOUS
<1>2. QED BY <1>1

LEMMA TimesIs ==
  ASSUME NEW n \in Int, NEW c \in Nat
  PROVE  /\ Times(n, c) \in Seq(Nat) /\ Len(Times(n, c)) = Most(n, 0) /\ Most(n, 0) \in Nat
         /\ \A i \in 1 .. Most(n, 0) : Times(n, c)[i] = c
         /\ n <= 0 => Times(n, c) = <<>>
<1> DEFINE m == Most(n, 0)
<1>1. m \in Nat /\ (n <= 0 => m = 0)
  BY DEF Most
<1>2. Times(n, c) = [i \in 1 .. m |-> c]
  BY DEF Times
<1> HIDE DEF m
<1>3. [i \in 1 .. m |-> c] \in [1 .. m -> Nat]
  OBVIOUS
<1>4. Times(n, c) \in Seq(Nat) /\ Len(Times(n, c)) = m
  BY <1>1, <1>2, <1>3, SeqIs
<1>5. \A i \in 1 .. m : Times(n, c)[i] = c
  BY <1>2
<1>6. n <= 0 => Times(n, c) = <<>>
  BY <1>1, <1>4, EmptySeq
<1>7. QED BY <1>1, <1>4, <1>5, <1>6 DEF m

\* One character.
LEMMA OneIs ==
  ASSUME NEW c \in Nat
  PROVE  /\ <<c>> \in Seq(Nat) /\ Len(<<c>>) = 1 /\ <<c>>[1] = c
         /\ Times(1, c) = <<c>>
<1>1. <<c>> \in Seq(Nat) /\ Len(<<c>>) = 1 /\ <<c>>[1] = c
  OBVIOUS
<1>2. Most(1, 0) = 1
  BY DEF Most
<1>3. Times(1, c) \in Seq(Nat) /\ Len(Times(1, c)) = 1 /\ Times(1, c)[1] = c
  <2> DEFINE n == 1
  <2>1. n \in Int /\ Most(n, 0) = 1 /\ 1 \in 1 .. 1
    BY <1>2
  <2> HIDE DEF n
  <2>2. Times(n, c) \in Seq(Nat) /\ Len(Times(n, c)) = 1 /\ Times(n, c)[1] = c
    BY <2>1, TimesIs
  <2>3. QED BY <2>2 DEF n
<1>4. Times(1, c) = <<c>>
  BY <1>1, <1>3, SeqEqual
<1>5. QED BY <1>1, <1>4

LEMMA ReverseIs ==
  ASSUME NEW s \in Seq(Nat)
  PROVE  /\ Reverse(s) \in Seq(Nat) /\ Len(Reverse(s)) = Len(s) /\ Len(s) \in Nat
         /\ \A i \in 1 .. Len(s) : Reverse(s)[i] = s[Len(s) - i + 1]
<1> DEFINE n == Len(s)
<1>1. n \in Nat
  OBVIOUS
<1>2. \A i \in 1 .. n : (n - i) + 1 \in 1 .. n /\ s[(n - i) + 1] \in Nat
  OBVIOUS
<1>3. Reverse(s) = [i \in 1 .. n |-> s[(n - i) + 1]]
  BY DEF Reverse
<1> HIDE DEF n
<1>4. [i \in 1 .. n |-> s[(n - i) + 1]] \in [1 .. n -> Nat]
  BY <1>2
<1>5. Reverse(s) \in Seq(Nat) /\ Len(Reverse(s)) = n
  BY <1>1, <1>3, <1>4, SeqIs
<1>6. \A i \in 1 .. n : Reverse(s)[i] = s[(n - i) + 1]
  BY <1>3
<1>7. QED BY <1>1, <1>5, <1>6 DEF n

LEMMA ReverseJoin ==
  ASSUME NEW s \in Seq(Nat), NEW t \in Seq(Nat)
  PROVE  Reverse(s \o t) = Reverse(t) \o Reverse(s)
<1> DEFINE m == Len(s)  n == Len(t)  st == s \o t  x == Reverse(st)
           u == Reverse(s)  v == Reverse(t)  y == v \o u
<1>1. /\ m \in Nat /\ n \in Nat /\ st \in Seq(Nat) /\ Len(st) = m + n
      /\ \A i \in 1 .. m + n : st[i] = IF i <= m THEN s[i] ELSE t[i - m]
  BY ConcatProperties
<1>2. /\ u \in Seq(Nat) /\ Len(u) = m
      /\ \A i \in 1 .. m : u[i] = s[m - i + 1]
  BY ReverseIs
<1>3. /\ v \in Seq(Nat) /\ Len(v) = n
      /\ \A i \in 1 .. n : v[i] = t[n - i + 1]
  BY ReverseIs
<1> HIDE DEF m, n, st, u, v
<1>4. /\ x \in Seq(Nat) /\ Len(x) = m + n
      /\ \A i \in 1 .. m + n : x[i] = st[(m + n) - i + 1]
  <2>1. /\ x \in Seq(Nat) /\ Len(x) = Len(st)
        /\ \A i \in 1 .. Len(st) : x[i] = st[Len(st) - i + 1]
    BY <1>1, ReverseIs
  <2>2. Len(st) = m + n
    BY <1>1
  <2> HIDE DEF x
  <2>3. QED BY <2>1, <2>2
<1>5. /\ y \in Seq(Nat) /\ Len(y) = n + m
      /\ \A i \in 1 .. n + m : y[i] = IF i <= n THEN v[i] ELSE u[i - n]
  <2>1. /\ y \in Seq(Nat) /\ Len(y) = Len(v) + Len(u)
        /\ \A i \in 1 .. Len(v) + Len(u) : y[i] = IF i <= Len(v) THEN v[i] ELSE u[i - Len(v)]
    <3>1. v \in Seq(Nat) /\ u \in Seq(Nat)
      BY <1>2, <1>3
    <3>2. QED BY <3>1, ConcatProperties, Zenon
  <2>2. Len(v) = n /\ Len(u) = m
    BY <1>2, <1>3
  <2> HIDE DEF y
  <2>3. QED BY <2>1, <2>2
<1> HIDE DEF x, y
<1>6. ASSUME NEW i \in 1 .. m + n
      PROVE  x[i] = y[i]
  <2> DEFINE k == (m + n) - i + 1
  <2>1. k \in 1 .. m + n
    BY <1>1
  <2>2. x[i] = IF k <= m THEN s[k] ELSE t[k - m]
    BY <1>1, <1>4, <2>1
  <2>3. i \in 1 .. n + m /\ y[i] = IF i <= n THEN v[i] ELSE u[i - n]
    <3>1. i \in 1 .. n + m
      BY <1>1
    <3>2. QED BY <1>5, <3>1
  <2> HIDE DEF k
  <2>4. CASE i <= n
    <3>1. i \in 1 .. n /\ ~(k <= m) /\ k - m = n - i + 1
      BY <1>1, <2>4 DEF k
    <3>2. y[i] = t[n - i + 1]
      BY <1>3, <2>3, <3>1, <2>4
    <3>3. QED BY <2>2, <3>1, <3>2
  <2>5. CASE ~(i <= n)
    <3>1. i - n \in 1 .. m /\ k <= m /\ m - (i - n) + 1 = k
      BY <1>1, <2>5 DEF k
    <3>2. y[i] = u[i - n] /\ u[i - n] = s[m - (i - n) + 1]
      BY <1>2, <2>3, <2>5, <3>1
    <3>3. QED BY <2>2, <3>1, <3>2
  <2>6. QED BY <2>4, <2>5
<1>7. Len(x) = Len(y) /\ \A i \in 1 .. Len(x) : x[i] = y[i]
  BY <1>1, <1>4, <1>5, <1>6
<1>8. x = y
  BY <1>4, <1>5, <1>7, SeqEqual
<1>9. QED BY <1>8 DEF x, y, st, u, v

LEMMA ReverseTimes ==
  ASSUME NEW n \in Int, NEW c \in Nat
  PROVE  Reverse(Times(n, c)) = Times(n, c)
<1> DEFINE m == Most(n, 0)  t == Times(n, c)
<1>1. m \in Nat /\ t \in Seq(Nat) /\ Len(t) = m /\ \A i \in 1 .. m : t[i] = c
  BY TimesIs
<1>2. Reverse(t) \in Seq(Nat) /\ Len(Reverse(t)) = m /\ \A i \in 1 .. m : Reverse(t)[i] = t[m - i + 1]
  <2> HIDE DEF m, t
  <2>1. /\ Reverse(t) \in Seq(Nat) /\ Len(Reverse(t)) = Len(t)
        /\ \A i \in 1 .. Len(t) : Reverse(t)[i] = t[Len(t) - i + 1]
    BY <1>1, ReverseIs, Zenon
  <2>2. QED BY <1>1, <2>1, Zenon
<1> HIDE DEF m, t
<1>3. \A i \in 1 .. m : m - i + 1 \in 1 .. m
  BY <1>1
<1>4. \A i \in 1 .. m : Reverse(t)[i] = t[i]
  BY <1>1, <1>2, <1>3
<1>5. Reverse(t) = t
  BY <1>1, <1>2, <1>4, SeqEqual
<1>6. QED BY <1>5 DEF t

LEMMA PairIs ==
  ASSUME NEW c \in Nat, NEW d \in Nat
  PROVE  <<c>> \o <<d>> = <<c, d>>
<1>1. <<c>> \in Seq(Nat) /\ <<d>> \in Seq(Nat) /\ Len(<<c>>) = 1 /\ Len(<<d>>) = 1
  BY OneIs
<1> DEFINE x == <<c>> \o <<d>>  y == <<c, d>>
<1>2. x \in Seq(Nat) /\ Len(x) = 2 /\ x[1] = c /\ x[2] = d
  OBVIOUS
<1>3. y \in Seq(Nat) /\ Len(y) = 2 /\ y[1] = c /\ y[2] = d
  OBVIOUS
<1> HIDE DEF x, y
<1>4. \A i \in 1 .. 2 : x[i] = y[i]
  BY <1>2, <1>3
<1>5. x = y
  BY <1>2, <1>3, <1>4, SeqEqual
<1>6. QED BY <1>5 DEF x, y

LEMMA ReverseFew ==
  ASSUME NEW a \in Nat, NEW b \in Nat
  PROVE  Reverse(<<>>) = <<>> /\ Reverse(<<a>>) = <<a>> /\ Reverse(<<a, b>>) = <<b, a>>
<1>1. Reverse(<<a>>) = <<a>>
  BY ReverseTimes, OneIs
<1>2. \A c, d \in Nat : <<c>> \o <<d>> = <<c, d>>
  BY PairIs
<1>3. Reverse(<<b>>) = <<b>>
  BY ReverseTimes, OneIs
<1>4. Reverse(<<a, b>>) = <<b, a>>
  <2>1. <<a>> \in Seq(Nat) /\ <<b>> \in Seq(Nat)
    BY OneIs
  <2>2. Reverse(<<a>> \o <<b>>) = Reverse(<<b>>) \o Reverse(<<a>>)
    BY <2>1, ReverseJoin
  <2>3. <<a>> \o <<b>> = <<a, b>> /\ <<b>> \o <<a>> = <<b, a>>
    BY <1>2
  <2>4. Reverse(<<a, b>>) = <<b>> \o <<a>>
    BY <1>1, <1>3, <2>2, <2>3
  <2>5. QED BY <2>3, <2>4
<1>5. Times(0, a) = <<>>
  BY TimesIs
<1>6. Reverse(<<>>) = <<>>
  BY <1>5, ReverseTimes
<1>7. QED BY <1>1, <1>4, <1>6

\* Two runs of the same character are one.
LEMMA TimesJoin ==
  ASSUME NEW a \in Nat, NEW b \in Nat, NEW c \in Nat
  PROVE  Times(a, c) \o Times(b, c) = Times(a + b, c)
<1>1. Most(a, 0) = a /\ Most(b, 0) = b /\ Most(a + b, 0) = a + b
  BY DEF Most
<1> DEFINE s == Times(a, c)  t == Times(b, c)  u == Times(a + b, c)
<1>2. /\ s \in Seq(Nat) /\ Len(s) = a /\ t \in Seq(Nat) /\ Len(t) = b /\ u \in Seq(Nat) /\ Len(u) = a + b
      /\ \A i \in 1 .. a : s[i] = c
      /\ \A i \in 1 .. b : t[i] = c
      /\ \A i \in 1 .. a + b : u[i] = c
  <2>1. ASSUME NEW n \in Nat, Most(n, 0) = n
        PROVE  /\ Times(n, c) \in Seq(Nat) /\ Len(Times(n, c)) = n
               /\ \A i \in 1 .. n : Times(n, c)[i] = c
    <3> DEFINE x == Times(n, c)
    <3>1. /\ x \in Seq(Nat) /\ Len(x) = Most(n, 0)
          /\ \A i \in 1 .. Most(n, 0) : x[i] = c
      <4>1. n \in Int
        OBVIOUS
      <4>2. QED BY <4>1, TimesIs
    <3> HIDE DEF x
    <3>2. x \in Seq(Nat) /\ Len(x) = n /\ \A i \in 1 .. n : x[i] = c
      BY <2>1, <3>1
    <3>3. QED BY <3>2 DEF x
  <2>2. a + b \in Nat
    OBVIOUS
  <2>3. QED BY <1>1, <2>1, <2>2
<1> HIDE DEF s, t, u
<1>3. /\ s \o t \in Seq(Nat) /\ Len(s \o t) = a + b
      /\ \A i \in 1 .. a + b : (s \o t)[i] = IF i <= a THEN s[i] ELSE t[i - a]
  <2>1. /\ s \o t \in Seq(Nat) /\ Len(s \o t) = Len(s) + Len(t)
        /\ \A i \in 1 .. Len(s) + Len(t) : (s \o t)[i] = IF i <= Len(s) THEN s[i] ELSE t[i - Len(s)]
    BY <1>2, ConcatProperties, Zenon
  <2>2. QED BY <1>2, <2>1, Zenon
<1>4. \A i \in 1 .. a + b : (s \o t)[i] = u[i]
  <2> TAKE i \in 1 .. a + b
  <2>1. CASE i <= a
    BY <1>2, <1>3, <2>1
  <2>2. CASE ~(i <= a)
    <3>1. i - a \in 1 .. b
      BY <2>2
    <3>2. QED BY <1>2, <1>3, <2>2, <3>1
  <2>3. QED BY <2>1, <2>2
<1>5. s \o t = u
  BY <1>2, <1>3, <1>4, SeqEqual
<1>6. QED BY <1>5 DEF s, t, u

-----------------------------------------------------------------------------
(* Digits                                                                  *)

SomeDigits == Seq(Nat) \ {<<>>}

IsDigits(f, base, k) ==
  f = [n \in 0 .. k |-> IF n < base THEN <<n>> ELSE <<n % base>> \o f[n \div base]]

\* What is left after a division is less.
LEMMA DivisionShrinks ==
  ASSUME NEW base \in Nat, base > 1, NEW n \in Nat, n >= base
  PROVE  n \div base \in Nat /\ n \div base < n /\ n % base \in Nat
<1> DEFINE q == n \div base  r == n % base
<1>1. q \in Nat /\ r \in 0 .. base - 1 /\ n = q * base + r
  <2>1. base \in Nat \ {0} /\ n \in Int /\ n >= 0
    OBVIOUS
  <2>2. QED BY <2>1, Quotient
<1> HIDE DEF q, r
<1>2. q < n
  <2>1. CASE q = 0
    BY <2>1
  <2>2. CASE q # 0
    <3>1. PICK b \in Nat : base = 2 + b
      <4>1. base - 2 \in Nat /\ base = 2 + (base - 2)
        OBVIOUS
      <4>2. QED BY <4>1
    <3>2. q * base = q + q + q * b /\ q * b \in Nat
      BY <1>1, <3>1
    <3>3. QED BY <1>1, <2>2, <3>2
  <2>3. QED BY <2>1, <2>2
<1>3. QED BY <1>1, <1>2 DEF q, r

LEMMA ConsIs ==
  ASSUME NEW c \in Nat, NEW s \in Seq(Nat)
  PROVE  <<c>> \o s \in SomeDigits
<1>1. <<c>> \in Seq(Nat) /\ <<c>> # <<>>
  BY OneIs, EmptySeq
<1>2. <<c>> \o s \in Seq(Nat)
  BY <1>1, ConcatProperties
<1>3. <<c>> \o s # <<>>
  BY <1>1, ConcatEqualIffEmpty
<1>4. QED BY <1>2, <1>3 DEF SomeDigits

\* There is a function as the loop of _ntoa_long defines it.
LEMMA DigitsExist ==
  ASSUME NEW base \in Nat, base > 1, NEW k \in Nat
  PROVE  \E f \in [0 .. k -> SomeDigits] : IsDigits(f, base, k)
<1> DEFINE Is(m) == \E f \in [0 .. m -> SomeDigits] : IsDigits(f, base, m)
           T == {m \in Nat : ~Is(m)}
<1>1. ASSUME NEW m \in T
      PROVE  m - 1 \in T
  <2>1. m \in Nat /\ ~Is(m)
    OBVIOUS
  <2>2. m # 0
    <3> SUFFICES ASSUME m = 0
                 PROVE  FALSE
      OBVIOUS
    <3> DEFINE f == [n \in 0 .. 0 |-> <<n>>]
    <3>1. \A n \in 0 .. 0 : n < base /\ <<n>> \in SomeDigits
      <4> TAKE n \in 0 .. 0
      <4>1. n \in Nat
        OBVIOUS
      <4>2. <<n>> \in Seq(Nat) /\ <<n>> # <<>>
        BY <4>1, OneIs, EmptySeq
      <4>3. QED BY <4>2 DEF SomeDigits
    <3>2. f \in [0 .. 0 -> SomeDigits]
      BY <3>1
    <3>3. f = [n \in 0 .. 0 |-> IF n < base THEN <<n>> ELSE <<n % base>> \o f[n \div base]]
      <4> DEFINE G(h) == [n \in 0 .. 0 |-> IF n < base THEN <<n>> ELSE <<n % base>> \o h[n \div base]]
      <4>1. G(f) = [n \in 0 .. 0 |-> <<n>>]
        BY <3>1
      <4>2. QED BY <4>1
    <3> HIDE DEF f
    <3>4. IsDigits(f, base, 0)
      BY <3>3 DEF IsDigits
    <3>5. QED BY <2>1, <3>2, <3>4
  <2>3. SUFFICES ASSUME Is(m - 1)
                 PROVE  FALSE
    BY <2>1, <2>2
  <2>4. PICK f \in [0 .. m - 1 -> SomeDigits] : IsDigits(f, base, m - 1)
    BY <2>3
  <2> DEFINE u == [n \in 0 .. m |-> IF n < base THEN <<n>> ELSE <<n % base>> \o f[n \div base]]
  <2>5. \A n \in 0 .. m : n >= base => n \div base \in 0 .. m - 1 /\ n % base \in Nat
    <3> TAKE n \in 0 .. m
    <3> HAVE n >= base
    <3>1. n \div base \in Nat /\ n \div base < n /\ n % base \in Nat
      <4>1. n \in Nat
        BY <2>1
      <4>2. QED BY <4>1, DivisionShrinks
    <3>2. QED BY <2>1, <3>1
  <2>6. u \in [0 .. m -> SomeDigits]
    <3>1. ASSUME NEW n \in 0 .. m
          PROVE  (IF n < base THEN <<n>> ELSE <<n % base>> \o f[n \div base]) \in SomeDigits
      <4>1. CASE n < base
        <5>1. <<n>> \in Seq(Nat) /\ <<n>> # <<>>
          BY OneIs, EmptySeq
        <5>2. QED BY <4>1, <5>1 DEF SomeDigits
      <4>2. CASE ~(n < base)
        <5>1. n \div base \in 0 .. m - 1 /\ n % base \in Nat
          <6>1. n >= base
            BY <2>1, <4>2
          <6>2. QED BY <2>5, <6>1, Zenon
        <5>2. f[n \div base] \in Seq(Nat)
          BY <2>4, <5>1 DEF SomeDigits
        <5>3. <<n % base>> \o f[n \div base] \in SomeDigits
          BY <5>1, <5>2, ConsIs
        <5>4. QED BY <4>2, <5>3
      <4>3. QED BY <4>1, <4>2
    <3>2. QED BY <3>1
  <2>7. \A n \in 0 .. m - 1 : u[n] = f[n]
    <3>1. f = [n \in 0 .. m - 1 |-> IF n < base THEN <<n>> ELSE <<n % base>> \o f[n \div base]]
      BY <2>4 DEF IsDigits
    <3> TAKE n \in 0 .. m - 1
    <3>2. f[n] = IF n < base THEN <<n>> ELSE <<n % base>> \o f[n \div base]
      BY <3>1
    <3>3. n \in 0 .. m
      BY <2>1
    <3>4. QED BY <3>2, <3>3
  <2>8. u = [n \in 0 .. m |-> IF n < base THEN <<n>> ELSE <<n % base>> \o f[n \div base]]
    OBVIOUS
  <2> HIDE DEF u
  <2>9. \A n \in 0 .. m : n >= base => u[n \div base] = f[n \div base]
    BY <2>5, <2>7
  <2>10. u = [n \in 0 .. m |-> IF n < base THEN <<n>> ELSE <<n % base>> \o u[n \div base]]
    <3>1. \A n \in 0 .. m : (IF n < base THEN <<n>> ELSE <<n % base>> \o f[n \div base])
                              = (IF n < base THEN <<n>> ELSE <<n % base>> \o u[n \div base])
      BY <2>9
    <3>2. QED BY <2>8, <3>1
  <2>11. IsDigits(u, base, m)
    BY <2>10 DEF IsDigits
  <2>12. QED BY <2>1, <2>6, <2>11
<1>2. T = {}
  <2>1. T \in SUBSET Nat
    OBVIOUS
  <2> HIDE DEF T
  <2>2. QED BY <1>1, <2>1, Descent
<1>3. QED BY <1>2

\* A number has digits, and 0 has the digit 0.
LEMMA DigitsAre ==
  ASSUME NEW base \in Nat, base > 1, NEW v \in Nat
  PROVE  /\ DigitsOf(v, base) \in Seq(Nat) /\ Len(DigitsOf(v, base)) \in Nat /\ Len(DigitsOf(v, base)) >= 1
         /\ v = 0 => DigitsOf(v, base) = <<0>>
<1> DEFINE F == CHOOSE f : IsDigits(f, base, v)
<1>1. IsDigits(F, base, v)
  BY DigitsExist
<1>2. DigitsOf(v, base) = F[v]
  BY DEF DigitsOf, IsDigits
<1> HIDE DEF F
<1>3. \A n \in 0 .. v : F[n] = IF n < base THEN <<n>> ELSE <<n % base>> \o F[n \div base]
  <2>1. F = [n \in 0 .. v |-> IF n < base THEN <<n>> ELSE <<n % base>> \o F[n \div base]]
    BY <1>1 DEF IsDigits
  <2>2. QED BY <2>1
<1>4. \A n \in 0 .. v : F[n] \in SomeDigits
  <2> DEFINE B == {n \in 0 .. v : F[n] \notin SomeDigits}
  <2>1. SUFFICES ASSUME B # {}
                 PROVE  FALSE
    OBVIOUS
  <2>2. B \in SUBSET Nat
    OBVIOUS
  <2>3. PICK n \in B : \A k \in B : n <= k
    BY <2>1, <2>2, SmallestOf
  <2>4. n \in 0 .. v /\ F[n] \notin SomeDigits
    OBVIOUS
  <2>5. CASE n < base
    <3>1. <<n>> \in Seq(Nat) /\ <<n>> # <<>>
      BY <2>4, OneIs, EmptySeq
    <3>2. F[n] = <<n>>
      BY <1>3, <2>4, <2>5
    <3>3. QED BY <2>4, <3>1, <3>2 DEF SomeDigits
  <2>6. CASE ~(n < base)
    <3>1. n \div base \in Nat /\ n \div base < n /\ n % base \in Nat
      BY <2>4, <2>6, DivisionShrinks
    <3>2. n \div base \in 0 .. v /\ n \div base \notin B
      BY <2>3, <2>4, <3>1
    <3>3. F[n \div base] \in Seq(Nat)
      BY <3>2 DEF SomeDigits
    <3>4. <<n % base>> \o F[n \div base] \in SomeDigits
      BY <3>1, <3>3, ConsIs
    <3>5. F[n] = <<n % base>> \o F[n \div base]
      BY <1>3, <2>4, <2>6
    <3>6. QED BY <2>4, <3>4, <3>5
  <2>7. QED BY <2>5, <2>6
<1>5. F[v] \in Seq(Nat) /\ F[v] # <<>>
  <2>1. v \in 0 .. v
    OBVIOUS
  <2>2. QED BY <1>4, <2>1 DEF SomeDigits
<1>6. Len(F[v]) \in Nat /\ Len(F[v]) >= 1
  BY <1>5, EmptySeq
<1>7. v = 0 => F[v] = <<0>>
  <2> HAVE v = 0
  <2>1. v \in 0 .. v /\ v < base
    OBVIOUS
  <2>2. QED BY <1>3, <2>1
<1>8. QED BY <1>2, <1>5, <1>6, <1>7

-----------------------------------------------------------------------------
(* Texts.  Sizes and concatenations stay folded: what follows needs only    *)
(* the laws below.                                                         *)

Texts == Seq(Nat)
Size(s) == Len(s)
Cat(s, t) == s \o t
Empty == <<>>
One(c) == <<c>>
First(s, n) == SubSeq(s, 1, n)

LEMMA SizeIs ==
  ASSUME NEW s \in Texts
  PROVE  Size(s) \in Nat
<1>1. Len(s) \in Nat
  BY LenProperties DEF Texts
<1>2. QED BY <1>1 DEF Size

LEMMA CatIs ==
  ASSUME NEW s \in Texts, NEW t \in Texts
  PROVE  /\ Cat(s, t) \in Texts /\ Size(Cat(s, t)) = Size(s) + Size(t)
         /\ Reverse(Cat(s, t)) = Cat(Reverse(t), Reverse(s))
<1>1. s \in Seq(Nat) /\ t \in Seq(Nat)
  BY Zenon DEF Texts
<1>2. s \o t \in Seq(Nat) /\ Len(s \o t) = Len(s) + Len(t)
  BY <1>1, ConcatProperties
<1>3. Reverse(s \o t) = Reverse(t) \o Reverse(s)
  BY <1>1, ReverseJoin
<1>4. QED BY <1>2, <1>3, Zenon DEF Cat, Texts, Size

Associative(T) == \A s, t, u \in T : Cat(Cat(s, t), u) = Cat(s, Cat(t, u))

LEMMA CatThree ==
  ASSUME NEW s \in Texts, NEW t \in Texts, NEW u \in Texts
  PROVE  Cat(Cat(s, t), u) = Cat(s, Cat(t, u))
<1>1. \A S : Associative(Seq(S))
  BY ConcatAssociative, Zenon DEF Associative, Cat
<1>2. Associative(Texts)
  BY <1>1, Zenon DEF Texts
<1>3. QED BY <1>2, Zenon DEF Associative

LEMMA EmptyIs ==
  /\ Empty \in Texts /\ Size(Empty) = 0 /\ Reverse(Empty) = Empty
  /\ \A s \in Texts : Cat(s, Empty) = s /\ Cat(Empty, s) = s
<1>1. <<>> \in Seq(Nat) /\ Len(<<>>) = 0
  BY EmptySeq
<1>2. Reverse(<<>>) = <<>>
  BY ReverseFew
<1>3. \A s \in Seq(Nat) : s \o <<>> = s /\ <<>> \o s = s
  BY ConcatEmptySeq
<1>4. QED BY <1>1, <1>2, <1>3, Zenon DEF Empty, Texts, Size, Cat

LEMMA OneText ==
  ASSUME NEW c \in Nat
  PROVE  One(c) \in Texts /\ Size(One(c)) = 1 /\ Reverse(One(c)) = One(c) /\ Times(1, c) = One(c)
<1>1. <<c>> \in Seq(Nat) /\ Len(<<c>>) = 1 /\ Times(1, c) = <<c>>
  BY OneIs
<1>2. Reverse(<<c>>) = <<c>>
  BY ReverseFew
<1>3. QED BY <1>1, <1>2, Zenon DEF One, Texts, Size

LEMMA MostIs ==
  ASSUME NEW z \in Int
  PROVE  Most(z, 0) \in Nat /\ (z >= 0 => Most(z, 0) = z) /\ (z <= 0 => Most(z, 0) = 0)
BY DEF Most

LEMMA TimesText ==
  ASSUME NEW n \in Int, NEW c \in Nat
  PROVE  /\ Times(n, c) \in Texts /\ Size(Times(n, c)) = Most(n, 0) /\ Most(n, 0) \in Nat
         /\ Reverse(Times(n, c)) = Times(n, c)
         /\ n <= 0 => Times(n, c) = Empty
<1>1. /\ Times(n, c) \in Seq(Nat) /\ Len(Times(n, c)) = Most(n, 0) /\ Most(n, 0) \in Nat
      /\ n <= 0 => Times(n, c) = <<>>
  BY TimesIs
<1>2. Reverse(Times(n, c)) = Times(n, c)
  BY ReverseTimes
<1>3. QED BY <1>1, <1>2, Zenon DEF Texts, Size, Empty

LEMMA CatTimes ==
  ASSUME NEW a \in Nat, NEW b \in Nat, NEW c \in Nat
  PROVE  Cat(Times(a, c), Times(b, c)) = Times(a + b, c)
BY TimesJoin, Zenon DEF Cat

LEMMA ReverseText ==
  ASSUME NEW s \in Texts
  PROVE  Reverse(s) \in Texts /\ Size(Reverse(s)) = Size(s)
<1>1. s \in Seq(Nat)
  BY Zenon DEF Texts
<1>2. Reverse(s) \in Seq(Nat) /\ Len(Reverse(s)) = Len(s)
  BY <1>1, ReverseIs
<1>3. QED BY <1>2, Zenon DEF Texts, Size

\* The characters at the beginning.
LEMMA Beginning ==
  ASSUME NEW s \in Texts, NEW t \in Texts
  PROVE  First(s, Size(s)) = s /\ First(Cat(s, t), Size(s)) = s
<1>1. s \in Seq(Nat) /\ t \in Seq(Nat)
  BY Zenon DEF Texts
<1>2. SubSeq(s, 1, Len(s)) = s
  BY <1>1, SubSeqFull
<1>3. Len(s) \in Nat
  BY <1>1, LenProperties
<1>4. SubSeq(s \o t, 1, Len(s)) = s
  <2>1. CASE Len(s) = 0
    <3>1. SubSeq(s \o t, 1, Len(s)) = <<>>
      BY <2>1, SubSeqEmpty
    <3>2. s = <<>>
      BY <1>1, <2>1, EmptySeq
    <3>3. QED BY <3>1, <3>2
  <2>2. CASE Len(s) # 0
    <3>1. 1 \in 1 .. Len(s) /\ Len(s) \in 1 .. Len(s)
      BY <1>3, <2>2
    <3>2. SubSeq(s \o t, 1, Len(s)) = SubSeq(s, 1, Len(s))
      BY <1>1, <3>1, SubSeqOfConcat1
    <3>3. QED BY <1>2, <3>2
  <2>3. QED BY <2>1, <2>2
<1>5. QED BY <1>2, <1>4, Zenon DEF Size, Cat, First

-----------------------------------------------------------------------------
(* Integers                                                                *)

Sign(neg, flags) ==
  IF neg THEN One(Minus) ELSE IF "PLUS" \in flags THEN One(Plus)
  ELSE IF "SPACE" \in flags THEN One(Blank) ELSE Empty

Signed(neg, flags) == neg \/ {"PLUS", "SPACE"} \cap flags # {}

Prefix(base, flags) ==
  IF "HASH" \notin flags THEN Empty ELSE IF base = 8 THEN One(0) ELSE Cat(One(0), One(Letter))

\* A field as the standard describes it.
Field(left, zeropad, front, number, width) ==
  LET room == width - Size(front) - Size(number)
  IN  IF left THEN Cat(Cat(front, number), Times(room, Blank))
      ELSE IF zeropad THEN Cat(Cat(front, Times(room, 0)), number)
      ELSE Cat(Cat(Times(room, Blank), front), number)

\* The steps of _ntoa_format.
InnerWidth(neg, width, flags) ==
  IF "LEFT" \notin flags /\ width > 0 /\ "ZEROPAD" \in flags /\ Signed(neg, flags)
  THEN width - 1 ELSE width

Zeros(prec, w, flags) ==
  IF "LEFT" \in flags THEN 0 ELSE Most(prec, IF "ZEROPAD" \in flags THEN w ELSE 0)

Padded(ds, prec, w, flags) == Cat(ds, Times(Least(Zeros(prec, w, flags), NtoaCap) - Size(ds), 0))

Hashed(z, base, w, flags) == IF "HASH" \in flags THEN HashPrefix(z, base, w, flags) ELSE z

Ended(h, neg, flags) == Cat(h, IF Size(h) >= NtoaCap THEN Empty ELSE Sign(neg, flags))

LEMMA FormatIs ==
  ASSUME NEW ds, NEW neg, NEW base, NEW prec, NEW width, NEW flags
  PROVE  LET w == InnerWidth(neg, width, flags)
             h == Hashed(Padded(ds, prec, w, flags), base, w, flags)
         IN  _ntoa_format(ds, neg, base, prec, width, flags) = _out_rev(Ended(h, neg, flags), w, flags)
BY DEF _ntoa_format, InnerWidth, Signed, Zeros, Padded, Hashed, Ended, Sign, Cat, Size, One, Empty

LEMMA CapIs == NtoaCap \in Nat /\ NtoaCap >= 1
BY PrintfAssumption

LEMMA CharsAre == 0 \in Nat /\ Blank \in Nat /\ Minus \in Nat /\ Plus \in Nat /\ Letter \in Nat /\ Nul \in Nat
BY DEF Blank, Minus, Plus, Letter, Nul

LEMMA SignIs ==
  ASSUME NEW neg, NEW flags
  PROVE  /\ Sign(neg, flags) \in Texts /\ Reverse(Sign(neg, flags)) = Sign(neg, flags)
         /\ Size(Sign(neg, flags)) = IF Signed(neg, flags) THEN 1 ELSE 0
         /\ ~Signed(neg, flags) => Sign(neg, flags) = Empty
<1>1. CASE Signed(neg, flags)
  <2>1. \/ Sign(neg, flags) = One(Minus) \/ Sign(neg, flags) = One(Plus) \/ Sign(neg, flags) = One(Blank)
    BY <1>1 DEF Sign, Signed
  <2>2. QED BY <1>1, <2>1, CharsAre, OneText
<1>2. CASE ~Signed(neg, flags)
  <2>1. Sign(neg, flags) = Empty
    BY <1>2 DEF Sign, Signed
  <2>2. QED BY <1>2, <2>1, EmptyIs
<1>3. QED BY <1>1, <1>2

\* The prefix as HashPrefix writes it, backwards.
LEMMA PrefixIs ==
  ASSUME NEW base, NEW flags
  PROVE  LET p == Prefix(base, flags)
         IN  /\ p \in Texts /\ Reverse(p) \in Texts /\ Reverse(Reverse(p)) = p /\ Size(Reverse(p)) = Size(p)
             /\ "HASH" \notin flags => p = Empty /\ Reverse(p) = Empty /\ Size(p) = 0
             /\ "HASH" \in flags /\ base = 8 => Reverse(p) = One(0) /\ Size(p) = 1
             /\ "HASH" \in flags /\ base # 8 => Reverse(p) = Cat(One(Letter), One(0)) /\ Size(p) = 2
<1> DEFINE p == Prefix(base, flags)
<1>1. /\ One(0) \in Texts /\ Size(One(0)) = 1 /\ Reverse(One(0)) = One(0)
      /\ One(Letter) \in Texts /\ Size(One(Letter)) = 1 /\ Reverse(One(Letter)) = One(Letter)
  BY OneText, CharsAre
<1>2. CASE "HASH" \notin flags
  <2>1. p = Empty
    BY <1>2 DEF Prefix
  <2>2. QED BY <1>2, <2>1, EmptyIs
<1>3. CASE "HASH" \in flags /\ base = 8
  <2>1. p = One(0)
    BY <1>3 DEF Prefix
  <2>2. QED BY <1>1, <1>3, <2>1
<1>4. CASE "HASH" \in flags /\ base # 8
  <2>1. p = Cat(One(0), One(Letter))
    BY <1>4 DEF Prefix
  <2>2. Reverse(p) = Cat(One(Letter), One(0)) /\ p \in Texts /\ Size(p) = 2
    BY <1>1, <2>1, CatIs
  <2>3. Reverse(Reverse(p)) = p /\ Reverse(p) \in Texts /\ Size(Reverse(p)) = 2
    BY <1>1, <2>1, <2>2, CatIs
  <2>4. QED BY <1>4, <2>2, <2>3
<1>5. QED BY <1>2, <1>3, <1>4

\* The end of HashPrefix, and what it is where kept has room for the prefix.
Prefixed(kept, base) ==
  LET letter == Times(Least(IF base = 8 THEN 0 ELSE 1, NtoaCap - Size(kept)), Letter)
  IN  Cat(Cat(kept, letter), Times(Least(1, NtoaCap - Size(kept) - Size(letter)), 0))

LEMMA PrefixAdded ==
  ASSUME NEW kept \in Texts, NEW base, NEW flags, "HASH" \in flags,
         Size(kept) + Size(Prefix(base, flags)) <= NtoaCap
  PROVE  Prefixed(kept, base) = Cat(kept, Reverse(Prefix(base, flags)))
<1> DEFINE letter == Times(Least(IF base = 8 THEN 0 ELSE 1, NtoaCap - Size(kept)), Letter)
<1>1. Size(kept) \in Nat /\ NtoaCap \in Nat
  BY CapIs, SizeIs
<1>2. CASE base = 8
  <2>1. Size(kept) + 1 <= NtoaCap /\ Reverse(Prefix(base, flags)) = One(0)
    BY <1>2, PrefixIs
  <2>2. Least(IF base = 8 THEN 0 ELSE 1, NtoaCap - Size(kept)) = 0
    BY <1>1, <1>2, <2>1 DEF Least
  <2>3. letter = Empty /\ Size(letter) = 0
    BY <2>2, TimesText, CharsAre, EmptyIs
  <2> HIDE DEF letter
  <2>4. Least(1, NtoaCap - Size(kept) - Size(letter)) = 1
    BY <1>1, <2>1, <2>3 DEF Least
  <2>5. Times(1, 0) = One(0) /\ Cat(kept, Empty) = kept
    BY OneText, EmptyIs
  <2>6. QED BY <2>1, <2>3, <2>4, <2>5, Zenon DEF letter, Prefixed
<1>3. CASE base # 8
  <2>1. Size(kept) + 2 <= NtoaCap /\ Reverse(Prefix(base, flags)) = Cat(One(Letter), One(0))
    BY <1>3, PrefixIs
  <2>2. Least(IF base = 8 THEN 0 ELSE 1, NtoaCap - Size(kept)) = 1
    BY <1>1, <1>3, <2>1 DEF Least
  <2>3. letter = One(Letter) /\ Size(letter) = 1
    BY <2>2, OneText, CharsAre
  <2> HIDE DEF letter
  <2>4. Least(1, NtoaCap - Size(kept) - Size(letter)) = 1
    BY <1>1, <2>1, <2>3 DEF Least
  <2>5. Times(1, 0) = One(0) /\ One(0) \in Texts /\ One(Letter) \in Texts
    BY OneText, CharsAre
  <2>6. Cat(Cat(kept, One(Letter)), One(0)) = Cat(kept, Cat(One(Letter), One(0)))
    BY <2>5, CatThree
  <2>7. QED BY <2>1, <2>3, <2>4, <2>5, <2>6, Zenon DEF letter, Prefixed
<1>4. QED BY <1>2, <1>3

\* The characters that HashPrefix takes back.
Drop(buf, base, w, flags) ==
  IF "PRECISION" \notin flags /\ Size(buf) > 0 /\ Size(buf) = w
  THEN Least(Size(buf), IF base = 16 THEN 2 ELSE 1) ELSE 0

\* HashPrefix in one: what it gives up, then what it adds.
LEMMA HashIs ==
  ASSUME NEW buf \in Texts, NEW base, NEW w, NEW flags, NEW kept \in Texts, "HASH" \in flags,
         kept = First(buf, Size(buf) - Drop(buf, base, w, flags)),
         Size(kept) + Size(Prefix(base, flags)) <= NtoaCap
  PROVE  HashPrefix(buf, base, w, flags) = Cat(kept, Reverse(Prefix(base, flags)))
<1>1. HashPrefix(buf, base, w, flags) = Prefixed(kept, base)
  BY DEF HashPrefix, Drop, First, Cat, Size, Prefixed
<1>2. QED BY <1>1, PrefixAdded

\* A prefix that replaces no zero.
LEMMA HashKeeps ==
  ASSUME NEW buf \in Texts, NEW base, NEW w, NEW flags, "HASH" \in flags,
         "PRECISION" \in flags \/ Size(buf) # w,
         Size(buf) + Size(Prefix(base, flags)) <= NtoaCap
  PROVE  HashPrefix(buf, base, w, flags) = Cat(buf, Reverse(Prefix(base, flags)))
<1>1. Drop(buf, base, w, flags) = 0
  BY DEF Drop
<1>2. Size(buf) - Drop(buf, base, w, flags) = Size(buf)
  BY <1>1, SizeIs
<1>3. buf = First(buf, Size(buf) - Drop(buf, base, w, flags))
  BY <1>2, Beginning
<1>4. QED BY <1>3, HashIs

\* What _out_rev makes of digits, zeros, a prefix and a sign.
LEMMA Backwards ==
  ASSUME NEW ds \in Texts, NEW z \in Int, NEW p \in Texts, NEW s \in Texts,
         Reverse(p) \in Texts, Reverse(Reverse(p)) = p, Reverse(s) = s
  PROVE  LET buf == Cat(Cat(Cat(ds, Times(z, 0)), Reverse(p)), s)
             num == Cat(Times(z, 0), Reverse(ds))
         IN  /\ buf \in Texts /\ Reverse(buf) = Cat(Cat(s, p), num)
             /\ num \in Texts /\ Cat(s, p) \in Texts
             /\ Size(num) = Size(ds) + Most(z, 0) /\ Size(Cat(s, p)) = Size(s) + Size(p)
             /\ Size(Cat(Cat(ds, Times(z, 0)), Reverse(p))) = Size(ds) + Most(z, 0) + Size(p)
             /\ Size(buf) = Size(ds) + Most(z, 0) + Size(p) + Size(s)
<1> DEFINE t == Times(z, 0)  r == Reverse(p)  x == Cat(ds, t)  y == Cat(x, r)  e == Reverse(ds)  num == Cat(t, e)
<1>1. t \in Texts /\ Size(t) = Most(z, 0) /\ Reverse(t) = t /\ Most(z, 0) \in Nat
  BY TimesText
<1>2. r \in Texts /\ Size(r) = Size(p) /\ Reverse(r) = p
  BY ReverseText
<1>3. e \in Texts /\ Size(e) = Size(ds)
  BY ReverseText
<1> HIDE DEF t, r, e
<1>4. x \in Texts /\ Size(x) = Size(ds) + Size(t) /\ Reverse(x) = Cat(t, e)
  BY <1>1, CatIs DEF e
<1>5. num \in Texts /\ Size(num) = Size(t) + Size(ds)
  BY <1>1, <1>3, CatIs
<1> HIDE DEF x, num
<1>6. y \in Texts /\ Size(y) = Size(x) + Size(p) /\ Reverse(y) = Cat(p, num)
  BY <1>2, <1>4, CatIs DEF num
<1> HIDE DEF y
<1>7. Cat(y, s) \in Texts /\ Size(Cat(y, s)) = Size(y) + Size(s) /\ Reverse(Cat(y, s)) = Cat(s, Cat(p, num))
  BY <1>6, CatIs
<1>8. Cat(s, Cat(p, num)) = Cat(Cat(s, p), num) /\ Cat(s, p) \in Texts /\ Size(Cat(s, p)) = Size(s) + Size(p)
  BY <1>5, CatThree, CatIs
<1>9. Size(ds) \in Nat /\ Size(p) \in Nat /\ Size(s) \in Nat
  BY SizeIs
<1>10. /\ Size(Cat(y, s)) = Size(ds) + Most(z, 0) + Size(p) + Size(s) /\ Size(num) = Size(ds) + Most(z, 0)
       /\ Size(y) = Size(ds) + Most(z, 0) + Size(p)
  BY <1>1, <1>4, <1>5, <1>6, <1>7, <1>9
<1>11. Reverse(Cat(y, s)) = Cat(Cat(s, p), num)
  BY <1>7, <1>8
<1>12. QED BY <1>5, <1>7, <1>8, <1>10, <1>11, Zenon DEF t, r, x, y, e, num

\* The buffer after the prefix: z zeros behind the digits.
Filled(ds, z, neg, base, prec, width, flags) ==
  LET w == InnerWidth(neg, width, flags)
  IN  Hashed(Padded(ds, prec, w, flags), base, w, flags) = Cat(Cat(ds, Times(z, 0)), Reverse(Prefix(base, flags)))

\* What _out_rev adds around the text.
Around(text, room, flags) ==
  Cat(Cat(IF {"LEFT", "ZEROPAD"} \cap flags = {} THEN Times(room, Blank) ELSE Empty, text),
      IF "LEFT" \in flags THEN Times(room, Blank) ELSE Empty)

\* The end of _ntoa_format, for a buffer that is not full.
LEMMA FormatEnds ==
  ASSUME NEW ds \in Texts, NEW neg, NEW base, NEW prec \in Nat, NEW width \in Nat,
         NEW flags, NEW z \in Int, Filled(ds, z, neg, base, prec, width, flags),
         Size(ds) + Most(z, 0) + Size(Prefix(base, flags)) < NtoaCap
  PROVE  LET w == InnerWidth(neg, width, flags)
             front == Cat(Sign(neg, flags), Prefix(base, flags))
             num == Cat(Times(z, 0), Reverse(ds))
             room == w - Size(front) - Size(num)
         IN  /\ _ntoa_format(ds, neg, base, prec, width, flags) = Around(Cat(front, num), room, flags)
             /\ front \in Texts /\ num \in Texts
             /\ Size(num) = Size(ds) + Most(z, 0) /\ Size(front) = Size(Sign(neg, flags)) + Size(Prefix(base, flags))
<1> DEFINE w == InnerWidth(neg, width, flags)  s == Sign(neg, flags)  p == Prefix(base, flags)
           h == Cat(Cat(ds, Times(z, 0)), Reverse(p))  buf == Cat(h, s)
           front == Cat(s, p)  num == Cat(Times(z, 0), Reverse(ds))
<1>1. s \in Texts /\ Reverse(s) = s
  BY SignIs
<1>2. p \in Texts /\ Reverse(p) \in Texts /\ Reverse(Reverse(p)) = p
  BY PrefixIs
<1>3. w \in Int
  BY DEF InnerWidth
<1>4. _ntoa_format(ds, neg, base, prec, width, flags) = _out_rev(Ended(h, neg, flags), w, flags)
  BY FormatIs, Zenon DEF Filled
<1> HIDE DEF s, p, w
<1>5. /\ buf \in Texts /\ Reverse(buf) = Cat(front, num) /\ num \in Texts /\ front \in Texts
      /\ Size(num) = Size(ds) + Most(z, 0) /\ Size(front) = Size(s) + Size(p)
      /\ Size(h) = Size(ds) + Most(z, 0) + Size(p)
      /\ Size(buf) = Size(ds) + Most(z, 0) + Size(p) + Size(s)
  BY <1>1, <1>2, Backwards
<1>6. Size(ds) \in Nat /\ Size(p) \in Nat /\ Size(s) \in Nat /\ Most(z, 0) \in Nat /\ NtoaCap \in Nat
  BY <1>1, <1>2, SizeIs, MostIs, CapIs
<1> HIDE DEF h
<1>7. Ended(h, neg, flags) = buf
  <2>1. Size(h) < NtoaCap
    BY <1>5 DEF p
  <2>2. ~(Size(h) >= NtoaCap)
    BY <1>5, <1>6, <2>1
  <2>3. QED BY <2>2, Zenon DEF Ended, s
<1> HIDE DEF buf, front, num
<1>8. w - Size(buf) = w - Size(front) - Size(num)
  BY <1>3, <1>5, <1>6
<1>9. _out_rev(buf, w, flags) = Around(Reverse(buf), w - Size(buf), flags)
  BY Zenon DEF _out_rev, Around, Cat, Empty, Size
<1>10. QED BY <1>4, <1>5, <1>7, <1>8, <1>9, Zenon DEF w, front, num, s, p

\* The signs, the prefix and the digits of a number.
SignPrefix(neg, base, flags) == Cat(Sign(neg, flags), Prefix(base, flags))
Number(ds, prec) == Cat(Times(prec - Size(ds), 0), Reverse(ds))

\* When a number is not filled up with zeros to its width, and fits.
FitsPlain(ds, neg, base, prec, width, flags) ==
  /\ "LEFT" \in flags \/ "ZEROPAD" \notin flags
  /\ "LEFT" \in flags => prec = 0
  /\ "HASH" \in flags => "PRECISION" \in flags \/ (prec = 0 /\ Size(ds) # width)
  /\ Size(SignPrefix(neg, base, flags)) + Size(Number(ds, prec)) < NtoaCap

\* The text of such a directive: spaces on one side.
IsPlain(ds, neg, base, prec, width, flags) ==
  /\ "LEFT" \in flags =>
       _ntoa_format(ds, neg, base, prec, width, flags)
         = Field(TRUE, FALSE, SignPrefix(neg, base, flags), Number(ds, prec), width)
  /\ "LEFT" \notin flags =>
       _ntoa_format(ds, neg, base, prec, width, flags)
         = Field(FALSE, FALSE, SignPrefix(neg, base, flags), Number(ds, prec), width)

LEMMA PlainForm ==
  ASSUME NEW ds \in Texts, NEW neg, NEW base, NEW prec \in Nat, NEW width \in Nat, NEW flags,
         FitsPlain(ds, neg, base, prec, width, flags)
  PROVE  IsPlain(ds, neg, base, prec, width, flags)
<1> DEFINE s == Sign(neg, flags)  p == Prefix(base, flags)  z == prec - Size(ds)  t == Times(z, 0)
           front == Cat(s, p)  num == Cat(t, Reverse(ds))  w == InnerWidth(neg, width, flags)
           padded == Padded(ds, prec, w, flags)
<1>0. /\ "LEFT" \in flags \/ "ZEROPAD" \notin flags
      /\ "LEFT" \in flags => prec = 0
      /\ "HASH" \in flags => "PRECISION" \in flags \/ (prec = 0 /\ Size(ds) # width)
      /\ Size(front) + Size(num) < NtoaCap
  BY Zenon DEF FitsPlain, SignPrefix, Number
<1>1. s \in Texts /\ Size(s) \in Nat /\ p \in Texts /\ Reverse(p) \in Texts /\ Size(p) \in Nat
  BY SignIs, PrefixIs, SizeIs
<1>2. Size(ds) \in Nat /\ NtoaCap \in Nat /\ z \in Int /\ Most(z, 0) \in Nat
  BY SizeIs, CapIs, MostIs
<1>3. t \in Texts /\ Size(t) = Most(z, 0) /\ Reverse(ds) \in Texts /\ Size(Reverse(ds)) = Size(ds)
  BY <1>2, TimesText, ReverseText
<1>4. Size(front) = Size(s) + Size(p)
  BY <1>1, CatIs
<1>5. Size(num) = Most(z, 0) + Size(ds)
  BY <1>3, CatIs
<1>6. Size(s) + Size(p) + Most(z, 0) + Size(ds) < NtoaCap
  <2> HIDE DEF s, p, z, front, num
  <2>1. QED BY <1>0, <1>1, <1>2, <1>4, <1>5
<1>7. w = width
  BY <1>0 DEF InnerWidth
<1>8. Zeros(prec, w, flags) = prec
  <2>1. Most(prec, 0) = prec
    BY MostIs
  <2> HIDE DEF w
  <2>2. QED BY <1>0, <2>1 DEF Zeros
<1>9. prec < NtoaCap
  <2>1. z <= Most(z, 0)
    BY <1>2 DEF Most
  <2> HIDE DEF s, p
  <2>2. QED BY <1>1, <1>2, <1>6, <2>1
<1>10. padded = Cat(ds, t)
  <2>1. Least(prec, NtoaCap) = prec
    BY <1>2, <1>9 DEF Least
  <2> HIDE DEF w
  <2>2. QED BY <1>8, <2>1 DEF Padded
<1>11. padded \in Texts /\ Size(padded) = Size(ds) + Most(z, 0)
  <2> HIDE DEF padded, t
  <2>1. QED BY <1>3, <1>10, CatIs
<1> HIDE DEF w, padded, t, s, p
<1>12. Hashed(padded, base, w, flags) = Cat(padded, Reverse(p))
  <2>1. CASE "HASH" \in flags
    <3>1. Size(padded) + Size(p) <= NtoaCap
      BY <1>1, <1>2, <1>6, <1>11
    <3>2. "PRECISION" \in flags \/ Size(padded) # w
      <4>1. CASE prec = 0 /\ Size(ds) # width
        <5>1. z <= 0
          BY <1>2, <4>1
        <5>2. Size(padded) = Size(ds)
          BY <1>2, <1>11, <5>1, MostIs
        <5>3. QED BY <1>7, <4>1, <5>2
      <4>2. QED BY <1>0, <2>1, <4>1
    <3>3. HashPrefix(padded, base, w, flags) = Cat(padded, Reverse(p))
      BY <1>11, <2>1, <3>1, <3>2, HashKeeps DEF p
    <3>4. QED BY <2>1, <3>3 DEF Hashed
  <2>2. CASE "HASH" \notin flags
    <3>1. Reverse(p) = Empty
      BY <2>2, PrefixIs DEF p
    <3>2. QED BY <1>11, <2>2, <3>1, EmptyIs DEF Hashed
  <2>3. QED BY <2>1, <2>2
<1>13. Filled(ds, z, neg, base, prec, width, flags)
  BY <1>10, <1>12, Zenon DEF p, padded, t, w, Filled
<1>14. Size(ds) + Most(z, 0) + Size(Prefix(base, flags)) < NtoaCap
  BY <1>1, <1>2, <1>6 DEF p
<1> DEFINE room == w - Size(front) - Size(num)
<1>15. /\ _ntoa_format(ds, neg, base, prec, width, flags) = Around(Cat(front, num), room, flags)
       /\ front \in Texts /\ num \in Texts
  <2> HIDE DEF z
  <2>1. QED BY <1>2, <1>13, <1>14, FormatEnds DEF w, s, p, t
<1>16. room \in Int /\ Times(room, Blank) \in Texts
  <2>1. room \in Int
    BY <1>7, <1>15, SizeIs
  <2> HIDE DEF room
  <2>2. QED BY <2>1, TimesText, CharsAre
<1> HIDE DEF room, front, num
<1>17. Cat(front, num) \in Texts
  BY <1>15, CatIs
<1>18. /\ "LEFT" \in flags =>
            _ntoa_format(ds, neg, base, prec, width, flags) = Field(TRUE, FALSE, front, num, width)
       /\ "LEFT" \notin flags =>
            _ntoa_format(ds, neg, base, prec, width, flags) = Field(FALSE, FALSE, front, num, width)
  <2>1. room = width - Size(front) - Size(num)
    BY <1>7 DEF room
  <2>2. CASE "LEFT" \in flags
    <3>1. {"LEFT", "ZEROPAD"} \cap flags # {}
      BY <2>2
    <3>2. Cat(Empty, Cat(front, num)) = Cat(front, num)
      BY <1>17, EmptyIs
    <3>3. _ntoa_format(ds, neg, base, prec, width, flags) = Cat(Cat(front, num), Times(room, Blank))
      BY <1>15, <2>2, <3>1, <3>2 DEF Around
    <3>4. QED BY <2>1, <2>2, <3>3 DEF Field
  <2>3. CASE "LEFT" \notin flags
    <3>1. {"LEFT", "ZEROPAD"} \cap flags = {}
      BY <1>0, <2>3
    <3>2. Cat(Cat(Times(room, Blank), Cat(front, num)), Empty) = Cat(Times(room, Blank), Cat(front, num))
      BY <1>16, <1>17, CatIs, EmptyIs
    <3>3. Cat(Times(room, Blank), Cat(front, num)) = Cat(Cat(Times(room, Blank), front), num)
      BY <1>15, <1>16, CatThree
    <3>4. _ntoa_format(ds, neg, base, prec, width, flags) = Cat(Cat(Times(room, Blank), front), num)
      BY <1>15, <2>3, <3>1, <3>2, <3>3 DEF Around
    <3>5. QED BY <2>1, <2>3, <3>4 DEF Field
  <2>4. QED BY <2>2, <2>3
<1>19. QED BY <1>18, Zenon DEF front, num, s, p, t, z, SignPrefix, Number, IsPlain

\* How long a field is.
LEMMA FieldSize ==
  ASSUME NEW left \in BOOLEAN, NEW zeropad \in BOOLEAN, NEW front \in Texts, NEW number \in Texts, NEW width \in Nat
  PROVE  LET f == Field(left, zeropad, front, number, width)
         IN  f \in Texts /\ Size(f) >= Size(front) + Size(number) /\ Size(f) >= width
<1> DEFINE room == width - Size(front) - Size(number)
<1>1. Size(front) \in Nat /\ Size(number) \in Nat /\ room \in Int
  BY SizeIs
<1>2. Most(room, 0) \in Nat /\ Most(room, 0) >= room
  BY <1>1 DEF Most
<1>3. /\ Times(room, Blank) \in Texts /\ Size(Times(room, Blank)) = Most(room, 0)
      /\ Times(room, 0) \in Texts /\ Size(Times(room, 0)) = Most(room, 0)
  BY <1>1, TimesText, CharsAre
<1>4. ASSUME NEW n \in Nat, n = Size(front) + Size(number) + Most(room, 0)
      PROVE  n >= Size(front) + Size(number) /\ n >= width
  BY <1>1, <1>2, <1>4
<1> DEFINE f == Field(left, zeropad, front, number, width)
<1>5. f \in Texts /\ Size(f) = Size(front) + Size(number) + Most(room, 0)
  <2> HIDE DEF room
  <2>1. CASE left
    <3>1. Cat(front, number) \in Texts /\ Size(Cat(front, number)) = Size(front) + Size(number)
      BY CatIs
    <3>2. /\ Cat(Cat(front, number), Times(room, Blank)) \in Texts
          /\ Size(Cat(Cat(front, number), Times(room, Blank))) = Size(front) + Size(number) + Most(room, 0)
      BY <1>3, <3>1, CatIs
    <3>3. f = Cat(Cat(front, number), Times(room, Blank))
      BY <2>1, Zenon DEF Field, room
    <3> HIDE DEF f
    <3>4. QED BY <3>2, <3>3
  <2>2. CASE ~left /\ zeropad
    <3>1. Cat(front, Times(room, 0)) \in Texts /\ Size(Cat(front, Times(room, 0))) = Size(front) + Most(room, 0)
      BY <1>3, CatIs
    <3>2. /\ Cat(Cat(front, Times(room, 0)), number) \in Texts
          /\ Size(Cat(Cat(front, Times(room, 0)), number)) = Size(front) + Most(room, 0) + Size(number)
      BY <3>1, CatIs
    <3>3. f = Cat(Cat(front, Times(room, 0)), number)
      BY <2>2, Zenon DEF Field, room
    <3> HIDE DEF f
    <3>4. QED BY <1>1, <1>2, <3>2, <3>3
  <2>3. CASE ~left /\ ~zeropad
    <3>1. /\ Cat(Times(room, Blank), front) \in Texts
          /\ Size(Cat(Times(room, Blank), front)) = Most(room, 0) + Size(front)
      BY <1>3, CatIs
    <3>2. /\ Cat(Cat(Times(room, Blank), front), number) \in Texts
          /\ Size(Cat(Cat(Times(room, Blank), front), number)) = Most(room, 0) + Size(front) + Size(number)
      BY <3>1, CatIs
    <3>3. f = Cat(Cat(Times(room, Blank), front), number)
      BY <2>3, Zenon DEF Field, room
    <3> HIDE DEF f
    <3>4. QED BY <1>1, <1>2, <3>2, <3>3
  <2>4. QED BY <2>1, <2>2, <2>3
<1> HIDE DEF f, room
<1>6. Size(f) \in Nat
  BY <1>5, SizeIs
<1>7. QED BY <1>4, <1>5, <1>6 DEF f

\* The digits, the zeros up to the width and the prefix of a zero-padded number.
LEMMA ZeroHashed ==
  ASSUME NEW ds \in Texts, NEW neg, NEW base, NEW width \in Nat, NEW flags,
         "LEFT" \notin flags, "ZEROPAD" \in flags, "PRECISION" \notin flags,
         "HASH" \in flags => /\ ~Signed(neg, flags) /\ Size(ds) # width
                             /\ Size(ds) < width => base \in {8, 16} /\ Size(ds) + Size(Prefix(base, flags)) <= width,
         width < NtoaCap,
         Size(Sign(neg, flags)) + Size(Prefix(base, flags)) + Size(ds) < NtoaCap
  PROVE  LET w == InnerWidth(neg, width, flags)
             z == width - (Size(Sign(neg, flags)) + Size(Prefix(base, flags))) - Size(ds)
         IN  Hashed(Padded(ds, 0, w, flags), base, w, flags) = Cat(Cat(ds, Times(z, 0)), Reverse(Prefix(base, flags)))
<1> DEFINE s == Sign(neg, flags)  p == Prefix(base, flags)  w == InnerWidth(neg, width, flags)
           z == width - (Size(s) + Size(p)) - Size(ds)
           padded == Padded(ds, 0, w, flags)
<1>1. /\ Size(ds) \in Nat /\ Size(s) \in Nat /\ Size(p) \in Nat /\ Reverse(p) \in Texts /\ NtoaCap \in Nat
      /\ p \in Texts /\ Size(s) = IF Signed(neg, flags) THEN 1 ELSE 0
  BY SignIs, PrefixIs, SizeIs, CapIs
<1>2. w \in Nat /\ w = IF width > 0 /\ Signed(neg, flags) THEN width - 1 ELSE width
  BY DEF InnerWidth
<1>3. padded = Cat(ds, Times(w - Size(ds), 0))
  <2>1. Zeros(0, w, flags) = w
    <3> HIDE DEF w
    <3>1. QED BY <1>2 DEF Zeros, Most
  <2>2. Least(w, NtoaCap) = w
    <3> HIDE DEF w
    <3>1. QED BY <1>1, <1>2 DEF Least
  <2> HIDE DEF w
  <2>3. QED BY <2>1, <2>2, Zenon DEF Padded
<1>4. padded \in Texts /\ Size(padded) = Size(ds) + Most(w - Size(ds), 0)
  <2>1. w - Size(ds) \in Int
    BY <1>1, <1>2
  <2> HIDE DEF padded, w
  <2>2. QED BY <1>3, <2>1, TimesText, CatIs
<1> HIDE DEF w, padded, s, p
<1>5. CASE "HASH" \notin flags
  <2>1. p = Empty /\ Reverse(p) = Empty /\ Size(p) = 0
    BY <1>5, PrefixIs DEF p
  <2>2. Times(w - Size(ds), 0) = Times(z, 0)
    <3>1. CASE width > 0 \/ ~Signed(neg, flags)
      <4>1. w - Size(ds) = z
        BY <1>1, <1>2, <2>1, <3>1
      <4>2. QED BY <4>1
    <3>2. CASE ~(width > 0) /\ Signed(neg, flags)
      <4>1. w - Size(ds) \in Int /\ w - Size(ds) <= 0 /\ z \in Int /\ z <= 0
        BY <1>1, <1>2, <2>1, <3>2
      <4> HIDE DEF z
      <4>2. Times(w - Size(ds), 0) = Empty /\ Times(z, 0) = Empty
        BY <4>1, TimesText
      <4>3. QED BY <4>2
    <3>3. QED BY <3>1, <3>2
  <2>3. Hashed(padded, base, w, flags) = padded
    BY <1>5 DEF Hashed
  <2>4. Cat(padded, Empty) = padded
    BY <1>4, EmptyIs
  <2> HIDE DEF z
  <2>5. Hashed(padded, base, w, flags) = Cat(Cat(ds, Times(z, 0)), Reverse(p))
    BY <1>3, <2>1, <2>2, <2>3, <2>4, Zenon
  <2>6. QED BY <2>5 DEF padded, w, s, p, z
<1>6. CASE "HASH" \in flags /\ Size(ds) > width
  <2>1. w = width /\ Size(s) = 0
    BY <1>1, <1>2, <1>6
  <2>2. w - Size(ds) \in Int /\ w - Size(ds) <= 0 /\ z \in Int /\ z <= 0
    BY <1>1, <1>6, <2>1
  <2> HIDE DEF z
  <2>3. Times(w - Size(ds), 0) = Empty /\ Times(z, 0) = Empty /\ Most(w - Size(ds), 0) = 0
    BY <2>2, TimesText, MostIs
  <2>4. padded = Cat(ds, Times(z, 0)) /\ Size(padded) = Size(ds)
    BY <1>1, <1>3, <1>4, <2>3
  <2>5. Size(padded) # w /\ Size(padded) + Size(p) <= NtoaCap
    <3>1. Size(s) + Size(p) + Size(ds) < NtoaCap
      BY DEF s, p
    <3>2. QED BY <1>1, <1>6, <2>1, <2>4, <3>1
  <2>6. Hashed(padded, base, w, flags) = Cat(padded, Reverse(p))
    <3>1. HashPrefix(padded, base, w, flags) = Cat(padded, Reverse(p))
      BY <1>4, <1>6, <2>5, HashKeeps DEF p
    <3>2. QED BY <1>6, <3>1 DEF Hashed
  <2>7. Hashed(padded, base, w, flags) = Cat(Cat(ds, Times(z, 0)), Reverse(p))
    BY <2>4, <2>6, Zenon
  <2>8. QED BY <2>7 DEF padded, w, s, p, z
<1>7. CASE "HASH" \in flags /\ Size(ds) < width
  <2>1. w = width /\ Size(s) = 0 /\ base \in {8, 16} /\ Size(ds) + Size(p) <= width
    BY <1>1, <1>2, <1>7 DEF p
  <2>2. Size(p) = IF base = 16 THEN 2 ELSE 1
    BY <1>7, <2>1, PrefixIs DEF p
  <2>3. z \in Nat /\ z = width - Size(p) - Size(ds)
    BY <1>1, <2>1
  <2> HIDE DEF z
  <2> DEFINE kept == Cat(ds, Times(z, 0))  rest == Times(Size(p), 0)
  <2>4. /\ Times(z, 0) \in Texts /\ Size(Times(z, 0)) = z /\ rest \in Texts /\ Size(rest) = Size(p)
    <3>1. Most(z, 0) = z /\ Most(Size(p), 0) = Size(p)
      BY <1>1, <2>3, MostIs
    <3>2. QED BY <1>1, <2>3, <3>1, TimesText
  <2>5. kept \in Texts /\ Size(kept) = Size(ds) + z
    BY <2>4, CatIs
  <2>6. padded = Cat(kept, rest)
    <3>1. w - Size(ds) = z + Size(p)
      BY <1>1, <2>1, <2>3
    <3>2. Cat(Times(z, 0), rest) = Times(w - Size(ds), 0)
      BY <1>1, <2>3, <3>1, CatTimes
    <3> HIDE DEF rest
    <3>3. Cat(kept, rest) = Cat(ds, Cat(Times(z, 0), rest))
      BY <2>4, CatThree
    <3>4. QED BY <1>3, <3>2, <3>3, Zenon
  <2> HIDE DEF kept, rest
  <2>7. Size(padded) = w
    BY <1>1, <2>1, <2>3, <2>4, <2>5, <2>6, CatIs
  <2>8. Drop(padded, base, w, flags) = Size(p)
    <3>1. Size(padded) = w /\ w = width /\ Size(p) <= width /\ width \in Nat /\ Size(p) \in Nat /\ Size(padded) > 0
      BY <1>1, <1>7, <2>1, <2>7
    <3>2. Drop(padded, base, w, flags) = Least(Size(padded), Size(p))
      BY <2>2, <3>1 DEF Drop
    <3>3. QED BY <3>1, <3>2 DEF Least
  <2>9. Size(padded) - Drop(padded, base, w, flags) = Size(kept)
    BY <1>1, <2>1, <2>3, <2>5, <2>7, <2>8
  <2>10. kept = First(padded, Size(padded) - Drop(padded, base, w, flags))
    <3>1. First(Cat(kept, rest), Size(kept)) = kept
      BY <2>4, <2>5, Beginning
    <3>2. QED BY <2>6, <2>9, <3>1
  <2>11. Size(kept) + Size(p) <= NtoaCap
    BY <1>1, <2>3, <2>5
  <2>12. HashPrefix(padded, base, w, flags) = Cat(kept, Reverse(p))
    BY <1>4, <1>7, <2>5, <2>10, <2>11, HashIs DEF p
  <2>13. Hashed(padded, base, w, flags) = Cat(kept, Reverse(p))
    BY <1>7, <2>12 DEF Hashed
  <2>14. QED BY <2>13 DEF padded, w, s, p, z, kept
<1>8. QED BY <1>1, <1>5, <1>6, <1>7

\* The same for a buffer that gets no more padding.
LEMMA FilledEnds ==
  ASSUME NEW ds \in Texts, NEW neg, NEW base, NEW prec \in Nat, NEW width \in Nat, NEW flags,
         NEW z \in Int, Filled(ds, z, neg, base, prec, width, flags),
         Size(ds) + Most(z, 0) + Size(Prefix(base, flags)) < NtoaCap,
         "LEFT" \notin flags, "ZEROPAD" \in flags
  PROVE  _ntoa_format(ds, neg, base, prec, width, flags)
           = Cat(Cat(Sign(neg, flags), Prefix(base, flags)), Cat(Times(z, 0), Reverse(ds)))
<1> DEFINE front == Cat(Sign(neg, flags), Prefix(base, flags))  num == Cat(Times(z, 0), Reverse(ds))
           room == InnerWidth(neg, width, flags) - Size(front) - Size(num)
<1>1. /\ _ntoa_format(ds, neg, base, prec, width, flags) = Around(Cat(front, num), room, flags)
      /\ front \in Texts /\ num \in Texts
  BY FormatEnds
<1>2. {"LEFT", "ZEROPAD"} \cap flags # {}
  OBVIOUS
<1> HIDE DEF front, room, num
<1>3. Cat(front, num) \in Texts
  BY <1>1, CatIs
<1>4. Cat(Cat(Empty, Cat(front, num)), Empty) = Cat(front, num)
  BY <1>3, EmptyIs
<1>5. _ntoa_format(ds, neg, base, prec, width, flags) = Cat(front, num)
  BY <1>1, <1>2, <1>4 DEF Around
<1>6. QED BY <1>5 DEF front, num

\* When a number is filled up with zeros to its width, and fits.
FitsZero(ds, neg, base, width, flags) ==
  /\ "LEFT" \notin flags /\ "ZEROPAD" \in flags /\ "PRECISION" \notin flags
  /\ "HASH" \in flags => /\ ~Signed(neg, flags) /\ Size(ds) # width
                         /\ Size(ds) < width => base \in {8, 16} /\ Size(ds) + Size(Prefix(base, flags)) <= width
  /\ Size(Field(FALSE, TRUE, SignPrefix(neg, base, flags), Reverse(ds), width)) < NtoaCap

LEMMA ZeroForm ==
  ASSUME NEW ds \in Texts, NEW neg, NEW base, NEW width \in Nat, NEW flags,
         FitsZero(ds, neg, base, width, flags)
  PROVE  _ntoa_format(ds, neg, base, 0, width, flags)
           = Field(FALSE, TRUE, SignPrefix(neg, base, flags), Reverse(ds), width)
<1> DEFINE s == Sign(neg, flags)  p == Prefix(base, flags)  front == Cat(s, p)  w == InnerWidth(neg, width, flags)
           z == width - (Size(s) + Size(p)) - Size(ds)  f == Field(FALSE, TRUE, front, Reverse(ds), width)
<1>0. /\ "LEFT" \notin flags /\ "ZEROPAD" \in flags /\ "PRECISION" \notin flags
      /\ "HASH" \in flags => /\ ~Signed(neg, flags) /\ Size(ds) # width
                             /\ Size(ds) < width => base \in {8, 16} /\ Size(ds) + Size(p) <= width
      /\ Size(f) < NtoaCap
  BY Zenon DEF FitsZero, SignPrefix
<1>1. /\ Size(ds) \in Nat /\ Size(s) \in Nat /\ Size(p) \in Nat /\ NtoaCap \in Nat /\ s \in Texts /\ p \in Texts
      /\ Reverse(ds) \in Texts /\ Size(Reverse(ds)) = Size(ds)
  BY SignIs, PrefixIs, SizeIs, CapIs, ReverseText
<1>2. front \in Texts /\ Size(front) = Size(s) + Size(p)
  BY <1>1, CatIs
<1>3. f \in Texts /\ Size(f) \in Nat /\ Size(f) >= Size(front) + Size(Reverse(ds)) /\ Size(f) >= width
      /\ Size(f) < NtoaCap
  <2>1. Size(f) < NtoaCap
    BY <1>0
  <2> HIDE DEF front
  <2>2. QED BY <1>1, <1>2, <2>1, FieldSize, SizeIs
<1>4. width < NtoaCap /\ Size(s) + Size(p) + Size(ds) < NtoaCap
  <2> HIDE DEF f, front, s, p
  <2>1. QED BY <1>1, <1>2, <1>3
<1>5. z \in Int
  BY <1>1
<1>6. Hashed(Padded(ds, 0, w, flags), base, w, flags) = Cat(Cat(ds, Times(z, 0)), Reverse(p))
  BY <1>0, <1>4, ZeroHashed
<1>7. Size(ds) + Most(z, 0) + Size(p) < NtoaCap
  <2>1. z <= width - Size(p) - Size(ds)
    BY <1>1
  <2> HIDE DEF z, s, p
  <2>2. CASE z <= 0
    <3>1. Most(z, 0) = 0
      BY <1>5, <2>2, MostIs
    <3>2. QED BY <1>1, <1>4, <3>1
  <2>3. CASE ~(z <= 0)
    <3>1. Most(z, 0) = z
      BY <1>5, <2>3, MostIs
    <3>2. QED BY <1>1, <1>4, <1>5, <2>1, <3>1
  <2>4. QED BY <2>2, <2>3
<1> DEFINE num == Cat(Times(z, 0), Reverse(ds))
<1> HIDE DEF z
<1>8. Filled(ds, z, neg, base, 0, width, flags)
  BY <1>6, Zenon DEF Filled
<1>9. num \in Texts
  BY <1>1, <1>5, TimesText, CatIs
<1> HIDE DEF w
<1>10. Size(ds) + Most(z, 0) + Size(Prefix(base, flags)) < NtoaCap
  BY <1>7
<1>11. _ntoa_format(ds, neg, base, 0, width, flags) = Cat(Cat(Sign(neg, flags), Prefix(base, flags)), num)
  BY <1>0, <1>5, <1>8, <1>10, FilledEnds
<1>12. _ntoa_format(ds, neg, base, 0, width, flags) = Cat(front, num)
  BY <1>11
<1> HIDE DEF front, num, s, p
<1>13. Cat(front, num) = Cat(Cat(front, Times(z, 0)), Reverse(ds))
  BY <1>1, <1>2, <1>5, TimesText, CatThree DEF num
<1>14. z = width - Size(front) - Size(Reverse(ds))
  BY <1>1, <1>2 DEF z
<1>15. f = Cat(Cat(front, Times(z, 0)), Reverse(ds))
  BY <1>14, Zenon DEF Field
<1>16. _ntoa_format(ds, neg, base, 0, width, flags) = f
  BY <1>12, <1>13, <1>15, Zenon
<1>17. QED BY <1>16, Zenon DEF f, front, s, p, SignPrefix

-----------------------------------------------------------------------------
(* A directive for an integer                                              *)

\* The flags, the width and the precision of a directive.
Asked(d) == Parse(d.flags, d.width, d.prec, d.hasPrec)

\* The flags that are left for _ntoa_format.
Kept(d) ==
  Asked(d).flags \ ((IF BaseOf(d.spec) = 10 \/ ArgOf(d) = 0 THEN {"HASH"} ELSE {})
                     \cup (IF d.spec \notin {"d", "hhd"} THEN {"PLUS", "SPACE"} ELSE {})
                     \cup (IF "PRECISION" \in Asked(d).flags THEN {"ZEROPAD"} ELSE {}))

AllDigits(d) == DigitsOf(Magnitude(ArgOf(d)), BaseOf(d.spec))
Digits(d) == _ntoa_long(Magnitude(ArgOf(d)), BaseOf(d.spec), Kept(d))

\* The parts of the reference.
RefDigits(d) ==
  IF d.hasPrec /\ d.prec >= 0 /\ Asked(d).prec = 0 /\ ArgOf(d) = 0 THEN Empty ELSE Reverse(AllDigits(d))
RefNumber(d) == Cat(Times(Asked(d).prec - Size(RefDigits(d)), 0), RefDigits(d))
RefPrefix(d) ==
  IF "HASH" \notin d.flags \/ ArgOf(d) = 0 \/ BaseOf(d.spec) = 10 THEN Empty
  ELSE IF BaseOf(d.spec) # 8 THEN <<0, Letter>>
  ELSE IF Asked(d).prec > Size(RefDigits(d)) THEN Empty ELSE One(0)
RefSign(d) ==
  IF ArgOf(d) < 0 THEN One(Minus)
  ELSE IF d.spec \notin {"d", "hhd"} THEN Empty
  ELSE IF "PLUS" \in d.flags THEN One(Plus)
  ELSE IF "SPACE" \in d.flags THEN One(Blank) ELSE Empty

LEMMA ReferenceIs ==
  ASSUME NEW d
  PROVE  Reference(d) = Field("LEFT" \in Asked(d).flags, "ZEROPAD" \in d.flags /\ ~(d.hasPrec /\ d.prec >= 0),
                              Cat(RefSign(d), RefPrefix(d)), RefNumber(d), Asked(d).width)
BY Zenon DEF Reference, Field, Asked, AllDigits, RefDigits, RefNumber, RefPrefix, RefSign, Cat, Size, One, Empty

LEMMA IntegerTextIs ==
  ASSUME NEW d
  PROVE  IntegerText(d) = _ntoa_format(Digits(d), ArgOf(d) < 0, BaseOf(d.spec), Asked(d).prec, Asked(d).width, Kept(d))
BY Zenon DEF IntegerText, Asked, Kept, Digits

LEMMA ArgIs ==
  ASSUME NEW d \in Directives
  PROVE  /\ ArgOf(d) \in Int /\ Magnitude(ArgOf(d)) \in Nat /\ (Magnitude(ArgOf(d)) = 0 <=> ArgOf(d) = 0)
         /\ ArgOf(d) < 0 => d.spec = "d"
<1>1. d.value \in Nat /\ Two(LongBits) \in Nat \ {0} /\ Two(CharBits) \in Nat \ {0}
  <2>1. LongBits \in Nat /\ CharBits \in Nat /\ d.value \in 0 .. 2 ^ LongBits - 1
    BY PrintfAssumption DEF Directives
  <2>2. 2 ^ LongBits \in Nat \ {0} /\ 2 ^ CharBits \in Nat \ {0}
    BY <2>1, PowerIs
  <2>3. QED BY <2>1, <2>2 DEF Two
<1>2. d.value % Two(CharBits) \in Nat
  <2>1. \A m \in Nat \ {0}, n \in Int : n % m \in 0 .. m - 1
    BY Quotient, Zenon
  <2>2. \A m \in Nat \ {0}, n \in Nat : n % m \in Nat
    BY <2>1
  <2>3. QED BY <1>1, <2>2, Zenon
<1>3. ArgOf(d) \in Int /\ (ArgOf(d) < 0 => d.spec = "d")
  <2>1. CASE d.spec = "hhd"
    BY <1>2, <2>1 DEF ArgOf
  <2>2. CASE d.spec = "d" /\ d.value >= Two(LongBits - 1)
    BY <1>1, <2>2 DEF ArgOf
  <2>3. CASE d.spec # "hhd" /\ ~(d.spec = "d" /\ d.value >= Two(LongBits - 1))
    BY <1>1, <2>3 DEF ArgOf
  <2>4. QED BY <2>1, <2>2, <2>3
<1>4. QED BY <1>3 DEF Magnitude

LEMMA BasesAre ==
  ASSUME NEW d \in Directives
  PROVE  /\ BaseOf(d.spec) \in {2, 8, 10, 16}
         /\ BaseOf(d.spec) = 8 <=> d.spec = "o"
         /\ BaseOf(d.spec) = 16 <=> d.spec = "x"
         /\ BaseOf(d.spec) = 2 <=> d.spec = "b"
         /\ BaseOf(d.spec) = 10 <=> d.spec \in {"d", "hhd", "u"}
<1>1. d.spec \in {"d", "hhd", "u", "x", "o", "b"}
  BY DEF Directives
<1>2. QED BY <1>1 DEF BaseOf

LEMMA KeptAre ==
  ASSUME NEW d \in Directives
  PROVE  /\ "LEFT" \in Kept(d) <=> "LEFT" \in Asked(d).flags
         /\ "PRECISION" \in Kept(d) <=> d.hasPrec
         /\ "HASH" \in Kept(d) <=> "HASH" \in d.flags /\ BaseOf(d.spec) # 10 /\ ArgOf(d) # 0
         /\ "ZEROPAD" \in Kept(d) <=> "ZEROPAD" \in d.flags /\ ~d.hasPrec
         /\ "PLUS" \in Kept(d) <=> "PLUS" \in d.flags /\ d.spec \in {"d", "hhd"}
         /\ "SPACE" \in Kept(d) <=> "SPACE" \in d.flags /\ d.spec \in {"d", "hhd"}
         /\ Asked(d).width \in Nat /\ Asked(d).prec = IF d.hasPrec THEN Most(d.prec, 0) ELSE 0
         /\ Asked(d).prec \in Nat
<1>1. d.flags \subseteq Flags /\ d.hasPrec \in BOOLEAN /\ d.width \in Int /\ d.prec \in Int
  BY PrintfAssumption DEF Directives
<1>2. /\ Asked(d).flags = (IF d.width < 0 THEN d.flags \cup {"LEFT"} ELSE d.flags)
                           \cup (IF d.hasPrec THEN {"PRECISION"} ELSE {})
      /\ Asked(d).width = IF d.width < 0 THEN -d.width ELSE d.width
      /\ Asked(d).prec = IF d.hasPrec THEN Most(d.prec, 0) ELSE 0
  BY DEF Asked, Parse
<1>3. Asked(d).width \in Nat /\ Asked(d).prec \in Nat
  BY <1>1, <1>2 DEF Most
<1>4. "PRECISION" \notin d.flags
  BY <1>1 DEF Flags
<1>5. /\ "PRECISION" \in Asked(d).flags <=> d.hasPrec
      /\ \A f \in {"HASH", "ZEROPAD", "PLUS", "SPACE"} : f \in Asked(d).flags <=> f \in d.flags
  BY <1>2, <1>4
<1> DEFINE a == Asked(d).flags
<1> HIDE DEF a
<1>6. /\ "LEFT" \in Kept(d) <=> "LEFT" \in a
      /\ "PRECISION" \in Kept(d) <=> "PRECISION" \in a
      /\ "HASH" \in Kept(d) <=> "HASH" \in a /\ BaseOf(d.spec) # 10 /\ ArgOf(d) # 0
      /\ "ZEROPAD" \in Kept(d) <=> "ZEROPAD" \in a /\ "PRECISION" \notin a
      /\ "PLUS" \in Kept(d) <=> "PLUS" \in a /\ d.spec \in {"d", "hhd"}
      /\ "SPACE" \in Kept(d) <=> "SPACE" \in a /\ d.spec \in {"d", "hhd"}
  BY DEF Kept, a
<1>7. QED BY <1>2, <1>3, <1>5, <1>6 DEF a

\* What a directive that prints as the standard says has to do with the
\* reference: the same digits, prefix and sign.
LEMMA SameParts ==
  ASSUME NEW d \in Directives, ~Differs(d)
  PROVE  /\ Digits(d) \in Texts
         /\ RefNumber(d) = Cat(Times(Asked(d).prec - Size(Digits(d)), 0), Reverse(Digits(d)))
         /\ RefPrefix(d) = Prefix(BaseOf(d.spec), Kept(d))
         /\ RefSign(d) = Sign(ArgOf(d) < 0, Kept(d))
         /\ RefNumber(d) \in Texts /\ Cat(RefSign(d), RefPrefix(d)) \in Texts
         /\ Size(Reference(d)) < NtoaCap
         /\ ~d.hasPrec \/ ArgOf(d) # 0 => Digits(d) = AllDigits(d)
<1> DEFINE v == ArgOf(d)  base == BaseOf(d.spec)  f == Kept(d)  ds == AllDigits(d)  prec == Asked(d).prec
<1>1. v \in Int /\ Magnitude(v) \in Nat /\ (Magnitude(v) = 0 <=> v = 0) /\ (v < 0 => d.spec = "d")
  BY ArgIs
<1>2. ds \in Texts /\ Size(ds) \in Nat /\ Size(ds) >= 1 /\ (v = 0 => ds = One(0))
  <2>1. base \in Nat /\ base > 1
    BY BasesAre
  <2> HIDE DEF v, base
  <2>2. /\ DigitsOf(Magnitude(v), base) \in Seq(Nat) /\ Len(DigitsOf(Magnitude(v), base)) \in Nat
        /\ Len(DigitsOf(Magnitude(v), base)) >= 1
        /\ Magnitude(v) = 0 => DigitsOf(Magnitude(v), base) = <<0>>
    BY <1>1, <2>1, DigitsAre
  <2>3. QED BY <1>1, <2>2, Zenon DEF AllDigits, Texts, Size, One, v, base
<1>3. /\ d.flags \subseteq Flags /\ d.hasPrec \in BOOLEAN /\ d.prec \in Int /\ prec \in Nat
      /\ prec = IF d.hasPrec THEN Most(d.prec, 0) ELSE 0
  BY KeptAre, PrintfAssumption DEF Directives
<1>4. /\ ~(Size(Reference(d)) >= NtoaCap)
      /\ ~(d.hasPrec /\ d.prec < 0)
      /\ ~("HASH" \in d.flags /\ d.spec = "o" /\ prec > Size(ds))
  BY DEF Differs, Size, AllDigits, Asked
<1>5. /\ "HASH" \in f <=> "HASH" \in d.flags /\ base # 10 /\ v # 0
      /\ "PLUS" \in f <=> "PLUS" \in d.flags /\ d.spec \in {"d", "hhd"}
      /\ "SPACE" \in f <=> "SPACE" \in d.flags /\ d.spec \in {"d", "hhd"}
      /\ "PRECISION" \in f <=> d.hasPrec
      /\ base = 8 <=> d.spec = "o"
  BY KeptAre, BasesAre
<1>6. Digits(d) = IF d.hasPrec /\ v = 0 THEN Empty ELSE First(ds, Least(Size(ds), NtoaCap))
  BY <1>1, <1>5 DEF Digits, _ntoa_long, AllDigits, Empty, First, Size
<1>7. RefDigits(d) = IF d.hasPrec /\ prec = 0 /\ v = 0 THEN Empty ELSE Reverse(ds)
  BY <1>3, <1>4 DEF RefDigits
<1>8. RefSign(d) = Sign(v < 0, f)
  BY <1>5 DEF RefSign, Sign
<1> HIDE DEF v, base, f, ds, prec
<1>9. Reverse(ds) \in Texts /\ Size(Reverse(ds)) = Size(ds)
  BY <1>2, ReverseText
<1>10. RefDigits(d) \in Texts /\ Size(RefDigits(d)) \in Nat
  BY <1>7, <1>9, EmptyIs, SizeIs
<1>11. RefNumber(d) \in Texts /\ Size(RefNumber(d)) >= Size(RefDigits(d))
  <2>1. prec - Size(RefDigits(d)) \in Int
    BY <1>3, <1>10
  <2>2. /\ Times(prec - Size(RefDigits(d)), 0) \in Texts
        /\ Size(Times(prec - Size(RefDigits(d)), 0)) = Most(prec - Size(RefDigits(d)), 0)
        /\ Most(prec - Size(RefDigits(d)), 0) \in Nat
    BY <2>1, TimesText
  <2>3. RefNumber(d) = Cat(Times(prec - Size(RefDigits(d)), 0), RefDigits(d))
    BY Zenon DEF RefNumber, prec
  <2>4. /\ RefNumber(d) \in Texts
        /\ Size(RefNumber(d)) = Most(prec - Size(RefDigits(d)), 0) + Size(RefDigits(d))
    BY <1>10, <2>2, <2>3, CatIs
  <2>5. QED BY <1>10, <2>2, <2>4
<1>12. RefPrefix(d) = Prefix(base, f)
  <2>1. CASE "HASH" \notin f
    <3>1. "HASH" \notin d.flags \/ v = 0 \/ base = 10
      BY <1>5, <2>1
    <3>2. QED BY <2>1, <3>1 DEF RefPrefix, Prefix, v, base
  <2>2. CASE "HASH" \in f /\ base # 8
    <3>1. ~("HASH" \notin d.flags \/ v = 0 \/ base = 10)
      BY <1>5, <2>2
    <3>2. <<0, Letter>> = Cat(One(0), One(Letter))
      BY CharsAre, PairIs DEF Cat, One
    <3>3. RefPrefix(d) = <<0, Letter>>
      BY <2>2, <3>1, Zenon DEF RefPrefix, v, base
    <3>4. Prefix(base, f) = Cat(One(0), One(Letter))
      BY <2>2, Zenon DEF Prefix
    <3>5. QED BY <3>2, <3>3, <3>4, Zenon
  <2>3. CASE "HASH" \in f /\ base = 8
    <3>1. ~("HASH" \notin d.flags \/ v = 0 \/ base = 10) /\ v # 0 /\ d.spec = "o"
      BY <1>5, <2>3
    <3>2. RefDigits(d) = Reverse(ds)
      BY <1>7, <3>1
    <3>3. ~(prec > Size(RefDigits(d)))
      BY <1>4, <1>5, <1>9, <2>3, <3>1, <3>2
    <3>4. RefPrefix(d) = One(0)
      BY <2>3, <3>1, <3>3, Zenon DEF RefPrefix, v, base, prec
    <3>5. Prefix(base, f) = One(0)
      BY <2>3, Zenon DEF Prefix
    <3>6. QED BY <3>4, <3>5
  <2>4. QED BY <2>1, <2>2, <2>3
<1> DEFINE front == Cat(RefSign(d), RefPrefix(d))
<1>13. front \in Texts
  <2>1. (v < 0) \in BOOLEAN
    OBVIOUS
  <2>2. Sign(v < 0, f) \in Texts /\ Prefix(base, f) \in Texts
    BY <2>1, SignIs, PrefixIs
  <2>3. QED BY <1>8, <1>12, <2>2, CatIs
<1> HIDE DEF front
<1>14. Size(Reference(d)) \in Nat /\ Size(Reference(d)) >= Size(RefNumber(d)) /\ Size(Reference(d)) < NtoaCap
  <2> DEFINE left == "LEFT" \in Asked(d).flags  zeropad == "ZEROPAD" \in d.flags /\ ~(d.hasPrec /\ d.prec >= 0)
             width == Asked(d).width
  <2>1. left \in BOOLEAN /\ zeropad \in BOOLEAN
    OBVIOUS
  <2>2. width \in Nat
    BY KeptAre
  <2>3. Reference(d) = Field(left, zeropad, front, RefNumber(d), width)
    BY ReferenceIs, Zenon DEF front
  <2> HIDE DEF left, zeropad, width
  <2>4. /\ Field(left, zeropad, front, RefNumber(d), width) \in Texts
        /\ Size(Field(left, zeropad, front, RefNumber(d), width)) >= Size(front) + Size(RefNumber(d))
    BY <1>11, <1>13, <2>1, <2>2, FieldSize
  <2>5. Reference(d) \in Texts /\ Size(Reference(d)) >= Size(front) + Size(RefNumber(d))
    BY <2>3, <2>4
  <2>6. Size(Reference(d)) \in Nat /\ Size(front) \in Nat /\ Size(RefNumber(d)) \in Nat /\ NtoaCap \in Nat
    BY <1>11, <1>13, <2>5, SizeIs, CapIs
  <2>7. QED BY <1>4, <2>5, <2>6
<1>15. CASE ~(d.hasPrec /\ v = 0)
  <2>1. RefDigits(d) = Reverse(ds)
    BY <1>7, <1>15
  <2>2. Size(ds) < NtoaCap
    <3>1. Size(RefNumber(d)) \in Nat /\ NtoaCap \in Nat
      BY <1>11, SizeIs, CapIs
    <3>2. QED BY <1>2, <1>9, <1>11, <1>14, <2>1, <3>1
  <2>3. Least(Size(ds), NtoaCap) = Size(ds)
    BY <1>2, <2>2, CapIs DEF Least
  <2>4. Digits(d) = ds
    BY <1>2, <1>6, <1>15, <2>3, Beginning
  <2>5. RefNumber(d) = Cat(Times(prec - Size(Digits(d)), 0), Reverse(Digits(d)))
    BY <1>9, <2>1, <2>4 DEF RefNumber, prec
  <2>6. QED BY <1>2, <1>8, <1>11, <1>12, <1>13, <1>14, <2>4, <2>5 DEF front, v, base, f, prec, ds
<1>16. CASE d.hasPrec /\ v = 0
  <2>1. Digits(d) = Empty /\ Reverse(Empty) = Empty /\ Size(Empty) = 0 /\ Empty \in Texts
    BY <1>6, <1>16, EmptyIs
  <2>2. RefNumber(d) = Cat(Times(prec - Size(Digits(d)), 0), Reverse(Digits(d)))
    <3>1. CASE prec = 0
      <4>1. RefDigits(d) = Empty
        BY <1>7, <1>16, <3>1
      <4>2. QED BY <2>1, <4>1, Zenon DEF RefNumber, prec
    <3>2. CASE prec # 0
      <4>1. RefDigits(d) = One(0) /\ Size(One(0)) = 1 /\ Times(1, 0) = One(0)
        BY <1>2, <1>7, <1>16, <3>2, OneText
      <4>2. RefNumber(d) = Cat(Times(prec - 1, 0), Times(1, 0))
        BY <4>1 DEF RefNumber, prec
      <4>3. prec - 1 \in Nat /\ 1 \in Nat /\ (prec - 1) + 1 = prec
        BY <1>3, <3>2
      <4>4. Cat(Times(prec - 1, 0), Times(1, 0)) = Times(prec, 0)
        BY <4>3, CatTimes
      <4>5. Times(prec, 0) \in Texts /\ prec - 0 = prec
        BY <1>3, TimesText
      <4>6. Cat(Times(prec, 0), Empty) = Times(prec, 0)
        BY <4>5, EmptyIs
      <4>7. QED BY <2>1, <4>2, <4>4, <4>5, <4>6
    <3>3. QED BY <3>1, <3>2
  <2>3. QED BY <1>8, <1>11, <1>12, <1>13, <1>14, <1>16, <2>1, <2>2 DEF front, v, base, f, prec
<1>17. QED BY <1>15, <1>16

\* Outside the differences the model prints what the standard says.
LEMMA IntegerIs ==
  ASSUME NEW d \in Directives, ~d.hasPrec => d.prec = 0, ~Differs(d)
  PROVE  IntegerText(d) = Reference(d)
<1> DEFINE neg == ArgOf(d) < 0  base == BaseOf(d.spec)  f == Kept(d)  ds == Digits(d)
           prec == Asked(d).prec  width == Asked(d).width
           front == Cat(Sign(neg, f), Prefix(base, f))  num == Cat(Times(prec - Size(ds), 0), Reverse(ds))
           left == "LEFT" \in f  zeropad == "ZEROPAD" \in d.flags /\ ~(d.hasPrec /\ d.prec >= 0)
<1>1. /\ ds \in Texts /\ RefNumber(d) = num /\ num \in Texts /\ front \in Texts /\ Size(Reference(d)) < NtoaCap
      /\ Cat(RefSign(d), RefPrefix(d)) = front
      /\ ~d.hasPrec \/ ArgOf(d) # 0 => ds = AllDigits(d)
  BY SameParts
<1>2. /\ left <=> "LEFT" \in Asked(d).flags
      /\ "PRECISION" \in f <=> d.hasPrec
      /\ "HASH" \in f <=> "HASH" \in d.flags /\ base # 10 /\ ArgOf(d) # 0
      /\ "ZEROPAD" \in f <=> "ZEROPAD" \in d.flags /\ ~d.hasPrec
      /\ "PLUS" \in f <=> "PLUS" \in d.flags /\ d.spec \in {"d", "hhd"}
      /\ "SPACE" \in f <=> "SPACE" \in d.flags /\ d.spec \in {"d", "hhd"}
      /\ width \in Nat /\ prec \in Nat /\ prec = IF d.hasPrec THEN Most(d.prec, 0) ELSE 0
  BY KeptAre
<1>3. /\ d.hasPrec \in BOOLEAN /\ d.prec \in Int
      /\ base \in {2, 8, 10, 16} /\ (base = 8 <=> d.spec = "o") /\ (base = 16 <=> d.spec = "x")
      /\ (base = 2 <=> d.spec = "b") /\ (base = 10 <=> d.spec \in {"d", "hhd", "u"})
      /\ neg \in BOOLEAN /\ (neg => d.spec = "d")
  <2>1. d.hasPrec \in BOOLEAN /\ d.prec \in Int
    BY PrintfAssumption DEF Directives
  <2>2. /\ base \in {2, 8, 10, 16} /\ (base = 8 <=> d.spec = "o") /\ (base = 16 <=> d.spec = "x")
        /\ (base = 2 <=> d.spec = "b") /\ (base = 10 <=> d.spec \in {"d", "hhd", "u"})
    BY BasesAre
  <2>3. neg => d.spec = "d"
    BY ArgIs
  <2>4. neg \in BOOLEAN
    OBVIOUS
  <2> HIDE DEF neg, base
  <2>5. QED BY <2>1, <2>2, <2>3, <2>4
<1>4. /\ ~(d.hasPrec /\ (d.prec < 0 \/ "LEFT" \in Asked(d).flags))
      /\ ~(/\ "HASH" \in d.flags /\ d.spec \in {"x", "o", "b"} /\ ~d.hasPrec
           /\ \/ Size(AllDigits(d)) = width
              \/ /\ "ZEROPAD" \in d.flags /\ "LEFT" \notin Asked(d).flags /\ Size(AllDigits(d)) < width
                 /\ (d.spec = "b" \/ Size(AllDigits(d)) + (IF d.spec = "o" THEN 1 ELSE 2) > width))
  BY DEF Differs, Asked, AllDigits, Size
<1>5. zeropad <=> "ZEROPAD" \in f
  BY <1>2, <1>3, <1>4
<1>6. left \in BOOLEAN /\ zeropad \in BOOLEAN
  OBVIOUS
<1>7. Reference(d) = Field(left, zeropad, front, num, width)
  <2>1. Reference(d) = Field("LEFT" \in Asked(d).flags, zeropad, front, num, width)
    BY <1>1, ReferenceIs, Zenon
  <2>2. ("LEFT" \in Asked(d).flags) = left
    BY <1>2
  <2> HIDE DEF left, zeropad, front, num, width
  <2>3. QED BY <2>1, <2>2
<1>8. IntegerText(d) = _ntoa_format(ds, neg, base, prec, width, f)
  BY IntegerTextIs, Zenon
<1> HIDE DEF neg, base, f, ds, prec, width, front, num, left, zeropad
<1>9. /\ Size(Reference(d)) >= Size(front) + Size(num) /\ Size(Reference(d)) \in Nat
      /\ Size(front) \in Nat /\ Size(num) \in Nat /\ NtoaCap \in Nat /\ Size(ds) \in Nat
  <2>1. /\ Field(left, zeropad, front, num, width) \in Texts
        /\ Size(Field(left, zeropad, front, num, width)) >= Size(front) + Size(num)
    BY <1>1, <1>2, <1>6, FieldSize
  <2>2. QED BY <1>1, <1>7, <2>1, SizeIs, CapIs
<1>10. Size(front) + Size(num) < NtoaCap
  BY <1>1, <1>9
<1>11. "HASH" \in f => ~neg /\ ~Signed(neg, f) /\ d.spec \in {"x", "o", "b"} /\ ds = AllDigits(d)
  <2> HAVE "HASH" \in f
  <2>1. d.spec \in {"x", "o", "b"} /\ ArgOf(d) # 0
    BY <1>2, <1>3
  <2>2. ~neg /\ "PLUS" \notin f /\ "SPACE" \notin f
    BY <1>2, <1>3, <2>1
  <2>3. QED BY <1>1, <2>1, <2>2 DEF Signed
<1>12. CASE left \/ ~zeropad
  <2>1. "LEFT" \in f \/ "ZEROPAD" \notin f
    BY <1>5, <1>12 DEF left
  <2>2. "LEFT" \in f => prec = 0
    BY <1>2, <1>3, <1>4 DEF left
  <2>3. "HASH" \in f => "PRECISION" \in f \/ (prec = 0 /\ Size(ds) # width)
    BY <1>2, <1>3, <1>4, <1>11
  <2>4. _ntoa_format(ds, neg, base, prec, width, f) = Field(left, FALSE, front, num, width)
    <3>1. FitsPlain(ds, neg, base, prec, width, f)
      BY <1>10, <2>1, <2>2, <2>3, Zenon DEF FitsPlain, SignPrefix, Number, front, num
    <3>2. ds \in Texts /\ neg \in BOOLEAN /\ prec \in Nat /\ width \in Nat
      BY <1>1, <1>2, <1>3
    <3>3. IsPlain(ds, neg, base, prec, width, f)
      BY <3>1, <3>2, PlainForm
    <3>4. CASE left
      <4>1. left = TRUE /\ "LEFT" \in f
        BY <1>6, <3>4 DEF left
      <4>2. QED BY <3>3, <4>1, Zenon DEF IsPlain, SignPrefix, Number, front, num
    <3>5. CASE ~left
      <4>1. left = FALSE /\ "LEFT" \notin f
        BY <1>6, <3>5 DEF left
      <4>2. QED BY <3>3, <4>1, Zenon DEF IsPlain, SignPrefix, Number, front, num
    <3>6. QED BY <3>4, <3>5
  <2>5. Field(left, FALSE, front, num, width) = Field(left, zeropad, front, num, width)
    BY <1>12 DEF Field
  <2>6. QED BY <1>7, <1>8, <2>4, <2>5
<1>13. CASE ~left /\ zeropad
  <2>1. "LEFT" \notin f /\ "ZEROPAD" \in f /\ "PRECISION" \notin f /\ ~d.hasPrec /\ prec = 0
    BY <1>2, <1>5, <1>13 DEF left
  <2>2. num = Reverse(ds)
    <3>1. prec - Size(ds) \in Int /\ prec - Size(ds) <= 0
      BY <1>9, <2>1
    <3>2. Times(prec - Size(ds), 0) = Empty /\ Reverse(ds) \in Texts
      BY <1>1, <3>1, TimesText, ReverseText
    <3>3. QED BY <3>2, EmptyIs DEF num
  <2>3. "HASH" \in f => /\ ~Signed(neg, f) /\ Size(ds) # width
                        /\ Size(ds) < width => base \in {8, 16} /\ Size(ds) + Size(Prefix(base, f)) <= width
    <3> HAVE "HASH" \in f
    <3>1. /\ Size(ds) # width
          /\ Size(ds) < width => /\ d.spec # "b"
                                 /\ ~(Size(ds) + (IF d.spec = "o" THEN 1 ELSE 2) > width)
      BY <1>2, <1>4, <1>11, <1>13, <2>1 DEF zeropad
    <3>2. Size(Prefix(base, f)) = IF d.spec = "o" THEN 1 ELSE 2
      BY <1>3, PrefixIs
    <3>3. QED BY <1>2, <1>3, <1>9, <1>11, <3>1, <3>2
  <2>4. Reference(d) = Field(FALSE, TRUE, front, Reverse(ds), width)
    <3>1. left = FALSE /\ zeropad = TRUE
      BY <1>6, <1>13
    <3>2. QED BY <1>7, <2>2, <3>1
  <2>5. Size(Field(FALSE, TRUE, front, Reverse(ds), width)) < NtoaCap
    BY <1>1, <2>4
  <2>6. _ntoa_format(ds, neg, base, 0, width, f) = Field(FALSE, TRUE, front, Reverse(ds), width)
    <3>1. FitsZero(ds, neg, base, width, f)
      BY <2>1, <2>3, <2>5, Zenon DEF FitsZero, SignPrefix, front
    <3>2. ds \in Texts /\ neg \in BOOLEAN /\ width \in Nat
      BY <1>1, <1>2, <1>3
    <3>3. _ntoa_format(ds, neg, base, 0, width, f) = Field(FALSE, TRUE, SignPrefix(neg, base, f), Reverse(ds), width)
      BY <3>1, <3>2, ZeroForm
    <3>4. QED BY <3>3, Zenon DEF SignPrefix, front
  <2>7. QED BY <1>8, <2>1, <2>4, <2>6
<1>14. QED BY <1>6, <1>12, <1>13

-----------------------------------------------------------------------------
(* Widths                                                                  *)

LEMMA FirstIs ==
  ASSUME NEW s \in Texts, NEW n \in 0 .. Size(s)
  PROVE  First(s, n) \in Texts /\ Size(First(s, n)) = n
<1>1. s \in Seq(Nat) /\ Len(s) \in Nat /\ n \in 0 .. Len(s)
  BY LenProperties, SizeIs DEF Texts, Size
<1>2. CASE n = 0
  <2>1. SubSeq(s, 1, n) = <<>>
    BY <1>1, <1>2, SubSeqEmpty
  <2>2. QED BY <1>2, <2>1, EmptyIs, Zenon DEF First, Empty
<1>3. CASE n # 0
  <2>1. SubSeq(s, 1, n) \in Seq(Nat) /\ Len(SubSeq(s, 1, n)) = n
    BY <1>1, <1>3, SubSeqProperties
  <2>2. QED BY <2>1, Zenon DEF First, Texts, Size
<1>4. QED BY <1>2, <1>3

\* The prefix never makes a number shorter.
LEMMA HashSize ==
  ASSUME NEW buf \in Texts, NEW base, NEW w, NEW flags, Size(buf) <= NtoaCap
  PROVE  HashPrefix(buf, base, w, flags) \in Texts /\ Size(HashPrefix(buf, base, w, flags)) >= Size(buf)
<1> DEFINE drop == Drop(buf, base, w, flags)  kept == First(buf, Size(buf) - drop)
           a == Least(IF base = 8 THEN 0 ELSE 1, NtoaCap - Size(kept))  letter == Times(a, Letter)
           b == Least(1, NtoaCap - Size(kept) - Size(letter))  zero == Times(b, 0)
<1>1. HashPrefix(buf, base, w, flags) = Cat(Cat(kept, letter), zero)
  BY DEF HashPrefix, Drop, First, Cat, Size
<1>2. Size(buf) \in Nat /\ NtoaCap \in Nat
  BY SizeIs, CapIs
<1>3. drop \in 0 .. Size(buf) /\ drop <= 2 /\ (drop = 2 => base = 16)
  BY <1>2 DEF Drop, Least
<1> HIDE DEF drop
<1>4. kept \in Texts /\ Size(kept) = Size(buf) - drop
  BY <1>2, <1>3, FirstIs
<1> HIDE DEF kept
<1>5. a \in Int /\ (base = 8 => a <= 0) /\ (base # 8 /\ Size(kept) < NtoaCap => a = 1) /\ (Size(kept) < NtoaCap /\ base = 8 => a = 0)
  BY <1>2, <1>3, <1>4 DEF Least
<1> HIDE DEF a
<1>6. letter \in Texts /\ Size(letter) = Most(a, 0) /\ Most(a, 0) \in Nat
  BY <1>5, TimesText, CharsAre
<1>7. Most(a, 0) = IF a > 0 THEN a ELSE 0
  BY <1>5, MostIs
<1> HIDE DEF letter
<1>8. b \in Int /\ (Size(kept) + Size(letter) < NtoaCap => b = 1)
  BY <1>2, <1>3, <1>4, <1>6 DEF Least
<1> HIDE DEF b
<1>9. zero \in Texts /\ Size(zero) = Most(b, 0) /\ Most(b, 0) \in Nat
  BY <1>8, TimesText, CharsAre
<1>10. b = 1 => Most(b, 0) = 1
  BY MostIs
<1> HIDE DEF zero
<1>11. Cat(Cat(kept, letter), zero) \in Texts
       /\ Size(Cat(Cat(kept, letter), zero)) = Size(kept) + Size(letter) + Size(zero)
  <2>1. Cat(kept, letter) \in Texts /\ Size(Cat(kept, letter)) = Size(kept) + Size(letter)
    BY <1>4, <1>6, CatIs
  <2>2. QED BY <1>9, <2>1, CatIs
<1>12. Size(kept) + Size(letter) + Size(zero) >= Size(buf)
  <2>1. CASE drop = 0
    BY <1>2, <1>4, <1>6, <1>9, <2>1
  <2>2. CASE drop = 1 /\ base = 8
    BY <1>2, <1>3, <1>4, <1>5, <1>6, <1>7, <1>8, <1>9, <1>10, <2>2
  <2>3. CASE drop = 1 /\ base # 8
    BY <1>2, <1>3, <1>4, <1>5, <1>6, <1>7, <1>9, <2>3
  <2>4. CASE drop = 2
    <3>1. Size(letter) = 1
      BY <1>2, <1>3, <1>4, <1>5, <1>6, <1>7, <2>4
    <3>2. Size(zero) = 1
      BY <1>2, <1>3, <1>4, <1>8, <1>9, <1>10, <2>4, <3>1
    <3>3. QED BY <1>2, <1>4, <2>4, <3>1, <3>2
  <2>5. QED BY <1>3, <2>1, <2>2, <2>3, <2>4
<1>13. QED BY <1>1, <1>11, <1>12

\* _ntoa_format fills a width that its buffer can hold.
LEMMA WidthFilled ==
  ASSUME NEW ds \in Texts, NEW neg, NEW base, NEW prec \in Nat, NEW width \in Nat, NEW flags,
         Size(ds) <= NtoaCap
  PROVE  /\ _ntoa_format(ds, neg, base, prec, width, flags) \in Texts
         /\ width <= NtoaCap => Size(_ntoa_format(ds, neg, base, prec, width, flags)) >= width
<1> DEFINE w == InnerWidth(neg, width, flags)  zs == Zeros(prec, w, flags)  z == Least(zs, NtoaCap) - Size(ds)
           padded == Padded(ds, prec, w, flags)  h == Hashed(padded, base, w, flags)
           s == Sign(neg, flags)  buf == Ended(h, neg, flags)  text == _out_rev(buf, w, flags)
<1>1. _ntoa_format(ds, neg, base, prec, width, flags) = text
  BY FormatIs, Zenon
<1>2. Size(ds) \in Nat /\ NtoaCap \in Nat
  BY SizeIs, CapIs
<1>3. /\ w \in Nat /\ w <= width /\ width <= w + 1
      /\ w # width => Signed(neg, flags) /\ "LEFT" \notin flags /\ "ZEROPAD" \in flags
  BY DEF InnerWidth
<1> HIDE DEF w
<1>4. zs \in Nat /\ ("LEFT" \notin flags /\ "ZEROPAD" \in flags => zs >= w)
  BY <1>3 DEF Zeros, Most
<1> HIDE DEF zs
<1>5. /\ z \in Int /\ z + Size(ds) <= NtoaCap
      /\ "LEFT" \notin flags /\ "ZEROPAD" \in flags /\ w <= NtoaCap => z + Size(ds) >= w
  BY <1>2, <1>3, <1>4 DEF Least
<1>6. padded = Cat(ds, Times(z, 0))
  BY Zenon DEF Padded, zs
<1> HIDE DEF z, padded
<1>7. /\ Times(z, 0) \in Texts /\ Size(Times(z, 0)) = Most(z, 0) /\ Most(z, 0) \in Nat
      /\ Most(z, 0) = IF z > 0 THEN z ELSE 0
  BY <1>5, TimesText, MostIs
<1>8. padded \in Texts /\ Size(padded) = Size(ds) + Most(z, 0)
  BY <1>6, <1>7, CatIs
<1>9. Size(padded) <= NtoaCap /\ Size(padded) >= z + Size(ds)
  BY <1>2, <1>5, <1>7, <1>8
<1>10. h \in Texts /\ Size(h) >= Size(padded)
  <2>1. CASE "HASH" \in flags
    BY <1>8, <1>9, <2>1, HashSize DEF Hashed
  <2>2. CASE "HASH" \notin flags
    <3>1. h = padded
      BY <2>2 DEF Hashed
    <3>2. QED BY <1>2, <1>7, <1>8, <3>1
  <2>3. QED BY <2>1, <2>2
<1> HIDE DEF h
<1>11. s \in Texts /\ Size(s) = (IF Signed(neg, flags) THEN 1 ELSE 0) /\ Size(h) \in Nat
  BY <1>10, SignIs, SizeIs
<1>12. /\ buf \in Texts /\ Size(buf) \in Nat /\ Size(buf) >= Size(h)
       /\ Size(h) < NtoaCap => Size(buf) = Size(h) + Size(s)
  <2>1. CASE Size(h) >= NtoaCap
    <3>1. buf = h
      BY <1>10, <2>1, EmptyIs DEF Ended
    <3>2. QED BY <1>2, <1>10, <1>11, <2>1, <3>1
  <2>2. CASE Size(h) < NtoaCap
    <3>1. ~(Size(h) >= NtoaCap)
      BY <1>2, <1>11, <2>2
    <3>2. buf = Cat(h, s)
      BY <3>1, Zenon DEF Ended, s
    <3>3. QED BY <1>10, <1>11, <3>2, CatIs
  <2>3. QED BY <1>2, <1>11, <2>1, <2>2
<1> HIDE DEF buf, s
<1> DEFINE room == w - Size(buf)
<1>13. text = Around(Reverse(buf), room, flags)
  BY Zenon DEF _out_rev, Around, Cat, Empty, Size
<1>14. /\ Reverse(buf) \in Texts /\ Size(Reverse(buf)) = Size(buf)
       /\ room \in Int /\ Times(room, Blank) \in Texts /\ Size(Times(room, Blank)) = Most(room, 0)
       /\ Most(room, 0) \in Nat /\ (room >= 0 => Most(room, 0) = room)
  BY <1>3, <1>12, ReverseText, TimesText, CharsAre, MostIs
<1> HIDE DEF text
<1>15. CASE "LEFT" \in flags
  <2>1. text = Cat(Cat(Empty, Reverse(buf)), Times(room, Blank))
    <3>1. {"LEFT", "ZEROPAD"} \cap flags # {}
      BY <1>15
    <3>2. QED BY <1>13, <1>15, <3>1, Zenon DEF Around
  <2>2. Cat(Empty, Reverse(buf)) = Reverse(buf)
    BY <1>14, EmptyIs
  <2> HIDE DEF room
  <2>3. text \in Texts /\ Size(text) = Size(buf) + Most(room, 0)
    BY <1>14, <2>1, <2>2, CatIs
  <2>4. Size(text) >= w
    BY <1>3, <1>12, <1>14, <2>3 DEF room
  <2>5. w = width
    BY <1>3, <1>15
  <2>6. QED BY <1>1, <2>3, <2>4, <2>5
<1>16. CASE "LEFT" \notin flags /\ "ZEROPAD" \notin flags
  <2>1. text = Cat(Cat(Times(room, Blank), Reverse(buf)), Empty)
    <3>1. {"LEFT", "ZEROPAD"} \cap flags = {}
      BY <1>16
    <3>2. QED BY <1>13, <1>16, <3>1, Zenon DEF Around
  <2> HIDE DEF room
  <2>2. /\ Cat(Times(room, Blank), Reverse(buf)) \in Texts
        /\ Size(Cat(Times(room, Blank), Reverse(buf))) = Most(room, 0) + Size(buf)
    BY <1>14, CatIs
  <2>3. text \in Texts /\ Size(text) = Most(room, 0) + Size(buf)
    BY <2>1, <2>2, EmptyIs
  <2>4. Size(text) >= w
    BY <1>3, <1>12, <1>14, <2>3 DEF room
  <2>5. w = width
    BY <1>3, <1>16
  <2>6. QED BY <1>1, <2>3, <2>4, <2>5
<1>17. CASE "LEFT" \notin flags /\ "ZEROPAD" \in flags
  <2>1. text = Cat(Cat(Empty, Reverse(buf)), Empty)
    <3>1. {"LEFT", "ZEROPAD"} \cap flags # {}
      BY <1>17
    <3>2. QED BY <1>13, <1>17, <3>1, Zenon DEF Around
  <2>2. text = Reverse(buf)
    BY <1>14, <2>1, EmptyIs
  <2>3. text \in Texts /\ Size(text) = Size(buf)
    BY <1>14, <2>2
  <2>4. ASSUME width <= NtoaCap
        PROVE  Size(buf) >= width
    <3>1. w <= NtoaCap
      BY <1>2, <1>3, <2>4
    <3>2. Size(padded) >= w
      BY <1>2, <1>3, <1>5, <1>7, <1>8, <1>9, <1>17, <3>1
    <3>3. Size(h) >= w
      BY <1>2, <1>3, <1>7, <1>8, <1>10, <1>11, <3>2
    <3>4. CASE Size(h) >= NtoaCap
      BY <1>2, <1>11, <1>12, <2>4, <3>4
    <3>5. CASE Size(h) < NtoaCap /\ w = width
      BY <1>3, <1>11, <1>12, <3>3, <3>5
    <3>6. CASE Size(h) < NtoaCap /\ w # width
      BY <1>3, <1>11, <1>12, <3>3, <3>6
    <3>7. QED BY <1>2, <1>11, <3>4, <3>5, <3>6
  <2>5. QED BY <1>1, <2>3, <2>4
<1>18. QED BY <1>15, <1>16, <1>17

\* The digits that _ntoa_long keeps fit its buffer.
LEMMA DigitsFit ==
  ASSUME NEW d \in Directives
  PROVE  Digits(d) \in Texts /\ Size(Digits(d)) <= NtoaCap
<1> DEFINE ds == AllDigits(d)  n == Least(Size(ds), NtoaCap)
<1>1. NtoaCap \in Nat
  BY CapIs
<1>2. ds \in Texts
  <2>1. Magnitude(ArgOf(d)) \in Nat /\ BaseOf(d.spec) \in Nat /\ BaseOf(d.spec) > 1
    BY ArgIs, BasesAre
  <2>2. QED BY <2>1, DigitsAre DEF AllDigits, Texts
<1>3. Digits(d) = Empty \/ Digits(d) = First(ds, n)
  BY DEF Digits, _ntoa_long, AllDigits, Empty, First, Size
<1> HIDE DEF ds
<1>4. n \in 0 .. Size(ds) /\ n <= NtoaCap
  BY <1>1, <1>2, SizeIs DEF Least
<1>5. First(ds, n) \in Texts /\ Size(First(ds, n)) = n
  BY <1>2, <1>4, FirstIs
<1>6. QED BY <1>1, <1>3, <1>4, <1>5, EmptyIs

LEMMA IntegerFilled ==
  ASSUME NEW d \in Directives
  PROVE  /\ IntegerText(d) \in Texts
         /\ Asked(d).width <= NtoaCap => Size(IntegerText(d)) >= Asked(d).width
<1> DEFINE neg == ArgOf(d) < 0  base == BaseOf(d.spec)  f == Kept(d)  ds == Digits(d)
           prec == Asked(d).prec  width == Asked(d).width
<1>1. IntegerText(d) = _ntoa_format(ds, neg, base, prec, width, f)
  BY IntegerTextIs, Zenon
<1>2. ds \in Texts /\ Size(ds) <= NtoaCap /\ prec \in Nat /\ width \in Nat
  BY DigitsFit, KeptAre
<1> HIDE DEF neg, base, f, ds, prec, width
<1>3. /\ _ntoa_format(ds, neg, base, prec, width, f) \in Texts
      /\ width <= NtoaCap => Size(_ntoa_format(ds, neg, base, prec, width, f)) >= width
  BY <1>2, WidthFilled
<1>4. QED BY <1>1, <1>3 DEF width

-----------------------------------------------------------------------------
(* A directive for a string                                                *)

\* The letters of a text.
Letters(s) == {i \in DOMAIN s : s[i] = Letter}

LEMMA LettersLeft ==
  ASSUME NEW n \in Nat, NEW m \in Nat
  PROVE  Cardinality(Letters(Times(n, Letter) \o Times(m, Blank))) <= n
<1> DEFINE s == Times(n, Letter)  t == Times(m, Blank)
<1>1. Most(n, 0) = n /\ Most(m, 0) = m
  BY MostIs
<1>2. /\ s \in Seq(Nat) /\ Len(s) = n /\ t \in Seq(Nat) /\ Len(t) = m
      /\ \A i \in 1 .. m : t[i] = Blank
  <2>1. n \in Int /\ m \in Int /\ Letter \in Nat /\ Blank \in Nat
    BY CharsAre
  <2>2. s \in Seq(Nat) /\ Len(s) = Most(n, 0)
    BY <2>1, TimesIs, Zenon
  <2>3. t \in Seq(Nat) /\ Len(t) = Most(m, 0)
    BY <2>1, TimesIs, Zenon
  <2>4. \A i \in 1 .. Most(m, 0) : t[i] = Blank
    BY <2>1, TimesIs, Zenon
  <2>5. QED BY <1>1, <2>2, <2>3, <2>4, Zenon
<1> HIDE DEF s, t
<1>3. /\ Len(s \o t) = n + m
      /\ \A i \in 1 .. n + m : (s \o t)[i] = IF i <= n THEN s[i] ELSE t[i - n]
  <2>1. /\ Len(s \o t) = Len(s) + Len(t)
        /\ \A i \in 1 .. Len(s) + Len(t) : (s \o t)[i] = IF i <= Len(s) THEN s[i] ELSE t[i - Len(s)]
    BY <1>2, ConcatProperties, Zenon
  <2>2. QED BY <1>2, <2>1, Zenon
<1>4. DOMAIN (s \o t) = 1 .. n + m
  BY <1>2, <1>3
<1>5. Letters(s \o t) \in SUBSET (1 .. n)
  BY <1>2, <1>3, <1>4 DEF Letters, Letter, Blank
<1>6. IsFiniteSet(1 .. n) /\ Cardinality(1 .. n) = n
  BY FS_Interval
<1>7. Cardinality(Letters(s \o t)) <= n
  BY <1>5, <1>6, FS_Subset
<1>8. QED BY <1>7 DEF s, t

LEMMA LettersRight ==
  ASSUME NEW n \in Nat, NEW m \in Nat
  PROVE  Cardinality(Letters(Times(m, Blank) \o Times(n, Letter))) <= n
<1> DEFINE s == Times(m, Blank)  t == Times(n, Letter)
<1>1. Most(n, 0) = n /\ Most(m, 0) = m
  BY MostIs
<1>2. /\ s \in Seq(Nat) /\ Len(s) = m /\ t \in Seq(Nat) /\ Len(t) = n
      /\ \A i \in 1 .. m : s[i] = Blank
  <2>1. n \in Int /\ m \in Int /\ Letter \in Nat /\ Blank \in Nat
    BY CharsAre
  <2>2. s \in Seq(Nat) /\ Len(s) = Most(m, 0)
    BY <2>1, TimesIs, Zenon
  <2>3. t \in Seq(Nat) /\ Len(t) = Most(n, 0)
    BY <2>1, TimesIs, Zenon
  <2>4. \A i \in 1 .. Most(m, 0) : s[i] = Blank
    BY <2>1, TimesIs, Zenon
  <2>5. QED BY <1>1, <2>2, <2>3, <2>4, Zenon
<1> HIDE DEF s, t
<1>3. /\ Len(s \o t) = m + n
      /\ \A i \in 1 .. m + n : (s \o t)[i] = IF i <= m THEN s[i] ELSE t[i - m]
  <2>1. /\ Len(s \o t) = Len(s) + Len(t)
        /\ \A i \in 1 .. Len(s) + Len(t) : (s \o t)[i] = IF i <= Len(s) THEN s[i] ELSE t[i - Len(s)]
    BY <1>2, ConcatProperties, Zenon
  <2>2. QED BY <1>2, <2>1, Zenon
<1>4. DOMAIN (s \o t) = 1 .. m + n
  BY <1>2, <1>3
<1>5. Letters(s \o t) \in SUBSET (m + 1 .. m + n)
  BY <1>2, <1>3, <1>4 DEF Letters, Letter, Blank
<1>6. IsFiniteSet(m + 1 .. m + n) /\ Cardinality(m + 1 .. m + n) = n
  BY FS_Interval
<1>7. Cardinality(Letters(s \o t)) <= n
  BY <1>5, <1>6, FS_Subset
<1>8. QED BY <1>7 DEF s, t

\* A string fills its width, and shows at most its precision.
LEMMA StringFilled ==
  ASSUME NEW d \in StringDirectives
  PROVE  /\ StringText(d) \in Texts /\ Size(StringText(d)) >= Asked(d).width /\ Asked(d).width \in Nat
         /\ d.kind = "str" /\ d.hasPrec => Cardinality(Letters(StringText(d))) <= Asked(d).prec
<1> DEFINE n == IF d.kind = "char" THEN 1 ELSE ShownLen(d.value, Asked(d))  width == Asked(d).width
           room == width - n  shown == Times(n, Letter)  pad == Times(room, Blank)
<1>1. /\ d.flags \subseteq {"LEFT"} /\ d.hasPrec \in BOOLEAN /\ d.width \in Int /\ d.prec \in Int
      /\ d.value \in 0 .. 3 /\ d.kind \in {"str", "char"}
  BY PrintfAssumption DEF StringDirectives
<1>2. /\ Asked(d).flags = (IF d.width < 0 THEN d.flags \cup {"LEFT"} ELSE d.flags)
                           \cup (IF d.hasPrec THEN {"PRECISION"} ELSE {})
      /\ Asked(d).width = IF d.width < 0 THEN -d.width ELSE d.width
      /\ Asked(d).prec = IF d.hasPrec THEN Most(d.prec, 0) ELSE 0
  BY DEF Asked, Parse
<1>3. width \in Nat /\ Asked(d).prec \in Nat /\ ("PRECISION" \in Asked(d).flags <=> d.hasPrec)
  BY <1>1, <1>2 DEF Most
<1>4. n \in Nat /\ (d.kind = "str" /\ d.hasPrec => n <= Asked(d).prec)
  BY <1>1, <1>3 DEF ShownLen, Least
<1>5. StringText(d) = Cat(shown, pad) \/ StringText(d) = Cat(pad, shown)
  BY Zenon DEF StringText, Asked, Cat
<1> HIDE DEF n, width
<1>6. room \in Int /\ Most(room, 0) \in Nat /\ (room >= 0 => Most(room, 0) = room) /\ Most(n, 0) = n
  BY <1>3, <1>4, MostIs
<1>7. pad = Times(Most(room, 0), Blank)
  <2>1. Most(Most(room, 0), 0) = Most(room, 0)
    BY <1>6, MostIs
  <2>2. QED BY <2>1 DEF Times
<1>8. /\ shown \in Texts /\ Size(shown) = n /\ pad \in Texts /\ Size(pad) = Most(room, 0)
  BY <1>4, <1>6, TimesText, CharsAre
<1>9. n + Most(room, 0) >= width
  BY <1>3, <1>4, <1>6
<1>10. Cardinality(Letters(Cat(shown, pad))) <= n /\ Cardinality(Letters(Cat(pad, shown))) <= n
  BY <1>4, <1>6, <1>7, LettersLeft, LettersRight DEF Cat
<1> HIDE DEF shown, pad
<1>11. /\ Cat(shown, pad) \in Texts /\ Size(Cat(shown, pad)) = n + Most(room, 0)
       /\ Cat(pad, shown) \in Texts /\ Size(Cat(pad, shown)) = n + Most(room, 0)
  BY <1>4, <1>6, <1>8, CatIs
<1> HIDE DEF room
<1>12. StringText(d) \in Texts /\ Size(StringText(d)) >= width
  BY <1>5, <1>9, <1>11
<1>13. Cardinality(Letters(StringText(d))) <= n
  BY <1>5, <1>10
<1>14. d.kind = "str" /\ d.hasPrec => Cardinality(Letters(StringText(d))) <= Asked(d).prec
  <2> HAVE d.kind = "str" /\ d.hasPrec
  <2>1. Letters(StringText(d)) \in SUBSET DOMAIN StringText(d)
    BY DEF Letters
  <2>2. IsFiniteSet(DOMAIN StringText(d))
    <3>1. StringText(d) \in Seq(Nat) /\ Len(StringText(d)) \in Nat
      BY <1>12, LenProperties DEF Texts
    <3>2. DOMAIN StringText(d) = 1 .. Len(StringText(d))
      BY <3>1
    <3>3. QED BY <3>1, <3>2, FS_Interval
  <2>3. Cardinality(Letters(StringText(d))) \in Nat
    BY <2>1, <2>2, FS_Subset, FS_CardinalityType
  <2>4. QED BY <1>3, <1>4, <1>13, <2>3
<1>15. QED BY <1>3, <1>12, <1>14 DEF width

-----------------------------------------------------------------------------
(* The caller's buffer                                                     *)

\* Where the i-th character goes, the null last; what goes to the k-th byte;
\* and all the bytes.
Place(text, room, i) ==
  IF i <= Len(text) THEN i - 1 ELSE IF Len(text) < room THEN Len(text) ELSE (room - 1) % Two(LongBits)
Writes(text, room, k) ==
  {i \in 1 .. Len(Append(text, Nul)) : Place(text, room, i) < room /\ Place(text, room, i) = k - 1}
Byte(text, room, k) ==
  IF Writes(text, room, k) = {} THEN -1
  ELSE Append(text, Nul)[CHOOSE i \in Writes(text, room, k) : \A j \in Writes(text, room, k) : j <= i]
Bytes(text, room) == [k \in 1 .. room |-> Byte(text, room, k)]

\* The longest prefix that fits, and the null behind it.
LEMMA ByteIs ==
  ASSUME NEW text \in Seq(Nat), NEW room \in Rooms, room > 0, NEW k \in 1 .. Least(Len(text), room - 1) + 1
  PROVE  /\ k \in 1 .. room
         /\ Byte(text, room, k) = IF k <= Least(Len(text), room - 1) THEN text[k] ELSE Nul
<1> DEFINE n == Least(Len(text), room - 1)  L == Len(text)  ws == Writes(text, room, k)
<1>1. L \in Nat /\ room \in Nat /\ room - 1 \in 0 .. Two(LongBits) - 1 /\ Two(LongBits) \in Nat \ {0}
  <2>1. room \in 0 .. 2 ^ LongBits - 1 /\ 2 ^ LongBits \in Nat \ {0}
    BY PrintfAssumption, PowerIs
  <2>2. Len(text) \in Nat
    BY LenProperties
  <2>3. QED BY <2>1, <2>2 DEF Two
<1>2. (room - 1) % Two(LongBits) = room - 1
  <2> DEFINE m == Two(LongBits)  r == room - 1
  <2> HIDE DEF m, r
  <2>1. m \in Nat \ {0} /\ r \in 0 .. m - 1
    BY <1>1 DEF m, r
  <2>2. (0 * m + r) % m = r
    BY <2>1, QuotientIs
  <2>3. 0 * m + r = r
    BY <2>1
  <2>4. QED BY <2>2, <2>3 DEF m, r
<1>3. /\ Len(Append(text, Nul)) = L + 1 /\ Append(text, Nul)[L + 1] = Nul
      /\ \A i \in 1 .. L : Append(text, Nul)[i] = text[i]
  BY CharsAre, AppendProperties
<1>4. n \in Nat /\ n <= L /\ n <= room - 1 /\ k \in 1 .. n + 1 /\ (L < room => n = L) /\ (L >= room => n = room - 1)
  BY <1>1 DEF Least
<1> HIDE DEF n, L
<1>5. /\ \A i \in 1 .. L : Place(text, room, i) = i - 1
      /\ Place(text, room, L + 1) = n
  <2>1. ASSUME NEW i \in 1 .. L
        PROVE  Place(text, room, i) = i - 1
    <3>1. i <= L
      BY <1>1
    <3>2. QED BY <3>1, Zenon DEF Place, L
  <2>2. ~(L + 1 <= L)
    BY <1>1
  <2>3. Place(text, room, L + 1) = IF L < room THEN L ELSE room - 1
    BY <1>2, <2>2, Zenon DEF Place, L
  <2>4. QED BY <1>1, <1>4, <2>1, <2>3
<1>6. ws = {i \in 1 .. L + 1 : Place(text, room, i) < room /\ Place(text, room, i) = k - 1}
  BY <1>3 DEF Writes
<1> HIDE DEF ws
<1>7. CASE k <= n
  <2>1. ws = {k}
    <3>1. k \in 1 .. L /\ Place(text, room, k) = k - 1
      BY <1>1, <1>4, <1>5, <1>7
    <3>2. \A i \in 1 .. L : Place(text, room, i) = k - 1 => i = k
      BY <1>1, <1>5, <3>1
    <3>3. Place(text, room, L + 1) # k - 1
      BY <1>1, <1>4, <1>5, <1>7
    <3>4. \A i \in 1 .. L + 1 : i \in 1 .. L \/ i = L + 1
      BY <1>1
    <3>5. k \in ws
      BY <1>1, <1>4, <1>6, <3>1
    <3>6. \A i \in ws : i = k
      BY <1>6, <3>2, <3>3, <3>4
    <3>7. QED BY <3>5, <3>6
  <2>2. (CHOOSE i \in ws : \A j \in ws : j <= i) = k
    BY <1>4, <2>1
  <2>3. Byte(text, room, k) = Append(text, Nul)[CHOOSE i \in ws : \A j \in ws : j <= i]
    BY <2>1 DEF Byte, ws
  <2>4. Byte(text, room, k) = text[k]
    <3>1. k \in 1 .. L
      BY <1>1, <1>4, <1>7
    <3>2. Append(text, Nul)[k] = text[k]
      BY <1>3, <3>1
    <3>3. QED BY <2>2, <2>3, <3>2, Zenon
  <2>5. QED BY <1>1, <1>4, <1>7, <2>4 DEF n
<1>8. CASE k = n + 1
  <2>1. L + 1 \in ws /\ \A j \in ws : j <= L + 1
    BY <1>1, <1>4, <1>5, <1>6, <1>8
  <2>2. \A i \in ws : (\A j \in ws : j <= i) => i = L + 1
    <3>1. ws \subseteq 1 .. L + 1
      BY <1>6
    <3>2. QED BY <1>1, <2>1, <3>1
  <2>3. (CHOOSE i \in ws : \A j \in ws : j <= i) = L + 1
    BY <2>1, <2>2
  <2>4. Byte(text, room, k) = Append(text, Nul)[CHOOSE i \in ws : \A j \in ws : j <= i]
    BY <2>1 DEF Byte, ws
  <2>5. Byte(text, room, k) = Nul
    BY <1>3, <2>3, <2>4
  <2>6. QED BY <1>1, <1>4, <1>8, <2>5 DEF n
<1>9. QED BY <1>4, <1>7, <1>8

LEMMA BytesAre ==
  ASSUME NEW text \in Texts, NEW room \in Rooms, room > 0
  PROVE  LET n == Least(Len(text), room - 1)
         IN  SubSeq(Bytes(text, room), 1, n + 1) = Append(SubSeq(text, 1, n), Nul)
<1> DEFINE n == Least(Len(text), room - 1)  buf == Bytes(text, room)  S == {buf[k] : k \in 1 .. room}
           a == SubSeq(buf, 1, n + 1)  f == First(text, n)  b == Append(f, Nul)
<1>1. text \in Seq(Nat) /\ Len(text) \in Nat /\ room \in Nat
  <2>1. text \in Seq(Nat)
    BY Zenon DEF Texts
  <2>2. QED BY <2>1, LenProperties, PrintfAssumption
<1>2. n \in 0 .. Len(text) /\ n <= room - 1
  BY <1>1 DEF Least
<1>3. buf \in [1 .. room -> S] /\ \A k \in 1 .. room : buf[k] = Byte(text, room, k)
  BY DEF Bytes
<1>4. \A k \in 1 .. n + 1 : k \in 1 .. room /\ Byte(text, room, k) = IF k <= n THEN text[k] ELSE Nul
  BY <1>1, ByteIs
<1> HIDE DEF n, buf, S
<1>5. buf \in Seq(S) /\ Len(buf) = room
  BY <1>1, <1>3
<1>6. /\ a \in Seq(S) /\ Len(a) = n + 1
      /\ \A i \in 1 .. n + 1 : a[i] = buf[i]
  <2>1. 1 \in 1 .. Len(buf) /\ n + 1 \in 1 .. Len(buf)
    BY <1>1, <1>2, <1>5
  <2>2. /\ a \in Seq(S) /\ Len(a) = IF 1 <= n + 1 THEN (n + 1) - 1 + 1 ELSE 0
        /\ \A i \in 1 .. (n + 1) - 1 + 1 : a[i] = buf[1 + i - 1]
    BY <1>5, <2>1, SubSeqProperties
  <2> HIDE DEF a
  <2>3. QED BY <1>1, <1>2, <2>2
<1>7. /\ f \in Seq(Nat) /\ Len(f) = n
      /\ \A i \in 1 .. n : f[i] = text[i]
  <2>1. f \in Texts /\ Size(f) = n
    BY <1>1, <1>2, FirstIs DEF Size
  <2>2. CASE n = 0
    BY <2>1, <2>2 DEF Texts, Size
  <2>3. CASE n # 0
    <3>1. 1 \in 1 .. Len(text) /\ n \in 1 .. Len(text)
      BY <1>1, <1>2, <2>3
    <3>2. \A i \in 1 .. n - 1 + 1 : f[i] = text[1 + i - 1]
      BY <1>1, <3>1, SubSeqProperties DEF First
    <3> HIDE DEF f
    <3>3. QED BY <1>1, <1>2, <2>1, <3>2 DEF Texts, Size
  <2>4. QED BY <2>2, <2>3
<1> HIDE DEF f, a
<1>8. /\ b \in Seq(Nat) /\ Len(b) = n + 1 /\ b[n + 1] = Nul
      /\ \A i \in 1 .. n : b[i] = f[i]
  BY <1>7, CharsAre, AppendProperties
<1> HIDE DEF b
<1>9. \A i \in 1 .. n + 1 : a[i] = b[i]
  BY <1>2, <1>3, <1>4, <1>6, <1>7, <1>8
<1>10. a = b
  BY <1>6, <1>8, <1>9, SeqEqual
<1>11. QED BY <1>10, Zenon DEF a, b, f, n, buf, First

-----------------------------------------------------------------------------
(* The specification                                                       *)

Shown(d) == IF d.kind = "int" THEN IntegerText(d) ELSE StringText(d)

\* What holds of a directive, and of its text and its buffer at each step.
PrintInv ==
  /\ pr = [d |-> pr.d, room |-> pr.room, at |-> pr.at, text |-> pr.text, buf |-> pr.buf]
  /\ pr.d \in Directives \cup StringDirectives /\ pr.room \in Rooms
  /\ ~pr.d.hasPrec => pr.d.prec = 0
  /\ pr.at \in {"format", "out", "done"}
  /\ pr.at # "format" => pr.text = Shown(pr.d)
  /\ pr.at = "done" => pr.buf = Bytes(pr.text, pr.room)

LEMMA PrintInvInit == PrintfInit => PrintInv
<1> SUFFICES ASSUME PrintfInit
             PROVE  PrintInv
  OBVIOUS
<1>1. PICK d \in Directives \cup StringDirectives, n \in Rooms :
        /\ ~d.hasPrec => d.prec = 0
        /\ pr = [d |-> d, room |-> n, at |-> "format", text |-> <<>>, buf |-> <<>>]
  BY DEF PrintfInit
<1> HIDE DEF PrintfInit
<1>2. pr.d = d /\ pr.room = n /\ pr.at = "format" /\ pr.text = <<>> /\ pr.buf = <<>>
  BY <1>1
<1>3. QED BY <1>1, <1>2 DEF PrintInv

LEMMA PrintInvStep == PrintInv /\ [PrintfNext]_printfvars => PrintInv'
<1> SUFFICES ASSUME PrintInv, [PrintfNext]_printfvars
             PROVE  PrintInv'
  OBVIOUS
<1>1. CASE Convert
  <2>1. pr.at = "format" /\ pr' = [pr EXCEPT !.at = "out", !.text = Shown(pr.d)]
    BY <1>1 DEF Convert, Shown
  <2>2. pr' = [d |-> pr.d, room |-> pr.room, at |-> "out", text |-> Shown(pr.d), buf |-> pr.buf]
    BY <2>1 DEF PrintInv
  <2>3. /\ pr'.d = pr.d /\ pr'.room = pr.room /\ pr'.at = "out" /\ pr'.text = Shown(pr.d) /\ pr'.buf = pr.buf
    BY <2>2
  <2>4. QED BY <2>2, <2>3 DEF PrintInv
<1>2. CASE Output
  <2>1. pr.at = "out" /\ pr' = [pr EXCEPT !.at = "done", !.buf = Bytes(pr.text, pr.room)]
    BY <1>2, Zenon DEF Output, Bytes, Byte, Writes, Place, Terminator
  <2>2. pr' = [d |-> pr.d, room |-> pr.room, at |-> "done", text |-> pr.text, buf |-> Bytes(pr.text, pr.room)]
    BY <2>1 DEF PrintInv
  <2>3. /\ pr'.d = pr.d /\ pr'.room = pr.room /\ pr'.at = "done" /\ pr'.text = pr.text
        /\ pr'.buf = Bytes(pr.text, pr.room)
    BY <2>2
  <2>4. pr.text = Shown(pr.d)
    BY <2>1 DEF PrintInv
  <2>5. QED BY <2>2, <2>3, <2>4 DEF PrintInv
<1>3. CASE UNCHANGED printfvars
  BY <1>3 DEF printfvars, PrintInv
<1>4. QED BY <1>1, <1>2, <1>3 DEF PrintfNext

LEMMA PrintInvEnough == PrintInv => PrintfExact
<1> SUFFICES ASSUME PrintInv
             PROVE  PrintfExact
  OBVIOUS
<1> DEFINE d == pr.d
<1>1. /\ d \in Directives => d.kind = "int"
      /\ d \in StringDirectives => d.kind # "int"
      /\ d \in Directives \/ d \in StringDirectives
  BY DEF PrintInv, Directives, StringDirectives
<1>2. /\ ~d.hasPrec => d.prec = 0
      /\ pr.room \in Rooms
      /\ pr.at # "format" => pr.text = Shown(d)
      /\ pr.at = "done" => pr.buf = Bytes(pr.text, pr.room)
  BY DEF PrintInv
<1> HIDE DEF d
<1>3. IntegerAsStandard
  <2> SUFFICES ASSUME pr.at # "format", d.kind = "int", ~Differs(d)
               PROVE  pr.text = Reference(d)
    BY DEF IntegerAsStandard, d
  <2>1. IntegerText(d) = Reference(d)
    BY <1>1, <1>2, IntegerIs
  <2>2. QED BY <1>2, <2>1 DEF Shown
<1>4. Shown(d) \in Texts
  <2>1. CASE d \in Directives
    BY <1>1, <2>1, IntegerFilled DEF Shown
  <2>2. CASE d \in StringDirectives
    BY <1>1, <2>2, StringFilled DEF Shown
  <2>3. QED BY <1>1, <2>1, <2>2
<1>5. FieldFilled
  <2> SUFFICES ASSUME pr.at # "format"
               PROVE  /\ Asked(d).width <= NtoaCap => Size(pr.text) >= Asked(d).width
                      /\ d.kind = "str" /\ d.hasPrec => Cardinality(Letters(pr.text)) <= Asked(d).prec
    BY Zenon DEF FieldFilled, Asked, Letters, Size, d
  <2>1. CASE d \in Directives
    BY <1>1, <1>2, <2>1, IntegerFilled DEF Shown
  <2>2. CASE d \in StringDirectives
    BY <1>1, <1>2, <2>2, StringFilled DEF Shown
  <2>3. QED BY <1>1, <2>1, <2>2
<1>6. OutputTerminated
  <2> SUFFICES ASSUME pr.at = "done", pr.room > 0
               PROVE  LET n == Least(Len(pr.text), pr.room - 1)
                      IN  SubSeq(pr.buf, 1, n + 1) = Append(SubSeq(pr.text, 1, n), Nul)
    BY Zenon DEF OutputTerminated
  <2>1. pr.text \in Texts /\ pr.buf = Bytes(pr.text, pr.room)
    BY <1>2, <1>4
  <2>2. LET n == Least(Len(pr.text), pr.room - 1)
        IN  SubSeq(Bytes(pr.text, pr.room), 1, n + 1) = Append(SubSeq(pr.text, 1, n), Nul)
    BY <1>2, <2>1, BytesAre, Zenon
  <2>3. QED BY <2>1, <2>2, Zenon
<1>7. QED BY <1>3, <1>5, <1>6 DEF PrintfExact

\* Whatever the directive, the argument, the width, the precision and the
\* caller's buffer: outside the listed differences the standard's text, a field
\* as wide as asked, and a terminated prefix (printf.c).
THEOREM DirectivesPrinted == PrintfSpec => []PrintfExact
<1>1. PrintInv /\ [PrintfNext]_printfvars => PrintInv'
  BY PrintInvStep
<1>2. QED BY PrintInvInit, <1>1, PrintInvEnough, PTL DEF PrintfSpec
=============================================================================
