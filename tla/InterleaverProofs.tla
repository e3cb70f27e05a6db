-------------------------- MODULE InterleaverProofs --------------------------
(***************************************************************************)
(* Proofs about Interleaver, for any number of streams, any delays and     *)
(* times, any number of calls and any failure of memory and output.        *)
(***************************************************************************)
EXTENDS Interleaver, SequenceTheorems, WellFoundedInduction, TLAPS

-----------------------------------------------------------------------------
(* The inductive invariant.                                                *)

\* Packets are numbered by their calls, each once.
Numbered ==
  /\ \A i \in DOMAIN written : written[i].id <= nbCalls
  /\ \A i \in DOMAIN packet_buffer : packet_buffer[i].id <= nbCalls
  /\ \A i, j \in DOMAIN packet_buffer :
       packet_buffer[i].id = packet_buffer[j].id => i = j

\* The packets in the file and in the list.
Held ==
  {written[i] : i \in DOMAIN written}
    \cup {packet_buffer[i] : i \in DOMAIN packet_buffer}

\* Packet q, which comes after p, may follow it in a stream whose times are
\* checked.
Rises(p, q) == p.dts < q.dts \/ (NonStrict /\ p.dts = q.dts)

\* Above 0 the times of a stream that is not video rise: cur_dts has kept up
\* with the packets held, and each of them rises above those before it.
CheckedTimes ==
  /\ \A p \in Held :
       (CodecType[p.stream] # "video" /\ p.dts > 0) => p.dts <= cur_dts[p.stream]
  /\ \A p, q \in Held :
       /\ p.stream = q.stream
       /\ CodecType[p.stream] # "video"
       /\ p.dts > 0
       /\ p.id < q.id
       => Rises(p, q)

\* The reordering buffer is filled at once.
PtsFilled ==
  \A s \in Streams :
    \/ \A i \in 0..Delay[s] : pts_buffer[s][i] = NoPts
    \/ \A i \in 0..Delay[s] : pts_buffer[s][i] # NoPts

NewestInList ==
  \A i \in DOMAIN packet_buffer : packet_buffer[i].dts <= newest[packet_buffer[i].stream]

\* The list is sorted as long as no stream went back.
ListSorted ==
  wentBack = {} =>
    \A i, j \in DOMAIN packet_buffer :
      i < j => ~CompareDts(packet_buffer[i], packet_buffer[j])

\* What is written is not after what is still in the list ...
WrittenBeforeList ==
  wentBack = {} =>
    \A i \in DOMAIN written, j \in DOMAIN packet_buffer :
      (written[i].stream \in Prompt /\ packet_buffer[j].stream \in Prompt)
        => ~CompareDts(written[i], packet_buffer[j])

\* ... nor after what a stream that is waited for can still give.
WrittenBeforeNext ==
  (wentBack = {} /\ pc \in {"idle", "interleaving"}) =>
    \A i \in DOMAIN written : \A s \in Prompt :
      written[i].stream \in Prompt =>
        \/ written[i].dts < newest[s]
        \/ written[i].dts = newest[s] /\ written[i].stream <= s

IInv ==
  /\ TypeOK
  /\ Numbered
  /\ PointersLive
  /\ StreamsInOrder
  /\ CheckedTimes
  /\ PtsFilled
  /\ PtsBufferInOrder
  /\ NewestInList
  /\ ListSorted
  /\ WrittenBeforeList
  /\ WrittenBeforeNext
  /\ WrittenInterleaved
  /\ NothingLeftBehind

-----------------------------------------------------------------------------
(* Lemmas about the operators.                                             *)

\* A set of naturals that is not empty has a least element.
LEMMA LeastElement ==
  ASSUME NEW T \in SUBSET Nat, T # {}
  PROVE  \E m \in T : \A j \in T : m <= j
<1>1. PICK R : /\ IsWellFoundedOn(R, Nat)
               /\ \A x, y \in Nat : <<y, x>> \in R <=> y < x
  <2> DEFINE Below == OpToRel(<, Nat)
  <2>1. IsWellFoundedOn(Below, Nat)
    BY NatLessThanWellFounded
  <2>2. \A x, y \in Nat : <<y, x>> \in Below <=> y < x
    BY DEF OpToRel
  <2> HIDE DEF Below
  <2>3. QED
    BY <2>1, <2>2
<1>2. PICK x \in T : \A y \in T : ~(<<y, x>> \in R)
  BY <1>1, WFMin
<1>3. \A y \in T : ~(y < x)
  BY <1>1, <1>2
<1>4. QED
  BY <1>3

\* The sequence t is b with p behind k of its elements.
Inserted(t, b, k, p, S) ==
  /\ t \in Seq(S)
  /\ Len(t) = Len(b) + 1
  /\ \A i \in 1..(Len(b) + 1) :
       t[i] = IF i <= k THEN b[i] ELSE IF i = k + 1 THEN p ELSE b[i - 1]

\* Inserting p behind k elements of b.
LEMMA InsertAtProperties ==
  ASSUME NEW S, NEW b \in Seq(S), NEW k \in 0..Len(b), NEW p \in S
  PROVE  Inserted(InsertAt(b, k + 1, p), b, k, p, S)
<1> DEFINE l == SubSeq(b, 1, k)
           r == SubSeq(b, k + 1, Len(b))
<1>0. Len(b) \in Nat
  BY LenProperties
<1>1. /\ l \in Seq(S)
      /\ Len(l) = k
      /\ \A i \in 1..k : l[i] = b[i]
  BY SubSeqProperties, LenProperties, ElementOfSeq
<1>2. /\ r \in Seq(S)
      /\ Len(r) = Len(b) - k
      /\ \A i \in 1..(Len(b) - k) : r[i] = b[k + i]
  BY SubSeqProperties, LenProperties, ElementOfSeq
<1>3. /\ <<p>> \in Seq(S)
      /\ Len(<<p>>) = 1
      /\ <<p>>[1] = p
  OBVIOUS
<1> HIDE DEF l, r
<1> DEFINE lp == l \o <<p>>
           t  == lp \o r
<1>4. /\ lp \in Seq(S)
      /\ Len(lp) = k + 1
      /\ \A i \in 1..(k + 1) : lp[i] = IF i <= k THEN b[i] ELSE p
  BY <1>1, <1>3, ConcatProperties
<1> HIDE DEF lp
<1>5. /\ t \in Seq(S)
      /\ Len(t) = Len(b) + 1
      /\ \A i \in 1..(Len(b) + 1) :
           t[i] = IF i <= k + 1 THEN lp[i] ELSE r[i - (k + 1)]
  BY <1>2, <1>4, ConcatProperties
<1>6. InsertAt(b, k + 1, p) = t
  <2>1. (k + 1) - 1 = k
    OBVIOUS
  <2>2. SubSeq(b, 1, (k + 1) - 1) = l
    BY <2>1 DEF l
  <2>3. QED
    BY <2>2 DEF InsertAt, lp, r
<1> HIDE DEF t
<1>7. ASSUME NEW i \in 1..(Len(b) + 1)
      PROVE  t[i] = IF i <= k THEN b[i] ELSE IF i = k + 1 THEN p ELSE b[i - 1]
  <2>1. CASE i <= k + 1
    BY <1>0, <1>4, <1>5, <2>1
  <2>2. CASE i > k + 1
    <3>1. i - (k + 1) \in 1..(Len(b) - k) /\ k + (i - (k + 1)) = i - 1
      BY <1>0, <2>2
    <3>2. r[i - (k + 1)] = b[k + (i - (k + 1))]
      BY <1>2, <3>1
    <3>3. QED
      BY <1>0, <1>5, <2>2, <3>1, <3>2
  <2>3. QED
    BY <1>0, <2>1, <2>2
<1>8. QED
  BY <1>5, <1>6, <1>7 DEF Inserted

\* Swapping b[0] up to its place sorts b, if the rest was sorted.
LEMMA ReorderedProperties ==
  ASSUME NEW delay \in Nat, NEW b \in [0..delay -> Int],
         \A i, j \in 1..delay : i < j => b[i] <= b[j]
  PROVE  /\ Reordered(b, delay) \in [0..delay -> Int]
         /\ \A i, j \in 0..delay : i < j => Reordered(b, delay)[i] <= Reordered(b, delay)[j]
         /\ \A i \in 0..delay : \E j \in 0..delay : Reordered(b, delay)[i] = b[j]
         /\ Reordered(b, delay)[0] <= b[0]
<1> DEFINE Good(k) == /\ \A i \in 1..k : b[i] < b[0]
                      /\ k < delay => b[k + 1] >= b[0]
           T == {k \in 0..delay : k < delay => b[k + 1] >= b[0]}
           k0 == CHOOSE k \in 0..delay : Good(k)
<1>1. \E k \in 0..delay : Good(k)
  <2>1. delay \in T /\ T \in SUBSET Nat
    OBVIOUS
  <2>2. PICK k \in T : \A j \in T : k <= j
    BY <2>1, LeastElement
  <2>3. \A i \in 1..k : b[i] < b[0]
    <3> SUFFICES ASSUME NEW i \in 1..k
                 PROVE  b[i] < b[0]
      OBVIOUS
    <3>1. i - 1 \in 0..delay /\ i - 1 \notin T
      BY <2>2
    <3>2. QED
      BY <3>1
  <2>4. QED
    BY <2>2, <2>3
<1>2. k0 \in 0..delay /\ Good(k0)
  BY <1>1
<1>3. Reordered(b, delay) =
        [i \in 0..delay |-> IF i < k0 THEN b[i + 1] ELSE IF i = k0 THEN b[0] ELSE b[i]]
  BY DEF Reordered
<1> HIDE DEF k0
<1>4. QED
  BY <1>2, <1>3

LEMMA TimesMonotone ==
  ASSUME NEW a \in Int, NEW b \in Int, NEW d \in Nat, a <= b
  PROVE  a * d \in Int /\ b * d \in Int /\ a * d <= b * d
<1>1. (b - a) * d >= 0
  OBVIOUS
<1>2. (b - a) * d = b * d - a * d
  OBVIOUS
<1>3. a * d \in Int /\ b * d \in Int
  OBVIOUS
<1>4. QED
  BY <1>1, <1>2, <1>3

\* The times made up before the first pts are in order, and set.
LEMMA MadeUpTimes ==
  ASSUME NEW delay \in 0..16, NEW dur \in Nat, NEW pts \in Int,
         NEW none \in Int, none < pts - 17 * dur,
         NEW i \in 0..delay, NEW j \in 0..delay, i <= j
  PROVE  /\ pts + (i - delay - 1) * dur \in Int
         /\ pts + (i - delay - 1) * dur <= pts + (j - delay - 1) * dur
         /\ pts + (i - delay - 1) * dur # none
<1> DEFINE m == i - delay - 1
           n == j - delay - 1
<1>1. m \in Int /\ n \in Int /\ m <= n /\ -17 <= m
  OBVIOUS
<1> HIDE DEF m, n
<1>2. m * dur \in Int /\ n * dur \in Int /\ m * dur <= n * dur
  BY <1>1, TimesMonotone
<1>3. (-17) * dur \in Int /\ (-17) * dur <= m * dur
  BY <1>1, TimesMonotone
<1>4. (-17) * dur = 0 - 17 * dur
  OBVIOUS
<1>5. /\ pts + m * dur \in Int
      /\ pts + m * dur <= pts + n * dur
      /\ pts + m * dur # none
  BY <1>2, <1>3, <1>4
<1>6. QED
  BY <1>5 DEF m, n

\* Times in order, set everywhere or nowhere.
InOrder(b, delay) ==
  /\ b \in [0..delay -> Int]
  /\ \A i, j \in 0..delay : i < j => b[i] <= b[j]
  /\ \/ \A i \in 0..delay : b[i] = NoPts
     \/ \A i \in 0..delay : b[i] # NoPts

\* Times set everywhere, the one at the head is pts and the rest is in order.
NewAtHead(f, delay, pts) ==
  /\ f \in [0..delay -> Int]
  /\ f[0] = pts
  /\ \A i \in 0..delay : f[i] # NoPts
  /\ \A i, j \in 1..delay : i < j => f[i] <= f[j]

\* Filling a buffer that is in order, and set everywhere or nowhere.
LEMMA FilledProperties ==
  ASSUME NEW delay \in 0..16, NEW dur \in Nat, NEW pts \in Int,
         NoPts < pts - 17 * dur,
         NEW b, InOrder(b, delay)
  PROVE  NewAtHead(Filled(b, pts, delay, dur), delay, pts)
<1>b. /\ b \in [0..delay -> Int]
      /\ \A i, j \in 0..delay : i < j => b[i] <= b[j]
      /\ \/ \A i \in 0..delay : b[i] = NoPts
         \/ \A i \in 0..delay : b[i] # NoPts
  BY DEF InOrder
<1>0. NoPts \in Int
  BY TimeAssumption
<1>a. PICK filled : filled = Filled(b, pts, delay, dur)
  OBVIOUS
<1> DEFINE made(i) == pts + (i - delay - 1) * dur
<1>1. \A i, j \in 0..delay :
        i <= j => made(i) \in Int /\ made(i) <= made(j) /\ made(i) # NoPts
  BY <1>0, MadeUpTimes
<1>2. pts # NoPts
  <2>1. 17 * dur \in Nat
    OBVIOUS
  <2>2. QED
    BY <1>0, <2>1
<1>3. filled = [i \in 0..delay |-> IF i = 0 THEN pts
                                 ELSE IF \A j \in 1..i : b[j] = NoPts THEN made(i) ELSE b[i]]
  BY <1>a DEF Filled
<1> HIDE DEF made
<1>4. CASE \A i \in 0..delay : b[i] = NoPts
  <2>1. \A i \in 0..delay : \A j \in 1..i : b[j] = NoPts
    BY <1>4
  <2>2. \A i \in 0..delay : filled[i] = IF i = 0 THEN pts ELSE made(i)
    BY <1>3, <2>1
  <2>3. \A i \in 0..delay : filled[i] \in Int /\ filled[i] # NoPts
    BY <1>1, <1>2, <2>2
  <2>4. filled \in [0..delay -> Int]
    BY <1>3, <2>3
  <2>5. filled[0] = pts
    BY <2>2
  <2>6. ASSUME NEW i \in 1..delay, NEW j \in 1..delay, i < j
        PROVE  filled[i] <= filled[j]
    <3>1. i \in 0..delay /\ j \in 0..delay /\ i <= j /\ i # 0 /\ j # 0
      BY <2>6
    <3>2. filled[i] = made(i) /\ filled[j] = made(j)
      BY <2>2, <3>1
    <3>3. QED
      BY <1>1, <3>1, <3>2
  <2>7. QED
    BY <1>a, <2>3, <2>4, <2>5, <2>6 DEF NewAtHead
<1>5. CASE \A i \in 0..delay : b[i] # NoPts
  <2>1. ASSUME NEW i \in 1..delay
        PROVE  ~(\A j \in 1..i : b[j] = NoPts)
    <3>1. i \in 0..delay /\ i \in 1..i
      OBVIOUS
    <3>2. b[i] # NoPts
      BY <1>5, <3>1
    <3>3. QED
      BY <3>1, <3>2
  <2>2. ASSUME NEW i \in 0..delay
        PROVE  filled[i] = IF i = 0 THEN pts ELSE b[i]
    <3>1. CASE i = 0
      BY <1>3, <3>1
    <3>2. CASE i # 0
      <4>1. i \in 1..delay
        BY <3>2
      <4>2. QED
        BY <1>3, <2>1, <3>2, <4>1
    <3>3. QED
      BY <3>1, <3>2
  <2>3. \A i \in 0..delay : filled[i] \in Int /\ filled[i] # NoPts
    BY <1>b, <1>2, <1>5, <2>2
  <2>4. filled \in [0..delay -> Int]
    BY <1>3, <2>3
  <2>5. filled[0] = pts
    BY <2>2
  <2>6. ASSUME NEW i \in 1..delay, NEW j \in 1..delay, i < j
        PROVE  filled[i] <= filled[j]
    <3>1. i \in 0..delay /\ j \in 0..delay /\ i # 0 /\ j # 0
      BY <2>6
    <3>2. filled[i] = b[i] /\ filled[j] = b[j]
      BY <2>2, <3>1
    <3>3. QED
      BY <1>b, <2>6, <3>1, <3>2
  <2>7. QED
    BY <1>a, <2>3, <2>4, <2>5, <2>6 DEF NewAtHead
<1>6. QED
  BY <1>b, <1>4, <1>5

\* A stream that is given pts remembers times in order, all of them set, none
\* at its head after the pts.
LEMMA RememberedProperties ==
  ASSUME TypeOK, PtsFilled, PtsBufferInOrder, NEW s \in Streams, NEW pts \in Int,
         NoPts < pts - 17 * Duration[s]
  PROVE  /\ Remembered(s, pts) \in [0..Delay[s] -> Int]
         /\ \A i, j \in 0..Delay[s] : i < j => Remembered(s, pts)[i] <= Remembered(s, pts)[j]
         /\ \A i \in 0..Delay[s] : Remembered(s, pts)[i] # NoPts
         /\ Remembered(s, pts)[0] <= pts
         /\ Delay[s] = 0 => Remembered(s, pts)[0] = pts
<1>1. PICK delay, dur, b :
        delay = Delay[s] /\ dur = Duration[s] /\ b = pts_buffer[s]
  OBVIOUS
<1>2. PICK filled : filled = Filled(b, pts, delay, dur)
  OBVIOUS
<1>3. /\ delay \in 0..16
      /\ dur \in Nat
      /\ b \in [0..delay -> Int]
      /\ NoPts \in Int
      /\ NoPts < pts - 17 * dur
  BY <1>1, StreamAssumption, TimeAssumption DEF TypeOK
<1>4. InOrder(b, delay)
  BY <1>1, <1>3 DEF PtsBufferInOrder, PtsFilled, InOrder
<1>5. NewAtHead(filled, delay, pts)
  BY <1>2, <1>3, <1>4, FilledProperties, Zenon
<1>50. /\ filled \in [0..delay -> Int]
       /\ filled[0] = pts
       /\ \A i \in 0..delay : filled[i] # NoPts
       /\ \A i, j \in 1..delay : i < j => filled[i] <= filled[j]
  BY <1>5 DEF NewAtHead
<1>6. PICK r : r = Reordered(filled, delay)
  OBVIOUS
<1>7. /\ r \in [0..delay -> Int]
      /\ \A i, j \in 0..delay : i < j => r[i] <= r[j]
      /\ \A i \in 0..delay : \E j \in 0..delay : r[i] = filled[j]
      /\ r[0] <= filled[0]
  <2>1. delay \in Nat
    BY <1>3
  <2>2. QED
    BY <1>50, <1>6, <2>1, ReorderedProperties, Zenon
<1>8. Remembered(s, pts) = r
  BY <1>1, <1>2, <1>6 DEF Remembered
<1>9. delay = 0 => r[0] = pts
  BY <1>50, <1>7
<1>10. /\ \A i \in 0..delay : r[i] # NoPts
       /\ r[0] <= pts
  BY <1>50, <1>7
<1>11. /\ r \in [0..Delay[s] -> Int]
       /\ \A i, j \in 0..Delay[s] : i < j => r[i] <= r[j]
       /\ \A i \in 0..Delay[s] : r[i] # NoPts
       /\ r[0] <= pts
       /\ Delay[s] = 0 => r[0] = pts
  BY <1>1, <1>7, <1>9, <1>10, Zenon
<1>12. QED
  BY <1>8, <1>11, Zenon

\* The fields of a packet, and the times its stream remembers with it.
LEMMA FieldsProperties ==
  ASSUME TypeOK, PtsFilled, PtsBufferInOrder,
         NEW s \in Streams, NEW pts \in Int, NEW dts \in Int,
         pts # NoPts => NoPts < pts - 17 * Duration[s],
         dts # NoPts => NoPts < dts - 17 * Duration[s]
  PROVE  /\ Fields(s, pts, dts).pts \in Int
         /\ Fields(s, pts, dts).dts \in Int
         /\ InOrder(Fields(s, pts, dts).buffer, Delay[s])
<1>1. PICK f : f = Fields(s, pts, dts)
  OBVIOUS
<1>2. PICK pts1 : pts1 = IF pts = NoPts /\ Delay[s] = 0 THEN dts ELSE pts
  OBVIOUS
<1>3. PICK made \in BOOLEAN :
        made <=> (pts1 \in {0, NoPts} /\ dts = NoPts /\ Delay[s] = 0)
  OBVIOUS
<1>4. PICK pts2 : pts2 = IF made THEN next_pts[s] ELSE pts1
  OBVIOUS
<1>5. PICK dts2 : dts2 = IF made THEN next_pts[s] ELSE dts
  OBVIOUS
<1>6. PICK ask \in BOOLEAN : ask <=> (pts2 # NoPts /\ dts2 = NoPts)
  OBVIOUS
<1>7. PICK buf : buf = IF ask THEN Remembered(s, pts2) ELSE pts_buffer[s]
  OBVIOUS
<1>8. f.pts = pts2 /\ f.dts = (IF ask THEN buf[0] ELSE dts2) /\ f.buffer = buf
  BY <1>1, <1>2, <1>3, <1>4, <1>5, <1>6, <1>7 DEF Fields
<1>9. /\ NoPts \in Int /\ NoPts < 0
      /\ Delay[s] \in 0..16
      /\ Duration[s] \in Nat
      /\ next_pts[s] \in Int
  BY StreamAssumption, TimeAssumption DEF TypeOK
<1>10. InOrder(pts_buffer[s], Delay[s])
  BY DEF TypeOK, PtsFilled, PtsBufferInOrder, InOrder
<1>11. pts2 \in Int /\ dts2 \in Int
  BY <1>2, <1>3, <1>4, <1>5, <1>9
<1>12. ask => pts2 \in Int /\ NoPts < pts2 - 17 * Duration[s]
  BY <1>2, <1>3, <1>4, <1>5, <1>6, <1>9
<1>13. CASE ask
  <2>1. /\ Remembered(s, pts2) \in [0..Delay[s] -> Int]
        /\ InOrder(Remembered(s, pts2), Delay[s])
        /\ Delay[s] = 0 => Remembered(s, pts2)[0] = pts2
    BY <1>12, <1>13, RememberedProperties DEF InOrder
  <2>2. buf = Remembered(s, pts2) /\ f.dts = buf[0]
    BY <1>7, <1>8, <1>13
  <2>3. 0 \in 0..Delay[s]
    BY <1>9
  <2>4. buf[0] \in Int
    BY <2>1, <2>2, <2>3
  <2>5. QED
    BY <1>1, <1>8, <1>11, <2>1, <2>2, <2>4
<1>14. CASE ~ask
  <2>1. buf = pts_buffer[s] /\ f.dts = dts2
    BY <1>7, <1>8, <1>14
  <2>2. QED
    BY <1>1, <1>8, <1>10, <1>11, <2>1
<1>15. QED
  BY <1>13, <1>14

-----------------------------------------------------------------------------
(* The list.                                                               *)

\* The place of a node's number is the node's.
LEMMA PlaceOf ==
  ASSUME Numbered, NEW i \in DOMAIN packet_buffer
  PROVE  Place(packet_buffer[i].id) = i
BY DEF Numbered, Place

\* next_point starts behind the last packet of the stream, and only behind it.
LEMMA StartProperties ==
  ASSUME TypeOK, Numbered, PointersLive, NEW s \in Streams
  PROVE  /\ Start(s) \in 0..Len(packet_buffer)
         /\ \A i \in DOMAIN packet_buffer : packet_buffer[i].stream = s => i <= Start(s)
         /\ Start(s) # 0 => packet_buffer[Start(s)].stream = s
<1>1. packet_buffer \in Seq(Packet)
  BY DEF TypeOK
<1>2. /\ Len(packet_buffer) \in Nat
      /\ DOMAIN packet_buffer = 1..Len(packet_buffer)
  BY <1>1, LenProperties
<1>3. CASE HasPacket(s)
  <2>1. PICK i \in DOMAIN packet_buffer :
          /\ packet_buffer[i].id = last_in_packet_buffer[s]
          /\ packet_buffer[i].stream = s
          /\ \A j \in (i + 1)..Len(packet_buffer) : packet_buffer[j].stream # s
    BY <1>3 DEF PointersLive
  <2>2. Start(s) = i
    BY <1>3, <2>1, PlaceOf DEF Start, HasPacket
  <2>3. ASSUME NEW j \in DOMAIN packet_buffer, packet_buffer[j].stream = s
        PROVE  j <= i
    BY <1>2, <2>1, <2>3
  <2>4. QED
    BY <1>2, <2>1, <2>2, <2>3
<1>4. CASE ~HasPacket(s)
  <2>1. Start(s) = 0
    BY <1>4 DEF Start, HasPacket
  <2>2. \A i \in DOMAIN packet_buffer : packet_buffer[i].stream # s
    BY <1>4 DEF PointersLive
  <2>3. QED
    BY <1>2, <2>1, <2>2
<1>5. QED
  BY <1>3, <1>4

\* packet_buffer_end points to the last node.
LEMMA EndNode ==
  ASSUME TypeOK, Numbered, PointersLive, packet_buffer # <<>>
  PROVE  Node(packet_buffer_end) = packet_buffer[Len(packet_buffer)]
<1>1. Len(packet_buffer) \in DOMAIN packet_buffer
  BY LenProperties, EmptySeq DEF TypeOK
<1>2. packet_buffer_end = packet_buffer[Len(packet_buffer)].id
  BY DEF PointersLive
<1>3. QED
  BY <1>1, <1>2, PlaceOf DEF Node

\* A packet goes behind every packet of its stream; between a packet that is
\* not after it and one that it is not after, if the list is sorted and its
\* stream does not go back.
LEMMA InsertionProperties ==
  ASSUME TypeOK, Numbered, PointersLive, NewestInList, NEW p \in Packet
  PROVE  /\ Insertion(p) \in 0..Len(packet_buffer)
         /\ \A i \in DOMAIN packet_buffer :
              packet_buffer[i].stream = p.stream => i <= Insertion(p)
         /\ (/\ \A i, j \in DOMAIN packet_buffer :
                  i < j => ~CompareDts(packet_buffer[i], packet_buffer[j])
             /\ newest[p.stream] <= p.dts)
              => \A i \in DOMAIN packet_buffer :
                   IF i <= Insertion(p) THEN ~CompareDts(packet_buffer[i], p)
                   ELSE ~CompareDts(p, packet_buffer[i])
<1> DEFINE n == Len(packet_buffer)
           start == Start(p.stream)
           Behind(k) == /\ k < n => CompareDts(packet_buffer[k + 1], p)
                        /\ \A j \in start..(k - 1) : ~CompareDts(packet_buffer[j + 1], p)
           T == {k \in start..n : k < n => CompareDts(packet_buffer[k + 1], p)}
           Sorted == /\ \A i, j \in DOMAIN packet_buffer :
                          i < j => ~CompareDts(packet_buffer[i], packet_buffer[j])
                     /\ newest[p.stream] <= p.dts
<1>1. /\ packet_buffer \in Seq(Packet)
      /\ n \in Nat
      /\ DOMAIN packet_buffer = 1..n
      /\ \A i \in 1..n : packet_buffer[i] \in Packet
  BY LenProperties, ElementOfSeq DEF TypeOK
<1>2. /\ p.stream \in Streams
      /\ p.stream \in Int
      /\ p.dts \in Int
      /\ newest[p.stream] \in Int
      /\ \A i \in 1..n : packet_buffer[i].stream \in Int /\ packet_buffer[i].dts \in Int
  <2>1. \A s \in Streams : s \in Int
    BY StreamAssumption DEF Streams
  <2>2. \A q \in Packet : q.stream \in Streams /\ q.dts \in Int
    BY DEF Packet
  <2>3. newest[p.stream] \in Int
    BY <2>2 DEF TypeOK
  <2>4. QED
    BY <1>1, <2>1, <2>2, <2>3
<1>3. /\ start \in 0..n
      /\ \A i \in 1..n : packet_buffer[i].stream = p.stream => i <= start
      /\ start # 0 => packet_buffer[start].stream = p.stream
  BY <1>1, <1>2, StartProperties
<1>4. \E k \in start..n : Behind(k)
  <2>1. n \in T /\ T \in SUBSET Nat
    BY <1>1, <1>3
  <2>2. PICK k \in T : \A j \in T : k <= j
    BY <2>1, LeastElement
  <2>3. \A j \in start..(k - 1) : ~CompareDts(packet_buffer[j + 1], p)
    <3> SUFFICES ASSUME NEW j \in start..(k - 1)
                 PROVE  ~CompareDts(packet_buffer[j + 1], p)
      OBVIOUS
    <3>1. j \in start..n /\ j < k
      BY <1>1, <1>3
    <3>2. j \notin T
      BY <2>2, <3>1, <1>1, <1>3
    <3>3. QED
      BY <3>1, <3>2
  <2>4. QED
    BY <2>2, <2>3
<1>5. PICK k : k = Insertion(p)
  OBVIOUS
<1>6. \/ /\ k = n
         /\ start < n => ~CompareDts(packet_buffer[n], p)
      \/ k \in start..n /\ Behind(k)
  <2>1. CASE start < n
    <3>1. packet_buffer # <<>>
      BY <1>1, <1>3, <2>1, EmptySeq
    <3>2. Node(packet_buffer_end) = packet_buffer[n]
      BY <3>1, EndNode
    <3>3. CASE CompareDts(Node(packet_buffer_end), p)
      <4>1. k = CHOOSE j \in start..n : Behind(j)
        BY <1>5, <2>1, <3>3 DEF Insertion
      <4>2. QED
        BY <1>4, <4>1
    <3>4. CASE ~CompareDts(Node(packet_buffer_end), p)
      BY <1>5, <2>1, <3>2, <3>4 DEF Insertion
    <3>5. QED
      BY <3>3, <3>4
  <2>2. CASE ~(start < n)
    BY <1>5, <2>2 DEF Insertion
  <2>3. QED
    BY <2>1, <2>2
<1>7. k \in 0..n /\ start <= k
  BY <1>1, <1>3, <1>6
<1>8. ASSUME NEW i \in 1..n, packet_buffer[i].stream = p.stream
      PROVE  i <= k
  BY <1>1, <1>3, <1>7, <1>8
<1>9. ASSUME Sorted, NEW i \in 1..n
      PROVE  IF i <= k THEN ~CompareDts(packet_buffer[i], p)
             ELSE ~CompareDts(p, packet_buffer[i])
  <2>1. \A j \in 1..n : j < i => ~CompareDts(packet_buffer[j], packet_buffer[i])
    BY <1>1, <1>9
  <2>2. \A j \in 1..n : i < j => ~CompareDts(packet_buffer[i], packet_buffer[j])
    BY <1>1, <1>9
  <2>3. start # 0 => packet_buffer[start].dts <= p.dts
    <3> SUFFICES ASSUME start # 0
                 PROVE  packet_buffer[start].dts <= p.dts
      OBVIOUS
    <3>1. start \in 1..n /\ packet_buffer[start].stream = p.stream
      BY <1>1, <1>3
    <3>2. packet_buffer[start].dts <= newest[p.stream]
      BY <1>1, <3>1 DEF NewestInList
    <3>3. QED
      BY <1>2, <1>9, <3>1, <3>2
  <2>4. start # 0 => ~CompareDts(packet_buffer[start], p)
    BY <1>1, <1>2, <1>3, <2>3 DEF CompareDts
  <2>5. CASE i <= start
    <3>1. start \in 1..n /\ (i = start \/ i < start)
      BY <1>1, <1>3, <2>5
    <3>2. ~CompareDts(packet_buffer[i], p)
      BY <1>2, <2>2, <2>4, <3>1 DEF CompareDts
    <3>3. QED
      BY <1>1, <1>3, <1>7, <2>5, <3>2
  <2>6. CASE i > start /\ i <= k
    <3>1. CASE k = n /\ (start < n => ~CompareDts(packet_buffer[n], p))
      <4>1. n \in 1..n /\ (i = n \/ i < n)
        <5>1. n \in Nat
          BY <1>1
        <5>2. QED
          BY <5>1
      <4>10. start < n
        <5>1. start < i /\ i \in Int /\ start \in Int /\ i <= n
          BY <1>1, <1>3, <2>6
        <5>2. QED
          BY <1>1, <5>1
      <4>2. ~CompareDts(packet_buffer[n], p)
        BY <3>1, <4>10
      <4>3. ~CompareDts(packet_buffer[i], p)
        BY <1>2, <2>2, <4>1, <4>2 DEF CompareDts
      <4>4. QED
        BY <2>6, <4>3
    <3>2. CASE Behind(k)
      <4>1. i - 1 \in start..(k - 1) /\ (i - 1) + 1 = i
        BY <1>1, <1>3, <1>7, <2>6
      <4>2. ~CompareDts(packet_buffer[i], p)
        BY <3>2, <4>1
      <4>3. QED
        BY <2>6, <4>2
    <3>3. QED
      BY <1>6, <3>1, <3>2
  <2>7. CASE i > k
    <3>1. k < n /\ k + 1 \in 1..n /\ (i = k + 1 \/ k + 1 < i)
      BY <1>1, <1>7, <2>7
    <3>2. CompareDts(packet_buffer[k + 1], p)
      BY <1>1, <1>6, <3>1
    <3>3. ~CompareDts(p, packet_buffer[i])
      BY <1>2, <2>1, <3>1, <3>2 DEF CompareDts
    <3>4. QED
      BY <1>7, <2>7, <3>3
  <2>8. QED
    BY <1>1, <1>3, <1>7, <2>5, <2>6, <2>7
<1>10. QED
  BY <1>1, <1>5, <1>7, <1>8, <1>9

\* Where the i-th node was before a packet was put behind k nodes.
Old(k, i) == IF i <= k THEN i ELSE i - 1

\* The list behind AddPacket: k nodes, p and the others.
LEMMA AddPacketProperties ==
  ASSUME TypeOK, Numbered, PointersLive, NewestInList, NEW p \in Packet, AddPacket(p)
  PROVE  \E k \in 0..Len(packet_buffer) :
           /\ k = Insertion(p)
           /\ packet_buffer' \in Seq(Packet)
           /\ Len(packet_buffer') = Len(packet_buffer) + 1
           /\ DOMAIN packet_buffer' = 1..(Len(packet_buffer) + 1)
           /\ packet_buffer'[k + 1] = p
           /\ \A i \in 1..(Len(packet_buffer) + 1) :
                i # k + 1 => /\ Old(k, i) \in 1..Len(packet_buffer)
                             /\ packet_buffer'[i] = packet_buffer[Old(k, i)]
                             /\ Old(k, i) <= k <=> i <= k
           /\ \A i, j \in 1..(Len(packet_buffer) + 1) :
                (i # k + 1 /\ j # k + 1) => (i < j <=> Old(k, i) < Old(k, j))
           /\ packet_buffer_end' =
                IF k = Len(packet_buffer) THEN p.id ELSE packet_buffer_end
           /\ last_in_packet_buffer' = [last_in_packet_buffer EXCEPT ![p.stream] = p.id]
<1>1. packet_buffer \in Seq(Packet) /\ Len(packet_buffer) \in Nat
  BY LenProperties DEF TypeOK
<1>2. PICK k \in 0..Len(packet_buffer) : k = Insertion(p)
  BY InsertionProperties
<1>3. /\ packet_buffer' = InsertAt(packet_buffer, k + 1, p)
      /\ packet_buffer_end' =
           IF k = Len(packet_buffer) THEN p.id ELSE packet_buffer_end
      /\ last_in_packet_buffer' = [last_in_packet_buffer EXCEPT ![p.stream] = p.id]
  BY <1>2 DEF AddPacket
<1>4. /\ packet_buffer' \in Seq(Packet)
      /\ Len(packet_buffer') = Len(packet_buffer) + 1
      /\ \A i \in 1..(Len(packet_buffer) + 1) :
           packet_buffer'[i] = IF i <= k THEN packet_buffer[i]
                               ELSE IF i = k + 1 THEN p ELSE packet_buffer[i - 1]
  <2>1. Inserted(InsertAt(packet_buffer, k + 1, p), packet_buffer, k, p, Packet)
    BY <1>1, InsertAtProperties
  <2>2. QED
    BY <1>3, <2>1 DEF Inserted
<1>5. DOMAIN packet_buffer' = 1..(Len(packet_buffer) + 1)
  BY <1>4, LenProperties
<1>6. packet_buffer'[k + 1] = p
  BY <1>1, <1>4
<1>7. ASSUME NEW i \in 1..(Len(packet_buffer) + 1), i # k + 1
      PROVE  /\ Old(k, i) \in 1..Len(packet_buffer)
             /\ packet_buffer'[i] = packet_buffer[Old(k, i)]
             /\ Old(k, i) <= k <=> i <= k
  <2>1. Old(k, i) \in 1..Len(packet_buffer) /\ (Old(k, i) <= k <=> i <= k)
    BY <1>1, <1>7 DEF Old
  <2>2. packet_buffer'[i] = packet_buffer[Old(k, i)]
    BY <1>1, <1>4, <1>7 DEF Old
  <2>3. QED
    BY <2>1, <2>2
<1>8. ASSUME NEW i \in 1..(Len(packet_buffer) + 1),
             NEW j \in 1..(Len(packet_buffer) + 1), i # k + 1, j # k + 1
      PROVE  i < j <=> Old(k, i) < Old(k, j)
  BY <1>1, <1>8 DEF Old
<1>9. QED
  BY <1>2, <1>3, <1>4, <1>5, <1>6, <1>7, <1>8

\* The new packet keeps the list's nodes apart, its pointers live and its
\* streams in order.
LEMMA AddPacketKeepsPointers ==
  ASSUME TypeOK, Numbered, PointersLive, StreamsInOrder, NewestInList,
         NEW p \in Packet, p.id = nbCalls + 1, AddPacket(p),
         nbCalls' = nbCalls + 1, UNCHANGED written
  PROVE  Numbered' /\ PointersLive' /\ StreamsInOrder'
<1> DEFINE n == Len(packet_buffer)
<1>1. /\ packet_buffer \in Seq(Packet)
      /\ n \in Nat
      /\ DOMAIN packet_buffer = 1..n
      /\ \A i \in 1..n : packet_buffer[i] \in Packet
  BY LenProperties, ElementOfSeq DEF TypeOK
<1>2. /\ written \in Seq(Packet)
      /\ \A i \in DOMAIN written : written[i] \in Packet
  BY ElementOfSeq, LenProperties DEF TypeOK
<1>3. /\ \A q \in Packet : q.id \in Nat \ {0} /\ q.stream \in Streams
      /\ nbCalls \in Nat
  <2>1. nbCalls \in 0..MaxCalls /\ MaxCalls \in Nat
    BY TimeAssumption DEF TypeOK
  <2>2. nbCalls \in Nat
    BY <2>1
  <2>3. QED
    BY <2>2 DEF Packet
<1>4. PICK k \in 0..n :
        /\ k = Insertion(p)
        /\ packet_buffer' \in Seq(Packet)
        /\ Len(packet_buffer') = n + 1
        /\ DOMAIN packet_buffer' = 1..(n + 1)
        /\ packet_buffer'[k + 1] = p
        /\ \A i \in 1..(n + 1) :
             i # k + 1 => /\ Old(k, i) \in 1..n
                          /\ packet_buffer'[i] = packet_buffer[Old(k, i)]
                          /\ Old(k, i) <= k <=> i <= k
        /\ \A i, j \in 1..(n + 1) :
             (i # k + 1 /\ j # k + 1) => (i < j <=> Old(k, i) < Old(k, j))
        /\ packet_buffer_end' = IF k = n THEN p.id ELSE packet_buffer_end
        /\ last_in_packet_buffer' = [last_in_packet_buffer EXCEPT ![p.stream] = p.id]
  BY AddPacketProperties
<1>5. \A i \in 1..n : packet_buffer[i].stream = p.stream => i <= k
  BY <1>1, <1>4, InsertionProperties
<1>6. \A i \in 1..n : packet_buffer[i].id <= nbCalls
  BY <1>1 DEF Numbered
<1>9. Numbered'
  <2>1. \A i \in DOMAIN written' : written'[i].id <= nbCalls'
    BY <1>2, <1>3 DEF Numbered
  <2>2. ASSUME NEW i \in 1..(n + 1)
        PROVE  packet_buffer'[i].id <= nbCalls'
    <3>1. CASE i = k + 1
      BY <1>3, <1>4, <3>1
    <3>2. CASE i # k + 1
      <4>1. packet_buffer'[i].id <= nbCalls /\ packet_buffer'[i].id \in Nat
        BY <1>1, <1>3, <1>6, <1>4, <3>2
      <4>2. QED
        BY <1>3, <4>1
    <3>3. QED
      BY <3>1, <3>2
  <2>3. ASSUME NEW i \in 1..(n + 1), NEW j \in 1..(n + 1),
               packet_buffer'[i].id = packet_buffer'[j].id
        PROVE  i = j
    <3>1. CASE i # k + 1 /\ j # k + 1
      <4>1. packet_buffer[Old(k, i)].id = packet_buffer[Old(k, j)].id
        BY <1>4, <2>3, <3>1
      <4>2. Old(k, i) = Old(k, j)
        BY <1>1, <1>4, <3>1, <4>1 DEF Numbered
      <4>3. QED
        BY <1>4, <3>1, <4>2
    <3>2. ASSUME NEW m \in 1..(n + 1), m # k + 1
          PROVE  packet_buffer'[m].id # packet_buffer'[k + 1].id
      <4>1. packet_buffer'[m].id <= nbCalls /\ packet_buffer'[m].id \in Nat
        BY <1>1, <1>3, <1>6, <1>4, <3>2
      <4>2. QED
        BY <1>3, <1>4, <4>1
    <3>3. QED
      BY <2>3, <3>1, <3>2
  <2>4. QED
    BY <1>4, <2>1, <2>2, <2>3 DEF Numbered
<1>10. PointersLive'
  <2>1. packet_buffer' # <<>>
    BY <1>1, <1>4, EmptySeq
  <2>2. packet_buffer_end' = packet_buffer'[Len(packet_buffer')].id
    <3>1. CASE k = n
      BY <1>4, <3>1
    <3>2. CASE k # n
      <4>1. n + 1 \in (k + 2)..(n + 1) /\ (n + 1) - 1 = n /\ n # 0
        <5>1. n \in Nat /\ k \in 0..n
          BY <1>1
        <5>2. QED
          BY <3>2, <5>1
      <4>2. packet_buffer # <<>>
        BY <1>1, <4>1, EmptySeq
      <4>3. packet_buffer_end' = packet_buffer[n].id
        BY <1>4, <3>2, <4>2 DEF PointersLive
      <4>4. packet_buffer'[n + 1] = packet_buffer[n]
        <5>1. n + 1 \in 1..(n + 1) /\ n + 1 # k + 1 /\ Old(k, n + 1) = n
          <6>1. n \in Nat /\ k \in 0..n
            BY <1>1
          <6>2. QED
            BY <3>2, <6>1 DEF Old
        <5>2. QED
          BY <1>4, <5>1
      <4>5. QED
        BY <1>4, <4>3, <4>4
    <3>3. QED
      BY <3>1, <3>2
  <2>3. ASSUME NEW s \in Streams
        PROVE  IF last_in_packet_buffer'[s] # NULL
               THEN \E i \in 1..(n + 1) :
                      /\ packet_buffer'[i].id = last_in_packet_buffer'[s]
                      /\ packet_buffer'[i].stream = s
                      /\ \A j \in (i + 1)..(n + 1) : packet_buffer'[j].stream # s
               ELSE \A i \in 1..(n + 1) : packet_buffer'[i].stream # s
    <3>1. CASE s = p.stream
      <4>1. last_in_packet_buffer'[s] = p.id /\ p.id # NULL
        BY <1>3, <1>4, <3>1 DEF TypeOK, NULL
      <4>2. ASSUME NEW j \in (k + 2)..(n + 1)
            PROVE  packet_buffer'[j].stream # s
        <5>1. j \in 1..(n + 1) /\ j # k + 1 /\ ~(j <= k)
          BY <1>1
        <5>2. QED
          BY <1>5, <1>4, <3>1, <5>1
      <4>3. k + 1 \in 1..(n + 1) /\ (k + 1) + 1 = k + 2
        BY <1>1
      <4>4. QED
        BY <1>4, <3>1, <4>1, <4>2, <4>3
    <3>2. CASE s # p.stream
      <4>1. last_in_packet_buffer'[s] = last_in_packet_buffer[s]
        BY <1>4, <3>2 DEF TypeOK
      <4>2. CASE last_in_packet_buffer[s] # NULL
        <5>1. PICK m \in 1..n :
                /\ packet_buffer[m].id = last_in_packet_buffer[s]
                /\ packet_buffer[m].stream = s
                /\ \A j \in (m + 1)..n : packet_buffer[j].stream # s
          BY <1>1, <4>2 DEF PointersLive, HasPacket
        <5>2. PICK i \in 1..(n + 1) :
                i # k + 1 /\ Old(k, i) = m
          BY <1>1 DEF Old
        <5>3. ASSUME NEW j \in (i + 1)..(n + 1)
              PROVE  packet_buffer'[j].stream # s
          <6>1. CASE j = k + 1
            BY <1>4, <3>2, <6>1
          <6>2. CASE j # k + 1
            <7>1. j \in 1..(n + 1) /\ i < j
              BY <1>1
            <7>2. m < Old(k, j) /\ Old(k, j) \in 1..n
              BY <1>4, <5>2, <6>2, <7>1
            <7>3. Old(k, j) \in (m + 1)..n
              BY <1>1, <7>2
            <7>4. QED
              BY <1>4, <5>1, <6>2, <7>1, <7>3
          <6>3. QED
            BY <6>1, <6>2
        <5>4. packet_buffer'[i] = packet_buffer[m]
          BY <1>4, <5>2
        <5>5. QED
          BY <4>1, <4>2, <5>1, <5>3, <5>4
      <4>3. CASE last_in_packet_buffer[s] = NULL
        <5>1. \A i \in 1..n : packet_buffer[i].stream # s
          BY <1>1, <4>3 DEF PointersLive, HasPacket
        <5>2. ASSUME NEW i \in 1..(n + 1)
              PROVE  packet_buffer'[i].stream # s
          BY <1>4, <3>2, <5>1
        <5>3. QED
          BY <4>1, <4>3, <5>2
      <4>4. QED
        BY <4>2, <4>3
    <3>3. QED
      BY <3>1, <3>2
  <2>4. DOMAIN packet_buffer' = 1..(n + 1) /\ Len(packet_buffer') = n + 1
    BY <1>4
  <2>5. QED
    BY <2>1, <2>2, <2>3, <2>4 DEF PointersLive, HasPacket
<1>11. StreamsInOrder'
  <2>1. ASSUME NEW i \in DOMAIN written, NEW j \in 1..(n + 1),
               written[i].stream = packet_buffer'[j].stream
        PROVE  written[i].id < packet_buffer'[j].id
    <3>1. CASE j = k + 1
      <4>1. written[i].id <= nbCalls /\ written[i].id \in Nat
        BY <1>2, <1>3 DEF Numbered
      <4>2. QED
        BY <1>3, <1>4, <3>1, <4>1
    <3>2. CASE j # k + 1
      BY <1>1, <1>4, <2>1, <3>2 DEF StreamsInOrder
    <3>3. QED
      BY <3>1, <3>2
  <2>2. ASSUME NEW i \in 1..(n + 1), NEW j \in 1..(n + 1), i < j,
               packet_buffer'[i].stream = packet_buffer'[j].stream
        PROVE  packet_buffer'[i].id < packet_buffer'[j].id
    <3>1. CASE i = k + 1
      <4>1. j # k + 1 /\ ~(j <= k)
        BY <1>1, <2>2, <3>1
      <4>2. packet_buffer[Old(k, j)].stream = p.stream
        BY <1>4, <2>2, <3>1, <4>1
      <4>3. QED
        BY <1>5, <1>4, <4>1, <4>2
    <3>2. CASE j = k + 1
      <4>1. i # k + 1
        BY <2>2, <3>2
      <4>2. packet_buffer'[i].id <= nbCalls /\ packet_buffer'[i].id \in Nat
        BY <1>1, <1>3, <1>6, <1>4, <4>1
      <4>3. QED
        BY <1>3, <1>4, <3>2, <4>2
    <3>3. CASE i # k + 1 /\ j # k + 1
      <4>1. Old(k, i) < Old(k, j)
        BY <1>4, <2>2, <3>3
      <4>2. \A m, l \in 1..n :
              (m < l /\ packet_buffer[m].stream = packet_buffer[l].stream)
                => packet_buffer[m].id < packet_buffer[l].id
        BY <1>1 DEF StreamsInOrder
      <4>3. /\ packet_buffer'[i] = packet_buffer[Old(k, i)]
            /\ packet_buffer'[j] = packet_buffer[Old(k, j)]
            /\ Old(k, i) \in 1..n /\ Old(k, j) \in 1..n
        BY <1>4, <3>3
      <4>4. QED
        BY <2>2, <4>1, <4>2, <4>3
    <3>4. QED
      BY <3>1, <3>2, <3>3
  <2>3. QED
    BY <1>4, <2>1, <2>2 DEF StreamsInOrder
<1>12. QED
  BY <1>9, <1>10, <1>11

\* A packet that does not go back keeps the list sorted and behind the file.
LEMMA AddPacketKeepsOrder ==
  ASSUME TypeOK, Numbered, PointersLive, NewestInList, ListSorted,
         WrittenBeforeList, WrittenBeforeNext, WrittenInterleaved,
         NEW p \in Packet, AddPacket(p), pc = "idle", UNCHANGED written,
         newest' = [newest EXCEPT ![p.stream] = IF p.dts > @ THEN p.dts ELSE @],
         wentBack' = IF p.dts < newest[p.stream]
                     THEN wentBack \cup {p.stream} ELSE wentBack
  PROVE  /\ NewestInList' /\ ListSorted' /\ WrittenBeforeList'
         /\ WrittenBeforeNext' /\ WrittenInterleaved'
<1> DEFINE n == Len(packet_buffer)
<1>1. /\ packet_buffer \in Seq(Packet)
      /\ n \in Nat
      /\ DOMAIN packet_buffer = 1..n
      /\ \A i \in 1..n : packet_buffer[i] \in Packet
  BY LenProperties, ElementOfSeq DEF TypeOK
<1>2. \A i \in DOMAIN written : written[i] \in Packet
  BY ElementOfSeq, LenProperties DEF TypeOK
<1>3. \A q \in Packet : q.stream \in Streams /\ q.stream \in Int /\ q.dts \in Int
  BY StreamAssumption DEF Packet, Streams
<1>4. PICK k \in 0..n :
        /\ k = Insertion(p)
        /\ DOMAIN packet_buffer' = 1..(n + 1)
        /\ packet_buffer'[k + 1] = p
        /\ \A i \in 1..(n + 1) :
             i # k + 1 => /\ Old(k, i) \in 1..n
                          /\ packet_buffer'[i] = packet_buffer[Old(k, i)]
                          /\ Old(k, i) <= k <=> i <= k
        /\ \A i, j \in 1..(n + 1) :
             (i # k + 1 /\ j # k + 1) => (i < j <=> Old(k, i) < Old(k, j))
  BY AddPacketProperties
<1>5. /\ newest \in [Streams -> Int]
      /\ newest' \in [Streams -> Int]
      /\ \A s \in Streams : newest[s] <= newest'[s]
      /\ p.dts <= newest'[p.stream]
  <2>1. newest \in [Streams -> Int] /\ p.stream \in Streams /\ p.dts \in Int
    BY <1>3 DEF TypeOK
  <2>2. newest[p.stream] \in Int
    BY <2>1
  <2> QED
    BY <2>1, <2>2
<1>6. NewestInList'
  <2>1. ASSUME NEW i \in 1..(n + 1)
        PROVE  packet_buffer'[i].dts <= newest'[packet_buffer'[i].stream]
    <3>1. CASE i = k + 1
      BY <1>4, <1>5, <3>1
    <3>2. CASE i # k + 1
      <4>1. PICK q \in Packet : q = packet_buffer'[i] /\ q.dts <= newest[q.stream]
        BY <1>1, <1>4, <3>2 DEF NewestInList
      <4>2. QED
        BY <1>3, <1>5, <4>1
    <3>3. QED
      BY <3>1, <3>2
  <2>2. QED
    BY <1>4, <2>1 DEF NewestInList
<1>7. wentBack' = {} => wentBack = {} /\ newest[p.stream] <= p.dts
  <2>1. newest[p.stream] \in Int /\ p.dts \in Int
    BY <1>3, <1>5
  <2>2. p.dts < newest[p.stream] => p.stream \in wentBack'
    BY Zenon
  <2>3. ~(p.dts < newest[p.stream]) => wentBack' = wentBack
    BY Zenon
  <2>4. wentBack' = {} => ~(p.dts < newest[p.stream]) /\ wentBack' = wentBack
    BY <2>2, <2>3
  <2>5. ~(p.dts < newest[p.stream]) => newest[p.stream] <= p.dts
    BY <2>1
  <2>6. QED
    BY <2>4, <2>5, Zenon
<1>8. ListSorted'
  <2> SUFFICES ASSUME wentBack' = {},
                      NEW i \in 1..(n + 1), NEW j \in 1..(n + 1), i < j
               PROVE  ~CompareDts(packet_buffer'[i], packet_buffer'[j])
    BY <1>4 DEF ListSorted, CompareDts
  <2>1. /\ \A m, l \in 1..n : m < l => ~CompareDts(packet_buffer[m], packet_buffer[l])
        /\ \A m \in 1..n : IF m <= k THEN ~CompareDts(packet_buffer[m], p)
                           ELSE ~CompareDts(p, packet_buffer[m])
    <3>1. \A m, l \in DOMAIN packet_buffer :
            m < l => ~CompareDts(packet_buffer[m], packet_buffer[l])
      BY <1>7 DEF ListSorted
    <3>2. \A m \in DOMAIN packet_buffer :
            IF m <= Insertion(p) THEN ~CompareDts(packet_buffer[m], p)
            ELSE ~CompareDts(p, packet_buffer[m])
      BY <1>7, <3>1, InsertionProperties
    <3>3. QED
      BY <1>1, <1>4, <3>1, <3>2
  <2>2. CASE i = k + 1
    <3>1. j # k + 1 /\ ~(j <= k)
      BY <1>1, <2>2
    <3>2. QED
      BY <1>4, <2>1, <2>2, <3>1
  <2>3. CASE j = k + 1
    <3>1. i # k + 1 /\ i <= k
      BY <1>1, <2>3
    <3>2. QED
      BY <1>4, <2>1, <2>3, <3>1
  <2>4. CASE i # k + 1 /\ j # k + 1
    BY <1>4, <2>1, <2>4
  <2>5. QED
    BY <2>2, <2>3, <2>4
<1>9. WrittenBeforeList'
  <2> SUFFICES ASSUME wentBack' = {},
                      NEW i \in DOMAIN written, NEW j \in 1..(n + 1),
                      written[i].stream \in Prompt,
                      packet_buffer'[j].stream \in Prompt
               PROVE  ~CompareDts(written[i], packet_buffer'[j])
    BY <1>4 DEF WrittenBeforeList, CompareDts
  <2>1. CASE j = k + 1
    <3>1. \/ written[i].dts < newest[p.stream]
          \/ written[i].dts = newest[p.stream] /\ written[i].stream <= p.stream
      BY <1>4, <1>7, <2>1 DEF WrittenBeforeNext
    <3>2. newest[p.stream] <= p.dts
      BY <1>7
    <3>3. QED
      BY <1>2, <1>3, <1>4, <1>5, <2>1, <3>1, <3>2 DEF CompareDts
  <2>2. CASE j # k + 1
    BY <1>1, <1>4, <1>7, <2>2 DEF WrittenBeforeList
  <2>3. QED
    BY <2>1, <2>2
<1>10. WrittenBeforeNext'
  <2> SUFFICES ASSUME wentBack' = {},
                      NEW i \in DOMAIN written, NEW s \in Prompt,
                      written[i].stream \in Prompt
               PROVE  \/ written[i].dts < newest'[s]
                      \/ written[i].dts = newest'[s] /\ written[i].stream <= s
    BY DEF WrittenBeforeNext
  <2>1. \/ written[i].dts < newest[s]
        \/ written[i].dts = newest[s] /\ written[i].stream <= s
    BY <1>7 DEF WrittenBeforeNext
  <2>2. s \in Streams
    BY DEF Prompt
  <2>3. /\ newest[s] \in Int /\ newest'[s] \in Int
        /\ newest[s] <= newest'[s] /\ written[i].dts \in Int
    BY <1>2, <1>3, <1>5, <2>2
  <2>4. QED
    BY <2>1, <2>3
<1>11. WrittenInterleaved'
  BY <1>7 DEF WrittenInterleaved, CompareDts
<1>12. QED
  BY <1>6, <1>8, <1>9, <1>10, <1>11

\* The list behind RemoveHead.
LEMMA RemoveHeadProperties ==
  ASSUME TypeOK, packet_buffer # <<>>, RemoveHead
  PROVE  /\ Len(packet_buffer) \in Nat \ {0}
         /\ DOMAIN packet_buffer = 1..Len(packet_buffer)
         /\ Head(packet_buffer) = packet_buffer[1]
         /\ \A i \in 1..Len(packet_buffer) : packet_buffer[i] \in Packet
         /\ packet_buffer' \in Seq(Packet)
         /\ Len(packet_buffer') = Len(packet_buffer) - 1
         /\ DOMAIN packet_buffer' = 1..(Len(packet_buffer) - 1)
         /\ \A i \in 1..(Len(packet_buffer) - 1) :
              packet_buffer'[i] = packet_buffer[i + 1]
<1>1. packet_buffer \in Seq(Packet)
  BY DEF TypeOK
<1>2. /\ Len(packet_buffer) \in Nat \ {0}
      /\ DOMAIN packet_buffer = 1..Len(packet_buffer)
      /\ \A i \in 1..Len(packet_buffer) : packet_buffer[i] \in Packet
  BY <1>1, LenProperties, ElementOfSeq, EmptySeq
<1>3. packet_buffer' = Tail(packet_buffer)
  BY DEF RemoveHead
<1>4. /\ Head(packet_buffer) = packet_buffer[1]
      /\ packet_buffer' \in Seq(Packet)
      /\ Len(packet_buffer') = Len(packet_buffer) - 1
      /\ \A i \in 1..Len(packet_buffer') : packet_buffer'[i] = packet_buffer[i + 1]
  BY <1>1, <1>3, HeadTailProperties
<1>5. DOMAIN packet_buffer' = 1..(Len(packet_buffer) - 1)
  BY <1>4, LenProperties
<1>6. QED
  BY <1>2, <1>4, <1>5

\* Without its head the list still has live pointers and nodes apart.
LEMMA RemoveHeadKeepsPointers ==
  ASSUME TypeOK, Numbered, PointersLive, packet_buffer # <<>>, RemoveHead
  PROVE  /\ PointersLive'
         /\ packet_buffer_end' \in Nat
         /\ last_in_packet_buffer' \in [Streams -> Nat]
<1> DEFINE n == Len(packet_buffer)
           h == packet_buffer[1]
<1>1. /\ n \in Nat \ {0}
      /\ DOMAIN packet_buffer = 1..n
      /\ Head(packet_buffer) = h
      /\ \A i \in 1..n : packet_buffer[i] \in Packet
      /\ packet_buffer' \in Seq(Packet)
      /\ Len(packet_buffer') = n - 1
      /\ DOMAIN packet_buffer' = 1..(n - 1)
      /\ \A i \in 1..(n - 1) : packet_buffer'[i] = packet_buffer[i + 1]
  BY RemoveHeadProperties
<1>2. \A q \in Packet : q.id \in Nat \ {0} /\ q.stream \in Streams
  BY DEF Packet
<1>3. 1 \in 1..n /\ n \in 1..n
  <2>1. n \in Nat \ {0}
    BY <1>1
  <2>2. QED
    BY <2>1
<1>4. \A i, j \in 1..n : packet_buffer[i].id = packet_buffer[j].id => i = j
  BY <1>1 DEF Numbered
<1>5. packet_buffer_end' = IF n = 1 THEN NULL ELSE packet_buffer_end
  BY DEF RemoveHead
<1>6. packet_buffer_end = packet_buffer[n].id
  BY DEF PointersLive
<1>7. packet_buffer_end' \in Nat
  BY <1>5 DEF TypeOK, NULL
<1>8. last_in_packet_buffer' =
        IF last_in_packet_buffer[h.stream] = h.id
        THEN [last_in_packet_buffer EXCEPT ![h.stream] = NULL]
        ELSE last_in_packet_buffer
  BY <1>1 DEF RemoveHead
<1>9. last_in_packet_buffer' \in [Streams -> Nat]
  BY <1>8 DEF TypeOK, NULL
<1>10. packet_buffer_end' =
         IF packet_buffer' = <<>> THEN NULL ELSE packet_buffer'[Len(packet_buffer')].id
  <2>1. CASE n = 1
    <3>1. packet_buffer' = <<>>
      BY <1>1, <2>1, EmptySeq
    <3>2. QED
      BY <1>5, <2>1, <3>1
  <2>2. CASE n # 1
    <3>1. n - 1 \in 1..(n - 1) /\ (n - 1) + 1 = n
      <4>1. PICK m \in Nat \ {0} : m = n
        BY <1>1
      <4>2. m - 1 \in 1..(m - 1) /\ (m - 1) + 1 = m
        BY <2>2, <4>1
      <4>3. QED
        BY <4>1, <4>2
    <3>2. packet_buffer'[n - 1] = packet_buffer[n]
      BY <1>1, <3>1
    <3>3. packet_buffer' # <<>>
      BY <1>1, <3>1, EmptySeq
    <3>4. QED
      BY <1>1, <1>5, <1>6, <2>2, <3>2, <3>3
  <2>3. QED
    BY <2>1, <2>2
<1>11. ASSUME NEW s \in Streams
       PROVE  IF last_in_packet_buffer'[s] # NULL
              THEN \E i \in 1..(n - 1) :
                     /\ packet_buffer'[i].id = last_in_packet_buffer'[s]
                     /\ packet_buffer'[i].stream = s
                     /\ \A j \in (i + 1)..(n - 1) : packet_buffer'[j].stream # s
              ELSE \A i \in 1..(n - 1) : packet_buffer'[i].stream # s
  <2>1. CASE last_in_packet_buffer[s] = NULL
    <3>1. \A i \in 1..n : packet_buffer[i].stream # s
      BY <1>1, <2>1 DEF PointersLive, HasPacket
    <3>2. last_in_packet_buffer'[s] = NULL
      BY <1>8, <2>1 DEF TypeOK
    <3>3. ASSUME NEW i \in 1..(n - 1)
          PROVE  packet_buffer'[i].stream # s
      <4>1. i + 1 \in 1..n
        BY <1>1
      <4>2. QED
        BY <1>1, <3>1, <4>1
    <3>4. QED
      BY <3>2, <3>3
  <2>2. CASE last_in_packet_buffer[s] # NULL
    <3>1. PICK m \in 1..n :
            /\ packet_buffer[m].id = last_in_packet_buffer[s]
            /\ packet_buffer[m].stream = s
            /\ \A j \in (m + 1)..n : packet_buffer[j].stream # s
      BY <1>1, <2>2 DEF PointersLive, HasPacket
    <3>2. CASE m = 1
      <4>1. last_in_packet_buffer'[s] = NULL
        BY <1>8, <3>1, <3>2 DEF TypeOK
      <4>2. ASSUME NEW i \in 1..(n - 1)
            PROVE  packet_buffer'[i].stream # s
        <5>1. i + 1 \in (m + 1)..n
          BY <1>1, <3>2
        <5>2. QED
          BY <1>1, <3>1, <5>1
      <4>3. QED
        BY <4>1, <4>2
    <3>3. CASE m # 1
      <4>1. packet_buffer[m].id # h.id
        BY <1>3, <1>4, <3>3
      <4>2. last_in_packet_buffer'[s] = last_in_packet_buffer[s]
        BY <1>1, <1>2, <1>3, <1>8, <3>1, <4>1 DEF TypeOK
      <4>3. m - 1 \in 1..(n - 1) /\ (m - 1) + 1 = m
        BY <1>1, <3>3
      <4>4. packet_buffer'[m - 1] = packet_buffer[m]
        BY <1>1, <4>3
      <4>5. ASSUME NEW j \in ((m - 1) + 1)..(n - 1)
            PROVE  packet_buffer'[j].stream # s
        <5>1. j \in 1..(n - 1) /\ j + 1 \in (m + 1)..n
          BY <1>1, <4>3
        <5>2. QED
          BY <1>1, <3>1, <5>1
      <4>6. QED
        BY <2>2, <3>1, <4>2, <4>3, <4>4, <4>5
    <3>4. QED
      BY <3>2, <3>3
  <2>3. QED
    BY <2>1, <2>2
<1>12. DOMAIN packet_buffer' = 1..(n - 1) /\ Len(packet_buffer') = n - 1
  BY <1>1
<1>13. PointersLive'
  BY <1>10, <1>11, <1>12 DEF PointersLive, HasPacket
<1>14. QED
  BY <1>7, <1>9, <1>13

\* The list that the loop takes a packet from is not empty, and until the
\* trailer its head is not after what a stream that is waited for gave last.
LEMMA CanTakeProperties ==
  ASSUME IInv, CanTake
  PROVE  /\ packet_buffer # <<>>
         /\ pc \in {"interleaving", "trailer"}
         /\ (wentBack = {} /\ pc = "interleaving") =>
              \A s \in Prompt :
                \/ packet_buffer[1].dts < newest[s]
                \/ packet_buffer[1].dts = newest[s] /\ packet_buffer[1].stream <= s
<1> USE DEF IInv
<1>1. /\ packet_buffer \in Seq(Packet)
      /\ DOMAIN packet_buffer = 1..Len(packet_buffer)
      /\ Len(packet_buffer) \in Nat
      /\ \A i \in 1..Len(packet_buffer) : packet_buffer[i] \in Packet
  BY LenProperties, ElementOfSeq DEF TypeOK
<1>2. pc \in {"interleaving", "trailer"}
  BY DEF CanTake
<1>3. \A q \in Packet : q.stream \in Streams /\ q.stream \in Int /\ q.dts \in Int
  BY StreamAssumption DEF Packet, Streams
<1>4. ASSUME NEW s \in Streams, HasPacket(s)
      PROVE  \E i \in 1..Len(packet_buffer) : packet_buffer[i].stream = s
  BY <1>1, <1>4 DEF PointersLive
<1>5. CASE pc = "trailer"
  BY <1>2, <1>5 DEF CanTake
<1>6. CASE pc = "interleaving"
  <2>1. Ready
    BY <1>6 DEF CanTake
  <2>2. \A s \in Prompt : HasPacket(s)
    BY <2>1 DEF Ready, OutOfPatience, Prompt
  <2>3. \E s \in Streams : HasPacket(s)
    <3>1. 0 \in Streams
      BY StreamAssumption DEF Streams
    <3>2. QED
      BY <2>1, <3>1 DEF Ready, OutOfPatience
  <2>4. 1 \in 1..Len(packet_buffer)
    BY <1>1, <1>4, <2>3
  <2>5. packet_buffer # <<>>
    BY <1>1, <2>4, EmptySeq
  <2>6. ASSUME wentBack = {}, NEW s \in Prompt
        PROVE  \/ packet_buffer[1].dts < newest[s]
               \/ packet_buffer[1].dts = newest[s] /\ packet_buffer[1].stream <= s
    <3>1. s \in Streams
      BY DEF Prompt
    <3>2. PICK i \in 1..Len(packet_buffer) : packet_buffer[i].stream = s
      BY <1>4, <2>2, <3>1
    <3>3. packet_buffer[i].dts <= newest[s]
      BY <1>1, <3>2 DEF NewestInList
    <3>4. i = 1 \/ ~CompareDts(packet_buffer[1], packet_buffer[i])
      BY <1>1, <2>4, <2>6 DEF ListSorted
    <3>5. newest[s] \in Int /\ s \in Int
      BY <3>1, StreamAssumption DEF TypeOK, Streams
    <3>6. QED
      BY <1>1, <1>3, <2>4, <3>2, <3>3, <3>4, <3>5 DEF CompareDts
  <2>7. QED
    BY <1>2, <2>5, <2>6
<1>7. QED
  BY <1>2, <1>5, <1>6

\* A list without its head, behind a file without or with it.
LEMMA RemoveHeadKeepsOrder ==
  ASSUME IInv, packet_buffer # <<>>, RemoveHead,
         UNCHANGED <<nbCalls, newest, wentBack>>
  PROVE  /\ \A i \in DOMAIN packet_buffer' : packet_buffer'[i].id <= nbCalls'
         /\ \A i, j \in DOMAIN packet_buffer' :
              packet_buffer'[i].id = packet_buffer'[j].id => i = j
         /\ \A i, j \in DOMAIN packet_buffer' :
              (i < j /\ packet_buffer'[i].stream = packet_buffer'[j].stream)
                => packet_buffer'[i].id < packet_buffer'[j].id
         /\ \A j \in DOMAIN packet_buffer' :
              packet_buffer[1].stream = packet_buffer'[j].stream
                => packet_buffer[1].id < packet_buffer'[j].id
         /\ \A w \in DOMAIN written, j \in DOMAIN packet_buffer' :
              written[w].stream = packet_buffer'[j].stream
                => written[w].id < packet_buffer'[j].id
         /\ NewestInList'
         /\ ListSorted'
         /\ wentBack = {} =>
              \A j \in DOMAIN packet_buffer' :
                ~CompareDts(packet_buffer[1], packet_buffer'[j])
         /\ wentBack = {} =>
              \A w \in DOMAIN written, j \in DOMAIN packet_buffer' :
                (written[w].stream \in Prompt /\ packet_buffer'[j].stream \in Prompt)
                  => ~CompareDts(written[w], packet_buffer'[j])
<1> DEFINE n == Len(packet_buffer)
<1> USE DEF IInv
<1>1. /\ n \in Nat \ {0}
      /\ DOMAIN packet_buffer = 1..n
      /\ DOMAIN packet_buffer' = 1..(n - 1)
      /\ \A i \in 1..(n - 1) : packet_buffer'[i] = packet_buffer[i + 1]
  BY RemoveHeadProperties
<1>2. \A i \in 1..(n - 1) : i + 1 \in 1..n /\ 1 < i + 1
  BY <1>1
<1>3. \A i, j \in 1..(n - 1) : (i < j <=> i + 1 < j + 1) /\ (i = j <=> i + 1 = j + 1)
  BY <1>1
<1>4. 1 \in 1..n
  BY <1>1
<1>5. \A i \in 1..(n - 1) : packet_buffer'[i].id <= nbCalls'
  BY <1>1, <1>2 DEF Numbered
<1>6. \A i, j \in 1..(n - 1) : packet_buffer'[i].id = packet_buffer'[j].id => i = j
  BY <1>1, <1>2, <1>3 DEF Numbered
<1>7. \A i, j \in 1..(n - 1) :
        (i < j /\ packet_buffer'[i].stream = packet_buffer'[j].stream)
          => packet_buffer'[i].id < packet_buffer'[j].id
  BY <1>1, <1>2, <1>3 DEF StreamsInOrder
<1>8. \A j \in 1..(n - 1) :
        packet_buffer[1].stream = packet_buffer'[j].stream
          => packet_buffer[1].id < packet_buffer'[j].id
  BY <1>1, <1>2, <1>4 DEF StreamsInOrder
<1>9. \A w \in DOMAIN written, j \in 1..(n - 1) :
        written[w].stream = packet_buffer'[j].stream
          => written[w].id < packet_buffer'[j].id
  BY <1>1, <1>2 DEF StreamsInOrder
<1>10. NewestInList'
  <2>1. \A i \in 1..(n - 1) :
          packet_buffer'[i].dts <= newest[packet_buffer'[i].stream]
    BY <1>1, <1>2 DEF NewestInList
  <2>2. QED
    BY <1>1, <2>1 DEF NewestInList
<1>11. wentBack = {} =>
         \A i, j \in 1..n : i < j => ~CompareDts(packet_buffer[i], packet_buffer[j])
  BY <1>1 DEF ListSorted
<1>12. ListSorted'
  <2>1. wentBack = {} =>
          \A i, j \in 1..(n - 1) :
            i < j => ~CompareDts(packet_buffer'[i], packet_buffer'[j])
    BY <1>1, <1>2, <1>3, <1>11
  <2>2. QED
    BY <1>1, <2>1 DEF ListSorted, CompareDts
<1>13. wentBack = {} =>
         \A j \in 1..(n - 1) : ~CompareDts(packet_buffer[1], packet_buffer'[j])
  BY <1>1, <1>2, <1>4, <1>11
<1>14. wentBack = {} =>
         \A w \in DOMAIN written, j \in 1..(n - 1) :
           (written[w].stream \in Prompt /\ packet_buffer'[j].stream \in Prompt)
             => ~CompareDts(written[w], packet_buffer'[j])
  <2>1. wentBack = {} =>
          \A w \in DOMAIN written, j \in 1..n :
            (written[w].stream \in Prompt /\ packet_buffer[j].stream \in Prompt)
              => ~CompareDts(written[w], packet_buffer[j])
    BY <1>1 DEF WrittenBeforeList
  <2>2. QED
    BY <1>1, <1>2, <2>1
<1>15. QED
  BY <1>1, <1>5, <1>6, <1>7, <1>8, <1>9, <1>10, <1>12, <1>13, <1>14

-----------------------------------------------------------------------------
(* The packets held.                                                       *)

LEMMA HeldPackets ==
  ASSUME TypeOK, Numbered
  PROVE  \A q \in Held :
           /\ q.id \in Nat /\ q.id <= nbCalls
           /\ q.stream \in Streams
           /\ q.dts \in Int
<1>1. /\ \A i \in DOMAIN written : written[i] \in Packet
      /\ \A i \in DOMAIN packet_buffer : packet_buffer[i] \in Packet
  BY ElementOfSeq, LenProperties DEF TypeOK
<1>2. QED
  BY <1>1 DEF Held, Numbered, Packet

\* The times stay checked when packets are written or lost.
LEMMA HeldShrinks ==
  ASSUME CheckedTimes, Held' \subseteq Held, UNCHANGED cur_dts
  PROVE  CheckedTimes'
BY DEF CheckedTimes, Rises

-----------------------------------------------------------------------------
(* The steps.                                                              *)

LEMMA InitIInv == Init => IInv
<1> SUFFICES ASSUME Init PROVE IInv
  OBVIOUS
<1>1. /\ packet_buffer = <<>> /\ written = <<>>
      /\ DOMAIN packet_buffer = {} /\ DOMAIN written = {}
      /\ Len(packet_buffer) = 0 /\ Len(written) = 0
  BY DEF Init
<1>2. /\ NoPts \in Int
      /\ MaxCalls \in Nat
      /\ \A s \in Streams : NoPts < 0
  BY StreamAssumption, TimeAssumption
<1>3. TypeOK
  <2>1. packet_buffer \in Seq(Packet) /\ written \in Seq(Packet)
    BY <1>1
  <2>2. \A s \in Streams : pts_buffer[s] \in [0..Delay[s] -> Int]
    BY <1>2 DEF Init
  <2>3. /\ pc \in {"idle", "interleaving", "trailer", "closed", "failed"}
        /\ packet_buffer_end \in Nat
        /\ io_error \in BOOLEAN
    BY DEF Init, NULL
  <2>31. last_in_packet_buffer \in [Streams -> Nat]
    BY DEF Init, NULL
  <2>32. cur_dts \in [Streams -> Int] /\ next_pts \in [Streams -> Int]
    BY DEF Init
  <2>30. DOMAIN pts_buffer = Streams
    BY DEF Init
  <2>4. nbCalls \in 0..MaxCalls /\ nbLost \in 0..nbCalls
    BY <1>2 DEF Init
  <2>5. newest \in [Streams -> Int] /\ wentBack \subseteq Streams
    BY <1>2 DEF Init
  <2>6. QED
    BY <2>1, <2>2, <2>3, <2>30, <2>31, <2>32, <2>4, <2>5 DEF TypeOK
<1>4. Numbered
  BY <1>1 DEF Numbered
<1>5. PointersLive
  BY <1>1 DEF PointersLive, HasPacket, Init, NULL
<1>6. StreamsInOrder
  BY <1>1 DEF StreamsInOrder
<1>7. CheckedTimes
  BY <1>1 DEF CheckedTimes, Held
<1>8. PtsFilled
  BY DEF PtsFilled, Init
<1>9. PtsBufferInOrder
  BY <1>2 DEF PtsBufferInOrder, Init
<1>10. NewestInList /\ ListSorted /\ WrittenBeforeList /\ WrittenBeforeNext
  BY <1>1 DEF NewestInList, ListSorted, WrittenBeforeList, WrittenBeforeNext
<1>11. WrittenInterleaved
  BY <1>1 DEF WrittenInterleaved
<1>12. NothingLeftBehind
  BY <1>1 DEF NothingLeftBehind, Init
<1>13. QED
  BY <1>3, <1>4, <1>5, <1>6, <1>7, <1>8, <1>9, <1>10, <1>11, <1>12 DEF IInv

\* A packet that write_packet has stored.
LEMMA StoreKeeps ==
  ASSUME IInv, CanTake, Store,
         pc' \in {"idle", "interleaving", "trailer", "failed"},
         pc' \in {"idle", "interleaving"} => pc = "interleaving",
         io_error' \in BOOLEAN
  PROVE  IInv'
<1> DEFINE n == Len(packet_buffer)
           m == Len(written)
           h == packet_buffer[1]
<1> USE DEF IInv
<1>1. packet_buffer # <<>> /\ RemoveHead
  BY CanTakeProperties DEF Store
<1>2. UNCHANGED <<cur_dts, next_pts, pts_buffer, newest, wentBack, nbCalls, nbLost>>
  BY DEF Store, times
<1>3. /\ n \in Nat \ {0}
      /\ DOMAIN packet_buffer = 1..n
      /\ Head(packet_buffer) = h
      /\ \A i \in 1..n : packet_buffer[i] \in Packet
      /\ packet_buffer' \in Seq(Packet)
      /\ Len(packet_buffer') = n - 1
      /\ DOMAIN packet_buffer' = 1..(n - 1)
  BY <1>1, RemoveHeadProperties
<1>4. 1 \in 1..n /\ h \in Packet
  <2>1. 1 \in 1..n
    BY <1>3
  <2>2. QED
    BY <1>3, <2>1
<1>5. written \in Seq(Packet) /\ m \in Nat /\ DOMAIN written = 1..m
  BY LenProperties DEF TypeOK
<1>6. /\ written' \in Seq(Packet)
      /\ Len(written') = m + 1
      /\ \A i \in 1..m : written'[i] = written[i]
      /\ written'[m + 1] = h
  BY <1>3, <1>4, <1>5, AppendProperties DEF Store
<1>7. DOMAIN written' = 1..(m + 1)
  BY <1>6, LenProperties
<1>8. \A i \in 1..(m + 1) : i \in 1..m \/ i = m + 1
  BY <1>5
<1>9. /\ PointersLive'
      /\ packet_buffer_end' \in Nat
      /\ last_in_packet_buffer' \in [Streams -> Nat]
  BY <1>1, RemoveHeadKeepsPointers
<1>10. /\ \A i \in 1..(n - 1) : packet_buffer'[i].id <= nbCalls'
       /\ \A i, j \in 1..(n - 1) : packet_buffer'[i].id = packet_buffer'[j].id => i = j
       /\ \A i, j \in 1..(n - 1) :
            (i < j /\ packet_buffer'[i].stream = packet_buffer'[j].stream)
              => packet_buffer'[i].id < packet_buffer'[j].id
       /\ \A j \in 1..(n - 1) :
            h.stream = packet_buffer'[j].stream => h.id < packet_buffer'[j].id
       /\ \A w \in 1..m, j \in 1..(n - 1) :
            written[w].stream = packet_buffer'[j].stream
              => written[w].id < packet_buffer'[j].id
       /\ NewestInList'
       /\ ListSorted'
       /\ wentBack = {} =>
            \A j \in 1..(n - 1) : ~CompareDts(h, packet_buffer'[j])
       /\ wentBack = {} =>
            \A w \in 1..m, j \in 1..(n - 1) :
              (written[w].stream \in Prompt /\ packet_buffer'[j].stream \in Prompt)
                => ~CompareDts(written[w], packet_buffer'[j])
  BY <1>1, <1>2, <1>3, <1>5, RemoveHeadKeepsOrder
<1>11. TypeOK'
  BY <1>2, <1>3, <1>6, <1>9 DEF TypeOK
<1>12. Numbered'
  <2>1. \A i \in 1..(m + 1) : written'[i].id <= nbCalls'
    <3>1. h.id <= nbCalls
      BY <1>3, <1>4 DEF Numbered
    <3>2. \A i \in 1..m : written[i].id <= nbCalls
      BY <1>5 DEF Numbered
    <3>3. QED
      BY <1>2, <1>6, <1>8, <3>1, <3>2
  <2>2. QED
    BY <1>3, <1>7, <1>10, <2>1 DEF Numbered
<1>13. StreamsInOrder'
  <2>1. ASSUME NEW i \in 1..(m + 1), NEW j \in 1..(m + 1), i < j,
               written'[i].stream = written'[j].stream
        PROVE  written'[i].id < written'[j].id
    <3>1. i \in 1..m
      BY <1>5, <2>1
    <3>2. CASE j \in 1..m
      BY <1>5, <1>6, <2>1, <3>1, <3>2 DEF StreamsInOrder
    <3>3. CASE j = m + 1
      BY <1>3, <1>4, <1>5, <1>6, <2>1, <3>1, <3>3 DEF StreamsInOrder
    <3>4. QED
      BY <1>8, <3>2, <3>3
  <2>2. ASSUME NEW i \in 1..(m + 1), NEW j \in 1..(n - 1),
               written'[i].stream = packet_buffer'[j].stream
        PROVE  written'[i].id < packet_buffer'[j].id
    BY <1>6, <1>8, <1>10, <2>2
  <2>3. QED
    BY <1>3, <1>7, <1>10, <2>1, <2>2 DEF StreamsInOrder
<1>14. CheckedTimes' /\ PtsFilled' /\ PtsBufferInOrder'
  <2>1. \A i \in 1..(n - 1) : packet_buffer'[i] = packet_buffer[i + 1] /\ i + 1 \in 1..n
    BY <1>1, <1>3, RemoveHeadProperties
  <2>2. \A i \in 1..(n - 1) : packet_buffer'[i] \in Held
    BY <1>3, <2>1 DEF Held
  <2>20. \A i \in 1..(m + 1) : written'[i] \in Held
    BY <1>3, <1>4, <1>5, <1>6, <1>8 DEF Held
  <2>21. Held' \subseteq Held
    BY <1>3, <1>7, <2>2, <2>20 DEF Held
  <2>3. CheckedTimes'
    BY <1>2, <2>21, HeldShrinks
  <2>4. QED
    BY <1>2, <2>3 DEF PtsFilled, PtsBufferInOrder
<1>15. WrittenBeforeList'
  <2>1. wentBack = {} =>
          \A i \in 1..(m + 1), j \in 1..(n - 1) :
            (written'[i].stream \in Prompt /\ packet_buffer'[j].stream \in Prompt)
              => ~CompareDts(written'[i], packet_buffer'[j])
    BY <1>6, <1>8, <1>10
  <2>2. QED
    BY <1>2, <1>3, <1>7, <2>1 DEF WrittenBeforeList, CompareDts
<1>16. WrittenBeforeNext'
  <2> SUFFICES ASSUME wentBack = {}, pc' \in {"idle", "interleaving"},
                      NEW i \in 1..(m + 1), NEW s \in Prompt,
                      written'[i].stream \in Prompt
               PROVE  \/ written'[i].dts < newest[s]
                      \/ written'[i].dts = newest[s] /\ written'[i].stream <= s
    BY <1>2, <1>7 DEF WrittenBeforeNext
  <2>1. pc = "interleaving"
    OBVIOUS
  <2>2. CASE i \in 1..m
    BY <1>5, <1>6, <2>1, <2>2 DEF WrittenBeforeNext
  <2>3. CASE i = m + 1
    BY <1>6, <2>1, <2>3, CanTakeProperties
  <2>4. QED
    BY <1>8, <2>2, <2>3
<1>17. WrittenInterleaved'
  <2> SUFFICES ASSUME wentBack = {},
                      NEW i \in 1..(m + 1), NEW j \in 1..(m + 1), i < j,
                      written'[i].stream \in Prompt, written'[j].stream \in Prompt
               PROVE  ~CompareDts(written'[i], written'[j])
    BY <1>2, <1>7 DEF WrittenInterleaved, CompareDts
  <2>1. wentBack = {}
    OBVIOUS
  <2>2. i \in 1..m
    BY <1>5
  <2>3. CASE j \in 1..m
    BY <1>5, <1>6, <2>2, <2>3 DEF WrittenInterleaved
  <2>4. CASE j = m + 1
    <3>1. ~CompareDts(written[i], h)
      BY <1>3, <1>4, <1>5, <1>6, <2>1, <2>2, <2>4 DEF WrittenBeforeList
    <3>2. QED
      BY <1>6, <2>2, <2>4, <3>1
  <2>5. QED
    BY <1>8, <2>3, <2>4
<1>18. NothingLeftBehind'
  <2>1. nbCalls = m + n + nbLost /\ nbLost \in Int
    BY DEF NothingLeftBehind, TypeOK
  <2>2. (m + 1) + (n - 1) + nbLost = m + n + nbLost
    BY <1>3, <1>5, <2>1
  <2>3. pc' # "closed"
    OBVIOUS
  <2>4. QED
    BY <1>2, <1>3, <1>6, <2>1, <2>2, <2>3 DEF NothingLeftBehind
<1>19. QED
  BY <1>9, <1>10, <1>11, <1>12, <1>13, <1>14, <1>15, <1>16, <1>17, <1>18

\* A packet that write_packet could not store.
LEMMA WriteFailsKeeps ==
  ASSUME IInv, WriteFails
  PROVE  IInv'
<1> DEFINE n == Len(packet_buffer)
<1> USE DEF IInv
<1>1. /\ packet_buffer # <<>> /\ RemoveHead
      /\ pc \in {"interleaving", "trailer"}
      /\ pc' = IF pc = "trailer" THEN "failed" ELSE "idle"
  BY CanTakeProperties DEF WriteFails
<1>2. /\ nbLost' = nbLost + 1
      /\ UNCHANGED <<cur_dts, next_pts, pts_buffer, newest, wentBack,
                     io_error, written, nbCalls>>
  BY DEF WriteFails, times
<1>3. /\ n \in Nat \ {0}
      /\ packet_buffer' \in Seq(Packet)
      /\ Len(packet_buffer') = n - 1
  BY <1>1, RemoveHeadProperties
<1>4. /\ PointersLive'
      /\ packet_buffer_end' \in Nat
      /\ last_in_packet_buffer' \in [Streams -> Nat]
  BY <1>1, RemoveHeadKeepsPointers
<1>5. /\ \A i \in DOMAIN packet_buffer' : packet_buffer'[i].id <= nbCalls'
      /\ \A i, j \in DOMAIN packet_buffer' :
           packet_buffer'[i].id = packet_buffer'[j].id => i = j
      /\ \A i, j \in DOMAIN packet_buffer' :
           (i < j /\ packet_buffer'[i].stream = packet_buffer'[j].stream)
             => packet_buffer'[i].id < packet_buffer'[j].id
      /\ \A w \in DOMAIN written, j \in DOMAIN packet_buffer' :
           written[w].stream = packet_buffer'[j].stream
             => written[w].id < packet_buffer'[j].id
      /\ NewestInList'
      /\ ListSorted'
      /\ wentBack = {} =>
           \A w \in DOMAIN written, j \in DOMAIN packet_buffer' :
             (written[w].stream \in Prompt /\ packet_buffer'[j].stream \in Prompt)
               => ~CompareDts(written[w], packet_buffer'[j])
  BY <1>1, <1>2, RemoveHeadKeepsOrder
<1>6. /\ nbCalls = Len(written) + n + nbLost
      /\ Len(written) \in Nat /\ nbLost \in Nat /\ nbCalls \in Nat
  BY LenProperties, TimeAssumption DEF NothingLeftBehind, TypeOK
<1>7. TypeOK'
  <2>1. nbLost' \in 0..nbCalls'
    BY <1>2, <1>3, <1>6
  <2>2. pc' \in {"idle", "interleaving", "trailer", "closed", "failed"}
    BY <1>1
  <2>3. QED
    BY <1>2, <1>3, <1>4, <2>1, <2>2 DEF TypeOK
<1>8. Numbered'
  BY <1>2, <1>5 DEF Numbered
<1>9. StreamsInOrder'
  BY <1>2, <1>5 DEF StreamsInOrder
<1>10. CheckedTimes' /\ PtsFilled' /\ PtsBufferInOrder'
  <2>1. /\ DOMAIN packet_buffer = 1..n
        /\ DOMAIN packet_buffer' = 1..(n - 1)
        /\ \A i \in 1..(n - 1) : packet_buffer'[i] = packet_buffer[i + 1] /\ i + 1 \in 1..n
    BY <1>1, <1>3, RemoveHeadProperties
  <2>2. Held' \subseteq Held
    BY <1>2, <2>1 DEF Held
  <2>3. CheckedTimes'
    BY <1>2, <2>2, HeldShrinks
  <2>4. QED
    BY <1>2, <2>3 DEF PtsFilled, PtsBufferInOrder
<1>11. WrittenBeforeList'
  BY <1>2, <1>5 DEF WrittenBeforeList, CompareDts
<1>12. WrittenBeforeNext'
  BY <1>1, <1>2 DEF WrittenBeforeNext
<1>13. WrittenInterleaved'
  BY <1>2 DEF WrittenInterleaved, CompareDts
<1>14. NothingLeftBehind'
  BY <1>1, <1>2, <1>3, <1>6 DEF NothingLeftBehind
<1>15. QED
  BY <1>4, <1>5, <1>7, <1>8, <1>9, <1>10, <1>11, <1>12, <1>13, <1>14

\* The steps that take no packet.
LEMMA OtherStepsKeep ==
  ASSUME IInv, \/ Return \/ Trailer \/ WriteTrailer \/ UNCHANGED vars
  PROVE  IInv'
<1> USE DEF IInv
<1>1. UNCHANGED <<packet_buffer, packet_buffer_end, last_in_packet_buffer, cur_dts,
                  next_pts, pts_buffer, newest, wentBack, io_error, written,
                  nbCalls, nbLost>>
  BY DEF Return, Trailer, WriteTrailer, vars, list, times
<1>2. /\ pc' \in {"idle", "interleaving", "trailer", "closed", "failed"}
      /\ pc' \in {"idle", "interleaving"} => pc \in {"idle", "interleaving"}
      /\ pc' = "closed" => packet_buffer = <<>>
  BY DEF Return, Trailer, WriteTrailer, vars, TypeOK, NothingLeftBehind
<1>3. TypeOK'
  BY <1>1, <1>2 DEF TypeOK
<1>4. Numbered' /\ StreamsInOrder'
  BY <1>1 DEF Numbered, StreamsInOrder
<1>5. PointersLive'
  BY <1>1 DEF PointersLive, HasPacket
<1>6. CheckedTimes' /\ PtsFilled' /\ PtsBufferInOrder'
  <2>1. CheckedTimes'
    BY <1>1, HeldShrinks DEF Held
  <2>2. QED
    BY <1>1, <2>1 DEF PtsFilled, PtsBufferInOrder
<1>7. NewestInList' /\ ListSorted' /\ WrittenBeforeList' /\ WrittenInterleaved'
  BY <1>1 DEF NewestInList, ListSorted, WrittenBeforeList, WrittenInterleaved, CompareDts
<1>8. WrittenBeforeNext'
  BY <1>1, <1>2 DEF WrittenBeforeNext
<1>9. NothingLeftBehind'
  BY <1>1, <1>2 DEF NothingLeftBehind
<1>10. QED
  BY <1>3, <1>4, <1>5, <1>6, <1>7, <1>8, <1>9

\* A call that does not queue its packet.
LEMMA LoseKeeps ==
  ASSUME IInv, pc = "idle", Lose,
         nbCalls' = nbCalls + 1, nbCalls < MaxCalls,
         UNCHANGED <<newest, wentBack, io_error, written>>,
         CheckedTimes', PtsFilled', PtsBufferInOrder',
         cur_dts' \in [Streams -> Int], next_pts' \in [Streams -> Int],
         DOMAIN pts_buffer' = Streams,
         \A s \in Streams : pts_buffer'[s] \in [0..Delay[s] -> Int]
  PROVE  IInv'
<1> USE DEF IInv
<1>1. /\ UNCHANGED <<packet_buffer, packet_buffer_end, last_in_packet_buffer>>
      /\ pc' = "idle" /\ nbLost' = nbLost + 1
  BY DEF Lose, list
<1>2. nbCalls \in Nat /\ MaxCalls \in Nat /\ nbLost \in 0..nbCalls
  BY TimeAssumption DEF TypeOK
<1>3. nbCalls' \in 0..MaxCalls /\ nbLost' \in 0..nbCalls'
  BY <1>1, <1>2
<1>4. TypeOK'
  BY <1>1, <1>3 DEF TypeOK
<1>5. Numbered'
  <2>1. ASSUME NEW q \in Packet, q.id <= nbCalls
        PROVE  q.id <= nbCalls'
    BY <1>2, <2>1 DEF Packet
  <2>2. /\ \A i \in DOMAIN written : written[i] \in Packet
        /\ \A i \in DOMAIN packet_buffer : packet_buffer[i] \in Packet
    BY ElementOfSeq, LenProperties DEF TypeOK
  <2>3. QED
    BY <1>1, <2>1, <2>2 DEF Numbered
<1>6. StreamsInOrder'
  BY <1>1 DEF StreamsInOrder
<1>7. PointersLive'
  BY <1>1 DEF PointersLive, HasPacket
<1>8. NewestInList' /\ ListSorted' /\ WrittenBeforeList' /\ WrittenInterleaved'
  BY <1>1 DEF NewestInList, ListSorted, WrittenBeforeList, WrittenInterleaved, CompareDts
<1>9. WrittenBeforeNext'
  BY <1>1 DEF WrittenBeforeNext
<1>10. NothingLeftBehind'
  <2>1. /\ nbCalls = Len(written) + Len(packet_buffer) + nbLost
        /\ Len(written) \in Nat /\ Len(packet_buffer) \in Nat
    BY LenProperties DEF NothingLeftBehind, TypeOK
  <2>2. nbCalls' = Len(written') + Len(packet_buffer') + nbLost'
    BY <1>1, <1>2, <2>1
  <2>3. QED
    BY <1>1, <2>2 DEF NothingLeftBehind
<1>11. QED
  BY <1>4, <1>5, <1>6, <1>7, <1>8, <1>9, <1>10

\* A stream's times keep their order with the fields of a packet.
LEMMA SubmitKeepsTimes ==
  ASSUME TypeOK, PtsFilled, PtsBufferInOrder, NEW s \in Streams,
         NEW b, InOrder(b, Delay[s]),
         pts_buffer' = [pts_buffer EXCEPT ![s] = b]
  PROVE  /\ PtsFilled' /\ PtsBufferInOrder'
         /\ DOMAIN pts_buffer' = Streams
         /\ \A r \in Streams : pts_buffer'[r] \in [0..Delay[r] -> Int]
<1>1. /\ DOMAIN pts_buffer' = Streams
      /\ \A r \in Streams : pts_buffer'[r] = IF r = s THEN b ELSE pts_buffer[r]
  BY DEF TypeOK
<1>2. ASSUME NEW r \in Streams
      PROVE  InOrder(pts_buffer'[r], Delay[r])
  <2>1. CASE r = s
    BY <1>1, <2>1
  <2>2. CASE r # s
    BY <1>1, <2>2 DEF InOrder, TypeOK, PtsFilled, PtsBufferInOrder
  <2>3. QED
    BY <2>1, <2>2
<1>3. QED
  BY <1>1, <1>2 DEF InOrder, PtsFilled, PtsBufferInOrder

\* The times of a stream whose packet is accepted; above 0 the packet rises
\* above the last one accepted, unless it is video.
LEMMA AcceptKeepsTimes ==
  ASSUME TypeOK, NEW s \in Streams, NEW f,
         f.pts \in Int, f.dts \in Int,
         Accept(s, f)
  PROVE  /\ cur_dts' \in [Streams -> Int]
         /\ next_pts' \in [Streams -> Int]
         /\ cur_dts'[s] = f.dts
         /\ \A r \in Streams \ {s} : cur_dts'[r] = cur_dts[r]
         /\ (CodecType[s] # "video" /\ cur_dts[s] > 0) =>
              cur_dts[s] < f.dts \/ (NonStrict /\ cur_dts[s] = f.dts)
<1>1. /\ Increment(s) \in Nat
      /\ NoPts \in Int /\ NoPts < 0
      /\ NonStrict \in BOOLEAN
  BY StreamAssumption, TimeAssumption DEF Increment
<1>2. /\ cur_dts' = [cur_dts EXCEPT ![s] = f.dts]
      /\ next_pts' = [next_pts EXCEPT ![s] = f.dts + Increment(s)]
      /\ ~Refused(s, f)
  BY DEF Accept
<1>3. f.dts + Increment(s) \in Int
  BY <1>1
<1>4. /\ cur_dts' \in [Streams -> Int]
      /\ next_pts' \in [Streams -> Int]
      /\ cur_dts'[s] = f.dts
      /\ \A r \in Streams \ {s} : cur_dts'[r] = cur_dts[r]
  BY <1>2, <1>3 DEF TypeOK
<1>5. ASSUME CodecType[s] # "video", cur_dts[s] > 0
      PROVE  cur_dts[s] < f.dts \/ (NonStrict /\ cur_dts[s] = f.dts)
  <2>1. cur_dts[s] \in Int
    BY DEF TypeOK
  <2>2. cur_dts[s] \notin {0, NoPts}
    BY <1>1, <1>5, <2>1
  <2>3. /\ ~NonStrict => ~(cur_dts[s] >= f.dts)
        /\ ~(cur_dts[s] > f.dts)
    BY <1>2, <1>5, <2>2 DEF Refused
  <2>4. /\ ~NonStrict => cur_dts[s] < f.dts
        /\ cur_dts[s] < f.dts \/ cur_dts[s] = f.dts
    BY <2>1, <2>3
  <2>5. CASE NonStrict
    BY <2>4, <2>5, Zenon
  <2>6. CASE ~NonStrict
    BY <2>4, <2>6, Zenon
  <2>7. QED
    BY <2>5, <2>6, Zenon
<1>6. QED
  BY <1>4, <1>5

\* A packet that is accepted keeps the times checked, whether it is queued or
\* lost.
LEMMA AcceptKeepsChecked ==
  ASSUME TypeOK, Numbered, CheckedTimes, NEW s \in Streams, NEW f,
         f.pts \in Int, f.dts \in Int, Accept(s, f),
         NEW p, p.id = nbCalls + 1, p.stream = s, p.dts = f.dts,
         Held' \subseteq Held \cup {p}
  PROVE  CheckedTimes'
<1>1. /\ cur_dts'[s] = f.dts
      /\ \A r \in Streams \ {s} : cur_dts'[r] = cur_dts[r]
      /\ (CodecType[s] # "video" /\ cur_dts[s] > 0) =>
           cur_dts[s] < f.dts \/ (NonStrict /\ cur_dts[s] = f.dts)
      /\ cur_dts[s] \in Int
  BY AcceptKeepsTimes DEF TypeOK
<1>2. \A q \in Held :
        /\ q.id \in Nat /\ q.id <= nbCalls
        /\ q.stream \in Streams
        /\ q.dts \in Int
  BY HeldPackets
<1>3. nbCalls \in Nat
  <2>1. nbCalls \in 0..MaxCalls /\ MaxCalls \in Nat
    BY TimeAssumption DEF TypeOK
  <2>2. QED
    BY <2>1
<1>4. ASSUME NEW q \in Held, CodecType[q.stream] # "video", q.dts > 0, q.stream = s
      PROVE  q.dts < f.dts \/ (NonStrict /\ q.dts = f.dts)
  <2>1. q.dts <= cur_dts[s] /\ cur_dts[s] > 0 /\ q.dts \in Int
    BY <1>1, <1>2, <1>4 DEF CheckedTimes
  <2>2. cur_dts[s] < f.dts \/ (NonStrict /\ cur_dts[s] = f.dts)
    BY <1>1, <1>4, <2>1
  <2>3. CASE cur_dts[s] < f.dts
    <3>1. q.dts < f.dts
      BY <1>1, <2>1, <2>3
    <3>2. QED
      BY <3>1, Zenon
  <2>4. CASE NonStrict /\ cur_dts[s] = f.dts
    <3>1. q.dts < f.dts \/ q.dts = f.dts
      BY <1>1, <2>1, <2>4
    <3>2. NonStrict
      BY <2>4, Zenon
    <3>3. QED
      BY <3>1, <3>2, Zenon
  <2>5. QED
    BY <2>2, <2>3, <2>4
<1>5. ASSUME NEW q \in Held', CodecType[q.stream] # "video", q.dts > 0
      PROVE  q.dts <= cur_dts'[q.stream]
  <2>1. CASE q = p
    BY <1>1, <2>1
  <2>2. CASE q \in Held /\ q.stream = s
    BY <1>1, <1>2, <1>4, <1>5, <2>2
  <2>3. CASE q \in Held /\ q.stream # s
    BY <1>1, <1>2, <1>5, <2>3 DEF CheckedTimes
  <2>4. QED
    BY <2>1, <2>2, <2>3
<1>6. ASSUME NEW q \in Held', NEW t \in Held', q.stream = t.stream,
             CodecType[q.stream] # "video", q.dts > 0, q.id < t.id
      PROVE  Rises(q, t)
  <2>1. q # p
    BY <1>2, <1>3, <1>6
  <2>2. CASE t = p
    BY <1>4, <1>6, <2>1, <2>2 DEF Rises
  <2>3. CASE t # p
    BY <1>6, <2>1, <2>3 DEF CheckedTimes
  <2>4. QED
    BY <2>2, <2>3
<1>7. QED
  BY <1>5, <1>6 DEF CheckedTimes, Rises

\* A call that queues its packet.
LEMMA QueueKeeps ==
  ASSUME IInv, NEW s \in Streams, NEW f,
         f.pts \in Int, f.dts \in Int,
         pc = "idle", nbCalls < MaxCalls, nbCalls' = nbCalls + 1,
         UNCHANGED <<io_error, written>>,
         PtsFilled', PtsBufferInOrder', DOMAIN pts_buffer' = Streams,
         \A r \in Streams : pts_buffer'[r] \in [0..Delay[r] -> Int],
         Queue(s, f)
  PROVE  IInv'
<1> USE DEF IInv
<1>1. PICK p : p = [id |-> nbCalls + 1, stream |-> s, pts |-> f.pts, dts |-> f.dts]
  OBVIOUS
<1>2. /\ Accept(s, f) /\ f.dts # NoPts /\ AddPacket(p)
      /\ pc' = "interleaving" /\ UNCHANGED nbLost
      /\ newest' = [newest EXCEPT ![s] = IF f.dts > @ THEN f.dts ELSE @]
      /\ wentBack' = IF f.dts < newest[s] THEN wentBack \cup {s} ELSE wentBack
  BY <1>1 DEF Queue, Timed
<1>3. nbCalls \in Nat /\ MaxCalls \in Nat /\ nbLost \in 0..nbCalls
  BY TimeAssumption DEF TypeOK
<1>4. /\ p \in Packet
      /\ p.id = nbCalls + 1 /\ p.stream = s /\ p.dts = f.dts
  <2>1. nbCalls + 1 \in Nat \ {0} /\ f.dts \in Int \ {NoPts}
    BY <1>2, <1>3
  <2>2. QED
    BY <1>1, <2>1 DEF Packet
<1>5. Numbered' /\ PointersLive' /\ StreamsInOrder'
  BY <1>2, <1>4, AddPacketKeepsPointers
<1>6. /\ newest' = [newest EXCEPT ![p.stream] = IF p.dts > @ THEN p.dts ELSE @]
      /\ wentBack' = IF p.dts < newest[p.stream]
                     THEN wentBack \cup {p.stream} ELSE wentBack
  BY <1>2, <1>4
<1>7. /\ NewestInList' /\ ListSorted' /\ WrittenBeforeList'
      /\ WrittenBeforeNext' /\ WrittenInterleaved'
  BY <1>2, <1>4, <1>6, AddPacketKeepsOrder
<1>8. PICK k \in 0..Len(packet_buffer) :
        /\ packet_buffer' \in Seq(Packet)
        /\ Len(packet_buffer') = Len(packet_buffer) + 1
        /\ DOMAIN packet_buffer' = 1..(Len(packet_buffer) + 1)
        /\ packet_buffer'[k + 1] = p
        /\ \A i \in 1..(Len(packet_buffer) + 1) :
             i # k + 1 => /\ Old(k, i) \in 1..Len(packet_buffer)
                          /\ packet_buffer'[i] = packet_buffer[Old(k, i)]
                          /\ Old(k, i) <= k <=> i <= k
        /\ packet_buffer_end' =
             IF k = Len(packet_buffer) THEN p.id ELSE packet_buffer_end
        /\ last_in_packet_buffer' = [last_in_packet_buffer EXCEPT ![p.stream] = p.id]
  BY <1>2, <1>4, AddPacketProperties
<1>9. /\ cur_dts' \in [Streams -> Int]
      /\ next_pts' \in [Streams -> Int]
  BY <1>2, AcceptKeepsTimes
<1>10. newest[s] \in Int /\ newest \in [Streams -> Int]
  BY DEF TypeOK
<1>11. TypeOK'
  <2>1. newest' \in [Streams -> Int]
    BY <1>2, <1>10
  <2>2. wentBack' \subseteq Streams
    BY <1>2 DEF TypeOK
  <2>3. /\ packet_buffer_end' \in Nat
        /\ last_in_packet_buffer' \in [Streams -> Nat]
    <3>1. p.id \in Nat
      BY <1>3, <1>4
    <3>2. QED
      BY <1>8, <3>1 DEF TypeOK
  <2>4. nbCalls' \in 0..MaxCalls /\ nbLost' \in 0..nbCalls'
    BY <1>2, <1>3
  <2>5. QED
    BY <1>2, <1>8, <1>9, <2>1, <2>2, <2>3, <2>4 DEF TypeOK
<1>12. CheckedTimes'
  <2>1. DOMAIN packet_buffer = 1..Len(packet_buffer)
    BY LenProperties DEF TypeOK
  <2>2. \A i \in 1..(Len(packet_buffer) + 1) : packet_buffer'[i] \in Held \cup {p}
    BY <1>8, <2>1 DEF Held
  <2>3. Held' \subseteq Held \cup {p}
    BY <1>8, <2>2 DEF Held
  <2>4. QED
    BY <1>2, <1>4, <2>3, AcceptKeepsChecked
<1>13. NothingLeftBehind'
  <2>1. /\ nbCalls = Len(written) + Len(packet_buffer) + nbLost
        /\ Len(written) \in Nat /\ Len(packet_buffer) \in Nat
    BY LenProperties DEF NothingLeftBehind, TypeOK
  <2>2. nbCalls' = Len(written') + Len(packet_buffer') + nbLost'
    BY <1>2, <1>3, <1>8, <2>1
  <2>3. QED
    BY <1>2, <2>2 DEF NothingLeftBehind
<1>14. QED
  BY <1>5, <1>7, <1>11, <1>12, <1>13

\* A call of av_interleaved_write_frame up to its first look at the list.
LEMMA SubmitKeeps ==
  ASSUME IInv, NEW o \in Offered, Submit(o[1], o[2], o[3])
  PROVE  IInv'
<1> USE DEF IInv
<1>1. PICK s, pts, dts : s = o[1] /\ pts = o[2] /\ dts = o[3]
  OBVIOUS
<1>2. /\ s \in Streams /\ pts \in Int /\ dts \in Int
      /\ pts # NoPts => NoPts < pts - 17 * Duration[s]
      /\ dts # NoPts => NoPts < dts - 17 * Duration[s]
  BY <1>1, TimeAssumption
<1>3. PICK f : f = Fields(s, pts, dts)
  OBVIOUS
<1>4. /\ f.pts \in Int /\ f.dts \in Int
      /\ InOrder(f.buffer, Delay[s])
  BY <1>2, <1>3, FieldsProperties
<1>5. /\ pc = "idle" /\ nbCalls < MaxCalls /\ nbCalls' = nbCalls + 1
      /\ pts_buffer' = [pts_buffer EXCEPT ![s] = f.buffer]
      /\ Refuse(s, f) \/ LeaveUntimed(s, f) \/ LoseForMemory(s, f) \/ Queue(s, f)
      /\ UNCHANGED <<io_error, written>>
  BY <1>1, <1>3 DEF Submit
<1>6. /\ PtsFilled' /\ PtsBufferInOrder'
      /\ DOMAIN pts_buffer' = Streams
      /\ \A r \in Streams : pts_buffer'[r] \in [0..Delay[r] -> Int]
  BY <1>2, <1>4, <1>5, SubmitKeepsTimes
<1>7. CASE Refuse(s, f)
  <2>1. Lose /\ UNCHANGED <<cur_dts, next_pts, newest, wentBack>>
    BY <1>7 DEF Refuse
  <2>2. CheckedTimes'
    BY <1>5, <2>1, HeldShrinks DEF Held, Lose, list
  <2>3. cur_dts' \in [Streams -> Int] /\ next_pts' \in [Streams -> Int]
    BY <2>1 DEF TypeOK
  <2>4. QED
    BY <1>5, <1>6, <2>1, <2>2, <2>3, LoseKeeps
<1>8. CASE LeaveUntimed(s, f) \/ LoseForMemory(s, f)
  <2>1. Lose /\ Accept(s, f) /\ UNCHANGED <<newest, wentBack>>
    BY <1>8 DEF LeaveUntimed, LoseForMemory
  <2>2. /\ cur_dts' \in [Streams -> Int]
        /\ next_pts' \in [Streams -> Int]
    BY <1>2, <1>4, <2>1, AcceptKeepsTimes
  <2>3. PICK p : p = [id |-> nbCalls + 1, stream |-> s, dts |-> f.dts]
    OBVIOUS
  <2>4. CheckedTimes'
    <3>1. Held' = Held
      BY <1>5, <2>1 DEF Held, Lose, list
    <3>2. p.id = nbCalls + 1 /\ p.stream = s /\ p.dts = f.dts
      BY <2>3
    <3>3. QED
      BY <1>2, <1>4, <2>1, <3>1, <3>2, AcceptKeepsChecked
  <2>5. QED
    BY <1>5, <1>6, <2>1, <2>2, <2>4, LoseKeeps
<1>9. CASE Queue(s, f)
  BY <1>2, <1>4, <1>5, <1>6, <1>9, QueueKeeps
<1>10. QED
  BY <1>5, <1>7, <1>8, <1>9

\* Every state of the muxer satisfies the inductive invariant.
THEOREM Invariance == Spec => []IInv
<1>1. Init => IInv
  BY InitIInv
<1>2. IInv /\ [Next]_vars => IInv'
  <2> SUFFICES ASSUME IInv, [Next]_vars
               PROVE  IInv'
    OBVIOUS
  <2>1. ASSUME NEW o \in Offered, Submit(o[1], o[2], o[3])
        PROVE  IInv'
    BY <2>1, SubmitKeeps
  <2>2. CASE Write
    <3>1. CanTake /\ Store /\ UNCHANGED <<pc, io_error>>
      BY <2>2 DEF Write
    <3>2. pc \in {"interleaving", "trailer"} /\ io_error \in BOOLEAN
      BY <3>1, CanTakeProperties DEF IInv, TypeOK
    <3>3. QED
      BY <3>1, <3>2, StoreKeeps
  <2>3. CASE WriteToFailed
    <3>1. /\ CanTake /\ Store /\ io_error' = TRUE
          /\ pc' = IF pc = "trailer" THEN "failed" ELSE "idle"
      BY <2>3 DEF WriteToFailed
    <3>2. pc \in {"interleaving", "trailer"}
      BY <3>1, CanTakeProperties
    <3>3. QED
      BY <3>1, <3>2, StoreKeeps
  <2>4. CASE WriteFails
    BY <2>4, WriteFailsKeeps
  <2>5. CASE Return \/ Trailer \/ WriteTrailer \/ UNCHANGED vars
    BY <2>5, OtherStepsKeep
  <2>6. QED
    BY <2>1, <2>2, <2>3, <2>4, <2>5 DEF Next
<1>3. QED
  BY <1>1, <1>2, PTL DEF Spec

\* No pointer into the list is ever stale.
THEOREM PointersAreLive == Spec => []PointersLive
BY Invariance, PTL DEF IInv

\* The packets of a stream keep the order of the calls that gave them.
THEOREM StreamsAreInOrder == Spec => []StreamsInOrder
BY Invariance, PTL DEF IInv

\* The file is interleaved by dts as long as no stream gives a dts before an
\* earlier one.
THEOREM FileIsInterleaved == Spec => []WrittenInterleaved
BY Invariance, PTL DEF IInv

\* Above a dts of 0 a stream that is not video rises in the file.
THEOREM ChecksHold == Spec => []RisingAboveZero
<1>1. IInv => RisingAboveZero
  BY DEF IInv, CheckedTimes, StreamsInOrder, Held, Rises, RisingAboveZero
<1>2. QED
  BY <1>1, Invariance, PTL

\* The reordering buffer of every stream is in order.
THEOREM PtsBuffersInOrder == Spec => []PtsBufferInOrder
BY Invariance, PTL DEF IInv

\* Every packet is in the file, in the list or accounted for by an error.
THEOREM NoPacketDisappears == Spec => []NothingLeftBehind
BY Invariance, PTL DEF IInv

\* Every variable keeps its type.
THEOREM TypeCorrect == Spec => []TypeOK
BY Invariance, PTL DEF IInv
=============================================================================
