-------------------------- MODULE FrameOrderProofs --------------------------
(***************************************************************************)
(* Proofs about what RealTimeEnc takes, keeps and writes: no stamp of a     *)
(* frame is lost, repeated or reordered between the video list and the     *)
(* file, and its picture is its own or that of the frame a ring later; the *)
(* timestamps of either stream increase, the recorder implements Recording, and no    *)
(* sample is lost between the audio calls and the codec. For lists of every *)
(* size, any capture times, any chunk lengths and frame size, and any number *)
(* of sessions and calls.                                                  *)
(***************************************************************************)
EXTENDS RealTimeEncProofs, SequenceTheorems, Induction

-----------------------------------------------------------------------------
(* The invariants                                                          *)

\* The frames accepted are the captured ones past the list, with their own or
\* the lapped picture, and those in it; behind them comes junk only. Every stamp is positive, so ve.first is -1 only before the first frame.
FifoInv ==
  /\ ve.junk \in 0..MaxJunk /\ Captured \in Nat
  /\ Len(accepted) = Captured + videoList.size
  /\ \A k \in 1..Len(PastTheList) :
       IF k > Captured THEN PastTheList[k].img = Junk ELSE OwnOrLapped(k)
  /\ \A k \in 1..Captured : accepted[k] = PastTheList[k].pts + ve.first
  /\ \A k \in 1..videoList.size :
       accepted[Captured + k]
         = videoList.framebuf[SlotAt(videoList.readpos, k - 1, VIDEOFRAMEBUFSIZE)]
  /\ \A k \in 1..Len(accepted) : accepted[k] >= 1
  /\ ve.first = -1 => Captured = 0

\* Where the threads are: junk comes from the flush alone, and a thread is created for an empty list.
PlaceInv ==
  /\ vp.pc = "fill" => vp.stamp >= 1
  /\ ve.pc \in {"none", "begin"} \/ VideoLoop => ve.junk = 0
  /\ ctl = "create_video" =>
       accepted = <<>> /\ stored = <<>> /\ codec = <<>> /\ videoList.size = 0

-----------------------------------------------------------------------------
(* The frames past the list                                                *)

Chain == [pts : Int, img : Int]

\* The frame that is about to be encoded, with the picture its slot shows.
InSlot == [pts |-> ve.pts, img |-> videoList.framebuf[ve.slot]]

\* Appending at the end.
LEMMA ChainAlgebra ==
  ASSUME NEW S, NEW a \in Seq(S), NEW b \in Seq(S), NEW e \in S
  PROVE  /\ a \o <<e>> = Append(a, e) /\ a \o <<>> = a
         /\ Append(a, e) \in Seq(S) /\ a \o b \in Seq(S)
         /\ a \o Append(b, e) = Append(a \o b, e)
<1>1. /\ a \o <<e>> = Append(a, e) /\ a \o <<>> = a
      /\ Append(a, e) \in Seq(S) /\ a \o b \in Seq(S) /\ <<e>> \in Seq(S)
  BY AppendIsConcat, AppendProperties, ConcatEmptySeq, ConcatProperties
<1>2. a \o Append(b, e) = Append(a \o b, e)
  BY <1>1, AppendIsConcat, ConcatAssociative
<1> QED
  BY <1>1, <1>2

\* Moving the head of one sequence to the end of another.
LEMMA HeadMoves ==
  ASSUME NEW S, NEW a \in Seq(S), NEW b \in Seq(S), b # <<>>
  PROVE  Append(a, Head(b)) \o Tail(b) = a \o b
<1>1. Head(b) \in S /\ Tail(b) \in Seq(S) /\ <<Head(b)>> \in Seq(S) /\ b = <<Head(b)>> \o Tail(b)
  OBVIOUS
<1>2. Append(a, Head(b)) = a \o <<Head(b)>>
  BY <1>1, AppendIsConcat
<1> QED
  BY <1>1, <1>2, ConcatAssociative

\* What is past the list, at each place of the thread.
Forms ==
  /\ stored \in Seq(Chain) /\ codec \in Seq(Chain) /\ ve.packet \in Chain
  /\ InSlot \in Chain /\ PastTheList \in Seq(Chain)
  /\ ve.pc \in {"write", "writing"} => PastTheList = Append(stored, ve.packet) \o codec
  /\ ve.pc = "encode" => PastTheList = Append(stored \o codec, InSlot)
  /\ ve.pc \notin {"write", "writing", "encode"} => PastTheList = stored \o codec

\* They follow from the definition.
LEMMA PastForms == TypeOK => Forms
<1> SUFFICES ASSUME TypeOK PROVE Forms
  OBVIOUS
<1> USE DEF Forms
<1>1. Packet \subseteq Chain /\ InSlot \in Chain
  <2>1. /\ videoList.framebuf \in [0..VIDEOFRAMEBUFSIZE-1 -> Nat]
        /\ ve.slot \in 0..VIDEOFRAMEBUFSIZE-1 /\ ve.pts \in Int
    BY DEF TypeOK, VideoOutType, VideoListType, ListOf
  <2>2. videoList.framebuf[ve.slot] \in Nat
    BY Zenon, <2>1
  <2> QED
    BY <2>1, <2>2 DEF Packet, Chain, InSlot
<1>2. stored \in Seq(Chain) /\ codec \in Seq(Chain) /\ ve.packet \in Chain
  BY <1>1, SeqMonotonic DEF TypeOK, VideoOutType
<1>3. CASE ve.pc \in {"write", "writing"}
  <2>1. PastTheList = stored \o <<ve.packet>> \o codec \o <<>>
    BY <1>3 DEF PastTheList
  <2>2. /\ stored \o <<ve.packet>> = Append(stored, ve.packet)
        /\ Append(stored, ve.packet) \in Seq(Chain)
    BY <1>2, ChainAlgebra
  <2>3. /\ Append(stored, ve.packet) \o codec \in Seq(Chain)
        /\ (Append(stored, ve.packet) \o codec) \o <<>> = Append(stored, ve.packet) \o codec
    BY <1>1, <1>2, <2>2, ChainAlgebra
  <2> QED
    BY <1>1, <1>2, <1>3, <2>1, <2>2, <2>3
<1>4. CASE ve.pc = "encode"
  <2>1. PastTheList = stored \o <<>> \o codec \o <<InSlot>>
    BY <1>4 DEF PastTheList, InSlot
  <2>2. stored \o <<>> = stored /\ stored \o codec \in Seq(Chain)
    BY <1>1, <1>2, ChainAlgebra
  <2>3. (stored \o codec) \o <<InSlot>> = Append(stored \o codec, InSlot)
    BY <1>1, <2>2, ChainAlgebra
  <2>4. Append(stored \o codec, InSlot) \in Seq(Chain)
    BY <1>1, <2>2, ChainAlgebra
  <2> QED
    BY <1>1, <1>2, <1>4, <2>1, <2>2, <2>3, <2>4
<1>5. CASE ve.pc \notin {"write", "writing", "encode"}
  <2>1. PastTheList = stored \o <<>> \o codec \o <<>>
    BY <1>5 DEF PastTheList
  <2>2. stored \o <<>> = stored /\ stored \o codec \in Seq(Chain)
    BY <1>1, <1>2, ChainAlgebra
  <2>3. (stored \o codec) \o <<>> = stored \o codec
    BY <1>1, <2>2, ChainAlgebra
  <2> QED
    BY <1>1, <1>2, <1>5, <2>1, <2>2, <2>3
<1> QED
  BY <1>3, <1>4, <1>5

\* They hold of the next state too.
LEMMA NextForms == (TypeOK => Forms)'
  BY PastForms, PTL

\* What a call of the encoder that holds frames leaves past the list.
LEMMA PastEncoded ==
  ASSUME TypeOK, TypeOK', NEW held \in Seq(Chain), NEW back \in {"loop", "flush"}, NEW junk,
         Encoded(held, back, junk), stored' = stored
  PROVE  /\ PastTheList' = stored \o held /\ ve'.junk = junk /\ ve'.first = ve.first
         /\ (ve'.pc = "write" /\ ve'.back = back) \/ ve'.pc = back
<1>1. Forms' /\ Forms
  BY NextForms, PastForms
<1>2. CASE /\ held # <<>> /\ codec' = Tail(held)
           /\ ve' = [ve EXCEPT !.pc = "write", !.back = back, !.out = "some",
                               !.packet = Head(held), !.junk = junk]
  <2>1. /\ ve'.pc = "write" /\ ve'.packet = Head(held) /\ ve'.back = back
        /\ ve'.junk = junk /\ ve'.first = ve.first
    BY <1>2 DEF TypeOK, VideoOutType
  <2>2. PastTheList' = Append(stored, Head(held)) \o Tail(held)
    BY <1>1, <1>2, <2>1 DEF Forms
  <2>3. Head(held) \in Chain
    BY <1>2
  <2>4. stored \in Seq(Chain)
    BY <1>1 DEF Forms
  <2>5. Append(stored, Head(held)) \o Tail(held) = stored \o held
    BY Zenon, <1>2, <2>4, HeadMoves
  <2>6. PastTheList' = stored \o held
    BY <2>2, <2>5
  <2> QED
    BY <2>1, <2>6
<1>3. CASE codec' = held /\ ve' = [ve EXCEPT !.pc = back, !.out = "none", !.junk = junk]
  <2>1. ve'.pc = back /\ ve'.junk = junk /\ ve'.first = ve.first
    BY <1>3 DEF TypeOK, VideoOutType
  <2> QED
    BY <1>1, <1>3, <2>1 DEF Forms
<1> QED
  BY <1>2, <1>3 DEF Encoded

-----------------------------------------------------------------------------
(* What the steps do to the order                                          *)

\* The fields of the list a frame's place depends on.
SameList ==
  /\ videoList'.readpos = videoList.readpos /\ videoList'.size = videoList.size
  /\ videoList'.framebuf = videoList.framebuf

\* Only a new recording, the camera's fill and the video encoder thread touch
\* what the order is about.
LEMMA OrderQuiet ==
  ASSUME TypeOK, [Next]_vars
  PROVE  \/ StartLists \/ StartCreateVideo \/ VideoFill \/ VideoEncoder
         \/ UNCHANGED <<ve, codec, stored, accepted>> /\ SameList
<1> SUFFICES ASSUME ~StartLists, ~StartCreateVideo, ~VideoFill, ~VideoEncoder
             PROVE  UNCHANGED <<ve, codec, stored, accepted>> /\ SameList
  OBVIOUS
<1>1. UNCHANGED <<ve, codec, stored, accepted>>
  BY DEF Next, Start, Stop, Camera, AudioSource, AudioEncoder, StartInitial, StartOpen,
     StartCreateAudio, StopEnter, StopJoinAudio, StopJoinVideo, StopLockTrailer, StopTrailer,
     StopCloseAudio, StopFreeStreams, StopFreeContext, VideoCall, VideoRefused, VideoEnter,
     AudioCall, AudioRefused, AudioEnter, AudioCopy, AeBegin, AeTop, AeDequeue, AeEncode, AeKeep,
     AeLockWriter, AeWrite, AeExit, vars, cameraVars, videoIn, inputVars, videoOut, encoderVars
<1>2. \/ videoList' = videoList \/ \E t \in {"vp", "ctl"} : videoList' = Lock(videoList, t)
      \/ videoList' = Unlock(videoList) \/ videoList' = Unlock(ListFree(videoList))
  BY DEF Next, Start, Stop, Camera, AudioSource, AudioEncoder, StartInitial, StartOpen,
     StartCreateAudio, StopEnter, StopJoinAudio, StopJoinVideo, StopLockTrailer, StopTrailer,
     StopCloseAudio, StopFreeStreams, StopFreeContext, VideoCall, VideoRefused, VideoEnter,
     AudioCall, AudioRefused, AudioEnter, AudioCopy, AeBegin, AeTop, AeDequeue, AeEncode, AeKeep,
     AeLockWriter, AeWrite, AeExit, vars, cameraVars, videoIn, inputVars
<1>3. SameList
  BY <1>2, LockKeeps, UnlockKeeps, ListFreeKeeps, ListFreeType, SizesAssumption
     DEF SameList, TypeOK, VideoListType
<1> QED
  BY <1>1, <1>3

\* A step that leaves the frames past the list and those in it alone.
LEMMA SameOrder ==
  ASSUME FifoInv, SameList, accepted' = accepted, PastTheList' = PastTheList,
         ve'.junk = ve.junk, ve'.first = ve.first
  PROVE  FifoInv'
<1>1. Captured' = Captured
  BY DEF Captured
<1>2. \A k \in 1..Len(PastTheList) : OwnOrLapped(k) => OwnOrLapped(k)'
  BY DEF OwnOrLapped
<1> QED
  BY <1>1, <1>2 DEF FifoInv, SameList

\* The camera stores a frame behind those in the list.
LEMMA FillOrder ==
  ASSUME TypeOK, IInv, FifoInv, PlaceInv, TypeOK', VideoFill
  PROVE  FifoInv'
<1> DEFINE N == VIDEOFRAMEBUFSIZE
<1> USE SizesAssumption
<1>1. /\ vp.stamp \in Nat /\ vp.stamp >= 1 /\ videoList.size < N
      /\ videoList.size \in 0..N /\ videoList.writepos \in 0..N-1 /\ videoList.readpos \in 0..N-1
      /\ videoList.framebuf \in [0..N-1 -> Nat] /\ accepted \in Seq(Nat)
      /\ videoList.writepos = SlotAt(videoList.readpos, videoList.size, N)
  BY DEF VideoFill, TypeOK, IInv, ProducersInv, ListsInv, Consistent, PlaceInv, CameraType,
     VideoListType, ListOf
<1>2. UNCHANGED <<ve, codec, stored>>
  BY DEF VideoFill, encoderVars, videoOut
<1>4. CASE ~videoList.allocated
  <2>1. SameList /\ accepted' = accepted
    BY <1>4, UnlockKeeps DEF VideoFill, SameList, TypeOK, VideoListType
  <2>2. PastTheList' = PastTheList
    BY <1>2, <2>1 DEF PastTheList, SameList
  <2> QED
    BY <1>2, <2>1, <2>2, SameOrder
<1>5. CASE videoList.allocated
  <2>1. /\ videoList' = Unlock(Put(videoList, N, vp.stamp))
        /\ accepted' = Append(accepted, vp.stamp)
    BY <1>5 DEF VideoFill
  <2>2. Put(videoList, N, vp.stamp) \in ListOf(N, Nat, {"vp", "ctl"})
    BY <1>1, PutType DEF TypeOK, VideoListType
  <2>3. /\ videoList'.readpos = videoList.readpos /\ videoList'.size = videoList.size + 1
        /\ videoList'.framebuf = [videoList.framebuf EXCEPT ![videoList.writepos] = vp.stamp]
    <3> DEFINE put == Put(videoList, N, vp.stamp)
    <3>1. /\ put.readpos = videoList.readpos /\ put.size = videoList.size + 1
          /\ put.framebuf = [videoList.framebuf EXCEPT ![videoList.writepos] = vp.stamp]
      <4>1. videoList \in ListOf(N, Nat, {"vp", "ctl"})
        BY DEF TypeOK, VideoListType
      <4>2. put.readpos = videoList.readpos /\ put.size = videoList.size + 1
        BY <4>1, PutKeeps
      <4>3. put.framebuf = [videoList.framebuf EXCEPT ![videoList.writepos] = vp.stamp]
        <5>1. vp.stamp \in Nat
          BY <1>1
        <5> QED
          BY <4>1, <5>1, PutWrites
      <4> QED
        BY <4>2, <4>3
    <3>2. /\ videoList'.readpos = put.readpos /\ videoList'.size = put.size
          /\ videoList'.framebuf = put.framebuf
      <4>1. put \in ListOf(N, Nat, {"vp", "ctl"}) /\ videoList' = Unlock(put)
        BY <2>1, <2>2
      <4>2. N \in Nat \ {0}
        BY SizesAssumption
      <4> HIDE DEF put, N
      <4>3. /\ Unlock(put).readpos = put.readpos /\ Unlock(put).size = put.size
            /\ Unlock(put).framebuf = put.framebuf
        BY <4>1, <4>2, UnlockKeeps
      <4> QED
        BY <4>1, <4>3
    <3> QED
      BY <3>1, <3>2
  <2>4. /\ Len(accepted') = Len(accepted) + 1 /\ accepted'[Len(accepted) + 1] = vp.stamp
        /\ \A k \in 1..Len(accepted) : accepted'[k] = accepted[k]
        /\ Len(accepted) \in Nat
    BY <1>1, <2>1, AppendProperties, LenProperties
  <2>8. /\ Captured' = Captured /\ Len(PastTheList') = Len(PastTheList)
        /\ \A k \in 1..Len(PastTheList) : PastTheList'[k].pts = PastTheList[k].pts
        /\ Captured <= Len(PastTheList) /\ Len(PastTheList) \in Nat
        /\ \A k \in 1..Len(PastTheList) :
             \/ PastTheList'[k].img = PastTheList[k].img
             \/ PastTheList'[k].img = vp.stamp /\ k = Captured /\ videoList.size + 1 = N
    <3>1. PastTheList \in Seq(Chain) /\ ve.junk \in Nat
      BY PastForms DEF Forms, TypeOK, VideoOutType
    <3>2. CASE ve.pc # "encode"
      <4>1. PastTheList' = PastTheList
        BY <1>2, <3>2 DEF PastTheList
      <4> QED
        BY <1>2, <3>1, <4>1 DEF Captured, FifoInv
    <3>3. CASE ve.pc = "encode"
      <4> DEFINE s == stored \o codec
      <4>1. /\ s \in Seq(Chain) /\ PastTheList = Append(s, InSlot) /\ PastTheList' = Append(s, InSlot')
            /\ InSlot \in Chain /\ InSlot' \in Chain
        BY <1>2, <3>3, PastForms, NextForms, ChainAlgebra DEF Forms
      <4> HIDE DEF s
      <4>2. /\ Len(PastTheList) = Len(s) + 1 /\ Len(PastTheList') = Len(s) + 1 /\ Len(s) \in Nat
            /\ \A k \in 1..Len(s) : PastTheList'[k] = PastTheList[k]
            /\ PastTheList'[Len(s) + 1] = InSlot' /\ PastTheList[Len(s) + 1] = InSlot
        BY <4>1
      <4>3. ve.junk = 0 /\ Captured = Len(s) + 1 /\ Captured' = Len(s) + 1
        BY <1>2, <3>3, <4>2 DEF PlaceInv, VideoLoop, Captured
      <4>4. InSlot'.pts = InSlot.pts
        BY <1>2 DEF InSlot
      <4>5. InSlot'.img = InSlot.img \/ (InSlot'.img = vp.stamp /\ ve.slot = videoList.writepos)
        <5>1. ve.slot \in 0..N-1 /\ ve'.slot = ve.slot
          BY <1>2 DEF TypeOK, VideoOutType
        <5>2. \/ videoList'.framebuf[ve.slot] = videoList.framebuf[ve.slot]
              \/ videoList'.framebuf[ve.slot] = vp.stamp /\ ve.slot = videoList.writepos
          BY Zenon, <1>1, <2>3, <5>1
        <5> QED
          BY <5>1, <5>2 DEF InSlot
      <4>6. ve.slot = videoList.writepos => videoList.size + 1 = N
        <5>1. N \in Nat \ {0} /\ ve.slot \in 0..N-1
          BY DEF TypeOK, VideoOutType
        <5>2. videoList.readpos = SlotAt(ve.slot, 1, N)
          BY <3>3, <5>1, NextPosIsSlotAt DEF IInv, SlotInv
        <5> QED
          BY <1>1, <5>1, <5>2, OncePerLap
      <4>7. \A k \in 1..Len(PastTheList) : k \in 1..Len(s) \/ k = Len(s) + 1
        BY <4>2
      <4> QED
        BY <4>2, <4>3, <4>4, <4>5, <4>6, <4>7
    <3> QED
      BY <3>2, <3>3
  <2>5. /\ Captured \in Nat /\ Len(accepted) = Captured + videoList.size
        /\ Len(accepted') = Captured' + videoList'.size
    BY <1>1, <2>8, <2>3, <2>4 DEF FifoInv
  <2>6. ASSUME NEW k \in 1..videoList'.size
        PROVE  accepted'[Captured' + k]
                 = videoList'.framebuf[SlotAt(videoList'.readpos, k - 1, N)]
    <3>1. CASE k = videoList.size + 1
      <4>1. k - 1 = videoList.size /\ Captured + k = Len(accepted) + 1
        <5>1. videoList.size \in Nat
          BY <1>1
        <5> QED
          BY <2>5, <3>1, <5>1
      <4>2. videoList'.framebuf[videoList.writepos] = vp.stamp
        BY <1>1, <2>3
      <4> QED
        BY <1>1, <2>8, <2>3, <2>4, <4>1, <4>2
    <3>2. CASE k # videoList.size + 1
      <4> DEFINE slot == SlotAt(videoList.readpos, k - 1, N)
      <4>1. k \in 1..videoList.size
        BY <1>1, <2>3, <3>2
      <4>2. slot \in 0..N-1 /\ slot # videoList.writepos
        <5>1. k - 1 \in Nat /\ k - 1 < videoList.size /\ videoList.size \in 0..N-1
          BY <1>1, <4>1
        <5>2. videoList.readpos \in 0..N-1
              /\ videoList.writepos = SlotAt(videoList.readpos, videoList.size, N)
          BY <1>1
        <5> QED
          BY <5>1, <5>2, SlotsApart
      <4>3. Captured + k \in 1..Len(accepted)
        <5>1. videoList.size \in Nat
          BY <1>1
        <5> QED
          BY <2>5, <4>1, <5>1
      <4>4. accepted[Captured + k] = videoList.framebuf[slot]
        BY <4>1 DEF FifoInv
      <4>5. videoList'.framebuf[slot] = videoList.framebuf[slot]
        BY <1>1, <2>3, <4>2
      <4> QED
        BY <2>8, <2>3, <2>4, <4>3, <4>4, <4>5
    <3> QED
      BY <3>1, <3>2
  <2>7. /\ \A k \in 1..Len(accepted') : accepted'[k] >= 1
        /\ \A k \in 1..Captured' : accepted'[k] = PastTheList'[k].pts + ve'.first
    <3>1. \A k \in 1..Captured : k \in 1..Len(accepted)
      BY <1>1, <2>5
    <3>2. \A k \in 1..Len(accepted) : accepted[k] >= 1
      BY DEF FifoInv
    <3>3. \A k \in 1..Captured : accepted[k] = PastTheList[k].pts + ve.first
      BY DEF FifoInv
    <3>4. \A k \in 1..Captured' : accepted'[k] = PastTheList'[k].pts + ve'.first
      BY <1>2, <2>8, <2>4, <2>5, <3>1, <3>3
    <3>5. ASSUME NEW k \in 1..Len(accepted') PROVE accepted'[k] >= 1
      <4>1. k \in 1..Len(accepted) \/ k = Len(accepted) + 1
        BY <2>4
      <4> QED
        BY <1>1, <2>4, <3>2, <4>1
    <3> QED
      BY <3>4, <3>5
  <2>9. ASSUME NEW k \in 1..Len(PastTheList')
        PROVE  IF k > Captured' THEN PastTheList'[k].img = Junk ELSE OwnOrLapped(k)'
    <3>1. k \in 1..Len(PastTheList) /\ Captured' = Captured
      BY <2>8
    <3>2. CASE k > Captured
      BY <2>8, <3>1, <3>2 DEF FifoInv
    <3>3. CASE ~(k > Captured)
      <4> SUFFICES OwnOrLapped(k)'
        BY <3>1, <3>3
      <4>1. OwnOrLapped(k) /\ k \in 1..Captured /\ k \in 1..Len(accepted)
        BY <1>1, <2>5, <3>1, <3>3 DEF FifoInv
      <4>2. /\ DOMAIN accepted = 1..Len(accepted) /\ DOMAIN accepted' = 1..Len(accepted) + 1
        BY <1>1, <2>1, <2>4
      <4>3. CASE PastTheList'[k].img = PastTheList[k].img
        <5>1. CASE PastTheList[k].img = accepted[k]
          BY <2>4, <4>1, <4>3, <5>1 DEF OwnOrLapped
        <5>2. CASE k + N \in DOMAIN accepted /\ PastTheList[k].img = accepted[k + N]
          <6>1. k + N \in 1..Len(accepted) /\ k + N \in DOMAIN accepted'
            BY <2>4, <4>2, <5>2
          <6> HIDE DEF N
          <6>2. PastTheList'[k].img = accepted'[k + N]
            BY <2>4, <4>3, <5>2, <6>1
          <6> QED
            BY <6>1, <6>2 DEF OwnOrLapped, N
        <5> QED
          BY <4>1, <5>1, <5>2 DEF OwnOrLapped
      <4>4. CASE PastTheList'[k].img # PastTheList[k].img
        <5>1. PastTheList'[k].img = vp.stamp /\ k = Captured /\ videoList.size + 1 = N
          BY <2>8, <3>1, <4>4
        <5>2. k + N = Len(accepted) + 1
          <6>1. videoList.size \in Nat /\ Captured \in Nat /\ Len(accepted) = Captured + videoList.size
            BY <1>1, <2>5
          <6> HIDE DEF N
          <6> QED
            BY <5>1, <6>1
        <5>3. k + N \in DOMAIN accepted' /\ accepted'[k + N] = vp.stamp
          BY <2>4, <4>2, <5>2
        <5> QED
          BY <5>1, <5>3 DEF OwnOrLapped
      <4> QED
        BY <4>3, <4>4
    <3> QED
      BY <3>1, <3>2, <3>3
  <2> QED
    BY <1>2, <2>8, <2>5, <2>6, <2>7, <2>9 DEF FifoInv
<1> QED
  BY <1>4, <1>5

\* The encoder thread takes the oldest one.
LEMMA DequeueOrder ==
  ASSUME TypeOK, IInv, FifoInv, PlaceInv, TypeOK', VeDequeue
  PROVE  FifoInv' /\ ve'.junk = 0
<1> DEFINE N == VIDEOFRAMEBUFSIZE
<1> DEFINE p == PastTheList
<1> USE SizesAssumption
<1>1. /\ ve.pc = "loop" /\ videoList.size > 0
      /\ videoList.size \in 0..N /\ videoList.readpos \in 0..N-1
      /\ videoList.framebuf \in [0..N-1 -> Nat] /\ accepted \in Seq(Nat)
      /\ ve.first \in Int /\ ve.junk = 0
  BY DEF VeDequeue, TypeOK, VideoListType, ListOf, CameraType, VideoOutType, PlaceInv, VideoLoop
<1>2. /\ videoList'.readpos = SlotAt(videoList.readpos, 1, N)
      /\ videoList'.size = videoList.size - 1 /\ videoList'.framebuf = videoList.framebuf
  <2>1. videoList \in ListOf(N, Nat, {"vp", "ctl"}) /\ N \in Nat \ {0}
    BY DEF TypeOK, VideoListType
  <2>2. /\ Take(videoList, N).readpos = NextPos(videoList.readpos, N)
        /\ Take(videoList, N).size = videoList.size - 1
        /\ Take(videoList, N).framebuf = videoList.framebuf
    BY <2>1, TakeKeeps
  <2>3. NextPos(videoList.readpos, N) = SlotAt(videoList.readpos, 1, N)
    BY <1>1, <2>1, NextPosIsSlotAt
  <2>4. videoList' = Take(videoList, N)
    BY DEF VeDequeue
  <2> QED
    BY <2>2, <2>3, <2>4
<1> DEFINE old == videoList.framebuf[videoList.readpos]
<1> DEFINE first == IF ve.first = -1 THEN old ELSE ve.first
<1>3. /\ ve'.pc = "encode" /\ ve'.slot = videoList.readpos /\ ve'.first = first
      /\ ve'.pts = old - first /\ ve'.junk = ve.junk
      /\ UNCHANGED <<codec, stored, accepted>>
  BY DEF VeDequeue, TypeOK, VideoOutType, Oldest, cameraVars
<1>4. Captured = Len(p) /\ p \in Seq(Chain) /\ p = stored \o codec
  BY SMTT(30), <1>1, PastForms DEF Captured, Forms
<1>5. /\ accepted[Len(p) + 1] = old /\ Len(accepted) = Len(p) + videoList.size
      /\ old \in Nat /\ old >= 1
  <2>1. SlotAt(videoList.readpos, 1 - 1, N) = videoList.readpos
    BY <1>1 DEF SlotAt
  <2>2. /\ Len(accepted) = Len(p) + videoList.size /\ 1 \in 1..videoList.size
        /\ Len(p) + 1 \in 1..Len(accepted)
    <3>1. Len(p) \in Nat
      BY <1>4
    <3>2. Len(accepted) = Len(p) + videoList.size
      BY <1>4 DEF FifoInv
    <3>3. 1 \in 1..videoList.size /\ videoList.size \in Nat /\ videoList.size >= 1
      BY <1>1
    <3> QED
      BY <3>1, <3>2, <3>3
  <2> QED
    BY <1>1, <1>4, <2>1, <2>2 DEF FifoInv
<1>6. /\ InSlot' \in Chain /\ InSlot'.pts + ve'.first = old /\ InSlot'.img = old
      /\ PastTheList' = Append(p, InSlot')
  <2>1. InSlot' \in Chain /\ PastTheList' = Append(stored \o codec, InSlot')
    BY <1>3, NextForms DEF Forms
  <2>2. InSlot'.pts = old - first /\ InSlot'.img = old
    BY <1>2, <1>3 DEF InSlot
  <2>3. (old - first) + first = old
    <3>1. first \in Int /\ old \in Int
      BY SMTT(30), <1>1, <1>5
    <3> HIDE DEF first, old
    <3> QED
      BY <3>1
  <2> QED
    BY <1>3, <1>4, <2>1, <2>2, <2>3
<1> HIDE DEF first, old, p
<1>7. /\ Len(PastTheList') = Len(p) + 1 /\ PastTheList'[Len(p) + 1] = InSlot'
      /\ \A k \in 1..Len(p) : PastTheList'[k] = p[k]
  BY <1>4, <1>6
<1>8. Captured' = Len(p) + 1 /\ Captured' \in Nat
  BY <1>1, <1>3, <1>4, <1>7 DEF Captured
<1>9. Len(accepted') = Captured' + videoList'.size
  BY <1>1, <1>2, <1>3, <1>4, <1>5, <1>8
<1>10. ASSUME NEW k \in 1..Len(PastTheList')
       PROVE  /\ OwnOrLapped(k)' /\ k <= Captured'
              /\ accepted'[k] = PastTheList'[k].pts + ve'.first
  <2>1. CASE k = Len(p) + 1
    BY <1>3, <1>4, <1>5, <1>6, <1>7, <1>8, <2>1 DEF OwnOrLapped
  <2>2. CASE k # Len(p) + 1
    <3>1. k \in 1..Len(p) /\ k \in 1..Captured
      <4>1. Len(p) \in Nat
        BY <1>4
      <4> QED
        BY <1>4, <1>7, <2>2, <4>1
    <3>2. /\ OwnOrLapped(k) /\ accepted[k] = p[k].pts + ve.first /\ Captured # 0
      BY <1>4, <3>1 DEF FifoInv, p
    <3>3. ve'.first = ve.first
      BY <1>3, <3>2 DEF FifoInv, first
    <3>4. OwnOrLapped(k)'
      BY <1>3, <1>7, <3>1, <3>2 DEF OwnOrLapped, p
    <3> QED
      BY <1>3, <1>7, <1>8, <3>1, <3>2, <3>3, <3>4
  <2> QED
    BY <2>1, <2>2
<1>11. ASSUME NEW k \in 1..videoList'.size
       PROVE  accepted'[Captured' + k]
                = videoList'.framebuf[SlotAt(videoList'.readpos, k - 1, N)]
  <2>1. k \in 1..N-1 /\ k + 1 \in 1..videoList.size /\ (Len(p) + 1) + k = Len(p) + (k + 1)
    BY <1>1, <1>2, <1>4
  <2>2. SlotAt(SlotAt(videoList.readpos, 1, N), k - 1, N) = SlotAt(videoList.readpos, (k + 1) - 1, N)
    <3>1. videoList.readpos \in 0..N-1 /\ N \in Nat \ {0}
      BY <1>1
    <3> QED
      BY <2>1, <3>1, SlotOneOn
  <2> QED
    BY <1>2, <1>3, <1>4, <1>8, <2>1, <2>2 DEF FifoInv
<1>12. \A k \in 1..Len(accepted') : accepted'[k] >= 1
  BY <1>3 DEF FifoInv
<1>13. ve'.first # -1
  BY <1>1, <1>3, <1>5 DEF first
<1>14. FifoInv'
  <2>1. ve'.junk \in 0..MaxJunk
    BY <1>3 DEF FifoInv
  <2>2. ASSUME NEW k \in 1..Len(PastTheList')
        PROVE  IF k > Captured' THEN PastTheList'[k].img = Junk ELSE OwnOrLapped(k)'
    <3>1. ~(k > Captured')
      BY <1>7, <1>8, <1>4
    <3> QED
      BY <1>10, <3>1
  <2>3. \A k \in 1..Captured' : accepted'[k] = PastTheList'[k].pts + ve'.first
    BY <1>7, <1>8, <1>4, <1>10
  <2> QED
    BY <1>8, <1>9, <1>11, <1>12, <1>13, <2>1, <2>2, <2>3 DEF FifoInv
<1> QED
  BY <1>1, <1>3, <1>14

\* The encoder is given the picture the slot shows.
LEMMA EncodeOrder ==
  ASSUME TypeOK, FifoInv, PlaceInv, TypeOK', VeEncode
  PROVE  FifoInv' /\ (ve'.pc = "loop" \/ ve'.pc = "write") /\ ve'.junk = 0
<1>1. /\ ve.pc = "encode" /\ ve.junk = 0
      /\ Encoded(Append(codec, InSlot), "loop", ve.junk)
      /\ UNCHANGED <<stored, accepted, videoList>>
  BY DEF VeEncode, PlaceInv, VideoLoop, inputVars, videoIn, cameraVars, InSlot
<1>2. /\ stored \in Seq(Chain) /\ codec \in Seq(Chain) /\ InSlot \in Chain
      /\ PastTheList = Append(stored \o codec, InSlot)
  BY <1>1, PastForms DEF Forms
<1> HIDE DEF InSlot
<1>3. /\ Append(codec, InSlot) \in Seq(Chain)
      /\ stored \o Append(codec, InSlot) = Append(stored \o codec, InSlot)
  BY <1>2, ChainAlgebra
<1>4. /\ PastTheList' = PastTheList /\ ve'.junk = ve.junk /\ ve'.first = ve.first
      /\ ve'.pc = "loop" \/ ve'.pc = "write"
  BY <1>1, <1>2, <1>3, PastEncoded
<1> QED
  BY <1>1, <1>4, SameOrder DEF SameList

\* The flush takes back what the encoder holds, or adds a picture of its own
\* behind it.
LEMMA FlushOrder ==
  ASSUME TypeOK, FifoInv, TypeOK', VeFlush
  PROVE  FifoInv' /\ (ve'.pc = "flush" \/ (ve'.pc = "write" /\ ve'.back = "flush"))
<1> DEFINE a == stored \o codec
<1>1. /\ ve.pc = "flush" /\ UNCHANGED <<stored, accepted, videoList>>
      /\ \/ Encoded(codec, "flush", ve.junk)
         \/ ve.junk < MaxJunk /\ Encoded(Append(codec, NoPacket), "flush", ve.junk + 1)
      /\ ve.junk \in Nat /\ NoPacket \in Chain /\ NoPacket.img = Junk
  BY DEF VeFlush, inputVars, videoIn, cameraVars, TypeOK, VideoOutType, NoPacket, Chain, Junk
<1>2. /\ stored \in Seq(Chain) /\ codec \in Seq(Chain) /\ PastTheList = a /\ a \in Seq(Chain)
  BY <1>1, PastForms, ChainAlgebra DEF Forms
<1>3. CASE Encoded(codec, "flush", ve.junk)
  <2>1. /\ PastTheList' = PastTheList /\ ve'.junk = ve.junk /\ ve'.first = ve.first
        /\ ve'.pc = "flush" \/ (ve'.pc = "write" /\ ve'.back = "flush")
    BY <1>1, <1>2, <1>3, PastEncoded
  <2> QED
    BY <1>1, <2>1, SameOrder DEF SameList
<1>4. CASE ve.junk < MaxJunk /\ Encoded(Append(codec, NoPacket), "flush", ve.junk + 1)
  <2>1. /\ Append(codec, NoPacket) \in Seq(Chain)
        /\ stored \o Append(codec, NoPacket) = Append(a, NoPacket)
    BY <1>1, <1>2, ChainAlgebra
  <2>2. /\ PastTheList' = Append(a, NoPacket) /\ ve'.junk = ve.junk + 1 /\ ve'.first = ve.first
        /\ ve'.pc = "flush" \/ (ve'.pc = "write" /\ ve'.back = "flush")
    BY <1>1, <1>4, <2>1, PastEncoded
  <2> HIDE DEF a
  <2>3. /\ Len(PastTheList) = Len(a) /\ Len(PastTheList') = Len(a) + 1 /\ Len(a) \in Nat
        /\ \A k \in 1..Len(a) : PastTheList'[k] = PastTheList[k]
        /\ PastTheList'[Len(a) + 1] = NoPacket
    BY <1>1, <1>2, <2>2
  <2>4. Captured' = Captured /\ Captured \in Nat /\ Captured <= Len(a)
    BY <1>1, <2>2, <2>3 DEF Captured, FifoInv
  <2>5. ASSUME NEW k \in 1..Len(PastTheList')
        PROVE  IF k > Captured' THEN PastTheList'[k].img = Junk ELSE OwnOrLapped(k)'
    <3>1. k \in 1..Len(a) \/ (k = Len(a) + 1 /\ k > Captured)
      BY <2>3, <2>4
    <3>2. k \in 1..Len(a) /\ OwnOrLapped(k) => OwnOrLapped(k)'
      BY <1>1, <2>3 DEF OwnOrLapped
    <3> QED
      BY <1>1, <2>3, <2>4, <3>1, <3>2 DEF FifoInv
  <2>6. \A k \in 1..Captured' : PastTheList'[k] = PastTheList[k]
    BY <2>3, <2>4
  <2>7. \A k \in 1..Captured' : accepted'[k] = PastTheList'[k].pts + ve'.first
    BY <1>1, <2>2, <2>4, <2>6 DEF FifoInv
  <2>8. ve'.junk \in 0..MaxJunk
    BY <1>1, <1>4, <2>2, BoundsAssumption
  <2> QED
    BY <1>1, <2>2, <2>4, <2>5, <2>7, <2>8 DEF FifoInv
<1> QED
  BY <1>1, <1>3, <1>4

\* The other steps of the thread move a frame without changing its place.
LEMMA MoveOrder ==
  ASSUME TypeOK, TypeOK', FifoInv, VeBegin \/ VeLockWriter \/ VeWrite \/ VeLeave \/ VeExit \/ VeEnd
  PROVE  FifoInv' /\ ve'.junk = ve.junk
<1>1. UNCHANGED <<videoList, accepted, codec>>
  BY DEF VeBegin, VeLockWriter, VeWrite, VeLeave, VeExit, VeEnd, inputVars, videoIn, cameraVars
<1>2. ve'.junk = ve.junk /\ ve'.first = ve.first /\ ve'.packet = ve.packet
  BY DEF VeBegin, VeLockWriter, VeWrite, VeLeave, VeExit, VeEnd, TypeOK, VideoOutType
<1>3. Forms /\ Forms'
  BY PastForms, NextForms
<1>4. PastTheList' = PastTheList
  <2>1. CASE VeBegin \/ VeLeave \/ VeExit \/ VeEnd
    <3>1. /\ ve.pc \notin {"write", "writing", "encode"} /\ ve'.pc \notin {"write", "writing", "encode"}
          /\ stored' = stored
      BY <2>1 DEF VeBegin, VeLeave, VeExit, VeEnd, TypeOK, VideoOutType
    <3> QED
      BY <1>1, <1>3, <3>1 DEF Forms
  <2>2. CASE VeLockWriter
    <3>1. ve.pc = "write" /\ ve'.pc = "writing" /\ stored' = stored
      BY <2>2 DEF VeLockWriter, TypeOK, VideoOutType
    <3> QED
      BY <1>1, <1>2, <1>3, <3>1 DEF Forms
  <2>3. CASE VeWrite
    <3>1. ve.pc = "writing" /\ ve'.pc \in {"loop", "flush"} /\ stored' = Append(stored, ve.packet)
      BY <2>3 DEF VeWrite, TypeOK, VideoOutType
    <3> QED
      BY <1>1, <1>3, <3>1 DEF Forms
  <2> QED
    BY <2>1, <2>2, <2>3
<1> QED
  BY <1>1, <1>2, <1>4, SameOrder DEF SameList

\* Every step keeps the order ...
LEMMA StepOrder ==
  ASSUME TypeOK, IInv, TypeOK', FifoInv, PlaceInv, [Next]_vars
  PROVE  FifoInv'
<1>1. CASE StartLists
  <2>1. /\ codec' = <<>> /\ stored' = <<>> /\ accepted' = <<>>
        /\ ve'.pc = "none" /\ ve'.junk = 0
    BY <1>1 DEF StartLists, VideoThread
  <2>2. videoList'.size = 0
    BY <1>1, ListInitKeeps, SizesAssumption DEF StartLists, TypeOK, VideoListType
  <2>3. PastTheList' = <<>> \o <<>>
    BY <2>1, NextForms DEF Forms
  <2>4. Len(PastTheList') = 0
    BY <2>3
  <2>5. Captured' = 0 /\ Len(accepted') = 0 /\ 0 \in 0..MaxJunk
    BY <2>1, <2>4, BoundsAssumption DEF Captured
  <2> QED
    BY <2>1, <2>2, <2>4, <2>5 DEF FifoInv
<1>2. CASE StartCreateVideo
  <2>1. /\ UNCHANGED <<stored, codec, accepted, videoList>>
        /\ ve' = ve \/ ve' = VideoThread("begin")
    BY <1>2 DEF StartCreateVideo, inputVars, videoIn, cameraVars
  <2>2. /\ accepted = <<>> /\ stored = <<>> /\ codec = <<>> /\ videoList.size = 0
        /\ ve.pc \in {"none", "done"}
    BY <1>2 DEF StartCreateVideo, PlaceInv, IInv, ThreadsInv, Starting
  <2>3. PastTheList = stored \o codec /\ PastTheList' = stored \o codec
    BY <2>1, <2>2, PastForms, NextForms DEF Forms, VideoThread
  <2>4. CASE ve' = ve
    BY <2>1, <2>3, <2>4, SameOrder DEF SameList
  <2>5. CASE ve' = VideoThread("begin")
    <3>1. Len(PastTheList') = 0 /\ ve'.junk = 0
      BY <2>2, <2>3, <2>5 DEF VideoThread
    <3>2. Captured' = 0 /\ Len(accepted') = 0 /\ 0 \in 0..MaxJunk
      BY <2>1, <2>2, <3>1, BoundsAssumption DEF Captured
    <3> QED
      BY <2>1, <2>2, <3>1, <3>2 DEF FifoInv
  <2> QED
    BY <2>1, <2>4, <2>5
<1>3. CASE VideoFill
  BY <1>3, FillOrder
<1>4. CASE VideoEncoder
  BY <1>4, DequeueOrder, EncodeOrder, FlushOrder, MoveOrder DEF VideoEncoder
<1>5. CASE UNCHANGED <<ve, codec, stored, accepted>> /\ SameList
  <2>1. PastTheList' = PastTheList
    BY <1>5 DEF PastTheList, SameList
  <2> QED
    BY <1>5, <2>1, SameOrder
<1> QED
  BY <1>1, <1>2, <1>3, <1>4, <1>5, OrderQuiet

\* The stamps given are positive.
LEMMA StampPositive ==
  ASSUME TypeOK, IInv, [Next]_vars, vp.pc = "fill" => vp.stamp >= 1
  PROVE  vp'.pc = "fill" => vp'.stamp >= 1
<1>1. CASE VideoCall
  BY <1>1 DEF VideoCall
<1>2. CASE VideoRefused
  BY <1>2 DEF VideoRefused, VideoIdle
<1>3. CASE VideoEnter
  <2>1. PICK first, stamp :
          /\ stamp = Advance(VideoTicks(vp.time - first), lastpts)
          /\ first = IF firstpts_video < 0 THEN vp.time ELSE firstpts_video
          /\ vp' = VideoIdle \/ vp' = [vp EXCEPT !.pc = "fill", !.stamp = stamp]
    BY <1>3 DEF VideoEnter
  <2>2. vp.time - first \in Nat /\ lastpts \in Nat
    BY <1>3, <2>1 DEF VideoEnter, TypeOK, IInv, ProducersInv, CameraType
  <2>3. VideoTicks(vp.time - first) \in Nat
    BY <2>2, TicksNat
  <2>4. stamp >= 1
    <3> DEFINE ticks == VideoTicks(vp.time - first)
    <3> HIDE DEF ticks
    <3>1. ticks \in Nat /\ stamp = Advance(ticks, lastpts)
      BY <2>1, <2>3 DEF ticks
    <3> QED
      BY <2>2, <3>1 DEF Advance
  <2>5. vp' = VideoIdle \/ vp'.stamp = stamp
    BY <2>1 DEF TypeOK, CameraType
  <2> QED
    BY <2>4, <2>5 DEF VideoIdle
<1>4. CASE VideoFill
  BY <1>4 DEF VideoFill, VideoIdle
<1>5. CASE vp' = vp
  BY <1>5
<1> QED
  BY <1>1, <1>2, <1>3, <1>4, <1>5 DEF Next, Start, Stop, Camera, AudioSource, VideoEncoder,
     AudioEncoder, StartInitial, StartOpen, StartLists, StartCreateVideo, StartCreateAudio,
     StopEnter, StopJoinAudio, StopJoinVideo, StopLockTrailer, StopTrailer, StopCloseAudio,
     StopFreeStreams, StopFreeContext, AudioCall, AudioRefused, AudioEnter, AudioCopy, VeBegin,
     VeDequeue, VeEncode, VeLockWriter, VeWrite, VeLeave, VeExit, VeFlush, VeEnd, AeBegin, AeTop,
     AeDequeue, AeEncode, AeKeep, AeLockWriter, AeWrite, AeExit, vars, cameraVars, videoIn,
     inputVars

\* ... and what is known of the places.
LEMMA StepPlace ==
  ASSUME TypeOK, IInv, TypeOK', IInv', FifoInv, PlaceInv, [Next]_vars
  PROVE  PlaceInv'
<1>1. vp'.pc = "fill" => vp'.stamp >= 1
  BY StampPositive DEF PlaceInv
<1>2. CASE StartLists
  <2>1. videoList'.size = 0
    BY <1>2, ListInitKeeps, SizesAssumption DEF StartLists, TypeOK, VideoListType
  <2>2. /\ codec' = <<>> /\ stored' = <<>> /\ accepted' = <<>>
        /\ ve'.pc = "none" /\ ve'.junk = 0
    BY <1>2 DEF StartLists, VideoThread
  <2> QED
    BY <1>1, <2>1, <2>2 DEF PlaceInv
<1>3. CASE StartCreateVideo
  <2>1. ctl' # "create_video" /\ (ve' = ve \/ ve' = VideoThread("begin"))
        /\ ve.pc \in {"none", "done"}
    BY <1>3 DEF StartCreateVideo, IInv, ThreadsInv, Starting
  <2> QED
    BY <1>1, <2>1 DEF PlaceInv, VideoThread, VideoLoop
<1>4. CASE VideoFill
  <2>1. ctl' = ctl /\ ve' = ve /\ ctl # "create_video"
    BY <1>4 DEF VideoFill, sessionVars, encoderVars, videoOut, IInv, CallsInv, Starting
  <2> QED
    BY <1>1, <2>1 DEF PlaceInv, VideoLoop
<1>5. CASE VideoEncoder
  <2>1. ctl' = ctl /\ ctl # "create_video"
    <3>1. ve.pc \notin {"none", "done"}
      BY <1>5 DEF VideoEncoder, VeBegin, VeDequeue, VeEncode, VeLockWriter, VeWrite, VeLeave, VeExit, VeFlush, VeEnd
    <3>2. ctl' = ctl
      BY <1>5 DEF VideoEncoder, VeBegin, VeDequeue, VeEncode, VeLockWriter, VeWrite, VeLeave, VeExit, VeFlush,
         VeEnd, sessionVars
    <3> QED
      BY <3>1, <3>2 DEF IInv, ThreadsInv, Starting
  <2>2. CASE VeDequeue
    <3>1. ve'.junk = 0
      BY <2>2, DequeueOrder
    <3> QED
      BY <1>1, <2>1, <3>1 DEF PlaceInv
  <2>3. CASE VeEncode
    <3>1. ve'.pc # "encode" /\ ve'.junk = 0
      BY <2>3, EncodeOrder
    <3> QED
      BY <1>1, <2>1, <3>1 DEF PlaceInv
  <2>4. CASE VeFlush
    <3>1. ve'.pc = "flush" \/ (ve'.pc = "write" /\ ve'.back = "flush")
      BY <2>4, FlushOrder
    <3> QED
      BY <1>1, <2>1, <3>1 DEF PlaceInv, VideoLoop
  <2>5. CASE VeBegin \/ VeLockWriter \/ VeWrite \/ VeLeave \/ VeExit \/ VeEnd
    <3>1. ve'.junk = ve.junk
      BY <2>5, MoveOrder
    <3>2. /\ ve'.pc # "encode"
          /\ ve'.pc \in {"none", "begin"} \/ VideoLoop' => ve.pc = "begin" \/ VideoLoop
      BY <2>5 DEF VeBegin, VeLockWriter, VeWrite, VeLeave, VeExit, VeEnd, TypeOK, VideoOutType, VideoLoop
    <3> QED
      BY <1>1, <2>1, <3>1, <3>2 DEF PlaceInv
  <2> QED
    BY <1>5, <2>2, <2>3, <2>4, <2>5 DEF VideoEncoder
<1>6. CASE ~StartLists /\ UNCHANGED <<ve, codec, stored, accepted>> /\ SameList
  <2>1. ctl' = "create_video" => ctl = "create_video"
    BY <1>6 DEF Next, Start, Stop, Camera, AudioSource, VideoEncoder,
     AudioEncoder, StartInitial, StartOpen, StartCreateVideo, StartCreateAudio,
     StopEnter, StopJoinAudio, StopJoinVideo, StopLockTrailer, StopTrailer, StopCloseAudio,
     StopFreeStreams, StopFreeContext, VideoCall, VideoRefused, VideoEnter, VideoFill, AudioCall,
     AudioRefused, AudioEnter, AudioCopy, VeBegin,
     VeDequeue, VeEncode, VeLockWriter, VeWrite, VeLeave, VeExit, VeFlush, VeEnd, AeBegin, AeTop,
     AeDequeue, AeEncode, AeKeep, AeLockWriter, AeWrite, AeExit, vars, sessionVars
  <2> QED
    BY <1>1, <1>6, <2>1 DEF PlaceInv, SameList, VideoLoop
<1> QED
  BY <1>2, <1>3, <1>4, <1>5, <1>6, OrderQuiet

\* Nothing is anywhere at first.
LEMMA InitOrder == Init => FifoInv /\ PlaceInv
<1> SUFFICES ASSUME Init PROVE FifoInv /\ PlaceInv
  OBVIOUS
<1>1. /\ stored = <<>> /\ codec = <<>> /\ accepted = <<>> /\ videoList.size = 0
      /\ ve.pc = "none" /\ ve.junk = 0 /\ vp.pc = "idle"
  BY DEF Init, VideoThread, UnallocatedList, VideoIdle
<1>2. PastTheList = <<>> \o <<>>
  BY <1>1, InitType, PastForms DEF Forms
<1>3. Len(PastTheList) = 0
  BY <1>2
<1>4. Captured = 0 /\ 0 \in 0..MaxJunk
  BY <1>1, <1>3, BoundsAssumption DEF Captured
<1> QED
  BY <1>1, <1>3, <1>4 DEF FifoInv, PlaceInv

\* The order is kept in every behaviour.
LEMMA OrderInvariance == Spec => [](TypeOK /\ IInv /\ FifoInv /\ PlaceInv)
<1>1. TypeOK /\ IInv /\ FifoInv /\ PlaceInv /\ TypeOK' /\ IInv' /\ [Next]_vars
        => FifoInv' /\ PlaceInv'
  BY StepOrder, StepPlace
<1> QED
  BY <1>1, InitOrder, Invariance, PTL DEF Spec

\* FifoInv is VideoFifo, position by position.
LEMMA FifoIsVideoFifo ==
  ASSUME TypeOK, FifoInv
  PROVE  VideoFifo
<1> DEFINE c == Contents(videoList, VIDEOFRAMEBUFSIZE)
           f == [k \in 1..Captured |-> PastTheList[k].pts + ve.first]
<1>1. /\ PastTheList \in Seq(Chain) /\ accepted \in Seq(Nat) /\ ve.first \in Int
      /\ videoList.size \in Nat /\ Captured \in Nat /\ ve.junk \in Nat
  BY PastForms, BoundsAssumption DEF FifoInv, Forms, TypeOK, CameraType, VideoOutType, VideoListType, ListOf
<1>2. Captured <= Len(PastTheList) /\ Len(PastTheList) \in Nat
  BY <1>1 DEF Captured
<1>3. f \in Seq(Int) /\ Len(f) = Captured
  <2>1. ASSUME NEW k \in 1..Captured PROVE PastTheList[k].pts + ve.first \in Int
    <3>1. k \in 1..Len(PastTheList)
      BY <1>1, <1>2
    <3>2. PastTheList[k] \in Chain
      BY <1>1, <3>1
    <3> QED
      BY <1>1, <3>2 DEF Chain
  <2>2. f \in [1..Captured -> Int]
    BY <2>1
  <2> HIDE DEF f
  <2> QED
    BY <1>1, <2>2
<1>4. c \in Seq(Int) /\ Len(c) = videoList.size
  <2>1. ASSUME NEW k \in 1..videoList.size
        PROVE  videoList.framebuf[SlotAt(videoList.readpos, k - 1, VIDEOFRAMEBUFSIZE)] \in Int
    <3>1. /\ Captured + k \in 1..Len(accepted)
          /\ accepted[Captured + k]
               = videoList.framebuf[SlotAt(videoList.readpos, k - 1, VIDEOFRAMEBUFSIZE)]
      BY <1>1 DEF FifoInv
    <3>2. accepted[Captured + k] \in Int
      BY <1>1, <3>1
    <3> QED
      BY <3>1, <3>2
  <2>2. c \in [1..videoList.size -> Int]
    BY <2>1 DEF Contents
  <2> HIDE DEF c
  <2> QED
    BY <1>1, <2>2
<1>5. /\ \A k \in 1..Captured : f[k] = accepted[k]
      /\ \A k \in 1..videoList.size : c[k] = accepted[Captured + k]
      /\ Len(accepted) = Captured + videoList.size
  BY DEF FifoInv, Contents
<1> HIDE DEF c, f
<1>6. accepted = f \o c
  <2>1. /\ f \o c \in Seq(Int) /\ Len(f \o c) = Captured + videoList.size
        /\ \A k \in 1..Captured + videoList.size :
             (f \o c)[k] = IF k <= Captured THEN f[k] ELSE c[k - Captured]
    <3>1. /\ f \o c \in Seq(Int) /\ Len(f \o c) = Len(f) + Len(c)
          /\ \A k \in 1..Len(f) + Len(c) :
               (f \o c)[k] = IF k <= Len(f) THEN f[k] ELSE c[k - Len(f)]
      BY <1>3, <1>4, ConcatProperties
    <3> QED
      BY Zenon, <1>3, <1>4, <3>1
  <2>2. Nat \subseteq Int
    OBVIOUS
  <2>3. accepted \in Seq(Int)
    BY <1>1, <2>2, SeqMonotonic
  <2>4. ASSUME NEW k \in 1..Len(accepted) PROVE accepted[k] = (f \o c)[k]
    <3>1. k \in 1..Captured + videoList.size
      BY <1>5
    <3>2. CASE k <= Captured
      <4>1. k \in 1..Captured
        BY <1>1, <3>1, <3>2
      <4> QED
        BY <1>5, <2>1, <3>1, <3>2, <4>1
    <3>3. CASE ~(k <= Captured)
      <4>1. k - Captured \in 1..videoList.size /\ Captured + (k - Captured) = k
        BY <1>1, <3>1, <3>3
      <4> QED
        BY <1>5, <2>1, <3>1, <3>3, <4>1
    <3> QED
      BY <3>2, <3>3
  <2>5. Len(accepted) = Len(f \o c)
    BY <1>5, <2>1
  <2> QED
    BY <2>1, <2>3, <2>4, <2>5, SeqEqual
<1>7. DOMAIN PastTheList = 1..Len(PastTheList)
  BY <1>1
<1> QED
  BY <1>6, <1>7 DEF VideoFifo, FifoInv, f, c

\* No accepted frame's stamp is lost, repeated or reordered between the list, the
\* encoder and the file (RealTimeEnc.cpp:839-950), whatever the threads do, and
\* the picture under it is its own or, when the ring was lapped while its slot
\* was being encoded (860-863), that of the frame a whole ring later.
THEOREM FramesKeepTheirPlace == Spec => []VideoFifo
<1>1. TypeOK /\ FifoInv => VideoFifo
  BY FifoIsVideoFifo
<1> QED
  BY <1>1, OrderInvariance, PTL

-----------------------------------------------------------------------------
(* The timestamps increase                                                 *)

\* While a frame can still come in, lastpts is the stamp of the last one.
VideoLive ==
  vp.pc # "idle" \/ m_state_video = RUNNING \/ ve.pc = "begin" \/ ctl = "create_video"

StampsInv ==
  /\ \A i, j \in 1..Len(accepted) : i < j => accepted[i] < accepted[j]
  /\ VideoLive => \A k \in 1..Len(accepted) : accepted[k] <= lastpts
  /\ vp.pc = "fill" => vp.stamp <= lastpts /\ \A k \in 1..Len(accepted) : accepted[k] < vp.stamp

\* The last packet of the audio encoder has the largest timestamp so far.
AudioStampsInv ==
  /\ \A i, j \in 1..Len(audioStored) : i < j => audioStored[i] < audioStored[j]
  /\ \A k \in 1..Len(audioStored) : audioStored[k] <= ae.last
  /\ ae.pc \in {"write", "writing"} =>
       ae.packet = ae.last /\ \A k \in 1..Len(audioStored) : audioStored[k] < ae.last
  /\ ctl \in {"create_video", "create_audio"} => audioStored = <<>>

\* A larger element at the end keeps a sequence increasing.
LEMMA AppendIncreases ==
  ASSUME NEW s \in Seq(Nat), NEW e \in Nat,
         \A i, j \in 1..Len(s) : i < j => s[i] < s[j], \A k \in 1..Len(s) : s[k] < e
  PROVE  /\ \A i, j \in 1..Len(Append(s, e)) : i < j => Append(s, e)[i] < Append(s, e)[j]
         /\ \A k \in 1..Len(Append(s, e)) : Append(s, e)[k] <= e
<1>1. /\ Len(Append(s, e)) = Len(s) + 1 /\ Append(s, e)[Len(s) + 1] = e /\ Len(s) \in Nat
      /\ \A k \in 1..Len(s) : Append(s, e)[k] = s[k] /\ s[k] \in Nat
  BY AppendProperties, LenProperties, ElementOfSeq
<1> DEFINE t == Append(s, e)
<1> HIDE DEF t
<1>2. /\ Len(t) = Len(s) + 1 /\ t[Len(s) + 1] = e
      /\ \A k \in 1..Len(s) : t[k] = s[k]
  BY <1>1 DEF t
<1>3. \A k \in 1..Len(t) : k \in 1..Len(s) \/ k = Len(s) + 1
  BY <1>1, <1>2
<1>4. ASSUME NEW i \in 1..Len(t), NEW j \in 1..Len(t), i < j PROVE t[i] < t[j]
  <2>1. i \in 1..Len(s)
    BY <1>1, <1>2, <1>4
  <2> QED
    BY <1>2, <1>3, <1>4, <2>1
<1>5. \A k \in 1..Len(t) : t[k] <= e
  BY <1>1, <1>2, <1>3
<1> QED
  BY <1>4, <1>5 DEF t

\* Every step keeps the order of the video stamps ...
LEMMA StepStamps ==
  ASSUME TypeOK, IInv, StampsInv, [Next]_vars
  PROVE  StampsInv'
<1>1. CASE StartInitial
  <2>1. /\ accepted' = accepted /\ vp' = vp /\ vp.pc = "idle" /\ m_state_video' = m_state_video
        /\ ve' = ve /\ ctl' = "open" /\ ve.pc \in {"none", "done"}
    BY <1>1 DEF StartInitial, MayStart, encoderVars, videoOut, IInv, ThreadsInv
  <2>2. ~VideoLive'
    BY <2>1 DEF VideoLive, IInv, FlagsInv, VideoLoop
  <2> QED
    BY <2>1, <2>2 DEF StampsInv
<1>2. CASE StartLists
  <2>1. Len(accepted') = 0 /\ vp'.pc = "idle"
    BY <1>2 DEF StartLists, IInv, CallsInv, Starting
  <2> QED
    BY <2>1 DEF StampsInv
<1>3. CASE StartCreateVideo
  <2>1. UNCHANGED <<accepted, vp, lastpts>> /\ VideoLive
    BY <1>3 DEF StartCreateVideo, inputVars, videoIn, cameraVars, VideoLive
  <2> QED
    BY <2>1 DEF StampsInv
<1>4. CASE VideoCall
  <2>1. UNCHANGED <<accepted, lastpts>> /\ VideoLive /\ vp'.pc = "lock"
    BY <1>4 DEF VideoCall, VideoLive
  <2> QED
    BY <2>1 DEF StampsInv
<1>5. CASE VideoRefused
  <2>1. UNCHANGED <<accepted, lastpts>> /\ VideoLive /\ vp'.pc = "idle"
    BY <1>5 DEF VideoRefused, VideoLive, VideoIdle
  <2> QED
    BY <2>1 DEF StampsInv
<1>6. CASE VideoEnter
  <2>1. PICK first, stamp :
          /\ stamp = Advance(VideoTicks(vp.time - first), lastpts)
          /\ first = IF firstpts_video < 0 THEN vp.time ELSE firstpts_video
          /\ vp' = VideoIdle \/ vp' = [vp EXCEPT !.pc = "fill", !.stamp = stamp]
          /\ lastpts' = stamp /\ accepted' = accepted /\ VideoLive
    BY <1>6 DEF VideoEnter, VideoLive
  <2>2. vp.time - first \in Nat /\ lastpts \in Nat
    BY <1>6, <2>1 DEF VideoEnter, TypeOK, IInv, ProducersInv, CameraType
  <2>3. stamp \in Nat /\ stamp > lastpts
    <3> DEFINE ticks == VideoTicks(vp.time - first)
    <3>1. ticks \in Nat
      BY <2>2, TicksNat
    <3>2. stamp = Advance(ticks, lastpts)
      BY <2>1
    <3> HIDE DEF ticks
    <3> QED
      BY <2>2, <3>1, <3>2 DEF Advance
  <2>4. vp'.pc = "fill" => vp'.stamp = stamp
    <3>1. [vp EXCEPT !.pc = "fill", !.stamp = stamp].stamp = stamp
      BY DEF TypeOK, CameraType
    <3>2. VideoIdle.pc # "fill"
      BY DEF VideoIdle
    <3> QED
      BY Zenon, <2>1, <3>1, <3>2
  <2>5. \A k \in 1..Len(accepted) : accepted[k] \in Nat /\ accepted[k] <= lastpts
    BY <2>1 DEF TypeOK, CameraType, StampsInv
  <2>6. \A k \in 1..Len(accepted) : accepted[k] < stamp
    BY <2>2, <2>3, <2>5
  <2> QED
    BY <2>1, <2>3, <2>4, <2>5, <2>6 DEF StampsInv
<1>7. CASE VideoFill
  <2>1. /\ vp.pc = "fill" /\ vp'.pc = "idle" /\ lastpts' = lastpts /\ VideoLive
        /\ accepted' = accepted \/ accepted' = Append(accepted, vp.stamp)
        /\ vp.stamp \in Nat /\ accepted \in Seq(Nat) /\ lastpts \in Nat
    BY <1>7 DEF VideoFill, VideoIdle, VideoLive, TypeOK, CameraType
  <2>2. CASE accepted' = accepted
    BY <2>1, <2>2 DEF StampsInv
  <2>3. CASE accepted' = Append(accepted, vp.stamp)
    <3>1. /\ \A i, j \in 1..Len(accepted') : i < j => accepted'[i] < accepted'[j]
          /\ \A k \in 1..Len(accepted') : accepted'[k] <= vp.stamp
      BY <2>1, <2>3, AppendIncreases DEF StampsInv
    <3>2. ASSUME NEW k \in 1..Len(accepted') PROVE accepted'[k] <= lastpts
      <4>1. accepted'[k] \in Nat
        BY <2>1, <2>3
      <4> QED
        BY <2>1, <3>1, <4>1 DEF StampsInv
    <3> QED
      BY <2>1, <3>1, <3>2 DEF StampsInv
  <2> QED
    BY <2>1, <2>2, <2>3
<1>8. CASE VeBegin
  <2>1. UNCHANGED <<accepted, vp, lastpts>> /\ VideoLive
    BY <1>8 DEF VeBegin, inputVars, videoIn, cameraVars, VideoLive
  <2> QED
    BY <2>1 DEF StampsInv
<1>9. CASE UNCHANGED <<accepted, vp, lastpts>> /\ (VideoLive' => VideoLive)
  BY <1>9 DEF StampsInv
<1>10. CASE StartOpen \/ StartCreateAudio \/ Stop \/ AudioSource \/ AudioEncoder \/ UNCHANGED vars
  <2>1. UNCHANGED <<accepted, vp, lastpts, ve>>
    BY <1>10 DEF StartOpen, StartCreateAudio, Stop, AudioSource, AudioEncoder, StopEnter,
       StopJoinAudio, StopJoinVideo, StopLockTrailer, StopTrailer, StopCloseAudio,
       StopFreeStreams, StopFreeContext, AudioCall, AudioRefused, AudioEnter, AudioCopy, AeBegin,
       AeTop, AeDequeue, AeEncode, AeKeep, AeLockWriter, AeWrite, AeExit, vars, cameraVars,
       videoIn, inputVars, videoOut, encoderVars
  <2>2. m_state_video' = m_state_video
    BY <1>10 DEF StartOpen, StartCreateAudio, Stop, AudioSource, AudioEncoder, StopEnter,
       StopJoinAudio, StopJoinVideo, StopLockTrailer, StopTrailer, StopCloseAudio,
       StopFreeStreams, StopFreeContext, AudioCall, AudioRefused, AudioEnter, AudioCopy, AeBegin,
       AeTop, AeDequeue, AeEncode, AeKeep, AeLockWriter, AeWrite, AeExit, vars, flagVars
  <2>3. ctl' # "create_video" \/ ctl' = ctl
    BY <1>10 DEF StartOpen, StartCreateAudio, Stop, AudioSource, AudioEncoder, StopEnter,
       StopJoinAudio, StopJoinVideo, StopLockTrailer, StopTrailer, StopCloseAudio,
       StopFreeStreams, StopFreeContext, AudioCall, AudioRefused, AudioEnter, AudioCopy, AeBegin,
       AeTop, AeDequeue, AeEncode, AeKeep, AeLockWriter, AeWrite, AeExit, vars, sessionVars
  <2> QED
    BY <1>9, <2>1, <2>2, <2>3 DEF VideoLive
<1>11. CASE VeDequeue \/ VeEncode \/ VeLockWriter \/ VeWrite \/ VeLeave \/ VeExit \/ VeFlush \/ VeEnd
  <2>1. UNCHANGED <<accepted, vp, lastpts, ctl>>
    BY <1>11 DEF VeDequeue, VeEncode, VeLockWriter, VeWrite, VeLeave, VeExit, VeFlush, VeEnd, cameraVars,
       videoIn, inputVars, sessionVars
  <2>2. /\ ve'.pc # "begin"
        /\ m_state_video' = m_state_video \/ m_state_video' = THREADEXIT
    BY <1>11 DEF VeDequeue, VeEncode, VeLockWriter, VeWrite, VeLeave, VeExit, VeFlush, VeEnd, Encoded,
       flagVars, TypeOK, VideoOutType
  <2> QED
    BY <1>9, <2>1, <2>2 DEF VideoLive, THREADEXIT, RUNNING
<1> QED
  BY <1>1, <1>2, <1>3, <1>4, <1>5, <1>6, <1>7, <1>8, <1>10, <1>11
     DEF Next, Start, Camera, VideoEncoder

\* ... and of the audio stamps.
LEMMA StepAudioStamps ==
  ASSUME TypeOK, IInv, AudioStampsInv, [Next]_vars
  PROVE  AudioStampsInv'
<1>1. CASE StartLists
  <2>1. audioStored' = <<>> /\ Len(audioStored') = 0 /\ ae'.pc = "none"
    BY <1>1 DEF StartLists, AudioThread
  <2> QED
    BY <2>1 DEF AudioStampsInv
<1>2. CASE StartCreateVideo
  <2>1. UNCHANGED <<ae, audioStored>> /\ ctl = "create_video"
    BY <1>2 DEF StartCreateVideo, audioOut
  <2> QED
    BY <2>1 DEF AudioStampsInv
<1>3. CASE StartCreateAudio
  <2>1. /\ ctl' = "idle" /\ audioStored' = <<>> /\ Len(audioStored') = 0
        /\ ae' = ae \/ ae'.pc = "begin"
    BY <1>3 DEF StartCreateAudio, AudioThread, AudioStampsInv
  <2>2. ae.pc \in {"none", "done"}
    BY <1>3 DEF StartCreateAudio, IInv, ThreadsInv
  <2> QED
    BY <2>1, <2>2 DEF AudioStampsInv
<1>4. CASE AudioEncoder
  <2>1. ctl' = ctl /\ ctl \notin {"create_video", "create_audio"}
    <3>1. ae.pc \notin {"none", "done"}
      BY <1>4 DEF AudioEncoder, AeBegin, AeTop, AeDequeue, AeEncode, AeKeep, AeLockWriter, AeWrite, AeExit
    <3>2. ctl' = ctl
      BY <1>4 DEF AudioEncoder, AeBegin, AeTop, AeDequeue, AeEncode, AeKeep, AeLockWriter, AeWrite,
         AeExit, sessionVars
    <3> QED
      BY <3>1, <3>2 DEF IInv, ThreadsInv, Starting
  <2>2. audioStored \in Seq(Nat) /\ ae.last \in Nat /\ \A k \in 1..Len(audioStored) : audioStored[k] \in Nat
    BY DEF TypeOK, AudioOutType
  <2>3. CASE AeEncode
    <3>1. PICK pts, ticks :
            /\ pts = IF ticks > ae.last THEN ticks ELSE ae.last + 100
            /\ ticks = AudioTicks(ae.ptss)
            /\ \/ ae' = [ae EXCEPT !.pc = "write", !.samples = @ - AudioFrame,
                                   !.packet = pts, !.last = pts]
               \/ ae' = [ae EXCEPT !.samples = @ - AudioFrame]
            /\ audioStored' = audioStored
      BY <2>3 DEF AeEncode
    <3>2. ticks \in Nat
      BY <3>1, TicksNat DEF TypeOK, AudioOutType
    <3>3. pts \in Nat /\ pts > ae.last
      BY <2>2, <3>1, <3>2
    <3>4. \/ ae'.pc = "write" /\ ae'.packet = pts /\ ae'.last = pts
          \/ ae'.pc = "encode" /\ ae'.last = ae.last
      BY <2>3, <3>1 DEF AeEncode, TypeOK, AudioOutType
    <3>5. \A k \in 1..Len(audioStored) : audioStored[k] < pts
      BY <2>2, <3>3 DEF AudioStampsInv
    <3> QED
      BY <2>1, <2>2, <3>1, <3>3, <3>4, <3>5 DEF AudioStampsInv
  <2>4. CASE AeWrite
    <3>1. /\ audioStored' = Append(audioStored, ae.packet) /\ ae'.pc = "encode"
          /\ ae'.last = ae.last /\ ae.pc = "writing" /\ ae.packet = ae.last
      BY <2>4 DEF AeWrite, TypeOK, AudioOutType, AudioStampsInv
    <3>2. \A k \in 1..Len(audioStored) : audioStored[k] < ae.last
      BY <3>1 DEF AudioStampsInv
    <3>3. /\ \A i, j \in 1..Len(audioStored') : i < j => audioStored'[i] < audioStored'[j]
          /\ \A k \in 1..Len(audioStored') : audioStored'[k] <= ae.last
      BY <2>2, <3>1, <3>2, AppendIncreases DEF AudioStampsInv
    <3> QED
      BY <2>1, <3>1, <3>3 DEF AudioStampsInv
  <2>5. CASE AeBegin \/ AeTop \/ AeDequeue \/ AeKeep \/ AeLockWriter \/ AeExit
    <3>1. audioStored' = audioStored /\ ae'.last = ae.last /\ ae'.packet = ae.packet
      BY <2>5 DEF AeBegin, AeTop, AeDequeue, AeKeep, AeLockWriter, AeExit, TypeOK, AudioOutType
    <3>2. CASE AeLockWriter
      BY <2>1, <3>1, <3>2 DEF AudioStampsInv, AeLockWriter
    <3>3. CASE AeBegin \/ AeTop \/ AeDequeue \/ AeKeep \/ AeExit
      <4>1. ae'.pc \notin {"write", "writing"}
        BY <3>3 DEF AeBegin, AeTop, AeDequeue, AeKeep, AeExit, TypeOK, AudioOutType
      <4> QED
        BY <2>1, <3>1, <4>1 DEF AudioStampsInv
    <3> QED
      BY <2>5, <3>2, <3>3
  <2> QED
    BY <1>4, <2>3, <2>4, <2>5 DEF AudioEncoder
<1>5. CASE StartInitial \/ StartOpen \/ Stop \/ Camera \/ AudioSource \/ VideoEncoder \/ UNCHANGED vars
  <2>1. UNCHANGED <<ae, audioStored>>
    BY <1>5 DEF StartInitial, StartOpen, Stop, Camera, AudioSource, VideoEncoder, StopEnter,
       StopJoinAudio, StopJoinVideo, StopLockTrailer, StopTrailer, StopCloseAudio,
       StopFreeStreams, StopFreeContext, VideoCall, VideoRefused, VideoEnter, VideoFill,
       AudioCall, AudioRefused, AudioEnter, AudioCopy, VeBegin, VeDequeue, VeEncode,
       VeLockWriter, VeWrite, VeLeave, VeExit, VeFlush, VeEnd, vars, audioOut, encoderVars
  <2>2. ctl' \notin {"create_video", "create_audio"} \/ ctl' = ctl
    BY <1>5 DEF StartInitial, StartOpen, Stop, Camera, AudioSource, VideoEncoder, StopEnter,
       StopJoinAudio, StopJoinVideo, StopLockTrailer, StopTrailer, StopCloseAudio,
       StopFreeStreams, StopFreeContext, VideoCall, VideoRefused, VideoEnter, VideoFill,
       AudioCall, AudioRefused, AudioEnter, AudioCopy, VeBegin, VeDequeue, VeEncode,
       VeLockWriter, VeWrite, VeLeave, VeExit, VeFlush, VeEnd, vars, sessionVars
  <2> QED
    BY <2>1, <2>2 DEF AudioStampsInv
<1> QED
  BY <1>1, <1>2, <1>3, <1>4, <1>5 DEF Next, Start

\* No stamp has been given at first.
LEMMA InitStamps == Init => StampsInv /\ AudioStampsInv
<1> SUFFICES ASSUME Init PROVE StampsInv /\ AudioStampsInv
  OBVIOUS
<1>1. /\ Len(accepted) = 0 /\ vp.pc = "idle" /\ Len(audioStored) = 0 /\ ae.pc = "none"
      /\ ctl = "idle"
  BY DEF Init, VideoIdle, AudioThread
<1> QED
  BY <1>1 DEF StampsInv, AudioStampsInv

\* The stamps increase in every behaviour.
LEMMA StampsInvariance == Spec => [](StampsInv /\ AudioStampsInv)
<1>1. TypeOK /\ IInv /\ StampsInv /\ AudioStampsInv /\ [Next]_vars => StampsInv' /\ AudioStampsInv'
  BY StepStamps, StepAudioStamps
<1> QED
  BY <1>1, InitStamps, OrderInvariance, PTL DEF Spec

\* The packets written are the first of the frames accepted.
SavedInv ==
  /\ Len(stored) <= Len(accepted)
  /\ \A k \in 1..Len(stored) : /\ k \in 1..Len(accepted) /\ stored[k].pts \in Int
                               /\ accepted[k] = stored[k].pts + ve.first /\ accepted[k] \in Nat
  /\ Saved = [k \in 1..Len(stored) |-> accepted[k]]

\* For a junk picture is none of the frames past the list.
LEMMA SavedAreFirst == TypeOK /\ FifoInv /\ MaxJunk = 0 => SavedInv
<1> SUFFICES ASSUME TypeOK, FifoInv, MaxJunk = 0 PROVE SavedInv
  OBVIOUS
<1>1. /\ stored \in Seq(Chain) /\ codec \in Seq(Chain) /\ PastTheList \in Seq(Chain)
      /\ accepted \in Seq(Nat) /\ ve.first \in Int
  BY PastForms DEF Forms, TypeOK, CameraType, VideoOutType
<1>2. \A k \in 1..Len(stored) : k \in 1..Len(PastTheList) /\ PastTheList[k] = stored[k]
  <2>1. ASSUME NEW t \in Seq(Chain)
        PROVE  \A k \in 1..Len(stored) : k \in 1..Len(stored \o t) /\ (stored \o t)[k] = stored[k]
    BY <1>1
  <2>2. ASSUME NEW e \in Chain, NEW t \in Seq(Chain)
        PROVE  /\ Append(stored \o t, e) = stored \o Append(t, e) /\ Append(t, e) \in Seq(Chain)
               /\ Append(stored, e) \o t = stored \o (<<e>> \o t) /\ <<e>> \o t \in Seq(Chain)
    <3>1. <<e>> \in Seq(Chain) /\ Append(stored, e) = stored \o <<e>>
      BY <1>1, ChainAlgebra
    <3>2. Append(stored \o t, e) = stored \o Append(t, e) /\ Append(t, e) \in Seq(Chain)
      <4>1. stored \o Append(t, e) = Append(stored \o t, e)
        BY <1>1, ChainAlgebra
      <4>2. Append(t, e) \in Seq(Chain)
        BY AppendProperties
      <4> QED
        BY <4>1, <4>2
    <3>3. (stored \o <<e>>) \o t = stored \o (<<e>> \o t)
      BY <1>1, <3>1, ConcatAssociative
    <3>4. <<e>> \o t \in Seq(Chain)
      BY <3>1, ConcatProperties
    <3> QED
      BY <3>1, <3>2, <3>3, <3>4
  <2>3. \E t \in Seq(Chain) : PastTheList = stored \o t
    <3>1. ve.packet \in Chain /\ InSlot \in Chain
      BY PastForms DEF Forms
    <3>2. \/ PastTheList = stored \o codec \/ PastTheList = Append(stored, ve.packet) \o codec
          \/ PastTheList = Append(stored \o codec, InSlot)
      BY PastForms DEF Forms
    <3>3. CASE PastTheList = stored \o codec
      BY <1>1, <3>3
    <3>4. CASE PastTheList = Append(stored, ve.packet) \o codec
      <4>1. /\ Append(stored, ve.packet) \o codec = stored \o (<<ve.packet>> \o codec)
            /\ <<ve.packet>> \o codec \in Seq(Chain)
        BY <1>1, <2>2, <3>1
      <4> QED
        BY <3>4, <4>1
    <3>5. CASE PastTheList = Append(stored \o codec, InSlot)
      <4>1. /\ Append(stored \o codec, InSlot) = stored \o Append(codec, InSlot)
            /\ Append(codec, InSlot) \in Seq(Chain)
        BY <1>1, <2>2, <3>1
      <4> QED
        BY <3>5, <4>1
    <3> QED
      BY <3>2, <3>3, <3>4, <3>5
  <2> QED
    BY <2>1, <2>3
<1>3. Captured = Len(PastTheList) /\ Len(accepted) >= Captured /\ Captured \in Nat /\ Len(accepted) \in Nat
  BY SMTT(30), <1>1 DEF FifoInv, Captured, TypeOK, VideoListType, ListOf
<1>4. ASSUME NEW k \in 1..Len(stored)
      PROVE  /\ k \in 1..Len(accepted) /\ stored[k].pts \in Int
             /\ accepted[k] = stored[k].pts + ve.first /\ accepted[k] \in Nat
  <2>1. k \in 1..Captured /\ PastTheList[k] = stored[k] /\ k \in 1..Len(accepted)
    BY <1>2, <1>3
  <2>2. stored[k] \in Chain
    BY <1>1
  <2>3. accepted[k] = PastTheList[k].pts + ve.first
    BY <2>1 DEF FifoInv
  <2>4. accepted[k] \in Nat
    BY <1>1, <2>1
  <2>5. stored[k].pts \in Int
    BY <2>2 DEF Chain
  <2> QED
    BY <2>1, <2>3, <2>4, <2>5
<1>5. Len(stored) <= Len(accepted) /\ DOMAIN stored = 1..Len(stored)
  <2>1. Len(stored) \in Nat /\ (Len(stored) > 0 => Len(stored) \in 1..Len(accepted))
    BY <1>1, <1>4
  <2> QED
    BY <1>1, <1>3, <2>1
<1>6. Saved = [k \in 1..Len(stored) |-> accepted[k]]
  BY <1>4, <1>5 DEF Saved
<1> QED
  BY <1>4, <1>5, <1>6 DEF SavedInv

\* Likewise in the next state.
LEMMA NextSaved == (TypeOK /\ FifoInv /\ MaxJunk = 0 => SavedInv)'
  BY SavedAreFirst, PTL

\* The order of the frames and that of their stamps are the order of the packets.
LEMMA StampsOrderPackets ==
  ASSUME TypeOK, FifoInv, StampsInv, AudioStampsInv, MaxJunk = 0
  PROVE  PacketsIncreasing
<1>1. ve.first \in Int /\ stored \in Seq(Packet) /\ audioStored \in Seq(Nat)
  BY DEF TypeOK, AudioOutType, VideoOutType
<1>2. ASSUME NEW k \in 1..Len(stored)
      PROVE  /\ k \in 1..Len(accepted) /\ stored[k].pts \in Int
             /\ accepted[k] = stored[k].pts + ve.first /\ accepted[k] \in Nat
  BY SavedAreFirst DEF SavedInv
<1>3. ASSUME NEW i \in 1..Len(stored), NEW j \in 1..Len(stored), i < j
      PROVE  stored[i].pts < stored[j].pts
  <2>1. accepted[i] < accepted[j]
    BY <1>2, <1>3 DEF StampsInv
  <2>2. /\ accepted[i] = stored[i].pts + ve.first /\ stored[i].pts \in Int
        /\ accepted[j] = stored[j].pts + ve.first /\ stored[j].pts \in Int
    BY <1>2
  <2> QED
    BY <1>1, <2>1, <2>2
<1>4. DOMAIN stored = 1..Len(stored) /\ DOMAIN audioStored = 1..Len(audioStored)
  BY <1>1
<1>5. Increasing([k \in DOMAIN stored |-> stored[k].pts])
  BY <1>3, <1>4 DEF Increasing
<1>6. Increasing(audioStored)
  BY <1>4 DEF Increasing, AudioStampsInv
<1> QED
  BY <1>5, <1>6 DEF PacketsIncreasing

\* The timestamps of the packets written increase, per stream, when the flush
\* encodes no picture of its own (RealTimeEnc.cpp:516-521, 1075-1083).
THEOREM PacketsInOrder == Spec => [](MaxJunk = 0 => PacketsIncreasing)
<1>1. TypeOK /\ FifoInv /\ StampsInv /\ AudioStampsInv => (MaxJunk = 0 => PacketsIncreasing)
  BY StampsOrderPackets
<1> QED
  BY <1>1, StampsInvariance, OrderInvariance, PTL

-----------------------------------------------------------------------------
(* The recorder is a Recording                                             *)

\* A camera call that finds the output buffer belongs to a recording whose
\* file has its header.
FileInv == vp.pc # "idle" /\ m_video_outbuf => file \in {"header", "trailer"}

\* Every step keeps that.
LEMMA StepFile ==
  ASSUME TypeOK, IInv, FileInv, [Next]_vars
  PROVE  FileInv'
<1>1. CASE StartOpen
  <2>1. vp' = vp /\ vp.pc = "idle"
    BY <1>1 DEF StartOpen, inputVars, videoIn, cameraVars, IInv, CallsInv, Starting
  <2> QED
    BY <2>1 DEF FileInv
<1>2. CASE StopTrailer
  <2>1. UNCHANGED <<vp, m_video_outbuf>> /\ file' = "trailer"
    BY <1>2 DEF StopTrailer, cameraVars, pointerVars, IInv, SessionInv
  <2> QED
    BY <2>1 DEF FileInv
<1>3. CASE StopFreeStreams
  BY <1>3 DEF StopFreeStreams, FileInv
<1>4. CASE StopFreeContext
  BY <1>4 DEF StopFreeContext, FileInv, IInv, SessionInv
<1>5. CASE VideoCall
  <2>1. file = "header"
    BY <1>5 DEF VideoCall, IInv, FlagsInv, VideoLoop, ThreadsInv, SessionInv
  <2>2. file' = file
    BY <1>5 DEF VideoCall, contextVars
  <2> QED
    BY <2>1, <2>2 DEF FileInv
<1>6. CASE VideoRefused \/ VideoEnter \/ VideoFill
  <2>1. vp.pc # "idle" /\ UNCHANGED <<m_video_outbuf, file>>
    BY <1>6 DEF VideoRefused, VideoEnter, VideoFill, contextVars, pointerVars
  <2> QED
    BY <2>1 DEF FileInv
<1>7. CASE UNCHANGED <<vp, m_video_outbuf, file>>
  BY <1>7 DEF FileInv
<1> QED
  BY <1>1, <1>2, <1>3, <1>4, <1>5, <1>6, <1>7 DEF Next, Start, Stop, Camera, AudioSource,
     VideoEncoder, AudioEncoder, StartInitial, StartLists, StartCreateVideo, StartCreateAudio,
     StopEnter, StopJoinAudio, StopJoinVideo, StopLockTrailer, StopCloseAudio, AudioCall,
     AudioRefused, AudioEnter, AudioCopy, VeBegin, VeDequeue, VeEncode, VeLockWriter, VeWrite,
     VeLeave, VeExit, VeFlush, VeEnd, AeBegin, AeTop, AeDequeue, AeEncode, AeKeep, AeLockWriter, AeWrite,
     AeExit, vars, cameraVars, videoIn, inputVars, pointerVars, contextVars

\* What a step leaves as it is keeps the phase.
LEMMA SamePhase == UNCHANGED <<file, ctl>> => Phase' = Phase
  BY DEF Phase

\* Every step is one of a Recording, or changes nothing it shows.
LEMMA StepRecording ==
  MaxJunk = 0 /\ TypeOK /\ IInv /\ FifoInv /\ StampsInv /\ FileInv /\ TypeOK' /\ FifoInv'
    /\ [Next]_vars => [Abstract!Next]_(Abstract!vars)
<1> SUFFICES ASSUME TypeOK, IInv, FifoInv, StampsInv, FileInv, TypeOK', FifoInv', MaxJunk = 0,
                    [Next]_vars
             PROVE  Abstract!Next \/ UNCHANGED <<Phase, accepted, Saved>>
  BY DEF Abstract!vars
<1>1. SavedInv /\ SavedInv'
  BY SavedAreFirst, NextSaved
<1>2. /\ stored \in Seq(Packet) /\ accepted \in Seq(Nat)
      /\ stored' \in Seq(Packet) /\ accepted' \in Seq(Nat)
  BY DEF TypeOK, VideoOutType, CameraType
<1>3. UNCHANGED <<stored, accepted>> => Saved' = Saved
  BY <1>1 DEF SavedInv
<1>4. CASE StartLists
  <2>1. file = "header" /\ file' = file /\ ctl = "lists" /\ ctl' = "create_video"
    BY <1>4 DEF StartLists, contextVars, IInv, SessionInv
  <2>2. Phase = "idle" /\ Phase' = "recording"
    BY <2>1 DEF Phase
  <2>3. accepted' = <<>> /\ stored' = <<>>
    BY <1>4 DEF StartLists
  <2>4. Saved' = <<>>
    BY <2>3 DEF Saved
  <2> QED
    BY <2>2, <2>3, <2>4 DEF Abstract!Next, Abstract!Begin
<1>5. CASE StopTrailer
  <2>1. /\ file = "header" /\ file' = "trailer" /\ ctl = "trailer" /\ UNCHANGED <<stored, accepted>>
    BY <1>5 DEF StopTrailer, IInv, SessionInv, cameraVars, encoderVars, videoOut
  <2>2. Phase = "recording" /\ Phase' = "finished"
    BY <2>1 DEF Phase
  <2> QED
    BY <1>3, <2>1, <2>2 DEF Abstract!Next, Abstract!Finish
<1>6. CASE StartOpen \/ StopFreeContext
  <2>1. UNCHANGED <<stored, accepted>>
    BY <1>6 DEF StartOpen, StopFreeContext, inputVars, videoIn, cameraVars, encoderVars, videoOut
  <2>2. Phase' = "idle"
    BY <1>6 DEF StartOpen, StopFreeContext, Phase
  <2> QED
    BY <1>3, <2>1, <2>2 DEF Abstract!Next, Abstract!Release
<1>7. CASE VideoFill
  <2>1. /\ vp.pc = "fill" /\ UNCHANGED <<stored, file, ctl>>
        /\ accepted' = accepted \/ accepted' = Append(accepted, vp.stamp)
        /\ vp.stamp \in Nat
    BY <1>7 DEF VideoFill, sessionVars, contextVars, encoderVars, videoOut, TypeOK, CameraType
  <2>2. Phase # "idle" /\ Phase' = Phase
    <3>1. file \in {"header", "trailer"} /\ ctl # "lists"
      BY <2>1 DEF IInv, SessionInv, VideoSessionAlive, FileInv, CallsInv, Starting
    <3> QED
      BY <2>1, <3>1 DEF Phase
  <2>3. CASE accepted' = accepted
    BY <1>3, <2>1, <2>2, <2>3
  <2>4. CASE accepted' = Append(accepted, vp.stamp)
    <3>1. /\ Len(accepted') = Len(accepted) + 1 /\ accepted'[Len(accepted')] = vp.stamp
          /\ \A k \in 1..Len(accepted) : accepted'[k] = accepted[k]
      BY <1>2, <2>1, <2>4, AppendProperties
    <3>2. \A k \in 1..Len(accepted) : accepted[k] < vp.stamp
      BY <2>1 DEF StampsInv
    <3>3. Saved' = Saved
      <4>1. \A k \in 1..Len(stored) : accepted'[k] = accepted[k]
        BY <1>1, <3>1 DEF SavedInv
      <4> QED
        BY <1>1, <2>1, <4>1 DEF SavedInv
    <3> QED
      BY <2>2, <3>1, <3>2, <3>3 DEF Abstract!Next, Abstract!TakeFrame
  <2> QED
    BY <2>1, <2>3, <2>4
<1>8. CASE VeWrite
  <2>1. /\ stored' = Append(stored, ve.packet) /\ UNCHANGED <<accepted, file, ctl>>
        /\ file = "header" /\ ctl # "lists" /\ ve.packet \in Packet
    BY <1>8 DEF VeWrite, sessionVars, contextVars, inputVars, videoIn, cameraVars, IInv, ThreadsInv,
       SessionInv, Starting, TypeOK, VideoOutType
  <2>2. Phase = "recording" /\ Phase' = Phase
    BY <2>1 DEF Phase
  <2>3. Len(stored') = Len(stored) + 1 /\ Len(stored) \in Nat
    BY <1>2, <2>1, AppendProperties
  <2>4. /\ Saved \in Seq(Nat) /\ Len(Saved) = Len(stored)
        /\ Saved' = [k \in 1..Len(stored) + 1 |-> accepted[k]]
        /\ \A k \in 1..Len(stored) : Saved[k] = accepted[k]
        /\ Len(stored) < Len(accepted) /\ accepted[Len(stored) + 1] \in Nat
    <3>1. Len(stored) + 1 <= Len(accepted) /\ Len(accepted) \in Nat
      BY <1>1, <1>2, <2>1, <2>3 DEF SavedInv
    <3>2. Saved = [k \in 1..Len(stored) |-> accepted[k]] /\ Len(stored) \in Nat
      BY <1>1, <2>3 DEF SavedInv
    <3>3. \A k \in 1..Len(stored) : accepted[k] \in Nat
      BY <1>1 DEF SavedInv
    <3>4. Saved \in Seq(Nat) /\ Len(Saved) = Len(stored)
      BY <3>2, <3>3
    <3>5. Saved' = [k \in 1..Len(stored) + 1 |-> accepted[k]]
      BY <1>1, <2>1, <2>3 DEF SavedInv
    <3>6. accepted[Len(stored) + 1] \in Nat /\ Len(stored) < Len(accepted)
      BY <1>2, <2>3, <3>1
    <3> QED
      BY <3>2, <3>4, <3>5, <3>6
  <2>5. Saved' = Append(Saved, accepted[Len(Saved) + 1])
    <3> DEFINE a == Append(Saved, accepted[Len(stored) + 1])
    <3>1. /\ a \in Seq(Nat) /\ Len(a) = Len(stored) + 1
          /\ a[Len(stored) + 1] = accepted[Len(stored) + 1]
          /\ \A k \in 1..Len(stored) : a[k] = accepted[k]
      BY <2>4, AppendProperties
    <3>2. \A k \in 1..Len(stored) + 1 : k \in 1..Len(stored) \/ k = Len(stored) + 1
      BY <2>3
    <3> HIDE DEF a
    <3>3. \A k \in 1..Len(stored) + 1 : a[k] = accepted[k]
      BY <3>1, <3>2
    <3>4. a = [k \in 1..Len(stored) + 1 |-> a[k]]
      BY <3>1
    <3>5. a = Saved'
      BY <2>4, <3>3, <3>4
    <3> QED
      BY <2>4, <3>5 DEF a
  <2> QED
    BY <2>1, <2>2, <2>4, <2>5 DEF Abstract!Next, Abstract!SaveFrame
<1>9. CASE UNCHANGED <<stored, accepted>> /\ Phase' = Phase
  BY <1>3, <1>9
<1>10. CASE ~StartLists /\ ~StopTrailer /\ ~StartOpen /\ ~StopFreeContext /\ ~VideoFill /\ ~VeWrite
  <2>1. UNCHANGED <<stored, accepted, file>>
    BY <1>10 DEF Next, Start, Stop, Camera, AudioSource, VideoEncoder, AudioEncoder, StartInitial,
       StartCreateVideo, StartCreateAudio, StopEnter, StopJoinAudio, StopJoinVideo,
       StopLockTrailer, StopCloseAudio, StopFreeStreams, VideoCall, VideoRefused, VideoEnter,
       AudioCall, AudioRefused, AudioEnter, AudioCopy, VeBegin, VeDequeue, VeEncode,
       VeLockWriter, VeLeave, VeExit, VeFlush, VeEnd, AeBegin, AeTop, AeDequeue, AeEncode, AeKeep,
       AeLockWriter, AeWrite, AeExit, vars, cameraVars, videoIn, inputVars, videoOut, encoderVars,
       contextVars
  <2>2. ctl' = ctl \/ (ctl' # "lists" /\ ctl # "lists")
    BY <1>10 DEF Next, Start, Stop, Camera, AudioSource, VideoEncoder, AudioEncoder, StartInitial,
       MayStart,
       StartCreateVideo, StartCreateAudio, StopEnter, StopJoinAudio, StopJoinVideo,
       StopLockTrailer, StopCloseAudio, StopFreeStreams, VideoCall, VideoRefused, VideoEnter,
       AudioCall, AudioRefused, AudioEnter, AudioCopy, VeBegin, VeDequeue, VeEncode,
       VeLockWriter, VeLeave, VeExit, VeFlush, VeEnd, AeBegin, AeTop, AeDequeue, AeEncode, AeKeep,
       AeLockWriter, AeWrite, AeExit, vars, sessionVars
  <2>3. Phase' = Phase
    BY <2>1, <2>2 DEF Phase
  <2> QED
    BY <1>9, <2>1, <2>3
<1> QED
  BY <1>4, <1>5, <1>6, <1>7, <1>8, <1>10

\* The recorder starts as a Recording does.
LEMMA InitRecording == Init => Abstract!Init /\ FileInv
<1> SUFFICES ASSUME Init PROVE Abstract!Init /\ FileInv
  OBVIOUS
<1>1. Phase = "idle" /\ FileInv
  BY DEF Init, Phase, FileInv, VideoIdle
<1>2. accepted = <<>> /\ Saved = <<>>
  BY DEF Init, Saved
<1> QED
  BY <1>1, <1>2 DEF Abstract!Init

\* The recorder implements Recording, when the flush encodes no picture of its
\* own: frames are saved in the order they were taken, between header and trailer.
THEOREM RecorderRecords == Spec => (MaxJunk = 0 => RecorderIsRecording)
<1> SUFFICES ASSUME MaxJunk = 0 PROVE Spec => RecorderIsRecording
  OBVIOUS
<1>1. TypeOK /\ IInv /\ FileInv /\ [Next]_vars => FileInv'
  BY StepFile
<1> QED
  BY <1>1, StepRecording, InitRecording, OrderInvariance, StampsInvariance, PTL
     DEF Spec, RecorderIsRecording, Abstract!Spec

-----------------------------------------------------------------------------
(* The samples of a sequence of chunks                                     *)

Chunk == [pts : Nat, len : Nat]

\* Samples by its recursion: the samples among the first k frames.
RunningTotal(f, q) ==
  /\ f[0] = 0
  /\ \A k \in 1..Len(q) :
       f[k] = f[k - 1] + q[k].len

LEMMA SamplesRecursion ==
  ASSUME NEW q \in Seq(Chunk)
  PROVE  \E f \in [0..Len(q) -> Nat] : RunningTotal(f, q) /\ Samples(q) = f[Len(q)]
<1> DEFINE n == Len(q)
           Add(p, k) == p + q[k].len
           step == [p \in Nat \X (1..n) |-> Add(p[1], p[2])]
           Def(f) == [k \in 0..n |-> IF k = 0 THEN 0 ELSE Add(f[k - 1], k)]
           first == CHOOSE f : f = Def(f)
<1>1. n \in Nat /\ 0 \in Nat
  OBVIOUS
<1>2. step \in [Nat \X (1..n) -> Nat]
  <2>1. ASSUME NEW p \in Nat, NEW k \in 1..n PROVE Add(p, k) \in Nat
    <3>1. q[k] \in Chunk
      OBVIOUS
    <3> QED
      BY <3>1 DEF Chunk
  <2> HIDE DEF Add
  <2> QED
    BY <2>1
<1>3. \A p \in Nat, k \in 1..n : step[<<p, k>>] = Add(p, k)
  OBVIOUS
<1> HIDE DEF step
<1>4. PICK f \in [0..n -> Nat] : f[0] = 0 /\ \A k \in 1..n : f[k] = step[<<f[k - 1], k>>]
  <2> DEFINE T == Nat
             c == 0
  <2>1. c \in T /\ n \in Nat /\ step \in Steps(T, n)
    BY <1>1, <1>2 DEF Steps
  <2> HIDE DEF T, c, n
  <2>2. \E f \in [0..n -> T] : Takes(f, c, step, n)
    BY <2>1, StepByStep
  <2> QED
    BY <2>2 DEF T, c, Takes
<1>5. \A k \in 1..n : f[k] = Add(f[k - 1], k)
  <2> SUFFICES ASSUME NEW k \in 1..n PROVE f[k] = Add(f[k - 1], k)
    OBVIOUS
  <2>1. k - 1 \in 0..n
    BY <1>1
  <2>2. f[k - 1] \in Nat
    <3> HIDE DEF n
    <3> QED
      BY <2>1
  <2>3. f[k] = step[<<f[k - 1], k>>]
    <3> HIDE DEF n
    <3> QED
      BY <1>4
  <2> HIDE DEF Add
  <2> QED
    BY <1>3, <2>2, <2>3
<1> HIDE DEF Add
<1>6. f = Def(f)
  BY <1>4, <1>5
<1>7. first = Def(first)
  <2> HIDE DEF Def
  <2> QED
    BY Zenon, <1>6
<1>8. first = [k \in 0..n |-> IF k = 0 THEN 0 ELSE Add(first[k - 1], k)]
  BY Zenon, <1>7
<1> HIDE DEF first
<1>9. first[0] = 0 /\ \A k \in 1..n : first[k] = Add(first[k - 1], k)
  BY <1>1, <1>8
<1>10. \A k \in 0..n : first[k] \in Nat /\ first[k] = f[k]
  <2> DEFINE S == {k \in Nat : k <= n => first[k] = f[k]}
  <2>1. 0 \in S
    BY <1>4, <1>9
  <2>2. ASSUME NEW k \in Nat, k \in S PROVE k + 1 \in S
    <3> SUFFICES ASSUME k + 1 <= n PROVE first[k + 1] = f[k + 1]
      OBVIOUS
    <3>1. k + 1 \in 1..n /\ (k + 1) - 1 = k /\ first[k] = f[k]
      BY <1>1, <2>2
    <3> QED
      BY <1>5, <1>9, <3>1
  <2> HIDE DEF S
  <2>3. Nat \subseteq S
    BY <2>1, <2>2, NumbersInSet
  <2> QED
    BY <1>4, <2>3 DEF S
<1>11. Samples(q) = first[n]
  BY DEF Samples, first, Add
<1> QED
  BY <1>1, <1>4, <1>5, <1>10, <1>11 DEF RunningTotal, Add

\* The samples of two queues, one after the other.
LEMMA SamplesConcat ==
  ASSUME NEW q \in Seq(Chunk), NEW r \in Seq(Chunk)
  PROVE  /\ Samples(q) \in Nat
         /\ Samples(q \o r) = Samples(q) + Samples(r)
<1> DEFINE m == Len(q)
           n == Len(r)
           p == q \o r
<1>1. m \in Nat /\ n \in Nat
  OBVIOUS
<1>2. /\ p \in Seq(Chunk) /\ Len(p) = m + n
      /\ \A k \in 1..m : p[k] = q[k]
      /\ \A k \in 1..n : p[m + k] = r[k]
  <2>1. /\ p \in Seq(Chunk) /\ Len(p) = m + n
        /\ \A i \in 1..m + n : p[i] = IF i <= m THEN q[i] ELSE r[i - m]
    BY ConcatProperties
  <2> HIDE DEF m, n, p
  <2>2. \A k \in 1..n : m + k \in 1..m + n /\ ~(m + k <= m) /\ (m + k) - m = k
    BY <1>1
  <2> QED
    BY <1>1, <2>1, <2>2
<1>3. PICK f \in [0..Len(q) -> Nat] : RunningTotal(f, q) /\ Samples(q) = f[Len(q)]
  BY SamplesRecursion
<1>4. PICK g \in [0..Len(r) -> Nat] : RunningTotal(g, r) /\ Samples(r) = g[Len(r)]
  BY SamplesRecursion
<1>5. PICK h \in [0..Len(p) -> Nat] : RunningTotal(h, p) /\ Samples(p) = h[Len(p)]
  BY <1>2, SamplesRecursion
<1> HIDE DEF p
<1>6. \A k \in Nat : k <= m => h[k] = f[k]
  <2> DEFINE S == {k \in Nat : k <= m => h[k] = f[k]}
  <2>1. 0 \in S
    BY <1>3, <1>5 DEF RunningTotal
  <2>2. ASSUME NEW k \in Nat, k \in S, k + 1 <= m PROVE h[k + 1] = f[k + 1]
    <3>1. k + 1 \in 1..Len(q) /\ k + 1 \in 1..Len(p) /\ (k + 1) - 1 = k /\ h[k] = f[k] /\ p[k + 1] = q[k + 1]
      BY SMTT(30), <1>1, <1>2, <2>2
    <3> QED
      BY <1>3, <1>5, <3>1 DEF RunningTotal
  <2>3. \A k \in Nat : k \in S => k + 1 \in S
    BY <2>2
  <2> HIDE DEF S
  <2>4. Nat \subseteq S
    BY <2>1, <2>3, NumbersInSet
  <2> QED
    BY <2>4 DEF S
<1>7. f[m] \in Nat /\ \A k \in 0..n : g[k] \in Nat
  <2>1. m \in 0..m
    BY <1>1
  <2> QED
    BY <1>3, <1>4, <2>1
<1>8. \A k \in Nat : k <= n => h[m + k] = f[m] + g[k]
  <2> DEFINE S == {k \in Nat : k <= n => h[m + k] = f[m] + g[k]}
  <2>1. 0 \in S
    <3>1. h[m] = f[m] /\ m + 0 = m /\ g[0] = 0
      BY <1>1, <1>4, <1>6 DEF RunningTotal
    <3> QED
      BY <1>7, <3>1
  <2>2. ASSUME NEW k \in Nat, k \in S, k + 1 <= n PROVE h[m + (k + 1)] = f[m] + g[k + 1]
    <3>1. /\ m + (k + 1) \in 1..Len(p) /\ (m + (k + 1)) - 1 = m + k
          /\ k + 1 \in 1..Len(r) /\ (k + 1) - 1 = k /\ k \in 0..Len(r)
          /\ h[m + k] = f[m] + g[k] /\ p[m + (k + 1)] = r[k + 1]
      BY <1>1, <1>2, <2>2
    <3>2. h[m + (k + 1)] = (f[m] + g[k]) + r[k + 1].len /\ g[k + 1] = g[k] + r[k + 1].len
      BY <1>4, <1>5, <3>1 DEF RunningTotal
    <3>3. g[k] \in Nat
      BY <1>7, <3>1
    <3>4. r[k + 1] \in Chunk
      <4> HIDE DEF m, n
      <4> QED
        BY <3>1, ElementOfSeq
    <3>5. r[k + 1].len \in Nat
      BY <3>4 DEF Chunk
    <3> QED
      BY <1>7, <3>2, <3>3, <3>5
  <2>3. \A k \in Nat : k \in S => k + 1 \in S
    <3> SUFFICES ASSUME NEW k \in Nat, k \in S PROVE k + 1 \in S
      OBVIOUS
    <3>1. k + 1 <= n => h[m + (k + 1)] = f[m] + g[k + 1]
      BY <2>2
    <3>2. k + 1 \in Nat
      OBVIOUS
    <3> HIDE DEF m, n
    <3> QED
      BY Zenon, <3>1, <3>2
  <2> HIDE DEF S
  <2>4. Nat \subseteq S
    BY <2>1, <2>3, NumbersInSet
  <2> QED
    BY <2>4 DEF S
<1>9. h[m + n] = f[m] + g[n]
  BY <1>1, <1>8
<1>10. Samples(p) = h[m + n] /\ Samples(q) = f[m] /\ Samples(r) = g[n]
  BY <1>2, <1>3, <1>4, <1>5
<1> HIDE DEF m, n
<1> QED
  BY <1>7, <1>9, <1>10 DEF p

\* No chunk has no samples, one chunk its own.
LEMMA SamplesOfOne ==
  /\ Samples(<<>>) = 0
  /\ \A c \in Chunk : Samples(<<c>>) = c.len
<1>1. Samples(<<>>) = 0
  <2>1. <<>> \in Seq(Chunk) /\ Len(<<>>) = 0
    BY EmptySeq
  <2> QED
    BY <2>1, SamplesRecursion DEF RunningTotal
<1>2. ASSUME NEW c \in Chunk
      PROVE  Samples(<<c>>) = c.len
  <2>1. <<c>> \in Seq(Chunk) /\ Len(<<c>>) = 1 /\ <<c>>[1] = c /\ c.len \in Nat
    BY DEF Chunk
  <2>2. PICK g \in [0..Len(<<c>>) -> Nat] : RunningTotal(g, <<c>>) /\ Samples(<<c>>) = g[Len(<<c>>)]
    BY <2>1, SamplesRecursion
  <2>3. g[0] = 0 /\ g[1] = g[0] + c.len
    BY <2>1, <2>2 DEF RunningTotal
  <2> QED
    BY <2>1, <2>2, <2>3
<1> QED
  BY <1>1, <1>2

\* A chunk at the end of a queue adds its samples ...
LEMMA SamplesAppend ==
  ASSUME NEW q \in Seq(Chunk), NEW c \in Chunk
  PROVE  Samples(Append(q, c)) = Samples(q) + c.len
<1>1. Append(q, c) = q \o <<c>> /\ <<c>> \in Seq(Chunk)
  BY AppendIsConcat
<1> QED
  BY <1>1, SamplesConcat, SamplesOfOne

\* ... and the one at its head accounts for its own.
LEMMA SamplesTail ==
  ASSUME NEW q \in Seq(Chunk), q # <<>>
  PROVE  Samples(q) = Head(q).len + Samples(Tail(q))
<1>1. Head(q) \in Chunk /\ Tail(q) \in Seq(Chunk) /\ <<Head(q)>> \in Seq(Chunk)
  BY HeadTailProperties
<1>2. SubSeq(q, 1, Len(q)) = <<q[1]>> \o SubSeq(q, 2, Len(q))
  <2>1. 1 \in 1..Len(q) /\ Len(q) \in 1..Len(q) /\ 1 + 1 = 2
    BY LenProperties, EmptySeq
  <2> QED
    BY <2>1, SubSeqRecursiveFirst
<1>3. SubSeq(q, 1, Len(q)) = q /\ Tail(q) = SubSeq(q, 2, Len(q)) /\ Head(q) = q[1]
  BY SubSeqFull, TailIsSubSeq
<1>4. q = <<Head(q)>> \o Tail(q)
  BY <1>2, <1>3
<1> QED
  BY <1>1, <1>4, SamplesConcat, SamplesOfOne

-----------------------------------------------------------------------------
(* The samples of a session                                                *)

\* The chunks waiting in the audio list.
Waiting == Contents(audioList, AUDIOFRAMEBUFSIZE)

LEMMA WaitingType == AudioListType => Waiting \in Seq(Chunk)
<1> SUFFICES ASSUME AudioListType PROVE Waiting \in Seq(Chunk)
  OBVIOUS
<1> DEFINE n == AUDIOFRAMEBUFSIZE
<1>1. /\ audioList.size \in 0..n /\ audioList.readpos \in 0..n-1
      /\ audioList.framebuf \in [0..n-1 -> Chunk] /\ n \in Nat \ {0}
  BY SizesAssumption DEF AudioListType, ListOf, Chunk
<1>2. ASSUME NEW k \in 1..audioList.size
      PROVE  audioList.framebuf[SlotAt(audioList.readpos, k - 1, n)] \in Chunk
  BY <1>1, <1>2 DEF SlotAt
<1> QED
  BY <1>1, <1>2 DEF Waiting, Contents

\* A list whose chunks stay where they are has the same ones waiting.
LEMMA SameWaiting ==
  ASSUME audioList'.size = audioList.size, audioList'.readpos = audioList.readpos,
         audioList'.framebuf = audioList.framebuf
  PROVE  Waiting' = Waiting
  BY DEF Waiting, Contents

\* Storing a chunk and taking one, with the samples waiting.
LEMMA StoreSamples ==
  ASSUME TypeOK, IInv, NEW c \in Chunk, audioList.size < AUDIOFRAMEBUFSIZE,
         audioList' = Unlock(Put(audioList, AUDIOFRAMEBUFSIZE, c))
  PROVE  Queued' = Queued + c.len
<1> DEFINE n == AUDIOFRAMEBUFSIZE
           l == Put(audioList, n, c)
<1>1. audioList \in ListOf(n, Chunk, {"ap"}) /\ n \in Nat \ {0} /\ Consistent(audioList, n)
  BY SizesAssumption DEF TypeOK, AudioListType, IInv, ListsInv, Chunk
<1>2. l \in ListOf(n, Chunk, {"ap"})
  BY <1>1, PutType
<1>3. Contents(l, n) = Append(Waiting, c)
  BY <1>1, PutAppends DEF Waiting
<1> HIDE DEF l
<1>4. /\ audioList'.size = l.size /\ audioList'.readpos = l.readpos
      /\ audioList'.framebuf = l.framebuf
  BY <1>1, <1>2, UnlockKeeps DEF l
<1>5. Waiting' = Contents(l, n)
  BY <1>4 DEF Waiting, Contents
<1>6. Waiting \in Seq(Chunk)
  BY WaitingType DEF TypeOK
<1> QED
  BY <1>3, <1>5, <1>6, SamplesAppend DEF Queued, Waiting

LEMMA TakeSamples ==
  ASSUME TypeOK, IInv, audioList.size > 0, audioList' = Take(audioList, AUDIOFRAMEBUFSIZE)
  PROVE  Queued = Oldest(audioList).len + Queued' /\ Queued' \in Nat
<1> DEFINE n == AUDIOFRAMEBUFSIZE
<1>1. audioList \in ListOf(n, Chunk, {"ap"}) /\ n \in Nat \ {0}
  BY SizesAssumption DEF TypeOK, AudioListType, Chunk
<1>2. /\ Waiting # <<>> /\ Oldest(audioList) = Head(Waiting)
      /\ Waiting' = Tail(Waiting)
  BY <1>1, TakeDrops DEF Waiting
<1>3. Waiting \in Seq(Chunk)
  BY WaitingType DEF TypeOK
<1>4. Samples(Waiting) = Head(Waiting).len + Samples(Tail(Waiting))
  BY <1>2, <1>3, SamplesTail
<1>5. Tail(Waiting) \in Seq(Chunk)
  BY <1>2, <1>3, HeadTailProperties
<1>6. Samples(Tail(Waiting)) \in Nat
  BY <1>5, SamplesConcat
<1> QED
  BY <1>2, <1>4, <1>6 DEF Queued, Waiting

LEMMA QueuedType == TypeOK => Queued \in Nat
  BY WaitingType, SamplesConcat DEF TypeOK, Queued, Waiting

SamplesInv == AudioWorkInv /\ SamplesConserved

\* A step that leaves the samples where they are: the audio thread moves
\* between positions that hold the same ones.
LEMMA SamplesStay ==
  ASSUME SamplesInv, Queued' = Queued,
         samplesIn' = samplesIn, samplesOut' = samplesOut,
         ae'.left = ae.left, ae'.samples = ae.samples,
         ae'.pc \in {"encode", "write", "writing"} <=> ae.pc \in {"encode", "write", "writing"},
         ctl' \in {"create_video", "create_audio"} => ctl \in {"create_video", "create_audio"}
  PROVE  SamplesInv'
  BY DEF SamplesInv, AudioWorkInv, SamplesConserved

\* The steps of the audio source and of the audio thread that move samples.
LEMMA SamplesMove ==
  ASSUME TypeOK, IInv, SamplesInv,
         StartLists \/ StartCreateAudio \/ AudioEnter \/ AudioCopy \/ AeDequeue \/ AeEncode
           \/ AeKeep \/ StopFreeContext
  PROVE  SamplesInv'
<1> DEFINE n == AUDIOFRAMEBUFSIZE
<1>1. audioList \in ListOf(n, Chunk, {"ap"}) /\ n \in Nat \ {0}
  BY SizesAssumption DEF TypeOK, AudioListType, Chunk
<1>2. /\ ae.left \in Nat /\ ae.samples \in Nat /\ samplesIn \in Nat /\ samplesOut \in Nat
      /\ Queued \in Nat /\ AudioFrame \in Nat
  BY QueuedType, SizesAssumption DEF TypeOK, AudioOutType, SourceType
<1>3. ae \in [pc : {"none", "begin", "loop", "lock", "encode", "write", "writing", "exit", "done"},
             left : Nat, samples : Nat, ptss : Nat, last : Nat, packet : Nat]
  BY DEF TypeOK, AudioOutType
<1>4. ctl \in {"create_video", "create_audio"} => ae.pc \in {"none", "done"}
  BY DEF IInv, ThreadsInv, Starting
<1>5. CASE StartLists
  <2>1. audioList' = ListInit(audioList) /\ samplesIn' = 0 /\ samplesOut' = 0
    BY <1>5 DEF StartLists
  <2>2. ae'.pc = "none" /\ ae'.left = 0 /\ ae'.samples = 0
    BY <1>5 DEF StartLists, AudioThread
  <2>3. audioList'.size = 0
    BY <1>1, <2>1, ListInitKeeps
  <2>4. Waiting' = <<>>
    BY <2>3 DEF Waiting, Contents
  <2>5. Queued' = 0
    BY <2>4, SamplesOfOne DEF Queued, Waiting
  <2> QED
    BY <2>1, <2>2, <2>5 DEF SamplesInv, AudioWorkInv, SamplesConserved
<1>6. CASE StartCreateAudio
  <2>1. Queued' = Queued /\ samplesIn' = samplesIn /\ samplesOut' = samplesOut /\ ctl' = "idle"
    BY <1>6 DEF StartCreateAudio, inputVars, audioIn, sourceVars, Queued
  <2>2. ae.samples = 0 /\ ae.left = 0
    BY <1>4, <1>6 DEF StartCreateAudio, SamplesInv, AudioWorkInv
  <2>3. CASE ae' = AudioThread("begin")
    <3>1. ae'.left = 0 /\ ae'.samples = 0 /\ ae'.pc = "begin"
      BY <2>3 DEF AudioThread
    <3> QED
      BY <1>2, <2>1, <2>2, <3>1 DEF SamplesInv, AudioWorkInv, SamplesConserved
  <2>4. CASE UNCHANGED ae
    BY <2>1, <2>4, SamplesStay
  <2> QED
    BY <1>6, <2>3, <2>4 DEF StartCreateAudio
<1>7. CASE AudioEnter
  <2>1. audioList' = Lock(audioList, "ap") /\ UNCHANGED <<ae, samplesIn, samplesOut, ctl>>
    BY <1>7 DEF AudioEnter, encoderVars, audioOut, sessionVars
  <2>2. Waiting' = Waiting
    BY <1>1, <2>1, LockKeeps, SameWaiting
  <2> QED
    BY <2>1, <2>2, SamplesStay DEF Queued, Waiting
<1>8. CASE AudioCopy
  <2>1. UNCHANGED <<ae, samplesOut, ctl>>
    BY <1>8 DEF AudioCopy, encoderVars, audioOut, sessionVars
  <2>2. CASE audioList.allocated
    <3> DEFINE c == [pts |-> ap.stamp, len |-> ap.len]
    <3>1. c \in Chunk /\ c.len = ap.len
      BY DEF TypeOK, SourceType, Chunk
    <3>2. audioList' = Unlock(Put(audioList, n, c)) /\ samplesIn' = samplesIn + ap.len
      BY <1>8, <2>2 DEF AudioCopy
    <3>3. audioList.size < n
      BY <1>8 DEF AudioCopy, IInv, ProducersInv
    <3> HIDE DEF c
    <3>4. Queued' = Queued + c.len
      BY <3>1, <3>2, <3>3, StoreSamples
    <3>5. ap.len \in Nat
      BY DEF TypeOK, SourceType
    <3> QED
      BY <1>2, <2>1, <3>1, <3>2, <3>4, <3>5 DEF SamplesInv, AudioWorkInv, SamplesConserved
  <2>3. CASE ~audioList.allocated
    <3>1. audioList' = Unlock(audioList) /\ UNCHANGED samplesIn
      BY <1>8, <2>3 DEF AudioCopy
    <3>2. Waiting' = Waiting
      BY <1>1, <3>1, UnlockKeeps, SameWaiting
    <3> QED
      BY <2>1, <3>1, <3>2, SamplesStay DEF Queued, Waiting
  <2> QED
    BY <2>2, <2>3
<1>9. CASE AeDequeue
  <2>1. UNCHANGED <<samplesIn, samplesOut, ctl>> /\ ae.pc = "lock"
    BY <1>9 DEF AeDequeue, sourceVars, sessionVars
  <2>2. CASE audioList.size > 0 /\ audioList.allocated
    <3>1. audioList' = Take(audioList, n)
      BY <1>9, <2>2 DEF AeDequeue
    <3>2. Queued = Oldest(audioList).len + Queued' /\ Queued' \in Nat
      BY <2>2, <3>1, TakeSamples
    <3>3. ae'.pc = "encode" /\ ae'.left = 0 /\ ae'.samples = ae.left + Oldest(audioList).len
      BY <1>3, <1>9, <2>2 DEF AeDequeue
    <3>4. ae.samples = 0
      BY <2>1 DEF SamplesInv, AudioWorkInv
    <3>5. Oldest(audioList).len \in Nat
      <4>1. audioList.readpos \in 0..n-1 /\ audioList.framebuf \in [0..n-1 -> Chunk]
        BY <1>1 DEF ListOf
      <4>2. Oldest(audioList) \in Chunk
        BY <4>1 DEF Oldest
      <4> QED
        BY <4>2 DEF Chunk
    <3>6. AudioWorkInv'
      BY <1>4, <2>1, <3>3 DEF AudioWorkInv
    <3>7. samplesIn = samplesOut + ae.left + ae.samples + Queued
      BY DEF SamplesInv, SamplesConserved
    <3>8. SamplesConserved'
      BY <1>2, <2>1, <3>2, <3>3, <3>4, <3>5, <3>7 DEF SamplesConserved
    <3> QED
      BY <3>6, <3>8 DEF SamplesInv
  <2>3. CASE ~(audioList.size > 0 /\ audioList.allocated)
    <3>1. ae' = [ae EXCEPT !.pc = "loop"] /\ UNCHANGED audioList
      BY <1>9, <2>3 DEF AeDequeue
    <3>2. ae'.pc = "loop" /\ ae'.left = ae.left /\ ae'.samples = ae.samples
      BY <1>3, <3>1
    <3>3. Queued' = Queued
      BY <3>1 DEF Queued
    <3> QED
      BY <2>1, <3>2, <3>3, SamplesStay
  <2> QED
    BY <2>2, <2>3
<1>10. CASE AeEncode
  <2>1. UNCHANGED <<audioList, samplesIn, ctl>> /\ ae.pc = "encode" /\ ae.samples >= AudioFrame
        /\ samplesOut' = samplesOut + AudioFrame
    BY <1>10 DEF AeEncode, inputVars, audioIn, sourceVars, sessionVars
  <2>2. /\ ae'.left = ae.left /\ ae'.samples = ae.samples - AudioFrame
        /\ ae'.pc \in {"encode", "write"}
    BY <1>3, <1>10 DEF AeEncode
  <2>3. Queued' = Queued
    BY <2>1 DEF Queued
  <2>4. AudioWorkInv'
    BY <1>4, <2>1, <2>2 DEF SamplesInv, AudioWorkInv
  <2>5. SamplesConserved'
    BY <1>2, <2>1, <2>2, <2>3 DEF SamplesInv, SamplesConserved
  <2> QED
    BY <2>4, <2>5 DEF SamplesInv
<1>11. CASE AeKeep
  <2>1. UNCHANGED <<audioList, samplesIn, samplesOut, ctl>> /\ ae.pc = "encode"
    BY <1>11 DEF AeKeep, inputVars, audioIn, sourceVars, sessionVars
  <2>2. ae'.left = ae.samples /\ ae'.samples = 0 /\ ae'.pc = "loop"
    BY <1>3, <1>11 DEF AeKeep
  <2>3. ae.left = 0
    BY <2>1 DEF SamplesInv, AudioWorkInv
  <2>4. Queued' = Queued
    BY <2>1 DEF Queued
  <2>5. AudioWorkInv'
    BY <1>4, <2>1, <2>2 DEF AudioWorkInv
  <2>6. SamplesConserved'
    BY <1>2, <2>1, <2>2, <2>3, <2>4 DEF SamplesInv, SamplesConserved
  <2> QED
    BY <2>5, <2>6 DEF SamplesInv
<1>12. CASE StopFreeContext
  <2>1. /\ audioList' = ListFree(audioList) /\ ctl' = "idle"
        /\ UNCHANGED <<ae, samplesIn, samplesOut>>
    BY <1>12 DEF StopFreeContext, encoderVars, audioOut, sourceVars
  <2>2. Waiting' = Waiting
    BY <1>1, <2>1, ListFreeKeeps, SameWaiting
  <2> QED
    BY <2>1, <2>2, SamplesStay DEF Queued, Waiting
<1> QED
  BY <1>5, <1>6, <1>7, <1>8, <1>9, <1>10, <1>11, <1>12

\* Every step keeps the samples: the others leave them where they are.
LEMMA StepSamples == TypeOK /\ IInv /\ SamplesInv /\ [Next]_vars => SamplesInv'
<1> SUFFICES ASSUME TypeOK, IInv, SamplesInv, [Next]_vars PROVE SamplesInv'
  OBVIOUS
<1>1. ASSUME UNCHANGED <<audioList, samplesIn, samplesOut, ae>>,
             ctl' \in {"create_video", "create_audio"} => ctl \in {"create_video", "create_audio"}
      PROVE  SamplesInv'
  BY <1>1, SamplesStay DEF Queued
<1>2. ASSUME UNCHANGED <<audioList, samplesIn, samplesOut, ctl>>,
             NEW pc, ae' = [ae EXCEPT !.pc = pc],
             pc \in {"encode", "write", "writing"} <=> ae.pc \in {"encode", "write", "writing"}
      PROVE  SamplesInv'
  <2>1. ae'.pc = pc /\ ae'.left = ae.left /\ ae'.samples = ae.samples
    BY <1>2 DEF TypeOK, AudioOutType
  <2> QED
    BY <1>2, <2>1, SamplesStay DEF Queued
<1>3. CASE Start /\ ~StartLists /\ ~StartCreateAudio
  BY <1>1, <1>3 DEF Start, StartInitial, StartOpen, StartCreateVideo, inputVars, audioIn,
     sourceVars, encoderVars, audioOut
<1>4. CASE Stop /\ ~StopFreeContext
  BY <1>1, <1>4 DEF Stop, StopEnter, StopJoinAudio, StopJoinVideo, StopLockTrailer,
     StopTrailer, StopCloseAudio, StopFreeStreams, inputVars, audioIn, sourceVars, encoderVars,
     audioOut
<1>5. CASE Camera
  BY <1>1, <1>5 DEF Camera, VideoCall, VideoRefused, VideoEnter, VideoFill, audioIn,
     sourceVars, encoderVars, audioOut, sessionVars
<1>6. CASE AudioCall \/ AudioRefused
  BY <1>1, <1>6 DEF AudioCall, AudioRefused, encoderVars, audioOut, sessionVars
<1>7. CASE VideoEncoder
  BY <1>1, <1>7 DEF VideoEncoder, VeBegin, VeDequeue, VeEncode, VeLockWriter, VeWrite, VeLeave, VeExit,
     VeFlush, VeEnd, inputVars, audioIn, sourceVars, audioOut, sessionVars
<1>8. CASE AeBegin
  <2>1. UNCHANGED <<audioList, samplesIn, samplesOut, ctl>>
    BY <1>8 DEF AeBegin, inputVars, audioIn, sourceVars, sessionVars
  <2> QED
    BY <1>2, <1>8, <2>1 DEF AeBegin
<1>9. CASE AeTop
  <2>1. UNCHANGED <<audioList, samplesIn, samplesOut, ctl>>
    BY <1>9 DEF AeTop, inputVars, audioIn, sourceVars, sessionVars
  <2> QED
    BY <1>2, <1>9, <2>1 DEF AeTop
<1>10. CASE AeLockWriter
  <2>1. UNCHANGED <<audioList, samplesIn, samplesOut, ctl>>
    BY <1>10 DEF AeLockWriter, inputVars, audioIn, sourceVars, sessionVars
  <2> QED
    BY <1>2, <1>10, <2>1 DEF AeLockWriter
<1>11. CASE AeWrite
  <2>1. UNCHANGED <<audioList, samplesIn, samplesOut, ctl>>
    BY <1>11 DEF AeWrite, inputVars, audioIn, sourceVars, sessionVars
  <2> QED
    BY <1>2, <1>11, <2>1 DEF AeWrite
<1>12. CASE AeExit
  <2>1. UNCHANGED <<audioList, samplesIn, samplesOut, ctl>>
    BY <1>12 DEF AeExit, inputVars, audioIn, sourceVars, sessionVars
  <2> QED
    BY <1>2, <1>12, <2>1 DEF AeExit
<1>13. CASE UNCHANGED vars
  BY <1>1, <1>13 DEF vars, inputVars, audioIn, sourceVars, encoderVars, audioOut, sessionVars
<1>14. CASE StartLists \/ StartCreateAudio \/ AudioEnter \/ AudioCopy \/ AeDequeue \/ AeEncode
              \/ AeKeep \/ StopFreeContext
  BY <1>14, SamplesMove
<1> QED
  BY <1>3, <1>4, <1>5, <1>6, <1>7, <1>8, <1>9, <1>10, <1>11, <1>12, <1>13, <1>14
     DEF Next, AudioSource, AudioEncoder

LEMMA InitSamples == Init => SamplesInv
<1> SUFFICES ASSUME Init PROVE SamplesInv
  OBVIOUS
<1>1. audioList.size = 0 /\ ae.left = 0 /\ ae.samples = 0 /\ ae.pc = "none"
  BY DEF Init, UnallocatedList, AudioThread
<1>2. Contents(audioList, AUDIOFRAMEBUFSIZE) = <<>>
  BY <1>1 DEF Contents
<1>3. Queued = 0
  BY <1>2, SamplesOfOne DEF Queued
<1> QED
  BY <1>1, <1>3 DEF Init, SamplesInv, AudioWorkInv, SamplesConserved

\* Between realtime_enc_set_audiodata and the audio encoder no sample is lost
\* or encoded twice, however the chunk lengths and the codec's frame size
\* relate (RealTimeEnc.cpp:1032-1044, 1053-1058, 1106-1109).
THEOREM SamplesSafe == Spec => []SamplesConserved
<1>1. Spec => []SamplesInv
  BY InitSamples, StepSamples, Invariance, PTL DEF Spec
<1>2. SamplesInv => SamplesConserved
  BY DEF SamplesInv
<1> QED
  BY <1>1, <1>2, PTL
=============================================================================
