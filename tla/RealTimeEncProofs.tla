-------------------------- MODULE RealTimeEncProofs --------------------------
(***************************************************************************)
(* The types of RealTimeEnc and its inductive invariant are kept by every  *)
(* step, and the safety properties follow from them: for lists of every    *)
(* size, every set of capture times and chunk lengths, and any number of   *)
(* sessions and calls. The lemmas about the list operators come first: what *)
(* they return and preserve, for a list of any size.                       *)
(***************************************************************************)
EXTENDS RealTimeEncInv, TLAPS

-----------------------------------------------------------------------------
(* The lists                                                               *)

\* pos++; pos = pos % n is one place further on the ring.
LEMMA NextPosIsSlotAt ==
  ASSUME NEW n \in Nat \ {0}, NEW pos \in 0..n-1
  PROVE  /\ NextPos(pos, n) = SlotAt(pos, 1, n)
         /\ NextPos(pos, n) \in 0..n-1
<1>1. CASE pos + 1 < n
  BY <1>1 DEF NextPos, SlotAt
<1>2. CASE pos + 1 = n
  <2>1. (pos + 1) % n = 0
    BY <1>2
  <2>2. QED
    BY <1>2, <2>1 DEF NextPos, SlotAt
<1>3. QED
  BY <1>1, <1>2

\* k places past the slot after s there is s again: only a whole lap later.
LEMMA OncePerLap ==
  ASSUME NEW n \in Nat \ {0}, NEW s \in 0..n-1, NEW k \in 0..n-1,
         s = SlotAt(SlotAt(s, 1, n), k, n)
  PROVE  k + 1 = n
<1>1. CASE s + 1 < n
  <2>1. SlotAt(s, 1, n) = s + 1
    BY <1>1 DEF SlotAt
  <2>2. QED
    BY <2>1 DEF SlotAt
<1>2. CASE s + 1 = n
  <2>1. SlotAt(s, 1, n) = 0
    BY <1>2 DEF SlotAt
  <2>2. QED
    BY <1>2, <2>1 DEF SlotAt
<1>3. QED
  BY <1>1, <1>2

\* New values for the fields Put assigns keep a list a list; likewise ...
LEMMA PutFields ==
  ASSUME NEW n \in Nat \ {0}, NEW F, NEW T, NEW l \in ListOf(n, F, T),
         NEW b \in [0..n-1 -> F], NEW s \in 0..n, NEW w \in 0..n-1
  PROVE  [l EXCEPT !.framebuf = b, !.size = s, !.writepos = w] \in ListOf(n, F, T)
  BY DEF ListOf

\* ... for Take.
LEMMA TakeFields ==
  ASSUME NEW n \in Nat \ {0}, NEW F, NEW T, NEW l \in ListOf(n, F, T),
         NEW s \in 0..n, NEW r \in 0..n-1
  PROVE  [l EXCEPT !.size = s, !.readpos = r] \in ListOf(n, F, T)
  BY DEF ListOf

\* Put keeps a list a list, within its bounds, with its mutex.
LEMMA PutType ==
  ASSUME NEW n \in Nat \ {0}, NEW F, NEW T, NEW l \in ListOf(n, F, T), NEW f \in F,
         l.size < n
  PROVE  Put(l, n, f) \in ListOf(n, F, T)
<1>1. NextPos(l.writepos, n) \in 0..n-1
  BY NextPosIsSlotAt DEF ListOf
<1>2. [l.framebuf EXCEPT ![l.writepos] = f] \in [0..n-1 -> F]
  BY DEF ListOf
<1>3. l.size + 1 \in 0..n
  BY DEF ListOf
<1>4. [l EXCEPT !.framebuf = [l.framebuf EXCEPT ![l.writepos] = f], !.size = l.size + 1,
                !.writepos = NextPos(l.writepos, n)] \in ListOf(n, F, T)
  BY <1>1, <1>2, <1>3, PutFields
<1>5. QED
  BY <1>4 DEF Put

\* Take keeps a list a list, within its bounds, with its mutex.
LEMMA TakeType ==
  ASSUME NEW n \in Nat \ {0}, NEW F, NEW T, NEW l \in ListOf(n, F, T), l.size > 0
  PROVE  Take(l, n) \in ListOf(n, F, T)
<1>1. NextPos(l.readpos, n) \in 0..n-1
  BY NextPosIsSlotAt DEF ListOf
<1>2. l.size - 1 \in 0..n
  BY DEF ListOf
<1>3. QED
  BY <1>1, <1>2, TakeFields DEF Take

\* So does locking it ...
LEMMA LockType ==
  ASSUME NEW n \in Nat \ {0}, NEW F, NEW T, NEW l \in ListOf(n, F, T), NEW t \in T
  PROVE  Lock(l, t) \in ListOf(n, F, T)
  BY DEF ListOf, Lock

\* ... unlocking ...
LEMMA UnlockType ==
  ASSUME NEW n \in Nat \ {0}, NEW F, NEW T, NEW l \in ListOf(n, F, T)
  PROVE  Unlock(l) \in ListOf(n, F, T)
  BY DEF ListOf, Unlock

\* ... freeing the buffers ...
LEMMA ListFreeType ==
  ASSUME NEW n \in Nat \ {0}, NEW F, NEW T, NEW l \in ListOf(n, F, T)
  PROVE  ListFree(l) \in ListOf(n, F, T)
  BY DEF ListOf, ListFree

\* ... and LISTINIT.
LEMMA ListInitType ==
  ASSUME NEW n \in Nat \ {0}, NEW F, NEW T, NEW l \in ListOf(n, F, T)
  PROVE  ListInit(l) \in ListOf(n, F, T)
<1>1. 0 \in 0..n-1 /\ 0 \in 0..n
  OBVIOUS
<1>2. QED
  BY <1>1 DEF ListOf, ListInit

\* What an operation changes, field by field: locking ...
LEMMA LockKeeps ==
  ASSUME NEW n \in Nat \ {0}, NEW F, NEW T, NEW l \in ListOf(n, F, T), NEW t
  PROVE  /\ Lock(l, t).readpos = l.readpos /\ Lock(l, t).writepos = l.writepos
         /\ Lock(l, t).size = l.size /\ Lock(l, t).allocated = l.allocated
         /\ Lock(l, t).framebuf = l.framebuf /\ Lock(l, t).mutex = t
  BY DEF ListOf, Lock

\* ... unlocking ...
LEMMA UnlockKeeps ==
  ASSUME NEW n \in Nat \ {0}, NEW F, NEW T, NEW l \in ListOf(n, F, T)
  PROVE  /\ Unlock(l).readpos = l.readpos /\ Unlock(l).writepos = l.writepos
         /\ Unlock(l).size = l.size /\ Unlock(l).allocated = l.allocated
         /\ Unlock(l).framebuf = l.framebuf /\ Unlock(l).mutex = FreeMutex
  BY DEF ListOf, Unlock

\* ... LISTINIT ...
LEMMA ListInitKeeps ==
  ASSUME NEW n \in Nat \ {0}, NEW F, NEW T, NEW l \in ListOf(n, F, T)
  PROVE  /\ ListInit(l).readpos = 0 /\ ListInit(l).writepos = 0
         /\ ListInit(l).size = 0 /\ ListInit(l).allocated
         /\ ListInit(l).framebuf = l.framebuf /\ ListInit(l).mutex = FreeMutex
  BY DEF ListOf, ListInit

\* ... freeing the buffers ...
LEMMA ListFreeKeeps ==
  ASSUME NEW n \in Nat \ {0}, NEW F, NEW T, NEW l \in ListOf(n, F, T)
  PROVE  /\ ListFree(l).readpos = l.readpos /\ ListFree(l).writepos = l.writepos
         /\ ListFree(l).size = l.size /\ ~ListFree(l).allocated
         /\ ListFree(l).framebuf = l.framebuf /\ ListFree(l).mutex = l.mutex
  BY DEF ListOf, ListFree

\* ... storing a frame ...
LEMMA PutKeeps ==
  ASSUME NEW n \in Nat \ {0}, NEW F, NEW T, NEW l \in ListOf(n, F, T), NEW f
  PROVE  /\ Put(l, n, f).readpos = l.readpos
         /\ Put(l, n, f).writepos = NextPos(l.writepos, n)
         /\ Put(l, n, f).size = l.size + 1 /\ Put(l, n, f).allocated = l.allocated
         /\ Put(l, n, f).mutex = l.mutex
  BY DEF ListOf, Put

\* ... in the slot at the write position, alone ...
LEMMA PutWrites ==
  ASSUME NEW n \in Nat \ {0}, NEW F, NEW T, NEW l \in ListOf(n, F, T), NEW f \in F
  PROVE  Put(l, n, f).framebuf = [l.framebuf EXCEPT ![l.writepos] = f]
  BY DEF ListOf, Put

\* ... and taking one.
LEMMA TakeKeeps ==
  ASSUME NEW n \in Nat \ {0}, NEW F, NEW T, NEW l \in ListOf(n, F, T)
  PROVE  /\ Take(l, n).readpos = NextPos(l.readpos, n) /\ Take(l, n).writepos = l.writepos
         /\ Take(l, n).size = l.size - 1 /\ Take(l, n).allocated = l.allocated
         /\ Take(l, n).framebuf = l.framebuf /\ Take(l, n).mutex = l.mutex
  BY DEF ListOf, Take

\* The positions stay in step with the count when the list is locked ...
LEMMA LockConsistent ==
  ASSUME NEW n \in Nat \ {0}, NEW F, NEW T, NEW l \in ListOf(n, F, T), NEW t,
         Consistent(l, n)
  PROVE  Consistent(Lock(l, t), n)
  BY LockKeeps DEF Consistent

\* ... unlocked ...
LEMMA UnlockConsistent ==
  ASSUME NEW n \in Nat \ {0}, NEW F, NEW T, NEW l \in ListOf(n, F, T),
         Consistent(l, n)
  PROVE  Consistent(Unlock(l), n)
  BY UnlockKeeps DEF Consistent

\* ... freed ...
LEMMA ListFreeConsistent ==
  ASSUME NEW n \in Nat \ {0}, NEW F, NEW T, NEW l \in ListOf(n, F, T),
         Consistent(l, n)
  PROVE  Consistent(ListFree(l), n)
  BY ListFreeKeeps DEF Consistent

\* ... and initialised, whatever they were.
LEMMA ListInitConsistent ==
  ASSUME NEW n \in Nat \ {0}, NEW F, NEW T, NEW l \in ListOf(n, F, T)
  PROVE  Consistent(ListInit(l), n)
<1>1. SlotAt(0, 0, n) = 0
  BY DEF SlotAt
<1>2. QED
  BY <1>1, ListInitKeeps DEF Consistent

\* Put keeps the positions in step with the count; likewise ...
LEMMA PutConsistent ==
  ASSUME NEW n \in Nat \ {0}, NEW F, NEW T, NEW l \in ListOf(n, F, T), NEW f \in F,
         l.size < n, Consistent(l, n)
  PROVE  Consistent(Put(l, n, f), n)
<1>1. NextPos(l.writepos, n) = SlotAt(l.writepos, 1, n)
  BY NextPosIsSlotAt DEF ListOf
<1>2. QED
  BY SMTT(60), <1>1 DEF Put, ListOf, Consistent, SlotAt

\* ... Take.
LEMMA TakeConsistent ==
  ASSUME NEW n \in Nat \ {0}, NEW F, NEW T, NEW l \in ListOf(n, F, T), l.size > 0,
         Consistent(l, n)
  PROVE  Consistent(Take(l, n), n)
<1>1. NextPos(l.readpos, n) = SlotAt(l.readpos, 1, n)
  BY NextPosIsSlotAt DEF ListOf
<1>2. QED
  BY SMTT(60), <1>1 DEF Take, ListOf, Consistent, SlotAt

\* The slot k - 1 places after the next one is the slot k places on.
LEMMA SlotOneOn ==
  ASSUME NEW n \in Nat \ {0}, NEW pos \in 0..n-1, NEW k \in 1..n-1
  PROVE  SlotAt(SlotAt(pos, 1, n), k - 1, n) = SlotAt(pos, (k + 1) - 1, n)
<1>1. CASE pos + 1 < n
  BY <1>1 DEF SlotAt
<1>2. CASE pos + 1 = n
  BY <1>2 DEF SlotAt
<1>3. QED
  BY <1>1, <1>2

\* A queued frame's slot is not the one after the last.
LEMMA SlotsApart ==
  ASSUME NEW n \in Nat \ {0}, NEW pos \in 0..n-1, NEW k \in Nat, NEW m \in 0..n-1, k < m
  PROVE  SlotAt(pos, k, n) \in 0..n-1 /\ SlotAt(pos, k, n) # SlotAt(pos, m, n)
<1>1. CASE pos + k < n
  BY <1>1 DEF SlotAt
<1>2. CASE ~(pos + k < n)
  BY <1>2 DEF SlotAt
<1>3. QED
  BY <1>1, <1>2

\* A list is a queue: Put appends its frame to the queued ones ...
LEMMA PutAppends ==
  ASSUME NEW n \in Nat \ {0}, NEW F, NEW T, NEW l \in ListOf(n, F, T), NEW f \in F,
         l.size < n, Consistent(l, n)
  PROVE  Contents(Put(l, n, f), n) = Append(Contents(l, n), f)
<1> DEFINE p == Put(l, n, f)
<1>1. /\ l.size \in 0..n /\ l.readpos \in 0..n-1 /\ l.writepos \in 0..n-1
      /\ l.framebuf \in [0..n-1 -> F]
      /\ p.size = l.size + 1 /\ p.readpos = l.readpos
      /\ p.framebuf = [l.framebuf EXCEPT ![l.writepos] = f]
  BY DEF Put, ListOf
<1>2. ASSUME NEW k \in 1..l.size
      PROVE  p.framebuf[SlotAt(p.readpos, k - 1, n)] = l.framebuf[SlotAt(l.readpos, k - 1, n)]
  <2>1. SlotAt(l.readpos, k - 1, n) \in 0..n-1 /\ SlotAt(l.readpos, k - 1, n) # l.writepos
    <3>1. /\ k - 1 \in Nat /\ k - 1 < l.size /\ l.size \in 0..n-1
          /\ l.writepos = SlotAt(l.readpos, l.size, n)
      BY <1>1, <1>2 DEF Consistent
    <3>2. QED
      BY <1>1, <3>1, SlotsApart
  <2>2. QED
    BY <1>1, <2>1
<1>3. p.framebuf[SlotAt(p.readpos, l.size, n)] = f
  BY <1>1 DEF Consistent
<1>4. Contents(l, n) \in Seq(F) /\ Len(Contents(l, n)) = l.size
  <2>1. ASSUME NEW k \in 1..l.size PROVE l.framebuf[SlotAt(l.readpos, k - 1, n)] \in F
    BY <1>1, <2>1 DEF SlotAt
  <2>2. QED
    BY SMTT(60), <1>1, <2>1 DEF Contents
<1>5. QED
  BY <1>1, <1>2, <1>3, <1>4 DEF Contents

\* ... and Take drops the oldest one.
LEMMA TakeDrops ==
  ASSUME NEW n \in Nat \ {0}, NEW F, NEW T, NEW l \in ListOf(n, F, T), l.size > 0
  PROVE  /\ Contents(l, n) # <<>>
         /\ Oldest(l) = Head(Contents(l, n))
         /\ Contents(Take(l, n), n) = Tail(Contents(l, n))
<1> DEFINE t == Take(l, n)
<1>1. /\ l.size \in 1..n /\ l.readpos \in 0..n-1
      /\ l.framebuf \in [0..n-1 -> F]
      /\ t.size = l.size - 1 /\ t.readpos = SlotAt(l.readpos, 1, n)
      /\ t.framebuf = l.framebuf
  BY NextPosIsSlotAt DEF Take, ListOf
<1>2. ASSUME NEW k \in 1..(l.size - 1)
      PROVE  SlotAt(t.readpos, k - 1, n) = SlotAt(l.readpos, (k + 1) - 1, n)
  BY <1>1, <1>2, SlotOneOn
<1>3. Contents(l, n) \in Seq(F) /\ Len(Contents(l, n)) = l.size
  <2>1. ASSUME NEW k \in 1..l.size PROVE l.framebuf[SlotAt(l.readpos, k - 1, n)] \in F
    BY SMTT(60), <1>1, <2>1 DEF SlotAt
  <2>2. QED
    BY SMTT(60), <1>1, <2>1 DEF Contents
<1>4. Contents(l, n) # <<>> /\ Oldest(l) = Head(Contents(l, n))
  <2>1. Oldest(l) = Contents(l, n)[1]
    BY <1>1 DEF Oldest, Contents, SlotAt
  <2>2. QED
    BY <1>1, <1>3, <2>1
<1>5. Contents(t, n) = [k \in 1..(l.size - 1) |-> Contents(l, n)[k + 1]]
  <2>1. ASSUME NEW k \in 1..(l.size - 1)
        PROVE  t.framebuf[SlotAt(t.readpos, k - 1, n)] = Contents(l, n)[k + 1]
    BY <1>1, <1>2, <2>1 DEF Contents
  <2>2. QED
    BY SMTT(60), <1>1, <2>1 DEF Contents
<1>6. Tail(Contents(l, n)) = [k \in 1..(l.size - 1) |-> Contents(l, n)[k + 1]]
  BY <1>1, <1>3
<1>7. QED
  BY <1>4, <1>5, <1>6

-----------------------------------------------------------------------------
(* The types                                                               *)

\* Stamps are natural numbers.
LEMMA TicksNat ==
  ASSUME NEW us \in Nat
  PROVE  VideoTicks(us) \in Nat /\ AudioTicks(us) \in Nat
<1>1. ASSUME NEW a \in Nat, NEW b \in Nat \ {0} PROVE a \div b \in Nat
  BY <1>1
<1>2. ASSUME NEW a \in Nat, NEW b \in Nat PROVE a * b \in Nat
  BY <1>2
<1>3. AudioFreq * us \in Nat /\ TimeBase \in Nat \ {0}
  BY <1>2, TimesAssumption
<1>4. 2 * AudioFreq * us + TimeBase \in Nat /\ 2 * TimeBase \in Nat \ {0}
  <2>1. 2 * AudioFreq \in Nat
    BY TimesAssumption
  <2>2. (2 * AudioFreq) * us \in Nat
    BY <1>2, <2>1
  <2>3. QED
    BY <1>3, <2>2
<1>5. QED
  BY <1>1, <1>3, <1>4 DEF VideoTicks, AudioTicks

USE SizesAssumption

\* The initial values are of the right types.
LEMMA InitType == Init => TypeOK
<1> SUFFICES ASSUME Init PROVE TypeOK
  OBVIOUS
<1>1. ControlType
  BY DEF Init, ControlType
<1>2. ContextType
  BY DEF Init, ContextType
<1>3. FlagsType
  BY DEF Init, FlagsType, ProcessState
<1>4. VideoListType
  BY DEF Init, VideoListType, ListOf, UnallocatedList, BlankVideo, Junk
<1>5. AudioListType
  BY DEF Init, AudioListType, ListOf, UnallocatedList, BlankAudio
<1>6. CameraType
  BY DEF Init, CameraType, VideoIdle
<1>7. SourceType
  BY DEF Init, SourceType, AudioIdle
<1>8. VideoOutType
  BY DEF Init, VideoOutType, VideoThread, NoPacket, Packet, Junk
<1>9. AudioOutType
  BY DEF Init, AudioOutType, AudioThread
<1>10. WriterType
  BY DEF Init, WriterType
<1>11. QED
  BY <1>1, <1>2, <1>3, <1>4, <1>5, <1>6, <1>7, <1>8, <1>9, <1>10 DEF TypeOK

\* A step that leaves a group of variables alone keeps its types.
LEMMA UnchangedTypes ==
  /\ ControlType /\ UNCHANGED sessionVars => ControlType'
  /\ ContextType /\ UNCHANGED contextVars => ContextType'
  /\ FlagsType /\ UNCHANGED flagVars => FlagsType'
  /\ VideoListType /\ UNCHANGED videoList => VideoListType'
  /\ AudioListType /\ UNCHANGED audioList => AudioListType'
  /\ CameraType /\ UNCHANGED cameraVars => CameraType'
  /\ SourceType /\ UNCHANGED sourceVars => SourceType'
  /\ VideoOutType /\ UNCHANGED videoOut => VideoOutType'
  /\ AudioOutType /\ UNCHANGED audioOut => AudioOutType'
  /\ WriterType /\ UNCHANGED writer => WriterType'
<1>1. ControlType /\ UNCHANGED sessionVars => ControlType'
  BY DEF ControlType, sessionVars, joinVars
<1>2. ContextType /\ UNCHANGED contextVars => ContextType'
  BY DEF ContextType, contextVars, pointerVars
<1>3. FlagsType /\ UNCHANGED flagVars => FlagsType'
  BY DEF FlagsType, flagVars
<1>4. VideoListType /\ UNCHANGED videoList => VideoListType'
  BY DEF VideoListType
<1>5. AudioListType /\ UNCHANGED audioList => AudioListType'
  BY DEF AudioListType
<1>6. CameraType /\ UNCHANGED cameraVars => CameraType'
  BY DEF CameraType, cameraVars
<1>7. SourceType /\ UNCHANGED sourceVars => SourceType'
  BY DEF SourceType, sourceVars
<1>8. VideoOutType /\ UNCHANGED videoOut => VideoOutType'
  BY DEF VideoOutType, videoOut
<1>9. AudioOutType /\ UNCHANGED audioOut => AudioOutType'
  BY DEF AudioOutType, audioOut
<1>10. WriterType /\ UNCHANGED writer => WriterType'
  BY DEF WriterType
<1>11. QED
  BY <1>1, <1>2, <1>3, <1>4, <1>5, <1>6, <1>7, <1>8, <1>9, <1>10

\* So does a call of the encoder that holds packets.
LEMMA EncodedType ==
  ASSUME VideoOutType, NEW held \in Seq(Packet), NEW back \in {"loop", "flush"},
         NEW junk \in Nat, Encoded(held, back, junk), stored' = stored
  PROVE  VideoOutType'
<1>1. CASE /\ held # <<>> /\ codec' = Tail(held)
           /\ ve' = [ve EXCEPT !.pc = "write", !.back = back, !.out = "some",
                               !.packet = Head(held), !.junk = junk]
  <2>1. Head(held) \in Packet /\ Tail(held) \in Seq(Packet)
    BY <1>1
  <2>2. QED
    BY <1>1, <2>1 DEF VideoOutType
<1>2. CASE codec' = held /\ ve' = [ve EXCEPT !.pc = back, !.out = "none", !.junk = junk]
  BY <1>2 DEF VideoOutType
<1>3. QED
  BY <1>1, <1>2 DEF Encoded

\* Every step keeps the types; a call that holds a list's mutex to fill a slot
\* has found room for it (ProducersInv).
LEMMA StepType == TypeOK /\ ProducersInv /\ [Next]_vars => TypeOK'
<1> SUFFICES ASSUME TypeOK, ProducersInv, [Next]_vars PROVE TypeOK'
  OBVIOUS
<1> USE DEF TypeOK
<1>1. CASE StartInitial
  <2>1. ControlType'
    BY <1>1 DEF StartInitial, ControlType, MayStart
  <2>2. FlagsType'
    BY <1>1 DEF StartInitial, FlagsType
  <2>3. CameraType'
    BY <1>1 DEF StartInitial, CameraType
  <2>4. SourceType'
    BY <1>1 DEF StartInitial, SourceType
  <2>5. UNCHANGED <<contextVars, videoList, audioList, videoOut, audioOut, writer>>
    BY <1>1 DEF StartInitial, encoderVars
  <2>6. QED
    BY <2>1, <2>2, <2>3, <2>4, <2>5, UnchangedTypes
<1>2. CASE StartOpen
  <2>1. ControlType'
    BY <1>2 DEF StartOpen, ControlType, joinVars
  <2>2. ContextType'
    BY <1>2 DEF StartOpen, ContextType
  <2>3. UNCHANGED <<flagVars, videoList, audioList, cameraVars, sourceVars, videoOut, audioOut,
                    writer>>
    BY <1>2 DEF StartOpen, inputVars, encoderVars, videoIn, audioIn
  <2>4. QED
    BY <2>1, <2>2, <2>3, UnchangedTypes
<1>3. CASE StartLists
  <2>1. ControlType'
    BY <1>3 DEF StartLists, ControlType
  <2>2. FlagsType'
    BY <1>3 DEF StartLists, FlagsType, ProcessState
  <2>3. VideoListType'
    BY <1>3, ListInitType DEF StartLists, VideoListType
  <2>4. AudioListType'
    BY <1>3, ListInitType DEF StartLists, AudioListType
  <2>5. CameraType'
    BY <1>3 DEF StartLists, CameraType
  <2>6. SourceType'
    BY <1>3 DEF StartLists, SourceType
  <2>7. VideoOutType'
    BY <1>3 DEF StartLists, VideoOutType, VideoThread, NoPacket, Packet, Junk
  <2>8. AudioOutType'
    BY <1>3 DEF StartLists, AudioOutType, AudioThread
  <2>9. WriterType'
    BY <1>3 DEF StartLists, WriterType
  <2>10. UNCHANGED <<contextVars>>
    BY <1>3 DEF StartLists
  <2>11. QED
    BY <2>1, <2>2, <2>3, <2>4, <2>5, <2>6, <2>7, <2>8, <2>9, <2>10, UnchangedTypes
<1>4. CASE StartCreateVideo
  <2>1. ControlType'
    BY <1>4 DEF StartCreateVideo, ControlType
  <2>2. VideoOutType'
    BY <1>4 DEF StartCreateVideo, VideoOutType, VideoThread, NoPacket, Packet, Junk
  <2>3. UNCHANGED <<contextVars, flagVars, videoList, audioList, cameraVars, sourceVars,
                    audioOut, writer>>
    BY <1>4 DEF StartCreateVideo, inputVars, videoIn, audioIn
  <2>4. QED
    BY <2>1, <2>2, <2>3, UnchangedTypes
<1>5. CASE StartCreateAudio
  <2>1. ControlType'
    BY <1>5 DEF StartCreateAudio, ControlType
  <2>2. AudioOutType'
    BY <1>5 DEF StartCreateAudio, AudioOutType, AudioThread
  <2>3. UNCHANGED <<contextVars, flagVars, videoList, audioList, cameraVars, sourceVars,
                    videoOut, writer>>
    BY <1>5 DEF StartCreateAudio, inputVars, videoIn, audioIn
  <2>4. QED
    BY <2>1, <2>2, <2>3, UnchangedTypes
<1>6. CASE StopEnter
  <2>1. ControlType'
    BY <1>6 DEF StopEnter, ControlType, CameraType
  <2>2. FlagsType'
    BY <1>6 DEF StopEnter, FlagsType
  <2>3. UNCHANGED <<contextVars, videoList, audioList, cameraVars, sourceVars, videoOut,
                    audioOut, writer>>
    BY <1>6 DEF StopEnter, inputVars, encoderVars, videoIn, audioIn
  <2>4. QED
    BY <2>1, <2>2, <2>3, UnchangedTypes
<1>7. CASE StopJoinAudio
  <2>1. ControlType'
    BY <1>7 DEF StopJoinAudio, ControlType
  <2>2. UNCHANGED <<contextVars, flagVars, videoList, audioList, cameraVars, sourceVars,
                    videoOut, audioOut, writer>>
    BY <1>7 DEF StopJoinAudio, inputVars, encoderVars, videoIn, audioIn
  <2>3. QED
    BY <2>1, <2>2, UnchangedTypes
<1>8. CASE StopJoinVideo
  <2>1. ControlType'
    BY <1>8 DEF StopJoinVideo, ControlType
  <2>2. UNCHANGED <<contextVars, flagVars, videoList, audioList, cameraVars, sourceVars,
                    videoOut, audioOut, writer>>
    BY <1>8 DEF StopJoinVideo, inputVars, encoderVars, videoIn, audioIn
  <2>3. QED
    BY <2>1, <2>2, UnchangedTypes
<1>9. CASE StopLockTrailer
  <2>1. ControlType'
    BY <1>9 DEF StopLockTrailer, ControlType, joinVars
  <2>2. VideoListType'
    BY <1>9, LockType DEF StopLockTrailer, VideoListType
  <2>3. UNCHANGED <<contextVars, flagVars, audioList, cameraVars, sourceVars, videoOut, audioOut,
                    writer>>
    BY <1>9 DEF StopLockTrailer, audioIn, encoderVars
  <2>4. QED
    BY <2>1, <2>2, <2>3, UnchangedTypes
<1>10. CASE StopTrailer
  <2>1. ControlType'
    BY <1>10 DEF StopTrailer, ControlType, joinVars
  <2>2. ContextType'
    BY <1>10 DEF StopTrailer, ContextType, pointerVars
  <2>3. VideoListType'
    BY <1>10, UnlockType DEF StopTrailer, VideoListType
  <2>4. UNCHANGED <<flagVars, audioList, cameraVars, sourceVars, videoOut, audioOut, writer>>
    BY <1>10 DEF StopTrailer, audioIn, encoderVars
  <2>5. QED
    BY <2>1, <2>2, <2>3, <2>4, UnchangedTypes
<1>11. CASE StopCloseAudio
  <2>1. ControlType'
    BY <1>11 DEF StopCloseAudio, ControlType, joinVars
  <2>2. ContextType'
    BY <1>11 DEF StopCloseAudio, ContextType
  <2>3. UNCHANGED <<flagVars, videoList, audioList, cameraVars, sourceVars, videoOut, audioOut,
                    writer>>
    BY <1>11 DEF StopCloseAudio, inputVars, encoderVars, videoIn, audioIn
  <2>4. QED
    BY <2>1, <2>2, <2>3, UnchangedTypes
<1>12. CASE StopFreeStreams
  <2>1. ControlType'
    BY <1>12 DEF StopFreeStreams, ControlType, joinVars
  <2>2. ContextType'
    BY <1>12 DEF StopFreeStreams, ContextType
  <2>3. VideoListType'
    BY <1>12, LockType DEF StopFreeStreams, VideoListType
  <2>4. UNCHANGED <<flagVars, audioList, cameraVars, sourceVars, videoOut, audioOut, writer>>
    BY <1>12 DEF StopFreeStreams, audioIn, encoderVars
  <2>5. QED
    BY <2>1, <2>2, <2>3, <2>4, UnchangedTypes
<1>13. CASE StopFreeContext
  <2>1. ControlType'
    BY <1>13 DEF StopFreeContext, ControlType, joinVars
  <2>2. ContextType'
    BY <1>13 DEF StopFreeContext, ContextType
  <2>3. VideoListType'
    BY <1>13, UnlockType, ListFreeType DEF StopFreeContext, VideoListType
  <2>4. AudioListType'
    BY <1>13, ListFreeType DEF StopFreeContext, AudioListType
  <2>5. UNCHANGED <<flagVars, cameraVars, sourceVars, videoOut, audioOut, writer>>
    BY <1>13 DEF StopFreeContext, encoderVars
  <2>6. QED
    BY <2>1, <2>2, <2>3, <2>4, <2>5, UnchangedTypes
<1>14. CASE VideoCall
  <2>1. CameraType'
    BY <1>14, TimesAssumption DEF VideoCall, CameraType
  <2>2. UNCHANGED <<sessionVars, contextVars, flagVars, videoList, audioList, sourceVars,
                    videoOut, audioOut, writer>>
    BY <1>14 DEF VideoCall, audioIn, encoderVars
  <2>3. QED
    BY <2>1, <2>2, UnchangedTypes
<1>15. CASE VideoRefused
  <2>1. CameraType'
    BY <1>15 DEF VideoRefused, CameraType, VideoIdle
  <2>2. UNCHANGED <<sessionVars, contextVars, flagVars, videoList, audioList, sourceVars,
                    videoOut, audioOut, writer>>
    BY <1>15 DEF VideoRefused, audioIn, encoderVars
  <2>3. QED
    BY <2>1, <2>2, UnchangedTypes
<1>16. CASE VideoEnter
  <2>1. VideoListType'
    BY <1>16, LockType DEF VideoEnter, VideoListType
  <2>2. CameraType'
    <3> DEFINE first == IF firstpts_video < 0 THEN vp.time ELSE firstpts_video
    <3>1. vp.time - first \in Nat /\ first \in Int
      BY <1>16 DEF VideoEnter, ProducersInv, CameraType
    <3> DEFINE ticks == VideoTicks(vp.time - first)
    <3>2. ticks \in Nat
      BY <3>1, TicksNat
    <3>3. Advance(ticks, lastpts) \in Nat
      BY <3>2 DEF Advance, CameraType
    <3>4. /\ firstpts_video' = first /\ lastpts' = Advance(ticks, lastpts)
          /\ vp' = VideoIdle \/ vp' = [vp EXCEPT !.pc = "fill", !.stamp = Advance(ticks, lastpts)]
          /\ vcalls' = vcalls /\ accepted' = accepted
      BY <1>16 DEF VideoEnter
    <3>5. /\ first \in Int /\ Advance(ticks, lastpts) \in Nat
          /\ vp \in [pc : {"idle", "lock", "fill"}, time : Nat, stamp : Nat]
          /\ vcalls \in Nat /\ accepted \in Seq(Nat)
      BY <3>1, <3>3 DEF CameraType
    <3> HIDE DEF first, ticks
    <3> DEFINE stamp == Advance(ticks, lastpts)
    <3>6. firstpts_video' \in Int /\ lastpts' \in Nat /\ vcalls' \in Nat /\ accepted' \in Seq(Nat)
      BY <3>4, <3>5
    <3>7. stamp \in Nat
      BY <3>5
    <3> HIDE DEF stamp
    <3>8. [vp EXCEPT !.pc = "fill", !.stamp = stamp] \in [pc : {"idle", "lock", "fill"}, time : Nat, stamp : Nat]
      BY <3>5, <3>7
    <3>9. VideoIdle \in [pc : {"idle", "lock", "fill"}, time : Nat, stamp : Nat]
      BY DEF VideoIdle
    <3>10. QED
      BY <3>4, <3>6, <3>8, <3>9 DEF CameraType, stamp
  <2>3. UNCHANGED <<sessionVars, contextVars, flagVars, audioList, sourceVars, videoOut,
                    audioOut, writer>>
    BY <1>16 DEF VideoEnter, audioIn, encoderVars
  <2>4. QED
    BY <2>1, <2>2, <2>3, UnchangedTypes
<1>17. CASE VideoFill
  <2>1. VideoListType'
    <3>1. videoList.size < VIDEOFRAMEBUFSIZE /\ vp.stamp \in Nat
      BY <1>17 DEF VideoFill, ProducersInv, CameraType
    <3>2. Put(videoList, VIDEOFRAMEBUFSIZE, vp.stamp) \in ListOf(VIDEOFRAMEBUFSIZE, Nat, {"vp", "ctl"})
      BY <3>1, PutType DEF VideoListType
    <3>3. QED
      BY <1>17, <3>2, UnlockType DEF VideoFill, VideoListType
  <2>2. CameraType'
    <3>1. vp.stamp \in Nat /\ (accepted' = accepted \/ accepted' = Append(accepted, vp.stamp))
      BY <1>17 DEF VideoFill, CameraType
    <3>2. accepted' \in Seq(Nat)
      BY SMTT(60), <3>1 DEF CameraType
    <3>3. QED
      BY <1>17, <3>2 DEF VideoFill, CameraType, VideoIdle
  <2>3. UNCHANGED <<sessionVars, contextVars, flagVars, audioList, sourceVars, videoOut,
                    audioOut, writer>>
    BY <1>17 DEF VideoFill, audioIn, encoderVars
  <2>4. QED
    BY <2>1, <2>2, <2>3, UnchangedTypes
<1>18. CASE AudioCall
  <2>1. SourceType'
    BY <1>18, TimesAssumption DEF AudioCall, SourceType, Advance
  <2>2. UNCHANGED <<sessionVars, contextVars, flagVars, videoList, audioList, cameraVars,
                    videoOut, audioOut, writer>>
    BY <1>18 DEF AudioCall, videoIn, encoderVars
  <2>3. QED
    BY <2>1, <2>2, UnchangedTypes
<1>19. CASE AudioRefused
  <2>1. SourceType'
    BY <1>19 DEF AudioRefused, SourceType, AudioIdle
  <2>2. UNCHANGED <<sessionVars, contextVars, flagVars, videoList, audioList, cameraVars,
                    videoOut, audioOut, writer>>
    BY <1>19 DEF AudioRefused, videoIn, encoderVars
  <2>3. QED
    BY <2>1, <2>2, UnchangedTypes
<1>20. CASE AudioEnter
  <2>1. AudioListType'
    BY <1>20, LockType DEF AudioEnter, AudioListType
  <2>2. SourceType'
    BY <1>20 DEF AudioEnter, SourceType
  <2>3. UNCHANGED <<sessionVars, contextVars, flagVars, videoList, cameraVars, videoOut,
                    audioOut, writer>>
    BY <1>20 DEF AudioEnter, videoIn, encoderVars
  <2>4. QED
    BY <2>1, <2>2, <2>3, UnchangedTypes
<1>21. CASE AudioCopy
  <2>1. AudioListType'
    <3> DEFINE chunk == [pts |-> ap.stamp, len |-> ap.len]
    <3>1. audioList.size < AUDIOFRAMEBUFSIZE /\ chunk \in [pts : Nat, len : Nat]
      BY <1>21 DEF AudioCopy, ProducersInv, SourceType
    <3>2. Put(audioList, AUDIOFRAMEBUFSIZE, chunk)
            \in ListOf(AUDIOFRAMEBUFSIZE, [pts : Nat, len : Nat], {"ap"})
      BY <3>1, PutType DEF AudioListType
    <3>3. QED
      BY <1>21, <3>2, UnlockType DEF AudioCopy, AudioListType
  <2>2. SourceType'
    BY <1>21 DEF AudioCopy, SourceType, AudioIdle
  <2>3. UNCHANGED <<sessionVars, contextVars, flagVars, videoList, cameraVars, videoOut,
                    audioOut, writer>>
    BY <1>21 DEF AudioCopy, videoIn, encoderVars
  <2>4. QED
    BY <2>1, <2>2, <2>3, UnchangedTypes
<1>22. CASE VeBegin
  <2>1. FlagsType'
    BY <1>22 DEF VeBegin, FlagsType, ProcessState
  <2>2. VideoOutType'
    BY <1>22 DEF VeBegin, VideoOutType
  <2>3. UNCHANGED <<sessionVars, contextVars, videoList, audioList, cameraVars, sourceVars,
                    audioOut, writer>>
    BY <1>22 DEF VeBegin, inputVars, videoIn, audioIn
  <2>4. QED
    BY <2>1, <2>2, <2>3, UnchangedTypes
<1>23. CASE VeDequeue
  <2>1. VideoListType'
    BY <1>23, TakeType DEF VeDequeue, VideoListType
  <2>2. VideoOutType'
    <3>1. videoList.readpos \in 0..VIDEOFRAMEBUFSIZE-1 /\ Oldest(videoList) \in Nat
      BY DEF VideoListType, ListOf, Oldest
    <3> DEFINE first == IF ve.first = -1 THEN Oldest(videoList) ELSE ve.first
    <3>2. first \in Int /\ Oldest(videoList) - first \in Int
      BY <3>1 DEF VideoOutType
    <3>3. /\ ve' = [ve EXCEPT !.pc = "encode", !.slot = videoList.readpos,
                              !.first = first, !.pts = Oldest(videoList) - first]
          /\ codec' = codec /\ stored' = stored
      BY <1>23 DEF VeDequeue
    <3> HIDE DEF first
    <3>4. QED
      BY <3>1, <3>2, <3>3 DEF VideoOutType
  <2>3. UNCHANGED <<sessionVars, contextVars, flagVars, audioList, cameraVars, sourceVars,
                    audioOut, writer>>
    BY <1>23 DEF VeDequeue, audioIn
  <2>4. QED
    BY <2>1, <2>2, <2>3, UnchangedTypes
<1>24. CASE VeEncode
  <2>1. VideoOutType'
    <3> DEFINE p == [pts |-> ve.pts, img |-> videoList.framebuf[ve.slot]]
    <3>1. p \in Packet
      BY DEF VideoListType, ListOf, VideoOutType, Packet
    <3>2. Append(codec, p) \in Seq(Packet)
      BY <3>1 DEF VideoOutType
    <3>3. Encoded(Append(codec, p), "loop", ve.junk) /\ stored' = stored
      BY <1>24 DEF VeEncode
    <3>4. QED
      BY <3>2, <3>3, EncodedType DEF VideoOutType
  <2>2. UNCHANGED <<sessionVars, contextVars, flagVars, videoList, audioList, cameraVars,
                    sourceVars, audioOut, writer>>
    BY <1>24 DEF VeEncode, inputVars, videoIn, audioIn
  <2>3. QED
    BY <2>1, <2>2, UnchangedTypes
<1>25. CASE VeLockWriter
  <2>1. VideoOutType'
    BY <1>25 DEF VeLockWriter, VideoOutType
  <2>2. WriterType'
    BY <1>25 DEF VeLockWriter, WriterType
  <2>3. UNCHANGED <<sessionVars, contextVars, flagVars, videoList, audioList, cameraVars,
                    sourceVars, audioOut>>
    BY <1>25 DEF VeLockWriter, inputVars, videoIn, audioIn
  <2>4. QED
    BY <2>1, <2>2, <2>3, UnchangedTypes
<1>26. CASE VeWrite
  <2>1. VideoOutType'
    <3>1. ve.packet \in Packet /\ ve.back \in {"loop", "flush"}
      BY DEF VideoOutType
    <3>2. stored' \in Seq(Packet)
      BY <1>26, <3>1 DEF VeWrite, VideoOutType
    <3>3. QED
      BY <1>26, <3>1, <3>2 DEF VeWrite, VideoOutType
  <2>2. WriterType'
    BY <1>26 DEF VeWrite, WriterType
  <2>3. UNCHANGED <<sessionVars, contextVars, flagVars, videoList, audioList, cameraVars,
                    sourceVars, audioOut>>
    BY <1>26 DEF VeWrite, inputVars, videoIn, audioIn
  <2>4. QED
    BY <2>1, <2>2, <2>3, UnchangedTypes
<1>27. CASE VeLeave
  <2>1. VideoOutType'
    BY <1>27 DEF VeLeave, VideoOutType
  <2>2. UNCHANGED <<sessionVars, contextVars, flagVars, videoList, audioList, cameraVars,
                    sourceVars, audioOut, writer>>
    BY <1>27 DEF VeLeave, inputVars, videoIn, audioIn
  <2>3. QED
    BY <2>1, <2>2, UnchangedTypes
<1>27b. CASE VeExit
  <2>1. FlagsType'
    BY <1>27b DEF VeExit, FlagsType, ProcessState
  <2>2. VideoOutType'
    BY <1>27b DEF VeExit, VideoOutType
  <2>3. UNCHANGED <<sessionVars, contextVars, videoList, audioList, cameraVars, sourceVars,
                    audioOut, writer>>
    BY <1>27b DEF VeExit, inputVars, videoIn, audioIn
  <2>4. QED
    BY <2>1, <2>2, <2>3, UnchangedTypes
<1>28. CASE VeFlush
  <2>1. VideoOutType'
    <3>1. NoPacket \in Packet
      BY DEF NoPacket, Packet, Junk
    <3>2. Append(codec, NoPacket) \in Seq(Packet) /\ ve.junk \in Nat /\ ve.junk + 1 \in Nat
      BY <3>1 DEF VideoOutType
    <3>3. /\ Encoded(codec, "flush", ve.junk) \/ Encoded(Append(codec, NoPacket), "flush", ve.junk + 1)
          /\ stored' = stored
      BY <1>28 DEF VeFlush
    <3>4. QED
      BY <3>2, <3>3, EncodedType DEF VideoOutType
  <2>2. UNCHANGED <<sessionVars, contextVars, flagVars, videoList, audioList, cameraVars,
                    sourceVars, audioOut, writer>>
    BY <1>28 DEF VeFlush, inputVars, videoIn, audioIn
  <2>3. QED
    BY <2>1, <2>2, UnchangedTypes
<1>29. CASE VeEnd
  <2>1. VideoOutType'
    BY <1>29 DEF VeEnd, VideoOutType
  <2>2. UNCHANGED <<sessionVars, contextVars, flagVars, videoList, audioList, cameraVars,
                    sourceVars, audioOut, writer>>
    BY <1>29 DEF VeEnd, inputVars, videoIn, audioIn
  <2>3. QED
    BY <2>1, <2>2, UnchangedTypes
<1>30. CASE AeBegin
  <2>1. FlagsType'
    BY <1>30 DEF AeBegin, FlagsType, ProcessState
  <2>2. AudioOutType'
    BY <1>30 DEF AeBegin, AudioOutType
  <2>3. UNCHANGED <<sessionVars, contextVars, videoList, audioList, cameraVars, sourceVars,
                    videoOut, writer>>
    BY <1>30 DEF AeBegin, inputVars, videoIn, audioIn
  <2>4. QED
    BY <2>1, <2>2, <2>3, UnchangedTypes
<1>31. CASE AeTop
  <2>1. AudioOutType'
    BY <1>31 DEF AeTop, AudioOutType
  <2>2. UNCHANGED <<sessionVars, contextVars, flagVars, videoList, audioList, cameraVars,
                    sourceVars, videoOut, writer>>
    BY <1>31 DEF AeTop, inputVars, videoIn, audioIn
  <2>3. QED
    BY <2>1, <2>2, UnchangedTypes
<1>32. CASE AeDequeue
  <2>1. AudioListType'
    BY <1>32, TakeType DEF AeDequeue, AudioListType
  <2>2. AudioOutType'
    <3> DEFINE all == ae.left + Oldest(audioList).len
               at == Oldest(audioList).pts
    <3>1. Oldest(audioList) \in [pts : Nat, len : Nat]
      BY DEF AudioListType, ListOf, Oldest
    <3>2. at \in Nat /\ all \in Nat
      BY <3>1 DEF AudioOutType
    <3>3. CASE ae' = [ae EXCEPT !.pc = "encode", !.left = 0, !.samples = all, !.ptss = at]
      <4> HIDE DEF all, at
      <4>1. ae' \in [pc : {"encode"}, left : Nat, samples : Nat, ptss : Nat, last : Nat, packet : Nat]
        BY <3>2, <3>3 DEF AudioOutType
      <4>2. QED
        BY <1>32, <4>1 DEF AeDequeue, AudioOutType
    <3>4. CASE ae' = [ae EXCEPT !.pc = "loop"]
      BY <1>32, <3>4 DEF AeDequeue, AudioOutType
    <3>5. QED
      BY <1>32, <3>3, <3>4 DEF AeDequeue
  <2>3. UNCHANGED <<sessionVars, contextVars, flagVars, videoList, cameraVars, sourceVars,
                    videoOut, writer>>
    BY <1>32 DEF AeDequeue, videoIn
  <2>4. QED
    BY <2>1, <2>2, <2>3, UnchangedTypes
<1>33. CASE AeEncode
  <2>1. AudioOutType'
    <3> DEFINE ticks == AudioTicks(ae.ptss)
               pts == IF ticks > ae.last THEN ticks ELSE ae.last + 100
    <3>1. ae.ptss \in Nat /\ ae.last \in Nat
      BY DEF AudioOutType
    <3>2. ticks \in Nat
      BY <3>1, TicksNat
    <3>3. pts \in Nat
      BY <3>1, <3>2
    <3>4. /\ \/ ae' = [ae EXCEPT !.pc = "write", !.samples = @ - AudioFrame,
                              !.packet = pts, !.last = pts]
             \/ ae' = [ae EXCEPT !.samples = @ - AudioFrame]
          /\ samplesOut' = samplesOut + AudioFrame /\ audioStored' = audioStored
          /\ ae.samples >= AudioFrame
      BY <1>33 DEF AeEncode
    <3> HIDE DEF pts
    <3>5. ae.samples - AudioFrame \in Nat /\ samplesOut + AudioFrame \in Nat
      BY <3>4 DEF AudioOutType
    <3>6. QED
      BY <3>3, <3>4, <3>5 DEF AudioOutType
  <2>2. UNCHANGED <<sessionVars, contextVars, flagVars, videoList, audioList, cameraVars,
                    sourceVars, videoOut, writer>>
    BY <1>33 DEF AeEncode, inputVars, videoIn, audioIn
  <2>3. QED
    BY <2>1, <2>2, UnchangedTypes
<1>34. CASE AeKeep
  <2>1. AudioOutType'
    BY <1>34 DEF AeKeep, AudioOutType
  <2>2. UNCHANGED <<sessionVars, contextVars, flagVars, videoList, audioList, cameraVars,
                    sourceVars, videoOut, writer>>
    BY <1>34 DEF AeKeep, inputVars, videoIn, audioIn
  <2>3. QED
    BY <2>1, <2>2, UnchangedTypes
<1>35. CASE AeLockWriter
  <2>1. AudioOutType'
    BY <1>35 DEF AeLockWriter, AudioOutType
  <2>2. WriterType'
    BY <1>35 DEF AeLockWriter, WriterType
  <2>3. UNCHANGED <<sessionVars, contextVars, flagVars, videoList, audioList, cameraVars,
                    sourceVars, videoOut>>
    BY <1>35 DEF AeLockWriter, inputVars, videoIn, audioIn
  <2>4. QED
    BY <2>1, <2>2, <2>3, UnchangedTypes
<1>36. CASE AeWrite
  <2>1. AudioOutType'
    <3>1. audioStored' \in Seq(Nat)
      BY <1>36 DEF AeWrite, AudioOutType
    <3>2. QED
      BY <1>36, <3>1 DEF AeWrite, AudioOutType
  <2>2. WriterType'
    BY <1>36 DEF AeWrite, WriterType
  <2>3. UNCHANGED <<sessionVars, contextVars, flagVars, videoList, audioList, cameraVars,
                    sourceVars, videoOut>>
    BY <1>36 DEF AeWrite, inputVars, videoIn, audioIn
  <2>4. QED
    BY <2>1, <2>2, <2>3, UnchangedTypes
<1>37. CASE AeExit
  <2>1. FlagsType'
    BY <1>37 DEF AeExit, FlagsType, ProcessState
  <2>2. AudioOutType'
    BY <1>37 DEF AeExit, AudioOutType
  <2>3. UNCHANGED <<sessionVars, contextVars, videoList, audioList, cameraVars, sourceVars,
                    videoOut, writer>>
    BY <1>37 DEF AeExit, inputVars, videoIn, audioIn
  <2>4. QED
    BY <2>1, <2>2, <2>3, UnchangedTypes
<1>38. CASE UNCHANGED vars
  BY <1>38, UnchangedTypes DEF vars, inputVars, videoIn, audioIn, encoderVars
<1>39. QED
  BY <1>1, <1>2, <1>3, <1>4, <1>5, <1>6, <1>7, <1>8, <1>9, <1>10, <1>11, <1>12, <1>13,
     <1>14, <1>15, <1>16, <1>17, <1>18, <1>19, <1>20, <1>21, <1>22, <1>23, <1>24, <1>25,
     <1>26, <1>27, <1>27b, <1>28, <1>29, <1>30, <1>31, <1>32, <1>33, <1>34, <1>35, <1>36, <1>37,
     <1>38 DEF Next, Start, Stop, Camera, AudioSource, VideoEncoder, AudioEncoder

-----------------------------------------------------------------------------
(* The invariant                                                           *)

\* No step lets a list fill up under a call that is filling a slot of it.
LEMMA StepProducers == TypeOK /\ ProducersInv /\ [Next]_vars => ProducersInv'
<1> SUFFICES ASSUME TypeOK, ProducersInv, [Next]_vars PROVE ProducersInv'
  OBVIOUS
<1> USE DEF TypeOK, ProducersInv
<1>1. CASE StartInitial
  BY <1>1 DEF StartInitial, MayStart
<1>2. CASE StartLists
  BY <1>2, ListInitKeeps DEF StartLists, VideoListType, AudioListType, VideoThread, AudioThread
<1>3. CASE StopLockTrailer
  BY <1>3, LockKeeps DEF StopLockTrailer, VideoListType, cameraVars, audioIn, sourceVars
<1>4. CASE StopTrailer
  BY <1>4, UnlockKeeps DEF StopTrailer, VideoListType, cameraVars, audioIn, sourceVars
<1>5. CASE StopFreeStreams
  BY <1>5, LockKeeps DEF StopFreeStreams, VideoListType, cameraVars, audioIn, sourceVars
<1>6. CASE StopFreeContext
  BY <1>6, UnlockKeeps, ListFreeKeeps, ListFreeType DEF StopFreeContext, VideoListType,
     AudioListType, cameraVars, sourceVars
<1>7. CASE VideoCall
  BY <1>7 DEF VideoCall, CameraType, audioIn, sourceVars
<1>8. CASE VideoRefused
  BY <1>8 DEF VideoRefused, CameraType, VideoIdle, audioIn, sourceVars
<1>9. CASE VideoEnter
  <2>1. /\ \A s : [vp EXCEPT !.pc = "fill", !.stamp = s].pc = "fill"
        /\ VideoIdle.pc = "idle"
    BY Zenon DEF CameraType, VideoIdle
  <2>2. \/ vp'.pc = "idle"
        \/ /\ vp'.pc = "fill" /\ videoList' = Lock(videoList, "vp")
           /\ ~(videoList.size >= VIDEOFRAMEBUFSIZE)
    BY <1>9, <2>1 DEF VideoEnter
  <2>3. videoList.size \in Nat
    BY DEF VideoListType, ListOf
  <2>4. Lock(videoList, "vp").size = videoList.size
    BY LockKeeps DEF VideoListType
  <2>5. UNCHANGED <<ap, audioList>>
    BY <1>9 DEF VideoEnter, audioIn, sourceVars
  <2>6. QED
    BY <2>2, <2>3, <2>4, <2>5
<1>10. CASE VideoFill
  BY <1>10, UnlockKeeps, PutKeeps, PutType DEF VideoFill, CameraType, VideoListType, VideoIdle,
     audioIn, sourceVars
<1>11. CASE AudioCall
  BY <1>11 DEF AudioCall, SourceType, videoIn, cameraVars
<1>12. CASE AudioRefused
  BY <1>12 DEF AudioRefused, SourceType, AudioIdle, videoIn, cameraVars
<1>13. CASE AudioEnter
  BY <1>13, LockKeeps DEF AudioEnter, SourceType, AudioListType, videoIn, cameraVars
<1>14. CASE AudioCopy
  BY <1>14, UnlockKeeps, PutKeeps, PutType DEF AudioCopy, SourceType, AudioListType, AudioIdle,
     videoIn, cameraVars
<1>15. CASE VeDequeue
  <2>1. /\ videoList' = Take(videoList, VIDEOFRAMEBUFSIZE)
        /\ UNCHANGED <<vp, ap, audioList, firstpts_video>>
    BY <1>15 DEF VeDequeue, cameraVars, audioIn, sourceVars
  <2>2. videoList'.size = videoList.size - 1
    BY <2>1, TakeKeeps DEF VideoListType
  <2>3. videoList.size \in Nat
    BY DEF VideoListType, ListOf
  <2>4. QED
    BY <2>1, <2>2, <2>3
<1>16. CASE AeDequeue
  <2>1. /\ audioList' = Take(audioList, AUDIOFRAMEBUFSIZE) \/ audioList' = audioList
        /\ UNCHANGED <<vp, ap, videoList, firstpts_video>>
    BY <1>16 DEF AeDequeue, videoIn, cameraVars, sourceVars
  <2>2. audioList'.size = audioList.size - 1 \/ audioList'.size = audioList.size
    BY <2>1, TakeKeeps DEF AudioListType
  <2>3. audioList.size \in Nat
    BY DEF AudioListType, ListOf
  <2>4. QED
    BY <2>1, <2>2, <2>3
<1>17. CASE UNCHANGED <<vp, ap, videoList, audioList, firstpts_video>>
  BY <1>17
<1>18. QED
  BY <1>1, <1>2, <1>3, <1>4, <1>5, <1>6, <1>7, <1>8, <1>9, <1>10, <1>11, <1>12, <1>13, <1>14,
     <1>15, <1>16, <1>17 DEF Next, Start, Stop, Camera, AudioSource, VideoEncoder,
     AudioEncoder, StartOpen, StartCreateVideo, StartCreateAudio, StopEnter, StopJoinAudio,
     StopJoinVideo, StopCloseAudio, VeBegin, VeEncode, VeLockWriter, VeWrite, VeLeave, VeExit, VeFlush,
     VeEnd, AeBegin, AeTop, AeEncode, AeKeep, AeLockWriter, AeWrite, AeExit, joinVars,
     sessionVars, pointerVars, contextVars, flagVars, cameraVars, videoIn, sourceVars, audioIn,
     inputVars, videoOut, audioOut, encoderVars, vars

\* A step that leaves alone what a part of the invariant is about keeps it.
LEMMA UnchangedInvs ==
  /\ ThreadsInv /\ UNCHANGED <<ctl, tid_video, tid_audio, ve, ae>> => ThreadsInv'
  /\ FlagsInv /\ UNCHANGED <<m_state_video, m_state_audio, m_nExit, ctl, tid_video, ve, ae>> => FlagsInv'
  /\ CallsInv /\ UNCHANGED <<ctl, vp, ap>> => CallsInv'
  /\ AudioCallInv /\ UNCHANGED <<ap, m_nExit, tid_audio>> => AudioCallInv'
  /\ MutexInv /\ UNCHANGED <<vp, ap, ctl, ve, ae, videoList, audioList, writer>> => MutexInv'
  /\ SessionInv /\ UNCHANGED <<ctl, tid_video, m_pOutContext, m_video_outbuf, m_video_stream, m_audio_stream, file, videoList, audioList, vp>> => SessionInv'
  /\ ListsInv /\ UNCHANGED <<videoList, audioList>> => ListsInv'
  /\ SlotInv /\ UNCHANGED <<ve, videoList>> => SlotInv'
  /\ OwedInv /\ UNCHANGED <<ve, tid_video, ctl, videoList, accepted, owed>> => OwedInv'
<1>1. ThreadsInv /\ UNCHANGED <<ctl, tid_video, tid_audio, ve, ae>> => ThreadsInv'
  BY DEF ThreadsInv, Starting, Joined
<1>2. FlagsInv /\ UNCHANGED <<m_state_video, m_state_audio, m_nExit, ctl, tid_video, ve, ae>>
   => FlagsInv'
  BY DEF FlagsInv, VideoLoop, VideoFlush, Starting, Joined, READY, RUNNING, THREADEXIT
<1>3. CallsInv /\ UNCHANGED <<ctl, vp, ap>> => CallsInv'
  BY DEF CallsInv, Starting
<1>4. AudioCallInv /\ UNCHANGED <<ap, m_nExit, tid_audio>> => AudioCallInv'
  BY DEF AudioCallInv
<1>5. MutexInv /\ UNCHANGED <<vp, ap, ctl, ve, ae, videoList, audioList, writer>> => MutexInv'
  BY DEF MutexInv, FreeMutex
<1>6. SessionInv /\ UNCHANGED <<ctl, tid_video, m_pOutContext, m_video_outbuf, m_video_stream,
   m_audio_stream, file, videoList, audioList, vp>> => SessionInv'
  BY DEF SessionInv, Joined, VideoSessionAlive
<1>7. ListsInv /\ UNCHANGED <<videoList, audioList>> => ListsInv'
  BY DEF ListsInv
<1>8. SlotInv /\ UNCHANGED <<ve, videoList>> => SlotInv'
  BY DEF SlotInv
<1>9. OwedInv /\ UNCHANGED <<ve, tid_video, ctl, videoList, accepted, owed>> => OwedInv'
  BY DEF OwedInv, VideoFlush, Joined
<1>10. QED
  BY <1>1, <1>2, <1>3, <1>4, <1>5, <1>6, <1>7, <1>8, <1>9

\* Every step keeps the invariant.
LEMMA StepInv == TypeOK /\ IInv /\ [Next]_vars => IInv'
<1> SUFFICES ASSUME TypeOK, IInv, [Next]_vars PROVE IInv'
  OBVIOUS
<1> USE DEF TypeOK, IInv
<1>1. CASE StartInitial
  <2>1. ThreadsInv'
    BY <1>1 DEF StartInitial, ThreadsInv, Starting, Joined, MayStart, encoderVars, videoOut,
       audioOut
  <2>2. FlagsInv'
    BY <1>1 DEF StartInitial, FlagsInv, VideoLoop, VideoFlush, Starting, Joined, READY,
       RUNNING, THREADEXIT, MayStart, encoderVars, videoOut, audioOut, ThreadsInv
  <2>3. CallsInv'
    BY <1>1 DEF StartInitial, CallsInv, Starting, MayStart
  <2>4. AudioCallInv'
    BY <1>1 DEF StartInitial, AudioCallInv, MayStart
  <2>5. MutexInv'
    BY <1>1 DEF StartInitial, MutexInv, FreeMutex, MayStart, encoderVars, videoOut, audioOut
  <2>6. SessionInv'
    BY <1>1 DEF StartInitial, SessionInv, Joined, VideoSessionAlive, MayStart, contextVars,
       pointerVars
  <2>7. OwedInv'
    BY <1>1 DEF StartInitial, OwedInv, VideoFlush, Joined, MayStart, encoderVars, videoOut
  <2>8. UNCHANGED <<videoList, audioList, ve>>
    BY <1>1 DEF StartInitial, contextVars, pointerVars, encoderVars, videoOut, audioOut
  <2>9. QED
    BY <2>1, <2>2, <2>3, <2>4, <2>5, <2>6, <2>7, <2>8, UnchangedInvs, StepProducers
<1>2. CASE StartOpen
  <2>1. ThreadsInv'
    BY <1>2 DEF StartOpen, ThreadsInv, Starting, Joined, joinVars, encoderVars, videoOut,
       audioOut
  <2>2. FlagsInv'
    BY <1>2 DEF StartOpen, FlagsInv, VideoLoop, VideoFlush, Starting, Joined, READY, RUNNING,
       THREADEXIT, joinVars, flagVars, encoderVars, videoOut, audioOut
  <2>3. CallsInv'
    BY <1>2 DEF StartOpen, CallsInv, Starting, inputVars, videoIn, cameraVars, audioIn,
       sourceVars
  <2>4. MutexInv'
    BY <1>2 DEF StartOpen, MutexInv, FreeMutex, inputVars, videoIn, cameraVars, audioIn,
       sourceVars, encoderVars, videoOut, audioOut
  <2>5. SessionInv'
    <3>1. ctl' \in {"lists", "idle"} /\ m_pOutContext' /\ file' \in {"header", "open", "closed"}
      BY <1>2 DEF StartOpen
    <3>2. ctl' = "lists" => m_video_stream' = "live"
      BY <1>2 DEF StartOpen
    <3>3. ctl' = "lists" => m_audio_stream' = "live"
      BY <1>2 DEF StartOpen
    <3>4. ctl' = "lists" => m_video_outbuf'
      BY <1>2 DEF StartOpen, ContextType
    <3>5. ctl' = "lists" => file' = "header"
      BY <1>2 DEF StartOpen
    <3>6. vp.pc = "idle" /\ tid_video # "live"
      BY <1>2 DEF StartOpen, CallsInv, ThreadsInv, Starting
    <3>7. UNCHANGED <<vp, tid_video, videoList, audioList>>
      BY <1>2 DEF StartOpen, joinVars, inputVars, videoIn, cameraVars, audioIn
    <3>8. QED
      BY <3>1, <3>2, <3>3, <3>4, <3>5, <3>6, <3>7 DEF SessionInv, Joined
  <2>6. OwedInv'
    BY <1>2 DEF StartOpen, OwedInv, VideoFlush, Joined, joinVars, inputVars, videoIn,
       cameraVars, encoderVars, videoOut
  <2>7. UNCHANGED <<ap, m_nExit, tid_audio, videoList, audioList, ve>>
    BY <1>2 DEF StartOpen, joinVars, flagVars, inputVars, videoIn, cameraVars, audioIn,
       sourceVars, encoderVars, videoOut, audioOut
  <2>8. QED
    BY <2>1, <2>2, <2>3, <2>4, <2>5, <2>6, <2>7, UnchangedInvs, StepProducers
<1>3. CASE StartLists
  <2>1. ve'.pc = "none" /\ ae'.pc = "none"
    BY <1>3 DEF StartLists, VideoThread, AudioThread
  <2>2. /\ videoList'.mutex = FreeMutex
        /\ videoList'.allocated
        /\ videoList'.size = 0
    BY <1>3, ListInitKeeps DEF StartLists, VideoListType
  <2>3. /\ audioList'.mutex = FreeMutex
        /\ audioList'.allocated
        /\ audioList'.size = 0
    BY <1>3, ListInitKeeps DEF StartLists, AudioListType
  <2>4. ThreadsInv'
    BY <1>3, <2>1, <2>2, <2>3 DEF StartLists, ThreadsInv, Starting, Joined
  <2>5. FlagsInv'
    BY <1>3, <2>1, <2>2, <2>3 DEF StartLists, FlagsInv, VideoLoop, VideoFlush, Starting,
       Joined, READY, RUNNING, THREADEXIT, ThreadsInv
  <2>6. CallsInv'
    BY <1>3, <2>1, <2>2, <2>3 DEF StartLists, CallsInv, Starting
  <2>7. MutexInv'
    BY <1>3, <2>1, <2>2, <2>3 DEF StartLists, MutexInv, FreeMutex, CallsInv, Starting
  <2>8. SessionInv'
    BY <1>3, <2>1, <2>2, <2>3 DEF StartLists, SessionInv, Joined, VideoSessionAlive,
       contextVars, pointerVars
  <2>9. ListsInv'
    BY <1>3, ListInitConsistent DEF StartLists, ListsInv, VideoListType, AudioListType,
       VideoThread, AudioThread
  <2>10. SlotInv'
    BY <1>3, <2>1, <2>2, <2>3 DEF StartLists, SlotInv
  <2>11. OwedInv'
    BY <1>3, <2>1, <2>2, <2>3 DEF StartLists, OwedInv, VideoFlush, Joined
  <2>12. UNCHANGED <<ap, m_nExit, tid_audio>>
    BY <1>3 DEF StartLists, contextVars, pointerVars
  <2>13. QED
    BY <2>1, <2>2, <2>3, <2>4, <2>5, <2>6, <2>7, <2>8, <2>9, <2>10, <2>11, <2>12,
       UnchangedInvs, StepProducers
<1>4. CASE StartCreateVideo
  <2>1. \/ tid_video' = "live" /\ ve'.pc = "begin" /\ ctl' = "create_audio"
        \/ tid_video' = tid_video /\ ve' = ve /\ ctl' = "idle"
    BY <1>4 DEF StartCreateVideo, VideoThread
  <2>2. ThreadsInv'
    BY <1>4, <2>1 DEF StartCreateVideo, ThreadsInv, Starting, Joined, audioOut
  <2>3. FlagsInv'
    BY <1>4, <2>1 DEF StartCreateVideo, FlagsInv, VideoLoop, VideoFlush, Starting, Joined,
       READY, RUNNING, THREADEXIT, flagVars, audioOut, ThreadsInv
  <2>4. CallsInv'
    BY <1>4, <2>1 DEF StartCreateVideo, CallsInv, Starting, inputVars, videoIn, cameraVars,
       audioIn, sourceVars
  <2>5. MutexInv'
    BY <1>4, <2>1 DEF StartCreateVideo, MutexInv, FreeMutex, inputVars, videoIn, cameraVars,
       audioIn, sourceVars, audioOut, ThreadsInv, Starting, Joined
  <2>6. SessionInv'
    BY <1>4, <2>1 DEF StartCreateVideo, SessionInv, Joined, VideoSessionAlive, contextVars,
       pointerVars, inputVars, videoIn, cameraVars, audioIn
  <2>7. SlotInv'
    BY <1>4, <2>1 DEF StartCreateVideo, SlotInv, inputVars, videoIn
  <2>8. OwedInv'
    BY <1>4, <2>1 DEF StartCreateVideo, OwedInv, VideoFlush, Joined, inputVars, videoIn,
       cameraVars, ThreadsInv, Starting
  <2>9. UNCHANGED <<ap, m_nExit, tid_audio, videoList, audioList>>
    BY <1>4 DEF StartCreateVideo, contextVars, pointerVars, flagVars, inputVars, videoIn,
       cameraVars, audioIn, sourceVars, audioOut
  <2>10. QED
    BY <2>1, <2>2, <2>3, <2>4, <2>5, <2>6, <2>7, <2>8, <2>9, UnchangedInvs, StepProducers
<1>5. CASE StartCreateAudio
  <2>1. \/ tid_audio' = "live" /\ ae'.pc = "begin"
        \/ tid_audio' = tid_audio /\ ae' = ae
    BY <1>5 DEF StartCreateAudio, AudioThread
  <2>2. ThreadsInv'
    BY <1>5, <2>1 DEF StartCreateAudio, ThreadsInv, Starting, Joined, videoOut
  <2>3. FlagsInv'
    BY <1>5, <2>1 DEF StartCreateAudio, FlagsInv, VideoLoop, VideoFlush, Starting, Joined,
       READY, RUNNING, THREADEXIT, flagVars, videoOut, ThreadsInv
  <2>4. CallsInv'
    BY <1>5, <2>1 DEF StartCreateAudio, CallsInv, Starting, inputVars, videoIn, cameraVars,
       audioIn, sourceVars
  <2>5. AudioCallInv'
    BY <1>5, <2>1 DEF StartCreateAudio, AudioCallInv, flagVars, inputVars, audioIn, sourceVars
  <2>6. MutexInv'
    BY <1>5, <2>1 DEF StartCreateAudio, MutexInv, FreeMutex, inputVars, videoIn, cameraVars,
       audioIn, sourceVars, videoOut, ThreadsInv, Starting, Joined
  <2>7. SessionInv'
    BY <1>5, <2>1 DEF StartCreateAudio, SessionInv, Joined, VideoSessionAlive, contextVars,
       pointerVars, inputVars, videoIn, cameraVars, audioIn
  <2>8. OwedInv'
    BY <1>5, <2>1 DEF StartCreateAudio, OwedInv, VideoFlush, Joined, inputVars, videoIn,
       cameraVars, videoOut, ThreadsInv, Starting
  <2>9. UNCHANGED <<videoList, audioList, ve>>
    BY <1>5 DEF StartCreateAudio, contextVars, pointerVars, flagVars, inputVars, videoIn,
       cameraVars, audioIn, sourceVars, videoOut
  <2>10. QED
    BY <2>1, <2>2, <2>3, <2>4, <2>5, <2>6, <2>7, <2>8, <2>9, UnchangedInvs, StepProducers
<1>6. CASE StopEnter
  <2>1. ThreadsInv'
    BY <1>6 DEF StopEnter, ThreadsInv, Starting, Joined, encoderVars, videoOut, audioOut
  <2>2. FlagsInv'
    BY <1>6 DEF StopEnter, FlagsInv, VideoLoop, VideoFlush, Starting, Joined, READY, RUNNING,
       THREADEXIT, encoderVars, videoOut, audioOut, ThreadsInv, SessionInv
  <2>3. CallsInv'
    BY <1>6 DEF StopEnter, CallsInv, Starting, inputVars, videoIn, cameraVars, audioIn,
       sourceVars
  <2>4. AudioCallInv'
    BY <1>6 DEF StopEnter, AudioCallInv, inputVars, audioIn, sourceVars
  <2>5. MutexInv'
    BY <1>6 DEF StopEnter, MutexInv, FreeMutex, inputVars, videoIn, cameraVars, audioIn,
       sourceVars, encoderVars, videoOut, audioOut
  <2>6. SessionInv'
    BY <1>6 DEF StopEnter, SessionInv, Joined, VideoSessionAlive, contextVars, pointerVars,
       inputVars, videoIn, cameraVars, audioIn
  <2>7. OwedInv'
    BY <1>6 DEF StopEnter, OwedInv, VideoFlush, Joined, inputVars, videoIn, cameraVars,
       encoderVars, videoOut, FlagsInv, ThreadsInv, CameraType, Starting
  <2>8. UNCHANGED <<videoList, audioList, ve>>
    BY <1>6 DEF StopEnter, contextVars, pointerVars, inputVars, videoIn, cameraVars, audioIn,
       sourceVars, encoderVars, videoOut, audioOut
  <2>9. QED
    BY <2>1, <2>2, <2>3, <2>4, <2>5, <2>6, <2>7, <2>8, UnchangedInvs, StepProducers
<1>7. CASE StopJoinAudio
  <2>1. ThreadsInv'
    BY <1>7 DEF StopJoinAudio, ThreadsInv, Starting, Joined, encoderVars, videoOut, audioOut
  <2>2. FlagsInv'
    BY <1>7 DEF StopJoinAudio, FlagsInv, VideoLoop, VideoFlush, Starting, Joined, READY,
       RUNNING, THREADEXIT, flagVars, encoderVars, videoOut, audioOut
  <2>3. CallsInv'
    BY <1>7 DEF StopJoinAudio, CallsInv, Starting, inputVars, videoIn, cameraVars, audioIn,
       sourceVars
  <2>4. AudioCallInv'
    BY <1>7 DEF StopJoinAudio, AudioCallInv, flagVars, inputVars, audioIn, sourceVars, FlagsInv
  <2>5. MutexInv'
    BY <1>7 DEF StopJoinAudio, MutexInv, FreeMutex, inputVars, videoIn, cameraVars, audioIn,
       sourceVars, encoderVars, videoOut, audioOut
  <2>6. SessionInv'
    BY <1>7 DEF StopJoinAudio, SessionInv, Joined, VideoSessionAlive, contextVars, pointerVars,
       inputVars, videoIn, cameraVars, audioIn
  <2>7. OwedInv'
    BY <1>7 DEF StopJoinAudio, OwedInv, VideoFlush, Joined, inputVars, videoIn, cameraVars,
       encoderVars, videoOut
  <2>8. UNCHANGED <<videoList, audioList, ve>>
    BY <1>7 DEF StopJoinAudio, contextVars, pointerVars, flagVars, inputVars, videoIn,
       cameraVars, audioIn, sourceVars, encoderVars, videoOut, audioOut
  <2>9. QED
    BY <2>1, <2>2, <2>3, <2>4, <2>5, <2>6, <2>7, <2>8, UnchangedInvs, StepProducers
<1>8. CASE StopJoinVideo
  <2>1. ThreadsInv'
    BY <1>8 DEF StopJoinVideo, ThreadsInv, Starting, Joined, encoderVars, videoOut, audioOut
  <2>2. FlagsInv'
    BY <1>8 DEF StopJoinVideo, FlagsInv, VideoLoop, VideoFlush, Starting, Joined, READY,
       RUNNING, THREADEXIT, flagVars, encoderVars, videoOut, audioOut
  <2>3. CallsInv'
    BY <1>8 DEF StopJoinVideo, CallsInv, Starting, inputVars, videoIn, cameraVars, audioIn,
       sourceVars
  <2>4. MutexInv'
    BY <1>8 DEF StopJoinVideo, MutexInv, FreeMutex, inputVars, videoIn, cameraVars, audioIn,
       sourceVars, encoderVars, videoOut, audioOut
  <2>5. SessionInv'
    BY <1>8 DEF StopJoinVideo, SessionInv, Joined, VideoSessionAlive, contextVars, pointerVars,
       inputVars, videoIn, cameraVars, audioIn
  <2>6. OwedInv'
    BY <1>8 DEF StopJoinVideo, OwedInv, VideoFlush, Joined, inputVars, videoIn, cameraVars,
       encoderVars, videoOut
  <2>7. UNCHANGED <<ap, m_nExit, tid_audio, videoList, audioList, ve>>
    BY <1>8 DEF StopJoinVideo, contextVars, pointerVars, flagVars, inputVars, videoIn,
       cameraVars, audioIn, sourceVars, encoderVars, videoOut, audioOut
  <2>8. QED
    BY <2>1, <2>2, <2>3, <2>4, <2>5, <2>6, <2>7, UnchangedInvs, StepProducers
<1>9. CASE StopLockTrailer
  <2>1. ThreadsInv'
    BY <1>9 DEF StopLockTrailer, ThreadsInv, Starting, Joined, joinVars, encoderVars, videoOut,
       audioOut
  <2>2. FlagsInv'
    BY <1>9 DEF StopLockTrailer, FlagsInv, VideoLoop, VideoFlush, Starting, Joined, READY,
       RUNNING, THREADEXIT, joinVars, flagVars, encoderVars, videoOut, audioOut
  <2>3. CallsInv'
    BY <1>9 DEF StopLockTrailer, CallsInv, Starting, cameraVars, audioIn, sourceVars
  <2>4. MutexInv'
    BY <1>9, LockKeeps DEF StopLockTrailer, MutexInv, FreeMutex, VideoListType, cameraVars,
       audioIn, sourceVars, encoderVars, videoOut, audioOut
  <2>5. SessionInv'
    BY <1>9, LockKeeps DEF StopLockTrailer, SessionInv, Joined, VideoSessionAlive,
       VideoListType, joinVars, contextVars, pointerVars, cameraVars, audioIn
  <2>6. ListsInv'
    BY <1>9, LockConsistent DEF StopLockTrailer, ListsInv, VideoListType, audioIn
  <2>7. SlotInv'
    BY <1>9, LockKeeps DEF StopLockTrailer, SlotInv, VideoListType, encoderVars, videoOut
  <2>8. OwedInv'
    BY <1>9, LockKeeps DEF StopLockTrailer, OwedInv, VideoFlush, Joined, VideoListType,
       joinVars, cameraVars, encoderVars, videoOut
  <2>9. UNCHANGED <<ap, m_nExit, tid_audio>>
    BY <1>9 DEF StopLockTrailer, joinVars, contextVars, pointerVars, flagVars, cameraVars,
       audioIn, sourceVars, encoderVars, videoOut, audioOut
  <2>10. QED
    BY <2>1, <2>2, <2>3, <2>4, <2>5, <2>6, <2>7, <2>8, <2>9, UnchangedInvs, StepProducers
<1>10. CASE StopTrailer
  <2>1. ThreadsInv'
    BY <1>10 DEF StopTrailer, ThreadsInv, Starting, Joined, joinVars, encoderVars, videoOut,
       audioOut
  <2>2. FlagsInv'
    BY <1>10 DEF StopTrailer, FlagsInv, VideoLoop, VideoFlush, Starting, Joined, READY,
       RUNNING, THREADEXIT, joinVars, flagVars, encoderVars, videoOut, audioOut
  <2>3. CallsInv'
    BY <1>10 DEF StopTrailer, CallsInv, Starting, cameraVars, audioIn, sourceVars
  <2>4. MutexInv'
    BY <1>10, UnlockKeeps DEF StopTrailer, MutexInv, FreeMutex, VideoListType, cameraVars,
       audioIn, sourceVars, encoderVars, videoOut, audioOut
  <2>5. SessionInv'
    BY <1>10, UnlockKeeps DEF StopTrailer, SessionInv, Joined, VideoSessionAlive,
       VideoListType, joinVars, pointerVars, cameraVars, audioIn, ThreadsInv, Starting,
       MutexInv, FreeMutex
  <2>6. ListsInv'
    BY <1>10, UnlockConsistent DEF StopTrailer, ListsInv, VideoListType, audioIn
  <2>7. SlotInv'
    BY <1>10, UnlockKeeps DEF StopTrailer, SlotInv, VideoListType, encoderVars, videoOut
  <2>8. OwedInv'
    BY <1>10, UnlockKeeps DEF StopTrailer, OwedInv, VideoFlush, Joined, VideoListType,
       joinVars, cameraVars, encoderVars, videoOut
  <2>9. UNCHANGED <<ap, m_nExit, tid_audio>>
    BY <1>10 DEF StopTrailer, joinVars, pointerVars, flagVars, cameraVars, audioIn, sourceVars,
       encoderVars, videoOut, audioOut
  <2>10. QED
    BY <2>1, <2>2, <2>3, <2>4, <2>5, <2>6, <2>7, <2>8, <2>9, UnchangedInvs, StepProducers
<1>11. CASE StopCloseAudio
  <2>1. ThreadsInv'
    BY <1>11 DEF StopCloseAudio, ThreadsInv, Starting, Joined, joinVars, encoderVars, videoOut,
       audioOut
  <2>2. FlagsInv'
    BY <1>11 DEF StopCloseAudio, FlagsInv, VideoLoop, VideoFlush, Starting, Joined, READY,
       RUNNING, THREADEXIT, joinVars, flagVars, encoderVars, videoOut, audioOut
  <2>3. CallsInv'
    BY <1>11 DEF StopCloseAudio, CallsInv, Starting, inputVars, videoIn, cameraVars, audioIn,
       sourceVars
  <2>4. MutexInv'
    BY <1>11 DEF StopCloseAudio, MutexInv, FreeMutex, inputVars, videoIn, cameraVars, audioIn,
       sourceVars, encoderVars, videoOut, audioOut
  <2>5. SessionInv'
    BY <1>11 DEF StopCloseAudio, SessionInv, Joined, VideoSessionAlive, joinVars, inputVars,
       videoIn, cameraVars, audioIn
  <2>6. OwedInv'
    BY <1>11 DEF StopCloseAudio, OwedInv, VideoFlush, Joined, joinVars, inputVars, videoIn,
       cameraVars, encoderVars, videoOut
  <2>7. UNCHANGED <<ap, m_nExit, tid_audio, videoList, audioList, ve>>
    BY <1>11 DEF StopCloseAudio, joinVars, flagVars, inputVars, videoIn, cameraVars, audioIn,
       sourceVars, encoderVars, videoOut, audioOut
  <2>8. QED
    BY <2>1, <2>2, <2>3, <2>4, <2>5, <2>6, <2>7, UnchangedInvs, StepProducers
<1>12. CASE StopFreeStreams
  <2>1. ThreadsInv'
    BY <1>12 DEF StopFreeStreams, ThreadsInv, Starting, Joined, joinVars, encoderVars,
       videoOut, audioOut
  <2>2. FlagsInv'
    BY <1>12 DEF StopFreeStreams, FlagsInv, VideoLoop, VideoFlush, Starting, Joined, READY,
       RUNNING, THREADEXIT, joinVars, flagVars, encoderVars, videoOut, audioOut
  <2>3. CallsInv'
    BY <1>12 DEF StopFreeStreams, CallsInv, Starting, cameraVars, audioIn, sourceVars
  <2>4. MutexInv'
    BY <1>12, LockKeeps DEF StopFreeStreams, MutexInv, FreeMutex, VideoListType, cameraVars,
       audioIn, sourceVars, encoderVars, videoOut, audioOut
  <2>5. SessionInv'
    BY <1>12, LockKeeps DEF StopFreeStreams, SessionInv, Joined, VideoSessionAlive,
       VideoListType, joinVars, cameraVars, audioIn, ThreadsInv, Starting, MutexInv, FreeMutex
  <2>6. ListsInv'
    BY <1>12, LockConsistent DEF StopFreeStreams, ListsInv, VideoListType, audioIn
  <2>7. SlotInv'
    BY <1>12, LockKeeps DEF StopFreeStreams, SlotInv, VideoListType, encoderVars, videoOut
  <2>8. OwedInv'
    BY <1>12, LockKeeps DEF StopFreeStreams, OwedInv, VideoFlush, Joined, VideoListType,
       joinVars, cameraVars, encoderVars, videoOut
  <2>9. UNCHANGED <<ap, m_nExit, tid_audio>>
    BY <1>12 DEF StopFreeStreams, joinVars, flagVars, cameraVars, audioIn, sourceVars,
       encoderVars, videoOut, audioOut
  <2>10. QED
    BY <2>1, <2>2, <2>3, <2>4, <2>5, <2>6, <2>7, <2>8, <2>9, UnchangedInvs, StepProducers
<1>13. CASE StopFreeContext
  <2>1. /\ videoList'.mutex = FreeMutex
        /\ videoList'.size = videoList.size
        /\ videoList'.readpos = videoList.readpos
    BY <1>13, ListFreeType, ListFreeKeeps, UnlockKeeps DEF StopFreeContext, VideoListType
  <2>2. /\ audioList'.mutex = audioList.mutex
        /\ audioList'.size = audioList.size
    BY <1>13, ListFreeKeeps DEF StopFreeContext, AudioListType
  <2>3. ThreadsInv'
    BY <1>13, <2>1, <2>2 DEF StopFreeContext, ThreadsInv, Starting, Joined, joinVars,
       encoderVars, videoOut, audioOut
  <2>4. FlagsInv'
    BY <1>13, <2>1, <2>2 DEF StopFreeContext, FlagsInv, VideoLoop, VideoFlush, Starting,
       Joined, READY, RUNNING, THREADEXIT, joinVars, flagVars, encoderVars, videoOut, audioOut
  <2>5. CallsInv'
    BY <1>13, <2>1, <2>2 DEF StopFreeContext, CallsInv, Starting, cameraVars, sourceVars
  <2>6. MutexInv'
    BY <1>13, <2>1, <2>2 DEF StopFreeContext, MutexInv, FreeMutex, cameraVars, sourceVars,
       encoderVars, videoOut, audioOut
  <2>7. SessionInv'
    BY <1>13, <2>1, <2>2 DEF StopFreeContext, SessionInv, Joined, VideoSessionAlive, joinVars,
       cameraVars
  <2>8. ListsInv'
    BY <1>13, UnlockConsistent, ListFreeConsistent, ListFreeType DEF StopFreeContext, ListsInv,
       VideoListType, AudioListType
  <2>9. SlotInv'
    BY <1>13, <2>1, <2>2 DEF StopFreeContext, SlotInv, encoderVars, videoOut
  <2>10. OwedInv'
    BY <1>13, <2>1, <2>2 DEF StopFreeContext, OwedInv, VideoFlush, Joined, joinVars,
       cameraVars, encoderVars, videoOut
  <2>11. UNCHANGED <<ap, m_nExit, tid_audio>>
    BY <1>13 DEF StopFreeContext, joinVars, flagVars, cameraVars, sourceVars, encoderVars,
       videoOut, audioOut
  <2>12. QED
    BY <2>1, <2>2, <2>3, <2>4, <2>5, <2>6, <2>7, <2>8, <2>9, <2>10, <2>11, UnchangedInvs,
       StepProducers
<1>14. CASE VideoCall
  <2>1. CallsInv'
    BY <1>14 DEF VideoCall, CallsInv, Starting, CameraType, sessionVars, audioIn, sourceVars,
       FlagsInv, ThreadsInv, VideoLoop, RUNNING
  <2>2. MutexInv'
    BY <1>14 DEF VideoCall, MutexInv, FreeMutex, CameraType, sessionVars, audioIn, sourceVars,
       encoderVars, videoOut, audioOut
  <2>3. SessionInv'
    BY <1>14 DEF VideoCall, SessionInv, Joined, VideoSessionAlive, CameraType, sessionVars,
       joinVars, contextVars, pointerVars, audioIn, FlagsInv, ThreadsInv, VideoLoop, RUNNING
  <2>4. UNCHANGED <<ctl, tid_video, tid_audio, ve, ae, m_state_video, m_state_audio, m_nExit,
     ap, videoList, audioList, accepted, owed>>
    BY <1>14 DEF VideoCall, sessionVars, joinVars, contextVars, pointerVars, flagVars, audioIn,
       sourceVars, encoderVars, videoOut, audioOut
  <2>5. QED
    BY <2>1, <2>2, <2>3, <2>4, UnchangedInvs, StepProducers
<1>15. CASE VideoRefused
  <2>1. CallsInv'
    BY <1>15 DEF VideoRefused, CallsInv, Starting, CameraType, VideoIdle, sessionVars, audioIn,
       sourceVars
  <2>2. MutexInv'
    BY <1>15 DEF VideoRefused, MutexInv, FreeMutex, CameraType, VideoIdle, sessionVars,
       audioIn, sourceVars, encoderVars, videoOut, audioOut
  <2>3. SessionInv'
    BY <1>15 DEF VideoRefused, SessionInv, Joined, VideoSessionAlive, CameraType, VideoIdle,
       sessionVars, joinVars, contextVars, pointerVars, audioIn
  <2>4. UNCHANGED <<ctl, tid_video, tid_audio, ve, ae, m_state_video, m_state_audio, m_nExit,
     ap, videoList, audioList, accepted, owed>>
    BY <1>15 DEF VideoRefused, sessionVars, joinVars, contextVars, pointerVars, flagVars,
       audioIn, sourceVars, encoderVars, videoOut, audioOut
  <2>5. QED
    BY <2>1, <2>2, <2>3, <2>4, UnchangedInvs, StepProducers
<1>16. CASE VideoEnter
  <2>1. (\A s : [vp EXCEPT !.pc = "fill", !.stamp = s].pc = "fill") /\ VideoIdle.pc = "idle"
    BY Zenon DEF CameraType, VideoIdle
  <2>2. \/ vp'.pc = "idle" /\ videoList' = videoList
        \/ vp'.pc = "fill" /\ videoList' = Lock(videoList, "vp")
    BY <1>16, <2>1 DEF VideoEnter
  <2>3. /\ videoList'.readpos = videoList.readpos
        /\ videoList'.size = videoList.size
        /\ videoList'.allocated = videoList.allocated
    BY <2>2, LockKeeps DEF VideoListType
  <2>4. vp'.pc = "fill" => videoList'.mutex = "vp"
    BY <2>2, LockKeeps DEF VideoListType
  <2>5. CallsInv'
    BY <1>16, <2>1, <2>2, <2>3, <2>4 DEF VideoEnter, CallsInv, Starting, sessionVars, audioIn,
       sourceVars
  <2>6. MutexInv'
    BY <1>16, <2>1, <2>2, <2>3, <2>4 DEF VideoEnter, MutexInv, FreeMutex, sessionVars, audioIn,
       sourceVars, encoderVars, videoOut, audioOut
  <2>7. SessionInv'
    BY <1>16, <2>1, <2>2, <2>3, <2>4 DEF VideoEnter, SessionInv, Joined, VideoSessionAlive,
       sessionVars, joinVars, contextVars, pointerVars, audioIn, VideoReady
  <2>8. ListsInv'
    BY <1>16, LockConsistent DEF VideoEnter, ListsInv, VideoListType, VideoIdle, audioIn
  <2>9. SlotInv'
    BY <1>16, <2>1, <2>2, <2>3, <2>4 DEF VideoEnter, SlotInv, encoderVars, videoOut
  <2>10. OwedInv'
    BY <1>16, <2>1, <2>2, <2>3, <2>4 DEF VideoEnter, OwedInv, VideoFlush, Joined, sessionVars,
       joinVars, encoderVars, videoOut
  <2>11. UNCHANGED <<ctl, tid_video, tid_audio, ve, ae, m_state_video, m_state_audio, m_nExit,
     ap>>
    BY <1>16 DEF VideoEnter, sessionVars, joinVars, contextVars, pointerVars, flagVars,
       audioIn, sourceVars, encoderVars, videoOut, audioOut
  <2>12. QED
    BY <2>1, <2>2, <2>3, <2>4, <2>5, <2>6, <2>7, <2>8, <2>9, <2>10, <2>11, UnchangedInvs,
       StepProducers
<1>17. CASE VideoFill
  <2>1. vp.stamp \in Nat /\ videoList.size < VIDEOFRAMEBUFSIZE
    BY <1>17 DEF VideoFill, ProducersInv, CameraType
  <2>2. Put(videoList, VIDEOFRAMEBUFSIZE, vp.stamp)
          \in ListOf(VIDEOFRAMEBUFSIZE, Nat, {"vp", "ctl"})
    BY <2>1, PutType DEF VideoListType
  <2>3. /\ Put(videoList, VIDEOFRAMEBUFSIZE, vp.stamp).readpos = videoList.readpos
        /\ Put(videoList, VIDEOFRAMEBUFSIZE, vp.stamp).size = videoList.size + 1
        /\ Put(videoList, VIDEOFRAMEBUFSIZE, vp.stamp).allocated = videoList.allocated
    BY PutKeeps DEF VideoListType
  <2>4. IF videoList.allocated
          THEN /\ videoList' = Unlock(Put(videoList, VIDEOFRAMEBUFSIZE, vp.stamp))
               /\ accepted' = Append(accepted, vp.stamp)
          ELSE videoList' = Unlock(videoList) /\ accepted' = accepted
    BY <1>17 DEF VideoFill
  <2>5. /\ videoList'.mutex = FreeMutex
        /\ videoList'.readpos = videoList.readpos
        /\ videoList'.allocated = videoList.allocated
    BY <2>2, <2>3, <2>4, UnlockKeeps DEF VideoListType
  <2>6. videoList'.size = IF videoList.allocated THEN videoList.size + 1 ELSE videoList.size
    BY <2>2, <2>3, <2>4, UnlockKeeps DEF VideoListType
  <2>7. vp'.pc = "idle"
    BY <1>17 DEF VideoFill, VideoIdle
  <2>8. CallsInv'
    BY <1>17, <2>1, <2>2, <2>3, <2>4, <2>5, <2>6, <2>7 DEF VideoFill, CallsInv, Starting,
       sessionVars, audioIn, sourceVars
  <2>9. MutexInv'
    BY <1>17, <2>1, <2>2, <2>3, <2>4, <2>5, <2>6, <2>7 DEF VideoFill, MutexInv, FreeMutex,
       sessionVars, audioIn, sourceVars, encoderVars, videoOut, audioOut
  <2>10. SessionInv'
    BY <1>17, <2>1, <2>2, <2>3, <2>4, <2>5, <2>6, <2>7 DEF VideoFill, SessionInv, Joined,
       VideoSessionAlive, sessionVars, joinVars, contextVars, pointerVars, audioIn
  <2>11. ListsInv'
    <3>1. Consistent(videoList, VIDEOFRAMEBUFSIZE) /\ Consistent(audioList, AUDIOFRAMEBUFSIZE)
      BY DEF ListsInv
    <3>2. Consistent(Put(videoList, VIDEOFRAMEBUFSIZE, vp.stamp), VIDEOFRAMEBUFSIZE)
      BY <2>1, <3>1, PutConsistent DEF VideoListType
    <3>3. Consistent(videoList', VIDEOFRAMEBUFSIZE)
      BY <2>2, <2>4, <3>1, <3>2, UnlockConsistent DEF VideoListType
    <3>4. audioList' = audioList
      BY <1>17 DEF VideoFill, audioIn
    <3>5. QED
      BY <3>1, <3>3, <3>4 DEF ListsInv
  <2>12. SlotInv'
    BY <1>17, <2>1, <2>2, <2>3, <2>4, <2>5, <2>6, <2>7 DEF VideoFill, SlotInv, encoderVars,
       videoOut
  <2>13. OwedInv'
    <3>1. /\ Len(accepted) \in Nat /\ owed \in Nat /\ videoList.size \in Nat
          /\ Len(Append(accepted, vp.stamp)) = Len(accepted) + 1
      BY <2>1 DEF CameraType, ControlType, VideoListType, ListOf
    <3>2. UNCHANGED <<ve, tid_video, ctl, owed>>
      BY <1>17 DEF VideoFill, sessionVars, joinVars, encoderVars, videoOut
    <3>3. QED
      BY <2>4, <2>6, <3>1, <3>2 DEF OwedInv, VideoFlush, Joined
  <2>14. UNCHANGED <<ctl, tid_video, tid_audio, ve, ae, m_state_video, m_state_audio, m_nExit,
     ap>>
    BY <1>17 DEF VideoFill, sessionVars, joinVars, contextVars, pointerVars, flagVars, audioIn,
       sourceVars, encoderVars, videoOut, audioOut
  <2>15. QED
    BY <2>1, <2>2, <2>3, <2>4, <2>5, <2>6, <2>7, <2>8, <2>9, <2>10, <2>11, <2>12, <2>13, <2>14,
       UnchangedInvs, StepProducers
<1>18. CASE AudioCall
  <2>1. CallsInv'
    BY <1>18 DEF AudioCall, CallsInv, Starting, SourceType, sessionVars, videoIn, cameraVars,
       FlagsInv, ThreadsInv, RUNNING
  <2>2. AudioCallInv'
    BY <1>18 DEF AudioCall, AudioCallInv, SourceType, sessionVars, joinVars, flagVars,
       FlagsInv, ThreadsInv, RUNNING
  <2>3. MutexInv'
    BY <1>18 DEF AudioCall, MutexInv, FreeMutex, SourceType, sessionVars, videoIn, cameraVars,
       encoderVars, videoOut, audioOut
  <2>4. UNCHANGED <<ctl, tid_video, tid_audio, ve, ae, m_state_video, m_state_audio, m_nExit,
     m_pOutContext, m_video_outbuf, m_video_stream, m_audio_stream, file, videoList, audioList,
     vp, accepted, owed>>
    BY <1>18 DEF AudioCall, sessionVars, joinVars, contextVars, pointerVars, flagVars, videoIn,
       cameraVars, encoderVars, videoOut, audioOut
  <2>5. QED
    BY <2>1, <2>2, <2>3, <2>4, UnchangedInvs, StepProducers
<1>19. CASE AudioRefused
  <2>1. CallsInv'
    BY <1>19 DEF AudioRefused, CallsInv, Starting, SourceType, AudioIdle, sessionVars, videoIn,
       cameraVars
  <2>2. AudioCallInv'
    BY <1>19 DEF AudioRefused, AudioCallInv, SourceType, AudioIdle, sessionVars, joinVars,
       flagVars
  <2>3. MutexInv'
    BY <1>19 DEF AudioRefused, MutexInv, FreeMutex, SourceType, AudioIdle, sessionVars,
       videoIn, cameraVars, encoderVars, videoOut, audioOut
  <2>4. UNCHANGED <<ctl, tid_video, tid_audio, ve, ae, m_state_video, m_state_audio, m_nExit,
     m_pOutContext, m_video_outbuf, m_video_stream, m_audio_stream, file, videoList, audioList,
     vp, accepted, owed>>
    BY <1>19 DEF AudioRefused, sessionVars, joinVars, contextVars, pointerVars, flagVars,
       videoIn, cameraVars, encoderVars, videoOut, audioOut
  <2>5. QED
    BY <2>1, <2>2, <2>3, <2>4, UnchangedInvs, StepProducers
<1>20. CASE AudioEnter
  <2>1. CallsInv'
    BY <1>20 DEF AudioEnter, CallsInv, Starting, SourceType, sessionVars, videoIn, cameraVars
  <2>2. AudioCallInv'
    BY <1>20 DEF AudioEnter, AudioCallInv, SourceType, sessionVars, joinVars, flagVars
  <2>3. MutexInv'
    BY <1>20, LockKeeps DEF AudioEnter, MutexInv, FreeMutex, SourceType, AudioListType,
       sessionVars, videoIn, cameraVars, encoderVars, videoOut, audioOut
  <2>4. SessionInv'
    BY <1>20, LockKeeps DEF AudioEnter, SessionInv, Joined, VideoSessionAlive, AudioListType,
       sessionVars, joinVars, contextVars, pointerVars, videoIn, cameraVars
  <2>5. ListsInv'
    BY <1>20, LockConsistent DEF AudioEnter, ListsInv, AudioListType, videoIn
  <2>6. UNCHANGED <<ctl, tid_video, tid_audio, ve, ae, m_state_video, m_state_audio, m_nExit,
     videoList, accepted, owed>>
    BY <1>20 DEF AudioEnter, sessionVars, joinVars, contextVars, pointerVars, flagVars,
       videoIn, cameraVars, encoderVars, videoOut, audioOut
  <2>7. QED
    BY <2>1, <2>2, <2>3, <2>4, <2>5, <2>6, UnchangedInvs, StepProducers
<1>21. CASE AudioCopy
  <2>1. /\ [pts |-> ap.stamp, len |-> ap.len] \in [pts : Nat, len : Nat]
        /\ audioList.size < AUDIOFRAMEBUFSIZE
    BY <1>21 DEF AudioCopy, ProducersInv, SourceType
  <2>2. Put(audioList, AUDIOFRAMEBUFSIZE, [pts |-> ap.stamp, len |-> ap.len])
          \in ListOf(AUDIOFRAMEBUFSIZE, [pts : Nat, len : Nat], {"ap"})
    BY <2>1, PutType DEF AudioListType
  <2>3. Put(audioList, AUDIOFRAMEBUFSIZE, [pts |-> ap.stamp, len |-> ap.len]).allocated =
     audioList.allocated
    BY PutKeeps DEF AudioListType
  <2>4. \/ audioList' = Unlock(Put(audioList, AUDIOFRAMEBUFSIZE, [pts |-> ap.stamp, len |-> ap.len]))
        \/ audioList' = Unlock(audioList)
    BY <1>21 DEF AudioCopy
  <2>5. /\ audioList'.mutex = FreeMutex
        /\ audioList'.allocated = audioList.allocated
    BY <2>2, <2>3, <2>4, UnlockKeeps DEF AudioListType
  <2>6. ap'.pc = "idle"
    BY <1>21 DEF AudioCopy, AudioIdle
  <2>7. CallsInv'
    BY <1>21, <2>1, <2>2, <2>3, <2>4, <2>5, <2>6 DEF AudioCopy, CallsInv, Starting,
       sessionVars, videoIn, cameraVars
  <2>8. AudioCallInv'
    BY <1>21, <2>1, <2>2, <2>3, <2>4, <2>5, <2>6 DEF AudioCopy, AudioCallInv, sessionVars,
       joinVars, flagVars
  <2>9. MutexInv'
    BY <1>21, <2>1, <2>2, <2>3, <2>4, <2>5, <2>6 DEF AudioCopy, MutexInv, FreeMutex,
       sessionVars, videoIn, cameraVars, encoderVars, videoOut, audioOut
  <2>10. SessionInv'
    BY <1>21, <2>1, <2>2, <2>3, <2>4, <2>5, <2>6 DEF AudioCopy, SessionInv, Joined,
       VideoSessionAlive, sessionVars, joinVars, contextVars, pointerVars, videoIn, cameraVars
  <2>11. ListsInv'
    <3>1. Consistent(videoList, VIDEOFRAMEBUFSIZE) /\ Consistent(audioList, AUDIOFRAMEBUFSIZE)
      BY DEF ListsInv
    <3>2. Consistent(Put(audioList, AUDIOFRAMEBUFSIZE, [pts |-> ap.stamp, len |-> ap.len]),
                     AUDIOFRAMEBUFSIZE)
      BY <2>1, <3>1, PutConsistent DEF AudioListType
    <3>3. Consistent(audioList', AUDIOFRAMEBUFSIZE)
      BY <2>2, <2>4, <3>1, <3>2, UnlockConsistent DEF AudioListType
    <3>4. videoList' = videoList
      BY <1>21 DEF AudioCopy, videoIn
    <3>5. QED
      BY <3>1, <3>3, <3>4 DEF ListsInv
  <2>12. UNCHANGED <<ctl, tid_video, tid_audio, ve, ae, m_state_video, m_state_audio, m_nExit,
     videoList, accepted, owed>>
    BY <1>21 DEF AudioCopy, sessionVars, joinVars, contextVars, pointerVars, flagVars, videoIn,
       cameraVars, encoderVars, videoOut, audioOut
  <2>13. QED
    BY <2>1, <2>2, <2>3, <2>4, <2>5, <2>6, <2>7, <2>8, <2>9, <2>10, <2>11, <2>12,
       UnchangedInvs, StepProducers
<1>22. CASE VeBegin
  <2>1. ThreadsInv'
    BY <1>22 DEF VeBegin, ThreadsInv, Starting, Joined, VideoOutType, sessionVars, joinVars,
       audioOut
  <2>2. FlagsInv'
    BY <1>22 DEF VeBegin, FlagsInv, VideoLoop, VideoFlush, Starting, Joined, READY, RUNNING,
       THREADEXIT, VideoOutType, sessionVars, joinVars, audioOut, ThreadsInv, SessionInv,
       VideoReady
  <2>3. MutexInv'
    BY <1>22 DEF VeBegin, MutexInv, FreeMutex, VideoOutType, sessionVars, inputVars, videoIn,
       cameraVars, audioIn, sourceVars, audioOut
  <2>4. SlotInv'
    BY <1>22 DEF VeBegin, SlotInv, VideoOutType, inputVars, videoIn
  <2>5. OwedInv'
    BY <1>22 DEF VeBegin, OwedInv, VideoFlush, Joined, VideoOutType, sessionVars, joinVars,
       inputVars, videoIn, cameraVars, ThreadsInv, SessionInv, VideoReady
  <2>6. UNCHANGED <<ctl, vp, ap, m_nExit, tid_audio, tid_video, m_pOutContext, m_video_outbuf,
     m_video_stream, m_audio_stream, file, videoList, audioList>>
    BY <1>22 DEF VeBegin, sessionVars, joinVars, contextVars, pointerVars, inputVars, videoIn,
       cameraVars, audioIn, sourceVars, audioOut
  <2>7. QED
    BY <2>1, <2>2, <2>3, <2>4, <2>5, <2>6, UnchangedInvs, StepProducers
<1>23. CASE VeDequeue
  <2>1. /\ ve'.pc = "encode"
        /\ ve'.slot = videoList.readpos
    BY <1>23 DEF VeDequeue, VideoOutType
  <2>2. /\ videoList' = Take(videoList, VIDEOFRAMEBUFSIZE)
        /\ videoList.mutex = FreeMutex
        /\ videoList.size > 0
    BY <1>23 DEF VeDequeue
  <2>3. /\ videoList'.mutex = FreeMutex
        /\ videoList'.size = videoList.size - 1
        /\ videoList'.readpos = NextPos(videoList.readpos, VIDEOFRAMEBUFSIZE)
        /\ videoList'.allocated = videoList.allocated
    BY <2>2, TakeKeeps DEF VideoListType
  <2>4. ThreadsInv'
    BY <1>23, <2>1, <2>2, <2>3 DEF VeDequeue, ThreadsInv, Starting, Joined, sessionVars,
       joinVars, audioOut
  <2>5. FlagsInv'
    BY <1>23, <2>1, <2>2, <2>3 DEF VeDequeue, FlagsInv, VideoLoop, VideoFlush, Starting,
       Joined, READY, RUNNING, THREADEXIT, sessionVars, joinVars, flagVars, audioOut
  <2>6. MutexInv'
    BY <1>23, <2>1, <2>2, <2>3 DEF VeDequeue, MutexInv, FreeMutex, sessionVars, cameraVars,
       audioIn, sourceVars, audioOut
  <2>7. SessionInv'
    BY <1>23, <2>1, <2>2, <2>3 DEF VeDequeue, SessionInv, Joined, VideoSessionAlive,
       sessionVars, joinVars, contextVars, pointerVars, cameraVars, audioIn
  <2>8. ListsInv'
    BY <1>23, TakeConsistent DEF VeDequeue, ListsInv, VideoListType, audioIn
  <2>9. SlotInv'
    BY <1>23, <2>1, <2>2, <2>3 DEF VeDequeue, SlotInv
  <2>10. OwedInv'
    BY <1>23, <2>1, <2>2, <2>3 DEF VeDequeue, OwedInv, VideoFlush, Joined, sessionVars,
       joinVars, cameraVars, CameraType, ControlType, ListOf, ThreadsInv
  <2>11. UNCHANGED <<ctl, vp, ap, m_nExit, tid_audio>>
    BY <1>23 DEF VeDequeue, sessionVars, joinVars, contextVars, pointerVars, flagVars,
       cameraVars, audioIn, sourceVars, audioOut
  <2>12. QED
    BY <2>1, <2>2, <2>3, <2>4, <2>5, <2>6, <2>7, <2>8, <2>9, <2>10, <2>11, UnchangedInvs,
       StepProducers
<1>24. CASE VeEncode
  <2>1. ThreadsInv'
    BY <1>24 DEF VeEncode, ThreadsInv, Starting, Joined, VideoOutType, Encoded, sessionVars,
       joinVars, audioOut
  <2>2. FlagsInv'
    BY ZenonT(60), <1>24 DEF VeEncode, FlagsInv, VideoLoop, VideoFlush, Starting, Joined, READY, RUNNING,
       THREADEXIT, VideoOutType, Encoded, sessionVars, joinVars, flagVars, audioOut
  <2>3. MutexInv'
    BY <1>24 DEF VeEncode, MutexInv, FreeMutex, VideoOutType, Encoded, sessionVars, inputVars,
       videoIn, cameraVars, audioIn, sourceVars, audioOut
  <2>4. SlotInv'
    BY <1>24 DEF VeEncode, SlotInv, VideoOutType, Encoded, inputVars, videoIn
  <2>5. OwedInv'
    <3>1. /\ ve.pc = "encode" /\ ve'.pc \in {"write", "loop"}
          /\ ve'.pc = "write" => ve'.back = "loop"
      BY <1>24 DEF VeEncode, VideoOutType, Encoded
    <3>2. UNCHANGED <<sessionVars, inputVars>>
      BY <1>24 DEF VeEncode
    <3>3. QED
      BY <3>1, <3>2 DEF OwedInv, VideoFlush, Joined, sessionVars, joinVars, inputVars, videoIn,
         cameraVars
  <2>6. UNCHANGED <<ctl, vp, ap, m_nExit, tid_audio, tid_video, m_pOutContext, m_video_outbuf,
     m_video_stream, m_audio_stream, file, videoList, audioList>>
    BY <1>24 DEF VeEncode, sessionVars, joinVars, contextVars, pointerVars, flagVars,
       inputVars, videoIn, cameraVars, audioIn, sourceVars, audioOut
  <2>7. QED
    BY <2>1, <2>2, <2>3, <2>4, <2>5, <2>6, UnchangedInvs, StepProducers
<1>25. CASE VeLockWriter
  <2>1. ThreadsInv'
    BY <1>25 DEF VeLockWriter, ThreadsInv, Starting, Joined, VideoOutType, sessionVars,
       joinVars, audioOut
  <2>2. FlagsInv'
    BY <1>25 DEF VeLockWriter, FlagsInv, VideoLoop, VideoFlush, Starting, Joined, READY,
       RUNNING, THREADEXIT, VideoOutType, sessionVars, joinVars, flagVars, audioOut
  <2>3. MutexInv'
    BY <1>25 DEF VeLockWriter, MutexInv, FreeMutex, VideoOutType, sessionVars, inputVars,
       videoIn, cameraVars, audioIn, sourceVars, audioOut
  <2>4. SlotInv'
    BY <1>25 DEF VeLockWriter, SlotInv, VideoOutType, inputVars, videoIn
  <2>5. OwedInv'
    BY <1>25 DEF VeLockWriter, OwedInv, VideoFlush, Joined, VideoOutType, sessionVars,
       joinVars, inputVars, videoIn, cameraVars
  <2>6. UNCHANGED <<ctl, vp, ap, m_nExit, tid_audio, tid_video, m_pOutContext, m_video_outbuf,
     m_video_stream, m_audio_stream, file, videoList, audioList>>
    BY <1>25 DEF VeLockWriter, sessionVars, joinVars, contextVars, pointerVars, flagVars,
       inputVars, videoIn, cameraVars, audioIn, sourceVars, audioOut
  <2>7. QED
    BY <2>1, <2>2, <2>3, <2>4, <2>5, <2>6, UnchangedInvs, StepProducers
<1>26. CASE VeWrite
  <2>1. ThreadsInv'
    BY <1>26 DEF VeWrite, ThreadsInv, Starting, Joined, VideoOutType, sessionVars, joinVars,
       audioOut
  <2>2. FlagsInv'
    BY <1>26 DEF VeWrite, FlagsInv, VideoLoop, VideoFlush, Starting, Joined, READY, RUNNING,
       THREADEXIT, VideoOutType, sessionVars, joinVars, flagVars, audioOut
  <2>3. MutexInv'
    BY <1>26 DEF VeWrite, MutexInv, FreeMutex, VideoOutType, sessionVars, inputVars, videoIn,
       cameraVars, audioIn, sourceVars, audioOut
  <2>4. SlotInv'
    BY <1>26 DEF VeWrite, SlotInv, VideoOutType, inputVars, videoIn
  <2>5. OwedInv'
    BY <1>26 DEF VeWrite, OwedInv, VideoFlush, Joined, VideoOutType, sessionVars, joinVars,
       inputVars, videoIn, cameraVars
  <2>6. UNCHANGED <<ctl, vp, ap, m_nExit, tid_audio, tid_video, m_pOutContext, m_video_outbuf,
     m_video_stream, m_audio_stream, file, videoList, audioList>>
    BY <1>26 DEF VeWrite, sessionVars, joinVars, contextVars, pointerVars, flagVars, inputVars,
       videoIn, cameraVars, audioIn, sourceVars, audioOut
  <2>7. QED
    BY <2>1, <2>2, <2>3, <2>4, <2>5, <2>6, UnchangedInvs, StepProducers
<1>27. CASE VeLeave
  <2>1. ThreadsInv'
    BY <1>27 DEF VeLeave, ThreadsInv, Starting, Joined, VideoOutType, sessionVars, joinVars,
       audioOut
  <2>2. FlagsInv'
    BY <1>27 DEF VeLeave, FlagsInv, VideoLoop, VideoFlush, Starting, Joined, READY, RUNNING,
       THREADEXIT, VideoOutType, sessionVars, joinVars, flagVars, audioOut, ThreadsInv
  <2>3. MutexInv'
    BY <1>27 DEF VeLeave, MutexInv, FreeMutex, VideoOutType, sessionVars, inputVars, videoIn,
       cameraVars, audioIn, sourceVars, audioOut
  <2>4. SlotInv'
    BY <1>27 DEF VeLeave, SlotInv, VideoOutType, inputVars, videoIn
  <2>5. OwedInv'
    <3>1. Len(accepted) \in Nat /\ owed \in Nat /\ videoList.size \in Nat
      BY DEF CameraType, ControlType, VideoListType, ListOf
    <3>2. videoList.size <= 0 /\ UNCHANGED <<videoList, accepted, owed>>
      BY <1>27 DEF VeLeave, sessionVars, joinVars, inputVars, videoIn, cameraVars
    <3>3. QED
      BY <3>1, <3>2 DEF OwedInv
  <2>6. UNCHANGED <<ctl, vp, ap, m_nExit, tid_audio, tid_video, m_pOutContext, m_video_outbuf,
     m_video_stream, m_audio_stream, file, videoList, audioList>>
    BY <1>27 DEF VeLeave, sessionVars, joinVars, contextVars, pointerVars, flagVars, inputVars,
       videoIn, cameraVars, audioIn, sourceVars, audioOut
  <2>7. QED
    BY <2>1, <2>2, <2>3, <2>4, <2>5, <2>6, UnchangedInvs, StepProducers
<1>27b. CASE VeExit
  <2>1. ThreadsInv'
    BY <1>27b DEF VeExit, ThreadsInv, Starting, Joined, VideoOutType, sessionVars, joinVars,
       audioOut
  <2>2. FlagsInv'
    BY <1>27b DEF VeExit, FlagsInv, VideoLoop, VideoFlush, Starting, Joined, READY, RUNNING,
       THREADEXIT, VideoOutType, sessionVars, joinVars, audioOut, ThreadsInv
  <2>3. MutexInv'
    BY <1>27b DEF VeExit, MutexInv, FreeMutex, VideoOutType, sessionVars, inputVars, videoIn,
       cameraVars, audioIn, sourceVars, audioOut
  <2>4. SlotInv'
    BY <1>27b DEF VeExit, SlotInv, VideoOutType, inputVars, videoIn
  <2>5. OwedInv'
    BY <1>27b DEF VeExit, OwedInv, VideoFlush, Joined, VideoOutType, sessionVars, joinVars,
       inputVars, videoIn, cameraVars
  <2>6. UNCHANGED <<ctl, vp, ap, m_nExit, tid_audio, tid_video, m_pOutContext, m_video_outbuf,
     m_video_stream, m_audio_stream, file, videoList, audioList>>
    BY <1>27b DEF VeExit, sessionVars, joinVars, contextVars, pointerVars, inputVars, videoIn,
       cameraVars, audioIn, sourceVars, audioOut
  <2>7. QED
    BY <2>1, <2>2, <2>3, <2>4, <2>5, <2>6, UnchangedInvs, StepProducers
<1>28. CASE VeFlush
  <2>1. ThreadsInv'
    BY ZenonT(60), <1>28 DEF VeFlush, ThreadsInv, Starting, Joined, VideoOutType, Encoded, sessionVars,
       joinVars, audioOut
  <2>2. FlagsInv'
    BY <1>28 DEF VeFlush, FlagsInv, VideoLoop, VideoFlush, Starting, Joined, READY, RUNNING,
       THREADEXIT, VideoOutType, Encoded, sessionVars, joinVars, flagVars, audioOut
  <2>3. MutexInv'
    BY ZenonT(60), <1>28 DEF VeFlush, MutexInv, FreeMutex, VideoOutType, Encoded, sessionVars, inputVars,
       videoIn, cameraVars, audioIn, sourceVars, audioOut
  <2>4. SlotInv'
    BY <1>28 DEF VeFlush, SlotInv, VideoOutType, Encoded, inputVars, videoIn
  <2>5. OwedInv'
    BY <1>28 DEF VeFlush, OwedInv, VideoFlush, Joined, VideoOutType, Encoded, sessionVars,
       joinVars, inputVars, videoIn, cameraVars
  <2>6. UNCHANGED <<ctl, vp, ap, m_nExit, tid_audio, tid_video, m_pOutContext, m_video_outbuf,
     m_video_stream, m_audio_stream, file, videoList, audioList>>
    BY <1>28 DEF VeFlush, sessionVars, joinVars, contextVars, pointerVars, flagVars, inputVars,
       videoIn, cameraVars, audioIn, sourceVars, audioOut
  <2>7. QED
    BY <2>1, <2>2, <2>3, <2>4, <2>5, <2>6, UnchangedInvs, StepProducers
<1>29. CASE VeEnd
  <2>1. ThreadsInv'
    BY <1>29 DEF VeEnd, ThreadsInv, Starting, Joined, VideoOutType, sessionVars, joinVars,
       audioOut
  <2>2. FlagsInv'
    BY <1>29 DEF VeEnd, FlagsInv, VideoLoop, VideoFlush, Starting, Joined, READY, RUNNING,
       THREADEXIT, VideoOutType, sessionVars, joinVars, flagVars, audioOut
  <2>3. MutexInv'
    BY <1>29 DEF VeEnd, MutexInv, FreeMutex, VideoOutType, sessionVars, inputVars, videoIn,
       cameraVars, audioIn, sourceVars, audioOut
  <2>4. SlotInv'
    BY <1>29 DEF VeEnd, SlotInv, VideoOutType, inputVars, videoIn
  <2>5. OwedInv'
    BY <1>29 DEF VeEnd, OwedInv, VideoFlush, Joined, VideoOutType, sessionVars, joinVars,
       inputVars, videoIn, cameraVars
  <2>6. UNCHANGED <<ctl, vp, ap, m_nExit, tid_audio, tid_video, m_pOutContext, m_video_outbuf,
     m_video_stream, m_audio_stream, file, videoList, audioList>>
    BY <1>29 DEF VeEnd, sessionVars, joinVars, contextVars, pointerVars, flagVars, inputVars,
       videoIn, cameraVars, audioIn, sourceVars, audioOut
  <2>7. QED
    BY <2>1, <2>2, <2>3, <2>4, <2>5, <2>6, UnchangedInvs, StepProducers
<1>30. CASE AeBegin
  <2>1. ThreadsInv'
    BY <1>30 DEF AeBegin, ThreadsInv, Starting, Joined, AudioOutType, sessionVars, joinVars,
       videoOut
  <2>2. FlagsInv'
    BY <1>30 DEF AeBegin, FlagsInv, VideoLoop, VideoFlush, Starting, Joined, READY, RUNNING,
       THREADEXIT, AudioOutType, sessionVars, joinVars, videoOut
  <2>3. MutexInv'
    BY <1>30 DEF AeBegin, MutexInv, FreeMutex, AudioOutType, sessionVars, inputVars, videoIn,
       cameraVars, audioIn, sourceVars, videoOut
  <2>4. UNCHANGED <<ctl, vp, ap, m_nExit, tid_audio, tid_video, m_pOutContext, m_video_outbuf,
     m_video_stream, m_audio_stream, file, videoList, audioList, ve, accepted, owed>>
    BY <1>30 DEF AeBegin, sessionVars, joinVars, contextVars, pointerVars, inputVars, videoIn,
       cameraVars, audioIn, sourceVars, videoOut
  <2>5. QED
    BY <2>1, <2>2, <2>3, <2>4, UnchangedInvs, StepProducers
<1>31. CASE AeTop
  <2>1. ThreadsInv'
    BY <1>31 DEF AeTop, ThreadsInv, Starting, Joined, AudioOutType, sessionVars, joinVars,
       videoOut
  <2>2. FlagsInv'
    BY <1>31 DEF AeTop, FlagsInv, VideoLoop, VideoFlush, Starting, Joined, READY, RUNNING,
       THREADEXIT, AudioOutType, sessionVars, joinVars, flagVars, videoOut
  <2>3. MutexInv'
    BY <1>31 DEF AeTop, MutexInv, FreeMutex, AudioOutType, sessionVars, inputVars, videoIn,
       cameraVars, audioIn, sourceVars, videoOut
  <2>4. UNCHANGED <<ctl, vp, ap, m_nExit, tid_audio, tid_video, m_pOutContext, m_video_outbuf,
     m_video_stream, m_audio_stream, file, videoList, audioList, ve, accepted, owed>>
    BY <1>31 DEF AeTop, sessionVars, joinVars, contextVars, pointerVars, flagVars, inputVars,
       videoIn, cameraVars, audioIn, sourceVars, videoOut
  <2>5. QED
    BY <2>1, <2>2, <2>3, <2>4, UnchangedInvs, StepProducers
<1>32. CASE AeDequeue
  <2>1. ae'.pc \in {"encode", "loop"}
    BY <1>32 DEF AeDequeue, AudioOutType
  <2>2. /\ audioList'.mutex = audioList.mutex
        /\ audioList'.allocated = audioList.allocated
        /\ (audioList'.size = audioList.size \/ audioList'.size = audioList.size - 1)
    BY <1>32, TakeKeeps DEF AeDequeue, AudioListType
  <2>3. ThreadsInv'
    BY <1>32, <2>1, <2>2 DEF AeDequeue, ThreadsInv, Starting, Joined, sessionVars, joinVars,
       videoOut
  <2>4. FlagsInv'
    BY <1>32, <2>1, <2>2 DEF AeDequeue, FlagsInv, VideoLoop, VideoFlush, Starting, Joined,
       READY, RUNNING, THREADEXIT, sessionVars, joinVars, flagVars, videoOut
  <2>5. MutexInv'
    BY <1>32, <2>1, <2>2 DEF AeDequeue, MutexInv, FreeMutex, sessionVars, videoIn, cameraVars,
       sourceVars, videoOut
  <2>6. SessionInv'
    BY <1>32, <2>1, <2>2 DEF AeDequeue, SessionInv, Joined, VideoSessionAlive, sessionVars,
       joinVars, contextVars, pointerVars, videoIn, cameraVars
  <2>7. ListsInv'
    BY <1>32, TakeConsistent DEF AeDequeue, ListsInv, AudioListType, videoIn
  <2>8. UNCHANGED <<ctl, vp, ap, m_nExit, tid_audio, ve, videoList, tid_video, accepted, owed>>
    BY <1>32 DEF AeDequeue, sessionVars, joinVars, contextVars, pointerVars, flagVars, videoIn,
       cameraVars, sourceVars, videoOut
  <2>9. QED
    BY <2>1, <2>2, <2>3, <2>4, <2>5, <2>6, <2>7, <2>8, UnchangedInvs, StepProducers
<1>33. CASE AeEncode
  <2>1. ThreadsInv'
    BY <1>33 DEF AeEncode, ThreadsInv, Starting, Joined, AudioOutType, sessionVars, joinVars,
       videoOut
  <2>2. FlagsInv'
    BY <1>33 DEF AeEncode, FlagsInv, VideoLoop, VideoFlush, Starting, Joined, READY, RUNNING,
       THREADEXIT, AudioOutType, sessionVars, joinVars, flagVars, videoOut
  <2>3. MutexInv'
    BY <1>33 DEF AeEncode, MutexInv, FreeMutex, AudioOutType, sessionVars, inputVars, videoIn,
       cameraVars, audioIn, sourceVars, videoOut
  <2>4. UNCHANGED <<ctl, vp, ap, m_nExit, tid_audio, tid_video, m_pOutContext, m_video_outbuf,
     m_video_stream, m_audio_stream, file, videoList, audioList, ve, accepted, owed>>
    BY <1>33 DEF AeEncode, sessionVars, joinVars, contextVars, pointerVars, flagVars,
       inputVars, videoIn, cameraVars, audioIn, sourceVars, videoOut
  <2>5. QED
    BY <2>1, <2>2, <2>3, <2>4, UnchangedInvs, StepProducers
<1>34. CASE AeKeep
  <2>1. ThreadsInv'
    BY <1>34 DEF AeKeep, ThreadsInv, Starting, Joined, AudioOutType, sessionVars, joinVars,
       videoOut
  <2>2. FlagsInv'
    BY <1>34 DEF AeKeep, FlagsInv, VideoLoop, VideoFlush, Starting, Joined, READY, RUNNING,
       THREADEXIT, AudioOutType, sessionVars, joinVars, flagVars, videoOut
  <2>3. MutexInv'
    BY <1>34 DEF AeKeep, MutexInv, FreeMutex, AudioOutType, sessionVars, inputVars, videoIn,
       cameraVars, audioIn, sourceVars, videoOut
  <2>4. UNCHANGED <<ctl, vp, ap, m_nExit, tid_audio, tid_video, m_pOutContext, m_video_outbuf,
     m_video_stream, m_audio_stream, file, videoList, audioList, ve, accepted, owed>>
    BY <1>34 DEF AeKeep, sessionVars, joinVars, contextVars, pointerVars, flagVars, inputVars,
       videoIn, cameraVars, audioIn, sourceVars, videoOut
  <2>5. QED
    BY <2>1, <2>2, <2>3, <2>4, UnchangedInvs, StepProducers
<1>35. CASE AeLockWriter
  <2>1. ThreadsInv'
    BY <1>35 DEF AeLockWriter, ThreadsInv, Starting, Joined, AudioOutType, sessionVars,
       joinVars, videoOut
  <2>2. FlagsInv'
    BY <1>35 DEF AeLockWriter, FlagsInv, VideoLoop, VideoFlush, Starting, Joined, READY,
       RUNNING, THREADEXIT, AudioOutType, sessionVars, joinVars, flagVars, videoOut
  <2>3. MutexInv'
    BY <1>35 DEF AeLockWriter, MutexInv, FreeMutex, AudioOutType, sessionVars, inputVars,
       videoIn, cameraVars, audioIn, sourceVars, videoOut
  <2>4. UNCHANGED <<ctl, vp, ap, m_nExit, tid_audio, tid_video, m_pOutContext, m_video_outbuf,
     m_video_stream, m_audio_stream, file, videoList, audioList, ve, accepted, owed>>
    BY <1>35 DEF AeLockWriter, sessionVars, joinVars, contextVars, pointerVars, flagVars,
       inputVars, videoIn, cameraVars, audioIn, sourceVars, videoOut
  <2>5. QED
    BY <2>1, <2>2, <2>3, <2>4, UnchangedInvs, StepProducers
<1>36. CASE AeWrite
  <2>1. ThreadsInv'
    BY <1>36 DEF AeWrite, ThreadsInv, Starting, Joined, AudioOutType, sessionVars, joinVars,
       videoOut
  <2>2. FlagsInv'
    BY <1>36 DEF AeWrite, FlagsInv, VideoLoop, VideoFlush, Starting, Joined, READY, RUNNING,
       THREADEXIT, AudioOutType, sessionVars, joinVars, flagVars, videoOut
  <2>3. MutexInv'
    BY <1>36 DEF AeWrite, MutexInv, FreeMutex, AudioOutType, sessionVars, inputVars, videoIn,
       cameraVars, audioIn, sourceVars, videoOut
  <2>4. UNCHANGED <<ctl, vp, ap, m_nExit, tid_audio, tid_video, m_pOutContext, m_video_outbuf,
     m_video_stream, m_audio_stream, file, videoList, audioList, ve, accepted, owed>>
    BY <1>36 DEF AeWrite, sessionVars, joinVars, contextVars, pointerVars, flagVars, inputVars,
       videoIn, cameraVars, audioIn, sourceVars, videoOut
  <2>5. QED
    BY <2>1, <2>2, <2>3, <2>4, UnchangedInvs, StepProducers
<1>37. CASE AeExit
  <2>1. ThreadsInv'
    BY <1>37 DEF AeExit, ThreadsInv, Starting, Joined, AudioOutType, sessionVars, joinVars,
       videoOut
  <2>2. FlagsInv'
    BY <1>37 DEF AeExit, FlagsInv, VideoLoop, VideoFlush, Starting, Joined, READY, RUNNING,
       THREADEXIT, AudioOutType, sessionVars, joinVars, videoOut, ThreadsInv
  <2>3. MutexInv'
    BY <1>37 DEF AeExit, MutexInv, FreeMutex, AudioOutType, sessionVars, inputVars, videoIn,
       cameraVars, audioIn, sourceVars, videoOut
  <2>4. UNCHANGED <<ctl, vp, ap, m_nExit, tid_audio, tid_video, m_pOutContext, m_video_outbuf,
     m_video_stream, m_audio_stream, file, videoList, audioList, ve, accepted, owed>>
    BY <1>37 DEF AeExit, sessionVars, joinVars, contextVars, pointerVars, inputVars, videoIn,
       cameraVars, audioIn, sourceVars, videoOut
  <2>5. QED
    BY <2>1, <2>2, <2>3, <2>4, UnchangedInvs, StepProducers
<1>38. CASE UNCHANGED vars
  BY <1>38, UnchangedInvs, StepProducers DEF joinVars, sessionVars, pointerVars, contextVars,
     flagVars, cameraVars, videoIn, sourceVars, audioIn, inputVars, videoOut, audioOut,
     encoderVars, vars
<1>39. QED
  BY <1>1, <1>2, <1>3, <1>4, <1>5, <1>6, <1>7, <1>8, <1>9, <1>10, <1>11, <1>12, <1>13, <1>14,
     <1>15, <1>16, <1>17, <1>18, <1>19, <1>20, <1>21, <1>22, <1>23, <1>24, <1>25, <1>26, <1>27, <1>27b,
     <1>28, <1>29, <1>30, <1>31, <1>32, <1>33, <1>34, <1>35, <1>36, <1>37, <1>38 DEF Next,
     Start, Stop, Camera, AudioSource, VideoEncoder, AudioEncoder

\* The initial states satisfy the invariant.
LEMMA InitInv == Init => IInv
<1> SUFFICES ASSUME Init PROVE IInv
  OBVIOUS
<1>1. /\ vp.pc = "idle" /\ ap.pc = "idle"
      /\ ve.pc = "none" /\ ae.pc = "none"
  BY DEF Init, VideoIdle, AudioIdle, VideoThread, AudioThread
<1>2. /\ videoList.readpos = 0 /\ videoList.writepos = 0 /\ videoList.size = 0
      /\ audioList.readpos = 0 /\ audioList.writepos = 0 /\ audioList.size = 0
      /\ videoList.mutex = FreeMutex /\ audioList.mutex = FreeMutex
  BY DEF Init, UnallocatedList
<1>3. ThreadsInv /\ CallsInv /\ AudioCallInv /\ ProducersInv /\ SlotInv
  BY <1>1 DEF Init, ThreadsInv, CallsInv, AudioCallInv, ProducersInv, SlotInv, Starting, Joined
<1>4. FlagsInv
  BY <1>1 DEF Init, FlagsInv, VideoLoop, VideoFlush, Starting, Joined, READY, RUNNING
<1>5. MutexInv
  BY <1>1, <1>2 DEF Init, MutexInv, FreeMutex
<1>6. SessionInv
  BY <1>1 DEF Init, SessionInv, Joined
<1>7. ListsInv
  BY <1>2 DEF ListsInv, Consistent, SlotAt
<1>8. OwedInv
  BY <1>1 DEF Init, OwedInv, VideoFlush, Joined
<1>9. QED
  BY <1>3, <1>4, <1>5, <1>6, <1>7, <1>8 DEF IInv

\* The types are right in every state of every recorder.
THEOREM TypeCorrect == Spec => []TypeOK
<1>1. Init => TypeOK /\ IInv
  BY InitType, InitInv
<1>2. TypeOK /\ IInv /\ [Next]_vars => (TypeOK /\ IInv)'
  <2>1. TypeOK /\ IInv /\ [Next]_vars => TypeOK'
    BY StepType DEF IInv
  <2>2. QED
    BY <2>1, StepInv
<1>3. QED
  BY <1>1, <1>2, PTL DEF Spec

\* The inductive invariant is one.
THEOREM Invariance == Spec => [](TypeOK /\ IInv)
<1>1. Init => TypeOK /\ IInv
  BY InitType, InitInv
<1>2. TypeOK /\ IInv /\ [Next]_vars => (TypeOK /\ IInv)'
  <2>1. TypeOK /\ IInv /\ [Next]_vars => TypeOK'
    BY StepType DEF IInv
  <2>2. QED
    BY <2>1, StepInv
<1>3. QED
  BY <1>1, <1>2, PTL DEF Spec

\* A camera call filling a slot, and the video encoder thread from the dequeue
\* to its last packet, work on a live session: realtime_enc_stop frees nothing
\* under them (RealTimeEnc.cpp:658-706).
THEOREM VideoUseSafe == Spec => []NoVideoUseAfterFree
<1>1. TypeOK /\ IInv => NoVideoUseAfterFree
  <2> SUFFICES ASSUME TypeOK, IInv PROVE NoVideoUseAfterFree
    OBVIOUS
  <2>1. vp.pc = "fill" => VideoSessionAlive
    BY DEF IInv, SessionInv
  <2>2. ASSUME ve.pc \in {"encode", "write", "writing", "flush"} PROVE VideoSessionAlive
    <3>1. tid_video = "live"
      BY <2>2 DEF IInv, ThreadsInv
    <3>2. QED
      BY <3>1 DEF IInv, SessionInv, VideoSessionAlive
  <2>3. QED
    BY <2>1, <2>2 DEF NoVideoUseAfterFree
<1>2. QED
  BY <1>1, Invariance, PTL

\* The audio encoder thread while it encodes, and an audio call while it copies
\* unless a stop has overtaken it, work on a live session: the joins keep
\* realtime_enc_stop from the first (RealTimeEnc.cpp:639), and no call begins
\* after m_nExit_ is set (562).
THEOREM AudioUseSafe == Spec => []NoAudioUseAfterFree
<1>1. TypeOK /\ IInv => NoAudioUseAfterFree
  <2> SUFFICES ASSUME TypeOK, IInv PROVE NoAudioUseAfterFree
    OBVIOUS
  <2>1. tid_audio = "live" => /\ m_pOutContext /\ m_audio_stream = "live"
                              /\ audioList.allocated
    BY DEF IInv, ThreadsInv, SessionInv
  <2>2. ap.pc = "copy" /\ ~m_nExit => tid_audio = "live"
    BY DEF IInv, AudioCallInv
  <2>3. ae.pc \in {"encode", "write", "writing"} => tid_audio = "live"
    BY DEF IInv, ThreadsInv
  <2>4. QED
    BY <2>1, <2>2, <2>3 DEF NoAudioUseAfterFree
<1>2. QED
  BY <1>1, Invariance, PTL

\* The muxer is never entered by two threads, and only between the header and
\* the trailer, though the packets and the trailer are guarded by different
\* mutexes (RealTimeEnc.cpp:646-649, 946-948, 1097-1099).
THEOREM MuxerSafe == Spec => []MuxerExclusive
<1>1. TypeOK /\ IInv => MuxerExclusive
  <2> SUFFICES ASSUME TypeOK, IInv PROVE MuxerExclusive
    OBVIOUS
  <2>1. ~(ve.pc = "writing" /\ ae.pc = "writing")
    BY DEF IInv, MutexInv
  <2>2. ve.pc = "writing" => tid_video = "live"
    BY DEF IInv, ThreadsInv
  <2>3. ae.pc = "writing" => tid_video = "live"
    BY DEF IInv, ThreadsInv
  <2>4. ctl = "trailer" => tid_video # "live"
    BY DEF IInv, ThreadsInv, Joined
  <2>5. tid_video = "live" \/ ctl = "trailer" => file = "header"
    BY DEF IInv, SessionInv
  <2>6. QED
    BY <2>1, <2>2, <2>3, <2>4, <2>5 DEF MuxerExclusive
<1>2. QED
  BY <1>1, Invariance, PTL

\* When the trailer is written, no frame accepted before the stop is left in
\* the list (RealTimeEnc.cpp:839).
THEOREM DrainedSafe == Spec => []DrainedBeforeTrailer
<1>1. TypeOK /\ IInv => DrainedBeforeTrailer
  BY DEF IInv, SessionInv, OwedInv, Joined, DrainedBeforeTrailer
<1>2. QED
  BY <1>1, Invariance, PTL

\* Only the camera's fill changes the pictures in the list.
LEMMA OnlyFillWrites ==
  ASSUME TypeOK, [Next]_vars, videoList'.framebuf # videoList.framebuf
  PROVE  VideoFill
<1>1. videoList' # videoList
  OBVIOUS
<1>2. CASE StartLists
  BY <1>2, ListInitKeeps DEF StartLists, TypeOK, VideoListType
<1>3. CASE StopLockTrailer
  BY <1>3, LockKeeps DEF StopLockTrailer, TypeOK, VideoListType
<1>4. CASE StopTrailer
  BY <1>4, UnlockKeeps DEF StopTrailer, TypeOK, VideoListType
<1>5. CASE StopFreeStreams
  BY <1>5, LockKeeps DEF StopFreeStreams, TypeOK, VideoListType
<1>6. CASE StopFreeContext
  BY <1>6, ListFreeType, ListFreeKeeps, UnlockKeeps DEF StopFreeContext, TypeOK, VideoListType
<1>7. CASE VideoEnter
  BY <1>7, LockKeeps DEF VideoEnter, TypeOK, VideoListType
<1>8. CASE VeDequeue
  BY <1>8, TakeKeeps DEF VeDequeue, TypeOK, VideoListType
<1>9. QED
  BY <1>1, <1>2, <1>3, <1>4, <1>5, <1>6, <1>7, <1>8
     DEF Next, Start, Stop, Camera, AudioSource, VideoEncoder, AudioEncoder, StartInitial,
         StartOpen, StartCreateVideo, StartCreateAudio, StopEnter, StopJoinAudio,
         StopJoinVideo, StopCloseAudio, VideoCall, VideoRefused, AudioCall, AudioRefused,
         AudioEnter, AudioCopy, VeBegin, VeEncode, VeLockWriter, VeWrite, VeLeave, VeExit, VeFlush,
         VeEnd, AeBegin, AeTop, AeDequeue, AeEncode, AeKeep, AeLockWriter, AeWrite, AeExit,
         vars, inputVars, videoIn

\* The slot the video encoder thread has released and is reading is not written
\* again unless the write fills the list (RealTimeEnc.cpp:852-862, 449-453).
THEOREM OverwriteSafe == Spec => OverwriteOnlyWhenFull
<1> DEFINE N == VIDEOFRAMEBUFSIZE
<1>1. ASSUME TypeOK, IInv, [Next]_vars, ve.pc = "encode",
             videoList'.framebuf[ve.slot] # videoList.framebuf[ve.slot]
      PROVE  videoList'.size = N
  <2>1. VideoFill
    BY <1>1, OnlyFillWrites
  <2>2. vp.stamp \in Nat /\ videoList.size < N /\ ve.slot \in 0..N-1
    BY <1>1, <2>1 DEF TypeOK, IInv, ProducersInv, VideoFill, CameraType, VideoOutType
  <2>3. /\ videoList.size \in 0..N /\ videoList.writepos \in 0..N-1
        /\ videoList.framebuf \in [0..N-1 -> Nat]
    BY <1>1 DEF TypeOK, VideoListType, ListOf
  <2>4. Put(videoList, N, vp.stamp) \in ListOf(N, Nat, {"vp", "ctl"})
    BY <1>1, <2>2, PutType DEF TypeOK, VideoListType
  <2>5. /\ videoList' = Unlock(Put(videoList, N, vp.stamp))
        \/ videoList' = Unlock(videoList)
    BY <2>1 DEF VideoFill
  <2>6. videoList' # Unlock(videoList)
    BY <1>1, UnlockKeeps DEF TypeOK, VideoListType
  <2>7. /\ videoList'.framebuf = Put(videoList, N, vp.stamp).framebuf
        /\ videoList'.size = Put(videoList, N, vp.stamp).size
    BY <2>4, <2>5, <2>6, UnlockKeeps
  <2>8. Put(videoList, N, vp.stamp).framebuf
          = [videoList.framebuf EXCEPT ![videoList.writepos] = vp.stamp]
    BY <1>1, <2>2, PutWrites DEF TypeOK, VideoListType
  <2>9. Put(videoList, N, vp.stamp).size = videoList.size + 1
    BY <1>1, PutKeeps DEF TypeOK, VideoListType
  <2>10. ve.slot = videoList.writepos
    BY <1>1, <2>2, <2>3, <2>7, <2>8
  <2>11. ve.slot = SlotAt(SlotAt(ve.slot, 1, N), videoList.size, N)
    <3>1. videoList.readpos = SlotAt(ve.slot, 1, N)
      BY <1>1, <2>2, NextPosIsSlotAt DEF IInv, SlotInv
    <3>2. QED
      BY <1>1, <2>10, <3>1 DEF IInv, ListsInv, Consistent
  <2>12. videoList.size + 1 = N
    BY <2>2, <2>3, <2>11, OncePerLap
  <2>13. QED
    BY <2>7, <2>9, <2>12
<1>2. TypeOK /\ IInv /\ [Next]_vars
        => [ve.pc = "encode" /\ videoList'.framebuf[ve.slot] # videoList.framebuf[ve.slot]
              => videoList'.size = VIDEOFRAMEBUFSIZE]_vars
  BY <1>1
<1>3. QED
  BY <1>2, Invariance, PTL DEF Spec, OverwriteOnlyWhenFull

\* Packets reach the file only between its header and its trailer.
THEOREM ClosedFileSafe == Spec => ClosedFileStays
<1>1. ASSUME TypeOK, IInv, [Next]_vars, stored' # stored \/ audioStored' # audioStored
      PROVE  file = "header" \/ ctl = "lists"
  <2>1. VeWrite \/ AeWrite \/ StartLists
    BY <1>1 DEF Next, Start, Stop, Camera, AudioSource, VideoEncoder, AudioEncoder, StartInitial,
         StartOpen, StartCreateVideo, StartCreateAudio, StopEnter, StopJoinAudio,
         StopJoinVideo, StopLockTrailer, StopTrailer, StopCloseAudio, StopFreeStreams,
         StopFreeContext, VideoCall, VideoRefused, VideoEnter, VideoFill, AudioCall, AudioRefused,
         AudioEnter, AudioCopy, VeBegin, VeDequeue, VeEncode, VeLockWriter, VeLeave, VeExit, VeFlush,
         VeEnd, AeBegin, AeTop, AeDequeue, AeEncode, AeKeep, AeLockWriter, AeExit,
         vars, encoderVars, videoOut, audioOut
  <2>2. CASE VeWrite
    BY <1>1, <2>2 DEF VeWrite, IInv, ThreadsInv, SessionInv
  <2>3. CASE AeWrite
    BY <1>1, <2>3 DEF AeWrite, IInv, ThreadsInv, SessionInv
  <2>4. CASE StartLists
    BY <2>4 DEF StartLists
  <2>5. QED
    BY <2>1, <2>2, <2>3, <2>4
<1>2. TypeOK /\ IInv /\ [Next]_vars
        => [stored' # stored \/ audioStored' # audioStored
              => file = "header" \/ ctl = "lists"]_vars
  BY <1>1
<1>3. QED
  BY <1>2, Invariance, PTL DEF Spec, ClosedFileStays
=============================================================================
