----------------------------- MODULE Interleaver -----------------------------
(***************************************************************************)
(* The interleaving packet buffer of a muxer with several streams:         *)
(* av_interleaved_write_frame and av_write_trailer of                      *)
(* src/libffmpeg/libavformat/utils.c, between avformat_write_header and    *)
(* the end of the file. The recorder's two encoder threads call it under   *)
(* m_av_write_mutex_, the transcoder from its only thread: one call runs   *)
(* at a time, and its loop is taken packet by packet.                      *)
(*                                                                         *)
(* Times of all streams are given in one time base (the code compares them *)
(* exactly, av_compare_ts) and every packet of a stream has the same       *)
(* duration, which is also what a frame adds to the stream's time. The     *)
(* format has timestamps (no AVFMT_NOTIMESTAMPS) and interleaves by dts    *)
(* (no interleave_packet of its own). None of the program's command lines  *)
(* sets audio_preload, max_chunk_size or max_chunk_duration, which are 0;  *)
(* the fast slicer, which adds to every stream's delay, is left out. An    *)
(* audio packet of no bytes returns at once (3569) and has no action here. *)
(*                                                                         *)
(* A time may be negative: a job that copies a stream from -ss on keeps    *)
(* the packets before it (do_streamcopy of ffmpeg.c) and gives them times  *)
(* below 0. Only AV_NOPTS_VALUE, the least 64-bit integer, lies below all  *)
(* of them, and below what is made up from them.                           *)
(*                                                                         *)
(* A definition marked "Bug" is a plausible mistake in the definition that *)
(* follows it, kept to see which property such a mistake would break.      *)
(***************************************************************************)
EXTENDS Integers, Sequences, SequencesExt

CONSTANTS
  NbStreams,   \* s->nb_streams
  CodecType,   \* st->codec->codec_type of each stream
  Delay,       \* FFMAX(has_b_frames, !!max_b_frames) of each stream
  Duration,    \* pkt->duration of each stream's packets
  NonStrict,   \* the format's AVFMT_TS_NONSTRICT
  Patience,    \* 20*AV_TIME_BASE
  NoPts,       \* AV_NOPTS_VALUE, far below every time
  Offered,     \* the <<stream, pts, dts>> that callers pass
  Failures,    \* whether memory and the output may fail
  MaxCalls     \* bound on the calls of av_interleaved_write_frame

Streams == 0..(NbStreams - 1)

ASSUME StreamAssumption ==
  /\ NbStreams \in Nat \ {0}
  /\ CodecType \in [Streams -> {"video", "audio", "subtitle"}]
  /\ Delay \in [Streams -> 0..16]
  /\ Duration \in [Streams -> Nat]
  /\ \A s \in Streams : CodecType[s] # "video" => Delay[s] = 0

ASSUME TimeAssumption ==
  /\ NonStrict \in BOOLEAN /\ Failures \in BOOLEAN
  /\ Patience \in Nat /\ MaxCalls \in Nat
  /\ NoPts \in Int /\ NoPts < 0
  /\ Offered \subseteq Streams \X Int \X Int
  /\ \A o \in Offered : \A t \in {o[2], o[3]} :
       t # NoPts => NoPts < t - 17 * Duration[o[1]]

NULL == 0

VARIABLES
  pc,                     \* where the caller is
  packet_buffer,          \* the list s->packet_buffer, by its nodes
  packet_buffer_end,      \* the node s->packet_buffer_end points to
  last_in_packet_buffer,  \* the node each stream's last_in_packet_buffer points to
  cur_dts,                \* st->cur_dts
  next_pts,               \* st->pts.val
  pts_buffer,             \* st->pts_buffer[0..delay]
  io_error,               \* s->pb->error
  written,                \* the packets write_packet stored, in order
  nbCalls,                \* packets submitted so far, which numbers them
  nbLost,                 \* of those, refused or lost by a failure
  newest,                 \* the latest dts each stream has given
  wentBack                \* the streams that gave a dts before their newest

list == <<packet_buffer, packet_buffer_end, last_in_packet_buffer>>
times == <<cur_dts, next_pts, pts_buffer, newest, wentBack>>
vars == <<pc, list, times, io_error, written, nbCalls, nbLost>>

Packet == [id : Nat \ {0}, stream : Streams, pts : Int, dts : Int \ {NoPts}]

\* Streams whose packets are waited for without limit.
Prompt == {s \in Streams : CodecType[s] # "subtitle"}

\* av_new_stream and avformat_write_header; next_pts is what av_frac_init gives.
Init ==
  /\ pc = "idle"
  /\ packet_buffer = <<>>
  /\ packet_buffer_end = NULL
  /\ last_in_packet_buffer = [s \in Streams |-> NULL]
  /\ cur_dts = [s \in Streams |-> 0]
  /\ next_pts = [s \in Streams |-> 0]
  /\ pts_buffer = [s \in Streams |-> [i \in 0..Delay[s] |-> NoPts]]
  /\ io_error = FALSE
  /\ written = <<>>
  /\ nbCalls = 0
  /\ nbLost = 0
  /\ newest = [s \in Streams |-> NoPts]
  /\ wentBack = {}

-----------------------------------------------------------------------------
(* The list.                                                               *)

\* The place of the node a pointer points to, and the node.
Place(id) == CHOOSE i \in DOMAIN packet_buffer : packet_buffer[i].id = id
Node(id) == packet_buffer[Place(id)]

\* ff_interleave_compare_dts: next belongs after pkt.
CompareDts(next, pkt) ==
  next.dts > pkt.dts \/ (next.dts = pkt.dts /\ pkt.stream < next.stream)

\* How many nodes next_point starts behind: those up to the stream's last.
Start(s) ==
  IF last_in_packet_buffer[s] = NULL THEN 0 ELSE Place(last_in_packet_buffer[s])

\* Bug: the list is searched from its head whatever the stream has in it.
InsertionFromHead(p) ==
  CHOOSE k \in 0..Len(packet_buffer) :
    /\ k < Len(packet_buffer) => CompareDts(packet_buffer[k + 1], p)
    /\ \A j \in 0..(k - 1) : ~CompareDts(packet_buffer[j + 1], p)

\* How many nodes stay before packet p: it goes to the end if the last node is
\* not after it, otherwise before the first node after it, from Start on.
Insertion(p) ==
  LET n == Len(packet_buffer)
      start == Start(p.stream)
  IN  IF start < n /\ CompareDts(Node(packet_buffer_end), p)
      THEN CHOOSE k \in start..n :
             /\ k < n => CompareDts(packet_buffer[k + 1], p)
             /\ \A j \in start..(k - 1) : ~CompareDts(packet_buffer[j + 1], p)
      ELSE n

\* ff_interleave_add_packet
AddPacket(p) ==
  LET k == Insertion(p)
  IN  /\ packet_buffer' = InsertAt(packet_buffer, k + 1, p)
      /\ packet_buffer_end' =
           IF k = Len(packet_buffer) THEN p.id ELSE packet_buffer_end
      /\ last_in_packet_buffer' = [last_in_packet_buffer EXCEPT ![p.stream] = p.id]

\* Bug: the stream's pointer is left at the node that is freed.
RemoveHeadStale ==
  /\ packet_buffer' = Tail(packet_buffer)
  /\ packet_buffer_end' =
       IF Len(packet_buffer) = 1 THEN NULL ELSE packet_buffer_end
  /\ UNCHANGED last_in_packet_buffer

\* av_interleave_packet_per_dts takes the first node off the list and frees it.
RemoveHead ==
  LET pktl == Head(packet_buffer)
  IN  /\ packet_buffer' = Tail(packet_buffer)
      /\ packet_buffer_end' =
           IF Len(packet_buffer) = 1 THEN NULL ELSE packet_buffer_end
      /\ last_in_packet_buffer' =
           IF last_in_packet_buffer[pktl.stream] = pktl.id
           THEN [last_in_packet_buffer EXCEPT ![pktl.stream] = NULL]
           ELSE last_in_packet_buffer

HasPacket(s) == last_in_packet_buffer[s] # NULL

\* Only subtitle streams are missing and some stream is Patience ahead.
OutOfPatience ==
  /\ \A s \in Streams : HasPacket(s) \/ CodecType[s] = "subtitle"
  /\ \E s \in Streams :
       /\ HasPacket(s)
       /\ Node(last_in_packet_buffer[s]).dts - Head(packet_buffer).dts > Patience

\* Bug: one packet of any stream is enough.
ReadyEarly == \E s \in Streams : HasPacket(s)

\* A packet can go out: every stream has one, or patience is over.
Ready == (\A s \in Streams : HasPacket(s)) \/ OutOfPatience

-----------------------------------------------------------------------------
(* compute_pkt_fields2                                                     *)

\* Bug: the new time is never moved up.
ReorderedNot(b, delay) == b

\* The times b[0..delay], all but the first in order, after b[0] has been
\* swapped up to its place.
Reordered(b, delay) ==
  LET k == CHOOSE k \in 0..delay :
             /\ \A i \in 1..k : b[i] < b[0]
             /\ k < delay => b[k + 1] >= b[0]
  IN  [i \in 0..delay |-> IF i < k THEN b[i + 1] ELSE IF i = k THEN b[0] ELSE b[i]]

\* The times b once pts is the new one: at the first pts those before it are
\* made up, duration apart.
Filled(b, pts, delay, duration) ==
  [i \in 0..delay |->
     IF i = 0 THEN pts
     ELSE IF \A j \in 1..i : b[j] = NoPts
          THEN pts + (i - delay - 1) * duration
          ELSE b[i]]

\* The times a stream remembers once it has been given pts.
Remembered(s, pts) ==
  Reordered(Filled(pts_buffer[s], pts, Delay[s], Duration[s]), Delay[s])

\* The fields of a packet given with pts and dts, and the times its stream
\* remembers then.
Fields(s, pts, dts) ==
  LET pts1 == IF pts = NoPts /\ Delay[s] = 0 THEN dts ELSE pts
      made == pts1 \in {0, NoPts} /\ dts = NoPts /\ Delay[s] = 0
      pts2 == IF made THEN next_pts[s] ELSE pts1
      dts2 == IF made THEN next_pts[s] ELSE dts
      ask  == pts2 # NoPts /\ dts2 = NoPts
      buf  == IF ask THEN Remembered(s, pts2) ELSE pts_buffer[s]
  IN  [pts |-> pts2, dts |-> IF ask THEN buf[0] ELSE dts2, buffer |-> buf]

\* Bug: the dts is not compared with the last one.
RefusedLess(s, f) ==
  /\ CodecType[s] # "video"
  /\ f.dts # NoPts /\ f.pts # NoPts /\ f.pts < f.dts

\* The tests of a stream that is not video.
Refused(s, f) ==
  /\ CodecType[s] # "video"
  /\ \/ /\ cur_dts[s] \notin {0, NoPts}
        /\ \/ ~NonStrict /\ cur_dts[s] >= f.dts
           \/ cur_dts[s] > f.dts
     \/ f.dts # NoPts /\ f.pts # NoPts /\ f.pts < f.dts

\* Bug: a packet whose dts could not be found is queued.
TimedAlways(f) == TRUE

\* A dts was given or found.
Timed(f) == f.dts # NoPts

-----------------------------------------------------------------------------
(* av_interleaved_write_frame                                              *)

\* The call returns an error: the packet is not queued.
Lose == pc' = "idle" /\ nbLost' = nbLost + 1 /\ UNCHANGED list

\* EINVAL from compute_pkt_fields2, before the stream's dts is changed.
Refuse(s, f) ==
  /\ Refused(s, f)
  /\ Lose
  /\ UNCHANGED <<cur_dts, next_pts, newest, wentBack>>

\* How far a packet moves the stream's time.
Increment(s) == IF CodecType[s] = "subtitle" THEN 0 ELSE Duration[s]

\* The stream's times once a packet has passed the tests.
Accept(s, f) ==
  /\ ~Refused(s, f)
  /\ cur_dts' = [cur_dts EXCEPT ![s] = f.dts]
  /\ next_pts' = [next_pts EXCEPT ![s] = f.dts + Increment(s)]

\* EINVAL: no dts could be found; the stream's dts is forgotten all the same.
LeaveUntimed(s, f) ==
  /\ Accept(s, f)
  /\ ~Timed(f)
  /\ Lose
  /\ UNCHANGED <<newest, wentBack>>

\* ENOMEM from ff_interleave_add_packet.
LoseForMemory(s, f) ==
  /\ Failures
  /\ Accept(s, f)
  /\ Timed(f)
  /\ Lose
  /\ UNCHANGED <<newest, wentBack>>

Queue(s, f) ==
  /\ Accept(s, f)
  /\ Timed(f)
  /\ AddPacket([id |-> nbCalls + 1, stream |-> s, pts |-> f.pts, dts |-> f.dts])
  /\ pc' = "interleaving"
  /\ newest' = [newest EXCEPT ![s] = IF f.dts > @ THEN f.dts ELSE @]
  /\ wentBack' = IF f.dts < newest[s] THEN wentBack \cup {s} ELSE wentBack
  /\ UNCHANGED nbLost

\* A call of av_interleaved_write_frame up to its first look at the list.
Submit(s, pts, dts) ==
  LET f == Fields(s, pts, dts)
  IN  /\ pc = "idle"
      /\ nbCalls < MaxCalls
      /\ nbCalls' = nbCalls + 1
      /\ pts_buffer' = [pts_buffer EXCEPT ![s] = f.buffer]
      /\ Refuse(s, f) \/ LeaveUntimed(s, f) \/ LoseForMemory(s, f) \/ Queue(s, f)
      /\ UNCHANGED <<io_error, written>>

\* The loop of the call, or of the trailer, takes one more packet.
CanTake ==
  \/ pc = "interleaving" /\ Ready
  \/ pc = "trailer" /\ packet_buffer # <<>>

\* write_packet has stored the first packet.
Store ==
  /\ written' = Append(written, Head(packet_buffer))
  /\ RemoveHead
  /\ UNCHANGED <<times, nbCalls, nbLost>>

\* The first packet goes to write_packet and the loop continues.
Write ==
  /\ CanTake
  /\ ~io_error
  /\ Store
  /\ UNCHANGED <<pc, io_error>>

\* The packet is stored but the output has failed: pb->error ends the loop.
WriteToFailed ==
  /\ Failures
  /\ CanTake
  /\ Store
  /\ io_error' = TRUE
  /\ pc' = IF pc = "trailer" THEN "failed" ELSE "idle"

\* write_packet returns an error: the packet is freed, the loop ends.
WriteFails ==
  /\ Failures
  /\ CanTake
  /\ RemoveHead
  /\ nbLost' = nbLost + 1
  /\ pc' = IF pc = "trailer" THEN "failed" ELSE "idle"
  /\ UNCHANGED <<times, io_error, written, nbCalls>>

\* No packet can go out: the call returns 0.
Return ==
  /\ pc = "interleaving"
  /\ ~Ready
  /\ pc' = "idle"
  /\ UNCHANGED <<list, times, io_error, written, nbCalls, nbLost>>

-----------------------------------------------------------------------------
(* av_write_trailer: the loop is Write, WriteToFailed and WriteFails.      *)

Trailer ==
  /\ pc = "idle"
  /\ pc' = "trailer"
  /\ UNCHANGED <<list, times, io_error, written, nbCalls, nbLost>>

\* Bug: the trailer is written at once.
WriteTrailerAtOnce ==
  /\ pc = "trailer"
  /\ pc' = "closed"
  /\ UNCHANGED <<list, times, io_error, written, nbCalls, nbLost>>

\* The list is empty: write_trailer.
WriteTrailer ==
  /\ pc = "trailer"
  /\ packet_buffer = <<>>
  /\ pc' = "closed"
  /\ UNCHANGED <<list, times, io_error, written, nbCalls, nbLost>>

Next ==
  \/ \E o \in Offered : Submit(o[1], o[2], o[3])
  \/ Write \/ WriteToFailed \/ WriteFails \/ Return
  \/ Trailer \/ WriteTrailer

Spec == Init /\ [][Next]_vars

-----------------------------------------------------------------------------
(* Properties.                                                             *)

\* Every variable keeps its type; a packet without a dts is never queued.
TypeOK ==
  /\ pc \in {"idle", "interleaving", "trailer", "closed", "failed"}
  /\ packet_buffer \in Seq(Packet)
  /\ packet_buffer_end \in Nat
  /\ last_in_packet_buffer \in [Streams -> Nat]
  /\ cur_dts \in [Streams -> Int]
  /\ next_pts \in [Streams -> Int]
  /\ DOMAIN pts_buffer = Streams
  /\ \A s \in Streams : pts_buffer[s] \in [0..Delay[s] -> Int]
  /\ io_error \in BOOLEAN
  /\ written \in Seq(Packet)
  /\ nbCalls \in 0..MaxCalls
  /\ nbLost \in 0..nbCalls
  /\ newest \in [Streams -> Int]
  /\ wentBack \subseteq Streams

\* No pointer into the list is stale: packet_buffer_end points to its last
\* node, last_in_packet_buffer of a stream to the stream's last node, and they
\* are NULL when there is none (utils.c:3419-3460, 3531-3536).
PointersLive ==
  /\ packet_buffer_end =
       IF packet_buffer = <<>> THEN NULL ELSE packet_buffer[Len(packet_buffer)].id
  /\ \A s \in Streams :
       IF HasPacket(s)
       THEN \E i \in DOMAIN packet_buffer :
              /\ packet_buffer[i].id = last_in_packet_buffer[s]
              /\ packet_buffer[i].stream = s
              /\ \A j \in (i + 1)..Len(packet_buffer) : packet_buffer[j].stream # s
       ELSE \A i \in DOMAIN packet_buffer : packet_buffer[i].stream # s

\* The packets of each stream keep the order of the calls, in the file, from
\* the file to the list and in the list, whatever their times.
StreamsInOrder ==
  /\ \A i, j \in DOMAIN written :
       (i < j /\ written[i].stream = written[j].stream) => written[i].id < written[j].id
  /\ \A i \in DOMAIN written, j \in DOMAIN packet_buffer :
       written[i].stream = packet_buffer[j].stream => written[i].id < packet_buffer[j].id
  /\ \A i, j \in DOMAIN packet_buffer :
       (i < j /\ packet_buffer[i].stream = packet_buffer[j].stream)
         => packet_buffer[i].id < packet_buffer[j].id

\* As long as no stream gives a dts before an earlier one, the packets of the
\* streams that are waited for are in the file by dts, a tie by stream
\* (utils.c:3498-3542). A subtitle stream that goes back is enough to break it:
\* its packet, at the end of the list, hides a later one from the insertion.
WrittenInterleaved ==
  wentBack = {} =>
    \A i, j \in DOMAIN written :
      (i < j /\ written[i].stream \in Prompt /\ written[j].stream \in Prompt)
        => ~CompareDts(written[i], written[j])

\* A stream that is not video can go back only from a dts of 0, which switches
\* the test of cur_dts off, or from one below: from its first dts above 0 on its
\* packets rise in the file, or at least do not fall in a format that lets a dts
\* be repeated, whatever was refused or lost between them (utils.c:3344-3349).
RisingAboveZero ==
  \A i, j \in DOMAIN written :
    /\ i < j
    /\ written[i].stream = written[j].stream
    /\ CodecType[written[i].stream] # "video"
    /\ written[i].dts > 0
    => \/ written[i].dts < written[j].dts
       \/ NonStrict /\ written[i].dts = written[j].dts

\* A dts found from the reordering buffer is not after any pts the stream still
\* remembers, which are in order (utils.c:3333-3341).
PtsBufferInOrder ==
  \A s \in Streams : \A i, j \in 0..Delay[s] :
    i < j => pts_buffer[s][i] <= pts_buffer[s][j]

\* No packet disappears: those submitted are in the file, in the list or were
\* refused or lost with an error; a trailer that succeeds leaves none in the
\* list (utils.c:3605-3630).
NothingLeftBehind ==
  /\ nbCalls = Len(written) + Len(packet_buffer) + nbLost
  /\ pc = "closed" => packet_buffer = <<>>
=============================================================================
