------------------------------ MODULE Transcoder ------------------------------
(***************************************************************************)
(* The loop of transcode (src/libffmpeg/ffmpeg.c) for the two kinds of     *)
(* jobs that interface.cpp runs most: those that copy packets              *)
(* (nativeVideoCut, nativeMultiConcat, the second job of nativeMux) and    *)
(* those that extract pictures (nativeProduceJpeg and the two calls that   *)
(* pass a fixed list of times to -getjpeg). One iteration selects an       *)
(* input, seeks it if pictures ask for it, reads a packet and hands it to  *)
(* output_packet; when the loop is left the decoder is flushed.            *)
(*                                                                         *)
(* A job's inputs are the packets av_read_frame returns, from the place    *)
(* where opt_input_file left the file, each with the output stream it      *)
(* feeds; every packet has a dts, equal to its pts. Times are in one unit. *)
(* The decoder is a queue that holds back a number of pictures; the        *)
(* encoder of pictures and the muxer take what they are given, but for a   *)
(* time of an audio stream that does not increase. What the muxer does     *)
(* with a packet is Interleaver's, what surrounds the loop is Jobs'.       *)
(* Left out: jobs that encode sound or moving pictures, -vframes, the      *)
(* output's -ss, and the fast slicer, which no call of interface.cpp asks  *)
(* for.                                                                    *)
(*                                                                         *)
(* A definition marked "Bug" is a plausible mistake in the definition that *)
(* follows it, kept to see which property such a mistake would break.      *)
(***************************************************************************)
EXTENDS Integers, Sequences, FiniteSets

CONSTANTS
  Jobs,         \* the jobs a run may choose from
  NoTime,       \* AV_NOPTS_VALUE, which no packet has
  NoLimit,      \* INT64_MAX as a recording_time
  SeekGap,      \* 600000: reading on reaches a picture this close
  DtsDelta,     \* dts_delta_threshold*AV_TIME_BASE
  MaxAgain,     \* bound on the reads that find no packet (EAGAIN)
  MaxFailures   \* bound on the packets that do not decode

\* A packet: its time in the file, whether it is a key frame, and the output
\* stream it feeds (0: none, ist->discard).
Packet(n) == [ost : 0..n, time : Int, key : BOOLEAN]

\* What a command line amounts to: the inputs, each output stream's input file
\* (ost->source_index), duration of a frame and type, -t, -getjpeg's times and
\* type ("d" is coarse), the decoder's delay, ts_offset, ic->start_time,
\* AVFMT_TS_DISCONT, and whether the demuxer takes a time before the first index
\* entry for the beginning (mov and matroska do, avi fails). A job that extracts
\* pictures has one input, without -ss, and one stream.
IsJob(j) ==
  /\ DOMAIN j = {"getjpeg", "coarse", "input", "fileOf", "audio", "duration",
                 "length", "times", "delay", "offset", "start", "discont", "rewinds"}
  /\ j.getjpeg \in BOOLEAN /\ j.coarse \in BOOLEAN /\ j.discont \in BOOLEAN
  /\ j.rewinds \in BOOLEAN
  /\ j.fileOf \in Seq(DOMAIN j.input)
  /\ j.input \in Seq(Seq(Packet(Len(j.fileOf))))
  /\ j.audio \subseteq DOMAIN j.fileOf
  /\ j.duration \in [DOMAIN j.fileOf -> Nat]
  /\ j.length \in Int
  /\ j.times \in Seq(Nat)
  /\ j.delay \in Nat
  /\ j.offset \in [DOMAIN j.input -> Int]
  /\ j.start \in Int
  /\ \A f \in DOMAIN j.input : \A n \in DOMAIN j.input[f] :
       j.input[f][n].ost # 0 => j.fileOf[j.input[f][n].ost] = f
  /\ j.getjpeg => Len(j.input) = 1 /\ Len(j.fileOf) = 1 /\ j.offset[1] = 0 - j.start

ASSUME JobsAssumption == \A j \in Jobs : IsJob(j)

ASSUME BoundsAssumption ==
  /\ NoTime \notin Int /\ NoLimit \in Int
  /\ SeekGap \in Nat /\ DtsDelta \in Nat
  /\ MaxAgain \in Nat /\ MaxFailures \in Nat

VARIABLES
  job,               \* the job's command line; never changes
  pc,                \* the step of the iteration
  file,              \* file_index, the input selected
  pos,               \* the next packet of each input
  eof_reached,
  no_packet,
  ts_offset,         \* of each input
  pts,               \* ist->pts of each stream's input
  next_pts,          \* ist->next_pts
  is_past,           \* ost->is_past_recording_time
  out,               \* the packets each stream gave the muxer
  decoder,           \* the pictures the decoder holds back
  jpeg_idx,          \* the request to serve next, from 1
  g_need_seek,
  images,            \* the pictures written
  received_sigterm,
  again,             \* how many reads found no packet
  failed             \* the packets that did not decode

reading == <<pos, eof_reached, no_packet, again>>
clocks == <<ts_offset, pts, next_pts>>
copying == <<is_past, out>>
pictures == <<decoder, jpeg_idx, g_need_seek, images, failed>>
vars == <<job, pc, file, reading, clocks, copying, pictures, received_sigterm>>

Files == DOMAIN job.input
Streams == DOMAIN job.fileOf

\* Global_variables_init, transcode_init and the start of transcode.
Init ==
  /\ job \in Jobs
  /\ pc = "select"
  /\ file = 0
  /\ pos = [f \in Files |-> 1]
  /\ eof_reached = [f \in Files |-> FALSE]
  /\ no_packet = [f \in Files |-> FALSE]
  /\ ts_offset = job.offset
  /\ pts = [s \in Streams |-> 0]
  /\ next_pts = [s \in Streams |-> NoTime]
  /\ is_past = [s \in Streams |-> FALSE]
  /\ out = [s \in Streams |-> <<>>]
  /\ decoder = <<>>
  /\ jpeg_idx = 1
  /\ g_need_seek = TRUE
  /\ images = <<>>
  /\ received_sigterm = FALSE
  /\ again = 0
  /\ failed = {}

-----------------------------------------------------------------------------
(* Selection of the input                                                  *)

\* The dts of the last packet of a stream (st->cur_dts), and the time its
\* output has reached (st->pts), which the muxer keeps.
LastDts(s) == IF out[s] = <<>> THEN 0 ELSE out[s][Len(out[s])].dts
Opts(s) == IF out[s] = <<>> THEN 0 ELSE LastDts(s) + job.duration[s]

Eligible(s) ==
  ~is_past[s] /\ ~no_packet[job.fileOf[s]] /\ ~eof_reached[job.fileOf[s]]

\* Bug: the first stream that can be read is read.
FirstEligible(s) == Eligible(s) /\ \A t \in Streams : Eligible(t) => s <= t

\* The eligible stream whose output is the furthest behind, the first of them.
Furthest(s) ==
  /\ Eligible(s)
  /\ \A t \in Streams : Eligible(t) =>
       Opts(s) < Opts(t) \/ (Opts(s) = Opts(t) /\ s <= t)

Select ==
  /\ pc = "select" /\ ~received_sigterm
  /\ \E s \in Streams : Furthest(s) /\ file' = job.fileOf[s]
  /\ pc' = IF job.getjpeg THEN "seek" ELSE "read"
  /\ UNCHANGED <<job, reading, clocks, copying, pictures, received_sigterm>>

NoneEligible == \A s \in Streams : ~Eligible(s)
SomeNoPacket == \E f \in Files : no_packet[f]

\* usleep(10000), and all inputs are tried again.
Retry ==
  /\ pc = "select" /\ ~received_sigterm
  /\ NoneEligible /\ SomeNoPacket
  /\ no_packet' = [f \in Files |-> FALSE]
  /\ UNCHANGED <<job, pc, file, pos, eof_reached, again, clocks, copying,
                 pictures, received_sigterm>>

\* The loop ends: a stop, or nothing left to read.
LeaveLoop ==
  /\ pc = "select"
  /\ received_sigterm \/ (NoneEligible /\ ~SomeNoPacket)
  /\ pc' = "flush"
  /\ UNCHANGED <<job, file, reading, clocks, copying, pictures, received_sigterm>>

-----------------------------------------------------------------------------
(* Seeking for a picture                                                   *)

Requests == Len(job.times)

\* The time in the stream's clock from which a picture serves request k.
Target(k, offset) == job.times[k] + job.start + offset

KeysUpTo(time) ==
  {n \in DOMAIN job.input[file] :
     LET p == job.input[file][n] IN p.ost # 0 /\ p.key /\ p.time <= time}

\* The time is before the first index entry.
BeforeVideo(time) ==
  \A n \in DOMAIN job.input[file] :
    LET p == job.input[file][n] IN p.ost # 0 => p.time > time

\* av_seek_frame backward: to the last key frame at or before a time. With none
\* before the video some demuxers go to its beginning; with others the seek fails
\* and loses what was read ahead (ff_read_frame_flush). With none elsewhere the
\* seek fails after reading on for one, and may end anywhere. Its result is
\* ignored.
SeekTo(time, n) ==
  IF KeysUpTo(time) # {}
  THEN n \in KeysUpTo(time) /\ \A m \in KeysUpTo(time) : m <= n
  ELSE BeforeVideo(time) => IF job.rewinds THEN n = 1 ELSE n >= pos[file]

\* Bug: the seek does not clear the request for it.
SeekForPictureForever ==
  /\ pc = "seek"
  /\ IF g_need_seek /\ jpeg_idx <= Requests
     THEN /\ \E n \in 1..(Len(job.input[file]) + 1) :
               /\ SeekTo(Target(jpeg_idx, ts_offset[file]), n)
               /\ pos' = [pos EXCEPT ![file] = n]
          /\ decoder' = <<>>
     ELSE UNCHANGED <<pos, decoder>>
  /\ pc' = "read"
  /\ UNCHANGED <<job, file, eof_reached, no_packet, again, clocks, copying,
                 jpeg_idx, g_need_seek, images, failed, received_sigterm>>

\* seek_to_key_frame_for_jpeg; whether it succeeds or not, the decoder is closed
\* and opened again, which drops the pictures it holds, and no seek is due any
\* more. (With no request at all the job seeks too, and then ends without reading.)
SeekForPicture ==
  /\ pc = "seek"
  /\ IF g_need_seek /\ jpeg_idx <= Requests
     THEN /\ \E n \in 1..(Len(job.input[file]) + 1) :
               /\ SeekTo(Target(jpeg_idx, ts_offset[file]), n)
               /\ pos' = [pos EXCEPT ![file] = n]
          /\ decoder' = <<>>
          /\ g_need_seek' = FALSE
     ELSE UNCHANGED <<pos, decoder, g_need_seek>>
  /\ pc' = "read"
  /\ UNCHANGED <<job, file, eof_reached, no_packet, again, clocks, copying,
                 jpeg_idx, images, failed, received_sigterm>>

\* Bug: the loop ends one request early.
AllRequestsServedEarly == job.getjpeg /\ jpeg_idx >= Requests

AllRequestsServed == job.getjpeg /\ jpeg_idx > Requests

LeaveServed ==
  /\ pc = "read" /\ AllRequestsServed
  /\ pc' = "flush"
  /\ UNCHANGED <<job, file, reading, clocks, copying, pictures, received_sigterm>>

-----------------------------------------------------------------------------
(* Reading                                                                 *)

Reads == pc = "read" /\ ~AllRequestsServed
Finds(s) ==
  /\ Reads
  /\ pos[file] <= Len(job.input[file])
  /\ job.input[file][pos[file]].ost = s

\* av_read_frame returns AVERROR(EAGAIN).
ReadAgain ==
  /\ Reads /\ again < MaxAgain
  /\ again' = again + 1
  /\ no_packet' = [no_packet EXCEPT ![file] = TRUE]
  /\ pc' = "select"
  /\ UNCHANGED <<job, file, pos, eof_reached, clocks, copying, pictures,
                 received_sigterm>>

\* ... or the end of the file, or another error.
EndOfFile ==
  /\ Reads /\ pos[file] > Len(job.input[file])
  /\ eof_reached' = [eof_reached EXCEPT ![file] = TRUE]
  /\ pc' = "select"
  /\ UNCHANGED <<job, file, pos, no_packet, again, clocks, copying, pictures,
                 received_sigterm>>

\* A packet was read, and the iteration ends with it.
Consume ==
  /\ pos' = [pos EXCEPT ![file] = @ + 1]
  /\ no_packet' = [f \in Files |-> FALSE]
  /\ pc' = "select"
  /\ UNCHANGED <<job, file, eof_reached, again, received_sigterm>>

Discard ==
  /\ Finds(0)
  /\ Consume
  /\ UNCHANGED <<clocks, copying, pictures>>

\* The dts in the stream's clock.
Dts == job.input[file][pos[file]].time + ts_offset[file]

\* Bug: only a jump ahead counts.
DiscontinuityAhead(s) ==
  LET delta == Dts - next_pts[s]
  IN  IF job.discont /\ next_pts[s] # NoTime /\ delta > DtsDelta THEN delta ELSE 0

\* How far it is from the one expected, if that counts as a discontinuity.
Discontinuity(s) ==
  LET delta == Dts - next_pts[s]
  IN  IF /\ job.discont /\ next_pts[s] # NoTime
         /\ delta < 0 - DtsDelta \/ delta > DtsDelta \/ Dts + 1 < pts[s]
      THEN delta ELSE 0

Stamp(s) == Dts - Discontinuity(s)
Offset(s) == ts_offset[file] - Discontinuity(s)
Realign(s) == ts_offset' = [ts_offset EXCEPT ![file] = Offset(s)]

-----------------------------------------------------------------------------
(* Copying a packet                                                        *)

\* check_output_constraints: at or after the recording time.
TooLate(s) == job.length # NoLimit /\ Stamp(s) >= job.length

\* do_streamcopy: a stream begins with a key frame.
Kept(s) == ~TooLate(s) /\ (out[s] # <<>> \/ job.input[file][pos[file]].key)

\* compute_pkt_fields2: the muxer refuses an audio packet that is not later
\* than the one before.
Refused(s) == s \in job.audio /\ LastDts(s) # 0 /\ LastDts(s) >= Stamp(s)

\* Bug: a stream that reaches the recording time ends the others of its file.
PastAll(s) ==
  [t \in Streams |-> is_past[t] \/ (job.fileOf[t] = file /\ TooLate(s))]

Past(s) == [is_past EXCEPT ![s] = @ \/ TooLate(s)]

CopyPacket(s) ==
  /\ Finds(s) /\ ~job.getjpeg
  /\ Kept(s) => ~Refused(s)
  /\ Consume
  /\ Realign(s)
  /\ pts' = [pts EXCEPT ![s] = Stamp(s)]
  /\ next_pts' = [next_pts EXCEPT ![s] = Stamp(s) + job.duration[s]]
  /\ is_past' = Past(s)
  /\ out' = IF Kept(s)
            THEN [out EXCEPT ![s] = Append(@, [n |-> pos[file], dts |-> Stamp(s)])]
            ELSE out
  /\ UNCHANGED pictures

\* write_frame: a packet the muxer refuses ends the program's job at once.
WriteFails(s) ==
  /\ Finds(s) /\ ~job.getjpeg
  /\ Kept(s) /\ Refused(s)
  /\ pc' = "exit"
  /\ UNCHANGED <<job, file, reading, clocks, copying, pictures, received_sigterm>>

-----------------------------------------------------------------------------
(* Decoding a packet                                                       *)

\* x > y for two int64_t of which one was converted to uint64_t, as in the
\* comparisons with jpegTimeArray.
Over(x, y) == IF (x < 0) = (y < 0) THEN x > y ELSE x < 0

\* check_output_constraints: whether a picture serves the next request.
Serves(picture, offset) ==
  /\ jpeg_idx <= Requests
  /\ job.coarse \/ ~Over(Target(jpeg_idx, offset), picture.time)

\* Bug: the distance to the next request is signed.
FarAwaySigned(k, picture, offset) ==
  Target(k, offset) - picture.time > SeekGap

\* Whether request k is far from the picture: more than SeekGap after it, or
\* anywhere before it, the difference being unsigned.
FarAway(k, picture, offset) ==
  Over(Target(k, offset) - picture.time, SeekGap)

\* Bug: the request is counted before the picture is known to serve it.
OfferCounted(picture, offset, last) ==
  /\ jpeg_idx' = jpeg_idx + 1
  /\ IF Serves(picture, offset)
     THEN images' = Append(images, [n |-> picture.n, last |-> last])
     ELSE UNCHANGED images
  /\ UNCHANGED g_need_seek

\* transcode_video, the part behind the decoder: the picture is written under
\* the name of the request it serves, and the next request looked at. last
\* tells the pictures that come out after the loop.
Offer(picture, offset, last) ==
  IF Serves(picture, offset)
  THEN /\ images' = Append(images, [n |-> picture.n, last |-> last])
       /\ jpeg_idx' = jpeg_idx + 1
       /\ g_need_seek' = \/ g_need_seek
                         \/ /\ jpeg_idx + 1 <= Requests
                            /\ job.coarse \/ FarAway(jpeg_idx + 1, picture, offset)
  ELSE UNCHANGED <<images, jpeg_idx, g_need_seek>>

\* output_packet's ist->pts when the decoder returns nothing.
Expected(s) == IF next_pts[s] = NoTime THEN pts[s] ELSE next_pts[s]
Wait(s) ==
  /\ pts' = [pts EXCEPT ![s] = Expected(s)]
  /\ next_pts' = [next_pts EXCEPT ![s] = Expected(s)]

\* The decoder returns an error: the packet is dropped and the loop goes on.
DecodeFails(s) ==
  /\ Finds(s) /\ job.getjpeg
  /\ Cardinality(failed) < MaxFailures
  /\ Consume
  /\ Realign(s)
  /\ Wait(s)
  /\ failed' = failed \cup {pos[file]}
  /\ UNCHANGED <<copying, decoder, jpeg_idx, g_need_seek, images>>

Fed(s) == Append(decoder, [n |-> pos[file], time |-> Stamp(s)])

\* The decoder returns no picture yet.
DecodeNothing(s) ==
  /\ Finds(s) /\ job.getjpeg
  /\ Len(decoder) < job.delay
  /\ Consume
  /\ Realign(s)
  /\ Wait(s)
  /\ decoder' = Fed(s)
  /\ UNCHANGED <<copying, jpeg_idx, g_need_seek, images, failed>>

DecodePicture(s) ==
  /\ Finds(s) /\ job.getjpeg
  /\ Len(decoder) >= job.delay
  /\ Consume
  /\ Realign(s)
  /\ LET picture == Head(Fed(s))
     IN  /\ pts' = [pts EXCEPT ![s] = picture.time]
         /\ next_pts' = [next_pts EXCEPT ![s] = picture.time + job.duration[s]]
         /\ Offer(picture, Offset(s), FALSE)
  /\ decoder' = Tail(Fed(s))
  /\ UNCHANGED <<copying, failed>>

-----------------------------------------------------------------------------
(* After the loop                                                          *)

\* output_packet without a packet gives the pictures the decoder holds back,
\* until no request is left.
Flushable == job.getjpeg /\ decoder # <<>> /\ jpeg_idx <= Requests

FlushPicture ==
  /\ pc = "flush" /\ Flushable
  /\ Offer(Head(decoder), ts_offset[1], TRUE)
  /\ pts' = [pts EXCEPT ![1] = Head(decoder).time]
  /\ next_pts' = [next_pts EXCEPT ![1] = Head(decoder).time + job.duration[1]]
  /\ decoder' = Tail(decoder)
  /\ UNCHANGED <<job, pc, file, reading, ts_offset, copying, failed,
                 received_sigterm>>

FlushEnd ==
  /\ pc = "flush" /\ ~Flushable
  /\ pc' = "done"
  /\ UNCHANGED <<job, file, reading, clocks, copying, pictures, received_sigterm>>

\* ffmpeg_set_terminate, from the thread of a Java call.
Stop ==
  /\ pc \notin {"done", "exit"} /\ ~received_sigterm
  /\ received_sigterm' = TRUE
  /\ UNCHANGED <<job, pc, file, reading, clocks, copying, pictures>>

Loop ==
  \/ Select \/ Retry \/ LeaveLoop
  \/ SeekForPicture \/ LeaveServed
  \/ ReadAgain \/ EndOfFile \/ Discard
  \/ \E s \in Streams :
       \/ CopyPacket(s) \/ WriteFails(s)
       \/ DecodeFails(s) \/ DecodeNothing(s) \/ DecodePicture(s)
  \/ FlushPicture \/ FlushEnd

Next == Loop \/ Stop

Spec == Init /\ [][Next]_vars

\* The job's thread runs.
FairSpec == Spec /\ WF_vars(Loop)

-----------------------------------------------------------------------------
(* Correctness                                                             *)

Ended == pc \in {"done", "exit"}

\* Types, and that the requests served are as many as the pictures written, that
\* the decoder holds back no more than its delay and that an input is selected
\* when one is read (Global_variables_init, output_packet, transcode).
TypeOK ==
  /\ pc \in {"select", "seek", "read", "flush", "done", "exit"}
  /\ file \in Files \cup {0}
  /\ pc \in {"seek", "read"} => file # 0
  /\ pos \in [Files -> Nat \ {0}]
  /\ eof_reached \in [Files -> BOOLEAN]
  /\ no_packet \in [Files -> BOOLEAN]
  /\ ts_offset \in [Files -> Int]
  /\ pts \in [Streams -> Int]
  /\ next_pts \in [Streams -> Int \cup {NoTime}]
  /\ is_past \in [Streams -> BOOLEAN]
  /\ out \in [Streams -> Seq([n : Nat \ {0}, dts : Int])]
  /\ decoder \in Seq([n : Nat \ {0}, time : Int])
  /\ Len(decoder) <= job.delay
  /\ jpeg_idx \in 1..(Requests + 1)
  /\ g_need_seek \in BOOLEAN
  /\ images \in Seq([n : Nat \ {0}, last : BOOLEAN])
  /\ Len(images) = jpeg_idx - 1
  /\ received_sigterm \in BOOLEAN
  /\ again \in 0..MaxAgain
  /\ failed \subseteq Nat \ {0}

\* The packets of its file that feed a stream, and their times in its clock.
Feeding(s) == LET f == job.fileOf[s]
              IN  {n \in DOMAIN job.input[f] : job.input[f][n].ost = s}
Time(s, n) == job.input[job.fileOf[s]][n].time + job.offset[job.fileOf[s]]
InOrder(s) == \A m, n \in Feeding(s) : m < n => Time(s, m) <= Time(s, n)

Early(s) == {n \in Feeding(s) : job.length = NoLimit \/ Time(s, n) < job.length}

\* What -t leaves of a stream: every packet before the recording time, from the
\* first key frame on.
Cut(s) ==
  {n \in Early(s) : \E m \in Early(s) : m <= n /\ job.input[job.fileOf[s]][m].key}

\* A copied stream is complete and in order (output_packet, do_streamcopy and
\* the selection in transcode): so far as its input was read, its packets are
\* those of the cut, once each, in the order of the file, with their times; and
\* a job that was neither stopped nor ended by the muxer has read them all,
\* though it stops reading an input as soon as its streams have all reached the
\* recording time, and skips inputs that have no packet at the moment.
CutIsComplete ==
  ~job.getjpeg /\ ~job.discont =>
    \A s \in Streams :
      /\ {out[s][k].n : k \in DOMAIN out[s]}
           = {n \in Cut(s) : n < pos[job.fileOf[s]]}
      /\ \A k \in DOMAIN out[s] : out[s][k].dts = Time(s, out[s][k].n)
      /\ \A k, l \in DOMAIN out[s] : k < l => out[s][k].n < out[s][l].n
      /\ pc = "done" /\ ~received_sigterm /\ InOrder(s) =>
           \A n \in Cut(s) : n < pos[job.fileOf[s]]

\* The time a stream's output had reached before its last packet.
OptsBefore(s) ==
  IF Len(out[s]) = 1 THEN 0 ELSE out[s][Len(out[s]) - 1].dts + job.duration[s]

\* Every file feeds one stream, whose times begin at 0 or later.
OneEach ==
  /\ \A s, t \in Streams : job.fileOf[s] = job.fileOf[t] => s = t
  /\ \A s \in Streams : InOrder(s) /\ \A n \in Feeding(s) : Time(s, n) >= 0

\* Two inputs are read in step, so that the muxer need not hold back much of
\* either (the selection by smallest output time in transcode): before the last
\* packet copied from one of them its output was not ahead of any other's that
\* can still be read, unless an input had no packet for a while.
Balanced ==
  ~job.getjpeg /\ ~job.discont /\ again = 0 /\ OneEach =>
    \A s, t \in Streams :
      s # t /\ out[s] # <<>> /\ Eligible(t) => OptsBefore(s) <= Opts(t)

\* The clock of a copied stream runs on where the parts of a concatenated input
\* join (the correction of ts_offset in transcode): from one packet to the next
\* its time neither goes back by more than 1 nor departs from the time expected
\* by more than the threshold, though it is another stream's packet that may
\* have moved the offset they share.
ClockRunsOn ==
  ~job.getjpeg /\ job.discont =>
    \A s \in Streams : \A k \in 1..(Len(out[s]) - 1) :
      LET gap == out[s][k + 1].dts - out[s][k].dts
      IN  gap >= -1 /\ gap - job.duration[s] \in (0 - DtsDelta)..DtsDelta

\* The video packets of the only input of a job that extracts pictures, and the
\* number of them behind a packet.
Video == Feeding(1)
Raw(n) == job.input[1][n].time
Behind(n) == Cardinality({m \in Video : m > n})

\* The files for which the two properties below promise something: without
\* discontinuities, with a start that is not negative (else the seek, which takes
\* a request's time for a time of the file, may go too far), and pictures that
\* follow each other in time, the first of them a key frame.
Regular ==
  /\ ~job.discont /\ job.start >= 0
  /\ \A m, n \in Video : m < n => Raw(m) < Raw(n)
  /\ \E first \in Video : /\ job.input[1][first].key /\ Raw(first) >= job.start
                         /\ \A n \in Video : first <= n

\* A seek for request k does not fail: a picture is at or before its time, or the
\* demuxer takes that for the beginning.
SeekFinds(k) == job.rewinds \/ \E n \in Video : Raw(n) <= job.times[k]

\* Picture n is the first from the time of request k on, but for those that did
\* not decode and the one that another request for the same time was given.
Shows(k, n) ==
  LET time == job.times[k] + job.start
  IN  /\ Raw(n) >= time
      /\ \A m \in Video : m < n /\ Raw(m) >= time =>
           \/ m \in failed
           \/ k > 1 /\ m = images[k - 1].n /\ Raw(m) = time

\* Picture n is the last key frame up to the time of request k, or the first
\* that decodes after it. (A file that does not start at 0 gives an earlier one,
\* for the seek takes the request's time for a time of the file.)
ShowsKey(k, n) ==
  \E key \in Video :
    /\ key <= n /\ job.input[1][key].key
    /\ \A m \in Video : key <= m /\ m < n => m \in failed
    /\ \/ Raw(key) <= job.times[k] + job.start
       \/ \A m \in Video : key <= m
    /\ job.start = 0 =>
         \A m \in Video : key < m /\ job.input[1][m].key => Raw(m) > job.times[k]

\* Pictures belong to the requests whose names they bear (check_output_constraints,
\* the decision to seek in transcode_video, the seek and the flush in transcode):
\* requests may come in any order and be nearer to each other than two pictures,
\* the decoder may hold pictures back over a seek, and reading on serves some and
\* seeking others. None is from before its request's time, if that is sought
\* finely, though it comes from the flush after a stop or a seek failed; and one
\* written before the loop ends is the right one if a seek for it cannot fail,
\* whatever became of the seeks before.
PictureIsRight ==
  job.getjpeg /\ Regular =>
    \A k \in DOMAIN images :
      /\ ~job.coarse => Raw(images[k].n) >= job.times[k] + job.start
      /\ ~images[k].last /\ SeekFinds(k) =>
           IF job.coarse THEN ShowsKey(k, images[k].n) ELSE Shows(k, images[k].n)

\* There is a picture for request k, and enough packets behind it for the
\* decoder to give it back.
Reachable(k) ==
  IF job.coarse
  THEN \E n \in Video :
         /\ job.input[1][n].key
         /\ Raw(n) <= job.times[k] \/ \A m \in Video : n <= m
         /\ \A m \in Video : m > n /\ job.input[1][m].key => Raw(m) > job.times[k]
         /\ Behind(n) >= job.delay
  ELSE \E n \in Video :
         Raw(n) >= job.times[k] + job.start /\ Behind(n) > job.delay

\* No request is left out (jpeg_idx, g_need_seek and eof_reached in transcode
\* and transcode_video): a job whose seeks cannot fail and that runs to its end
\* without a decoding error gives every request for which there is a picture one,
\* before the loop ends, however far back or ahead of the last the request was.
AllServed ==
  /\ job.getjpeg /\ Regular
  /\ pc = "done" /\ ~received_sigterm /\ failed = {}
  /\ \A k \in 1..Requests : Reachable(k) /\ SeekFinds(k)
  => Len(images) = Requests /\ \A k \in DOMAIN images : ~images[k].last

\* Every job comes to an end (the loop in transcode): no seek takes the reading
\* back for ever, and no input without a packet is asked for ever.
LoopEnds == <>Ended
=============================================================================
