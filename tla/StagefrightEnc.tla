--------------------------- MODULE StagefrightEnc ----------------------------
(***************************************************************************)
(* The Stagefright H.264 encoder of src/libffmpeg/libavcodec/              *)
(* astagefright_264enc_ics.cpp: FFmpeg pushes a frame per call and takes a *)
(* packet if there is one; Android's encoder pulls frames and pushes       *)
(* packets from a thread the wrapper creates. Between them are two queues: *)
(*                                                                         *)
(*    caller --in_queue--> encoder (in encoder thread) --out_queue--> caller *)
(*                                                                         *)
(* An action is a maximal run of code the other thread can only observe as *)
(* a whole. Pictures are told apart by the order in which they were given. *)
(*                                                                         *)
(* A definition marked "Bug" is a plausible mistake in the definition that *)
(* follows it, kept to see which property such a mistake would break.      *)
(***************************************************************************)
EXTENDS Integers, Sequences

CONSTANTS
  QueueMax,      \* frames either queue takes (10 in the code)
  Depth,         \* frames Android's encoder holds at most
  MaxFrames,     \* bound: pictures the caller encodes
  FlushInputs,   \* what the caller flushes with: "blank", "NULL"
  EncoderFails,  \* may Android's encoder report an error?
  MallocFails    \* may the encoder thread run out of memory?

\* The encoder works inside a read with fewer frames than a queue takes.
ASSUME DepthAssumption ==
  /\ QueueMax \in Nat /\ Depth \in Nat \ {0} /\ Depth + 2 <= QueueMax

ASSUME CallerAssumption ==
  /\ MaxFrames \in Nat
  /\ FlushInputs \subseteq {"blank", "NULL"}
  /\ EncoderFails \in BOOLEAN /\ MallocFails \in BOOLEAN

VARIABLES
  thread_started,
  thread_exited,
  stop_encode,
  source_done,
  end_frame,    \* is the pointer s->end_frame still set?
  in_queue,
  out_queue,
  call,         \* the caller: where it is, its input, the last result
  et,           \* the encoder thread and its frame
  omx,          \* Android's encoder: pictures held, header sent, end seen
  calls,        \* pictures passed so far (bound)
  given,        \* pictures put in in_queue, in order
  returned,     \* pictures whose packets the caller got, in order
  released      \* pictures freed by close, in order

flags == <<thread_started, thread_exited, stop_encode, source_done>>
history == <<given, returned, released>>
vars == <<flags, end_frame, in_queue, out_queue, call, et, omx, calls, history>>

-----------------------------------------------------------------------------
\* A Frame of either queue: `pic` is the picture in its buffer or mbuffer, 0
\* for none; "header" is the codec configuration Android's encoder sends
\* first; "end" marks the one object allocated as s->end_frame, "null" a null
\* pointer in a queue.
Picture(n) == [status |-> "OK", kind |-> "picture", pic |-> n]
Header == [status |-> "OK", kind |-> "header", pic |-> 0]
Failure(s) == [status |-> s, kind |-> "none", pic |-> 0]
EndFrame(s) == [status |-> s, kind |-> "end", pic |-> 0]
NullFrame == [status |-> "ERROR", kind |-> "null", pic |-> 0]

Empty == [held |-> <<>>, header |-> FALSE, eos |-> FALSE]
NoThread == [pc |-> "none", frame |-> Failure("OK"), encode_done |-> FALSE]

Init ==
  /\ thread_started = FALSE /\ thread_exited = FALSE
  /\ stop_encode = FALSE /\ source_done = FALSE /\ end_frame = TRUE
  /\ in_queue = <<>> /\ out_queue = <<>>
  /\ call = [pc |-> "idle", input |-> "picture", pic |-> 0, ret |-> "none"]
  /\ et = NoThread /\ omx = Empty /\ calls = 0
  /\ given = <<>> /\ returned = <<>> /\ released = <<>>

-----------------------------------------------------------------------------
(* The caller: Stagefright_Ics_H264_frame                                  *)

\* A null pointer was followed: nothing runs any more.
Die == call' = [call EXCEPT !.pc = "dead"] /\ et' = [et EXCEPT !.pc = "dead"]

Return(ret) == call' = [call EXCEPT !.pc = "idle", !.ret = ret]

\* The encoder thread is created by the first call, whatever its input.
StartThread ==
  /\ thread_started' = TRUE
  /\ et' = IF thread_started THEN et ELSE [NoThread EXCEPT !.pc = "alloc"]

\* A picture is copied to a new frame; once the thread is known to be gone
\* it is ignored.
FrameCall ==
  /\ call.pc = "idle" /\ call.input = "picture"
  /\ calls < MaxFrames
  /\ calls' = calls + 1
  /\ StartThread
  /\ call' = [pc |-> IF source_done THEN "out" ELSE "push",
              input |-> "picture", pic |-> calls + 1, ret |-> "none"]
  /\ UNCHANGED <<thread_exited, stop_encode, source_done, end_frame, in_queue, out_queue, omx,
                 history>>

\* A call without a picture, to flush: callers repeat it, after the last
\* picture, until it returns nothing. No end of stream is queued.
FlushCall ==
  /\ call.pc = "idle"
  /\ call.input = "picture" \/ call.ret = "packet"
  /\ StartThread
  /\ \E i \in FlushInputs : call' = [pc |-> "out", input |-> i, pic |-> 0, ret |-> "none"]
  /\ UNCHANGED <<thread_exited, stop_encode, source_done, end_frame, in_queue, out_queue, omx,
                 calls, history>>

\* thread_exited is read without a lock. If it is set the frame goes nowhere.
PushTest ==
  /\ call.pc = "push"
  /\ source_done' = (source_done \/ thread_exited)
  /\ call' = [call EXCEPT !.pc = IF thread_exited THEN "out" ELSE "pushing"]
  /\ UNCHANGED <<thread_started, thread_exited, stop_encode, end_frame, in_queue, out_queue, et,
                 omx, calls, history>>

\* Bug: the call returns at once, without looking for a packet.
PushReturns ==
  /\ call.pc = "pushing" /\ Len(in_queue) < QueueMax
  /\ in_queue' = Append(in_queue, Picture(call.pic))
  /\ given' = Append(given, call.pic)
  /\ Return("nothing")
  /\ UNCHANGED <<flags, end_frame, out_queue, et, omx, calls, returned, released>>

\* Under in_mutex: the frame is queued and the encoder signalled, or the
\* call sleeps and tries again.
Push ==
  /\ call.pc = "pushing"
  /\ IF Len(in_queue) >= QueueMax
       THEN call' = [call EXCEPT !.pc = "push"] /\ UNCHANGED <<in_queue, given>>
       ELSE /\ in_queue' = Append(in_queue, Picture(call.pic))
            /\ given' = Append(given, call.pic)
            /\ call' = [call EXCEPT !.pc = "out"]
  /\ UNCHANGED <<flags, end_frame, out_queue, et, omx, calls, returned, released>>

\* Bug: an empty queue is waited for until the thread is gone.
OutEmptyWaits ==
  /\ call.pc = "out" /\ out_queue = <<>>
  /\ source_done
  /\ Return("nothing")
  /\ UNCHANGED <<flags, end_frame, in_queue, out_queue, et, omx, calls, history>>

\* An empty out_queue: the call returns nothing, unless the encoder thread is
\* known to be gone, when it waits for packets nobody will bring.
OutEmpty ==
  /\ call.pc = "out" /\ out_queue = <<>>
  /\ ~source_done
  /\ Return("nothing")
  /\ UNCHANGED <<flags, end_frame, in_queue, out_queue, et, omx, calls, history>>

\* Bug: the newest packet is taken.
DeliverNewest ==
  /\ call.pc = "out" /\ out_queue # <<>>
  /\ LET f == out_queue[Len(out_queue)]
     IN  IF f.kind = "picture"
           THEN Return("packet") /\ returned' = Append(returned, f.pic)
           ELSE Return("nothing") /\ UNCHANGED returned
  /\ out_queue' = SubSeq(out_queue, 1, Len(out_queue) - 1)
  /\ UNCHANGED <<flags, end_frame, in_queue, et, omx, calls, given, released>>

\* The oldest frame of out_queue. Its time is stored through the caller's
\* AVFrame, NULL or not. An end of stream, a failure and the header (which
\* becomes the extradata; the flag GLOBAL_HEADER is set) return nothing.
Deliver ==
  /\ call.pc = "out" /\ out_queue # <<>>
  /\ LET f == Head(out_queue)
     IN  CASE call.input = "NULL" ->
                Die /\ UNCHANGED returned
           [] call.input # "NULL" /\ f.kind = "picture" ->
                Return("packet") /\ returned' = Append(returned, f.pic) /\ UNCHANGED et
           [] OTHER -> Return("nothing") /\ UNCHANGED <<returned, et>>
  /\ out_queue' = Tail(out_queue)
  /\ UNCHANGED <<flags, end_frame, in_queue, omx, calls, given, released>>

-----------------------------------------------------------------------------
(* The caller: Stagefright_Ics_H264_close                                  *)

\* The pictures of a queue of frames.
Pictures(q) ==
  LET first[k \in 0..Len(q)] ==
        IF k = 0 THEN <<>>
        ELSE IF q[k].kind = "picture" THEN Append(first[k - 1], q[k].pic) ELSE first[k - 1]
  IN  first[Len(q)]

\* Bug: the thread is not told to stop.
CloseCallUntold ==
  /\ call.pc = "idle"
  /\ call' = [call EXCEPT !.pc = CASE ~thread_started -> "close_free"
                                   [] thread_started /\ thread_exited -> "close_join"
                                   [] OTHER -> "close_drain"]
  /\ UNCHANGED <<flags, end_frame, in_queue, out_queue, et, omx, calls, history>>

\* A thread that has not exited is told to.
CloseCall ==
  /\ call.pc = "idle"
  /\ stop_encode' = (stop_encode \/ (thread_started /\ ~thread_exited))
  /\ call' = [call EXCEPT !.pc = CASE ~thread_started -> "close_free"
                                   [] thread_started /\ thread_exited -> "close_join"
                                   [] OTHER -> "close_drain"]
  /\ UNCHANGED <<thread_started, thread_exited, source_done, end_frame, in_queue, out_queue, et,
                 omx, calls, history>>

\* Under out_mutex: room for what the thread still has to queue.
CloseDrain ==
  /\ call.pc = "close_drain"
  /\ released' = released \o Pictures(out_queue)
  /\ out_queue' = <<>>
  /\ call' = [call EXCEPT !.pc = "close_eos"]
  /\ UNCHANGED <<flags, end_frame, in_queue, et, omx, calls, given, returned>>

\* Under in_mutex: s->end_frame is looked at, to set its status, and looked at
\* again, to queue it and wake an encoder that waits for input. The encoder
\* thread does not take in_mutex to take the end frame for itself: the pointer
\* can be NULL at the first look, and at the second.
CloseStatus ==
  /\ call.pc = "close_eos"
  /\ IF end_frame THEN call' = [call EXCEPT !.pc = "close_push"] /\ UNCHANGED et ELSE Die
  /\ UNCHANGED <<flags, end_frame, in_queue, out_queue, omx, calls, history>>

CloseEos ==
  /\ call.pc = "close_push"
  /\ in_queue' = Append(in_queue, IF end_frame THEN EndFrame("EOS") ELSE NullFrame)
  /\ call' = [call EXCEPT !.pc = "close_forget"]
  /\ UNCHANGED <<flags, end_frame, out_queue, et, omx, calls, history>>

\* The mutex is released before the pointer is cleared.
CloseForget ==
  /\ call.pc = "close_forget"
  /\ end_frame' = FALSE
  /\ call' = [call EXCEPT !.pc = "close_join"]
  /\ UNCHANGED <<flags, in_queue, out_queue, et, omx, calls, history>>

CloseJoin ==
  /\ call.pc = "close_join"
  /\ et.pc = "done"
  /\ thread_started' = FALSE
  /\ call' = [call EXCEPT !.pc = "close_free"]
  /\ UNCHANGED <<thread_exited, stop_encode, source_done, end_frame, in_queue, out_queue, et, omx,
                 calls, history>>

\* Without locks: both queues are emptied, Android's encoder is stopped, and
\* everything is deleted. The context is not used again. A null pointer in
\* in_queue is followed.
CloseFree ==
  /\ call.pc = "close_free"
  /\ IF \E k \in DOMAIN in_queue : in_queue[k].kind = "null"
       THEN Die /\ UNCHANGED <<in_queue, out_queue, omx, released>>
       ELSE /\ released' = released \o Pictures(out_queue) \o omx.held \o Pictures(in_queue)
            /\ in_queue' = <<>> /\ out_queue' = <<>> /\ omx' = Empty
            /\ call' = [call EXCEPT !.pc = "closed"]
            /\ UNCHANGED et
  /\ UNCHANGED <<flags, end_frame, calls, given, returned>>

-----------------------------------------------------------------------------
(* The encoder thread: encode_thread                                       *)

\* A new frame for the result; without memory the end frame is the result,
\* if close has not taken it and cleared the pointer.
EtAlloc ==
  /\ et.pc = "alloc"
  /\ \/ et' = [et EXCEPT !.pc = "read"] /\ UNCHANGED call
     \/ /\ MallocFails /\ end_frame
        /\ et' = [pc |-> "forget", frame |-> EndFrame("ENOMEM"), encode_done |-> TRUE]
        /\ UNCHANGED call
     \/ MallocFails /\ ~end_frame /\ Die
  /\ UNCHANGED <<flags, end_frame, in_queue, out_queue, omx, calls, history>>

EtForget ==
  /\ et.pc = "forget"
  /\ end_frame' = FALSE
  /\ et' = [et EXCEPT !.pc = "push"]
  /\ UNCHANGED <<flags, in_queue, out_queue, call, omx, calls, history>>

\* Inside (*s->encoder)->read: Android's encoder calls CustomEncSource::read,
\* which waits for a frame, takes it and frees it. Anything but a picture
\* ends its input. MediaBufferGroup::acquire_buffer, Android's, waits for the
\* group's buffer and is taken to return it: the branch for a failure, which
\* frees the picture unencoded and ends the input, is left out.
SourceRead ==
  /\ et.pc = "read"
  /\ Len(omx.held) < Depth /\ ~omx.eos
  /\ in_queue # <<>>
  /\ LET f == Head(in_queue)
     IN  omx' = IF f.status = "OK" THEN [omx EXCEPT !.held = Append(@, f.pic)]
                                   ELSE [omx EXCEPT !.eos = TRUE]
  /\ in_queue' = Tail(in_queue)
  /\ UNCHANGED <<flags, end_frame, out_queue, call, et, calls, history>>

\* What (*s->encoder)->read returns: the header before the first picture,
\* then the pictures in order (the baseline profile does not reorder), at the
\* end of its input the end of stream.
EtHeader ==
  /\ et.pc = "read"
  /\ omx.held # <<>> /\ ~omx.header
  /\ omx' = [omx EXCEPT !.header = TRUE]
  /\ et' = [et EXCEPT !.pc = "push", !.frame = Header]
  /\ UNCHANGED <<flags, end_frame, in_queue, out_queue, call, calls, history>>

EtPicture ==
  /\ et.pc = "read"
  /\ omx.held # <<>> /\ omx.header
  /\ omx' = [omx EXCEPT !.held = Tail(@)]
  /\ et' = [et EXCEPT !.pc = "push", !.frame = Picture(Head(omx.held))]
  /\ UNCHANGED <<flags, end_frame, in_queue, out_queue, call, calls, history>>

\* Anything but OK ends the thread.
EtEnd ==
  /\ et.pc = "read"
  /\ \/ /\ omx.eos /\ omx.held = <<>>
        /\ et' = [pc |-> "push", frame |-> Failure("EOS"), encode_done |-> TRUE]
     \/ /\ EncoderFails
        /\ et' = [pc |-> "push", frame |-> Failure("ERROR"), encode_done |-> TRUE]
  /\ UNCHANGED <<flags, end_frame, in_queue, out_queue, call, omx, calls, history>>

\* Bug: one frame more than the queue takes.
EtPushOneMore ==
  /\ et.pc = "push"
  /\ Len(out_queue) <= QueueMax
  /\ out_queue' = Append(out_queue, et.frame)
  /\ et' = [et EXCEPT !.pc = "test", !.frame = Failure("OK")]
  /\ UNCHANGED <<flags, end_frame, in_queue, call, omx, calls, history>>

\* Under out_mutex, once there is room (the thread sleeps and tries again).
EtPush ==
  /\ et.pc = "push"
  /\ Len(out_queue) < QueueMax
  /\ out_queue' = Append(out_queue, et.frame)
  /\ et' = [et EXCEPT !.pc = "test", !.frame = Failure("OK")]
  /\ UNCHANGED <<flags, end_frame, in_queue, call, omx, calls, history>>

\* stop_encode is read without a lock.
EtTest ==
  /\ et.pc = "test"
  /\ et' = [et EXCEPT !.pc = IF et.encode_done \/ stop_encode THEN "exit" ELSE "alloc"]
  /\ UNCHANGED <<flags, end_frame, in_queue, out_queue, call, omx, calls, history>>

EtExit ==
  /\ et.pc = "exit"
  /\ thread_exited' = TRUE
  /\ et' = [et EXCEPT !.pc = "done"]
  /\ UNCHANGED <<thread_started, stop_encode, source_done, end_frame, in_queue, out_queue, call,
                 omx, calls, history>>

-----------------------------------------------------------------------------
InCall == PushTest \/ Push \/ OutEmpty \/ Deliver
Closing == CloseDrain \/ CloseStatus \/ CloseEos \/ CloseForget \/ CloseJoin \/ CloseFree
Caller == FrameCall \/ FlushCall \/ InCall \/ CloseCall \/ Closing
EncoderThread ==
  EtAlloc \/ EtForget \/ SourceRead \/ EtHeader \/ EtPicture \/ EtEnd \/ EtPush \/ EtTest \/ EtExit

Next == Caller \/ EncoderThread

Spec == Init /\ [][Next]_vars

\* A call goes on, the encoder thread goes on, and Android's encoder takes
\* input while it may; it owes output only when it holds all it can or its
\* input has ended. Nothing obliges the caller to call.
OwesOutput == Len(omx.held) = Depth \/ omx.eos
Fairness ==
  /\ WF_vars(InCall \/ Closing)
  /\ WF_vars(\/ EtAlloc \/ EtForget \/ SourceRead \/ EtPush \/ EtTest \/ EtExit
             \/ OwesOutput /\ (EtHeader \/ EtPicture \/ EtEnd))

FairSpec == Spec /\ Fairness

-----------------------------------------------------------------------------
(* Properties                                                              *)

FrameType ==
  [status : {"OK", "EOS", "ERROR", "ENOMEM"}, kind : {"picture", "header", "none", "end", "null"}, pic : Nat]

\* The types of the groups of variables.
FlagsType ==
  /\ thread_started \in BOOLEAN /\ thread_exited \in BOOLEAN
  /\ stop_encode \in BOOLEAN /\ source_done \in BOOLEAN /\ end_frame \in BOOLEAN
QueuesType ==
  /\ in_queue \in Seq(FrameType) /\ Len(in_queue) <= QueueMax + 1
  /\ out_queue \in Seq(FrameType) /\ Len(out_queue) <= QueueMax
CallType ==
  call \in [pc : {"idle", "push", "pushing", "out", "close_drain", "close_eos", "close_push",
                  "close_forget", "close_join", "close_free", "closed", "dead"},
            input : {"picture", "blank", "NULL"}, pic : Nat, ret : {"none", "packet", "nothing"}]
ThreadType ==
  et \in [pc : {"none", "alloc", "forget", "read", "push", "test", "exit", "done", "dead"},
          frame : FrameType, encode_done : BOOLEAN]
EncoderType ==
  omx \in [held : Seq(Nat), header : BOOLEAN, eos : BOOLEAN] /\ Len(omx.held) <= Depth
HistoryType ==
  calls \in Nat /\ given \in Seq(Nat) /\ returned \in Seq(Nat) /\ released \in Seq(Nat)

\* Every field has a value the code can give it; the queues keep their
\* bounds, in_queue with the end frame one more.
TypeOK ==
  FlagsType /\ QueuesType /\ CallType /\ ThreadType /\ EncoderType /\ HistoryType

\* The pictures on their way, the next to be returned first.
InFlight == Pictures(out_queue) \o Pictures(<<et.frame>>) \o omx.held \o Pictures(in_queue)

\* Each picture queued is in one place only, in the order of the calls:
\* returned, freed by close, or on its way; close frees what was on its way.
\* (The one packet a flush with NULL dies over is not counted.)
PicturesConserved == call.pc # "dead" => given = returned \o released \o InFlight

\* The caller and the encoder thread never both sleep on a full queue that
\* only the other would empty.
NoMutualWait ==
  ~ (/\ call.pc \in {"push", "pushing"} /\ Len(in_queue) >= QueueMax
     /\ et.pc = "push" /\ Len(out_queue) >= QueueMax)

\* A call returns, whatever the encoder delays, as long as the encoder thread
\* goes on (or follows the NULL it flushes with).
FrameReturns ==
  (call.pc \in {"push", "pushing", "out"}) ~> (call.pc \in {"idle", "dead"} \/ et.encode_done)

\* Close returns: the thread, asleep on a full queue, waiting for input or
\* about to test stop_encode, is joined (or a null pointer is followed).
CloseReturns == (call.pc = "close_drain") ~> (call.pc \in {"closed", "dead"})

-----------------------------------------------------------------------------
\* The wrapper as a DelayingEncoder, closed from the call of close.
IsOpen == call.pc \in {"idle", "push", "pushing", "out"}

Abstract == INSTANCE DelayingEncoder WITH
  Pic <- 1..MaxFrames,
  open <- IsOpen,
  held <- IF IsOpen THEN InFlight ELSE <<>>,
  packets <- returned

\* Queues, encoder thread and Android's encoder, as a whole, are an encoder
\* that delays: what RealTimeEnc assumes of avcodec_encode_video.
WrapperIsEncoder == Abstract!Spec

-----------------------------------------------------------------------------
(* What comments of the code say and the code does not do                  *)

\* CODEC_CAP_DELAY (avcodec.h:751-766): fed with NULL at the end until the
\* encoder no longer returns data, it has returned all of its output.
FlushIsComplete ==
  call.pc = "idle" /\ call.input # "picture" /\ call.ret = "nothing" => InFlight = <<>>

\* av_freep (libavutil/mem.h:146-150) frees "a memory block which has been
\* allocated": close, which frees the frames of both queues, never finds the
\* end frame in both.
FreedOnce ==
  call.pc = "close_free" =>
    ~ \E j \in DOMAIN in_queue, k \in DOMAIN out_queue :
        in_queue[j].kind = "end" /\ out_queue[k].kind = "end"
=============================================================================
