# Verification of hwcodec

hwcodec is the native half of an Android video editor and recorder: a JNI
library around a modified FFmpeg 0.10, with hardware encoders of several
vendors. This directory holds TLA+ models of the code that is its own, the TLC
runs that check them on small instances, and TLAPS proofs of the properties
that matter most for instances of every size.

Paths below are relative to `src/`; `RealTimeEnc.cpp` and the other C++ files
without a directory are in `src/interface/`.

## Inventory

### Recorder: `RealTimeEnc.cpp`, `RealTimeEnc.h`

`CRealTimeEnc`, a singleton. Five threads share it without a common lock:

| thread | calls or function | what it does |
|---|---|---|
| control | `realtime_enc_initial`, `realtime_enc_start`, `realtime_enc_stop` | opens the file and codecs, initialises the lists, creates and joins the two encoder threads, writes the trailer, frees everything |
| camera | `realtime_enc_set_videodata` | stamps a frame, fills a slot of the video list |
| microphone, decoder | `realtime_enc_set_audiodata` | stamps a chunk, copies it to a slot of the audio list |
| video encoder | `video_encoder_thread_function` | takes frames, encodes, writes packets, flushes |
| audio encoder | `audio_encoder_thread_function` | takes chunks, cuts them into codec frames, encodes, writes packets |

State: two ring lists of preallocated buffers, each with a mutex; the flag
`m_nExit_` and the states `m_state_video_`, `m_state_audio_`, written and read
without a lock; the output context, two stream pointers and the output buffer;
a third mutex for the muxer; the last stamps.
Hard: the encoder threads test the flag and the list unlocked; a slot is
released before it is encoded; objects are freed under a mutex their users need
not hold; half of a start may fail and leave its objects; a stop may come at any
time. Correct when frames keep their order from list to file, no thread touches
a freed session, the muxer is entered by one thread at a time and not after the
trailer, frames accepted before the stop are encoded, stamps increase, and a
stop always ends.

### Stagefright encoder wrapper: `libffmpeg/libavcodec/astagefright_264enc_ics.cpp`

Adapts Android's pull-model `OMXCodec` to FFmpeg's push-model `encode`. State:
`in_queue` and `out_queue` with their mutexes, a condition variable, the flags
`thread_started`, `thread_exited`, `stop_encode`, `source_done`. Two threads:
the caller (`Stagefright_Ics_H264_frame`, `Stagefright_Ics_H264_close`) and the
encoder thread, which pulls frames through `CustomEncSource::read`. Hard: flags
read without a lock, both queues bounded at 10 with sleeping retries on either
side, a close in the middle of everything. Correct when frames keep their order,
none is freed twice, neither side waits for the other forever, and close
returns.

### Transcode jobs: `CThread.cpp`, `interface.cpp`, `libffmpeg/ffmpeg.c`

`interface.cpp` builds command lines from Java arguments and passes them to the
global `CThread`, which runs `ffmpeg_main` on a thread of its own and waits for
it; `nativeStop` sets the terminate flag from another thread. `ffmpeg.c` keeps
everything in globals that `Global_variables_init` resets at each call. State:
`m_state_inner_`, `m_tid_`, the callback pointer; `received_sigterm`, the file
tables, progress and error callbacks. Hard: state tested and set without a
lock, the terminate flag reset by a job that is starting, errors reported
twice, `exit_program` unwinding half-opened jobs. Correct when one job runs at
a time, a stop cuts only the job it was meant for and ends that, and what the
listener hears last of a job is how it ended.

### The transcoder's loop: `libffmpeg/ffmpeg.c`, `transcode` and `output_packet`

What a job does between opening and closing its files: select an input, seek it
if pictures are to be extracted from somewhere else, read a packet, correct its
times, and copy it or decode it. State: position, `eof_reached` and `no_packet`
of each input; the time offset its streams share; clocks of the input streams
and of the output streams, which decide what is read next; the requests for
pictures with `jpeg_idx` and `g_need_seek`; the pictures the decoder holds back.
One thread, with a stop from another. Hard: every one of these is set in one
iteration and used in a later one, seeks reset some of them and not others, and
most only matter with two inputs, out-of-order requests, a decoder that delays,
or a discontinuity. Correct when a copied stream is the whole cut in order,
inputs are read in step, clocks run on where clips join, each picture is the one
its request asked for, no request is left out, and the loop ends.

### Interleaving muxer: `libffmpeg/libavformat/utils.c`

FFmpeg's interleaver with local changes. Correct when packets of a stream stay in
order, packets of several come out by decoding time, and the trailer drains the
buffer.

### Audio decoder: `AudioDec.cpp`

`CRealAudioDec`: start, one call per sample block, stop, on one context, without
locks and without a thread of its own.

### Other encoders

The Qualcomm and Samsung adapters (`aqcom264*.cpp`, `asamsung264*.c`) and
`libstagefright.cpp`.

## Not modelled

* `AudioDec.cpp`: three calls whose only shared state is the pointer
  `m_context`. Called in turn there is nothing to go wrong; what they may do out
  of turn nothing says (`PROJECT.json` lists what they would do). Its samples
  enter the recorder as `AudioCall`.
* The Qualcomm encoder, which has a callback thread and a ring of its own,
  cannot be selected: `QCOM_H264_encodeIsAvailable` returns 0
  (`aqcom264enc.cpp:134`) and its decoder is configured out. The Samsung adapters
  drive a library that is not in the repository.
* Jobs that encode sound or moving pictures (`do_audio_out`, `do_video_out`,
  filters, rate control), `-vframes`, `-ss` of an output. The fast slicer: its one
  caller is in a commented block of `nativeVideoCut`. The look `transcode`
  takes at the last second of the first input, after which it seeks back to where
  the loop begins (`ffmpeg.c:4375-4394`).
* `libffmpeg/realtimeEnc.c` and others that are not built.
* The rest of FFmpeg 0.10. It is nearly all of the repository's lines, so the
  part the models cover stays a small share of them; of what is the project's
  own or changed by it, the parts above are what has state that outlives a call.

## The modules

| module | role |
|---|---|
| `FrameList` | the ring list of both recorder lists: slots, positions, count (`RealTimeEnc.h`) |
| `RealTimeEnc` | the recorder: five threads, three mutexes, sessions |
| `Recording` | abstract: what a recording promises of its frames |
| `RealTimeEncInv` | the recorder's inductive invariant `IInv`, in ten named parts |
| `RealTimeEncProofs` | lemmas on the ring; type correctness, the invariant and the safety theorems |
| `FrameOrderProofs` | the order of frames and timestamps, the refinement of `Recording`, the count of samples |
| `StagefrightEnc` | the wrapper: caller, encoder thread, Android's encoder, two queues |
| `DelayingEncoder` | abstract: an encoder that holds pictures and returns them in order |
| `StagefrightEncProofs` | the two threads never wait for each other; no picture is lost; the refinement of `DelayingEncoder` |
| `Interleaver` | the muxer's packet list, timestamp checks and trailer |
| `InterleaverProofs` | its safety theorems |
| `Jobs` | the calls that run jobs, CThread, the stop, a job from entry to exit |
| `JobsProofs` | its safety theorems |
| `Transcoder` | the loop: copied streams, extracted pictures |
| `TranscoderProofs`, `PictureProofs` | types, complete cuts, balance and clocks; the right picture for every request, and one for each |
| `Induction` | induction over numbers and functions defined step by step, for the proofs about sequences |
| `MC...` | constants for TLC |

`StagefrightEnc` implements `DelayingEncoder`, and `RealTimeEnc` takes pictures
back from its video encoder the way a `DelayingEncoder` returns them: the two
meet there. `RealTimeEnc` writes packets one at a time, by `writer`; what the
muxer does with them is `Interleaver`. `Jobs` has the loop of a job as one place
that progresses, ends or fails; `Transcoder` is what happens there.

Operators keep the names of the functions and fields they model. Every module
has its actions in the order of the code; an action is a maximal run of code
that other threads see as a whole, cut wherever a mutex is taken or released or
an unprotected shared field is read or written. Operators marked "Bug" are
mistakes a programmer could have made in the definition below; each property
has one that breaks it.

### How state and actions correspond

*RealTimeEnc.* `ctl` is the control thread's place in `realtime_enc_start`
(`open`, `lists`, `create_video`, `create_audio`) and `realtime_enc_stop`
(`join_audio` to `free`); `vp` and `ap` are the camera's and the audio source's
calls, waiting for a list's mutex or filling a slot; `ve` and `ae` are the
encoder threads, with `ve.slot` the slot `m_picture_` points into. `file`,
`m_pOutContext`, `m_video_stream`, `m_audio_stream` and `m_video_outbuf` are
what is allocated and closed, `writer` the holder of `m_av_write_mutex_`.
`accepted`, `stored` and the like are histories.

*StagefrightEnc.* `call` is the caller's place in frame or close, `et` the
encoder thread's, `omx` Android's encoder (external): the pictures it holds,
whether it sent its header and saw the end. `in_queue` and `out_queue` hold
records that say whether a frame is a picture, the header, the object
`s->end_frame` or a null pointer.

*Interleaver.* `packet_buffer` is the linked list as a sequence; the pointers
`last_in_packet_buffer` and `packet_buffer_end` name a packet by the number of
its call, so that a stale one is visible. `pts_buffer`, `cur_dts` are the
fields of the same names; `newest` and `wentBack` record, per stream, the
largest dts accepted and whether one ever went back.

*Jobs.* `calls[c].pc` is a Java thread's place in its native method and in
`StartThread`; `jobs[c].pc` the place of the thread it created in `ffmpeg_main`,
`transcode` and `exit_program`; `CallKind` lists what each native method sets,
whether it polls, and the jobs it runs. `received_sigterm`, `noError`,
`calltype`, `handler_callback`, `m_state_inner_`, `m_tid_` are the one copy the
code has.

*Transcoder.* `job` is a command line and the packets its inputs hold, chosen
once. `pc` is the place in an iteration (`select`, `seek`, `read`), then `flush`
and `done`, or `exit` from inside a write. `pos` is the next packet of each input,
`out` what each output stream gave the muxer, from which `st->pts` and
`st->cur_dts` follow, `decoder` the queue of pictures held back, `images` those
written. The other variables are the fields of their names. `again` counts the
reads that found no packet and `failed` holds the packets that did not decode;
both are capped.

## What is checked

TLC explores each instance completely. States are distinct states.

| run | states | shows |
|---|---|---|
| `recorder_video` | 79,021 | stamps keep their place from the list to the file, each over its own picture or the one that lapped it (`VideoFifo`); the slot being encoded is overwritten only by a call that fills the list; once the camera is silent a stop returns and leaves no session; accepted frames are taken |
| `recorder_audio` | 314,763 | no sample lost or encoded twice; neither the encoder thread nor an audio call that no stop has overtaken works on freed objects |
| `recorder_sessions` | 147,410 | `IInv`, no camera call on a freed session, muxer exclusive, owed frames drained before the trailer, packets increasing; refinement of `Recording` |
| `wrapper` | 80,728 | `TypeOK`, order and single ownership of pictures, no mutual wait, calls and close return; refinement of `DelayingEncoder` |
| `interleaver` | 4.91 million | `TypeOK`, pointers live, streams in order, file interleaved if no stream goes back, sound and subtitles rising above 0 (`RisingAboveZero`), reordering buffer in order, nothing lost |
| `jobs` | 618,910 | `TypeOK`, two transcoders only by one of two races (`TwoOnlyByARace`), cuts only by a job's own stop, true verdicts, progress, a call for the trailer; a stop ends a job whose input never ends |
| `transcoder` | 1.55 million | `TypeOK`; copied streams complete and in order, inputs read in step, clocks that run on; the right picture for each request and none left out where no seek fails; every job ends |

and five runs whose property the code violates:

| run | the repository says | the code does |
|---|---|---|
| `recorder_flush` | "flush delayed frames" | skips the flush, or ends it, when a call returned nothing: frames stay in the encoder |
| `recorder_junk` | the same comment | flushes with an uninitialised `AVFrame`, which the encoder takes for a picture |
| `recorder_tmpbuf` | "max size 320" | keeps up to a codec frame less one sample: 2 KB with AAC |
| `wrapper_flush` | NULL input until no data returns gives the complete output (`avcodec.h`) | returns nothing whenever `out_queue` is empty, with frames still inside |
| `wrapper_freed` | `av_freep` frees an allocated block | close and a thread without memory both queue `s->end_frame`, and close frees it twice |

The models show more. Nothing in the repository promises otherwise, so none of it
has a run; the properties say how far the code goes instead:

* A picture can be lost. `m_picture_` points into a slot that is released before
  it is encoded (`RealTimeEnc.cpp:860-863`); a camera that laps the list has its
  newer picture encoded under both stamps.
* A stop can be kept waiting. A camera call does not look at `m_nExit_` (the
  test at 465 is commented out), and the video thread drains its list before it
  exits: a camera that fills it as fast never lets `realtime_enc_stop` return.
* An audio call that a stop overtakes copies into a buffer that is freed
  (`RealTimeEnc.cpp:687`): the stop waits for no call.
* Two jobs can share the globals of `ffmpeg.c`. Polling for RUNNING
  (`interface.cpp:213`) misses a job whose RUNNING a stop replaced by THREADEXIT
  (`CThread.cpp:63`), and one that is not RUNNING yet (`CThread.cpp:46-48`).
* A job whose trailer could not be written is told as a success: the result at
  `ffmpeg.c:4893` is not used.
* A seek that fails is not noticed (`ffmpeg.c:4326`). A demuxer that keeps an
  index and does not take an earlier time for its beginning (avi;
  `utils.c:1850`) then reads on from where it is: the request gets a later
  picture, or none if the file ends first.
* `utils.c:3343` checks the dts of every stream but video, and a `cur_dts` of 0,
  or one that a refused packet without times has reset, switches the check off.
  A copied cut starts below 0, so a sound packet at 0 may be followed by one at
  -1. The file is interleaved as long as no stream goes back
  (`WrittenInterleaved`); above 0 only video can (`RisingAboveZero`). Packets left
  in the list by a trailer that failed are never freed.
* `astagefright_264enc_ics.cpp:439` writes through a pointer that is NULL when
  memory ran out, and close may follow or queue a NULL `end_frame` at 536 and 537.

### Bounds, and why they are enough

* Lists of two slots: a ring shows all its cases (empty, one, full, lapped by
  the writer) at two. Four camera calls lap it, in `recorder_video` all with the
  same time, so that every stamp is forced up; `recorder_sessions` varies the
  times. Four audio calls of one and three samples against frames of two leave
  every remainder. Two sessions are enough for the leftovers of one to meet the
  start of the next, whose every step may fail. `MaxJunk` caps the pictures a
  flush makes up.
* Queues of three and an encoder of depth one: the mutual wait depends on how
  depth and queue length compare. Trials with other sizes found it exactly when
  the depth reaches the queue length (with failures, two less); the code has
  queues of ten and encoders hold one or two. `DepthAssumption` and the proof
  cover all sizes below the threshold. Eight pictures fill both queues, the
  encoder and a call.
* Three streams (one that reorders by a frame, one audio, one subtitle, which
  nobody waits for), eleven kinds of packet, five calls: the shortest
  counterexamples to the mistakes tried take three or four.
* Two callers and three of the nine calls, one for each way to poll or not, to
  set handler and call type or not, and to run one job or two; the others differ
  in the values they set. A race needs two callers; `OneTranscoderRuns` covers
  more. `Full = 1` gives one progress value before -1. Nothing else is bounded:
  calls and stops go on for ever.
* 1924 jobs for the loop, in files of five to ten packets. Pictures: five, two
  units apart, with two or three key frames, so that a request can lie between
  pictures, on one, before or after the last key frame; up to three requests at
  four times in every order, so that each of equal, near, far ahead (`SeekGap` is
  3) and behind occurs after a seek and after reading on; a start of 0 and 3, a
  delay of 0 and 1; jobs that look for discontinuities, about whose pictures
  nothing is claimed, make at most two requests. Files that start at 3 are read
  by a demuxer that takes the requests 0 and 1 for its beginning and by one that
  fails to seek there, with at most two requests: one that fails before or after
  one that does not. Copies: two streams in one file, or one in each of two, with
  and without `-t`; clips that join 1 to 20 units out of place (`DtsDelta` is 5).
  Two reads without a packet can hit both inputs, one decoding error any picture.

`CHECK_DEADLOCK FALSE` is set where the application may stop calling; `jobs`
has no such end.

### Fairness

Only liveness runs use it. Threads that can run are scheduled: the encoder
threads and a begun start, stop, call or close (`RealTimeEnc`,
`StagefrightEnc`), a call's and a job's steps (`Jobs`, until two jobs meet).
Nothing obliges an application to call, a camera to deliver, an input to end or
anything to fail. Nothing in the code makes a camera stop delivering either, so
`StopReturns` and `StopCloses` have a hypothesis, `CameraFallsSilent`, which is
the application's to see to. (Under the bound `MaxVideoCalls` it holds of every
behaviour the run has. Taking a frame needs it too: a call on the camera's side
may go before the encoder thread at the mutex each time, and weak fairness of
the thread does not exclude that.) The loop's thread runs (`Transcoder`), its
files end and find no packet `MaxAgain` times at most: an input that never has a
packet again does keep a job until it is stopped, which `Jobs` checks. Android's
encoder must take what it may, and must give output only when it is full or its
input has ended: less would let close hang on a part that is not in the
repository. The polls with `usleep` need no more than weak fairness, since what
they wait for stays true once it is.

## What is proved

For every value of the constants that the named assumptions allow, by TLAPS:

* *Recorder.* `TypeCorrect`, `Invariance` and the safety theorems, for lists of
  any size and any number of calls and sessions. The properties are not
  inductive: that the muxer is entered once needs to know which threads exist at
  which point of a stop, that needs which flags each can have seen, and that a
  camera call works on a live session needs which objects exist at each place of
  the control thread. `IInv` is these facts in ten parts (threads, flags, calls,
  audio calls, producers, mutexes, session, lists, slot, owed frames); the proof
  has one lemma per action, under it one step per part the action touches. That
  does not settle the order of the frames, which has an invariant of its own
  (`FifoInv`): the captured frames past the list, then those in it, are the
  frames accepted, place by place round the ring. What a step does to the frames
  past the list is algebra of sequences (`PastForms`, `PastEncoded`). A frame
  being encoded shows what its released slot holds now, which is its own picture
  or the one a ring's length later, never one further on: by then the list is
  full, and further frames are refused until the thread takes one.
  `FramesKeepTheirPlace` follows and, with the order of the stamps (`StampsInv`:
  while a frame can still come in, the last stamp is the largest given),
  `PacketsInOrder`. `RecorderRecords` is the refinement of `Recording`: the
  packets written are the first of the frames accepted, so a write saves the
  next one, and the phase follows from the file and the control thread. The last
  two hold for a flush that encodes no picture of its own (`MaxJunk = 0`); the
  run `recorder_junk` shows what one does. `SamplesSafe` adds the audio side:
  samples accepted are those encoded, those left of a chunk (`ae.left`), those
  of the chunk in work (`ae.samples`) and those waiting. It needs to know at
  which places of the audio thread which of the two counts is in use
  (`AudioWorkInv`), and what a list that gains or loses a chunk adds up to
  (`StoreSamples`, `TakeSamples`).
* *Wrapper.* `NoMutualWait` for all `QueueMax` and `Depth` that
  `DepthAssumption` admits, by counting: what is between the caller and itself
  never reaches the twice `QueueMax` plus one it takes for both to sleep.
  `PicturesConserved` is an argument about a line: the pictures of `out_queue`,
  of the thread, of the encoder and of `in_queue`, one after the other, are those
  given and neither returned nor released. A call adds one at the end or takes
  one from the head, every other step moves one from a queue to the next, which
  is associativity, and close releases the line from its head. `CarriesInv` says
  what that needs of the frames: one in `in_queue` has status OK exactly when it
  carries a picture (that is all `CustomEncSource::read` looks at), the thread
  holds one only on its way to `out_queue`, and nothing is released before close
  drains. `WrapperDelays` is the refinement of `DelayingEncoder`: the same moves
  of the line, seen from the caller, take a picture, give the oldest back or
  change nothing, and a closed wrapper stays closed. The invariant ends where the
  code follows a null pointer (`call.pc = "dead"`), as the property does.
* *Interleaver.* Seven theorems from a thirteen-part invariant, for any number
  of streams, delays, times and failures. The heart: if the list's head may be
  written, every stream that is waited for has a packet in the list, none
  before the head; and a new packet of a stream that has not gone back is no
  earlier than that, so the file stays in order.
* *Jobs.* Six theorems for any number of callers, calls and stops. `Apart` says
  of any two calls on their way to a job that one polls for the other's RUNNING,
  or they have raced: one left its poll while the other was between its own and
  RUNNING, or a stop has set THREADEXIT over a running job (`OneTranscoderRuns`).
  As long as there is one job, what it finds in the globals (`JobOK`) depends on
  that job alone. Where two meet the model ends, and the theorems say nothing of
  what comes after.
* *Transcoder.* `CutsAreComplete` for any number of inputs and streams: the
  invariant ties what a stream gave the muxer to the packets its input was read
  up to, and says what each flag that stops the reading of a stream proves about
  the rest of it. `InputsAreBalanced` follows from how the last packet was
  chosen. `PicturesAreRight` for any file, requests, delay and errors: a picture
  is pending until it has come out of the decoder, and whenever no seek is due
  every picture that could serve the next request is still pending, but for the
  one its predecessor took (`FineInLine`), or the key frame a seek went to and
  all after it are (`CoarseInLine`). Reading on keeps it because a request that
  asks for no seek is not behind the picture: there the unsigned difference is
  used, and a signed one breaks the proof where it breaks the run. Both are said
  of the next request only if a seek for it cannot fail (`SeekFinds`); a seek
  that failed for an earlier one leaves nothing behind that matters, since
  whichever request is next seeks again or finds its picture ahead. That no
  finely sought picture is too early, flushed or not, needs only that what the
  decoder holds are pictures of the video with their times (`Decoded`).
  `RequestsAreServed` then has to show that the end of the file is not met while
  a request waits: the picture of that request and the packets behind it, more
  than the decoder's delay, would all still be held by a decoder that holds no
  more than its delay (`HeldBound`, `NoEndWhileWaiting`). `ClocksRunOn` follows
  the time a stream has reached and the one it expects next (`StreamClock`):
  after a packet that came too late for `-t` these are no longer those of the
  last packet written, but the recording time lies between. The corrected time
  of the next packet is within the threshold of the expected one whichever
  stream's correction moved the shared offset (`StampFollows`).

Two of the models' operators are recursive functions over sequences (`Pictures`
of a queue, `Samples` of chunks). What the proofs need of them is proved too, by
induction: `Induction` has it for sets of numbers instead of predicates, from the
library's theorem that < is well-founded on them, and with it that a function
defined step by step exists (`StepByStep`), hence equals its definition
(`PicturesRecursion`, `SamplesRecursion`), hence distributes over concatenation
(`PicturesConcat`, `SamplesConcat`).

Assumptions are the `ASSUME`s of the modules: positive sizes, ordered depths,
calls the code has, an `AV_NOPTS_VALUE` far below every packet's time. Contracts are
in the actions: `MayStart` (a start is not called over a running session)
and `MayCall` (a call that does not poll is made when no other is under way).
Stops may come at any time. Where Java breaks these, the hazards list in
`PROJECT.json` says what the code does.

Every invariant, action property and refinement a passing run checks is proved.
Model-checked only are the liveness properties, which the prover has no rules for
(`StopReturns`, `StopCloses`, `AcceptedIsEncoded`, `FrameReturns`, `CloseReturns`,
`StopEndsTheJob`, `LoopEnds`), and the five violations. The recorder's `TypeOK`
and `ClosedFileStays` are proved and not run.

## What is abstracted

* Pictures, samples and packets are numbers; pixel conversion and codecs are
  left out. Times are integers, and the recorder's double arithmetic is exact
  (`VideoTicks`; the 25 ticks a second that stand in for an audio frequency that
  is not positive are one more value of `AudioFreq`). The clock does not run
  backwards.
* Recorder: memory does not run out; `join` of a stale thread identifier is an
  error that changes nothing.
* Wrapper: `pthread_create` and the steps of init do not fail, nor does the
  caller's memory; Android's `acquire_buffer` waits until it has a buffer and
  gives it, so the branch that frees the picture unencoded when it fails
  (`astagefright_264enc_ics.cpp:106-118`) is left out; Android's encoder pulls
  frames in the encoder thread.
* Interleaver: one time base and one packet duration per stream; no chunking,
  `audio_preload`, `AVFMT_NOTIMESTAMPS` or fast slicer; `av_dup_packet` does not
  fail. A stream that stays silent lets the list grow until patience ends.
* Transcoder: a packet's pts is its dts, so there are no B-frames, and times
  have one unit; a packet decodes to one picture or to an error; the encoder of
  pictures and the muxer take all but what `Refused` says. `do_video_out` may
  write a picture more than once under one name, which is once here. A job
  without requests seeks before it ends; the model does not. Seeking is that of
  demuxers with an index of the whole file (mov, matroska, avi); those that
  search by time stamps, as for transport streams, are left out. Nothing is
  claimed for pictures from inputs with discontinuities or a negative start. In
  coarse mode a file that does not start at 0 gives an earlier key frame than
  its request's, because the seek takes the request's time for the file's;
  `ShowsKey` allows that. Equal times get consecutive pictures in fine mode.
  Pictures the decoder still holds when the loop ends are written under the
  names of the requests that are left, after a stop too; of these
  `PictureIsRight` says only that a finely sought one is not from before its
  request's time. `eof_reached` is not reset by a seek: no seek follows the end
  of a file, as `AllServed` shows for requests that have a picture. Streams of
  one file share an offset that either may move; the clock of each is checked,
  their sync with each other is not.
* Jobs: whether `av_write_trailer` succeeds, which the code does not look at;
  the file tables of `ffmpeg.c`, argument strings, the pixel buffer of
  `nativegetImageData`, the number of a JPEG; callbacks are registered and Java
  is attachable. `nativeTranscodeBitrate` is not registered and left out.
  Options of `ffmpeg` that no call passes are off.

## Plan

Done: recorder, wrapper, interleaver, jobs and the transcoder's loop, each
checked and with every safety property and refinement proved.

What would come next: the recorder composed with wrapper and interleaver in one
specification (the stop's flush through the wrapper's queues into the file); jobs
that encode, with the flush of their encoders.
