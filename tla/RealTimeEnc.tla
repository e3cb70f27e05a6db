----------------------------- MODULE RealTimeEnc -----------------------------
(***************************************************************************)
(* CRealTimeEnc (src/interface/RealTimeEnc.cpp): the recorder. Five        *)
(* threads share it:                                                       *)
(*   the application's control thread   RealtimeStart, RealtimeStop        *)
(*   the camera                         realtime_enc_set_videodata         *)
(*   the microphone or audio decoder    realtime_enc_set_audiodata         *)
(*   the video encoder thread           video_encoder_thread_function      *)
(*   the audio encoder thread           audio_encoder_thread_function      *)
(* An action is a maximal run of code that another thread can only observe *)
(* as a whole: what a thread does between two points at which it takes or  *)
(* releases a mutex, or at which it reads or writes a field that another   *)
(* thread touches without one.                                             *)
(*                                                                         *)
(* A definition marked "Bug" is a plausible mistake in the definition that *)
(* follows it, kept to see which property such a mistake would break.      *)
(***************************************************************************)
EXTENDS Integers, Sequences, FrameList

CONSTANTS
  VIDEOFRAMEBUFSIZE,  \* slots of the video list (100 in the code)
  AUDIOFRAMEBUFSIZE,  \* slots of the audio list (50 in the code)
  VideoTimes,         \* capture times (us) the camera passes
  AudioTimes,         \* capture times (us) the audio source passes
  AudioLens,          \* lengths, in samples, of the audio chunks passed
  AudioFrame,         \* channels * frame_size of the audio codec, in samples
  AudioFreq,          \* m_encoder_param_.audioFreq
  TimeBase,           \* ticks of a capture time per second (1000000)
  MaxSessions,        \* bound: recordings the application starts
  MaxVideoCalls,      \* bound: frames the camera delivers
  MaxAudioCalls,      \* bound: chunks the audio source delivers
  MaxJunk             \* bound: uninitialised pictures the flush encodes

ASSUME SizesAssumption ==
  /\ VIDEOFRAMEBUFSIZE \in Nat \ {0}
  /\ AUDIOFRAMEBUFSIZE \in Nat \ {0}
  /\ AudioFrame \in Nat \ {0}

ASSUME TimesAssumption ==
  /\ VideoTimes \subseteq Nat
  /\ AudioTimes \subseteq Nat
  /\ AudioLens \subseteq Nat \ {0}
  /\ AudioFreq \in Nat \ {0}
  /\ TimeBase \in Nat \ {0}

ASSUME BoundsAssumption ==
  /\ MaxSessions \in Nat
  /\ MaxVideoCalls \in Nat
  /\ MaxAudioCalls \in Nat
  /\ MaxJunk \in Nat

VARIABLES
  \* the application's control thread
  ctl,                \* where it is in RealtimeStart or RealtimeStop
  tid_video,          \* m_tid_: "none", "live", "joined"
  tid_audio,          \* m_tid_audio_
  sessions,           \* recordings started so far (bound)
  owed,               \* video frames accepted when the last stop was called
  \* fields of the session
  m_nExit,
  m_state_video,
  m_state_audio,
  m_pOutContext,      \* is m_pOutContext_ a pointer to a live context?
  m_video_stream,     \* "null", "live", "closed" codec, "freed" (dangling)
  m_audio_stream,
  m_video_outbuf,     \* is m_video_outbuf_ allocated?
  file,               \* the output: "closed", "open", "header", "trailer"
  \* the lists and the producers
  videoList,
  audioList,
  firstpts_video,
  firstpts_audio,
  lastpts,
  lastpts_audio,
  vp,                 \* the camera's call in progress
  ap,                 \* the audio source's call in progress
  vcalls,             \* calls so far (bounds)
  acalls,
  \* the encoder threads
  ve,                 \* locals of video_encoder_thread_function
  ae,                 \* locals of audio_encoder_thread_function
  codec,              \* frames the video encoder has taken and not returned
  writer,             \* holder of m_av_write_mutex_
  \* what the session has accepted and written
  accepted,           \* stamps of the frames stored in the video list
  stored,             \* video packets written, in order
  samplesIn,          \* samples stored in the audio list
  samplesOut,         \* samples passed to the audio encoder
  audioStored         \* timestamps of the audio packets written

joinVars == <<tid_video, tid_audio, sessions, owed>>
sessionVars == <<ctl, joinVars>>
pointerVars == <<m_pOutContext, m_video_stream, m_audio_stream, m_video_outbuf>>
contextVars == <<pointerVars, file>>
flagVars == <<m_nExit, m_state_video, m_state_audio>>
cameraVars == <<firstpts_video, lastpts, vp, vcalls, accepted>>
videoIn == <<videoList, cameraVars>>
sourceVars == <<firstpts_audio, lastpts_audio, ap, acalls, samplesIn>>
audioIn == <<audioList, sourceVars>>
inputVars == <<videoIn, audioIn>>
videoOut == <<ve, codec, stored>>
audioOut == <<ae, samplesOut, audioStored>>
encoderVars == <<videoOut, audioOut, writer>>

vars == <<sessionVars, contextVars, flagVars, inputVars, encoderVars>>

-----------------------------------------------------------------------------
\* enum ProcessState; PROCESSEXIT is never assigned.
READY == "READY"
RUNNING == "RUNNING"
THREADEXIT == "THREADEXIT"
ProcessState == {READY, RUNNING, THREADEXIT}

\* What an uninitialised AVFrame shows the encoder: a picture nobody captured.
Junk == 0

\* c_pts = audioFreq * (((double)pts) / 1000000), truncated to an integer.
VideoTicks(us) == (AudioFreq * us) \div TimeBase

\* av_rescale_q(ptss, AV_TIME_BASE_Q, 1/audioFreq): to the nearest.
AudioTicks(us) == (2 * AudioFreq * us + TimeBase) \div (2 * TimeBase)

\* Bug: a stamp equal to the last one is kept.
AdvanceOrSame(stamp, last) == IF stamp >= last THEN stamp ELSE last + 1

\* The larger of the new stamp and one more than the last one.
Advance(stamp, last) == IF stamp > last THEN stamp ELSE last + 1

BlankVideo == Junk
BlankAudio == [pts |-> 0, len |-> 0]
NoPacket == [pts |-> 0, img |-> Junk]

VideoIdle == [pc |-> "idle", time |-> 0, stamp |-> 0]
AudioIdle == [pc |-> "idle", stamp |-> 0, len |-> 0]

\* A thread that pthread_create has just started, and one not yet created.
VideoThread(pc) ==
  [pc |-> pc, back |-> "loop", slot |-> 0, pts |-> 0, first |-> -1, out |-> "unset",
   packet |-> NoPacket, junk |-> 0]
AudioThread(pc) ==
  [pc |-> pc, left |-> 0, samples |-> 0, ptss |-> 0, last |-> 0, packet |-> 0]

Init ==
  /\ ctl = "idle" /\ tid_video = "none" /\ tid_audio = "none"
  /\ sessions = 0 /\ owed = 0
  /\ m_nExit = FALSE /\ m_state_video = READY /\ m_state_audio = READY
  /\ m_pOutContext = FALSE /\ m_video_outbuf = FALSE /\ file = "closed"
  /\ m_video_stream = "null" /\ m_audio_stream = "null"
  /\ videoList = UnallocatedList(VIDEOFRAMEBUFSIZE, BlankVideo)
  /\ audioList = UnallocatedList(AUDIOFRAMEBUFSIZE, BlankAudio)
  /\ firstpts_video = -1 /\ firstpts_audio = -1 /\ lastpts = 0 /\ lastpts_audio = 0
  /\ vp = VideoIdle /\ ap = AudioIdle /\ vcalls = 0 /\ acalls = 0
  /\ ve = VideoThread("none") /\ ae = AudioThread("none")
  /\ codec = <<>> /\ writer = FreeMutex
  /\ accepted = <<>> /\ stored = <<>>
  /\ samplesIn = 0 /\ samplesOut = 0 /\ audioStored = <<>>

-----------------------------------------------------------------------------
(* The control thread: RealtimeStart                                       *)

\* Bug: a recording may be started over a call in progress.
MayStartOverCall == ctl = "idle" /\ tid_video # "live" /\ tid_audio # "live"

\* The application starts a recording only when no call into the recorder is
\* in progress and every encoder thread it started has been joined. (The
\* check of m_state_video_ in realtime_enc_initial suggests the rule, but
\* RealtimeStart ignores its result, so the application has to keep it.)
MayStart ==
  /\ ctl = "idle"
  /\ vp.pc = "idle" /\ ap.pc = "idle"
  /\ tid_video # "live" /\ tid_audio # "live"

\* realtime_enc_initial, then the assignments realtime_enc_start begins with.
StartInitial ==
  /\ MayStart
  /\ sessions < MaxSessions
  /\ sessions' = sessions + 1
  /\ IF m_state_video = RUNNING
       THEN UNCHANGED <<m_nExit, firstpts_video, firstpts_audio>>
       ELSE m_nExit' = FALSE /\ firstpts_video' = -1 /\ firstpts_audio' = -1
  /\ lastpts' = 0 /\ lastpts_audio' = 0
  /\ ctl' = "open"
  /\ UNCHANGED <<tid_video, tid_audio, owed, contextVars, m_state_video, m_state_audio, videoList,
                 vp, vcalls, accepted, audioList, ap, acalls, samplesIn, encoderVars>>

\* The output context, its two streams and their codecs, the file and its
\* header: six calls, of which the first `done` succeed. A failure returns -1
\* and leaves what the earlier calls made, m_pOutContext_ included.
StartOpen ==
  /\ ctl = "open"
  /\ \E done \in 0..6 :
       /\ m_pOutContext' = TRUE
       /\ m_video_stream' = IF done >= 1 THEN "live" ELSE "null"
       /\ m_audio_stream' = CASE done = 0 -> m_audio_stream
                              [] done = 1 -> "null"
                              [] OTHER -> "live"
       /\ m_video_outbuf' = IF done >= 3 THEN TRUE ELSE m_video_outbuf
       /\ file' = CASE done = 6 -> "header" [] done = 5 -> "open" [] OTHER -> "closed"
       /\ ctl' = IF done = 6 THEN "lists" ELSE "idle"
  /\ UNCHANGED <<joinVars, flagVars, inputVars, encoderVars>>

\* LISTINIT of both lists, m_av_write_mutex_, the two states. A new recording
\* has accepted and written nothing.
StartLists ==
  /\ ctl = "lists"
  /\ videoList' = ListInit(videoList) /\ audioList' = ListInit(audioList)
  /\ writer' = FreeMutex
  /\ m_state_video' = READY /\ m_state_audio' = READY
  /\ codec' = <<>> /\ accepted' = <<>> /\ stored' = <<>> /\ owed' = 0
  /\ samplesIn' = 0 /\ samplesOut' = 0 /\ audioStored' = <<>>
  /\ ve' = VideoThread("none") /\ ae' = AudioThread("none")
  /\ ctl' = "create_video"
  /\ UNCHANGED <<tid_video, tid_audio, sessions, contextVars, m_nExit, firstpts_video, lastpts,
                 vp, vcalls, firstpts_audio, lastpts_audio, ap, acalls>>

\* pthread_create of the video encoder thread; a failure returns -1.
StartCreateVideo ==
  /\ ctl = "create_video"
  /\ \/ /\ tid_video' = "live" /\ ve' = VideoThread("begin")
        /\ ctl' = "create_audio"
     \/ /\ ctl' = "idle"
        /\ UNCHANGED <<tid_video, ve>>
  /\ UNCHANGED <<tid_audio, sessions, owed, contextVars, flagVars, inputVars, codec, stored,
                 audioOut, writer>>

\* pthread_create of the audio encoder thread; a failure returns -1 and
\* leaves the video encoder thread running.
StartCreateAudio ==
  /\ ctl = "create_audio"
  /\ \/ /\ tid_audio' = "live" /\ ae' = AudioThread("begin")
     \/ UNCHANGED <<tid_audio, ae>>
  /\ ctl' = "idle"
  /\ UNCHANGED <<tid_video, sessions, owed, contextVars, flagVars, inputVars, videoOut,
                 samplesOut, audioStored, writer>>

-----------------------------------------------------------------------------
(* The control thread: RealtimeStop                                        *)

\* Bug: the threads are joined without having been told to exit.
StopEnterUntold ==
  /\ ctl = "idle"
  /\ owed' = Len(accepted)
  /\ ctl' = IF m_pOutContext THEN "join_audio" ELSE "idle"
  /\ UNCHANGED <<tid_video, tid_audio, sessions, contextVars, flagVars, inputVars, encoderVars>>

\* m_nExit_ = 1 whatever the state; without a context there is nothing to
\* join. The application may call it at any time, also while a camera or an
\* audio call is in progress.
StopEnter ==
  /\ ctl = "idle"
  /\ m_nExit' = TRUE
  /\ owed' = Len(accepted)
  /\ ctl' = IF m_pOutContext THEN "join_audio" ELSE "idle"
  /\ UNCHANGED <<tid_video, tid_audio, sessions, contextVars, m_state_video, m_state_audio,
                 inputVars, encoderVars>>

\* Bug: the audio thread is not waited for.
StopJoinAudioNoWait ==
  /\ ctl = "join_audio"
  /\ tid_audio' = IF tid_audio = "live" THEN "joined" ELSE tid_audio
  /\ ctl' = "join_video"
  /\ UNCHANGED <<tid_video, sessions, owed, contextVars, flagVars, inputVars, encoderVars>>

\* join: the audio thread first. Joining a thread that was never created or
\* already joined fails, and the result is overwritten by the second join.
StopJoinAudio ==
  /\ ctl = "join_audio"
  /\ \/ tid_audio = "live" /\ ae.pc = "done" /\ tid_audio' = "joined"
     \/ tid_audio # "live" /\ UNCHANGED tid_audio
  /\ ctl' = "join_video"
  /\ UNCHANGED <<tid_video, sessions, owed, contextVars, flagVars, inputVars, encoderVars>>

\* Bug: a failure of the audio join makes realtime_enc_stop return as well.
StopJoinVideoBoth ==
  /\ ctl = "join_video"
  /\ \/ /\ tid_video = "live" /\ ve.pc = "done" /\ tid_video' = "joined"
        /\ ctl' = IF tid_audio = "joined" THEN "lock_trailer" ELSE "idle"
     \/ tid_video # "live" /\ ctl' = "idle" /\ UNCHANGED tid_video
  /\ UNCHANGED <<tid_audio, sessions, owed, contextVars, flagVars, inputVars, encoderVars>>

\* Only a failure of the video join makes realtime_enc_stop return -1.
StopJoinVideo ==
  /\ ctl = "join_video"
  /\ \/ tid_video = "live" /\ ve.pc = "done" /\ tid_video' = "joined" /\ ctl' = "lock_trailer"
     \/ tid_video # "live" /\ ctl' = "idle" /\ UNCHANGED tid_video
  /\ UNCHANGED <<tid_audio, sessions, owed, contextVars, flagVars, inputVars, encoderVars>>

\* The video list's mutex, not m_av_write_mutex_, is held over the trailer.
StopLockTrailer ==
  /\ ctl = "lock_trailer"
  /\ videoList.mutex = FreeMutex
  /\ videoList' = Lock(videoList, "ctl")
  /\ ctl' = "trailer"
  /\ UNCHANGED <<joinVars, contextVars, flagVars, cameraVars, audioIn, encoderVars>>

StopTrailer ==
  /\ ctl = "trailer"
  /\ file' = IF m_pOutContext THEN "trailer" ELSE file
  /\ videoList' = Unlock(videoList)
  /\ ctl' = "close_audio"
  /\ UNCHANGED <<joinVars, pointerVars, flagVars, cameraVars, audioIn, encoderVars>>

\* Under the audio list's mutex; the stream's codec is closed.
StopCloseAudio ==
  /\ ctl = "close_audio"
  /\ audioList.mutex = FreeMutex
  /\ m_audio_stream' = IF m_audio_stream = "live" THEN "closed" ELSE m_audio_stream
  /\ ctl' = "lock_free"
  /\ UNCHANGED <<joinVars, m_pOutContext, m_video_stream, m_video_outbuf, file, flagVars,
                 inputVars, encoderVars>>

\* Bug: the mutex is not taken.
StopFreeStreamsUnlocked ==
  /\ ctl = "lock_free"
  /\ m_video_outbuf' = FALSE
  /\ m_video_stream' = "freed" /\ m_audio_stream' = "freed"
  /\ ctl' = "free"
  /\ UNCHANGED <<joinVars, m_pOutContext, file, flagVars, videoIn, audioIn, encoderVars>>

\* Under the video list's mutex, held to the end: the video codec, the output
\* buffer and both streams go. The audio list's mutex is not held.
StopFreeStreams ==
  /\ ctl = "lock_free"
  /\ videoList.mutex = FreeMutex
  /\ videoList' = Lock(videoList, "ctl")
  /\ m_video_outbuf' = FALSE
  /\ m_video_stream' = "freed" /\ m_audio_stream' = "freed"
  /\ ctl' = "free"
  /\ UNCHANGED <<joinVars, m_pOutContext, file, flagVars, cameraVars, audioIn, encoderVars>>

\* The file is closed, the context and the buffers of both lists freed. The
\* stream pointers are not reset, nor the two states.
StopFreeContext ==
  /\ ctl = "free"
  /\ file' = "closed" /\ m_pOutContext' = FALSE
  /\ videoList' = Unlock(ListFree(videoList)) /\ audioList' = ListFree(audioList)
  /\ ctl' = "idle"
  /\ UNCHANGED <<joinVars, m_video_stream, m_audio_stream, m_video_outbuf, flagVars, cameraVars,
                 sourceVars, encoderVars>>

-----------------------------------------------------------------------------
(* The camera: realtime_enc_set_videodata                                  *)

\* The state is read without the mutex; a call that finds it other than
\* RUNNING returns at once and changes nothing. Unlike an audio call it does
\* not read m_nExit_ (the test is commented out, RealTimeEnc.cpp:465): after a
\* stop the camera goes on filling the list until the video thread has left
\* its loop. Only the bound MaxVideoCalls, which the code has not, ends it; the
\* liveness of a stop therefore names it (CameraFallsSilent). Capture times do
\* not run backwards past the first of the session.
VideoCall ==
  /\ vp.pc = "idle"
  /\ m_state_video = RUNNING
  /\ vcalls < MaxVideoCalls
  /\ \E us \in VideoTimes :
       /\ us >= firstpts_video
       /\ vp' = [pc |-> "lock", time |-> us, stamp |-> 0]
  /\ vcalls' = vcalls + 1
  /\ UNCHANGED <<sessionVars, contextVars, flagVars, videoList, firstpts_video, lastpts, accepted,
                 audioIn, encoderVars>>

\* What the call checks once it has the mutex.
VideoReady == m_pOutContext /\ m_video_stream # "null" /\ m_video_outbuf

\* The session is gone (or data is NULL): unlock, return -1.
VideoRefused ==
  /\ vp.pc = "lock"
  /\ videoList.mutex = FreeMutex
  /\ ~VideoReady
  /\ vp' = VideoIdle
  /\ UNCHANGED <<sessionVars, contextVars, flagVars, videoList, firstpts_video, lastpts, vcalls,
                 accepted, audioIn, encoderVars>>

\* The frame gets its stamp, whether there is room for it or not; without
\* room it is dropped, with room the call keeps the mutex and fills a slot.
VideoEnter ==
  /\ vp.pc = "lock"
  /\ videoList.mutex = FreeMutex
  /\ VideoReady
  /\ LET first == IF firstpts_video < 0 THEN vp.time ELSE firstpts_video
         stamp == Advance(VideoTicks(vp.time - first), lastpts)
     IN  /\ firstpts_video' = first
         /\ lastpts' = stamp
         /\ IF videoList.size >= VIDEOFRAMEBUFSIZE
              THEN vp' = VideoIdle /\ UNCHANGED videoList
              ELSE /\ vp' = [vp EXCEPT !.pc = "fill", !.stamp = stamp]
                   /\ videoList' = Lock(videoList, "vp")
  /\ UNCHANGED <<sessionVars, contextVars, flagVars, vcalls, accepted, audioIn, encoderVars>>

\* fill_rgba_image: the picture, its stamp, the count, the write position.
VideoFill ==
  /\ vp.pc = "fill"
  /\ IF videoList.allocated
       THEN /\ videoList' = Unlock(Put(videoList, VIDEOFRAMEBUFSIZE, vp.stamp))
            /\ accepted' = Append(accepted, vp.stamp)
       ELSE videoList' = Unlock(videoList) /\ UNCHANGED accepted
  /\ vp' = VideoIdle
  /\ UNCHANGED <<sessionVars, contextVars, flagVars, firstpts_video, lastpts, vcalls, audioIn,
                 encoderVars>>

-----------------------------------------------------------------------------
(* The audio source: realtime_enc_set_audiodata                            *)

\* The flag and the state are read, and the chunk is stamped, without the
\* mutex; a call that finds the session stopping or not running returns -1.
AudioCall ==
  /\ ap.pc = "idle"
  /\ ~m_nExit
  /\ m_state_audio = RUNNING
  /\ acalls < MaxAudioCalls
  /\ \E us \in AudioTimes, n \in AudioLens :
       LET first == IF firstpts_audio < 0 THEN us ELSE firstpts_audio
           stamp == Advance(us - first, lastpts_audio)
       IN  /\ us >= first
           /\ firstpts_audio' = first
           /\ lastpts_audio' = stamp
           /\ ap' = [pc |-> "lock", stamp |-> stamp, len |-> n]
  /\ acalls' = acalls + 1
  /\ UNCHANGED <<sessionVars, contextVars, flagVars, videoIn, audioList, samplesIn, encoderVars>>

AudioReady == m_pOutContext /\ m_audio_stream # "null"

\* The session is gone (or data is NULL), or the list is full: unlock,
\* return -1. The stamp is used up all the same.
AudioRefused ==
  /\ ap.pc = "lock"
  /\ audioList.mutex = FreeMutex
  /\ ~AudioReady \/ audioList.size >= AUDIOFRAMEBUFSIZE
  /\ ap' = AudioIdle
  /\ UNCHANGED <<sessionVars, contextVars, flagVars, videoIn, audioList, firstpts_audio,
                 lastpts_audio, acalls, samplesIn, encoderVars>>

\* There is room: the call keeps the mutex to copy the chunk.
AudioEnter ==
  /\ ap.pc = "lock"
  /\ audioList.mutex = FreeMutex
  /\ AudioReady
  /\ audioList.size < AUDIOFRAMEBUFSIZE
  /\ ap' = [ap EXCEPT !.pc = "copy"]
  /\ audioList' = Lock(audioList, "ap")
  /\ UNCHANGED <<sessionVars, contextVars, flagVars, videoIn, firstpts_audio, lastpts_audio,
                 acalls, samplesIn, encoderVars>>

\* The copy, unless the slot has no buffer.
AudioCopy ==
  /\ ap.pc = "copy"
  /\ LET chunk == [pts |-> ap.stamp, len |-> ap.len]
     IN  IF audioList.allocated
           THEN /\ audioList' = Unlock(Put(audioList, AUDIOFRAMEBUFSIZE, chunk))
                /\ samplesIn' = samplesIn + ap.len
           ELSE audioList' = Unlock(audioList) /\ UNCHANGED samplesIn
  /\ ap' = AudioIdle
  /\ UNCHANGED <<sessionVars, contextVars, flagVars, videoIn, firstpts_audio, lastpts_audio,
                 acalls, encoderVars>>

-----------------------------------------------------------------------------
(* The video encoder thread: video_encoder_thread_function                 *)

\* A thread that finds no session returns without touching the state.
VeBegin ==
  /\ ve.pc = "begin"
  /\ IF VideoReady
       THEN ve' = [ve EXCEPT !.pc = "loop"] /\ m_state_video' = RUNNING
       ELSE ve' = [ve EXCEPT !.pc = "done"] /\ UNCHANGED m_state_video
  /\ UNCHANGED <<sessionVars, contextVars, m_nExit, m_state_audio, inputVars, codec, stored,
                 audioOut, writer>>

\* Bug: the last frame of the list is not taken.
VeDequeueOffByOne ==
  /\ ve.pc = "loop"
  /\ videoList.mutex = FreeMutex
  /\ videoList.size > 1
  /\ videoList.allocated
  /\ ve' = [ve EXCEPT !.pc = "encode", !.slot = videoList.readpos]
  /\ videoList' = Take(videoList, VIDEOFRAMEBUFSIZE)
  /\ UNCHANGED <<sessionVars, contextVars, flagVars, cameraVars, audioIn, codec, stored, audioOut,
                 writer>>

\* One pass of the loop that finds a frame: m_picture_ is pointed at the
\* slot, the slot is released, the mutex is unlocked. (A pass that finds none
\* changes nothing; a pass that finds one has seen size > 0 at the unlocked
\* test at its top too, since this thread alone takes frames.)
VeDequeue ==
  /\ ve.pc = "loop"
  /\ videoList.mutex = FreeMutex
  /\ videoList.size > 0
  /\ videoList.allocated
  /\ LET stamp == Oldest(videoList)
         first == IF ve.first = -1 THEN stamp ELSE ve.first
     IN  ve' = [ve EXCEPT !.pc = "encode", !.slot = videoList.readpos,
                          !.first = first, !.pts = stamp - first]
  /\ videoList' = Take(videoList, VIDEOFRAMEBUFSIZE)
  /\ UNCHANGED <<sessionVars, contextVars, flagVars, cameraVars, audioIn, codec, stored, audioOut,
                 writer>>

\* The encoder holds the frames `held` and returns the oldest as a packet, or
\* nothing; out_size > 0 says which. Afterwards the thread goes back to `back`.
Encoded(held, back, junk) ==
  \/ /\ held # <<>>
     /\ codec' = Tail(held)
     /\ ve' = [ve EXCEPT !.pc = "write", !.back = back, !.out = "some",
                         !.packet = Head(held), !.junk = junk]
  \/ /\ codec' = held
     /\ ve' = [ve EXCEPT !.pc = back, !.out = "none", !.junk = junk]

\* avcodec_encode_video of m_picture_: the picture read is what the slot
\* holds now, the mutex is not held.
VeEncode ==
  /\ ve.pc = "encode"
  /\ Encoded(Append(codec, [pts |-> ve.pts, img |-> videoList.framebuf[ve.slot]]), "loop", ve.junk)
  /\ UNCHANGED <<sessionVars, contextVars, flagVars, inputVars, stored, audioOut, writer>>

\* Bug: m_av_write_mutex_ is not taken.
VeLockWriterNot ==
  /\ ve.pc = "write"
  /\ ve' = [ve EXCEPT !.pc = "writing"]
  /\ UNCHANGED <<sessionVars, contextVars, flagVars, inputVars, codec, stored, audioOut, writer>>

\* pthread_mutex_lock(&m_av_write_mutex_).
VeLockWriter ==
  /\ ve.pc = "write"
  /\ writer = FreeMutex
  /\ writer' = "ve"
  /\ ve' = [ve EXCEPT !.pc = "writing"]
  /\ UNCHANGED <<sessionVars, contextVars, flagVars, inputVars, codec, stored, audioOut>>

\* av_interleaved_write_frame; back to the loop, or to the flush it came from.
VeWrite ==
  /\ ve.pc = "writing"
  /\ stored' = Append(stored, ve.packet)
  /\ writer' = FreeMutex
  /\ ve' = [ve EXCEPT !.pc = ve.back]
  /\ UNCHANGED <<sessionVars, contextVars, flagVars, inputVars, codec, audioOut>>

\* Bug: the loop is left whatever is in the list.
VeLeaveOwing ==
  /\ ve.pc = "loop"
  /\ m_nExit
  /\ ve' = [ve EXCEPT !.pc = "exit"]
  /\ UNCHANGED <<sessionVars, contextVars, flagVars, inputVars, codec, stored, audioOut, writer>>

\* The loop is left when the session is stopping and the list is seen empty,
\* both without the mutex.
VeLeave ==
  /\ ve.pc = "loop"
  /\ m_nExit
  /\ videoList.size <= 0
  /\ ve' = [ve EXCEPT !.pc = "exit"]
  /\ UNCHANGED <<sessionVars, contextVars, flagVars, inputVars, codec, stored, audioOut, writer>>

\* m_state_video_ = THREADEXIT: until here a camera call still finds RUNNING.
VeExit ==
  /\ ve.pc = "exit"
  /\ m_state_video' = THREADEXIT
  /\ ve' = [ve EXCEPT !.pc = "flush"]
  /\ UNCHANGED <<sessionVars, contextVars, m_nExit, m_state_audio, inputVars, codec, stored,
                 audioOut, writer>>

\* "flush delayed frames": while the last out_size was positive (it is
\* uninitialised when nothing was encoded), encode an uninitialised AVFrame:
\* its data[0] is NULL, or it passes for one more picture.
VeFlush ==
  /\ ve.pc = "flush"
  /\ ve.out # "none"
  /\ \/ Encoded(codec, "flush", ve.junk)
     \/ /\ ve.junk < MaxJunk
        /\ Encoded(Append(codec, NoPacket), "flush", ve.junk + 1)
  /\ UNCHANGED <<sessionVars, contextVars, flagVars, inputVars, stored, audioOut, writer>>

\* The flush ends at the first out_size <= 0, and the thread with it.
VeEnd ==
  /\ ve.pc = "flush"
  /\ ve.out # "some"
  /\ ve' = [ve EXCEPT !.pc = "done"]
  /\ UNCHANGED <<sessionVars, contextVars, flagVars, inputVars, codec, stored, audioOut, writer>>

-----------------------------------------------------------------------------
(* The audio encoder thread: audio_encoder_thread_function                 *)

AeBegin ==
  /\ ae.pc = "begin"
  /\ IF AudioReady
       THEN ae' = [ae EXCEPT !.pc = "loop"] /\ m_state_audio' = RUNNING
       ELSE ae' = [ae EXCEPT !.pc = "done"] /\ UNCHANGED m_state_audio
  /\ UNCHANGED <<sessionVars, contextVars, m_nExit, m_state_video, inputVars, videoOut,
                 samplesOut, audioStored, writer>>

\* One pass of the loop that finds a chunk: what was left of the last chunk,
\* then this one, in `samples`. A stop seen at the top of the loop is seen
\* whatever the list holds, so a pass may also begin before the stop and
\* take its chunk after it.
AeTop ==
  /\ ae.pc = "loop"
  /\ ae' = [ae EXCEPT !.pc = IF m_nExit THEN "exit" ELSE "lock"]
  /\ UNCHANGED <<sessionVars, contextVars, flagVars, inputVars, videoOut, samplesOut, audioStored,
                 writer>>

AeDequeue ==
  /\ ae.pc = "lock"
  /\ audioList.mutex = FreeMutex
  /\ IF audioList.size > 0 /\ audioList.allocated
       THEN /\ ae' = [ae EXCEPT !.pc = "encode", !.left = 0,
                                !.samples = ae.left + Oldest(audioList).len,
                                !.ptss = Oldest(audioList).pts]
            /\ audioList' = Take(audioList, AUDIOFRAMEBUFSIZE)
       ELSE ae' = [ae EXCEPT !.pc = "loop"] /\ UNCHANGED audioList
  /\ UNCHANGED <<sessionVars, contextVars, flagVars, videoIn, sourceVars, videoOut, samplesOut,
                 audioStored, writer>>

\* One frame's worth of samples to the encoder, which may return a packet.
\* Its timestamp is the chunk's, or 100 after the last packet's.
AeEncode ==
  /\ ae.pc = "encode"
  /\ ae.samples >= AudioFrame
  /\ samplesOut' = samplesOut + AudioFrame
  /\ LET ticks == AudioTicks(ae.ptss)
         pts == IF ticks > ae.last THEN ticks ELSE ae.last + 100
     IN  \/ ae' = [ae EXCEPT !.pc = "write", !.samples = @ - AudioFrame,
                             !.packet = pts, !.last = pts]
         \/ ae' = [ae EXCEPT !.samples = @ - AudioFrame]
  /\ UNCHANGED <<sessionVars, contextVars, flagVars, inputVars, videoOut, audioStored, writer>>

\* Bug: the rest of the chunk is forgotten.
AeKeepNothing ==
  /\ ae.pc = "encode"
  /\ ae.samples < AudioFrame
  /\ ae' = [ae EXCEPT !.pc = "loop", !.left = 0, !.samples = 0]
  /\ UNCHANGED <<sessionVars, contextVars, flagVars, inputVars, videoOut, samplesOut, audioStored,
                 writer>>

\* Less than a frame's worth is kept for the next chunk.
AeKeep ==
  /\ ae.pc = "encode"
  /\ ae.samples < AudioFrame
  /\ ae' = [ae EXCEPT !.pc = "loop", !.left = ae.samples, !.samples = 0]
  /\ UNCHANGED <<sessionVars, contextVars, flagVars, inputVars, videoOut, samplesOut, audioStored,
                 writer>>

AeLockWriter ==
  /\ ae.pc = "write"
  /\ writer = FreeMutex
  /\ writer' = "ae"
  /\ ae' = [ae EXCEPT !.pc = "writing"]
  /\ UNCHANGED <<sessionVars, contextVars, flagVars, inputVars, videoOut, samplesOut,
                 audioStored>>

AeWrite ==
  /\ ae.pc = "writing"
  /\ audioStored' = Append(audioStored, ae.packet)
  /\ writer' = FreeMutex
  /\ ae' = [ae EXCEPT !.pc = "encode"]
  /\ UNCHANGED <<sessionVars, contextVars, flagVars, inputVars, videoOut, samplesOut>>

\* m_state_audio_ = THREADEXIT, and the thread returns: what is still in the
\* list, or kept from the last chunk, is not encoded.
AeExit ==
  /\ ae.pc = "exit"
  /\ m_state_audio' = THREADEXIT
  /\ ae' = [ae EXCEPT !.pc = "done"]
  /\ UNCHANGED <<sessionVars, contextVars, m_nExit, m_state_video, inputVars, videoOut,
                 samplesOut, audioStored, writer>>

-----------------------------------------------------------------------------
Start == StartInitial \/ StartOpen \/ StartLists \/ StartCreateVideo \/ StartCreateAudio
Stop == \/ StopEnter \/ StopJoinAudio \/ StopJoinVideo \/ StopLockTrailer \/ StopTrailer
        \/ StopCloseAudio \/ StopFreeStreams \/ StopFreeContext
Camera == VideoCall \/ VideoRefused \/ VideoEnter \/ VideoFill
AudioSource == AudioCall \/ AudioRefused \/ AudioEnter \/ AudioCopy
VideoEncoder == \/ VeBegin \/ VeDequeue \/ VeEncode \/ VeLockWriter \/ VeWrite
                \/ VeLeave \/ VeExit \/ VeFlush \/ VeEnd
AudioEncoder == \/ AeBegin \/ AeTop \/ AeDequeue \/ AeEncode \/ AeKeep
                \/ AeLockWriter \/ AeWrite \/ AeExit

Next == Start \/ Stop \/ Camera \/ AudioSource \/ VideoEncoder \/ AudioEncoder

Spec == Init /\ [][Next]_vars

\* Every thread that has begun something goes on with it; nothing obliges the
\* application to start or stop, nor a source to deliver. The encoder's flush
\* ends by itself. Nothing makes the camera stop calling either: a thread
\* waiting for a list's mutex is overtaken only by calls a source has yet to
\* make, and only the bounds make those finitely many.
Fairness ==
  /\ WF_vars((Start /\ ~StartInitial) \/ (Stop /\ ~StopEnter))
  /\ WF_vars(VideoRefused \/ VideoEnter \/ VideoFill)
  /\ WF_vars(AudioRefused \/ AudioEnter \/ AudioCopy)
  /\ WF_vars(VideoEncoder)
  /\ WF_vars(AudioEncoder)

FairSpec == Spec /\ Fairness

-----------------------------------------------------------------------------
(* Properties                                                              *)

Packet == [pts : Int, img : Nat]

\* The types of the groups of variables.
ControlType ==
  /\ ctl \in {"idle", "open", "lists", "create_video", "create_audio", "join_audio",
              "join_video", "lock_trailer", "trailer", "close_audio", "lock_free", "free"}
  /\ tid_video \in {"none", "live", "joined"} /\ tid_audio \in {"none", "live", "joined"}
  /\ sessions \in Nat /\ owed \in Nat
ContextType ==
  /\ m_pOutContext \in BOOLEAN /\ m_video_outbuf \in BOOLEAN
  /\ m_video_stream \in {"null", "live", "freed"}
  /\ m_audio_stream \in {"null", "live", "closed", "freed"}
  /\ file \in {"closed", "open", "header", "trailer"}
FlagsType ==
  m_nExit \in BOOLEAN /\ m_state_video \in ProcessState /\ m_state_audio \in ProcessState
VideoListType == videoList \in ListOf(VIDEOFRAMEBUFSIZE, Nat, {"vp", "ctl"})
AudioListType == audioList \in ListOf(AUDIOFRAMEBUFSIZE, [pts : Nat, len : Nat], {"ap"})
CameraType ==
  /\ firstpts_video \in Int /\ lastpts \in Nat /\ vcalls \in Nat /\ accepted \in Seq(Nat)
  /\ vp \in [pc : {"idle", "lock", "fill"}, time : Nat, stamp : Nat]
SourceType ==
  /\ firstpts_audio \in Int /\ lastpts_audio \in Nat /\ acalls \in Nat /\ samplesIn \in Nat
  /\ ap \in [pc : {"idle", "lock", "copy"}, stamp : Nat, len : Nat]
VideoOutType ==
  /\ ve \in [pc : {"none", "begin", "loop", "encode", "write", "writing", "exit", "flush",
                   "done"},
             back : {"loop", "flush"}, slot : 0..VIDEOFRAMEBUFSIZE-1, pts : Int, first : Int,
             out : {"unset", "some", "none"}, packet : Packet, junk : Nat]
  /\ codec \in Seq(Packet) /\ stored \in Seq(Packet)
AudioOutType ==
  /\ ae \in [pc : {"none", "begin", "loop", "lock", "encode", "write", "writing", "exit", "done"},
             left : Nat, samples : Nat, ptss : Nat, last : Nat, packet : Nat]
  /\ samplesOut \in Nat /\ audioStored \in Seq(Nat)
WriterType == writer \in {FreeMutex, "ve", "ae"}

\* Every field has a value the code can give it (the fields of
\* src/interface/RealTimeEnc.h:98-144 and the threads' locals).
TypeOK == /\ ControlType /\ ContextType /\ FlagsType /\ VideoListType /\ AudioListType
          /\ CameraType /\ SourceType /\ VideoOutType /\ AudioOutType /\ WriterType

\* The frames past the list, oldest first: written, about to be written, held
\* by the encoder, about to be encoded. The last one's picture is the one its
\* slot, already released, shows now.
PastTheList ==
  stored \o (IF ve.pc \in {"write", "writing"} THEN <<ve.packet>> ELSE <<>>)
         \o codec
         \o (IF ve.pc = "encode"
              THEN <<[pts |-> ve.pts, img |-> videoList.framebuf[ve.slot]]>> ELSE <<>>)

\* How many of them the camera gave; the rest are junk pictures of the flush.
Captured == Len(PastTheList) - ve.junk

\* The picture of the k-th frame past the list: its own, or, when the camera
\* lapped the ring before it was encoded, that of the frame one ring later.
\* Then its own picture is lost and the later frame's is encoded twice.
OwnOrLapped(k) ==
  \/ PastTheList[k].img = accepted[k]
  \/ /\ k + VIDEOFRAMEBUFSIZE \in DOMAIN accepted
     /\ PastTheList[k].img = accepted[k + VIDEOFRAMEBUFSIZE]

\* No stamp of an accepted frame is lost, repeated or reordered on its way from
\* the list through the encoder to the file, whatever the threads do and
\* however often the ring wraps: the list's frames follow those past it,
\* together they are the frames accepted, and what junk there is comes behind
\* them. The picture under a stamp is its own or the lapped one, never
\* another (RealTimeEnc.cpp:860-863 releases the slot before it is encoded).
VideoFifo ==
  /\ accepted = [k \in 1..Captured |-> PastTheList[k].pts + ve.first]
                  \o Contents(videoList, VIDEOFRAMEBUFSIZE)
  /\ \A k \in DOMAIN PastTheList :
       IF k > Captured THEN PastTheList[k].img = Junk ELSE OwnOrLapped(k)

\* A frame accepted before RealtimeStop is called has left the list when the
\* trailer is written: the encoder thread does not exit over a frame it owes,
\* though it tests the list without the mutex (RealTimeEnc.cpp:839).
DrainedBeforeTrailer ==
  file = "trailer" => videoList.size <= Len(accepted) - owed

\* No thread works on a session whose objects are gone: the camera while it
\* fills a slot, the video encoder thread from the dequeue to its last packet.
VideoSessionAlive ==
  /\ m_pOutContext
  /\ m_video_stream = "live"
  /\ m_video_outbuf
  /\ videoList.allocated

NoVideoUseAfterFree ==
  vp.pc = "fill" \/ ve.pc \in {"encode", "write", "writing", "flush"} => VideoSessionAlive

\* The same for the audio encoder thread while it encodes, whatever calls are in
\* progress, and for the audio source while it copies, unless a stop overtakes
\* the call. Such a call is at risk: realtime_enc_stop frees the audio buffers
\* without the audio list's mutex and waits for no call (RealTimeEnc.cpp:668-702);
\* no call that begins after the stop is (RealTimeEnc.cpp:562).
NoAudioUseAfterFree ==
  /\ ap.pc = "copy" /\ ~m_nExit =>
       m_pOutContext /\ m_audio_stream = "live" /\ audioList.allocated
  /\ ae.pc \in {"encode", "write", "writing"} =>
       m_pOutContext /\ m_audio_stream = "live" /\ audioList.allocated

\* The muxer is never entered by two threads, though the trailer is written
\* under another mutex than the packets, and packets and trailer only follow
\* a header.
MuxerExclusive ==
  LET writers == {t \in {"ve", "ae", "ctl"} : \/ t = "ve" /\ ve.pc = "writing"
                                              \/ t = "ae" /\ ae.pc = "writing"
                                              \/ t = "ctl" /\ ctl = "trailer"}
  IN  /\ \A t, u \in writers : t = u
      /\ writers # {} => file = "header"

Increasing(s) == \A i, j \in DOMAIN s : i < j => s[i] < s[j]

\* The timestamps of the packets written are strictly increasing, per stream,
\* whatever the capture times, the drops and the chunk lengths.
PacketsIncreasing ==
  /\ Increasing([k \in DOMAIN stored |-> stored[k].pts])
  /\ Increasing(audioStored)

\* The picture the encoder is about to read is overwritten only by a camera
\* call that fills the list to the brim: until then the slot released before
\* it was encoded (RealTimeEnc.cpp:852-862) is safe.
OverwriteOnlyWhenFull ==
  [][ve.pc = "encode" /\ videoList'.framebuf[ve.slot] # videoList.framebuf[ve.slot]
       => videoList'.size = VIDEOFRAMEBUFSIZE]_vars

\* After the trailer nothing more is written to the file, though a camera
\* call that passed the state check earlier may still be accepted.
ClosedFileStays ==
  [][stored' # stored \/ audioStored' # audioStored
       => file = "header" \/ ctl = "lists"]_vars

\* The application stops its camera sooner or later. Nothing in the code does:
\* frames are taken after a stop (see VideoCall), and the video thread drains
\* its list before it exits, so a camera that fills the list as fast as it is
\* drained keeps RealtimeStop waiting in the join.
CameraFallsSilent == <>[][vcalls' = vcalls]_vars

\* With a camera that falls silent RealtimeStop returns: neither the joins nor
\* the mutexes block it forever.
StopReturns == CameraFallsSilent => ((ctl = "join_audio") ~> (ctl = "idle"))

\* ... and, when it has a video thread to join, it leaves no session behind.
StopCloses ==
  CameraFallsSilent =>
    ((ctl = "join_audio" /\ tid_video = "live") ~> (ctl = "idle" /\ ~m_pOutContext))

\* Every frame accepted goes to the encoder (or the session ends), whether or
\* not a stop comes in between.
AcceptedIsEncoded ==
  \A n \in 1..MaxVideoCalls :
    (Len(accepted) = n /\ ve.pc = "loop")
      ~> (Len(accepted) - videoList.size >= n \/ Len(accepted) < n \/ ve.pc = "done")

-----------------------------------------------------------------------------
(* What comments of the code say and the code does not do                  *)

\* "flush delayed frames" (RealTimeEnc.cpp:967): a video thread that has
\* ended has left no frame in the encoder.
FlushedDelayedFrames == ve.pc = "done" => codec = <<>>

\* The flush only returns delayed frames: every picture written is one the
\* camera delivered.
OnlyCameraPictures == \A k \in DOMAIN stored : stored[k].img # Junk

\* "max size 320" (RealTimeEnc.cpp:1010): the 16-bit samples kept for the next
\* chunk never take more than 320 bytes of tmpbuf.
KeptFitsTmpbuf == 2 * ae.left <= 320
=============================================================================
