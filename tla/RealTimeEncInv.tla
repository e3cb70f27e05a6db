--------------------------- MODULE RealTimeEncInv ----------------------------
(***************************************************************************)
(* The inductive invariant of RealTimeEnc, in named parts: how the control *)
(* thread's position, the encoder threads, the mutexes and the objects of  *)
(* the session hang together. RealTimeEncProofs proves it and derives the  *)
(* safety properties from it; the recorder runs check it on small lists.   *)
(* Then the samples under way and the recorder as a Recording, which       *)
(* FrameOrderProofs proves things about.                                   *)
(***************************************************************************)
EXTENDS RealTimeEnc

Starting == {"open", "lists", "create_video"}
Joined == {"lock_trailer", "trailer", "close_audio", "lock_free", "free"}

\* The positions of the video encoder thread's main loop and after it.
VideoLoop ==
  \/ ve.pc \in {"loop", "encode"}
  \/ ve.pc \in {"write", "writing"} /\ ve.back = "loop"
VideoFlush ==
  \/ ve.pc \in {"exit", "flush"}
  \/ ve.pc \in {"write", "writing"} /\ ve.back = "flush"

\* Which threads exist at which point of RealtimeStart and RealtimeStop: a
\* thread that is not live does nothing; the audio thread is created after
\* the video thread and joined before it (RealTimeEnc.cpp:1183-1204, 316-318).
ThreadsInv ==
  /\ tid_video = "live" => ve.pc # "none"
  /\ tid_video # "live" => ve.pc \in {"none", "done"}
  /\ tid_audio = "live" => ae.pc # "none"
  /\ tid_audio # "live" => ae.pc \in {"none", "done"}
  /\ tid_audio = "live" => tid_video = "live"
  /\ ctl \in Starting \cup Joined => tid_video # "live"
  /\ ctl \in Starting \cup Joined \cup {"create_audio", "join_video"} => tid_audio # "live"
  /\ ctl = "create_audio" => tid_video = "live"

\* The flags: a state is RUNNING only until its thread has left its loop, and a
\* live thread has been told to exit only by a stop that is joining it.
FlagsInv ==
  /\ m_state_video = RUNNING => VideoLoop \/ ve.pc = "exit"
  /\ m_state_audio = RUNNING => ae.pc \in {"loop", "lock", "encode", "write", "writing", "exit"}
  /\ ctl \in Starting \cup {"create_audio"} => ~m_nExit
  /\ tid_video = "live" /\ m_nExit => ctl \in {"join_audio", "join_video"}
  /\ ctl \in Joined \cup {"join_audio", "join_video"} => m_nExit
  /\ ~m_nExit => ~VideoFlush
  /\ ~m_nExit /\ tid_video = "live" => ve.pc # "done"

\* Calls in progress: none while a recording is being opened.
CallsInv == ctl \in Starting => vp.pc = "idle" /\ ap.pc = "idle"

\* An audio call that no stop has overtaken: the session it began in is there.
AudioCallInv == ap.pc # "idle" /\ ~m_nExit => tid_audio = "live"

\* A call that fills a slot found the list not full, under the mutex it still
\* holds; a camera call waiting for it was not made before the first.
ProducersInv ==
  /\ vp.pc = "fill" => videoList.size < VIDEOFRAMEBUFSIZE
  /\ ap.pc = "copy" => audioList.size < AUDIOFRAMEBUFSIZE
  /\ vp.pc = "lock" => firstpts_video <= vp.time

\* The mutexes: who is inside which critical section holds its mutex.
MutexInv ==
  /\ vp.pc = "fill" <=> videoList.mutex = "vp"
  /\ ctl \in {"trailer", "free"} <=> videoList.mutex = "ctl"
  /\ ap.pc = "copy" <=> audioList.mutex = "ap"
  /\ ve.pc = "writing" <=> writer = "ve"
  /\ ae.pc = "writing" <=> writer = "ae"

\* The objects of the session: all there from LISTINIT to the trailer if a
\* video thread was created, and for a camera call as long as the output
\* buffer is. Without the buffer no call gets past its checks.
SessionInv ==
  /\ ctl \in {"lists", "create_video"} \/ tid_video = "live" \/ ctl \in {"lock_trailer", "trailer"} =>
       /\ m_pOutContext /\ m_video_outbuf
       /\ m_video_stream = "live" /\ m_audio_stream = "live"
       /\ file = "header"
  /\ ctl = "create_video" \/ tid_video = "live" \/ ctl \in Joined =>
       videoList.allocated /\ audioList.allocated
  /\ ctl \in Joined => m_pOutContext
  /\ ctl \in {"close_audio", "lock_free"} =>
       /\ m_video_outbuf /\ m_video_stream = "live" /\ file = "trailer"
       /\ m_audio_stream \in {"live", "closed"}
  /\ ctl = "free" => ~m_video_outbuf /\ file = "trailer"
  /\ file = "trailer" => ctl \in {"close_audio", "lock_free", "free"}
  /\ vp.pc # "idle" => VideoSessionAlive \/ ~m_video_outbuf
  /\ vp.pc = "fill" => VideoSessionAlive

\* The positions of both lists agree with their counts.
ListsInv ==
  /\ Consistent(videoList, VIDEOFRAMEBUFSIZE)
  /\ Consistent(audioList, AUDIOFRAMEBUFSIZE)

\* The slot the encoder thread reads is the one before the read position.
SlotInv ==
  ve.pc = "encode" => videoList.readpos = NextPos(ve.slot, VIDEOFRAMEBUFSIZE)

\* Once the video thread has left its loop, no frame it owed is in the list.
OwedInv ==
  /\ owed <= Len(accepted)
  /\ VideoFlush \/ (tid_video = "live" /\ ve.pc = "done") \/ ctl \in Joined =>
       videoList.size <= Len(accepted) - owed

IInv == /\ ThreadsInv /\ FlagsInv /\ CallsInv /\ AudioCallInv /\ ProducersInv /\ MutexInv
        /\ SessionInv /\ ListsInv /\ SlotInv /\ OwedInv

-----------------------------------------------------------------------------
\* The samples of a queue of chunks; those waiting in the audio list.
Samples(q) ==
  LET first[k \in 0..Len(q)] == IF k = 0 THEN 0 ELSE first[k - 1] + q[k].len
  IN  first[Len(q)]
Queued == Samples(Contents(audioList, AUDIOFRAMEBUFSIZE))

\* No sample is lost or encoded twice between the audio list and the encoder:
\* the samples accepted are those encoded, those kept for the next chunk and
\* those waiting (RealTimeEnc.cpp:1032-1044, 1053-1058, 1106-1109).
SamplesConserved ==
  samplesIn = samplesOut + ae.left + ae.samples + Queued

\* Where the audio thread has samples: of the chunk in work while it encodes,
\* kept from the last one otherwise, none before it is created.
AudioWorkInv ==
  /\ ae.pc \in {"encode", "write", "writing"} => ae.left = 0
  /\ ae.pc \notin {"encode", "write", "writing"} => ae.samples = 0
  /\ ctl \in {"create_video", "create_audio"} => ae.left = 0

-----------------------------------------------------------------------------
\* The recorder as a Recording: the file is open for frames from LISTINIT to
\* the trailer; a frame is the stamp its call gave it. A flush that passes an
\* uninitialised picture is left out (MaxJunk = 0 in the runs that check it).
Phase == CASE file = "trailer" -> "finished"
           [] file = "header" /\ ctl # "lists" -> "recording"
           [] OTHER -> "idle"
Saved == [k \in DOMAIN stored |-> stored[k].pts + ve.first]

Abstract == INSTANCE Recording WITH phase <- Phase, taken <- accepted, saved <- Saved

\* realtime_enc_start/set_videodata/stop and the two encoder threads, as a
\* whole, are a Recording: frames are saved in the order in which they were
\* accepted, only between header and trailer.
RecorderIsRecording == Abstract!Spec
=============================================================================
