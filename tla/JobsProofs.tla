----------------------------- MODULE JobsProofs ------------------------------
(***************************************************************************)
(* The transcode jobs for any number of callers: the globals of ffmpeg.c   *)
(* belong to one job at a time but for two races, and what a job does with *)
(* them is true.                                                           *)
(*                                                                         *)
(* What the polling gives is said of two calls at any places on their way  *)
(* (Apart): two that RUNNING did not keep apart have raced, or a stop has  *)
(* overtaken the job of one. What a job finds in the globals (JobOK) then  *)
(* depends on that job alone, as long as it is the only one, and every     *)
(* step of a job is an instance of one lemma, JobSteps.                    *)
(***************************************************************************)
EXTENDS Jobs, TLAPS

Apart ==
  /\ \A c, d \in Callers :
       c # d /\ Unseen(c) /\ Unseen(d) => calls[c].raced \/ calls[d].raced
  /\ \A c, d \in Callers :
       c # d /\ Unseen(c) /\ calls[d].pc = "joining" =>
         calls[c].raced \/ calls[d].raced \/ jobs[d].overtaken
  /\ \A c, d \in Callers :
       calls[c].pc = "joining" /\ calls[d].pc = "joining" => c = d
  /\ \A c \in Callers :
       calls[c].pc = "joining" => m_state_inner_ = "RUNNING" \/ jobs[c].overtaken
  /\ \A c \in Callers : calls[c].pc \in {"waiting", "starting"} => calls[c].left # <<>>

\* What the call of a caller set is still set.
ListenerInv ==
  \A c \in Callers : calls[c].pc # "idle" =>
    /\ calls[c].kind \in Kinds
    /\ CallKind[calls[c].kind].type # Kept => calltype >= 0
    /\ CallKind[calls[c].kind].handler => handler_callback = c

\* A terminate flag that a job sees belongs to a stop of that job.
StopOK(job, sigterm) ==
  /\ job.end = "cut" => job.stopped
  /\ job.pc \in {"created", "opening", "copying"} => job.end = "none"
  /\ job.pc \in {"opening", "copying", "finishing", "reporting"} /\ sigterm = 1 => job.stopped

TrailerOK(job) ==
  job.pc \in {"reporting", "clearing", "exiting", "gone"} /\ job.end \in {"complete", "cut"}
    => job.trailer

\* Before the last report, last_progress is the end of what was reported.
ProgressOK(job) ==
  LET n == Len(job.progress)
  IN /\ \A i, j \in 1..n : i < j => job.progress[i] < job.progress[j]
     /\ job.pc \notin {"clearing", "exiting", "gone"} =>
          job.last_progress = IF n = 0 THEN -1 ELSE job.progress[n]
     /\ job.pc \in {"clearing", "exiting", "gone"} /\ job.end = "complete" /\ ~job.stopped
          => n # 0 /\ job.progress[n] = Full

\* noError is set for quiet jobs only, and for those before anything is told,
\* unless they fail while they open their files.
SilenceOK(job, err) ==
  /\ job.pc \notin {"none", "created"} /\ err = 1 => job.quiet
  /\ job.pc \in {"copying", "finishing", "reporting", "clearing"} /\ job.quiet => err = 1
  /\ job.pc = "exiting" /\ job.quiet /\ job.end # "failed" => err = 1
  /\ job.pc \notin {"exiting", "gone"} \/ (job.pc = "exiting" /\ job.quiet) =>
       job.verdict = Silence

\* What is heard, given the kind of the call.
VerdictOK(c, job, kind) ==
  job.pc \in {"exiting", "gone"} /\ kind.type # Kept =>
    /\ job.pc = "exiting" /\ ~job.quiet /\ job.end # "failed" =>
         job.verdict.error = 0 /\ (kind.handler => job.verdict.to = c)
    /\ job.pc = "gone" =>
         /\ job.quiet => \/ job.verdict = Silence
                         \/ job.verdict.error = -1 /\ job.end = "failed"
         /\ ~job.quiet => /\ job.verdict.error = IF job.end = "failed" THEN -1 ELSE 0
                          /\ kind.handler => job.verdict.to = c

JobOK(c, job, kind, sigterm, err) ==
  /\ job.pc = "none" => job = NoJob
  /\ StopOK(job, sigterm) /\ TrailerOK(job) /\ ProgressOK(job)
  /\ SilenceOK(job, err) /\ VerdictOK(c, job, kind)

JobInv ==
  \A c \in Callers : JobOK(c, jobs[c], CallKind[calls[c].kind], received_sigterm, noError)

IInv == TypeOK /\ Apart /\ ListenerInv /\ JobInv

-----------------------------------------------------------------------------
(* The calls and the records                                               *)

LEMMA KindFacts ==
  ASSUME NEW k \in Kinds
  PROVE  /\ CallKind[k].type \in -2..2
         /\ CallKind[k].type # Kept => CallKind[k].type >= 0
         /\ CallKind[k].handler \in BOOLEAN /\ CallKind[k].waits \in BOOLEAN
         /\ CallKind[k].waits => ~CallKind[k].handler
         /\ CallKind[k].quiet \in Seq(BOOLEAN) /\ CallKind[k].quiet # <<>>
  <1>1. k \in {"VideoCut", "Mux", "ProduceJpeg", "ChangeVolume", "BackgroundAudio",
               "Thumbnail", "MultiConcat", "Module", "GetImageData"}
    BY KindsAssumption DEF CallKind
  <1>2. /\ <<FALSE>> \in Seq(BOOLEAN) /\ <<FALSE>> # <<>>
        /\ <<TRUE, FALSE>> \in Seq(BOOLEAN) /\ <<TRUE, FALSE>> # <<>>
    OBVIOUS
  <1>3. CASE k = "VideoCut"
    <2>1. CallKind[k] = Kind(0, TRUE, FALSE, <<FALSE>>)  BY <1>3 DEF CallKind
    <2> QED  BY <2>1, <1>2 DEF Kind, Kept
  <1>4. CASE k = "Mux"
    <2>1. CallKind[k] = Kind(2, FALSE, TRUE, <<TRUE, FALSE>>)  BY <1>4 DEF CallKind
    <2> QED  BY <2>1, <1>2 DEF Kind, Kept
  <1>5. CASE k = "ProduceJpeg"
    <2>1. CallKind[k] = Kind(1, FALSE, FALSE, <<FALSE>>)  BY <1>5 DEF CallKind
    <2> QED  BY <2>1, <1>2 DEF Kind, Kept
  <1>6. CASE k = "ChangeVolume"
    <2>1. CallKind[k] = Kind(2, TRUE, FALSE, <<FALSE>>)  BY <1>6 DEF CallKind
    <2> QED  BY <2>1, <1>2 DEF Kind, Kept
  <1>7. CASE k = "BackgroundAudio"
    <2>1. CallKind[k] = Kind(1, TRUE, FALSE, <<FALSE>>)  BY <1>7 DEF CallKind
    <2> QED  BY <2>1, <1>2 DEF Kind, Kept
  <1>8. CASE k = "Thumbnail"
    <2>1. CallKind[k] = Kind(Kept, FALSE, FALSE, <<FALSE>>)  BY <1>8 DEF CallKind
    <2> QED  BY <2>1, <1>2 DEF Kind, Kept
  <1>9. CASE k = "MultiConcat"
    <2>1. CallKind[k] = Kind(Kept, FALSE, TRUE, <<FALSE>>)  BY <1>9 DEF CallKind
    <2> QED  BY <2>1, <1>2 DEF Kind, Kept
  <1>10. CASE k = "Module"
    <2>1. CallKind[k] = Kind(Kept, FALSE, FALSE, <<FALSE>>)  BY <1>10 DEF CallKind
    <2> QED  BY <2>1, <1>2 DEF Kind, Kept
  <1>11. CASE k = "GetImageData"
    <2>1. CallKind[k] = Kind(Kept, FALSE, TRUE, <<FALSE>>)  BY <1>11 DEF CallKind
    <2> QED  BY <2>1, <1>2 DEF Kind, Kept
  <1> QED  BY <1>1, <1>3, <1>4, <1>5, <1>6, <1>7, <1>8, <1>9, <1>10, <1>11

LEMMA NewJobFacts ==
  ASSUME NEW quiet \in BOOLEAN, NEW pc \in {"none", "created"}
  PROVE  /\ NewJob(pc, quiet) \in JobRecord
         /\ NewJob(pc, quiet).pc = pc
  BY JobsAssumption DEF NewJob, JobRecord, Silence

\* A job that has not entered ffmpeg_main is fine whatever the globals are.
LEMMA NewJobOK ==
  ASSUME NEW quiet \in BOOLEAN, NEW c, NEW kind, NEW sigterm, NEW err
  PROVE  /\ JobOK(c, NewJob("created", quiet), kind, sigterm, err)
         /\ JobOK(c, NoJob, kind, sigterm, err)
  BY DEF JobOK, NoJob, NewJob, Silence, StopOK, TrailerOK, ProgressOK, SilenceOK, VerdictOK

\* A step of the job of c does what the lemma asks of its new record, and
\* nothing else.
LEMMA JobSteps ==
  ASSUME IInv, ~TwoTranscoders, NEW c \in Callers, jobs[c].pc # "none",
         NEW job \in JobRecord, job.pc # "none", job.overtaken = jobs[c].overtaken,
         jobs' = [jobs EXCEPT ![c] = job], WorkerOnly,
         received_sigterm' \in {0, 1}, noError' \in {0, 1},
         JobOK(c, job, CallKind[calls[c].kind], received_sigterm', noError')
  PROVE  IInv'
  <1>1. /\ jobs' \in [Callers -> JobRecord]
        /\ jobs'[c] = job /\ \A d \in Callers : d # c => jobs'[d] = jobs[d]
        /\ UNCHANGED <<m_state_inner_, m_tid_, calltype, handler_callback, calls, stopper>>
    BY DEF IInv, TypeOK, WorkerOnly, listener
  <1>2. TypeOK'
    BY <1>1 DEF IInv, TypeOK, TwoTranscoders
  <1>3. Apart' /\ ListenerInv'
    BY <1>1 DEF IInv, Apart, Unseen, ListenerInv
  <1>4. ASSUME NEW d \in Callers
        PROVE  JobOK(d, jobs'[d], CallKind[calls'[d].kind], received_sigterm', noError')
    <2>1. CASE d = c
      BY <1>1, <2>1
    <2>2. CASE d # c
      <3>1. jobs[d].pc = "none"  BY <2>2 DEF TwoTranscoders
      <3>2. jobs'[d] = NoJob  BY <1>1, <2>2, <3>1 DEF IInv, JobInv, JobOK
      <3> QED  BY <3>2, NewJobOK
    <2> QED  BY <2>1, <2>2
  <1> QED  BY <1>2, <1>3, <1>4 DEF IInv, JobInv

-----------------------------------------------------------------------------
(* The steps of a job                                                      *)

LEMMA JobFacts ==
  ASSUME IInv, NEW c \in Callers
  PROVE  /\ jobs[c] \in JobRecord
         /\ JobOK(c, jobs[c], CallKind[calls[c].kind], received_sigterm, noError)
         /\ received_sigterm \in {0, 1} /\ noError \in {0, 1}
  BY DEF IInv, TypeOK, JobInv

\* Whoever has a job has a call whose settings are still there.
LEMMA HasListener ==
  ASSUME IInv, NEW c \in Callers, jobs[c].pc # "none"
  PROVE  /\ CallKind[calls[c].kind].type # Kept => calltype >= 0
         /\ CallKind[calls[c].kind].handler => handler_callback = c
         /\ handler_callback \in Callers \cup {Nobody}
  BY DEF IInv, TypeOK, ListenerInv

LEMMA EnterKeeps ==
  ASSUME IInv, ~TwoTranscoders, NEW c \in Callers, Enter(c)
  PROVE  IInv'
  <1> DEFINE job == [jobs[c] EXCEPT !.pc = "opening", !.stopped = FALSE]
  <1>1. jobs' = [jobs EXCEPT ![c] = job] /\ WorkerOnly
    BY JobFacts DEF Enter
  <1>2. /\ job \in JobRecord /\ job.pc # "none" /\ jobs[c].pc # "none"
        /\ job.overtaken = jobs[c].overtaken
    <2>1. jobs[c] \in JobRecord  BY JobFacts
    <2>2. job \in JobRecord  BY <2>1 DEF JobRecord
    <2>3. job.pc # "none" /\ job.overtaken = jobs[c].overtaken  BY <2>1 DEF JobRecord
    <2>4. jobs[c].pc # "none"  BY DEF Enter
    <2> QED  BY <2>2, <2>3, <2>4
  <1>3. received_sigterm' \in {0, 1} /\ noError' \in {0, 1}
    BY JobFacts DEF Enter
  <1>4. JobOK(c, job, CallKind[calls[c].kind], received_sigterm', noError')
    BY JobFacts
    DEF JobOK, JobRecord, StopOK, TrailerOK, ProgressOK, SilenceOK, VerdictOK, Enter
  <1> HIDE DEF job
  <1> QED  BY <1>1, <1>2, <1>3, <1>4, JobSteps

LEMMA OpenKeeps ==
  ASSUME IInv, ~TwoTranscoders, NEW c \in Callers, Open(c)
  PROVE  IInv'
  <1> DEFINE job == [jobs[c] EXCEPT !.pc = "copying"]
  <1>1. jobs' = [jobs EXCEPT ![c] = job] /\ WorkerOnly
    BY JobFacts DEF Open, Opened
  <1>2. /\ job \in JobRecord /\ job.pc # "none" /\ jobs[c].pc # "none"
        /\ job.overtaken = jobs[c].overtaken
    <2>1. jobs[c] \in JobRecord  BY JobFacts
    <2>2. job \in JobRecord  BY <2>1 DEF JobRecord
    <2>3. job.pc # "none" /\ job.overtaken = jobs[c].overtaken  BY <2>1 DEF JobRecord
    <2>4. jobs[c].pc # "none"  BY DEF Open, Opened
    <2> QED  BY <2>2, <2>3, <2>4
  <1>3. received_sigterm' \in {0, 1} /\ noError' \in {0, 1}
    BY JobFacts DEF Open, Opened
  <1>4. JobOK(c, job, CallKind[calls[c].kind], received_sigterm', noError')
    BY JobFacts
    DEF JobOK, JobRecord, StopOK, TrailerOK, ProgressOK, SilenceOK, VerdictOK, Open, Opened
  <1> HIDE DEF job
  <1> QED  BY <1>1, <1>2, <1>3, <1>4, JobSteps

LEMMA OpenFailsKeeps ==
  ASSUME IInv, ~TwoTranscoders, NEW c \in Callers, OpenFails(c)
  PROVE  IInv'
  <1> DEFINE job == [jobs[c] EXCEPT !.pc = "reporting", !.end = "failed"]
  <1>1. jobs' = [jobs EXCEPT ![c] = job] /\ WorkerOnly
    BY JobFacts DEF OpenFails, Opened
  <1>2. /\ job \in JobRecord /\ job.pc # "none" /\ jobs[c].pc # "none"
        /\ job.overtaken = jobs[c].overtaken
    <2>1. jobs[c] \in JobRecord  BY JobFacts
    <2>2. job \in JobRecord  BY <2>1 DEF JobRecord
    <2>3. job.pc # "none" /\ job.overtaken = jobs[c].overtaken  BY <2>1 DEF JobRecord
    <2>4. jobs[c].pc # "none"  BY DEF OpenFails, Opened
    <2> QED  BY <2>2, <2>3, <2>4
  <1>3. received_sigterm' \in {0, 1} /\ noError' \in {0, 1}
    BY JobFacts DEF OpenFails, Opened
  <1>4. JobOK(c, job, CallKind[calls[c].kind], received_sigterm', noError')
    BY JobFacts
    DEF JobOK, JobRecord, StopOK, TrailerOK, ProgressOK, SilenceOK, VerdictOK, OpenFails, Opened
  <1> HIDE DEF job
  <1> QED  BY <1>1, <1>2, <1>3, <1>4, JobSteps

LEMMA ExitOpeningKeeps ==
  ASSUME IInv, ~TwoTranscoders, NEW c \in Callers, ExitOpening(c)
  PROVE  IInv'
  <1> DEFINE job == [jobs[c] EXCEPT !.pc = "exiting", !.end = "failed"]
  <1>1. jobs' = [jobs EXCEPT ![c] = job] /\ WorkerOnly
    BY JobFacts DEF ExitOpening
  <1>2. /\ job \in JobRecord /\ job.pc # "none" /\ jobs[c].pc # "none"
        /\ job.overtaken = jobs[c].overtaken
    <2>1. jobs[c] \in JobRecord  BY JobFacts
    <2>2. job \in JobRecord  BY <2>1 DEF JobRecord
    <2>3. job.pc # "none" /\ job.overtaken = jobs[c].overtaken  BY <2>1 DEF JobRecord
    <2>4. jobs[c].pc # "none"  BY DEF ExitOpening
    <2> QED  BY <2>2, <2>3, <2>4
  <1>3. received_sigterm' \in {0, 1} /\ noError' \in {0, 1}
    BY JobFacts DEF ExitOpening
  <1>4. JobOK(c, job, CallKind[calls[c].kind], received_sigterm', noError')
    BY JobFacts
    DEF JobOK, JobRecord, StopOK, TrailerOK, ProgressOK, SilenceOK, VerdictOK, ExitOpening
  <1> HIDE DEF job
  <1> QED  BY <1>1, <1>2, <1>3, <1>4, JobSteps

LEMMA EndOfInputKeeps ==
  ASSUME IInv, ~TwoTranscoders, NEW c \in Callers, EndOfInput(c)
  PROVE  IInv'
  <1> DEFINE job == [jobs[c] EXCEPT !.pc = "finishing", !.end = "complete"]
  <1>1. jobs' = [jobs EXCEPT ![c] = job] /\ WorkerOnly
    BY JobFacts DEF EndOfInput, LeaveLoop
  <1>2. /\ job \in JobRecord /\ job.pc # "none" /\ jobs[c].pc # "none"
        /\ job.overtaken = jobs[c].overtaken
    <2>1. jobs[c] \in JobRecord  BY JobFacts
    <2>2. job \in JobRecord  BY <2>1 DEF JobRecord
    <2>3. job.pc # "none" /\ job.overtaken = jobs[c].overtaken  BY <2>1 DEF JobRecord
    <2>4. jobs[c].pc # "none"  BY DEF EndOfInput, LeaveLoop
    <2> QED  BY <2>2, <2>3, <2>4
  <1>3. received_sigterm' \in {0, 1} /\ noError' \in {0, 1}
    BY JobFacts DEF EndOfInput, LeaveLoop
  <1>4. JobOK(c, job, CallKind[calls[c].kind], received_sigterm', noError')
    BY JobFacts
    DEF JobOK, JobRecord, StopOK, TrailerOK, ProgressOK, SilenceOK, VerdictOK, EndOfInput, LeaveLoop
  <1> HIDE DEF job
  <1> QED  BY <1>1, <1>2, <1>3, <1>4, JobSteps

LEMMA CutKeeps ==
  ASSUME IInv, ~TwoTranscoders, NEW c \in Callers, Cut(c)
  PROVE  IInv'
  <1> DEFINE job == [jobs[c] EXCEPT !.pc = "finishing", !.end = "cut"]
  <1>1. jobs' = [jobs EXCEPT ![c] = job] /\ WorkerOnly
    BY JobFacts DEF Cut, LeaveLoop, Continues
  <1>2. /\ job \in JobRecord /\ job.pc # "none" /\ jobs[c].pc # "none"
        /\ job.overtaken = jobs[c].overtaken
    <2>1. jobs[c] \in JobRecord  BY JobFacts
    <2>2. job \in JobRecord  BY <2>1 DEF JobRecord
    <2>3. job.pc # "none" /\ job.overtaken = jobs[c].overtaken  BY <2>1 DEF JobRecord
    <2>4. jobs[c].pc # "none"  BY DEF Cut, LeaveLoop, Continues
    <2> QED  BY <2>2, <2>3, <2>4
  <1>3. received_sigterm' \in {0, 1} /\ noError' \in {0, 1}
    BY JobFacts DEF Cut, LeaveLoop, Continues
  <1>4. JobOK(c, job, CallKind[calls[c].kind], received_sigterm', noError')
    BY JobFacts
    DEF JobOK, JobRecord, StopOK, TrailerOK, ProgressOK, SilenceOK, VerdictOK, Cut, LeaveLoop, Continues
  <1> HIDE DEF job
  <1> QED  BY <1>1, <1>2, <1>3, <1>4, JobSteps

LEMMA ExitWritingKeeps ==
  ASSUME IInv, ~TwoTranscoders, NEW c \in Callers, ExitWriting(c)
  PROVE  IInv'
  <1> DEFINE job == [jobs[c] EXCEPT !.pc = "exiting", !.end = "failed"]
  <1>1. jobs' = [jobs EXCEPT ![c] = job] /\ WorkerOnly
    BY JobFacts DEF ExitWriting
  <1>2. /\ job \in JobRecord /\ job.pc # "none" /\ jobs[c].pc # "none"
        /\ job.overtaken = jobs[c].overtaken
    <2>1. jobs[c] \in JobRecord  BY JobFacts
    <2>2. job \in JobRecord  BY <2>1 DEF JobRecord
    <2>3. job.pc # "none" /\ job.overtaken = jobs[c].overtaken  BY <2>1 DEF JobRecord
    <2>4. jobs[c].pc # "none"  BY DEF ExitWriting
    <2> QED  BY <2>2, <2>3, <2>4
  <1>3. received_sigterm' \in {0, 1} /\ noError' \in {0, 1}
    BY JobFacts DEF ExitWriting
  <1>4. JobOK(c, job, CallKind[calls[c].kind], received_sigterm', noError')
    BY JobFacts
    DEF JobOK, JobRecord, StopOK, TrailerOK, ProgressOK, SilenceOK, VerdictOK, ExitWriting
  <1> HIDE DEF job
  <1> QED  BY <1>1, <1>2, <1>3, <1>4, JobSteps

LEMMA FinishKeeps ==
  ASSUME IInv, ~TwoTranscoders, NEW c \in Callers, Finish(c)
  PROVE  IInv'
  <1> DEFINE job == [jobs[c] EXCEPT !.pc = "reporting", !.trailer = TRUE]
  <1>1. jobs' = [jobs EXCEPT ![c] = job] /\ WorkerOnly
    BY JobFacts DEF Finish
  <1>2. /\ job \in JobRecord /\ job.pc # "none" /\ jobs[c].pc # "none"
        /\ job.overtaken = jobs[c].overtaken
    <2>1. jobs[c] \in JobRecord  BY JobFacts
    <2>2. job \in JobRecord  BY <2>1 DEF JobRecord
    <2>3. job.pc # "none" /\ job.overtaken = jobs[c].overtaken  BY <2>1 DEF JobRecord
    <2>4. jobs[c].pc # "none"  BY DEF Finish
    <2> QED  BY <2>2, <2>3, <2>4
  <1>3. received_sigterm' \in {0, 1} /\ noError' \in {0, 1}
    BY JobFacts DEF Finish
  <1>4. JobOK(c, job, CallKind[calls[c].kind], received_sigterm', noError')
    BY JobFacts
    DEF JobOK, JobRecord, StopOK, TrailerOK, ProgressOK, SilenceOK, VerdictOK, Finish
  <1> HIDE DEF job
  <1> QED  BY <1>1, <1>2, <1>3, <1>4, JobSteps

LEMMA LastProgress ==
  ASSUME NEW S, NEW s \in Seq(S), s # <<>>
  PROVE  Len(s) \in Nat \ {0} /\ s[Len(s)] \in S
  <1>1. Len(s) \in Nat /\ Len(s) # 0  OBVIOUS
  <1> QED  BY <1>1

LEMMA AppendProgress ==
  ASSUME NEW s \in Seq(0..Full), NEW p \in 0..Full,
         \A i, j \in 1..Len(s) : i < j => s[i] < s[j],
         s # <<>> => s[Len(s)] < p
  PROVE  /\ Append(s, p) \in Seq(0..Full)
         /\ Len(Append(s, p)) = Len(s) + 1 /\ Append(s, p)[Len(s) + 1] = p
         /\ \A i, j \in 1..Len(s) + 1 : i < j => Append(s, p)[i] < Append(s, p)[j]
  <1>1. /\ Len(s) \in Nat /\ Len(Append(s, p)) = Len(s) + 1
        /\ Append(s, p)[Len(s) + 1] = p /\ \A i \in 1..Len(s) : Append(s, p)[i] = s[i]
    OBVIOUS
  <1>2. ASSUME NEW i \in 1..Len(s) + 1, NEW j \in 1..Len(s) + 1, i < j
        PROVE  Append(s, p)[i] < Append(s, p)[j]
    <2>1. i \in 1..Len(s) /\ s[i] \in 0..Full /\ s[i] <= s[Len(s)]
      BY <1>1, <1>2, JobsAssumption
    <2>2. CASE j = Len(s) + 1
      BY <1>1, <2>1, <2>2, JobsAssumption
    <2>3. CASE j # Len(s) + 1
      <3>1. j \in 1..Len(s)  BY <1>1, <2>3
      <3> QED  BY <1>1, <1>2, <2>1, <3>1
    <2> QED  BY <2>2, <2>3
  <1> QED  BY <1>1, <1>2

LEMMA CopyPacketKeeps ==
  ASSUME IInv, ~TwoTranscoders, NEW c \in Callers, CopyPacket(c)
  PROVE  IInv'
  <1>1. CASE UNCHANGED jobs
    <2> DEFINE job == jobs[c]
    <2>1. jobs' = [jobs EXCEPT ![c] = job] /\ WorkerOnly
      BY <1>1 DEF CopyPacket, IInv, TypeOK
    <2>2. job.pc = "copying" /\ UNCHANGED <<received_sigterm, noError>>  BY DEF CopyPacket
    <2> QED  BY <2>1, <2>2, JobFacts, JobSteps
  <1>2. ASSUME NEW p \in 0..Full, Reportable(jobs[c], p),
               jobs' = [jobs EXCEPT ![c].last_progress = p, ![c].progress = Append(@, p)]
        PROVE  IInv'
    <2> DEFINE job == [jobs[c] EXCEPT !.last_progress = p,
                                       !.progress = Append(jobs[c].progress, p)]
               s == jobs[c].progress
    <2>1. jobs' = [jobs EXCEPT ![c] = job] /\ WorkerOnly
      BY <1>2, JobFacts DEF CopyPacket
    <2>2. /\ jobs[c].pc = "copying" /\ UNCHANGED <<received_sigterm, noError>>
          /\ s \in Seq(0..Full) /\ Len(s) \in Nat /\ ProgressOK(jobs[c])
      BY JobFacts DEF CopyPacket, JobRecord, JobOK
    <2>3. s # <<>> => s[Len(s)] < p
      <3>1. s # <<>> => Len(s) # 0  BY <2>2
      <3> QED  BY <1>2, <2>2, <3>1 DEF ProgressOK, Reportable
    <2>4. /\ Append(s, p) \in Seq(0..Full)
          /\ Len(Append(s, p)) = Len(s) + 1 /\ Append(s, p)[Len(s) + 1] = p
          /\ \A i, j \in 1..Len(s) + 1 : i < j => Append(s, p)[i] < Append(s, p)[j]
      BY <2>2, <2>3, AppendProgress DEF ProgressOK
    <2>5. job \in JobRecord /\ job.pc = "copying" /\ job.progress = Append(s, p)
          /\ job.overtaken = jobs[c].overtaken
          /\ job.last_progress = p
      <3>1. p \in -1..Full /\ Append(s, p) \in Seq(0..Full)  BY <2>4, JobsAssumption
      <3> QED  BY <2>2, <3>1, JobFacts DEF JobRecord
    <2>6. ProgressOK(job)  BY <2>2, <2>4, <2>5 DEF ProgressOK
    <2>7. JobOK(c, job, CallKind[calls[c].kind], received_sigterm', noError')
      BY <2>2, <2>6, JobFacts DEF JobOK, JobRecord, StopOK, TrailerOK, SilenceOK, VerdictOK
    <2> HIDE DEF job
    <2> QED  BY <2>1, <2>2, <2>5, <2>7, JobFacts, JobSteps
  <1> QED  BY <1>1, <1>2 DEF CopyPacket

LEMMA ReportFullKeeps ==
  ASSUME IInv, ~TwoTranscoders, NEW c \in Callers, ReportFull(c)
  PROVE  IInv'
  <1> DEFINE s == jobs[c].progress
             t == IF ReportsFull(jobs[c]) THEN Append(s, Full) ELSE s
             job == [jobs[c] EXCEPT !.pc = "clearing", !.progress = t]
  <1>1. jobs' = [jobs EXCEPT ![c] = job] /\ WorkerOnly
    BY JobFacts DEF ReportFull
  <1>2. /\ jobs[c].pc = "reporting" /\ UNCHANGED <<received_sigterm, noError>>
        /\ s \in Seq(0..Full) /\ Len(s) \in Nat
        /\ ProgressOK(jobs[c]) /\ StopOK(jobs[c], received_sigterm)
        /\ received_sigterm \in {0, 1} /\ jobs[c].last_progress \in -1..Full
    BY JobFacts DEF ReportFull, JobRecord, JobOK
  <1>3. /\ t \in Seq(0..Full) /\ \A i, j \in 1..Len(t) : i < j => t[i] < t[j]
        /\ received_sigterm = 0 => Len(t) # 0 /\ t[Len(t)] = Full
    <2> DEFINE n == Len(s)
    <2>1. /\ \A i, j \in 1..n : i < j => s[i] < s[j]
          /\ jobs[c].last_progress = IF n = 0 THEN -1 ELSE s[n]
      BY <1>2 DEF ProgressOK
    <2>2. CASE ReportsFull(jobs[c])
      <3>1. s # <<>> => s[Len(s)] < Full
        <4> SUFFICES ASSUME s # <<>> PROVE s[n] < Full  OBVIOUS
        <4>1. n \in Nat \ {0} /\ s[n] \in 0..Full  BY <1>2, LastProgress
        <4>2. s[n] # Full  BY <2>1, <2>2, <4>1 DEF ReportsFull
        <4> QED  BY <4>1, <4>2, JobsAssumption
      <3>2. t = Append(s, Full) /\ Full \in 0..Full  BY <2>2, JobsAssumption
      <3>3. /\ Append(s, Full) \in Seq(0..Full) /\ Len(Append(s, Full)) = n + 1
            /\ Append(s, Full)[n + 1] = Full
            /\ \A i, j \in 1..n + 1 : i < j => Append(s, Full)[i] < Append(s, Full)[j]
        BY <1>2, <2>1, <3>1, <3>2, AppendProgress
      <3>4. n \in Nat  BY <1>2
      <3>5. t \in Seq(0..Full) /\ Len(t) = n + 1 /\ t[n + 1] = Full  BY <3>2, <3>3
      <3>6. \A i, j \in 1..n + 1 : i < j => t[i] < t[j]  BY <3>2, <3>3
      <3> HIDE DEF t, n
      <3>7. \A i, j \in 1..Len(t) : i < j => t[i] < t[j]  BY Zenon, <3>5, <3>6
      <3>8. Len(t) # 0 /\ t[Len(t)] = Full  BY <3>4, <3>5
      <3> QED  BY <3>5, <3>7, <3>8
    <2>3. CASE ~ReportsFull(jobs[c])
      <3>1. received_sigterm = 0 => n # 0 /\ s[n] = Full
        BY <2>1, <2>3, JobsAssumption DEF ReportsFull
      <3> QED  BY <1>2, <2>1, <2>3, <3>1
    <2> QED  BY <2>2, <2>3
  <1> HIDE DEF t
  <1>4. /\ job \in JobRecord /\ job.pc = "clearing" /\ job.progress = t
        /\ job.overtaken = jobs[c].overtaken
    BY <1>2, <1>3, JobFacts DEF JobRecord
  <1>5. ProgressOK(job)
    BY <1>2, <1>3, <1>4, JobFacts DEF ProgressOK, StopOK, JobRecord
  <1>6. JobOK(c, job, CallKind[calls[c].kind], received_sigterm', noError')
    BY <1>2, <1>5, JobFacts DEF JobOK, JobRecord, StopOK, TrailerOK, SilenceOK, VerdictOK
  <1> HIDE DEF job
  <1> QED  BY <1>1, <1>2, <1>4, <1>6, JobFacts, JobSteps

LEMMA ClearKeeps ==
  ASSUME IInv, ~TwoTranscoders, NEW c \in Callers, Clear(c)
  PROVE  IInv'
  <1> DEFINE v == IF noError = 0 THEN Hears(jobs[c].verdict, 0) ELSE jobs[c].verdict
             job == [jobs[c] EXCEPT !.pc = "exiting", !.verdict = v]
  <1>1. jobs' = [jobs EXCEPT ![c] = job] /\ WorkerOnly
    BY JobFacts DEF Clear
  <1>2. /\ jobs[c].pc # "none" /\ received_sigterm' = 0 /\ noError' = noError
        /\ noError \in {0, 1}
    BY JobFacts DEF Clear
  <1>3. v \in [to : Callers \cup {Nobody}, error : {-1, 0, 1}]
    BY <1>2, JobFacts, HasListener DEF JobRecord, Hears
  <1>4. /\ job \in JobRecord /\ job.pc = "exiting" /\ job.verdict = v
        /\ job.overtaken = jobs[c].overtaken
    <2>1. jobs[c] \in JobRecord  BY JobFacts
    <2> QED  BY <1>3, <2>1 DEF JobRecord
  <1>5. JobOK(c, job, CallKind[calls[c].kind], received_sigterm', noError')
    BY <1>2, JobFacts, HasListener
    DEF Clear, JobOK, JobRecord, StopOK, TrailerOK, ProgressOK, SilenceOK, VerdictOK,
        Hears, TellsError, Silence
  <1> HIDE DEF job
  <1> QED  BY <1>1, <1>2, <1>4, <1>5, JobSteps

LEMMA ExitProgramKeeps ==
  ASSUME IInv, ~TwoTranscoders, NEW c \in Callers, exit_program(c)
  PROVE  IInv'
  <1> DEFINE v == IF TellsError(jobs[c]) THEN Hears(jobs[c].verdict, -1) ELSE jobs[c].verdict
             job == [jobs[c] EXCEPT !.pc = "gone", !.verdict = v]
  <1>1. jobs' = [jobs EXCEPT ![c] = job] /\ WorkerOnly
    BY JobFacts DEF exit_program
  <1>2. /\ jobs[c].pc # "none" /\ received_sigterm' = 0 /\ noError' = noError
        /\ noError \in {0, 1}
    BY JobFacts DEF exit_program
  <1>3. v \in [to : Callers \cup {Nobody}, error : {-1, 0, 1}]
    BY <1>2, JobFacts, HasListener DEF JobRecord, Hears
  <1>4. /\ job \in JobRecord /\ job.pc = "gone" /\ job.verdict = v
        /\ job.overtaken = jobs[c].overtaken
    <2>1. jobs[c] \in JobRecord  BY JobFacts
    <2> QED  BY <1>3, <2>1 DEF JobRecord
  <1>5. JobOK(c, job, CallKind[calls[c].kind], received_sigterm', noError')
    BY <1>2, JobFacts, HasListener
    DEF exit_program, JobOK, JobRecord, StopOK, TrailerOK, ProgressOK, SilenceOK, VerdictOK,
        Hears, TellsError, Silence
  <1> HIDE DEF job
  <1> QED  BY <1>1, <1>2, <1>4, <1>5, JobSteps

-----------------------------------------------------------------------------
(* The steps of the callers and of the stop                                *)

\* A caller's step leaves the jobs as they are, but may start or end one.
LEMMA OtherJobs ==
  ASSUME IInv, UNCHANGED <<received_sigterm, noError>>,
         \A d \in Callers : \/ jobs'[d] = jobs[d] /\ calls'[d].kind = calls[d].kind
                            \/ jobs'[d] = jobs[d] /\ jobs[d].pc = "none"
                            \/ jobs'[d] = NoJob
                            \/ \E quiet \in BOOLEAN : jobs'[d] = NewJob("created", quiet)
  PROVE  JobInv'
  <1> SUFFICES ASSUME NEW d \in Callers
               PROVE  JobOK(d, jobs'[d], CallKind[calls'[d].kind], received_sigterm', noError')
    BY DEF JobInv
  <1>1. CASE jobs'[d] = jobs[d] /\ calls'[d].kind = calls[d].kind
    BY <1>1 DEF IInv, JobInv
  <1>2. CASE jobs'[d] = jobs[d] /\ jobs[d].pc = "none"
    BY <1>2, NewJobOK DEF IInv, JobInv, JobOK
  <1>3. CASE jobs'[d] = NoJob
    BY <1>3, NewJobOK
  <1>4. CASE \E quiet \in BOOLEAN : jobs'[d] = NewJob("created", quiet)
    BY <1>4, NewJobOK
  <1> QED  BY <1>1, <1>2, <1>3, <1>4

LEMMA CallFacts ==
  ASSUME IInv, NEW c \in Callers
  PROVE  /\ calls \in [Callers -> CallRecord] /\ calls[c] \in CallRecord
         /\ jobs \in [Callers -> JobRecord]
         /\ jobs[c].pc # "none" <=> calls[c].pc \in {"created", "joining"}
         /\ calls[c].left \in Seq(BOOLEAN)
  BY DEF IInv, TypeOK, CallRecord

LEMMA CallKeeps ==
  ASSUME IInv, ~TwoTranscoders, NEW c \in Callers, NEW k \in Kinds, Call(c, k)
  PROVE  IInv'
  <1> DEFINE call == [pc |-> IF CallKind[k].waits THEN "waiting" ELSE "starting",
                      kind |-> k, left |-> CallKind[k].quiet, raced |-> FALSE]
  <1>1. /\ calls[c].pc = "idle" /\ calls' = [calls EXCEPT ![c] = call]
        /\ UNCHANGED <<m_state_inner_, m_tid_, received_sigterm, noError, stopper, jobs>>
    BY DEF Call
  <1>2. /\ call \in CallRecord /\ call.kind = k /\ call.left # <<>>
        /\ call.pc = IF CallKind[k].waits THEN "waiting" ELSE "starting"
    BY KindFacts DEF CallRecord
  <1> HIDE DEF call
  <1>3. /\ calltype' \in -1..2 /\ (calltype >= 0 => calltype' >= 0)
        /\ CallKind[k].type # Kept => calltype' >= 0
        /\ handler_callback' = IF CallKind[k].handler THEN c ELSE handler_callback
    BY KindFacts DEF Call, IInv, TypeOK
  <1>4. \A d \in Callers \ {c} : calls[d].pc # "idle" =>
          CallKind[k].waits
    BY DEF Call, MayCall
  <1>5. TypeOK'
    BY <1>1, <1>2, <1>3, CallFacts DEF IInv, TypeOK, TwoTranscoders
  <1>6. Apart'
    BY <1>1, <1>2, <1>4, CallFacts DEF IInv, Apart, Unseen
  <1>7. ListenerInv'
    <2> SUFFICES ASSUME NEW d \in Callers, calls'[d].pc # "idle"
                 PROVE  /\ calls'[d].kind \in Kinds
                        /\ CallKind[calls'[d].kind].type # Kept => calltype' >= 0
                        /\ CallKind[calls'[d].kind].handler => handler_callback' = d
      BY DEF ListenerInv
    <2>1. CASE d = c
      BY <1>1, <1>2, <1>3, <2>1, CallFacts
    <2>2. CASE d # c
      <3>1. calls'[d] = calls[d]  BY <1>1, <2>2, CallFacts
      <3>2. ~CallKind[k].handler  BY <1>4, <2>2, <3>1, KindFacts
      <3> QED  BY <1>3, <3>1, <3>2 DEF IInv, ListenerInv
    <2> QED  BY <2>1, <2>2
  <1>8. JobInv'
    BY <1>1, OtherJobs, CallFacts
  <1> QED  BY <1>5, <1>6, <1>7, <1>8 DEF IInv

\* A call that moves on, to another place or to the end, as a caller alone may.
LEMMA CallerSteps ==
  ASSUME IInv, ~TwoTranscoders, NEW c \in Callers, NEW call \in CallRecord,
         calls' = [calls EXCEPT ![c] = call],
         call = Idle \/ call.kind = calls[c].kind,
         calls[c].pc # "idle", m_state_inner_' \in {"READY", "RUNNING", "THREADEXIT"},
         m_tid_' \in Callers \cup {Nobody},
         UNCHANGED <<received_sigterm, noError, listener, stopper>>,
         Apart',
         \/ /\ UNCHANGED <<jobs, m_tid_>>
            /\ call.pc \in {"created", "joining"} <=> jobs[c].pc # "none"
         \/ /\ call.pc \notin {"created", "joining"}
            /\ jobs' = [jobs EXCEPT ![c] = NoJob] /\ UNCHANGED m_tid_
         \/ /\ call.pc = "created" /\ m_tid_' = c /\ calls[c].pc = "starting"
            /\ \E quiet \in BOOLEAN : jobs' = [jobs EXCEPT ![c] = NewJob("created", quiet)]
  PROVE  IInv'
  <1>1. TypeOK'
    <2>1. /\ m_state_inner_' \in {"READY", "RUNNING", "THREADEXIT"}
          /\ m_tid_' \in Callers \cup {Nobody}
          /\ received_sigterm' \in {0, 1} /\ noError' \in {0, 1}
          /\ calltype' \in -1..2 /\ handler_callback' \in Callers \cup {Nobody}
          /\ calls' \in [Callers -> CallRecord]
          /\ stopper' \in {"idle", "stopping"}
      BY DEF IInv, TypeOK, listener
    <2>2. jobs' \in [Callers -> JobRecord]
      BY NewJobFacts DEF IInv, TypeOK, NoJob
    <2>3. ASSUME NEW d \in Callers
          PROVE  calls'[d].pc \in {"created", "joining"} <=> jobs'[d].pc # "none"
      BY NewJobFacts, CallFacts DEF NoJob
    <2>4. ASSUME ~TwoTranscoders', NEW d \in Callers,
                 calls'[d].pc \in {"created", "joining"}
          PROVE  m_tid_' = d
      <3>1. CASE calls'[c].pc = "created" /\ m_tid_' = c
        BY <2>3, <2>4, <3>1 DEF TwoTranscoders
      <3>2. CASE ~(calls'[c].pc = "created" /\ m_tid_' = c)
        <4>1. calls[d].pc \in {"created", "joining"}
          BY <2>4, <3>2, CallFacts
        <4>2. UNCHANGED m_tid_  BY <3>2, CallFacts
        <4> QED  BY <4>1, <4>2 DEF IInv, TypeOK
      <3> QED  BY <3>1, <3>2
    <2> QED  BY <2>1, <2>2, <2>3, <2>4 DEF TypeOK
  <1>2. ListenerInv'
    BY CallFacts DEF IInv, ListenerInv, Idle, listener
  <1>3. JobInv'
    <2>1. ASSUME NEW d \in Callers
          PROVE  \/ jobs'[d] = jobs[d] /\ calls'[d].kind = calls[d].kind
                 \/ jobs'[d] = jobs[d] /\ jobs[d].pc = "none"
                 \/ jobs'[d] = NoJob
                 \/ \E quiet \in BOOLEAN : jobs'[d] = NewJob("created", quiet)
      BY CallFacts DEF Idle
    <2> QED  BY <2>1, OtherJobs
  <1> QED  BY <1>1, <1>2, <1>3 DEF IInv

LEMMA IdleFacts ==
  Idle \in CallRecord /\ Idle.pc = "idle" /\ Idle.left = <<>> /\ Idle.raced = FALSE
  BY DEF Idle, CallRecord

LEMMA WaitOverKeeps ==
  ASSUME IInv, ~TwoTranscoders, NEW c \in Callers, WaitOver(c)
  PROVE  IInv'
  <1>1. /\ calls[c].pc = "waiting" /\ m_state_inner_ # "RUNNING"
        /\ UNCHANGED <<m_state_inner_, m_tid_, received_sigterm, noError, listener,
                       stopper, jobs>>
    BY DEF WaitOver, StopsWaiting
  <1>2. jobs[c].pc = "none"  BY <1>1, CallFacts
  <1>4. PICK call \in CallRecord :
          /\ calls' = [calls EXCEPT ![c] = call]
          /\ \/ call = Idle
             \/ /\ call.kind = calls[c].kind /\ call.pc = "starting"
                /\ call.left = calls[c].left
                /\ call.raced <=> \E d \in Callers \ {c} : Unseen(d)
    <2>1. CASE calls' = [calls EXCEPT ![c].pc = "starting",
                                      ![c].raced = \E d \in Callers \ {c} : Unseen(d)]
      <3> DEFINE raced == \E d \in Callers \ {c} : Unseen(d)
                 call == [calls[c] EXCEPT !.pc = "starting", !.raced = raced]
      <3>0. raced \in BOOLEAN  OBVIOUS
      <3>1. /\ call \in CallRecord /\ call.kind = calls[c].kind /\ call.pc = "starting"
            /\ call.left = calls[c].left /\ call.raced = raced
        <4> HIDE DEF raced
        <4> QED  BY <3>0, CallFacts DEF CallRecord
      <3>2. calls' = [calls EXCEPT ![c] = call]  BY <2>1, CallFacts
      <3> QED  BY <3>1, <3>2
    <2>2. CASE calls' = [calls EXCEPT ![c] = Idle]
      BY <2>2, IdleFacts
    <2> QED  BY <2>1, <2>2 DEF WaitOver
  <1>5. Apart'
    BY <1>1, <1>4, CallFacts, IdleFacts DEF IInv, Apart, Unseen
  <1> QED
    BY <1>1, <1>2, <1>4, <1>5, CallFacts, IdleFacts, CallerSteps DEF IInv, TypeOK

LEMMA HeadTail ==
  ASSUME NEW S, NEW s \in Seq(S), s # <<>>
  PROVE  Head(s) \in S /\ Tail(s) \in Seq(S)
  OBVIOUS

LEMMA CreateKeeps ==
  ASSUME IInv, ~TwoTranscoders, NEW c \in Callers, Create(c)
  PROVE  IInv'
  <1> DEFINE call == [calls[c] EXCEPT !.pc = "created", !.left = Tail(calls[c].left)]
  <1>1. /\ calls[c].pc = "starting" /\ calls[c].left # <<>> /\ m_tid_' = c
        /\ UNCHANGED <<m_state_inner_, received_sigterm, noError, listener, stopper>>
    BY DEF Create, IInv, Apart
  <1>2. Head(calls[c].left) \in BOOLEAN /\ Tail(calls[c].left) \in Seq(BOOLEAN)
    BY <1>1, CallFacts, HeadTail
  <1>3. /\ call \in CallRecord /\ call.pc = "created" /\ call.kind = calls[c].kind
        /\ call.raced = calls[c].raced
    BY <1>2, CallFacts DEF CallRecord
  <1>4. /\ calls' = [calls EXCEPT ![c] = call]
        /\ \E quiet \in BOOLEAN : jobs' = [jobs EXCEPT ![c] = NewJob("created", quiet)]
    BY <1>2, CallFacts DEF Create
  <1> HIDE DEF call
  <1>5. Apart'
    BY <1>1, <1>3, <1>4, CallFacts DEF IInv, Apart, Unseen
  <1> QED  BY <1>1, <1>3, <1>4, <1>5, CallerSteps DEF IInv, TypeOK

\* The end of StartThread, whatever is left to do.
LEMMA ReturnedFacts ==
  ASSUME NEW call \in CallRecord
  PROVE  /\ Returned(call) \in CallRecord
         /\ \/ Returned(call) = Idle
            \/ /\ Returned(call).kind = call.kind /\ Returned(call).pc = "waiting"
               /\ Returned(call).left = call.left /\ call.left # <<>>
  BY IdleFacts DEF Returned, CallRecord

\* A call that comes to its end, or to its next poll, keeps the calls apart.
LEMMA ReturnKeepsApart ==
  ASSUME IInv, NEW c \in Callers, NEW call \in CallRecord,
         calls' = [calls EXCEPT ![c] = call],
         \/ call = Idle
         \/ call.pc = "waiting" /\ call.left # <<>>,
         \A d \in Callers : d # c => jobs'[d] = jobs[d],
         calls[c].pc = "joining" \/ UNCHANGED m_state_inner_
  PROVE  Apart'
  <1>1. \A d \in Callers : d # c => calls'[d] = calls[d]  BY CallFacts
  <1>2. calls'[c] = call /\ call.pc \in {"idle", "waiting"}  BY CallFacts, IdleFacts
  <1> QED  BY <1>1, <1>2, IdleFacts DEF IInv, Apart, Unseen

LEMMA CreateFailsKeeps ==
  ASSUME IInv, ~TwoTranscoders, NEW c \in Callers, CreateFails(c)
  PROVE  IInv'
  <1> DEFINE rest == [calls[c] EXCEPT !.left = Tail(calls[c].left)]
             call == Returned(rest)
  <1>1. /\ calls[c].pc = "starting" /\ calls[c].left # <<>>
        /\ UNCHANGED <<m_state_inner_, m_tid_, received_sigterm, noError, listener,
                       stopper, jobs>>
    BY DEF CreateFails, IInv, Apart
  <1>2. rest \in CallRecord /\ rest.kind = calls[c].kind
    <2>1. Tail(calls[c].left) \in Seq(BOOLEAN)  BY <1>1, CallFacts, HeadTail
    <2> QED  BY <2>1, CallFacts DEF CallRecord
  <1>3. calls' = [calls EXCEPT ![c] = call]  BY CallFacts DEF CreateFails
  <1> HIDE DEF rest
  <1>4. /\ call \in CallRecord /\ (call = Idle \/ call.kind = calls[c].kind)
        /\ call = Idle \/ (call.pc = "waiting" /\ call.left # <<>>)
    BY <1>2, ReturnedFacts
  <1> HIDE DEF call
  <1>5. Apart'  BY <1>1, <1>3, <1>4, ReturnKeepsApart
  <1>6. call.pc \notin {"created", "joining"} /\ jobs[c].pc = "none"
    BY <1>1, <1>4, CallFacts, IdleFacts
  <1> QED  BY <1>1, <1>3, <1>4, <1>5, <1>6, CallerSteps DEF IInv, TypeOK

LEMMA SetRunningKeeps ==
  ASSUME IInv, ~TwoTranscoders, NEW c \in Callers, SetRunning(c)
  PROVE  IInv'
  <1> DEFINE call == [calls[c] EXCEPT !.pc = "joining"]
  <1>1. /\ calls[c].pc = "created" /\ m_state_inner_' = "RUNNING"
        /\ UNCHANGED <<m_tid_, received_sigterm, noError, listener, stopper, jobs>>
    BY DEF SetRunning
  <1>2. /\ call \in CallRecord /\ call.pc = "joining" /\ call.kind = calls[c].kind
        /\ call.raced = calls[c].raced
    BY CallFacts DEF CallRecord
  <1>3. calls' = [calls EXCEPT ![c] = call]  BY CallFacts DEF SetRunning
  <1> HIDE DEF call
  <1>30. \A d \in Callers : d # c => calls[d].pc \notin {"created", "joining"}
    BY <1>1, CallFacts DEF TwoTranscoders
  <1>4. Apart'
    BY <1>1, <1>2, <1>3, <1>30, CallFacts DEF IInv, Apart, Unseen
  <1>5. jobs[c].pc # "none"  BY <1>1, CallFacts
  <1> QED  BY <1>1, <1>2, <1>3, <1>4, <1>5, CallerSteps DEF IInv, TypeOK

LEMMA JoinKeeps ==
  ASSUME IInv, ~TwoTranscoders, NEW c \in Callers, join(c)
  PROVE  IInv'
  <1> DEFINE call == Returned(calls[c])
  <1>1. /\ calls[c].pc = "joining" /\ m_state_inner_' = "READY"
        /\ UNCHANGED <<m_tid_, received_sigterm, noError, listener, stopper>>
    BY DEF join
  <1>2. m_tid_ = c  BY <1>1 DEF IInv, TypeOK
  <1>3. calls' = [calls EXCEPT ![c] = call] /\ jobs' = [jobs EXCEPT ![c] = NoJob]
    BY <1>2, CallFacts DEF join
  <1>4. /\ call \in CallRecord /\ (call = Idle \/ call.kind = calls[c].kind)
        /\ call = Idle \/ (call.pc = "waiting" /\ call.left # <<>>)
    BY ReturnedFacts, CallFacts
  <1> HIDE DEF call
  <1>50. \A d \in Callers : d # c => jobs'[d] = jobs[d]  BY <1>3, CallFacts
  <1>5. Apart'  BY <1>1, <1>3, <1>4, <1>50, ReturnKeepsApart
  <1>6. call.pc \notin {"created", "joining"}  BY <1>4, IdleFacts
  <1> QED  BY <1>1, <1>3, <1>4, <1>5, <1>6, CallerSteps DEF IInv, TypeOK

LEMMA SetTerminateKeeps ==
  ASSUME IInv, SetTerminate
  PROVE  IInv'
  <1>1. /\ stopper = "idle" /\ stopper' = "stopping" /\ received_sigterm' = 1
        /\ UNCHANGED <<m_state_inner_, m_tid_, noError, calltype, handler_callback, calls>>
    BY DEF SetTerminate, listener
  <1>2. ASSUME NEW c \in Callers
        PROVE  /\ jobs'[c] \in JobRecord /\ jobs'[c].pc = jobs[c].pc
               /\ jobs'[c].overtaken = jobs[c].overtaken
               /\ JobOK(c, jobs'[c], CallKind[calls'[c].kind], received_sigterm', noError')
    <2>1. jobs'[c] = IF jobs[c].pc \in {"none", "created"} THEN jobs[c]
                     ELSE [jobs[c] EXCEPT !.stopped = TRUE]
      BY DEF SetTerminate
    <2>2. /\ jobs'[c] \in JobRecord /\ jobs'[c].pc = jobs[c].pc
          /\ jobs'[c].overtaken = jobs[c].overtaken
      <3>1. jobs[c] \in JobRecord  BY JobFacts
      <3>2. /\ [jobs[c] EXCEPT !.stopped = TRUE] \in JobRecord
            /\ [jobs[c] EXCEPT !.stopped = TRUE].pc = jobs[c].pc
            /\ [jobs[c] EXCEPT !.stopped = TRUE].overtaken = jobs[c].overtaken
        BY <3>1 DEF JobRecord
      <3> QED  BY <2>1, <3>1, <3>2
    <2>3. CASE jobs[c].pc \in {"none", "created"}
      <3>1. jobs'[c] = jobs[c]  BY <2>1, <2>3
      <3> QED
        BY <1>1, <2>2, <2>3, <3>1, JobFacts
        DEF JobOK, StopOK, TrailerOK, ProgressOK, SilenceOK, VerdictOK
    <2>4. CASE jobs[c].pc \notin {"none", "created"}
      <3>1. jobs'[c] = [jobs[c] EXCEPT !.stopped = TRUE]  BY <2>1, <2>4
      <3> QED
        BY <1>1, <2>2, <2>4, <3>1, JobFacts
        DEF JobOK, JobRecord, StopOK, TrailerOK, ProgressOK, SilenceOK, VerdictOK
    <2> QED  BY <2>2, <2>3, <2>4
  <1>3. TypeOK'
    <2>1. jobs' \in [Callers -> JobRecord]  BY <1>2 DEF SetTerminate
    <2> QED  BY <1>1, <1>2, <2>1 DEF IInv, TypeOK, TwoTranscoders
  <1>4. Apart' /\ ListenerInv'
    BY <1>1, <1>2 DEF IInv, Apart, Unseen, ListenerInv
  <1> QED  BY <1>2, <1>3, <1>4 DEF IInv, JobInv

LEMMA SetThreadExitKeeps ==
  ASSUME IInv, SetThreadExit
  PROVE  IInv'
  <1>1. /\ stopper' = "idle" /\ m_state_inner_' = "THREADEXIT"
        /\ UNCHANGED <<m_tid_, received_sigterm, noError, calltype, handler_callback, calls>>
    BY DEF SetThreadExit, listener
  <1>2. ASSUME NEW c \in Callers
        PROVE  /\ jobs'[c] \in JobRecord /\ jobs'[c].pc = jobs[c].pc
               /\ calls[c].pc = "joining" => jobs'[c].overtaken
               /\ jobs[c].overtaken => jobs'[c].overtaken
               /\ JobOK(c, jobs'[c], CallKind[calls'[c].kind], received_sigterm', noError')
    <2>1. jobs'[c] = IF calls[c].pc = "joining"
                     THEN [jobs[c] EXCEPT !.overtaken = TRUE] ELSE jobs[c]
      BY DEF SetThreadExit
    <2>2. CASE calls[c].pc = "joining"
      <3>1. jobs[c] \in JobRecord /\ jobs[c].pc # "none"  BY <2>2, JobFacts, CallFacts
      <3>2. jobs'[c] = [jobs[c] EXCEPT !.overtaken = TRUE]
        BY <2>1, <2>2
      <3>3. jobs'[c] \in JobRecord
        BY <3>1, <3>2 DEF JobRecord
      <3>4. jobs'[c].pc = jobs[c].pc /\ jobs'[c].overtaken
        BY <3>1, <3>2 DEF JobRecord
      <3> QED
        BY <1>1, <3>1, <3>2, <3>3, <3>4, JobFacts
        DEF JobOK, JobRecord, StopOK, TrailerOK, ProgressOK, SilenceOK, VerdictOK
    <2>3. CASE calls[c].pc # "joining"
      BY <1>1, <2>1, <2>3, JobFacts
    <2> QED  BY <2>2, <2>3
  <1>3. TypeOK'
    <2>1. jobs' \in [Callers -> JobRecord]  BY <1>2 DEF SetThreadExit
    <2> QED  BY <1>1, <1>2, <2>1 DEF IInv, TypeOK, TwoTranscoders
  <1>4. Apart' /\ ListenerInv'
    BY <1>1, <1>2 DEF IInv, Apart, Unseen, ListenerInv
  <1> QED  BY <1>2, <1>3, <1>4 DEF IInv, JobInv

-----------------------------------------------------------------------------
(* The invariant and what follows                                          *)

LEMMA Initially == Init => IInv
  <1> SUFFICES ASSUME Init PROVE IInv  OBVIOUS
  <1>1. TypeOK
    <2>1. NoJob \in JobRecord /\ NoJob.pc = "none"  BY NewJobFacts DEF NoJob
    <2> QED  BY <2>1, IdleFacts DEF Init, TypeOK
  <1>2. Apart /\ ListenerInv  BY IdleFacts DEF Init, Apart, Unseen, ListenerInv
  <1>3. JobInv  BY NewJobOK DEF Init, JobInv
  <1> QED  BY <1>1, <1>2, <1>3 DEF IInv

LEMMA Stuttering == IInv /\ UNCHANGED vars => IInv'
  BY DEF IInv, vars, listener, TypeOK, TwoTranscoders, Apart, Unseen, ListenerInv, JobInv

\* Everything below, for any number of callers, any kinds of call and any
\* number of calls, jobs and stops.
THEOREM Invariance == Spec => []IInv
  <1>1. IInv /\ [Next]_vars => IInv'
    <2> SUFFICES ASSUME IInv, [Next]_vars PROVE IInv'  OBVIOUS
    <2>1. ASSUME ~TwoTranscoders, NEW c \in Callers, NEW k \in Kinds, Call(c, k) PROVE IInv'
      BY <2>1, CallKeeps
    <2>2. ASSUME ~TwoTranscoders, NEW c \in Callers, CallerStep(c) PROVE IInv'
      BY <2>2, WaitOverKeeps, CreateKeeps, CreateFailsKeeps, SetRunningKeeps, JoinKeeps
      DEF CallerStep
    <2>3. ASSUME ~TwoTranscoders, NEW c \in Callers, JobStep(c) PROVE IInv'
      BY <2>3, EnterKeeps, OpenKeeps, OpenFailsKeeps, ExitOpeningKeeps, CopyPacketKeeps,
         EndOfInputKeeps, CutKeeps, ExitWritingKeeps, FinishKeeps, ReportFullKeeps,
         ClearKeeps, ExitProgramKeeps
      DEF JobStep
    <2> QED
      BY <2>1, <2>2, <2>3, SetTerminateKeeps, SetThreadExitKeeps, Stuttering
      DEF Next, Step, Undefined
  <1> QED  BY <1>1, Initially, PTL DEF Spec

THEOREM TypeCorrect == Spec => []TypeOK
  <1>1. IInv => TypeOK  BY DEF IInv
  <1> QED  BY <1>1, Invariance, PTL

\* Two callers have a job at the same time only if their calls raced or a stop
\* has overtaken one of the jobs.
THEOREM OneTranscoderRuns == Spec => []TwoOnlyByARace
  <1>1. IInv => TwoOnlyByARace
    <2> SUFFICES ASSUME IInv, NEW c \in Callers, NEW d \in Callers, c # d,
                        jobs[c].pc # "none", jobs[d].pc # "none"
                 PROVE  \E e \in {c, d} : calls[e].raced \/ jobs[e].overtaken
      BY DEF TwoOnlyByARace
    <2>1. calls[c].pc \in {"created", "joining"} /\ calls[d].pc \in {"created", "joining"}
      BY CallFacts
    <2> QED  BY <2>1 DEF IInv, Apart, Unseen
  <1> QED  BY <1>1, Invariance, PTL

\* A job is cut by a stop of its own only.
THEOREM CutsAreStops == Spec => []CutOnlyByItsStop
  <1>1. IInv => CutOnlyByItsStop
    BY DEF IInv, JobInv, JobOK, StopOK, CutOnlyByItsStop
  <1> QED  BY <1>1, Invariance, PTL

\* What the listener hears last of a job is how it ended.
THEOREM VerdictsAreTrue == Spec => []VerdictIsTrue
  <1>1. IInv => VerdictIsTrue
    <2> SUFFICES ASSUME IInv, NEW c \in Callers, jobs[c].pc = "gone",
                        CallKind[calls[c].kind].type # Kept
                 PROVE  LET job == jobs[c]
                            kind == CallKind[calls[c].kind]
                        IN /\ job.quiet => \/ job.verdict = Silence
                                           \/ job.verdict.error = -1 /\ job.end = "failed"
                           /\ ~job.quiet =>
                                /\ job.verdict.error = IF job.end = "failed" THEN -1 ELSE 0
                                /\ kind.handler => job.verdict.to = c
      BY DEF VerdictIsTrue
    <2>1. VerdictOK(c, jobs[c], CallKind[calls[c].kind])  BY JobFacts DEF JobOK
    <2> QED  BY <2>1 DEF VerdictOK
  <1> QED  BY <1>1, Invariance, PTL

\* Progress grows, to Full if the input was read to its end.
THEOREM ProgressGrows == Spec => []ProgressIsTrue
  <1>1. IInv => ProgressIsTrue
    <2> SUFFICES ASSUME IInv, NEW c \in Callers
                 PROVE  LET job == jobs[c]
                        IN /\ \A i, j \in DOMAIN job.progress :
                                i < j => job.progress[i] < job.progress[j]
                           /\ job.pc = "gone" /\ job.end = "complete" /\ ~job.stopped =>
                                /\ job.progress # <<>>
                                /\ job.progress[Len(job.progress)] = Full
      BY DEF ProgressIsTrue
    <2>1. jobs[c].progress \in Seq(0..Full) /\ ProgressOK(jobs[c])
      BY JobFacts DEF JobRecord, JobOK
    <2>2. DOMAIN jobs[c].progress = 1..Len(jobs[c].progress)  BY <2>1
    <2>3. Len(jobs[c].progress) # 0 => jobs[c].progress # <<>>  OBVIOUS
    <2> QED  BY <2>1, <2>2, <2>3 DEF ProgressOK
  <1> QED  BY <1>1, Invariance, PTL

\* Stopped or not, a job calls av_write_trailer before its thread ends.
THEOREM FilesAreFinished == Spec => []StoppedFileIsFinished
  <1>1. IInv => StoppedFileIsFinished
    BY DEF IInv, JobInv, JobOK, TrailerOK, StoppedFileIsFinished
  <1> QED  BY <1>1, Invariance, PTL
=============================================================================
