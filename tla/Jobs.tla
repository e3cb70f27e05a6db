-------------------------------- MODULE Jobs ---------------------------------
(***************************************************************************)
(* The transcode jobs of src/interface/interface.cpp and CThread.cpp: a    *)
(* call from Java sets the listener, starts ffmpeg_main                    *)
(* (src/libffmpeg/ffmpeg.c) on a thread of its own and waits for it;       *)
(* nativeStop sets ffmpeg.c's terminate flag from another thread.          *)
(*                                                                         *)
(* CThread and ffmpeg.c keep one copy of everything. Only the calls that   *)
(* poll for RUNNING are meant to be made while another call is under way   *)
(* (MayCall); a stop may come at any time. The polling does not keep two   *)
(* jobs apart in every case: where two run at once they overwrite each     *)
(* other's globals, file tables and thread identifier, whatever then       *)
(* happens is undefined, and the model ends there (TwoTranscoders). What   *)
(* the codecs do to a packet is left out.                                  *)
(*                                                                         *)
(* A definition marked "Bug" is a plausible mistake in the definition that *)
(* follows it, kept to see which property such a mistake would break.      *)
(***************************************************************************)
EXTENDS Integers, Sequences

CONSTANTS
  Callers,   \* the Java threads that make the calls
  Kinds,     \* the calls they make, of those CallKind lists
  Full,      \* the highest progress (100 in the code)
  Nobody     \* the handler, and the thread identifier, that nobody set yet

ASSUME JobsAssumption ==
  /\ Nobody \notin Callers
  /\ Full \in Nat \ {0}

VARIABLES
  m_state_inner_,
  m_tid_,            \* the caller whose job runs on the thread m_tid_
  received_sigterm,
  noError,
  calltype,
  handler_callback,  \* the caller that gave the handler
  calls,             \* per caller: where it is, its kind, jobs to start, raced
  stopper,           \* the thread in nativeStop: "idle" or "stopping"
  jobs               \* per caller: its latest job

listener == <<calltype, handler_callback>>
vars == <<m_state_inner_, m_tid_, received_sigterm, noError, listener, calls,
          stopper, jobs>>

-----------------------------------------------------------------------------
\* The calls: the call type and whether a handler is set (-2 leaves the call
\* type as it is), whether the call polls for RUNNING first, and its jobs in
\* order, each TRUE if run with -setError, which silences its errors.
Kind(type, handler, waits, quiet) ==
  [type |-> type, handler |-> handler, waits |-> waits, quiet |-> quiet]
Kept == -2

CallKind ==
  [VideoCut |-> Kind(0, TRUE, FALSE, <<FALSE>>),
   Mux |-> Kind(2, FALSE, TRUE, <<TRUE, FALSE>>),
   ProduceJpeg |-> Kind(1, FALSE, FALSE, <<FALSE>>),
   ChangeVolume |-> Kind(2, TRUE, FALSE, <<FALSE>>),
   BackgroundAudio |-> Kind(1, TRUE, FALSE, <<FALSE>>),
   Thumbnail |-> Kind(Kept, FALSE, FALSE, <<FALSE>>),
   MultiConcat |-> Kind(Kept, FALSE, TRUE, <<FALSE>>),
   Module |-> Kind(Kept, FALSE, FALSE, <<FALSE>>),
   GetImageData |-> Kind(Kept, FALSE, TRUE, <<FALSE>>)]

ASSUME KindsAssumption == Kinds \subseteq DOMAIN CallKind

\* The verdict is the last error a listener heard of the job, and who heard
\* it; progress is what pFunc was called with; stopped, whether a stop came
\* since the job reset the terminate flag; overtaken, whether one has set
\* THREADEXIT over the job's RUNNING; trailer, whether av_write_trailer was
\* called, whose result the code ignores.
Silence == [to |-> Nobody, error |-> 1]
NewJob(pc, quiet) ==
  [pc |-> pc, quiet |-> quiet, last_progress |-> -1, progress |-> <<>>,
   stopped |-> FALSE, overtaken |-> FALSE, end |-> "none", trailer |-> FALSE,
   verdict |-> Silence]
NoJob == NewJob("none", FALSE)

\* A call is raced if it left its poll while another was between its own poll
\* and RUNNING.
Idle == [pc |-> "idle", kind |-> Nobody, left |-> <<>>, raced |-> FALSE]

Init ==
  /\ m_state_inner_ = "READY" /\ m_tid_ = Nobody
  /\ received_sigterm = 0 /\ noError = 0
  /\ calltype = -1 /\ handler_callback = Nobody
  /\ calls = [c \in Callers |-> Idle]
  /\ stopper = "idle"
  /\ jobs = [c \in Callers |-> NoJob]

-----------------------------------------------------------------------------
\* Two jobs at once, in one set of globals.
TwoTranscoders ==
  \E c, d \in Callers : c # d /\ jobs[c].pc # "none" /\ jobs[d].pc # "none"

\* Java's side of the contract: a call that does not poll is made when no other
\* is under way.
MayCall(c, k) ==
  CallKind[k].waits \/ \A d \in Callers \ {c} : calls[d].pc = "idle"

Call(c, k) ==
  /\ calls[c].pc = "idle" /\ MayCall(c, k)
  /\ calls' = [calls EXCEPT ![c] =
                 [pc |-> IF CallKind[k].waits THEN "waiting" ELSE "starting",
                  kind |-> k, left |-> CallKind[k].quiet, raced |-> FALSE]]
  /\ IF CallKind[k].type = Kept THEN UNCHANGED calltype
                                ELSE calltype' = CallKind[k].type
  /\ IF CallKind[k].handler THEN handler_callback' = c
                            ELSE UNCHANGED handler_callback
  /\ UNCHANGED <<m_state_inner_, m_tid_, received_sigterm, noError, stopper, jobs>>

\* The poll ends. nativeMultiConcat then gives up if it cannot write the list
\* of its inputs.
StopsWaitingAtOnce(c) == calls[c].pc = "waiting"   \* Bug: the poll is commented out
StopsWaiting(c) == calls[c].pc = "waiting" /\ m_state_inner_ # "RUNNING"

\* Between the end of the poll and RUNNING (CThread.cpp:42-46).
Unseen(c) == calls[c].pc \in {"starting", "created"}

WaitOver(c) ==
  /\ StopsWaiting(c)
  /\ \/ calls' = [calls EXCEPT ![c].pc = "starting",
                              ![c].raced = \E d \in Callers \ {c} : Unseen(d)]
     \/ calls[c].kind = "MultiConcat" /\ calls' = [calls EXCEPT ![c] = Idle]
  /\ UNCHANGED <<m_state_inner_, m_tid_, received_sigterm, noError, listener,
                 stopper, jobs>>

\* StartThread comes back, with a thread joined or not created: the call's
\* next job, if it has one, or the end of the call.
Returned(call) ==
  IF call.left = <<>> THEN Idle ELSE [call EXCEPT !.pc = "waiting", !.raced = FALSE]

Create(c) ==
  /\ calls[c].pc = "starting"
  /\ calls' = [calls EXCEPT ![c].pc = "created", ![c].left = Tail(@)]
  /\ jobs' = [jobs EXCEPT ![c] = NewJob("created", Head(calls[c].left))]
  /\ m_tid_' = c
  /\ UNCHANGED <<m_state_inner_, received_sigterm, noError, listener, stopper>>

\* Bug: StartThread joins a thread it could not create.
CreateFailsAndJoins(c) ==
  /\ calls[c].pc = "starting"
  /\ calls' = [calls EXCEPT ![c].pc = "joining", ![c].left = Tail(@)]
  /\ UNCHANGED <<m_state_inner_, m_tid_, received_sigterm, noError, listener,
                 stopper, jobs>>

CreateFails(c) ==
  /\ calls[c].pc = "starting"
  /\ LET rest == [calls[c] EXCEPT !.left = Tail(@)]
     IN calls' = [calls EXCEPT ![c] = Returned(rest)]
  /\ UNCHANGED <<m_state_inner_, m_tid_, received_sigterm, noError, listener,
                 stopper, jobs>>

SetRunning(c) ==
  /\ calls[c].pc = "created"
  /\ m_state_inner_' = "RUNNING"
  /\ calls' = [calls EXCEPT ![c].pc = "joining"]
  /\ UNCHANGED <<m_tid_, received_sigterm, noError, listener, stopper, jobs>>

join(c) ==
  /\ calls[c].pc = "joining" /\ jobs[m_tid_].pc = "gone"
  /\ m_state_inner_' = "READY"
  /\ calls' = [calls EXCEPT ![c] = Returned(@)]
  /\ jobs' = [jobs EXCEPT ![m_tid_] = NoJob]
  /\ UNCHANGED <<m_tid_, received_sigterm, noError, listener, stopper>>

\* nativeStop: the terminate flag first, the state afterwards.
SetTerminate ==
  /\ stopper = "idle"
  /\ stopper' = "stopping"
  /\ received_sigterm' = 1
  /\ jobs' = [c \in Callers |-> IF jobs[c].pc \in {"none", "created"} THEN jobs[c]
                                ELSE [jobs[c] EXCEPT !.stopped = TRUE]]
  /\ UNCHANGED <<m_state_inner_, m_tid_, noError, listener, calls>>

SetThreadExit ==
  /\ stopper = "stopping"
  /\ stopper' = "idle"
  /\ m_state_inner_' = "THREADEXIT"
  /\ jobs' = [c \in Callers |-> IF calls[c].pc = "joining"
                                THEN [jobs[c] EXCEPT !.overtaken = TRUE]
                                ELSE jobs[c]]
  /\ UNCHANGED <<m_tid_, received_sigterm, noError, listener, calls>>

-----------------------------------------------------------------------------
\* The jobs. SetErrorFlag tells the listener if there is a call type.
Hears(verdict, error) ==
  IF calltype >= 0 THEN [to |-> handler_callback, error |-> error] ELSE verdict

WorkerOnly == UNCHANGED <<m_state_inner_, m_tid_, listener, calls, stopper>>

\* Bug: the terminate flag is left as the last job's stop set it.
EnterTerminated(c) ==
  /\ jobs[c].pc = "created" /\ WorkerOnly
  /\ noError' = 0
  /\ jobs' = [jobs EXCEPT ![c].pc = "opening", ![c].stopped = FALSE]
  /\ UNCHANGED received_sigterm

\* ffmpeg_main resets the globals, a stop that came too early among them.
Enter(c) ==
  /\ jobs[c].pc = "created" /\ WorkerOnly
  /\ received_sigterm' = 0 /\ noError' = 0
  /\ jobs' = [jobs EXCEPT ![c].pc = "opening", ![c].stopped = FALSE]

\* The options are parsed, -setError too, and the files opened.
Opened(c) ==
  /\ jobs[c].pc = "opening"
  /\ noError' = IF jobs[c].quiet THEN 1 ELSE noError
  /\ UNCHANGED received_sigterm /\ WorkerOnly

Open(c) == Opened(c) /\ jobs' = [jobs EXCEPT ![c].pc = "copying"]

\* transcode_init returns an error: transcode cleans up as after a success.
OpenFails(c) ==
  Opened(c) /\ jobs' = [jobs EXCEPT ![c].pc = "reporting", ![c].end = "failed"]

\* exit_program(1), which may come before -setError is reached.
ExitOpening(c) ==
  /\ jobs[c].pc = "opening" /\ WorkerOnly
  /\ noError' \in {noError, IF jobs[c].quiet THEN 1 ELSE noError}
  /\ jobs' = [jobs EXCEPT ![c].pc = "exiting", ![c].end = "failed"]
  /\ UNCHANGED received_sigterm

\* An iteration of transcode's loop, with or without a progress to report.
ContinuesStopped == TRUE   \* Bug: only the end of the input ends the loop
Continues == received_sigterm = 0
Reportable(job, progress) == progress > job.last_progress

CopyPacket(c) ==
  /\ jobs[c].pc = "copying" /\ Continues /\ WorkerOnly
  /\ \/ UNCHANGED jobs
     \/ \E p \in 0..Full :
          /\ Reportable(jobs[c], p)
          /\ jobs' = [jobs EXCEPT ![c].last_progress = p, ![c].progress = Append(@, p)]
  /\ UNCHANGED <<received_sigterm, noError>>

LeaveLoop(c, end) ==
  /\ jobs' = [jobs EXCEPT ![c].pc = "finishing", ![c].end = end]
  /\ UNCHANGED <<received_sigterm, noError>> /\ WorkerOnly

EndOfInput(c) == jobs[c].pc = "copying" /\ Continues /\ LeaveLoop(c, "complete")

\* Bug: a stopped job goes straight to the cleanup.
CutAtOnce(c) ==
  /\ jobs[c].pc = "copying" /\ ~Continues
  /\ jobs' = [jobs EXCEPT ![c].pc = "reporting", ![c].end = "cut"]
  /\ UNCHANGED <<received_sigterm, noError>> /\ WorkerOnly

Cut(c) == jobs[c].pc = "copying" /\ ~Continues /\ LeaveLoop(c, "cut")

\* A packet cannot be written, in the loop or while the encoders are flushed.
ExitWriting(c) ==
  /\ jobs[c].pc = "finishing" \/ (jobs[c].pc = "copying" /\ Continues)
  /\ jobs' = [jobs EXCEPT ![c].pc = "exiting", ![c].end = "failed"]
  /\ UNCHANGED <<received_sigterm, noError>> /\ WorkerOnly

\* av_write_trailer may fail: the job goes on, and ends, as if it had not.
Finish(c) ==
  /\ jobs[c].pc = "finishing"
  /\ jobs' = [jobs EXCEPT ![c].pc = "reporting", ![c].trailer = TRUE]
  /\ UNCHANGED <<received_sigterm, noError>> /\ WorkerOnly

\* The label fail of transcode: the last progress, of a failure too.
ReportsFullTwice(job) == received_sigterm = 0   \* Bug: 100 was reported already
ReportsFull(job) == received_sigterm = 0 /\ job.last_progress # Full

ReportFull(c) ==
  /\ jobs[c].pc = "reporting"
  /\ jobs' = [jobs EXCEPT ![c].pc = "clearing",
                          ![c].progress = IF ReportsFull(jobs[c]) THEN Append(@, Full)
                                                                  ELSE @]
  /\ UNCHANGED <<received_sigterm, noError>> /\ WorkerOnly

\* transcode's end, which tells of no error whatever it returns.
Clear(c) ==
  /\ jobs[c].pc = "clearing"
  /\ received_sigterm' = 0
  /\ jobs' = [jobs EXCEPT ![c].pc = "exiting",
                          ![c].verdict = IF noError = 0 THEN Hears(@, 0) ELSE @]
  /\ UNCHANGED noError /\ WorkerOnly

\* exit_program: closes the files, tells of an error and ends the thread.
\* Bug: only a job that reported progress tells of an error.
TellsLateError(job) == job.end = "failed" /\ noError = 0 /\ job.progress # <<>>
TellsError(job) == job.end = "failed" /\ noError = 0

exit_program(c) ==
  /\ jobs[c].pc = "exiting"
  /\ received_sigterm' = 0
  /\ jobs' = [jobs EXCEPT ![c].pc = "gone",
                          ![c].verdict = IF TellsError(jobs[c]) THEN Hears(@, -1) ELSE @]
  /\ UNCHANGED noError /\ WorkerOnly

JobStep(c) ==
  \/ Enter(c) \/ Open(c) \/ OpenFails(c) \/ ExitOpening(c)
  \/ CopyPacket(c) \/ EndOfInput(c) \/ Cut(c) \/ ExitWriting(c)
  \/ Finish(c) \/ ReportFull(c) \/ Clear(c) \/ exit_program(c)

CallerStep(c) ==
  WaitOver(c) \/ Create(c) \/ CreateFails(c) \/ SetRunning(c) \/ join(c)

Step ==
  \/ \E c \in Callers : (\E k \in Kinds : Call(c, k)) \/ CallerStep(c) \/ JobStep(c)
  \/ SetTerminate \/ SetThreadExit

\* Two jobs in one set of globals: nothing more is said of the program.
Undefined == TwoTranscoders /\ UNCHANGED vars

Next == (~TwoTranscoders /\ Step) \/ Undefined

\* Every thread that can run runs, but an input may never end and a packet may
\* never fail: once in its loop a job need not leave it before it is stopped.
JobMustStep(c) ==
  /\ ~TwoTranscoders
  /\ jobs[c].pc = "copying" => ~Continues
  /\ JobStep(c)

Fairness ==
  /\ \A c \in Callers :
       WF_vars(~TwoTranscoders /\ CallerStep(c)) /\ WF_vars(JobMustStep(c))
  /\ WF_vars(~TwoTranscoders /\ SetThreadExit)

Spec == Init /\ [][Next]_vars /\ Fairness

-----------------------------------------------------------------------------
JobRecord ==
  [pc : {"none", "created", "opening", "copying", "finishing", "reporting",
         "clearing", "exiting", "gone"},
   quiet : BOOLEAN, last_progress : -1..Full, progress : Seq(0..Full),
   stopped : BOOLEAN, overtaken : BOOLEAN,
   end : {"none", "complete", "cut", "failed"},
   trailer : BOOLEAN,
   verdict : [to : Callers \cup {Nobody}, error : {-1, 0, 1}]]

CallRecord ==
  [pc : {"idle", "waiting", "starting", "created", "joining"},
   kind : Kinds \cup {Nobody}, left : Seq(BOOLEAN), raced : BOOLEAN]

\* The types, and where the callers are: whoever is between pthread_create and
\* the end of pthread_join has a job, and if it is the only one m_tid_ is its.
TypeOK ==
  /\ m_state_inner_ \in {"READY", "RUNNING", "THREADEXIT"}
  /\ m_tid_ \in Callers \cup {Nobody}
  /\ received_sigterm \in {0, 1} /\ noError \in {0, 1}
  /\ calltype \in -1..2 /\ handler_callback \in Callers \cup {Nobody}
  /\ calls \in [Callers -> CallRecord]
  /\ stopper \in {"idle", "stopping"}
  /\ jobs \in [Callers -> JobRecord]
  /\ \A c \in Callers :
       calls[c].pc \in {"created", "joining"} <=> jobs[c].pc # "none"
  /\ \A c \in Callers :
       ~TwoTranscoders /\ calls[c].pc \in {"created", "joining"} => m_tid_ = c

\* The globals of ffmpeg.c and the identifier StartThread joins belong to one
\* job at a time, but for two races the polling leaves open: a stop that sets
\* THREADEXIT while one of the two jobs runs lets a call that polls past it
\* (CThread.cpp:63, interface.cpp:213), and two calls may both be between their
\* polls and the RUNNING that the later one should have seen (CThread.cpp:42-46).
\* Nothing else brings two jobs together: no stop of an earlier job, however
\* late, no failed start, no second job of a call, no third caller.
TwoOnlyByARace ==
  \A c, d \in Callers :
    c # d /\ jobs[c].pc # "none" /\ jobs[d].pc # "none" =>
      \E e \in {c, d} : calls[e].raced \/ jobs[e].overtaken

\* A job that ends before its input did was stopped after it began: a stop
\* that came too late for the job before it cuts nothing.
CutOnlyByItsStop == \A c \in Callers : jobs[c].end = "cut" => jobs[c].stopped

\* A call that sets a call type hears how its job ended: the last error it is
\* told is -1 if the job failed and 0 if not, on the way there a failure may
\* well be told as a success; a job that silences its errors says nothing but
\* that it failed. If the call gave a handler, it is that handler that hears.
\* A trailer that could not be written is not a failure the code knows of.
VerdictIsTrue ==
  \A c \in Callers :
    LET job == jobs[c]
        kind == CallKind[calls[c].kind]
    IN job.pc = "gone" /\ kind.type # Kept =>
         /\ job.quiet => \/ job.verdict = Silence
                         \/ job.verdict.error = -1 /\ job.end = "failed"
         /\ ~job.quiet => /\ job.verdict.error = IF job.end = "failed" THEN -1 ELSE 0
                          /\ kind.handler => job.verdict.to = c

\* Progress only grows, and a job that came to the end of its input without a
\* stop ends at Full.
ProgressIsTrue ==
  \A c \in Callers :
    LET job == jobs[c]
    IN /\ \A i, j \in DOMAIN job.progress : i < j => job.progress[i] < job.progress[j]
       /\ job.pc = "gone" /\ job.end = "complete" /\ ~job.stopped =>
            job.progress # <<>> /\ job.progress[Len(job.progress)] = Full

\* A stopped job does not leave its file as it is: like a complete one it calls
\* av_write_trailer before its thread ends. Whether that succeeds nobody asks:
\* a file without a trailer is then told as a success (ffmpeg.c:4893).
StoppedFileIsFinished ==
  \A c \in Callers :
    jobs[c].pc = "gone" /\ jobs[c].end \in {"complete", "cut"} => jobs[c].trailer

\* A stop that reaches a job's loop ends the job and the wait of its caller,
\* even if the input never ends, unless a second job comes into its globals.
StopEndsTheJob ==
  \A c \in Callers :
    jobs[c].pc = "copying" /\ received_sigterm = 1
      ~> calls[c].pc # "joining" \/ TwoTranscoders
=============================================================================
