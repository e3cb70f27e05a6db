------------------------ MODULE StagefrightEncProofs ------------------------
(***************************************************************************)
(* The caller and the encoder thread of StagefrightEnc never wait for each *)
(* other; no picture is lost, returned twice or out of order between them; *)
(* and the wrapper implements DelayingEncoder: proofs for queues of any    *)
(* length and an encoder of any depth that fits them.                      *)
(*                                                                         *)
(* That neither waits for the other is an argument of counting. A call adds *)
(* one frame and takes one away, unless it finds out_queue empty; at that  *)
(* moment in_queue, the encoder and the thread hold all there is, at most  *)
(* QueueMax + Depth + 1 frames and what the encoder may still add of its   *)
(* own (the header, the failure). For both to sleep, twice QueueMax frames *)
(* and one more would have to be there.                                    *)
(*                                                                         *)
(* That no picture is lost is an argument about a line: the pictures of    *)
(* out_queue, of the thread, of the encoder and of in_queue, one after the *)
(* other, are those given and neither returned nor released. Every step    *)
(* takes one from the head of the line, adds one at its end or moves one   *)
(* from a queue of the line to the next.                                   *)
(***************************************************************************)
EXTENDS StagefrightEnc, SequenceTheorems, Induction, TLAPS

\* The frame the encoder thread is about to queue; the header and the last
\* frame, which Android's encoder may add to those it was given.
Holding == IF et.pc \in {"forget", "push"} THEN 1 ELSE 0
HeaderLeft == IF omx.header THEN 0 ELSE 1
EndLeft == IF et.encode_done THEN 0 ELSE 1

\* The frames between the caller and itself, those yet to be added included.
Between ==
  Len(in_queue) + Len(omx.held) + Len(out_queue)
    + Holding + HeaderLeft + EndLeft

\* in_queue keeps its bound until close queues the end frame.
InBound ==
  call.pc \notin {"close_forget", "close_join", "close_free", "closed", "dead"}
    => Len(in_queue) <= QueueMax

\* A thread that has a frame to queue has used the header or the last frame
\* up, and one that is about to read has not used the last. The thread runs
\* from the first call until close has joined it.
ThreadInv ==
  /\ et.pc = "push" => omx.header \/ et.encode_done
  /\ et.pc = "forget" => et.encode_done
  /\ et.pc \in {"none", "alloc", "read"} => ~et.encode_done
  /\ ~thread_started /\ call.pc \notin {"close_free", "closed", "dead"} => et.pc = "none"
  /\ call.pc \in {"close_free", "closed"} => et.pc \in {"none", "done"}

\* Before a call pushes its frame and after it has taken one; in between.
CountInv ==
  /\ call.pc \in {"idle", "push", "pushing"} => Between <= QueueMax + Depth + 2
  /\ call.pc = "out" => Between <= QueueMax + Depth + 3

\* The types the argument needs (TypeOK but for the histories).
WorkType == FlagsType /\ QueuesType /\ CallType /\ ThreadType /\ EncoderType /\ calls \in Nat

Inv == WorkType /\ InBound /\ ThreadInv /\ CountInv

-----------------------------------------------------------------------------
(* Frames and queues                                                       *)

LEMMA FrameTypes ==
  /\ \A n \in Nat : Picture(n) \in FrameType
  /\ Header \in FrameType /\ NullFrame \in FrameType
  /\ \A s \in {"OK", "EOS", "ERROR", "ENOMEM"} : Failure(s) \in FrameType /\ EndFrame(s) \in FrameType
  BY DEF FrameType, Picture, Header, Failure, EndFrame, NullFrame

LEMMA AppendType ==
  ASSUME NEW S, NEW q \in Seq(S), NEW f \in S
  PROVE  Append(q, f) \in Seq(S) /\ Len(Append(q, f)) = Len(q) + 1 /\ Len(q) \in Nat
  OBVIOUS

LEMMA TailType ==
  ASSUME NEW S, NEW q \in Seq(S), q # <<>>
  PROVE  /\ Head(q) \in S /\ Tail(q) \in Seq(S)
         /\ Len(Tail(q)) = Len(q) - 1 /\ Len(q) \in Nat \ {0}
  OBVIOUS

LEMMA EmptyType ==
  ASSUME NEW S
  PROVE  <<>> \in Seq(S) /\ Len(<<>>) = 0
  OBVIOUS

-----------------------------------------------------------------------------
(* Types                                                                   *)

LEMMA InitWorkType == Init => WorkType
<1> SUFFICES ASSUME Init PROVE WorkType
  OBVIOUS
<1> USE DepthAssumption, FrameTypes, EmptyType DEF Init
<1>1. FlagsType
  BY DEF FlagsType
<1>2. QueuesType
  BY DEF QueuesType
<1>3. CallType
  BY DEF CallType
<1>4. ThreadType
  BY DEF ThreadType, NoThread
<1>5. EncoderType
  BY DEF EncoderType, Empty
<1>6. QED
  BY <1>1, <1>2, <1>3, <1>4, <1>5 DEF WorkType

LEMMA StepFlagsType == FlagsType /\ [Next]_vars => FlagsType'
<1> SUFFICES ASSUME FlagsType, [Next]_vars PROVE FlagsType'
  OBVIOUS
<1> USE DEF FlagsType, flags
<1>1. CASE Caller
  BY <1>1 DEF Caller, InCall, Closing, FrameCall, FlushCall, StartThread, PushTest, Push, OutEmpty,
     Deliver, CloseCall, CloseDrain, CloseStatus, CloseEos, CloseForget, CloseJoin, CloseFree
<1>2. CASE EncoderThread
  BY <1>2 DEF EncoderThread, EtAlloc, EtForget, SourceRead, EtHeader, EtPicture, EtEnd, EtPush, EtTest, EtExit
<1>3. CASE UNCHANGED vars
  BY <1>3 DEF vars
<1>4. QED
  BY <1>1, <1>2, <1>3 DEF Next

LEMMA StepCallType == CallType /\ calls \in Nat /\ [Next]_vars => CallType' /\ calls' \in Nat
<1> SUFFICES ASSUME CallType, calls \in Nat, [Next]_vars PROVE CallType' /\ calls' \in Nat
  OBVIOUS
<1> USE CallerAssumption DEF CallType
<1>1. CASE FrameCall \/ FlushCall \/ PushTest \/ Push
  BY <1>1 DEF FrameCall, FlushCall, PushTest, Push
<1>2. CASE OutEmpty \/ Deliver
  BY <1>2 DEF OutEmpty, Deliver, Return, Die
<1>3. CASE CloseCall \/ Closing
  BY <1>3 DEF CloseCall, Closing, CloseDrain, CloseStatus, CloseEos, CloseForget, CloseJoin, CloseFree, Die
<1>4. CASE EncoderThread
  BY <1>4 DEF EncoderThread, EtAlloc, EtForget, SourceRead, EtHeader, EtPicture, EtEnd, EtPush, EtTest, EtExit,
     Die
<1>5. CASE UNCHANGED vars
  BY <1>5 DEF vars
<1>6. QED
  BY <1>1, <1>2, <1>3, <1>4, <1>5 DEF Next, Caller, InCall

LEMMA StepThreadType == ThreadType /\ EncoderType /\ [Next]_vars => ThreadType'
<1> SUFFICES ASSUME ThreadType, EncoderType, [Next]_vars PROVE ThreadType'
  OBVIOUS
<1> USE FrameTypes DEF ThreadType
<1>1. CASE Caller
  <2>1. et' \in {et, [NoThread EXCEPT !.pc = "alloc"], [et EXCEPT !.pc = "dead"]}
    BY <1>1 DEF Caller, InCall, Closing, FrameCall, FlushCall, StartThread, PushTest, Push, OutEmpty,
       Deliver, Die, CloseCall, CloseDrain, CloseStatus, CloseEos, CloseForget, CloseJoin, CloseFree
  <2>2. QED
    BY <2>1 DEF NoThread
<1>2. CASE EtForget \/ EtTest \/ EtExit \/ SourceRead
  BY <1>2 DEF EtForget, EtTest, EtExit, SourceRead
<1>6. CASE EtAlloc \/ EtEnd
  <2>1. \/ et' = [et EXCEPT !.pc = "read"]
        \/ et' = [et EXCEPT !.pc = "dead"]
        \/ et' = [pc |-> "forget", frame |-> EndFrame("ENOMEM"), encode_done |-> TRUE]
        \/ et' = [pc |-> "push", frame |-> Failure("EOS"), encode_done |-> TRUE]
        \/ et' = [pc |-> "push", frame |-> Failure("ERROR"), encode_done |-> TRUE]
    BY <1>6 DEF EtAlloc, EtEnd, Die
  <2>2. ASSUME NEW f \in FrameType, NEW pc \in {"forget", "push"},
               et' = [pc |-> pc, frame |-> f, encode_done |-> TRUE]
        PROVE  ThreadType'
    BY <2>2
  <2>3. CASE et' = [et EXCEPT !.pc = "read"] \/ et' = [et EXCEPT !.pc = "dead"]
    BY <2>3
  <2>4. QED
    BY <2>1, <2>2, <2>3
<1>7. CASE EtHeader \/ EtPush
  BY <1>7 DEF EtHeader, EtPush
<1>3. CASE EtPicture
  <2>1. Head(omx.held) \in Nat
    BY <1>3 DEF EtPicture, EncoderType
  <2>2. QED
    BY <1>3, <2>1 DEF EtPicture
<1>4. CASE UNCHANGED vars
  BY <1>4 DEF vars
<1>5. QED
  BY <1>1, <1>2, <1>3, <1>4, <1>6, <1>7 DEF Next, EncoderThread

LEMMA StepEncoderType == EncoderType /\ QueuesType /\ [Next]_vars => EncoderType'
<1> SUFFICES ASSUME EncoderType, QueuesType, [Next]_vars PROVE EncoderType'
  OBVIOUS
<1> USE DepthAssumption DEF EncoderType
<1>0. ASSUME NEW h \in Seq(Nat), Len(h) <= Depth, NEW b \in BOOLEAN, NEW e \in BOOLEAN,
             omx' = [held |-> h, header |-> b, eos |-> e]
      PROVE  EncoderType'
  BY <1>0
<1>1. CASE Caller
  <2>1. omx' = omx \/ omx' = Empty
    BY <1>1 DEF Caller, InCall, Closing, FrameCall, FlushCall, PushTest, Push, OutEmpty, Deliver,
       CloseCall, CloseDrain, CloseStatus, CloseEos, CloseForget, CloseJoin, CloseFree
  <2>2. <<>> \in Seq(Nat) /\ Len(<<>>) = 0
    BY EmptyType
  <2>3. CASE omx' = omx
    BY <2>3
  <2>4. CASE omx' = [held |-> <<>>, header |-> FALSE, eos |-> FALSE]
    BY <1>0, <2>2, <2>4
  <2>5. QED
    BY <2>1, <2>3, <2>4 DEF Empty
<1>2. CASE SourceRead
  <2>1. Head(in_queue) \in FrameType
    BY <1>2, TailType DEF SourceRead, QueuesType
  <2>2. Head(in_queue).pic \in Nat
    BY <2>1 DEF FrameType
  <2>3. /\ Append(omx.held, Head(in_queue).pic) \in Seq(Nat)
        /\ Len(Append(omx.held, Head(in_queue).pic)) = Len(omx.held) + 1
        /\ Len(omx.held) \in Nat
    BY <2>2, AppendType
  <2>4. CASE omx' = [omx EXCEPT !.eos = TRUE]
    BY <2>4
  <2>5. CASE omx' = [omx EXCEPT !.held = Append(@, Head(in_queue).pic)] /\ Len(omx.held) < Depth
    <3>1. omx' = [held |-> Append(omx.held, Head(in_queue).pic), header |-> omx.header, eos |-> omx.eos]
      BY <2>5
    <3>2. Len(Append(omx.held, Head(in_queue).pic)) <= Depth
      BY <2>3, <2>5
    <3>3. omx.header \in BOOLEAN /\ omx.eos \in BOOLEAN
      OBVIOUS
    <3>4. QED
      BY <1>0, <2>3, <3>1, <3>2, <3>3
  <2>6. QED
    BY <1>2, <2>4, <2>5 DEF SourceRead
<1>3. CASE EtPicture
  <2>1. Tail(omx.held) \in Seq(Nat) /\ Len(Tail(omx.held)) = Len(omx.held) - 1 /\ Len(omx.held) \in Nat
    BY <1>3, TailType DEF EtPicture
  <2>2. omx' = [held |-> Tail(omx.held), header |-> omx.header, eos |-> omx.eos]
    BY <1>3 DEF EtPicture
  <2>3. QED
    BY <1>0, <2>1, <2>2
<1>4. CASE EtHeader
  BY <1>4 DEF EtHeader
<1>5. CASE EtAlloc \/ EtForget \/ EtEnd \/ EtPush \/ EtTest \/ EtExit \/ UNCHANGED vars
  BY <1>5 DEF EtAlloc, EtForget, EtEnd, EtPush, EtTest, EtExit, vars
<1>6. QED
  BY <1>1, <1>2, <1>3, <1>4, <1>5 DEF Next, EncoderThread

LEMMA StepQueuesType == WorkType /\ InBound /\ [Next]_vars => QueuesType'
<1> SUFFICES ASSUME WorkType, InBound, [Next]_vars PROVE QueuesType'
  OBVIOUS
<1> USE DepthAssumption DEF WorkType, QueuesType
<1>1. CASE Push
  <2>1. Picture(call.pic) \in FrameType
    BY FrameTypes DEF CallType
  <2>2. Append(in_queue, Picture(call.pic)) \in Seq(FrameType)
        /\ Len(Append(in_queue, Picture(call.pic))) = Len(in_queue) + 1 /\ Len(in_queue) \in Nat
    BY <2>1, AppendType
  <2>3. out_queue' = out_queue
    BY <1>1 DEF Push
  <2>4. CASE in_queue' = in_queue
    BY <2>3, <2>4
  <2>5. CASE in_queue' = Append(in_queue, Picture(call.pic)) /\ Len(in_queue) < QueueMax
    BY <2>2, <2>3, <2>5
  <2>6. QED
    BY <1>1, <2>2, <2>4, <2>5 DEF Push
<1>2. CASE Deliver
  BY <1>2, TailType DEF Deliver
<1>3. CASE CloseEos
  <2>1. PICK f \in FrameType : in_queue' = Append(in_queue, f) /\ out_queue' = out_queue
    BY <1>3, FrameTypes DEF CloseEos
  <2>2. Append(in_queue, f) \in Seq(FrameType)
        /\ Len(Append(in_queue, f)) = Len(in_queue) + 1 /\ Len(in_queue) \in Nat
    BY <2>1, AppendType
  <2>3. Len(in_queue) <= QueueMax
    BY <1>3 DEF CloseEos, InBound
  <2>4. QED
    BY <2>1, <2>2, <2>3
<1>4. CASE CloseDrain \/ CloseFree
  <2>1. <<>> \in Seq(FrameType) /\ Len(<<>>) = 0
    BY EmptyType
  <2>2. in_queue' \in {in_queue, <<>>} /\ out_queue' \in {out_queue, <<>>}
    BY <1>4 DEF CloseDrain, CloseFree
  <2>3. in_queue' \in Seq(FrameType) /\ Len(in_queue') <= QueueMax + 1
    <3>1. CASE in_queue' = in_queue
      BY <3>1
    <3>2. CASE in_queue' = <<>>
      BY <2>1, <3>2
    <3>3. QED
      BY <2>2, <3>1, <3>2
  <2>4. out_queue' \in Seq(FrameType) /\ Len(out_queue') <= QueueMax
    <3>1. CASE out_queue' = out_queue
      BY <3>1
    <3>2. CASE out_queue' = <<>>
      BY <2>1, <3>2
    <3>3. QED
      BY <2>2, <3>1, <3>2
  <2>5. QED
    BY <2>3, <2>4
<1>5. CASE SourceRead
  BY <1>5, TailType DEF SourceRead
<1>6. CASE EtPush
  <2>1. et.frame \in FrameType
    BY DEF ThreadType
  <2>2. QED
    BY <1>6, <2>1, AppendType DEF EtPush
<1>7. CASE FrameCall \/ FlushCall \/ PushTest \/ OutEmpty \/ CloseCall \/ CloseStatus \/ CloseForget
         \/ CloseJoin
  BY <1>7 DEF FrameCall, FlushCall, PushTest, OutEmpty, CloseCall, CloseStatus, CloseForget, CloseJoin
<1>8. CASE EtAlloc \/ EtForget \/ EtHeader \/ EtPicture \/ EtEnd \/ EtTest \/ EtExit \/ UNCHANGED vars
  BY <1>8 DEF EtAlloc, EtForget, EtHeader, EtPicture, EtEnd, EtTest, EtExit, vars
<1>9. QED
  BY <1>1, <1>2, <1>3, <1>4, <1>5, <1>6, <1>7, <1>8
  DEF Next, Caller, InCall, Closing, EncoderThread

LEMMA StepWorkType == WorkType /\ InBound /\ [Next]_vars => WorkType'
  BY StepFlagsType, StepQueuesType, StepCallType, StepThreadType, StepEncoderType DEF WorkType

-----------------------------------------------------------------------------
(* The invariant                                                           *)

LEMMA Lengths ==
  ASSUME WorkType
  PROVE  /\ Len(in_queue) \in Nat /\ Len(out_queue) \in Nat /\ Len(omx.held) \in Nat
         /\ Holding \in 0..1 /\ HeaderLeft \in 0..1 /\ EndLeft \in 0..1
  BY DEF WorkType, QueuesType, EncoderType, Holding, HeaderLeft, EndLeft

LEMMA StepInBound == WorkType /\ InBound /\ [Next]_vars => InBound'
<1> SUFFICES ASSUME WorkType, InBound, [Next]_vars PROVE InBound'
  OBVIOUS
<1> USE DepthAssumption DEF WorkType, InBound
<1>1. CASE Push
  <2>1. Picture(call.pic) \in FrameType
    BY FrameTypes DEF CallType
  <2>2. Len(Append(in_queue, Picture(call.pic))) = Len(in_queue) + 1 /\ Len(in_queue) \in Nat
    BY <2>1, AppendType DEF QueuesType
  <2>3. QED
    BY <1>1, <2>2 DEF Push, CallType
<1>2. CASE CloseEos
  BY <1>2 DEF CloseEos, CallType, Die
<1>3. CASE CloseFree
  BY <1>3 DEF CloseFree, CallType, Die
<1>4. CASE SourceRead
  <2>1. Len(Tail(in_queue)) = Len(in_queue) - 1 /\ Len(in_queue) \in Nat
    BY <1>4, TailType DEF SourceRead, QueuesType
  <2>2. QED
    BY <1>4, <2>1 DEF SourceRead
<1>5. CASE FrameCall \/ FlushCall \/ PushTest \/ OutEmpty \/ Deliver \/ CloseCall \/ CloseDrain
         \/ CloseStatus \/ CloseForget \/ CloseJoin
  BY <1>5 DEF FrameCall, FlushCall, PushTest, OutEmpty, Deliver, CloseCall, CloseDrain, CloseStatus,
     CloseForget, CloseJoin,
     CallType, Return, Die
<1>6. CASE EtAlloc \/ EtForget \/ EtHeader \/ EtPicture \/ EtEnd \/ EtPush \/ EtTest \/ EtExit \/ UNCHANGED vars
  BY <1>6 DEF EtAlloc, EtForget, EtHeader, EtPicture, EtEnd, EtPush, EtTest, EtExit, vars, CallType, Die
<1>7. QED
  BY <1>1, <1>2, <1>3, <1>4, <1>5, <1>6 DEF Next, Caller, InCall, Closing, EncoderThread

LEMMA StepThreadInv == WorkType /\ ThreadInv /\ [Next]_vars => ThreadInv'
<1> SUFFICES ASSUME WorkType, ThreadInv, [Next]_vars PROVE ThreadInv'
  OBVIOUS
<1> USE DEF WorkType, ThreadInv, FlagsType, CallType, ThreadType, EncoderType
<1>1. CASE FrameCall \/ FlushCall
  <2>1. StartThread /\ call' \in [pc : {"push", "out"}, input : {"picture", "blank", "NULL"},
                                  pic : Nat, ret : {"none"}] /\ omx' = omx /\ call.pc = "idle"
    BY <1>1, CallerAssumption DEF FrameCall, FlushCall
  <2>2. CASE thread_started
    BY <2>1, <2>2 DEF StartThread
  <2>3. CASE ~thread_started
    BY <2>1, <2>3 DEF StartThread, NoThread
  <2>4. QED
    BY <2>2, <2>3
<1>2. CASE PushTest \/ Push \/ OutEmpty \/ CloseCall \/ CloseDrain
  <2>1. CASE PushTest \/ Push
    BY <2>1 DEF PushTest, Push, flags
  <2>2. CASE OutEmpty
    BY <2>2 DEF OutEmpty, Return, flags
  <2>3. CASE CloseCall \/ CloseDrain
    BY <2>3 DEF CloseCall, CloseDrain, flags
  <2>4. QED
    BY <1>2, <2>1, <2>2, <2>3
<1>3. CASE Deliver
  <2>1. UNCHANGED <<flags, omx>> /\ call.pc = "out"
    BY <1>3 DEF Deliver
  <2>2. CASE et' = [et EXCEPT !.pc = "dead"] /\ call' = [call EXCEPT !.pc = "dead"]
    BY <2>1, <2>2 DEF flags
  <2>3. CASE UNCHANGED et /\ \E r \in {"packet", "nothing"} : Return(r)
    BY <2>1, <2>3 DEF Return, flags
  <2>4. QED
    BY <1>3, <2>2, <2>3 DEF Deliver, Die
<1>4. CASE CloseStatus
  BY <1>4 DEF CloseStatus, Die, flags
<1>13. CASE CloseEos \/ CloseForget
  BY <1>13 DEF CloseEos, CloseForget, flags
<1>5. CASE CloseJoin
  BY <1>5 DEF CloseJoin
<1>14. CASE CloseFree
  BY <1>14 DEF CloseFree, Die, flags
<1>15. CASE EtForget
  BY <1>15 DEF EtForget, flags
<1>6. CASE EtAlloc
  BY <1>6 DEF EtAlloc, Die, flags
<1>7. CASE EtEnd
  BY <1>7 DEF EtEnd, flags
<1>8. CASE SourceRead
  BY <1>8 DEF SourceRead, flags
<1>9. CASE EtHeader \/ EtPicture
  BY <1>9 DEF EtHeader, EtPicture, flags
<1>10. CASE EtPush \/ EtTest \/ EtExit
  <2>1. CASE EtPush
    BY <2>1 DEF EtPush, flags
  <2>2. CASE EtTest
    BY <2>2 DEF EtTest, flags
  <2>3. CASE EtExit
    BY <2>3 DEF EtExit, flags
  <2>4. QED
    BY <1>10, <2>1, <2>2, <2>3
<1>11. CASE UNCHANGED vars
  BY <1>11 DEF vars, flags
<1>12. QED
  BY <1>1, <1>2, <1>3, <1>4, <1>5, <1>6, <1>7, <1>8, <1>9, <1>10, <1>11, <1>13,
     <1>14, <1>15
  DEF Next, Caller, InCall, Closing, EncoderThread

\* Six counts before a step and after it.
LEMMA Sums ==
  ASSUME NEW a \in Nat, NEW b \in Nat, NEW c \in Nat, NEW d \in Nat, NEW e \in Nat, NEW f \in Nat,
         NEW u \in Nat, NEW v \in Nat, NEW w \in Nat, NEW x \in Nat, NEW y \in Nat, NEW z \in Nat
  PROVE  /\ a + b + c + d + e + f \in Nat
         /\ u + v + w + x + y + z
              = (a + b + c + d + e + f) + (u - a) + (v - b) + (w - c) + (x - d) + (y - e) + (z - f)
  OBVIOUS

LEMMA Counting ==
  ASSUME WorkType, WorkType'
  PROVE  /\ Between \in Nat /\ Between' \in Nat
         /\ Between' = Between + (Len(in_queue)' - Len(in_queue))
                         + (Len(omx.held)' - Len(omx.held))
                         + (Len(out_queue)' - Len(out_queue))
                         + (Holding' - Holding) + (HeaderLeft' - HeaderLeft) + (EndLeft' - EndLeft)
<1> DEFINE a == Len(in_queue)
           b == Len(omx.held)
           c == Len(out_queue)
           d == Holding
           e == HeaderLeft
           f == EndLeft
           u == Len(in_queue)'
           v == Len(omx.held)'
           w == Len(out_queue)'
           x == Holding'
           y == HeaderLeft'
           z == EndLeft'
<1>1. a \in Nat /\ b \in Nat /\ c \in Nat /\ d \in Nat /\ e \in Nat /\ f \in Nat
  BY Lengths
<1>2. u \in Nat /\ v \in Nat /\ w \in Nat
  BY DEF WorkType, QueuesType, EncoderType
<1>3. x \in Nat /\ y \in Nat /\ z \in Nat
  BY DEF Holding, HeaderLeft, EndLeft
<1>4. Between = a + b + c + d + e + f /\ Between' = u + v + w + x + y + z
  BY DEF Between
<1>5. SUFFICES /\ Between \in Nat /\ Between' \in Nat
              /\ Between' = Between + (u - a) + (v - b) + (w - c) + (x - d) + (y - e) + (z - f)
  OBVIOUS
<1> HIDE DEF a, b, c, d, e, f, u, v, w, x, y, z
<1>6. QED
  BY <1>1, <1>2, <1>3, <1>4

LEMMA StepCountInv == Inv /\ [Next]_vars => CountInv'
<1> SUFFICES ASSUME Inv, [Next]_vars PROVE CountInv'
  OBVIOUS
<1>0. /\ WorkType /\ InBound /\ ThreadInv /\ CountInv /\ WorkType'
      /\ QueuesType /\ CallType /\ ThreadType /\ EncoderType
      /\ Len(in_queue) \in Nat /\ Len(out_queue) \in Nat /\ Len(omx.held) \in Nat
      /\ QueueMax \in Nat /\ Depth \in Nat
  BY Lengths, DepthAssumption, StepWorkType DEF Inv, WorkType
<1> DEFINE Lens(i, h, o) == /\ Len(in_queue)' = Len(in_queue) + i
                            /\ Len(omx.held)' = Len(omx.held) + h
                            /\ Len(out_queue)' = Len(out_queue) + o
\* A step that leaves the call where it is and does not add to the count.
<1>a. ASSUME call' = call, Between' <= Between, Between \in Nat, Between' \in Nat
      PROVE  CountInv'
  BY <1>0, <1>a DEF CountInv
<1>1. CASE FrameCall \/ FlushCall
  <2>1. /\ StartThread /\ UNCHANGED <<in_queue, out_queue, omx>>
        /\ call.pc = "idle" /\ call'.pc \in {"push", "out"}
    BY <1>1 DEF FrameCall, FlushCall
  <2>2. /\ et'.pc \in {"forget", "push"} <=> et.pc \in {"forget", "push"}
        /\ et'.encode_done = et.encode_done
    BY <1>0, <2>1 DEF StartThread, NoThread, ThreadInv, ThreadType
  <2>3. Lens(0, 0, 0)
    BY <1>0, <2>1
  <2>4. Between' = Between /\ Between \in Nat
    BY <1>0, <2>1, <2>2, <2>3, Counting DEF Holding, HeaderLeft, EndLeft
  <2>5. QED
    BY <1>0, <2>1, <2>4 DEF CountInv
<1>2. CASE PushTest
  <2>1. UNCHANGED <<in_queue, out_queue, omx, et>> /\ call.pc = "push" /\ call'.pc \in {"pushing", "out"}
    BY <1>0, <1>2 DEF PushTest, CallType
  <2>2. Lens(0, 0, 0)
    BY <1>0, <2>1
  <2>3. Between' = Between /\ Between \in Nat
    BY <1>0, <2>1, <2>2, Counting DEF Holding, HeaderLeft, EndLeft
  <2>4. QED
    BY <1>0, <2>1, <2>3 DEF CountInv
<1>3. CASE Push
  <2>1. UNCHANGED <<out_queue, omx, et>> /\ call.pc = "pushing"
    BY <1>3 DEF Push
  <2>2. CASE UNCHANGED in_queue /\ call'.pc = "push"
    <3>1. Lens(0, 0, 0)
      BY <1>0, <2>1, <2>2
    <3>2. Between' = Between /\ Between \in Nat
      BY <1>0, <2>1, <3>1, Counting DEF Holding, HeaderLeft, EndLeft
    <3>3. QED
      BY <1>0, <2>1, <2>2, <3>2 DEF CountInv
  <2>3. CASE in_queue' = Append(in_queue, Picture(call.pic)) /\ call'.pc = "out"
    <3>1. Picture(call.pic) \in FrameType
      BY <1>0, FrameTypes DEF CallType
    <3>2. Len(in_queue)' = Len(in_queue) + 1
      BY <1>0, <2>3, <3>1, AppendType DEF QueuesType
    <3>3. Lens(1, 0, 0)
      BY <1>0, <2>1, <3>2
    <3>4. Between' = Between + 1 /\ Between \in Nat
      BY <1>0, <2>1, <3>3, Counting DEF Holding, HeaderLeft, EndLeft
    <3>5. QED
      BY <1>0, <2>1, <2>3, <3>4 DEF CountInv
  <2>4. QED
    BY <1>0, <1>3, <2>2, <2>3 DEF Push, CallType
<1>4. CASE OutEmpty
  <2>1. UNCHANGED <<in_queue, out_queue, omx, et>> /\ call.pc = "out" /\ call'.pc = "idle"
    BY <1>0, <1>4 DEF OutEmpty, Return, CallType
  <2>2. Len(out_queue) = 0 /\ Len(in_queue) <= QueueMax /\ Len(omx.held) <= Depth
    BY <1>0, <1>4, <2>1, EmptyType DEF OutEmpty, InBound, EncoderType
  <2>3. /\ Holding + HeaderLeft + EndLeft <= 2
        /\ Holding \in Nat /\ HeaderLeft \in Nat /\ EndLeft \in Nat
    BY <1>0 DEF Holding, HeaderLeft, EndLeft, ThreadInv
  <2>4. Between <= QueueMax + Depth + 2
    BY <1>0, <2>2, <2>3 DEF Between
  <2>5. Between' = Between
    BY <2>1 DEF Between, Holding, HeaderLeft, EndLeft
  <2>6. QED
    BY <2>1, <2>4, <2>5 DEF CountInv
<1>5. CASE Deliver
  <2>1. CASE call'.pc = "dead"
    BY <2>1 DEF CountInv
  <2>2. CASE call'.pc = "idle" /\ et' = et
    <3>1. Len(out_queue)' = Len(out_queue) - 1
      BY <1>0, <1>5, TailType DEF Deliver, QueuesType
    <3>2. UNCHANGED <<in_queue, omx>> /\ call.pc = "out"
      BY <1>5 DEF Deliver
    <3>3. Lens(0, 0, -1)
      BY <1>0, <3>1, <3>2
    <3>4. Between' = Between - 1 /\ Between \in Nat
      BY <1>0, <2>2, <3>2, <3>3, Counting DEF Holding, HeaderLeft, EndLeft
    <3>5. QED
      BY <1>0, <2>2, <3>2, <3>4 DEF CountInv
  <2>3. QED
    BY <1>0, <1>5, <2>1, <2>2 DEF Deliver, Die, Return, CallType
<1>6. CASE CloseCall \/ Closing
  <2>1. call'.pc \in {"close_drain", "close_eos", "close_push", "close_forget",
                   "close_join", "close_free", "closed", "dead"}
    BY <1>0, <1>6 DEF CloseCall, Closing, CloseDrain, CloseStatus, CloseEos, CloseForget, CloseJoin, CloseFree, CallType, Die
  <2>2. QED
    BY <2>1 DEF CountInv
<1>7. CASE EtAlloc
  <2>0. /\ et.pc = "alloc" /\ UNCHANGED <<in_queue, out_queue, omx>> /\ ~et.encode_done
    BY <1>0, <1>7 DEF EtAlloc, ThreadInv
  <2>1. Lens(0, 0, 0)
    BY <1>0, <2>0
  <2>2. CASE call'.pc = "dead"
    BY <2>2 DEF CountInv
  <2>3. CASE UNCHANGED call /\ et'.pc = "read" /\ et'.encode_done = et.encode_done
    <3>1. Between' = Between /\ Between \in Nat
      BY <1>0, <2>0, <2>1, <2>3, Counting DEF Holding, HeaderLeft, EndLeft
    <3>2. QED
      BY <1>a, <2>3, <3>1
  <2>4. CASE UNCHANGED call /\ et'.pc = "forget" /\ et'.encode_done = TRUE
    <3>1. Between' = Between /\ Between \in Nat
      BY <1>0, <2>0, <2>1, <2>4, Counting DEF Holding, HeaderLeft, EndLeft
    <3>2. QED
      BY <1>a, <2>4, <3>1
  <2>5. \/ call'.pc = "dead"
        \/ UNCHANGED call /\ et' = [et EXCEPT !.pc = "read"]
        \/ /\ UNCHANGED call
           /\ et' = [pc |-> "forget", frame |-> EndFrame("ENOMEM"), encode_done |-> TRUE]
    BY <1>0, <1>7 DEF EtAlloc, Die, CallType
  <2>6. CASE UNCHANGED call /\ et' = [et EXCEPT !.pc = "read"]
    <3>1. et'.pc = "read" /\ et'.encode_done = et.encode_done
      BY <1>0, <2>6 DEF ThreadType
    <3>2. QED
      BY <2>3, <2>6, <3>1
  <2>7. CASE /\ UNCHANGED call
             /\ et' = [pc |-> "forget", frame |-> EndFrame("ENOMEM"), encode_done |-> TRUE]
    <3>1. et'.pc = "forget" /\ et'.encode_done = TRUE
      BY <2>7
    <3>2. QED
      BY <2>4, <2>7, <3>1
  <2>8. QED
    BY <2>2, <2>5, <2>6, <2>7
<1>8. CASE SourceRead
  <2>1. UNCHANGED <<out_queue, et, call>>
    BY <1>8 DEF SourceRead
  <2>2. Len(in_queue)' = Len(in_queue) - 1 /\ Head(in_queue) \in FrameType
    BY <1>0, <1>8, TailType DEF SourceRead, QueuesType
  <2>3. Head(in_queue).pic \in Nat
    BY <2>2 DEF FrameType
  <2>4. CASE omx' = [omx EXCEPT !.held = Append(@, Head(in_queue).pic)]
    <3>1. Len(omx.held)' = Len(omx.held) + 1 /\ omx'.header = omx.header
      BY <1>0, <2>3, <2>4, AppendType DEF EncoderType
    <3>2. Lens(-1, 1, 0)
      BY <1>0, <2>1, <2>2, <3>1
    <3>3. Between' = Between /\ Between \in Nat
      BY <1>0, <2>1, <3>1, <3>2, Counting DEF Holding, HeaderLeft, EndLeft
    <3>4. QED
      BY <1>a, <2>1, <3>3
  <2>5. CASE omx' = [omx EXCEPT !.eos = TRUE]
    <3>1. omx'.held = omx.held /\ omx'.header = omx.header
      BY <1>0, <2>5 DEF EncoderType
    <3>2. Lens(-1, 0, 0)
      BY <1>0, <2>1, <2>2, <3>1
    <3>3. Between' = Between - 1 /\ Between \in Nat /\ Between' \in Nat
      BY <1>0, <2>1, <3>1, <3>2, Counting DEF Holding, HeaderLeft, EndLeft
    <3>4. QED
      BY <1>a, <2>1, <3>3
  <2>6. QED
    BY <1>8, <2>4, <2>5 DEF SourceRead
<1>9. CASE EtHeader
  <2>1. /\ UNCHANGED <<in_queue, out_queue, call>> /\ omx'.held = omx.held
        /\ ~omx.header /\ omx'.header = TRUE /\ et.pc = "read" /\ et'.pc = "push"
        /\ et'.encode_done = et.encode_done
    BY <1>0, <1>9 DEF EtHeader, EncoderType, ThreadType
  <2>2. Lens(0, 0, 0)
    BY <1>0, <2>1
  <2>3. Between' = Between /\ Between \in Nat
    BY <1>0, <2>1, <2>2, Counting DEF Holding, HeaderLeft, EndLeft
  <2>4. QED
    BY <1>a, <2>1, <2>3
<1>10. CASE EtPicture
  <2>1. Len(omx.held)' = Len(omx.held) - 1
    BY <1>0, <1>10, TailType DEF EtPicture, EncoderType
  <2>2. /\ UNCHANGED <<in_queue, out_queue, call>> /\ omx'.header = omx.header
        /\ et.pc = "read" /\ et'.pc = "push" /\ et'.encode_done = et.encode_done
    BY <1>0, <1>10 DEF EtPicture, EncoderType, ThreadType
  <2>3. Lens(0, -1, 0)
    BY <1>0, <2>1, <2>2
  <2>4. Between' = Between /\ Between \in Nat
    BY <1>0, <2>2, <2>3, Counting DEF Holding, HeaderLeft, EndLeft
  <2>5. QED
    BY <1>a, <2>2, <2>4
<1>11. CASE EtEnd
  <2>1. /\ UNCHANGED <<in_queue, out_queue, omx, call>>
        /\ et.pc = "read" /\ et'.pc = "push" /\ ~et.encode_done /\ et'.encode_done = TRUE
    BY <1>0, <1>11 DEF EtEnd, ThreadInv
  <2>2. Lens(0, 0, 0)
    BY <1>0, <2>1
  <2>3. Between' = Between /\ Between \in Nat
    BY <1>0, <2>1, <2>2, Counting DEF Holding, HeaderLeft, EndLeft
  <2>4. QED
    BY <1>a, <2>1, <2>3
<1>12. CASE EtPush
  <2>1. et.frame \in FrameType
    BY <1>0 DEF ThreadType
  <2>2. Len(out_queue)' = Len(out_queue) + 1
    BY <1>0, <1>12, <2>1, AppendType DEF EtPush, QueuesType
  <2>3. /\ UNCHANGED <<in_queue, omx, call>>
        /\ et.pc = "push" /\ et'.pc = "test" /\ et'.encode_done = et.encode_done
    BY <1>0, <1>12 DEF EtPush, ThreadType
  <2>4. Lens(0, 0, 1)
    BY <1>0, <2>2, <2>3
  <2>5. Between' = Between /\ Between \in Nat
    BY <1>0, <2>3, <2>4, Counting DEF Holding, HeaderLeft, EndLeft
  <2>6. QED
    BY <1>a, <2>3, <2>5
<1>16. CASE EtForget
  <2>1. /\ UNCHANGED <<in_queue, out_queue, omx, call>>
        /\ et.pc = "forget" /\ et'.pc = "push" /\ et'.encode_done = et.encode_done
    BY <1>0, <1>16 DEF EtForget, ThreadType
  <2>2. Lens(0, 0, 0)
    BY <1>0, <2>1
  <2>3. Between' = Between /\ Between \in Nat
    BY <1>0, <2>1, <2>2, Counting DEF Holding, HeaderLeft, EndLeft
  <2>4. QED
    BY <1>a, <2>1, <2>3
<1>13. CASE EtTest \/ EtExit
  <2>1. /\ UNCHANGED <<in_queue, out_queue, omx, call>>
        /\ et.pc \notin {"forget", "push"} /\ et'.pc \notin {"forget", "push"}
        /\ et'.encode_done = et.encode_done
    BY <1>0, <1>13 DEF EtTest, EtExit, ThreadType
  <2>2. Lens(0, 0, 0)
    BY <1>0, <2>1
  <2>3. Between' = Between /\ Between \in Nat
    BY <1>0, <2>1, <2>2, Counting DEF Holding, HeaderLeft, EndLeft
  <2>4. QED
    BY <1>a, <2>1, <2>3
<1>14. CASE UNCHANGED vars
  BY <1>0, <1>14 DEF vars, CountInv, Between, Holding, HeaderLeft, EndLeft
<1>15. QED
  BY <1>1, <1>2, <1>3, <1>4, <1>5, <1>6, <1>7, <1>8, <1>9, <1>10, <1>11, <1>12, <1>13, <1>14, <1>16
  DEF Next, Caller, InCall, EncoderThread

LEMMA InitInv == Init => Inv
<1> SUFFICES ASSUME Init PROVE Inv
  OBVIOUS
<1>1. WorkType
  BY InitWorkType
<1>2. Len(in_queue) = 0 /\ Len(out_queue) = 0 /\ Len(omx.held) = 0
  BY EmptyType DEF Init, Empty
<1>3. InBound /\ ThreadInv
  BY <1>2, DepthAssumption DEF Init, NoThread, InBound, ThreadInv
<1>4. CountInv
  BY <1>2, DepthAssumption DEF Init, NoThread, CountInv, Between, Holding, HeaderLeft, EndLeft
<1>5. QED
  BY <1>1, <1>3, <1>4 DEF Inv

LEMMA StepInv == Inv /\ [Next]_vars => Inv'
  BY StepWorkType, StepInBound, StepThreadInv, StepCountInv DEF Inv

-----------------------------------------------------------------------------
(* Theorems                                                                *)

\* Every state of the wrapper satisfies Inv: the types of what works, the bound
\* of in_queue, the place of the thread and the count of frames.
THEOREM Invariance == Spec => []Inv
  BY InitInv, StepInv, PTL DEF Spec

\* The caller sleeps on a full in_queue and the encoder thread on a full
\* out_queue (the two usleep loops of astagefright_264enc_ics.cpp:323-331 and
\* 395-411) never at the same time, if Android's encoder holds two frames
\* fewer than a queue takes.
THEOREM NoMutualWaitSafe == Spec => []NoMutualWait
<1>1. Inv => NoMutualWait
  <2> SUFFICES ASSUME Inv, ~NoMutualWait PROVE FALSE
    OBVIOUS
  <2>1. /\ call.pc \in {"push", "pushing"} /\ et.pc = "push"
        /\ Len(in_queue) >= QueueMax /\ Len(out_queue) >= QueueMax
    BY DEF NoMutualWait
  <2>2. WorkType /\ CountInv
    BY DEF Inv
  <2>3. Between <= QueueMax + Depth + 2
    BY <2>1, <2>2 DEF CountInv
  <2>4. Holding = 1
    BY <2>1 DEF Holding, HeaderLeft, EndLeft
  <2>5. Between >= 2 * QueueMax + 1
    BY <2>1, <2>2, <2>4, Lengths, DepthAssumption DEF Between
  <2>6. Between \in Nat
    BY <2>2, Lengths DEF Between
  <2>7. QED
    BY <2>3, <2>5, <2>6, DepthAssumption
<1>2. QED
  BY <1>1, Invariance, PTL

-----------------------------------------------------------------------------
(* The pictures of a queue                                                 *)

\* Pictures by its recursion: the pictures among the first k frames.
RunningPictures(f, q) ==
  /\ f[0] = <<>>
  /\ \A k \in 1..Len(q) :
       f[k] = IF q[k].kind = "picture" THEN Append(f[k - 1], q[k].pic) ELSE f[k - 1]

LEMMA PicturesRecursion ==
  ASSUME NEW q \in Seq(FrameType)
  PROVE  \E f \in [0..Len(q) -> Seq(Nat)] : RunningPictures(f, q) /\ Pictures(q) = f[Len(q)]
<1> DEFINE n == Len(q)
           Add(p, k) == IF q[k].kind = "picture" THEN Append(p, q[k].pic) ELSE p
           step == [p \in Seq(Nat) \X (1..n) |-> Add(p[1], p[2])]
           Def(f) == [k \in 0..n |-> IF k = 0 THEN <<>> ELSE Add(f[k - 1], k)]
           first == CHOOSE f : f = Def(f)
<1>1. n \in Nat /\ <<>> \in Seq(Nat)
  OBVIOUS
<1>2. step \in [Seq(Nat) \X (1..n) -> Seq(Nat)]
  <2>1. ASSUME NEW p \in Seq(Nat), NEW k \in 1..n PROVE Add(p, k) \in Seq(Nat)
    <3>1. q[k] \in FrameType
      OBVIOUS
    <3> QED
      BY <3>1 DEF FrameType
  <2> HIDE DEF Add
  <2> QED
    BY <2>1
<1>3. \A p \in Seq(Nat), k \in 1..n : step[<<p, k>>] = Add(p, k)
  OBVIOUS
<1> HIDE DEF step
<1>4. PICK f \in [0..n -> Seq(Nat)] : f[0] = <<>> /\ \A k \in 1..n : f[k] = step[<<f[k - 1], k>>]
  <2> DEFINE T == Seq(Nat)
             c == <<>>
  <2>1. c \in T /\ n \in Nat /\ step \in Steps(T, n)
    BY <1>1, <1>2 DEF Steps
  <2> HIDE DEF T, c, n
  <2>2. \E f \in [0..n -> T] : Takes(f, c, step, n)
    BY <2>1, StepByStep
  <2> QED
    BY <2>2 DEF T, c, Takes
<1>5. \A k \in 1..n : f[k] = Add(f[k - 1], k)
  <2> SUFFICES ASSUME NEW k \in 1..n PROVE f[k] = Add(f[k - 1], k)
    OBVIOUS
  <2>1. k - 1 \in 0..n
    BY <1>1
  <2>2. f[k - 1] \in Seq(Nat)
    <3> HIDE DEF n
    <3> QED
      BY <2>1
  <2>3. f[k] = step[<<f[k - 1], k>>]
    <3> HIDE DEF n
    <3> QED
      BY <1>4
  <2> HIDE DEF Add
  <2> QED
    BY <1>3, <2>2, <2>3
<1> HIDE DEF Add
<1>6. f = Def(f)
  BY <1>4, <1>5
<1>7. first = Def(first)
  <2> HIDE DEF Def
  <2> QED
    BY Zenon, <1>6
<1>8. first = [k \in 0..n |-> IF k = 0 THEN <<>> ELSE Add(first[k - 1], k)]
  BY Zenon, <1>7
<1> HIDE DEF first
<1>9. first[0] = <<>> /\ \A k \in 1..n : first[k] = Add(first[k - 1], k)
  BY <1>1, <1>8
<1>10. \A k \in 0..n : first[k] \in Seq(Nat) /\ first[k] = f[k]
  <2> DEFINE S == {k \in Nat : k <= n => first[k] = f[k]}
  <2>1. 0 \in S
    BY <1>4, <1>9
  <2>2. ASSUME NEW k \in Nat, k \in S PROVE k + 1 \in S
    <3> SUFFICES ASSUME k + 1 <= n PROVE first[k + 1] = f[k + 1]
      OBVIOUS
    <3>1. k + 1 \in 1..n /\ (k + 1) - 1 = k /\ first[k] = f[k]
      BY <1>1, <2>2
    <3> QED
      BY <1>5, <1>9, <3>1
  <2> HIDE DEF S
  <2>3. Nat \subseteq S
    BY <2>1, <2>2, NumbersInSet
  <2> QED
    BY <1>4, <2>3 DEF S
<1>11. Pictures(q) = first[n]
  BY DEF Pictures, first, Add
<1> QED
  BY <1>1, <1>4, <1>5, <1>10, <1>11 DEF RunningPictures, Add

\* The pictures of two queues, one after the other.
LEMMA PicturesConcat ==
  ASSUME NEW q \in Seq(FrameType), NEW r \in Seq(FrameType)
  PROVE  /\ Pictures(q) \in Seq(Nat)
         /\ Pictures(q \o r) = Pictures(q) \o Pictures(r)
<1> DEFINE m == Len(q)
           n == Len(r)
           p == q \o r
<1>1. m \in Nat /\ n \in Nat
  OBVIOUS
<1>2. /\ p \in Seq(FrameType) /\ Len(p) = m + n
      /\ \A k \in 1..m : p[k] = q[k]
      /\ \A k \in 1..n : p[m + k] = r[k]
  <2>1. /\ p \in Seq(FrameType) /\ Len(p) = m + n
        /\ \A i \in 1..m + n : p[i] = IF i <= m THEN q[i] ELSE r[i - m]
    BY ConcatProperties
  <2> HIDE DEF m, n, p
  <2>2. \A k \in 1..n : m + k \in 1..m + n /\ ~(m + k <= m) /\ (m + k) - m = k
    BY <1>1
  <2> QED
    BY <1>1, <2>1, <2>2
<1>3. PICK f \in [0..Len(q) -> Seq(Nat)] : RunningPictures(f, q) /\ Pictures(q) = f[Len(q)]
  BY PicturesRecursion
<1>4. PICK g \in [0..Len(r) -> Seq(Nat)] : RunningPictures(g, r) /\ Pictures(r) = g[Len(r)]
  BY PicturesRecursion
<1>5. PICK h \in [0..Len(p) -> Seq(Nat)] : RunningPictures(h, p) /\ Pictures(p) = h[Len(p)]
  BY <1>2, PicturesRecursion
<1> HIDE DEF p
<1>6. \A k \in Nat : k <= m => h[k] = f[k]
  <2> DEFINE S == {k \in Nat : k <= m => h[k] = f[k]}
  <2>1. 0 \in S
    BY <1>3, <1>5 DEF RunningPictures
  <2>2. ASSUME NEW k \in Nat, k \in S, k + 1 <= m PROVE h[k + 1] = f[k + 1]
    <3>1. k + 1 \in 1..Len(q) /\ k + 1 \in 1..Len(p) /\ (k + 1) - 1 = k /\ h[k] = f[k] /\ p[k + 1] = q[k + 1]
      BY <1>1, <1>2, <2>2
    <3> QED
      BY <1>3, <1>5, <3>1 DEF RunningPictures
  <2>3. \A k \in Nat : k \in S => k + 1 \in S
    BY <2>2
  <2> HIDE DEF S
  <2>4. Nat \subseteq S
    BY <2>1, <2>3, NumbersInSet
  <2> QED
    BY <2>4 DEF S
<1>7. \A k \in Nat : k <= n => h[m + k] = f[m] \o g[k]
  <2> DEFINE S == {k \in Nat : k <= n => h[m + k] = f[m] \o g[k]}
  <2>1. 0 \in S
    <3>1. f[m] \in Seq(Nat) /\ h[m] = f[m] /\ m + 0 = m
      BY <1>1, <1>6
    <3>2. f[m] \o <<>> = f[m]
      BY <3>1, ConcatEmptySeq
    <3> QED
      BY <1>4, <3>1, <3>2 DEF RunningPictures
  <2>2. ASSUME NEW k \in Nat, k \in S, k + 1 <= n PROVE h[m + (k + 1)] = f[m] \o g[k + 1]
    <3>1. /\ m + (k + 1) \in 1..Len(p) /\ (m + (k + 1)) - 1 = m + k
          /\ k + 1 \in 1..Len(r) /\ (k + 1) - 1 = k /\ k \in 0..Len(r) /\ m \in 0..Len(q)
          /\ h[m + k] = f[m] \o g[k] /\ p[m + (k + 1)] = r[k + 1]
      BY <1>1, <1>2, <2>2
    <3>2. /\ h[m + (k + 1)] = IF r[k + 1].kind = "picture"
                                THEN Append(f[m] \o g[k], r[k + 1].pic) ELSE f[m] \o g[k]
          /\ g[k + 1] = IF r[k + 1].kind = "picture"
                                THEN Append(g[k], r[k + 1].pic) ELSE g[k]
      <4>1. \A i \in 1..Len(p) : h[i] = IF p[i].kind = "picture"
                                       THEN Append(h[i - 1], p[i].pic) ELSE h[i - 1]
        BY <1>5 DEF RunningPictures
      <4>2. \A i \in 1..Len(r) : g[i] = IF r[i].kind = "picture"
                                       THEN Append(g[i - 1], r[i].pic) ELSE g[i - 1]
        BY <1>4 DEF RunningPictures
      <4> DEFINE i == m + (k + 1)
                 j == k + 1
      <4>3. i \in 1..Len(p) /\ j \in 1..Len(r) /\ p[i] = r[j]
        BY <3>1
      <4>4. h[i - 1] = f[m] \o g[k] /\ g[j - 1] = g[k]
        BY <3>1
      <4> HIDE DEF i, j
      <4>5. /\ h[i] = IF p[i].kind = "picture" THEN Append(h[i - 1], p[i].pic) ELSE h[i - 1]
            /\ g[j] = IF r[j].kind = "picture" THEN Append(g[j - 1], r[j].pic) ELSE g[j - 1]
        BY <4>1, <4>2, <4>3
      <4>6. /\ h[i] = IF r[j].kind = "picture"
                         THEN Append(f[m] \o g[k], r[j].pic) ELSE f[m] \o g[k]
            /\ g[j] = IF r[j].kind = "picture" THEN Append(g[k], r[j].pic) ELSE g[k]
        BY Zenon, <4>3, <4>4, <4>5
      <4> QED
        BY <4>6 DEF i, j
    <3>3. f[m] \in Seq(Nat) /\ g[k] \in Seq(Nat) /\ r[k + 1] \in FrameType
      <4> HIDE DEF m, n
      <4> QED
        BY <3>1, ElementOfSeq
    <3>4. Append(f[m] \o g[k], r[k + 1].pic) = f[m] \o Append(g[k], r[k + 1].pic)
      <4> DEFINE a == f[m]
                 b == g[k]
                 x == r[k + 1].pic
      <4>1. x \in Nat /\ <<x>> \in Seq(Nat) /\ a \in Seq(Nat) /\ b \in Seq(Nat)
        BY <3>3 DEF FrameType
      <4> HIDE DEF a, b, x
      <4>2. a \o b \in Seq(Nat)
        BY <4>1, ConcatProperties
      <4>3. Append(a \o b, x) = (a \o b) \o <<x>> /\ Append(b, x) = b \o <<x>>
        BY <4>1, <4>2, AppendIsConcat
      <4>4. (a \o b) \o <<x>> = a \o (b \o <<x>>)
        BY SMTT(30), <4>1, ConcatAssociative
      <4>5. Append(a \o b, x) = a \o Append(b, x)
        BY <4>3, <4>4
      <4> QED
        BY <4>5 DEF a, b, x
    <3> QED
      BY <3>2, <3>4
  <2>3. \A k \in Nat : k \in S => k + 1 \in S
    <3> SUFFICES ASSUME NEW k \in Nat, k \in S PROVE k + 1 \in S
      OBVIOUS
    <3>1. k + 1 <= n => h[m + (k + 1)] = f[m] \o g[k + 1]
      BY <2>2
    <3>2. k + 1 \in Nat
      OBVIOUS
    <3> HIDE DEF m, n
    <3> QED
      BY Zenon, <3>1, <3>2
  <2> HIDE DEF S
  <2>4. Nat \subseteq S
    BY <2>1, <2>3, NumbersInSet
  <2> QED
    BY <2>4 DEF S
<1>8. h[m + n] = f[m] \o g[n]
  BY <1>1, <1>7
<1>9. Pictures(p) = h[m + n] /\ Pictures(q) = f[m] /\ Pictures(r) = g[n]
  BY <1>2, <1>3, <1>4, <1>5
<1>10. Pictures(q) \in Seq(Nat)
  <2>1. m \in 0..m
    BY <1>1
  <2> QED
    BY <1>3, <2>1
<1> HIDE DEF m, n
<1> QED
  BY <1>8, <1>9, <1>10 DEF p

\* The picture of one frame, if it is one.
LEMMA PicturesOfOne ==
  /\ Pictures(<<>>) = <<>>
  /\ \A f \in FrameType :
       Pictures(<<f>>) = IF f.kind = "picture" THEN <<f.pic>> ELSE <<>>
<1>1. Pictures(<<>>) = <<>>
  <2>1. <<>> \in Seq(FrameType) /\ Len(<<>>) = 0
    BY EmptySeq
  <2> QED
    BY <2>1, PicturesRecursion DEF RunningPictures
<1>2. ASSUME NEW f \in FrameType
      PROVE  Pictures(<<f>>) = IF f.kind = "picture" THEN <<f.pic>> ELSE <<>>
  <2>1. <<f>> \in Seq(FrameType) /\ Len(<<f>>) = 1 /\ <<f>>[1] = f
    OBVIOUS
  <2>2. PICK g \in [0..Len(<<f>>) -> Seq(Nat)] : RunningPictures(g, <<f>>) /\ Pictures(<<f>>) = g[Len(<<f>>)]
    BY <2>1, PicturesRecursion
  <2>3. g[0] = <<>> /\ g[1] = IF f.kind = "picture" THEN Append(g[0], f.pic) ELSE g[0]
    BY <2>1, <2>2 DEF RunningPictures
  <2>4. Append(<<>>, f.pic) = <<f.pic>>
    OBVIOUS
  <2> QED
    BY <2>1, <2>2, <2>3, <2>4
<1> QED
  BY <1>1, <1>2

\* A frame at the end of a queue.
LEMMA PicturesAppend ==
  ASSUME NEW q \in Seq(FrameType), NEW f \in FrameType
  PROVE  Pictures(Append(q, f)) = Pictures(q) \o Pictures(<<f>>)
<1>1. Append(q, f) = q \o <<f>> /\ <<f>> \in Seq(FrameType)
  BY AppendIsConcat
<1> QED
  BY <1>1, PicturesConcat

\* A sequence is its head and its tail.
LEMMA HeadTailConcat ==
  ASSUME NEW S, NEW q \in Seq(S), q # <<>>
  PROVE  q = <<Head(q)>> \o Tail(q)
<1>1. SubSeq(q, 1, Len(q)) = <<q[1]>> \o SubSeq(q, 2, Len(q))
  <2>1. 1 \in 1..Len(q) /\ Len(q) \in 1..Len(q) /\ 1 + 1 = 2
    BY LenProperties, EmptySeq
  <2> QED
    BY <2>1, SubSeqRecursiveFirst
<1>2. SubSeq(q, 1, Len(q)) = q /\ Tail(q) = SubSeq(q, 2, Len(q)) /\ Head(q) = q[1]
  BY SubSeqFull, TailIsSubSeq
<1> QED
  BY <1>1, <1>2

\* A frame at the head of one.
LEMMA PicturesTail ==
  ASSUME NEW q \in Seq(FrameType), q # <<>>
  PROVE  Pictures(q) = Pictures(<<Head(q)>>) \o Pictures(Tail(q))
<1>1. Head(q) \in FrameType /\ Tail(q) \in Seq(FrameType) /\ <<Head(q)>> \in Seq(FrameType)
  BY HeadTailProperties
<1>2. q = <<Head(q)>> \o Tail(q)
  BY HeadTailConcat
<1> QED
  BY <1>1, <1>2, PicturesConcat

\* A sequence that starts with x.
LEMMA HeadTailOfConcat ==
  ASSUME NEW S, NEW x \in S, NEW q \in Seq(S), NEW p \in Seq(S), p = <<x>> \o q
  PROVE  p # <<>> /\ Head(p) = x /\ Tail(p) = q
<1>1. <<x>> \in Seq(S) /\ Len(<<x>>) = 1 /\ <<x>>[1] = x
  OBVIOUS
<1>2. /\ Len(p) = 1 + Len(q) /\ Len(q) \in Nat
      /\ \A i \in 1..1 + Len(q) : p[i] = IF i <= 1 THEN x ELSE q[i - 1]
  BY <1>1, ConcatProperties, LenProperties
<1>3. p # <<>> /\ Head(p) = x
  BY <1>2, EmptySeq
<1>4. /\ Tail(p) \in Seq(S) /\ Len(Tail(p)) = Len(q)
      /\ \A i \in 1..Len(q) : Tail(p)[i] = q[i]
  BY <1>2, <1>3, HeadTailProperties
<1>5. Tail(p) = q
  BY <1>4, SeqEqual
<1> QED
  BY <1>3, <1>5

-----------------------------------------------------------------------------
(* What frames carry                                                       *)

\* A frame in in_queue has status "OK" exactly when it carries a picture
\* (CustomEncSource::read asks for the status); the thread carries a picture
\* only from the encoder to out_queue; close frees nothing before it drains.
CarriesInv ==
  /\ \A k \in 1..Len(in_queue) : in_queue[k].status = "OK" <=> in_queue[k].kind = "picture"
  /\ et.pc # "push" => et.frame.kind # "picture"
  /\ call.pc \in {"idle", "push", "pushing", "out", "close_drain"} => released = <<>>
  /\ call.pc \in {"push", "pushing"} => call.pic \in 1..MaxFrames

-----------------------------------------------------------------------------
(* The line of pictures from in_queue to the caller                        *)

\* Concatenation is associative ...
LEMMA Associative ==
  \A x, y, z \in Seq(Nat) : x \o (y \o z) = (x \o y) \o z
  BY SMTT(30), ConcatAssociative

\* ... so a picture at the end of one of four queues in a line may as well be
\* at the head of the next.
Line(a, b, c, d) == a \o b \o c \o d

Queues(a, b, c, d, e) ==
  a \in Seq(Nat) /\ b \in Seq(Nat) /\ c \in Seq(Nat) /\ d \in Seq(Nat) /\ e \in Seq(Nat)

LEMMA Regroup ==
  ASSUME NEW a, NEW b, NEW c, NEW d, NEW e, Queues(a, b, c, d, e)
  PROVE  /\ Line(a, b, c, d) \in Seq(Nat)
         /\ Line(a, b, c, d \o e) = Line(a, b, c, d) \o e
         /\ Line(e \o a, b, c, d) = e \o Line(a, b, c, d)
         /\ Line(a, b, c, e \o d) = Line(a, b, c \o e, d)
         /\ Line(a, b, e \o c, d) = Line(a, b \o e, c, d)
         /\ Line(a, e \o b, c, d) = Line(a \o e, b, c, d)
<1> DEFINE T == Seq(Nat)
           Cat(x, y) == x \o y
<1>1. a \in T /\ b \in T /\ c \in T /\ d \in T /\ e \in T
  BY DEF Queues
<1>2. \A x, y \in T : Cat(x, y) \in T
  BY ConcatProperties
<1>3. \A x, y, z \in T : Cat(x, Cat(y, z)) = Cat(Cat(x, y), z)
  BY Zenon, Associative
<1> HIDE DEF T, Cat
<1>5. Cat(a, b) \in T /\ Cat(Cat(a, b), c) \in T /\ Cat(Cat(Cat(a, b), c), d) \in T
  BY <1>1, <1>2
<1>7. Cat(Cat(Cat(a, b), c), Cat(d, e)) = Cat(Cat(Cat(Cat(a, b), c), d), e)
  BY <1>1, <1>3, <1>5
<1>8. Cat(Cat(Cat(Cat(e, a), b), c), d) = Cat(e, Cat(Cat(Cat(a, b), c), d))
  <2>1. Cat(e, Cat(Cat(Cat(a, b), c), d)) = Cat(Cat(e, Cat(Cat(a, b), c)), d)
    BY <1>1, <1>3, <1>5
  <2>2. Cat(e, Cat(Cat(a, b), c)) = Cat(Cat(e, Cat(a, b)), c)
    BY <1>1, <1>3, <1>5
  <2>3. Cat(e, Cat(a, b)) = Cat(Cat(e, a), b)
    BY <1>1, <1>3
  <2> QED
    BY <2>1, <2>2, <2>3
<1>9. Cat(Cat(Cat(a, b), c), Cat(e, d)) = Cat(Cat(Cat(a, b), Cat(c, e)), d)
  <2>1. Cat(Cat(Cat(a, b), c), Cat(e, d)) = Cat(Cat(Cat(Cat(a, b), c), e), d)
    BY <1>1, <1>3, <1>5
  <2>2. Cat(Cat(a, b), Cat(c, e)) = Cat(Cat(Cat(a, b), c), e)
    BY <1>1, <1>3, <1>5
  <2> QED
    BY <2>1, <2>2
<1>10. Cat(Cat(Cat(a, b), Cat(e, c)), d) = Cat(Cat(Cat(a, Cat(b, e)), c), d)
  <2>1. Cat(Cat(a, b), Cat(e, c)) = Cat(Cat(Cat(a, b), e), c)
    BY <1>1, <1>3, <1>5
  <2>2. Cat(a, Cat(b, e)) = Cat(Cat(a, b), e)
    BY <1>1, <1>3
  <2> QED
    BY <2>1, <2>2
<1>11. Cat(a, Cat(e, b)) = Cat(Cat(a, e), b)
  BY <1>1, <1>3
<1> QED
  BY <1>5, <1>7, <1>8, <1>9, <1>10, <1>11 DEF Cat, T, Line

\* The picture of a frame, as a sequence of one or none.
Carried(f) == Pictures(<<f>>)

LEMMA CarriedType ==
  \A f \in FrameType :
    /\ Carried(f) \in Seq(Nat)
    /\ f.kind = "picture" => Carried(f) = <<f.pic>>
    /\ f.kind # "picture" => Carried(f) = <<>>
<1> SUFFICES ASSUME NEW f \in FrameType
             PROVE  /\ Carried(f) \in Seq(Nat)
                    /\ Carried(f) = IF f.kind = "picture" THEN <<f.pic>> ELSE <<>>
  OBVIOUS
<1>1. Carried(f) = IF f.kind = "picture" THEN <<f.pic>> ELSE <<>>
  BY PicturesOfOne DEF Carried
<1>2. f.pic \in Nat
  BY DEF FrameType
<1> QED
  BY <1>1, <1>2

\* The pictures of the four places, in the order of InFlight.
OutPictures == Pictures(out_queue)
ThreadPictures == Carried(et.frame)
InPictures == Pictures(in_queue)

\* InFlight by its four places, with their types.
LEMMA FlightTypes ==
  ASSUME WorkType
  PROVE  /\ in_queue \in Seq(FrameType) /\ out_queue \in Seq(FrameType) /\ et.frame \in FrameType
         /\ OutPictures \in Seq(Nat) /\ ThreadPictures \in Seq(Nat)
         /\ omx.held \in Seq(Nat) /\ InPictures \in Seq(Nat)
         /\ InFlight = Line(OutPictures, ThreadPictures, omx.held, InPictures)
         /\ InFlight \in Seq(Nat)
<1>1. /\ in_queue \in Seq(FrameType) /\ out_queue \in Seq(FrameType) /\ et.frame \in FrameType
      /\ omx.held \in Seq(Nat)
  BY DEF WorkType, QueuesType, ThreadType, EncoderType
<1>2. <<et.frame>> \in Seq(FrameType)
  BY <1>1
<1>3. OutPictures \in Seq(Nat) /\ ThreadPictures \in Seq(Nat) /\ InPictures \in Seq(Nat)
  BY <1>1, <1>2, PicturesConcat DEF OutPictures, ThreadPictures, InPictures, Carried
<1>4. InFlight = Line(OutPictures, ThreadPictures, omx.held, InPictures)
  BY DEF Line, InFlight, OutPictures, ThreadPictures, InPictures, Carried
<1>5. InFlight \in Seq(Nat)
  <2>1. Queues(OutPictures, ThreadPictures, omx.held, InPictures, <<>>)
    BY <1>1, <1>3 DEF Queues
  <2> QED
    BY <1>4, <2>1, Regroup
<1> QED
  BY <1>1, <1>3, <1>4, <1>5

FlightType == InFlight \in Seq(Nat)

LEMMA FlightTypeNext == WorkType' => FlightType'
<1>1. WorkType => FlightType
  BY FlightTypes DEF FlightType
<1> QED
  BY <1>1, PTL

\* Nothing moves.
Rests == UNCHANGED <<InFlight, given, returned, released>>

\* A picture joins the line, a frame leaves it for the caller, close frees
\* the first pictures.
Joins ==
  /\ call.pc = "pushing" /\ call'.pc = "out" /\ call.pic \in 1..MaxFrames
  /\ InFlight' = InFlight \o Carried(Picture(call.pic)) /\ given' = Append(given, call.pic)
  /\ UNCHANGED <<returned, released>>
Leaves ==
  \E f \in FrameType :
    /\ call.pc = "out"
    /\ InFlight = Carried(f) \o InFlight'
    /\ IF f.kind = "picture" THEN returned' = Append(returned, f.pic) ELSE UNCHANGED returned
    /\ UNCHANGED <<given, released>>
Freed ==
  \E r \in Seq(Nat) :
    /\ InFlight = r \o InFlight' /\ released' = released \o r
    /\ UNCHANGED <<given, returned>>

\* Steps that touch neither queue nor the pictures of encoder and thread.
LEMMA RestingSteps ==
  ASSUME UNCHANGED <<in_queue, out_queue, omx.held, ThreadPictures, given, returned, released>>
  PROVE  Rests
  BY DEF Rests, InFlight, ThreadPictures, Carried

\* A step that leaves frame and place of the thread, or only starts it.
LEMMA ThreadKeeps ==
  ASSUME Inv, CarriesInv, StartThread, call.pc \notin {"close_free", "closed", "dead"}
  PROVE  UNCHANGED ThreadPictures /\ (et'.pc # "push" => et'.frame.kind # "picture")
<1>1. WorkType /\ ThreadInv
  BY DEF Inv
<1>2. CASE thread_started
  <2>1. et' = et
    BY <1>2 DEF StartThread
  <2> QED
    BY <2>1 DEF ThreadPictures, CarriesInv
<1>3. CASE ~thread_started
  <2>1. et.pc = "none" /\ et' = [NoThread EXCEPT !.pc = "alloc"]
    BY <1>1, <1>3 DEF StartThread, ThreadInv
  <2>2. et'.frame = Failure("OK") /\ et.frame.kind # "picture" /\ et.frame \in FrameType
    BY <1>1, <2>1, FlightTypes DEF NoThread, CarriesInv
  <2>3. Failure("OK") \in FrameType /\ Failure("OK").kind # "picture"
    BY FrameTypes DEF Failure
  <2>4. Carried(et'.frame) = <<>> /\ Carried(et.frame) = <<>>
    BY <2>2, <2>3, CarriedType
  <2> QED
    BY <2>2, <2>3, <2>4 DEF ThreadPictures
<1> QED
  BY <1>2, <1>3

\* What each step does to the line.
LEMMA FlightPush ==
  ASSUME Inv, CarriesInv, Push
  PROVE  Rests \/ Joins
<1>1. WorkType /\ UNCHANGED <<out_queue, et, omx, returned, released>>
  BY DEF Inv, Push
<1>2. UNCHANGED ThreadPictures /\ UNCHANGED OutPictures /\ UNCHANGED omx.held
  BY <1>1 DEF ThreadPictures, OutPictures
<1>3. CASE UNCHANGED <<in_queue, given>>
  BY <1>1, <1>2, <1>3, RestingSteps
<1>4. CASE in_queue' = Append(in_queue, Picture(call.pic)) /\ given' = Append(given, call.pic)
           /\ call' = [call EXCEPT !.pc = "out"]
  <2>1. call.pic \in Nat /\ Picture(call.pic) \in FrameType /\ call'.pc = "out"
    BY <1>1, <1>4, FrameTypes DEF WorkType, CallType
  <2>2. call.pc = "pushing" /\ call.pic \in 1..MaxFrames
    BY DEF Push, CarriesInv
  <2> DEFINE e == Carried(Picture(call.pic))
  <2>3. InPictures' = InPictures \o e
    BY <1>1, <1>4, <2>1, FlightTypes, PicturesAppend DEF InPictures, Carried
  <2>4. Queues(OutPictures, ThreadPictures, omx.held, InPictures, e)
    BY <1>1, <2>1, FlightTypes, CarriedType DEF Queues
  <2>5. InFlight' = Line(OutPictures, ThreadPictures, omx.held, InPictures \o e)
    BY <1>2, <2>3 DEF Line, InFlight, OutPictures, ThreadPictures, InPictures, Carried
  <2>6. InFlight = Line(OutPictures, ThreadPictures, omx.held, InPictures)
    BY <1>1, FlightTypes
  <2> HIDE DEF e
  <2>7. Line(OutPictures, ThreadPictures, omx.held, InPictures \o e)
        = Line(OutPictures, ThreadPictures, omx.held, InPictures) \o e
    BY <2>4, Regroup
  <2>8. InFlight' = InFlight \o e
    BY Zenon, <2>5, <2>6, <2>7
  <2> QED
    BY <1>1, <1>4, <2>1, <2>2, <2>8 DEF Joins, e
<1> QED
  BY <1>3, <1>4 DEF Push

LEMMA FlightDeliver ==
  ASSUME Inv, Deliver, call'.pc # "dead"
  PROVE  Leaves
<1> DEFINE f == Head(out_queue)
           rest == Pictures(Tail(out_queue))
           e == Carried(f)
<1>1. WorkType /\ UNCHANGED <<in_queue, omx, given, released>> /\ out_queue # <<>> /\ call.pc = "out"
      /\ out_queue' = Tail(out_queue)
  BY DEF Inv, Deliver
<1>2. /\ UNCHANGED et
      /\ IF f.kind = "picture" THEN returned' = Append(returned, f.pic) ELSE UNCHANGED returned
  BY <1>1 DEF Deliver, Die, WorkType, CallType
<1>3. f \in FrameType /\ Tail(out_queue) \in Seq(FrameType)
  BY <1>1, FlightTypes, TailType
<1>4. OutPictures = e \o rest /\ rest \in Seq(Nat) /\ e \in Seq(Nat)
  BY <1>1, <1>3, FlightTypes, PicturesTail, PicturesConcat, CarriedType DEF OutPictures, Carried
<1>5. InFlight' = Line(rest, ThreadPictures, omx.held, InPictures)
  BY <1>1, <1>2 DEF Line, InFlight, ThreadPictures, InPictures, Carried
<1>6. InFlight = Line(e \o rest, ThreadPictures, omx.held, InPictures)
  BY <1>1, <1>4, FlightTypes
<1>7. Queues(rest, ThreadPictures, omx.held, InPictures, e)
  BY <1>1, <1>4, FlightTypes DEF Queues
<1> HIDE DEF e, rest
<1>8. Line(e \o rest, ThreadPictures, omx.held, InPictures)
      = e \o Line(rest, ThreadPictures, omx.held, InPictures)
  BY <1>7, Regroup
<1>9. InFlight = e \o InFlight'
  BY Zenon, <1>5, <1>6, <1>8
<1> HIDE DEF f
<1> QED
  BY <1>1, <1>2, <1>3, <1>9 DEF Leaves, e

LEMMA FlightRead ==
  ASSUME Inv, CarriesInv, SourceRead
  PROVE  Rests
<1> DEFINE f == Head(in_queue)
           rest == Pictures(Tail(in_queue))
           e == Carried(f)
<1>1. WorkType /\ UNCHANGED <<out_queue, et, given, returned, released>> /\ in_queue # <<>>
      /\ in_queue' = Tail(in_queue)
  <2>1. WorkType
    BY DEF Inv
  <2> QED
    BY <2>1 DEF SourceRead, history
<1>2. f \in FrameType /\ Tail(in_queue) \in Seq(FrameType) /\ f = in_queue[1] /\ 1 \in 1..Len(in_queue)
  BY <1>1, FlightTypes, TailType
<1>3. InPictures = e \o rest /\ rest \in Seq(Nat) /\ e \in Seq(Nat)
  BY <1>1, <1>2, FlightTypes, PicturesTail, PicturesConcat, CarriedType DEF InPictures, Carried
<1>4. omx'.held = omx.held \o e
  <2>1. omx.held \in Seq(Nat) /\ omx \in [held : Seq(Nat), header : BOOLEAN, eos : BOOLEAN]
    BY <1>1 DEF WorkType, EncoderType
  <2>2. CASE f.status = "OK"
    <3>1. f.kind = "picture" /\ e = <<f.pic>> /\ f.pic \in Nat
      BY <1>2, <2>2, CarriedType DEF CarriesInv, FrameType
    <3>2. omx'.held = Append(omx.held, f.pic)
      BY <2>1, <2>2 DEF SourceRead
    <3>3. Append(omx.held, f.pic) = omx.held \o <<f.pic>>
      BY <2>1, <3>1, AppendIsConcat
    <3> HIDE DEF e, f
    <3> QED
      BY Zenon, <3>1, <3>2, <3>3
  <2>3. CASE f.status # "OK"
    <3>1. f.kind # "picture" /\ e = <<>>
      BY <1>2, <2>3, CarriedType DEF CarriesInv
    <3>2. omx'.held = omx.held
      BY <2>1, <2>3 DEF SourceRead
    <3>3. omx.held \o <<>> = omx.held
      BY <2>1, ConcatEmptySeq
    <3> HIDE DEF e, f
    <3> QED
      BY Zenon, <3>1, <3>2, <3>3
  <2> QED
    BY <2>2, <2>3
<1>5. InFlight' = Line(OutPictures, ThreadPictures, omx.held \o e, rest)
  BY <1>1, <1>4 DEF Line, InFlight, OutPictures, ThreadPictures, Carried
<1>6. InFlight = Line(OutPictures, ThreadPictures, omx.held, e \o rest)
  BY <1>1, <1>3, FlightTypes
<1>7. Queues(OutPictures, ThreadPictures, omx.held, rest, e)
  BY <1>1, <1>3, FlightTypes DEF Queues
<1> HIDE DEF e, rest
<1>8. Line(OutPictures, ThreadPictures, omx.held, e \o rest)
      = Line(OutPictures, ThreadPictures, omx.held \o e, rest)
  BY <1>7, Regroup
<1> QED
  BY Zenon, <1>1, <1>5, <1>6, <1>8 DEF Rests

LEMMA FlightPicture ==
  ASSUME Inv, CarriesInv, EtPicture
  PROVE  Rests
<1> DEFINE x == Head(omx.held)
           rest == Tail(omx.held)
           e == Carried(Picture(x))
<1>1. WorkType /\ UNCHANGED <<in_queue, out_queue, given, returned, released>> /\ omx.held # <<>>
      /\ et.pc = "read" /\ et'.frame = Picture(x) /\ omx'.held = rest
  <2>1. WorkType
    BY DEF Inv
  <2>2. UNCHANGED <<in_queue, out_queue, given, returned, released>> /\ omx.held # <<>> /\ et.pc = "read"
    BY DEF EtPicture, history
  <2>3. et'.frame = Picture(x)
    BY <2>1 DEF EtPicture, WorkType, ThreadType
  <2>4. omx'.held = rest
    BY <2>1 DEF EtPicture, WorkType, EncoderType
  <2> QED
    BY <2>1, <2>2, <2>3, <2>4
<1>2. omx.held \in Seq(Nat) /\ x \in Nat /\ rest \in Seq(Nat)
  BY <1>1, FlightTypes, TailType
<1>3. Picture(x) \in FrameType /\ e = <<x>> /\ e \in Seq(Nat)
  BY <1>2, FrameTypes, CarriedType DEF Picture
<1>4. omx.held = e \o rest
  <2>1. omx.held = <<x>> \o rest
    BY <1>1, <1>2, HeadTailConcat
  <2> HIDE DEF e, rest, x
  <2> QED
    BY Zenon, <1>3, <2>1
<1>5. ThreadPictures = <<>>
  BY <1>1, FlightTypes, CarriedType DEF CarriesInv, ThreadPictures
<1>6. InFlight' = Line(OutPictures, e, rest, InPictures)
  BY <1>1 DEF Line, InFlight, OutPictures, InPictures, Carried
<1> DEFINE none == <<>>
<1>7. none \o e = e /\ none \in Seq(Nat)
  BY <1>3, ConcatEmptySeq, EmptySeq
<1>8. InFlight = Line(OutPictures, none, e \o rest, InPictures)
  BY <1>1, <1>4, <1>5, FlightTypes
<1>9. Queues(OutPictures, none, rest, InPictures, e)
  BY <1>1, <1>2, <1>3, <1>7, FlightTypes DEF Queues
<1> HIDE DEF e, rest, none
<1>10. Line(OutPictures, none, e \o rest, InPictures)
      = Line(OutPictures, none \o e, rest, InPictures)
  BY <1>9, Regroup
<1> QED
  BY Zenon, <1>1, <1>6, <1>7, <1>8, <1>10 DEF Rests

LEMMA FlightEtPush ==
  ASSUME Inv, EtPush
  PROVE  Rests
<1> DEFINE e == Carried(et.frame)
           none == <<>>
<1>1. WorkType /\ UNCHANGED <<in_queue, omx, given, returned, released>>
      /\ et'.frame = Failure("OK") /\ out_queue' = Append(out_queue, et.frame)
  <2>1. WorkType
    BY DEF Inv
  <2>2. et'.frame = Failure("OK")
    BY <2>1 DEF EtPush, WorkType, ThreadType
  <2> QED
    BY <2>1, <2>2 DEF EtPush, history
<1>2. e \in Seq(Nat) /\ et.frame \in FrameType
  BY <1>1, FlightTypes, CarriedType
<1>3. Pictures(out_queue') = OutPictures \o e
  BY <1>1, <1>2, FlightTypes, PicturesAppend DEF OutPictures, Carried
<1>4. Carried(et'.frame) = none
  <2>1. Failure("OK") \in FrameType /\ Failure("OK").kind # "picture"
    BY FrameTypes DEF Failure
  <2> QED
    BY <1>1, <2>1, CarriedType
<1>5. InFlight' = Line(OutPictures \o e, none, omx.held, InPictures)
  BY <1>1, <1>3, <1>4 DEF Line, InFlight, InPictures, Carried
<1>6. e \o none = e /\ none \in Seq(Nat)
  BY <1>2, ConcatEmptySeq, EmptySeq
<1>7. InFlight = Line(OutPictures, e, omx.held, InPictures)
  BY <1>1, FlightTypes DEF ThreadPictures
<1>8. Queues(OutPictures, none, omx.held, InPictures, e)
  BY <1>1, <1>2, <1>6, FlightTypes DEF Queues
<1> HIDE DEF e, none
<1>9. Line(OutPictures, e \o none, omx.held, InPictures)
      = Line(OutPictures \o e, none, omx.held, InPictures)
  BY <1>8, Regroup
<1> QED
  BY Zenon, <1>1, <1>5, <1>6, <1>7, <1>9 DEF Rests

LEMMA FlightCloseEos ==
  ASSUME Inv, CloseEos
  PROVE  Rests
<1> DEFINE f == IF end_frame THEN EndFrame("EOS") ELSE NullFrame
           none == <<>>
<1>1. WorkType /\ UNCHANGED <<out_queue, et, omx, given, returned, released>>
      /\ in_queue' = Append(in_queue, f)
  <2>1. WorkType
    BY DEF Inv
  <2> QED
    BY <2>1 DEF CloseEos, history
<1>2. f \in FrameType /\ f.kind # "picture"
  BY FrameTypes DEF EndFrame, NullFrame
<1> HIDE DEF f
<1>3. Pictures(in_queue') = InPictures \o none
  BY <1>1, <1>2, FlightTypes, PicturesAppend, CarriedType DEF InPictures, Carried
<1>4. InPictures \o none = InPictures
  BY <1>1, FlightTypes, ConcatEmptySeq
<1> HIDE DEF none
<1>5. UNCHANGED InPictures
  BY <1>3, <1>4 DEF InPictures
<1> QED
  BY <1>1, <1>5 DEF Rests, InFlight, InPictures

LEMMA FlightDrain ==
  ASSUME Inv, CloseDrain
  PROVE  Freed
<1> DEFINE none == <<>>
<1>1. WorkType /\ UNCHANGED <<in_queue, et, omx, given, returned>>
      /\ out_queue' = <<>> /\ released' = released \o OutPictures
  <2>1. WorkType
    BY DEF Inv
  <2> QED
    BY <2>1 DEF CloseDrain, OutPictures
<1>2. InFlight' = Line(none, ThreadPictures, omx.held, InPictures)
  BY <1>1, PicturesOfOne DEF Line, InFlight, ThreadPictures, InPictures, Carried
<1>3. OutPictures \o none = OutPictures /\ none \in Seq(Nat)
  BY <1>1, FlightTypes, ConcatEmptySeq, EmptySeq
<1>4. InFlight = Line(OutPictures, ThreadPictures, omx.held, InPictures)
  BY <1>1, FlightTypes
<1>5. Queues(none, ThreadPictures, omx.held, InPictures, OutPictures) /\ OutPictures \in Seq(Nat)
  BY <1>1, <1>3, FlightTypes DEF Queues
<1> HIDE DEF none
<1>6. Line(OutPictures \o none, ThreadPictures, omx.held, InPictures)
      = OutPictures \o Line(none, ThreadPictures, omx.held, InPictures)
  BY <1>5, Regroup
<1>7. InFlight = OutPictures \o InFlight'
  BY Zenon, <1>2, <1>3, <1>4, <1>6
<1> QED
  BY Zenon, <1>1, <1>5, <1>7 DEF Freed

LEMMA FlightFree ==
  ASSUME Inv, HistoryType, CarriesInv, CloseFree, call'.pc # "dead"
  PROVE  Freed
<1> DEFINE none == <<>>
           r == OutPictures \o omx.held \o InPictures
<1>1. WorkType /\ ThreadInv
  BY DEF Inv
<1>2. /\ UNCHANGED <<et, given, returned>> /\ call.pc = "close_free"
      /\ out_queue' = <<>> /\ in_queue' = <<>> /\ omx' = Empty
      /\ released' = released \o OutPictures \o omx.held \o InPictures
  BY <1>1 DEF CloseFree, Die, OutPictures, InPictures, WorkType, CallType
<1>3. ThreadPictures = none /\ Carried(et'.frame) = none
  BY <1>1, <1>2, FlightTypes, CarriedType DEF CarriesInv, ThreadInv, ThreadPictures
<1>4. InFlight' = none \o none \o none \o none
  BY <1>2, <1>3, PicturesOfOne DEF InFlight, Carried, Empty
<1>5. none \in Seq(Nat) /\ \A q \in Seq(Nat) : q \o none = q /\ none \o q = q
  BY ConcatEmptySeq, EmptySeq
<1>6. InFlight = OutPictures \o none \o omx.held \o InPictures
  BY <1>1, <1>3, FlightTypes DEF Line
<1>7. OutPictures \in Seq(Nat) /\ omx.held \in Seq(Nat) /\ InPictures \in Seq(Nat)
  BY <1>1, FlightTypes
<1> HIDE DEF none
<1>8. InFlight = r /\ InFlight' = none
  BY Zenon, <1>4, <1>5, <1>6, <1>7
<1>9. r \in Seq(Nat)
  BY <1>1, <1>8, FlightTypes
<1>10. released' = released \o r
  <2>1. Queues(OutPictures, omx.held, InPictures, none, released)
    BY <1>5, <1>7 DEF Queues, HistoryType
  <2>2. Line(released \o OutPictures, omx.held, InPictures, none)
        = released \o Line(OutPictures, omx.held, InPictures, none)
    BY <2>1, Regroup
  <2>3. /\ released \o OutPictures \o omx.held \o InPictures \in Seq(Nat)
        /\ r \in Seq(Nat)
    <3>1. \A p, q \in Seq(Nat) : p \o q \in Seq(Nat)
      BY ConcatProperties
    <3>2. released \in Seq(Nat)
      BY DEF HistoryType
    <3> QED
      BY Zenon, <1>7, <3>1, <3>2
  <2>4. /\ released \o OutPictures \o omx.held \o InPictures \o none
           = released \o OutPictures \o omx.held \o InPictures
        /\ OutPictures \o omx.held \o InPictures \o none = r
    BY Zenon, <1>5, <2>3
  <2> QED
    BY Zenon, <1>2, <2>2, <2>4 DEF Line
<1>11. InFlight = r \o InFlight'
  BY Zenon, <1>5, <1>8, <1>9
<1> HIDE DEF r
<1> QED
  BY Zenon, <1>2, <1>9, <1>10, <1>11 DEF Freed

\* The steps that leave the line alone.
LEMMA FlightRests ==
  ASSUME Inv, CarriesInv, [Next]_vars, call'.pc # "dead",
         ~Push, ~Deliver, ~SourceRead, ~EtPicture, ~EtPush, ~CloseEos, ~CloseDrain, ~CloseFree
  PROVE  Rests
<1>1. WorkType
  BY DEF Inv
<1>2. CASE FrameCall \/ FlushCall
  <2>1. StartThread /\ UNCHANGED <<in_queue, out_queue, omx, given, returned, released>> /\ call.pc = "idle"
    BY <1>2 DEF FrameCall, FlushCall, history
  <2>2. UNCHANGED ThreadPictures
    BY <2>1, ThreadKeeps
  <2> QED
    BY <2>1, <2>2, RestingSteps
<1>3. CASE PushTest \/ OutEmpty \/ CloseCall \/ CloseForget \/ CloseJoin
  <2>1. UNCHANGED <<in_queue, out_queue, omx, et, given, returned, released>>
    BY <1>3 DEF PushTest, OutEmpty, CloseCall, CloseForget, CloseJoin, history
  <2> QED
    BY <2>1, RestingSteps DEF ThreadPictures
<1>4. CASE CloseStatus
  <2>1. UNCHANGED <<in_queue, out_queue, omx, et, given, returned, released>>
    BY <1>1, <1>4 DEF CloseStatus, Die, history, WorkType, CallType
  <2> QED
    BY <2>1, RestingSteps DEF ThreadPictures
<1>5. CASE EtForget \/ EtTest \/ EtExit
  <2>1. UNCHANGED <<in_queue, out_queue, omx, given, returned, released>> /\ et'.frame = et.frame
    BY <1>1, <1>5 DEF EtForget, EtTest, EtExit, history, WorkType, ThreadType
  <2> QED
    BY <2>1, RestingSteps DEF ThreadPictures
<1>6. CASE EtAlloc \/ EtHeader \/ EtEnd
  <2>1. UNCHANGED <<in_queue, out_queue, given, returned, released>> /\ UNCHANGED omx.held
    BY <1>1, <1>6 DEF EtAlloc, EtHeader, EtEnd, history, WorkType, EncoderType
  <2>2. et.frame.kind # "picture" /\ et.frame \in FrameType
    BY <1>1, <1>6, FlightTypes DEF EtAlloc, EtHeader, EtEnd, CarriesInv
  <2>3. et'.frame.kind # "picture" /\ et'.frame \in FrameType
    <3>1. et'.frame \in {et.frame, EndFrame("ENOMEM"), Header, Failure("EOS"), Failure("ERROR")}
      <4>1. CASE EtAlloc
        BY <1>1, <4>1 DEF EtAlloc, Die, WorkType, ThreadType, CallType
      <4>2. CASE EtHeader
        BY <1>1, <4>2 DEF EtHeader, WorkType, ThreadType
      <4>3. CASE EtEnd
        BY <4>3 DEF EtEnd
      <4> QED
        BY <1>6, <4>1, <4>2, <4>3
    <3> QED
      BY <2>2, <3>1, FrameTypes DEF EndFrame, Header, Failure
  <2>4. UNCHANGED ThreadPictures
    BY <2>2, <2>3, CarriedType DEF ThreadPictures
  <2> QED
    BY <2>1, <2>4, RestingSteps
<1>7. CASE UNCHANGED vars
  BY <1>7, RestingSteps DEF vars, history, ThreadPictures
<1> QED
  BY <1>2, <1>3, <1>4, <1>5, <1>6, <1>7 DEF Next, Caller, InCall, Closing, EncoderThread

\* Once a null pointer was followed nothing runs.
LEMMA DeadStays ==
  ASSUME WorkType, [Next]_vars, call.pc = "dead"
  PROVE  call'.pc = "dead"
<1> USE DEF WorkType, CallType
<1>1. CASE Caller
  BY <1>1 DEF Caller, InCall, Closing, FrameCall, FlushCall, PushTest, Push, OutEmpty, Deliver,
     CloseCall, CloseDrain, CloseStatus, CloseEos, CloseForget, CloseJoin, CloseFree
<1>2. CASE EncoderThread
  BY <1>2 DEF EncoderThread, EtAlloc, EtForget, SourceRead, EtHeader, EtPicture, EtEnd, EtPush, EtTest,
     EtExit, Die
<1>3. CASE UNCHANGED vars
  BY <1>3 DEF vars
<1> QED
  BY <1>1, <1>2, <1>3 DEF Next

\* Every step, as a move on the line.
LEMMA Moves ==
  ASSUME Inv, HistoryType, CarriesInv, [Next]_vars, call'.pc # "dead"
  PROVE  \/ Rests
         \/ Joins
         \/ Leaves /\ Deliver
         \/ Freed /\ call.pc \in {"close_drain", "close_free"}
  BY FlightPush, FlightDeliver, FlightRead, FlightPicture, FlightEtPush, FlightCloseEos, FlightDrain,
     FlightFree, FlightRests DEF CloseDrain, CloseFree

\* What frames carry, step by step: in in_queue, ...
LEMMA CarriesInQueue ==
  ASSUME Inv, CarriesInv, [Next]_vars
  PROVE  \A k \in 1..Len(in_queue') : in_queue'[k].status = "OK" <=> in_queue'[k].kind = "picture"
<1>1. WorkType /\ in_queue \in Seq(FrameType)
  BY FlightTypes DEF Inv
<1>2. \A k \in 1..Len(in_queue) : in_queue[k].status = "OK" <=> in_queue[k].kind = "picture"
  BY DEF CarriesInv
<1>3. ASSUME NEW f \in FrameType, f.status = "OK" <=> f.kind = "picture", in_queue' = Append(in_queue, f)
      PROVE  \A k \in 1..Len(in_queue') : in_queue'[k].status = "OK" <=> in_queue'[k].kind = "picture"
  <2>1. /\ Len(in_queue') = Len(in_queue) + 1 /\ Len(in_queue) \in Nat
        /\ \A k \in 1..Len(in_queue) : in_queue'[k] = in_queue[k]
        /\ in_queue'[Len(in_queue) + 1] = f
    BY <1>1, <1>3, AppendProperties, LenProperties
  <2>2. \A k \in 1..Len(in_queue') : k \in 1..Len(in_queue) \/ k = Len(in_queue) + 1
    BY <2>1
  <2> QED
    BY <1>2, <1>3, <2>1, <2>2
<1>4. CASE Push
  <2>1. Picture(call.pic) \in FrameType /\ Picture(call.pic).status = "OK" /\ Picture(call.pic).kind = "picture"
    BY <1>1, FrameTypes DEF WorkType, CallType, Picture
  <2>2. in_queue' = in_queue \/ in_queue' = Append(in_queue, Picture(call.pic))
    BY <1>4 DEF Push
  <2> QED
    BY <1>2, <1>3, <2>1, <2>2
<1>5. CASE CloseEos
  <2> DEFINE f == IF end_frame THEN EndFrame("EOS") ELSE NullFrame
  <2>1. f \in FrameType /\ f.status # "OK" /\ f.kind # "picture"
    BY FrameTypes DEF EndFrame, NullFrame
  <2>2. in_queue' = Append(in_queue, f)
    BY <1>5 DEF CloseEos
  <2> HIDE DEF f
  <2> QED
    BY <1>3, <2>1, <2>2
<1>6. CASE SourceRead
  <2>1. /\ in_queue # <<>> /\ in_queue' = Tail(in_queue)
    BY <1>6 DEF SourceRead
  <2>2. /\ Len(in_queue') = Len(in_queue) - 1 /\ Len(in_queue) \in Nat
        /\ \A k \in 1..Len(in_queue') : in_queue'[k] = in_queue[k + 1]
    BY <1>1, <2>1, HeadTailProperties, LenProperties
  <2>3. \A k \in 1..Len(in_queue') : k + 1 \in 1..Len(in_queue)
    BY <2>2
  <2> QED
    BY <1>2, <2>2, <2>3
<1>7. CASE in_queue' = <<>>
  BY <1>7, EmptySeq
<1>8. CASE in_queue' = in_queue
  BY <1>2, <1>8
<1>9. CASE Caller /\ ~Push /\ ~CloseEos
  <2>1. in_queue' = in_queue \/ in_queue' = <<>>
    BY <1>9 DEF Caller, InCall, Closing, FrameCall, FlushCall, PushTest, OutEmpty, Deliver, CloseCall,
       CloseDrain, CloseStatus, CloseForget, CloseJoin, CloseFree
  <2> QED
    BY <1>7, <1>8, <2>1
<1>10. CASE EncoderThread /\ ~SourceRead
  BY <1>8, <1>10 DEF EncoderThread, EtAlloc, EtForget, EtHeader, EtPicture, EtEnd, EtPush, EtTest, EtExit
<1>11. CASE UNCHANGED vars
  BY <1>8, <1>11 DEF vars
<1> QED
  BY <1>4, <1>5, <1>6, <1>9, <1>10, <1>11 DEF Next, EncoderThread, Caller

\* ... in the thread, ...
LEMMA CarriesThread ==
  ASSUME Inv, CarriesInv, [Next]_vars, call'.pc # "dead", et'.pc # "push"
  PROVE  et'.frame.kind # "picture"
<1>1. WorkType
  BY DEF Inv
<1>2. CASE FrameCall \/ FlushCall
  <2>1. StartThread /\ call.pc = "idle"
    BY <1>2 DEF FrameCall, FlushCall
  <2> QED
    BY <2>1, ThreadKeeps
<1>3. CASE et' = et
  BY <1>3 DEF CarriesInv
<1>4. CASE Caller /\ ~FrameCall /\ ~FlushCall
  <2>1. et' = et
    BY <1>1, <1>4 DEF Caller, InCall, Closing, PushTest, Push, OutEmpty, Deliver, CloseCall,
       CloseDrain, CloseStatus, CloseEos, CloseForget, CloseJoin, CloseFree, Die, WorkType, CallType
  <2> QED
    BY <1>3, <2>1
<1>5. CASE EtAlloc
  <2>1. et'.frame = et.frame \/ et'.frame = EndFrame("ENOMEM")
    BY <1>1, <1>5 DEF EtAlloc, Die, WorkType, ThreadType, CallType
  <2>2. et.pc = "alloc"
    BY <1>5 DEF EtAlloc
  <2> QED
    BY <2>1, <2>2 DEF CarriesInv, EndFrame
<1>6. CASE EtForget \/ EtHeader \/ EtPicture \/ EtEnd
  <2>1. et'.pc = "push"
    <3>1. CASE EtForget
      BY <1>1, <3>1 DEF EtForget, WorkType, ThreadType
    <3>2. CASE EtHeader
      BY <1>1, <3>2 DEF EtHeader, WorkType, ThreadType
    <3>3. CASE EtPicture
      BY <1>1, <3>3 DEF EtPicture, WorkType, ThreadType
    <3>4. CASE EtEnd
      BY <3>4 DEF EtEnd
    <3> QED
      BY <1>6, <3>1, <3>2, <3>3, <3>4
  <2> QED
    BY <2>1
<1>7. CASE EtTest \/ EtExit
  <2>1. et'.frame = et.frame /\ et.pc # "push"
    BY <1>1, <1>7 DEF EtTest, EtExit, WorkType, ThreadType
  <2> QED
    BY <2>1 DEF CarriesInv
<1>8. CASE EtPush
  <2>1. et'.frame = Failure("OK")
    BY <1>1, <1>8 DEF EtPush, WorkType, ThreadType
  <2> QED
    BY <2>1 DEF Failure
<1>9. CASE SourceRead \/ UNCHANGED vars
  BY <1>3, <1>9 DEF SourceRead, vars
<1> QED
  BY <1>2, <1>4, <1>5, <1>6, <1>7, <1>8, <1>9 DEF Next, EncoderThread

\* ... and the call; close frees nothing before it drains.
LEMMA CarriesCall ==
  ASSUME Inv, CarriesInv, [Next]_vars, call'.pc # "dead"
  PROVE  /\ call'.pc \in {"idle", "push", "pushing", "out", "close_drain"} => released' = <<>>
         /\ call'.pc \in {"push", "pushing"} => call'.pic \in 1..MaxFrames
<1>1. WorkType /\ CallType /\ calls \in Nat /\ MaxFrames \in Nat
  BY CallerAssumption DEF Inv, WorkType
<1> USE <1>1 DEF CarriesInv, CallType
<1>2. CASE FrameCall
  BY <1>2 DEF FrameCall, history
<1>3. CASE FlushCall \/ PushTest \/ Push
  BY <1>3 DEF FlushCall, PushTest, Push, history
<1>4. CASE OutEmpty \/ Deliver
  BY <1>4 DEF OutEmpty, Deliver, Return, Die, history
<1>5. CASE CloseCall
  BY <1>5 DEF CloseCall, history
<1>6. CASE Closing
  BY <1>6 DEF Closing, CloseDrain, CloseStatus, CloseEos, CloseForget, CloseJoin, CloseFree, Die
<1>7. CASE EncoderThread
  BY <1>7 DEF EncoderThread, EtAlloc, EtForget, SourceRead, EtHeader, EtPicture, EtEnd, EtPush, EtTest,
     EtExit, Die, history
<1>8. CASE UNCHANGED vars
  BY <1>8 DEF vars, history
<1> QED
  BY <1>2, <1>3, <1>4, <1>5, <1>6, <1>7, <1>8 DEF Next, Caller, InCall

LEMMA StepCarries ==
  ASSUME Inv, CarriesInv, [Next]_vars, call'.pc # "dead"
  PROVE  CarriesInv'
  BY CarriesInQueue, CarriesThread, CarriesCall DEF CarriesInv

-----------------------------------------------------------------------------
(* Every picture is in one place                                           *)

LEMMA StepHistoryType ==
  ASSUME Inv, HistoryType, [Next]_vars
  PROVE  HistoryType'
<1>1. WorkType /\ calls' \in Nat
  BY StepCallType DEF Inv, WorkType
<1> SUFFICES given' \in Seq(Nat) /\ returned' \in Seq(Nat) /\ released' \in Seq(Nat)
  BY <1>1 DEF HistoryType
<1> USE DEF HistoryType
<1>2. CASE Push
  <2>1. call.pic \in Nat
    BY <1>1 DEF WorkType, CallType
  <2>2. Append(given, call.pic) \in Seq(Nat)
    BY <2>1, AppendProperties
  <2> QED
    BY <1>2, <2>2 DEF Push
<1>3. CASE Deliver
  <2>1. Head(out_queue) \in FrameType
    BY <1>1, <1>3, FlightTypes, TailType DEF Deliver
  <2>2. Append(returned, Head(out_queue).pic) \in Seq(Nat)
    BY <2>1, AppendProperties DEF FrameType
  <2>3. returned' = returned \/ returned' = Append(returned, Head(out_queue).pic)
    BY <1>3 DEF Deliver
  <2> QED
    BY <1>3, <2>2, <2>3 DEF Deliver
<1>4. CASE CloseDrain \/ CloseFree
  <2>1. \A p, q \in Seq(Nat) : p \o q \in Seq(Nat)
    BY ConcatProperties
  <2>2. /\ released \o OutPictures \in Seq(Nat)
        /\ released \o OutPictures \o omx.held \o InPictures \in Seq(Nat)
    BY Zenon, <1>1, <2>1, FlightTypes
  <2>3. released' \in {released, released \o OutPictures, released \o OutPictures \o omx.held \o InPictures}
    BY <1>4 DEF CloseDrain, CloseFree, OutPictures, InPictures
  <2>4. UNCHANGED <<given, returned>>
    BY <1>4 DEF CloseDrain, CloseFree
  <2> QED
    BY <2>2, <2>3, <2>4
<1>5. CASE Caller /\ ~Push /\ ~Deliver /\ ~CloseDrain /\ ~CloseFree
  BY <1>5 DEF Caller, InCall, Closing, FrameCall, FlushCall, PushTest, OutEmpty, CloseCall,
     CloseStatus, CloseEos, CloseForget, CloseJoin, history
<1>6. CASE EncoderThread
  BY <1>6 DEF EncoderThread, EtAlloc, EtForget, SourceRead, EtHeader, EtPicture, EtEnd, EtPush, EtTest,
     EtExit, history
<1>7. CASE UNCHANGED vars
  BY <1>7 DEF vars, history
<1> QED
  BY <1>2, <1>3, <1>4, <1>5, <1>6, <1>7 DEF Next

\* Each move keeps the pictures given in line: those returned, those freed,
\* those in flight.
LEMMA StepConserved ==
  ASSUME Inv, HistoryType, CarriesInv, PicturesConserved, [Next]_vars, call.pc # "dead"
  PROVE  PicturesConserved'
<1> SUFFICES ASSUME call'.pc # "dead"
             PROVE  given' = returned' \o released' \o InFlight'
  BY DEF PicturesConserved
<1>1. WorkType /\ WorkType' /\ given = returned \o released \o InFlight
  BY StepWorkType DEF Inv, PicturesConserved
<1> DEFINE none == <<>>
<1>2. /\ given \in Seq(Nat) /\ returned \in Seq(Nat) /\ released \in Seq(Nat)
      /\ InFlight \in Seq(Nat) /\ InFlight' \in Seq(Nat) /\ none \in Seq(Nat)
  <2>1. InFlight \in Seq(Nat)
    BY <1>1, FlightTypes
  <2>2. InFlight' \in Seq(Nat)
    BY <1>1, FlightTypeNext DEF FlightType
  <2> QED
    BY <2>1, <2>2, EmptySeq DEF HistoryType
<1>3. \A q \in Seq(Nat) : q \o none = q /\ none \o q = q
  BY ConcatEmptySeq
<1>4. CASE Rests
  BY Zenon, <1>1, <1>4 DEF Rests
<1>5. CASE Joins
  <2> DEFINE e == Carried(Picture(call.pic))
  <2>1. call.pic \in Nat
    BY <1>1 DEF WorkType, CallType
  <2>2. e = <<call.pic>> /\ e \in Seq(Nat)
    BY <2>1, FrameTypes, CarriedType DEF Picture
  <2>3. given' = given \o <<call.pic>>
    BY <1>2, <1>5, <2>1, AppendIsConcat DEF Joins
  <2>4. given' = given \o e /\ InFlight' = InFlight \o e /\ UNCHANGED <<returned, released>>
    BY Zenon, <1>5, <2>2, <2>3 DEF Joins
  <2>5. Queues(none, returned, released, InFlight, e)
    BY <1>2, <2>2 DEF Queues
  <2> HIDE DEF e, none
  <2>6. Line(none, returned, released, InFlight \o e) = Line(none, returned, released, InFlight) \o e
    BY <2>5, Regroup
  <2> QED
    BY Zenon, <1>1, <1>2, <1>3, <2>4, <2>6 DEF Line
<1>6. CASE Leaves /\ Deliver
  <2>1. PICK f \in FrameType :
           /\ call.pc = "out"
           /\ InFlight = Carried(f) \o InFlight'
           /\ IF f.kind = "picture" THEN returned' = Append(returned, f.pic) ELSE UNCHANGED returned
           /\ UNCHANGED <<given, released>>
    BY <1>6 DEF Leaves
  <2> DEFINE e == Carried(f)
  <2>2. e \in Seq(Nat) /\ f.pic \in Nat
    BY CarriedType DEF FrameType
  <2>3. returned' = returned \o e
    <3>1. CASE f.kind = "picture"
      <4>1. returned' = Append(returned, f.pic) /\ e = <<f.pic>>
        BY <2>1, <3>1, CarriedType
      <4>2. Append(returned, f.pic) = returned \o <<f.pic>>
        BY <1>2, <2>2, AppendIsConcat
      <4> HIDE DEF e
      <4> QED
        BY Zenon, <4>1, <4>2
    <3>2. CASE f.kind # "picture"
      <4>1. returned' = returned /\ e = none
        BY <2>1, <3>2, CarriedType
      <4> HIDE DEF e, none
      <4> QED
        BY Zenon, <1>2, <1>3, <4>1
    <3> QED
      BY <3>1, <3>2
  <2>4. InFlight = e \o InFlight' /\ UNCHANGED <<given, released>> /\ released = none
    BY <2>1 DEF CarriesInv
  <2>5. Queues(none, returned, none, InFlight', e)
    BY <1>2, <2>2 DEF Queues
  <2> HIDE DEF e, none
  <2>6. Line(none, returned, none, e \o InFlight') = Line(none, returned, none \o e, InFlight')
        /\ Line(none, returned, e \o none, InFlight') = Line(none, returned \o e, none, InFlight')
    BY <2>5, Regroup
  <2>7. none \o e = e /\ e \o none = e /\ none \o returned = returned /\ none \o (returned \o e) = returned \o e
    <3>1. returned \o e \in Seq(Nat)
      BY <1>2, <2>2, ConcatProperties
    <3> QED
      BY Zenon, <1>2, <1>3, <2>2, <3>1
  <2>8. given = returned \o none \o (e \o InFlight')
    BY Zenon, <1>1, <2>4
  <2>9. Line(none, returned, none, e \o InFlight') = given
    BY Zenon, <2>7, <2>8 DEF Line
  <2>10. Line(none, returned \o e, none, InFlight') = returned \o e \o none \o InFlight'
    BY Zenon, <2>7 DEF Line
  <2>11. given = returned \o e \o none \o InFlight'
    BY Zenon, <2>6, <2>7, <2>9, <2>10
  <2> QED
    BY Zenon, <2>3, <2>4, <2>11
<1>7. CASE Freed
  <2>1. PICK r \in Seq(Nat) : /\ InFlight = r \o InFlight' /\ released' = released \o r
                              /\ UNCHANGED <<given, returned>>
    BY <1>7 DEF Freed
  <2>2. Queues(none, returned, released, InFlight', r)
    BY <1>2 DEF Queues
  <2> HIDE DEF none
  <2>3. Line(none, returned, released, r \o InFlight') = Line(none, returned, released \o r, InFlight')
    BY <2>2, Regroup
  <2> QED
    BY Zenon, <1>1, <1>2, <1>3, <2>1, <2>3 DEF Line
<1> QED
  BY <1>4, <1>5, <1>6, <1>7, Moves

\* TypeOK needs the histories, PicturesConserved what frames carry, and
\* neither says anything of what went before a null pointer was followed.
PicturesInv ==
  /\ HistoryType
  /\ call.pc # "dead" => CarriesInv /\ PicturesConserved

LEMMA InitPictures == Init => PicturesInv
<1> SUFFICES ASSUME Init PROVE PicturesInv
  OBVIOUS
<1>1. HistoryType
  BY EmptySeq DEF Init, HistoryType
<1>2. CarriesInv
  BY EmptySeq DEF Init, CarriesInv, NoThread, Failure
<1>3. PicturesConserved
  <2>1. Failure("OK") \in FrameType /\ Failure("OK").kind # "picture"
    BY FrameTypes DEF Failure
  <2>2. Pictures(<<Failure("OK")>>) = <<>> /\ Pictures(<<>>) = <<>>
    BY <2>1, PicturesOfOne
  <2>3. InFlight = <<>> \o <<>> \o <<>> \o <<>>
    BY <2>2 DEF Init, InFlight, NoThread, Empty
  <2>4. <<>> \o <<>> = <<>>
    BY EmptySeq, ConcatEmptySeq
  <2>5. given = <<>> /\ returned = <<>> /\ released = <<>>
    BY DEF Init
  <2> QED
    BY Zenon, <2>3, <2>4, <2>5 DEF PicturesConserved
<1> QED
  BY <1>1, <1>2, <1>3 DEF PicturesInv

LEMMA StepPictures == Inv /\ PicturesInv /\ [Next]_vars => PicturesInv'
  BY StepHistoryType, StepCarries, StepConserved, DeadStays DEF PicturesInv, Inv

\* Every state has histories of the right type, and until a null pointer is
\* followed frames carry pictures only where the code looks for them and no
\* picture is missing.
THEOREM PicturesInvariance == Spec => []PicturesInv
  BY InitPictures, StepPictures, Invariance, PTL DEF Spec

\* The type invariant, for queues of any length: both queues hold well-formed
\* frames, and close leaves nothing but NULL where it has freed.
THEOREM TypeCorrect == Spec => []TypeOK
<1>1. Inv /\ PicturesInv => TypeOK
  BY DEF Inv, WorkType, PicturesInv, TypeOK
<1> QED
  BY <1>1, Invariance, PicturesInvariance, PTL

\* Every picture handed to aatagefright_encoder_encode and queued is with the
\* caller, released by close, or in one place on its way, in the order of the
\* calls, however the calls, the encoder thread and close interleave
\* (astagefright_264enc_ics.cpp:300-434, 449-507, 533-620).
THEOREM PicturesConservedSafe == Spec => []PicturesConserved
<1>1. PicturesInv => PicturesConserved
  BY DEF PicturesInv, PicturesConserved
<1> QED
  BY <1>1, PicturesInvariance, PTL

-----------------------------------------------------------------------------
(* The wrapper is an encoder that delays                                   *)

\* What the abstract encoder holds.
AbstractHeld == IF IsOpen THEN InFlight ELSE <<>>

\* An encoder that is closed stays closed, and returns nothing.
LEMMA ClosedStays ==
  ASSUME WorkType, [Next]_vars
  PROVE  /\ ~IsOpen => ~IsOpen'
         /\ ~IsOpen' => UNCHANGED returned
<1> USE DEF WorkType, CallType, IsOpen
<1>1. CASE FrameCall \/ FlushCall \/ PushTest \/ Push \/ OutEmpty
  BY <1>1 DEF FrameCall, FlushCall, PushTest, Push, OutEmpty, Return, history
<1>2. CASE Deliver
  BY <1>2 DEF Deliver, Return, Die
<1>3. CASE CloseCall \/ Closing
  BY <1>3 DEF CloseCall, Closing, CloseDrain, CloseStatus, CloseEos, CloseForget, CloseJoin, CloseFree, Die,
     history
<1>4. CASE EncoderThread
  BY <1>4 DEF EncoderThread, EtAlloc, EtForget, SourceRead, EtHeader, EtPicture, EtEnd, EtPush, EtTest,
     EtExit, Die, history
<1>5. CASE UNCHANGED vars
  BY <1>5 DEF vars, history
<1> QED
  BY <1>1, <1>2, <1>3, <1>4, <1>5 DEF Next, Caller, InCall

\* A step of the wrapper is a step of the encoder, or none.
LEMMA StepEncoder ==
  Inv /\ PicturesInv /\ [Next]_vars => [Abstract!Next]_(Abstract!vars)
<1> SUFFICES ASSUME Inv, PicturesInv, [Next]_vars
             PROVE  Abstract!Next \/ UNCHANGED <<IsOpen, AbstractHeld, returned>>
  BY DEF Abstract!vars, AbstractHeld
<1>1. WorkType /\ HistoryType
  BY DEF Inv, PicturesInv
<1>2. (~IsOpen => ~IsOpen') /\ (~IsOpen' => UNCHANGED returned)
  BY <1>1, ClosedStays
<1>3. CASE ~IsOpen
  <2>1. ~IsOpen' /\ UNCHANGED returned /\ AbstractHeld = <<>> /\ AbstractHeld' = <<>>
    BY <1>2, <1>3 DEF AbstractHeld
  <2>2. UNCHANGED IsOpen
    BY <1>3, <2>1 DEF IsOpen
  <2> QED
    BY <2>1, <2>2
<1>4. CASE IsOpen /\ ~IsOpen'
  <2>1. AbstractHeld' = <<>> /\ UNCHANGED returned
    BY <1>2, <1>4 DEF AbstractHeld
  <2>2. IsOpen' = FALSE
    BY <1>4 DEF IsOpen
  <2> QED
    BY <1>4, <2>1, <2>2 DEF Abstract!Next, Abstract!Close, AbstractHeld
<1>5. CASE IsOpen /\ IsOpen'
  <2>1. /\ AbstractHeld = InFlight /\ AbstractHeld' = InFlight'
        /\ UNCHANGED IsOpen /\ CarriesInv /\ call'.pc # "dead" /\ call.pc # "dead"
        /\ call.pc \notin {"close_drain", "close_free"}
    BY <1>5 DEF AbstractHeld, PicturesInv, IsOpen
  <2>2. InFlight \in Seq(Nat) /\ InFlight' \in Seq(Nat)
    <3>1. WorkType'
      BY StepWorkType DEF Inv
    <3> QED
      BY <1>1, <3>1, FlightTypes, FlightTypeNext DEF FlightType
  <2>3. CASE Rests
    BY <2>1, <2>3 DEF Rests
  <2>4. CASE Joins
    <3>1. call.pic \in 1..MaxFrames /\ call.pic \in Nat
      BY <2>4 DEF Joins
    <3>2. Carried(Picture(call.pic)) = <<call.pic>>
      BY <3>1, FrameTypes, CarriedType DEF Picture
    <3>3. InFlight' = InFlight \o Carried(Picture(call.pic)) /\ UNCHANGED returned
      BY <2>4 DEF Joins
    <3>4. InFlight' = InFlight \o <<call.pic>>
      BY Zenon, <3>2, <3>3
    <3>5. InFlight' = Append(InFlight, call.pic)
      BY <2>2, <3>1, <3>4, AppendIsConcat
    <3>6. \E p \in 1..MaxFrames : AbstractHeld' = Append(AbstractHeld, p)
      BY <2>1, <3>1, <3>5
    <3> QED
      BY <1>5, <2>1, <3>3, <3>6 DEF Abstract!Next, Abstract!Take, AbstractHeld
  <2>5. CASE Leaves
    <3>1. PICK f \in FrameType :
             /\ InFlight = Carried(f) \o InFlight'
             /\ IF f.kind = "picture" THEN returned' = Append(returned, f.pic) ELSE UNCHANGED returned
      BY <2>5 DEF Leaves
    <3>2. CASE f.kind = "picture"
      <4>1. Carried(f) = <<f.pic>> /\ f.pic \in Nat
        BY <3>2, CarriedType DEF FrameType
      <4>2. InFlight = <<f.pic>> \o InFlight'
        BY Zenon, <3>1, <4>1
      <4>3. InFlight # <<>> /\ Head(InFlight) = f.pic /\ Tail(InFlight) = InFlight'
        BY <2>2, <4>1, <4>2, HeadTailOfConcat
      <4> QED
        BY <1>5, <2>1, <3>1, <3>2, <4>3 DEF Abstract!Next, Abstract!Give, AbstractHeld
    <3>3. CASE f.kind # "picture"
      <4>1. Carried(f) = <<>>
        BY <3>3, CarriedType
      <4>2. <<>> \o InFlight' = InFlight'
        BY <2>2, ConcatEmptySeq
      <4>3. InFlight = InFlight'
        BY Zenon, <3>1, <4>1, <4>2
      <4> QED
        BY <2>1, <3>1, <3>3, <4>3
    <3> QED
      BY <3>2, <3>3
  <2> QED
    BY <2>1, <2>3, <2>4, <2>5, <1>1, Moves
<1> QED
  BY <1>2, <1>3, <1>4, <1>5

LEMMA InitEncoder == Init => Abstract!Init
<1> SUFFICES ASSUME Init PROVE IsOpen = TRUE /\ AbstractHeld = <<>> /\ returned = <<>>
  BY DEF Abstract!Init, AbstractHeld
<1>1. Failure("OK") \in FrameType /\ Failure("OK").kind # "picture"
  BY FrameTypes DEF Failure
<1>2. Pictures(<<Failure("OK")>>) = <<>> /\ Pictures(<<>>) = <<>>
  BY <1>1, PicturesOfOne
<1>3. InFlight = <<>> \o <<>> \o <<>> \o <<>>
  BY <1>2 DEF Init, InFlight, NoThread, Empty
<1>4. <<>> \o <<>> = <<>>
  BY EmptySeq, ConcatEmptySeq
<1>5. InFlight = <<>>
  BY Zenon, <1>3, <1>4
<1> QED
  BY <1>5 DEF Init, IsOpen, AbstractHeld

\* The wrapper does what libavcodec expects of an encoder with delay: it takes
\* pictures, returns each of them once and in order, and drops what it holds only
\* when it is closed.
THEOREM WrapperDelays == Spec => WrapperIsEncoder
  BY InitEncoder, StepEncoder, Invariance, PicturesInvariance, PTL DEF Spec, WrapperIsEncoder, Abstract!Spec
=============================================================================
