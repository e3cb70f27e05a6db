-------------------------- MODULE TranscoderProofs --------------------------
(***************************************************************************)
(* Proofs about Transcoder, for any set of jobs: the type invariant, that  *)
(* copied streams are complete and in order, that two inputs are read in   *)
(* step, and that the clock of a stream runs on where two inputs join.     *)
(***************************************************************************)
EXTENDS Transcoder, TLAPS

JobOK == job \in Jobs

-----------------------------------------------------------------------------
(* Jobs and packets                                                        *)

LEMMA JobFacts ==
  ASSUME JobOK
  PROVE  /\ job.getjpeg \in BOOLEAN /\ job.coarse \in BOOLEAN /\ job.discont \in BOOLEAN
         /\ job.length \in Int /\ job.delay \in Nat /\ job.start \in Int
         /\ job.times \in Seq(Nat) /\ Requests \in Nat
         /\ \A k \in 1..Requests : job.times[k] \in Nat
         /\ \A f \in Files : f \in Nat /\ f # 0 /\ job.offset[f] \in Int
         /\ \A s \in Streams : /\ s \in Nat /\ s # 0 /\ job.fileOf[s] \in Files
                               /\ job.duration[s] \in Nat
         /\ job.offset \in [Files -> Int]
         /\ job.getjpeg => Files = {1} /\ Streams = {1}
<1>1. IsJob(job)
  BY JobsAssumption DEF JobOK
<1>2. Files = 1..Len(job.input) /\ Streams = 1..Len(job.fileOf)
  BY <1>1 DEF IsJob, Files, Streams
<1>3. \A s \in Streams : job.fileOf[s] \in Files
  <2>1. job.fileOf \in Seq(Files)
    BY <1>1 DEF IsJob, Files
  <2> QED
    BY <1>2, <2>1
<1>4. Requests \in Nat /\ \A k \in 1..Requests : job.times[k] \in Nat
  <2>1. job.times \in Seq(Nat)
    BY <1>1 DEF IsJob
  <2> QED
    BY <2>1 DEF Requests
<1>5. job.getjpeg => Files = {1} /\ Streams = {1}
  <2>1. job.getjpeg => Files = 1..1 /\ Streams = 1..1
    BY <1>1, <1>2 DEF IsJob
  <2>2. 1..1 = {1}
    OBVIOUS
  <2> QED
    BY <2>1, <2>2
<1>6. Len(job.input) \in Nat /\ Len(job.fileOf) \in Nat
  BY <1>1 DEF IsJob
<1>7. /\ \A f \in Files : f \in Nat /\ f # 0
      /\ \A s \in Streams : s \in Nat /\ s # 0
  BY <1>2, <1>6
<1>8. /\ \A f \in Files : job.offset[f] \in Int
      /\ \A s \in Streams : job.duration[s] \in Nat
      /\ job.offset \in [Files -> Int]
  BY <1>1 DEF IsJob, Files, Streams
<1> QED
  BY <1>1, <1>3, <1>4, <1>5, <1>7, <1>8 DEF IsJob

LEMMA PacketFacts ==
  ASSUME JobOK, NEW f \in Files
  PROVE  /\ Len(job.input[f]) \in Nat /\ DOMAIN job.input[f] = 1..Len(job.input[f])
         /\ \A n \in 1..Len(job.input[f]) :
              LET p == job.input[f][n]
              IN  /\ p.time \in Int /\ p.key \in BOOLEAN
                  /\ p.ost = 0 \/ (p.ost \in Streams /\ job.fileOf[p.ost] = f)
<1>1. IsJob(job)
  BY JobsAssumption DEF JobOK
<1>2. job.input[f] \in Seq(Packet(Len(job.fileOf))) /\ Streams = 1..Len(job.fileOf)
  BY <1>1 DEF IsJob, Files, Streams
<1>3. \A n \in 1..Len(job.input[f]) : job.input[f][n] \in Packet(Len(job.fileOf))
  BY <1>2
<1>4. Len(job.fileOf) \in Nat
  BY <1>1 DEF IsJob
<1>5. ASSUME NEW n \in 1..Len(job.input[f])
      PROVE  LET p == job.input[f][n]
             IN  /\ p.time \in Int /\ p.key \in BOOLEAN
                 /\ p.ost = 0 \/ (p.ost \in Streams /\ job.fileOf[p.ost] = f)
  <2>1. job.input[f][n] \in [ost : 0..Len(job.fileOf), time : Int, key : BOOLEAN]
    BY <1>3, <1>5 DEF Packet
  <2>2. job.input[f][n].ost # 0 => job.fileOf[job.input[f][n].ost] = f
    BY <1>1, <1>2, <1>5 DEF IsJob, Files
  <2> QED
    BY <2>1, <2>2, <1>2, <1>4
<1> QED
  BY <1>2, <1>5

-----------------------------------------------------------------------------
(* Types                                                                   *)

LEMMA NextKeepsJob ==
  ASSUME [Next]_vars
  PROVE  job' = job
<1>1. CASE Loop
  BY <1>1 DEF Loop, Select, Retry, LeaveLoop, SeekForPicture, LeaveServed, ReadAgain,
     EndOfFile, Discard, CopyPacket, WriteFails, DecodeFails, DecodeNothing,
     DecodePicture, FlushPicture, FlushEnd, Consume
<1>2. CASE Stop
  BY <1>2 DEF Stop
<1>3. CASE UNCHANGED vars
  BY <1>3 DEF vars
<1> QED
  BY <1>1, <1>2, <1>3 DEF Next

LEMMA QueueFacts ==
  ASSUME NEW T, NEW q \in Seq(T)
  PROVE  /\ q # <<>> => /\ Head(q) \in T /\ Tail(q) \in Seq(T)
                        /\ Len(q) \in Nat /\ Len(Tail(q)) = Len(q) - 1
         /\ \A e \in T : /\ Append(q, e) \in Seq(T) /\ Append(q, e) # <<>>
                         /\ Len(Append(q, e)) = Len(q) + 1 /\ Len(q) \in Nat
  OBVIOUS

LEMMA ElementFacts ==
  ASSUME NEW T, NEW q \in Seq(T)
  PROVE  /\ \A k \in 1..Len(q) : q[k] \in T
         /\ q # <<>> => /\ Len(q) \in 1..Len(q)
                        /\ Len(q) # 1 => Len(q) - 1 \in 1..Len(q)
<1>1. \A k \in 1..Len(q) : q[k] \in T
  OBVIOUS
<1>2. q # <<>> => Len(q) \in Nat /\ Len(q) # 0
  OBVIOUS
<1>3. \A l \in Nat : l # 0 => l \in 1..l /\ (l # 1 => l - 1 \in 1..l)
  OBVIOUS
<1> QED
  BY <1>1, <1>2, <1>3

LEMMA InitTypes == Init => JobOK /\ TypeOK
<1> SUFFICES ASSUME Init PROVE JobOK /\ TypeOK
  OBVIOUS
<1>1. JobOK
  BY DEF Init, JobOK
<1>2. MaxAgain \in Nat
  BY BoundsAssumption
<1>3. job.offset \in [Files -> Int] /\ job.delay \in Nat /\ Requests \in Nat
  BY <1>1, JobFacts
<1>4. /\ pos \in [Files -> Nat \ {0}]
      /\ eof_reached \in [Files -> BOOLEAN] /\ no_packet \in [Files -> BOOLEAN]
      /\ pts \in [Streams -> Int] /\ next_pts \in [Streams -> Int \cup {NoTime}]
      /\ is_past \in [Streams -> BOOLEAN]
  BY <1>2 DEF Init
<1>5. /\ out \in [Streams -> Seq([n : Nat \ {0}, dts : Int])]
      /\ decoder \in Seq([n : Nat \ {0}, time : Int])
      /\ images \in Seq([n : Nat \ {0}, last : BOOLEAN])
      /\ Len(decoder) = 0 /\ Len(images) = 0
  BY DEF Init
<1>6. /\ jpeg_idx \in 1..(Requests + 1) /\ Len(images) = jpeg_idx - 1
      /\ Len(decoder) <= job.delay
  BY <1>3, <1>5 DEF Init
<1>7. /\ pc = "select" /\ file = 0 /\ ts_offset \in [Files -> Int]
      /\ again \in 0..MaxAgain
  BY <1>2, <1>3 DEF Init
<1>8. /\ g_need_seek \in BOOLEAN /\ received_sigterm \in BOOLEAN
      /\ failed \subseteq Nat \ {0}
  BY DEF Init
<1> QED
  BY <1>1, <1>4, <1>5, <1>6, <1>7, <1>8 DEF TypeOK

\* The packet that is read, and the time it is given.
LEMMA ReadFacts ==
  ASSUME JobOK, TypeOK, NEW s \in Streams, Finds(s)
  PROVE  /\ file \in Files /\ pos[file] \in Nat \ {0}
         /\ pos[file] \in 1..Len(job.input[file])
         /\ Dts \in Int /\ Stamp(s) \in Int /\ Offset(s) \in Int
         /\ job.fileOf[s] = file
<1>1. file \in Files /\ pos[file] \in Nat \ {0} /\ ts_offset[file] \in Int
  BY DEF TypeOK, Finds, Reads
<1>2. pos[file] \in 1..Len(job.input[file])
  BY <1>1, PacketFacts DEF Finds
<1>3. job.input[file][pos[file]].time \in Int /\ job.fileOf[s] = file
  BY <1>1, <1>2, PacketFacts, JobFacts DEF Finds
<1>4. Dts \in Int /\ (next_pts[s] # NoTime => next_pts[s] \in Int)
  <2>1. next_pts[s] # NoTime => next_pts[s] \in Int
    BY DEF TypeOK
  <2> QED
    BY <1>1, <1>3, <2>1 DEF Dts
<1>5. Discontinuity(s) \in Int
  BY <1>4 DEF Discontinuity
<1> QED
  BY <1>1, <1>2, <1>3, <1>4, <1>5 DEF Stamp, Offset

LEMMA OfferTypes ==
  ASSUME JobOK, TypeOK, NEW picture \in [n : Nat \ {0}, time : Int],
         NEW offset \in Int, NEW last \in BOOLEAN,
         Offer(picture, offset, last)
  PROVE  /\ images' \in Seq([n : Nat \ {0}, last : BOOLEAN])
         /\ jpeg_idx' \in 1..(Requests + 1)
         /\ Len(images') = jpeg_idx' - 1
         /\ g_need_seek' \in BOOLEAN
<1>1. Requests \in Nat
  BY JobFacts
<1>2. CASE Serves(picture, offset)
  <2>1. jpeg_idx \in 1..Requests
    BY <1>1, <1>2 DEF Serves, TypeOK
  <2>2. [n |-> picture.n, last |-> last] \in [n : Nat \ {0}, last : BOOLEAN]
    OBVIOUS
  <2>3. /\ images' = Append(images, [n |-> picture.n, last |-> last])
        /\ jpeg_idx' = jpeg_idx + 1
        /\ g_need_seek' \in BOOLEAN
    BY <1>2 DEF Offer
  <2> QED
    BY <1>1, <2>1, <2>2, <2>3 DEF TypeOK
<1>3. CASE ~Serves(picture, offset)
  BY <1>3 DEF Offer, TypeOK
<1> QED
  BY <1>2, <1>3

LEMMA FedFacts ==
  ASSUME JobOK, TypeOK, NEW s \in Streams, Finds(s)
  PROVE  /\ Fed(s) \in Seq([n : Nat \ {0}, time : Int])
         /\ Len(Fed(s)) = Len(decoder) + 1
         /\ Head(Fed(s)) \in [n : Nat \ {0}, time : Int]
         /\ Tail(Fed(s)) \in Seq([n : Nat \ {0}, time : Int])
         /\ Len(Tail(Fed(s))) = Len(decoder)
<1>1. [n |-> pos[file], time |-> Stamp(s)] \in [n : Nat \ {0}, time : Int]
  BY ReadFacts
<1>2. decoder \in Seq([n : Nat \ {0}, time : Int]) /\ Len(decoder) \in Nat
  BY DEF TypeOK
<1>3. /\ Fed(s) \in Seq([n : Nat \ {0}, time : Int]) /\ Fed(s) # <<>>
      /\ Len(Fed(s)) = Len(decoder) + 1
  <2>1. Fed(s) = Append(decoder, [n |-> pos[file], time |-> Stamp(s)])
    BY DEF Fed
  <2> QED
    BY <1>1, <1>2, <2>1, QueueFacts
<1>4. /\ Head(Fed(s)) \in [n : Nat \ {0}, time : Int]
      /\ Tail(Fed(s)) \in Seq([n : Nat \ {0}, time : Int])
      /\ Len(Tail(Fed(s))) = Len(Fed(s)) - 1
  BY <1>3, QueueFacts
<1> QED
  BY <1>2, <1>3, <1>4

LEMMA ConsumeTypes ==
  ASSUME JobOK, TypeOK, NEW s \in Streams \cup {0}, Finds(s), Consume
  PROVE  /\ pos' \in [Files -> Nat \ {0}] /\ no_packet' \in [Files -> BOOLEAN]
         /\ pc' = "select"
         /\ UNCHANGED <<job, file, eof_reached, again, received_sigterm>>
<1>1. file \in Files /\ pos \in [Files -> Nat \ {0}]
  BY DEF TypeOK, Finds, Reads
<1> QED
  BY <1>1 DEF Consume, Files

LEMMA NextTypes ==
  ASSUME JobOK, TypeOK, [Next]_vars
  PROVE  JobOK' /\ TypeOK'
<1> USE DEF reading, clocks, copying, pictures
<1>1. job' = job
  BY NextKeepsJob
<1>2. JobOK' /\ Files' = Files /\ Streams' = Streams /\ Requests' = Requests
  BY <1>1 DEF JobOK, Files, Streams, Requests
<1>3. CASE Select
  BY <1>1, <1>2, <1>3, JobFacts DEF Select, TypeOK
<1>4. CASE Retry
  BY <1>1, <1>2, <1>4 DEF Retry, TypeOK
<1>5. CASE LeaveLoop
  BY <1>1, <1>2, <1>5 DEF LeaveLoop, TypeOK
<1>6. CASE SeekForPicture
  <2>1. file \in Files
    BY <1>6 DEF SeekForPicture, TypeOK
  <2>2. Len(job.input[file]) \in Nat
    BY <2>1, PacketFacts
  <2>3. pos' \in [Files -> Nat \ {0}]
    <3>1. pos' = pos \/ \E n \in 1..(Len(job.input[file]) + 1) : pos' = [pos EXCEPT ![file] = n]
      BY <1>6 DEF SeekForPicture
    <3> QED
      BY <2>1, <2>2, <3>1 DEF TypeOK
  <2>4. /\ decoder' \in Seq([n : Nat \ {0}, time : Int]) /\ Len(decoder') <= job.delay
        /\ g_need_seek' \in BOOLEAN
    <3>1. decoder' = <<>> \/ decoder' = decoder
      BY <1>6 DEF SeekForPicture
    <3>2. job.delay \in Nat /\ Len(<<>>) = 0
      BY JobFacts
    <3>4. <<>> \in Seq([n : Nat \ {0}, time : Int])
      OBVIOUS
    <3>3. g_need_seek' \in BOOLEAN
      BY <1>6 DEF SeekForPicture, TypeOK
    <3>5. decoder \in Seq([n : Nat \ {0}, time : Int]) /\ Len(decoder) <= job.delay
      BY DEF TypeOK
    <3>6. CASE decoder' = <<>>
      BY <3>2, <3>3, <3>4, <3>6
    <3>7. CASE decoder' = decoder
      BY <3>3, <3>5, <3>7
    <3> QED
      BY <3>1, <3>6, <3>7
  <2> QED
    BY <1>1, <1>2, <1>6, <2>1, <2>3, <2>4 DEF SeekForPicture, TypeOK
<1>7. CASE LeaveServed
  BY <1>1, <1>2, <1>7 DEF LeaveServed, TypeOK
<1>8. CASE ReadAgain
  BY <1>1, <1>2, <1>8, BoundsAssumption DEF ReadAgain, Reads, TypeOK
<1>9. CASE EndOfFile
  BY <1>1, <1>2, <1>9 DEF EndOfFile, Reads, TypeOK
<1>10. CASE Discard
  BY <1>1, <1>2, <1>10, ConsumeTypes DEF Discard, TypeOK
<1>11. ASSUME NEW s \in Streams, CopyPacket(s)
       PROVE  TypeOK'
  <2>1. Finds(s) /\ Consume /\ Realign(s)
    BY <1>11 DEF CopyPacket
  <2>2. ts_offset' \in [Files -> Int]
    BY <2>1, ReadFacts DEF Realign, TypeOK
  <2>3. pts' \in [Streams -> Int] /\ next_pts' \in [Streams -> Int \cup {NoTime}]
    <3>1. Stamp(s) \in Int /\ job.duration[s] \in Nat
      BY <2>1, ReadFacts, JobFacts
    <3>2. Stamp(s) + job.duration[s] \in Int
      BY <3>1
    <3>3. pts \in [Streams -> Int] /\ next_pts \in [Streams -> Int \cup {NoTime}]
      BY DEF TypeOK
    <3> QED
      BY <1>11, <3>1, <3>2, <3>3 DEF CopyPacket
  <2>4. is_past' \in [Streams -> BOOLEAN]
    BY <1>11 DEF CopyPacket, Past, TooLate, TypeOK
  <2>5. out' \in [Streams -> Seq([n : Nat \ {0}, dts : Int])]
    <3>1. [n |-> pos[file], dts |-> Stamp(s)] \in [n : Nat \ {0}, dts : Int]
      BY <2>1, ReadFacts
    <3>2. out[s] \in Seq([n : Nat \ {0}, dts : Int])
      BY DEF TypeOK
    <3>3. Append(out[s], [n |-> pos[file], dts |-> Stamp(s)])
            \in Seq([n : Nat \ {0}, dts : Int])
      BY <3>1, <3>2
    <3> QED
      BY <1>11, <3>3 DEF CopyPacket, TypeOK
  <2> QED
    BY <1>1, <1>2, <1>11, <2>1, <2>2, <2>3, <2>4, <2>5, ConsumeTypes DEF CopyPacket, TypeOK
<1>12. ASSUME NEW s \in Streams, WriteFails(s)
       PROVE  TypeOK'
  BY <1>1, <1>2, <1>12 DEF WriteFails, TypeOK
<1>13. ASSUME NEW s \in Streams, DecodeFails(s)
       PROVE  TypeOK'
  <2>1. Finds(s) /\ Consume /\ Realign(s) /\ Wait(s)
    BY <1>13 DEF DecodeFails
  <2>2. ts_offset' \in [Files -> Int] /\ failed' \subseteq Nat \ {0}
    <3>1. ts_offset \in [Files -> Int] /\ failed \subseteq Nat \ {0}
      BY DEF TypeOK
    <3> QED
      BY <1>13, <2>1, <3>1, ReadFacts DEF DecodeFails, Realign
  <2>3. pts' \in [Streams -> Int] /\ next_pts' \in [Streams -> Int \cup {NoTime}]
    BY <2>1 DEF Wait, Expected, TypeOK
  <2> QED
    BY <1>1, <1>2, <1>13, <2>1, <2>2, <2>3, ConsumeTypes DEF DecodeFails, TypeOK
<1>14. ASSUME NEW s \in Streams, DecodeNothing(s)
       PROVE  TypeOK'
  <2>1. Finds(s) /\ Consume /\ Realign(s) /\ Wait(s)
    BY <1>14 DEF DecodeNothing
  <2>2. ts_offset' \in [Files -> Int]
    BY <2>1, ReadFacts DEF Realign, TypeOK
  <2>3. pts' \in [Streams -> Int] /\ next_pts' \in [Streams -> Int \cup {NoTime}]
    BY <2>1 DEF Wait, Expected, TypeOK
  <2>4. decoder' \in Seq([n : Nat \ {0}, time : Int]) /\ Len(decoder') <= job.delay
    <3>1. Len(decoder) \in Nat /\ job.delay \in Nat
      BY JobFacts DEF TypeOK
    <3> QED
      BY <1>14, <2>1, <3>1, FedFacts DEF DecodeNothing
  <2> QED
    BY <1>1, <1>2, <1>14, <2>1, <2>2, <2>3, <2>4, ConsumeTypes DEF DecodeNothing, TypeOK
<1>15. ASSUME NEW s \in Streams, DecodePicture(s)
       PROVE  TypeOK'
  <2> DEFINE picture == Head(Fed(s))
  <2>1. Finds(s) /\ Consume /\ Realign(s) /\ Offer(picture, Offset(s), FALSE)
    BY <1>15 DEF DecodePicture
  <2>2. ts_offset' \in [Files -> Int]
    BY <2>1, ReadFacts DEF Realign, TypeOK
  <2>3. picture \in [n : Nat \ {0}, time : Int] /\ Offset(s) \in Int
    BY <2>1, FedFacts, ReadFacts
  <2>4. pts' \in [Streams -> Int] /\ next_pts' \in [Streams -> Int \cup {NoTime}]
    <3>1. picture.time \in Int /\ job.duration[s] \in Int
      BY <2>3, JobFacts
    <3>2. /\ pts' = [pts EXCEPT ![s] = picture.time]
          /\ next_pts' = [next_pts EXCEPT ![s] = picture.time + job.duration[s]]
      BY <1>15 DEF DecodePicture
    <3> QED
      BY <3>1, <3>2 DEF TypeOK
  <2>5. decoder' \in Seq([n : Nat \ {0}, time : Int]) /\ Len(decoder') <= job.delay
    BY <1>15, <2>1, FedFacts DEF DecodePicture, TypeOK
  <2>6. /\ images' \in Seq([n : Nat \ {0}, last : BOOLEAN])
        /\ jpeg_idx' \in 1..(Requests + 1)
        /\ Len(images') = jpeg_idx' - 1
        /\ g_need_seek' \in BOOLEAN
    BY <2>1, <2>3, OfferTypes
  <2> QED
    BY <1>1, <1>2, <1>15, <2>1, <2>2, <2>4, <2>5, <2>6, ConsumeTypes DEF DecodePicture, TypeOK
<1>16. CASE FlushPicture
  <2> DEFINE picture == Head(decoder)
  <2>1. Offer(picture, ts_offset[1], TRUE) /\ decoder # <<>> /\ job.getjpeg
    BY <1>16 DEF FlushPicture, Flushable
  <2>2. 1 \in Files /\ 1 \in Streams /\ ts_offset[1] \in Int /\ job.duration[1] \in Int
    <3>1. 1 \in Files /\ 1 \in Streams
      BY <2>1, JobFacts
    <3>2. ts_offset[1] \in Int
      BY <3>1 DEF TypeOK
    <3> QED
      BY <3>1, <3>2, JobFacts
  <2>3. picture \in [n : Nat \ {0}, time : Int]
    <3>1. decoder \in Seq([n : Nat \ {0}, time : Int])
      BY DEF TypeOK
    <3> QED
      BY <2>1, <3>1, QueueFacts
  <2>4. pts' \in [Streams -> Int] /\ next_pts' \in [Streams -> Int \cup {NoTime}]
    <3>1. picture.time \in Int /\ picture.time + job.duration[1] \in Int
      BY <2>2, <2>3
    <3>2. pts \in [Streams -> Int] /\ next_pts \in [Streams -> Int \cup {NoTime}]
      BY DEF TypeOK
    <3> QED
      BY <1>16, <3>1, <3>2 DEF FlushPicture
  <2>5. decoder' \in Seq([n : Nat \ {0}, time : Int]) /\ Len(decoder') <= job.delay
    <3>1. job.delay \in Nat
      BY JobFacts
    <3> QED
      BY <1>16, <2>1, <3>1 DEF FlushPicture, TypeOK
  <2>6. /\ images' \in Seq([n : Nat \ {0}, last : BOOLEAN])
        /\ jpeg_idx' \in 1..(Requests + 1)
        /\ Len(images') = jpeg_idx' - 1
        /\ g_need_seek' \in BOOLEAN
    BY <2>1, <2>2, <2>3, OfferTypes
  <2> QED
    BY <1>1, <1>2, <1>16, <2>2, <2>4, <2>5, <2>6 DEF FlushPicture, TypeOK
<1>17. CASE FlushEnd
  BY <1>1, <1>2, <1>17 DEF FlushEnd, TypeOK
<1>18. CASE Stop
  BY <1>1, <1>2, <1>18 DEF Stop, TypeOK
<1>19. CASE UNCHANGED vars
  BY <1>1, <1>2, <1>19 DEF vars, TypeOK
<1> QED
  BY <1>2, <1>3, <1>4, <1>5, <1>6, <1>7, <1>8, <1>9, <1>10, <1>11, <1>12, <1>13, <1>14,
     <1>15, <1>16, <1>17, <1>18, <1>19 DEF Next, Loop

-----------------------------------------------------------------------------
(* Copied streams are complete                                             *)

\* The packets of the cut that were read.
Reached(s) == {n \in Cut(s) : n < pos[job.fileOf[s]]}

CopiedOK(s) ==
  /\ {out[s][k].n : k \in DOMAIN out[s]} = Reached(s)
  /\ \A k \in DOMAIN out[s] : out[s][k].dts = Time(s, out[s][k].n)
  /\ \A k, l \in DOMAIN out[s] : k < l => out[s][k].n < out[s][l].n

\* A stream is past the recording time when a packet that late was read, and
\* the loop is left when every stream is past or its input at its end.
CopyInv ==
  ~job.getjpeg /\ ~job.discont =>
    /\ pc # "seek"
    /\ ts_offset = job.offset
    /\ \A s \in Streams : CopiedOK(s)
    /\ \A s \in Streams : is_past[s] =>
         \E n \in Feeding(s) : n < pos[job.fileOf[s]] /\ n \notin Early(s)
    /\ \A f \in Files : eof_reached[f] => pos[f] > Len(job.input[f])
    /\ pc \in {"flush", "done"} /\ ~received_sigterm =>
         \A s \in Streams : is_past[s] \/ eof_reached[job.fileOf[s]]

LEMMA CutFacts ==
  ASSUME JobOK, NEW s \in Streams
  PROVE  /\ Cut(s) \subseteq Early(s) /\ Early(s) \subseteq Feeding(s)
         /\ \A n \in Feeding(s) : /\ n \in Nat \ {0}
                                  /\ n <= Len(job.input[job.fileOf[s]])
                                  /\ Time(s, n) \in Int
                                  /\ job.input[job.fileOf[s]][n].ost = s
<1>1. job.fileOf[s] \in Files
  BY JobFacts
<1>2. /\ DOMAIN job.input[job.fileOf[s]] = 1..Len(job.input[job.fileOf[s]])
      /\ Len(job.input[job.fileOf[s]]) \in Nat
      /\ \A n \in 1..Len(job.input[job.fileOf[s]]) : job.input[job.fileOf[s]][n].time \in Int
  BY <1>1, PacketFacts
<1>3. job.offset[job.fileOf[s]] \in Int
  BY <1>1, JobFacts
<1>4. \A n \in Feeding(s) : /\ n \in 1..Len(job.input[job.fileOf[s]])
                           /\ job.input[job.fileOf[s]][n].ost = s
  BY <1>2 DEF Feeding
<1>5. \A n \in Feeding(s) : Time(s, n) \in Int /\ n \in Nat \ {0}
                           /\ n <= Len(job.input[job.fileOf[s]])
  BY <1>2, <1>3, <1>4 DEF Time
<1>6. Cut(s) \subseteq Early(s) /\ Early(s) \subseteq Feeding(s)
  BY DEF Cut, Early
<1> QED
  BY <1>4, <1>5, <1>6

\* A job's files do not change under it.
LEMMA SameJob ==
  ASSUME job' = job
  PROVE  /\ JobOK' = JobOK /\ Files' = Files /\ Streams' = Streams
         /\ \A s : /\ Feeding(s)' = Feeding(s) /\ Early(s)' = Early(s) /\ Cut(s)' = Cut(s)
                   /\ InOrder(s)' = InOrder(s)
         /\ \A s, n : Time(s, n)' = Time(s, n)
  BY DEF JobOK, Files, Streams, Feeding, Early, Cut, InOrder, Time

\* What reading a packet adds to the part of the cut that was read.
LEMMA ReachedGrows ==
  ASSUME JobOK, TypeOK, NEW t \in Streams, job' = job, file \in Files,
         pos' = [pos EXCEPT ![file] = @ + 1]
  PROVE  /\ job.fileOf[t] = file /\ pos[file] \in Cut(t) =>
              Reached(t)' = Reached(t) \cup {pos[file]}
         /\ job.fileOf[t] # file \/ pos[file] \notin Cut(t) => Reached(t)' = Reached(t)
<1>1. pos \in [Files -> Nat \ {0}] /\ job.fileOf[t] \in Files
  BY JobFacts DEF TypeOK
<1>2. Cut(t)' = Cut(t) /\ \A n \in Cut(t) : n \in Nat
  BY SameJob, CutFacts
<1>3. pos'[job.fileOf[t]] = IF job.fileOf[t] = file THEN pos[file] + 1 ELSE pos[job.fileOf[t]]
  BY <1>1
<1>4. job'.fileOf[t] = job.fileOf[t]
  OBVIOUS
<1>5. Reached(t)' = {n \in Cut(t) : n < pos'[job.fileOf[t]]}
  BY <1>2, <1>4 DEF Reached
<1>6. CASE job.fileOf[t] = file
  <2>1. \A n \in Cut(t) : n < pos[file] + 1 <=> n < pos[file] \/ n = pos[file]
    BY <1>1, <1>2
  <2>2. Reached(t)' = {n \in Cut(t) : n < pos[file] \/ n = pos[file]}
    BY <1>3, <1>5, <1>6, <2>1
  <2> QED
    BY <1>6, <2>2 DEF Reached
<1>7. CASE job.fileOf[t] # file
  BY <1>3, <1>5, <1>7 DEF Reached
<1> QED
  BY <1>6, <1>7

\* What do_streamcopy keeps is what belongs to the cut.
LEMMA KeptIsCut ==
  ASSUME JobOK, TypeOK, NEW s \in Streams, Finds(s),
         ~job.discont, ts_offset = job.offset, CopiedOK(s)
  PROVE  /\ pos[file] \in Feeding(s) /\ Stamp(s) = Time(s, pos[file])
         /\ TooLate(s) <=> pos[file] \notin Early(s)
         /\ Kept(s) <=> pos[file] \in Cut(s)
<1> DEFINE n0 == pos[file]
<1>1. file = job.fileOf[s] /\ file \in Files /\ n0 \in 1..Len(job.input[file])
  BY ReadFacts
<1>2. n0 \in Feeding(s)
  BY <1>1, PacketFacts DEF Feeding, Finds
<1>3. Stamp(s) = Time(s, n0)
  <2>1. Discontinuity(s) = 0
    BY DEF Discontinuity
  <2>2. Dts = Time(s, n0)
    BY <1>1 DEF Dts, Time
  <2>3. Time(s, n0) \in Int
    BY <1>2, CutFacts
  <2> QED
    BY <2>1, <2>2, <2>3 DEF Stamp
<1>4. TooLate(s) <=> n0 \notin Early(s)
  <2>1. job.length \in Int /\ NoLimit \in Int /\ Time(s, n0) \in Int
    BY <1>2, JobFacts, CutFacts, BoundsAssumption
  <2> QED
    BY <1>2, <1>3, <2>1 DEF TooLate, Early
<1>5. ASSUME n0 \in Early(s), out[s] # <<>>
      PROVE  n0 \in Cut(s)
  <2>1. 1 \in DOMAIN out[s]
    <3>1. out[s] \in Seq([n : Nat \ {0}, dts : Int])
      BY DEF TypeOK
    <3> QED
      BY <1>5, <3>1
  <2>2. out[s][1].n \in Reached(s)
    BY <2>1 DEF CopiedOK
  <2>3. PICK m \in Early(s) : m <= out[s][1].n /\ job.input[job.fileOf[s]][m].key
    BY <2>2 DEF Reached, Cut
  <2>4. out[s][1].n < n0 /\ out[s][1].n \in Nat /\ m \in Nat /\ n0 \in Nat
    BY <1>1, <2>2, <2>3, CutFacts DEF Reached
  <2>5. m <= n0
    BY <2>3, <2>4
  <2> QED
    BY <1>5, <2>3, <2>5 DEF Cut
<1>6. ASSUME n0 \in Cut(s), out[s] = <<>>
      PROVE  job.input[file][n0].key
  <2>1. Reached(s) = {}
    BY <1>6 DEF CopiedOK
  <2>2. PICK m \in Early(s) : m <= n0 /\ job.input[job.fileOf[s]][m].key
    BY <1>6 DEF Cut
  <2>3. m \in Cut(s)
    <3>1. m <= m
      BY <2>2, CutFacts
    <3> QED
      BY <2>2, <3>1 DEF Cut
  <2>4. ~(m < n0)
    BY <1>1, <2>1, <2>3 DEF Reached
  <2>5. m = n0
    BY <1>1, <2>2, <2>4, CutFacts
  <2> QED
    BY <1>1, <2>2, <2>5
<1>7. ASSUME n0 \in Early(s), job.input[file][n0].key
      PROVE  n0 \in Cut(s)
  <2>1. n0 <= n0
    BY <1>1
  <2> QED
    BY <1>1, <1>7, <2>1 DEF Cut
<1>8. Cut(s) \subseteq Early(s)
  BY CutFacts
<1> QED
  BY <1>2, <1>3, <1>4, <1>5, <1>6, <1>7, <1>8 DEF Kept

\* A packet put behind those that were copied.
LEMMA CopiedGrows ==
  ASSUME TypeOK, NEW s \in Streams, CopiedOK(s), NEW p \in [n : Nat \ {0}, dts : Int],
         p.dts = Time(s, p.n), \A n \in Reached(s) : n < p.n
  PROVE  LET q == Append(out[s], p)
         IN  /\ {q[k].n : k \in DOMAIN q} = Reached(s) \cup {p.n}
             /\ \A k \in DOMAIN q : q[k].dts = Time(s, q[k].n)
             /\ \A k, l \in DOMAIN q : k < l => q[k].n < q[l].n
<1> DEFINE o == out[s]
           q == Append(o, p)
<1>1. o \in Seq([n : Nat \ {0}, dts : Int])
  BY DEF TypeOK
<1>2. /\ Len(o) \in Nat /\ DOMAIN o = 1..Len(o) /\ DOMAIN q = 1..(Len(o) + 1)
      /\ \A k \in 1..Len(o) : q[k] = o[k]
      /\ q[Len(o) + 1] = p
  BY <1>1
<1>3. \A k \in DOMAIN q : k \in 1..Len(o) \/ k = Len(o) + 1
  BY <1>2
<1>4. \A k \in 1..Len(o) : /\ q[k].n \in Reached(s) /\ q[k].n < p.n
                           /\ q[k].dts = Time(s, q[k].n)
  BY <1>2 DEF CopiedOK
<1>5. {q[k].n : k \in DOMAIN q} = Reached(s) \cup {p.n}
  <2>1. {o[k].n : k \in 1..Len(o)} = Reached(s)
    BY <1>2 DEF CopiedOK
  <2>2. {q[k].n : k \in DOMAIN q} \subseteq Reached(s) \cup {p.n}
    BY <1>2, <1>3, <1>4
  <2>3. Reached(s) \subseteq {q[k].n : k \in DOMAIN q}
    <3>1. {o[k].n : k \in 1..Len(o)} \subseteq {q[k].n : k \in 1..Len(o)}
      BY <1>2
    <3>2. 1..Len(o) \subseteq DOMAIN q
      BY <1>2
    <3> QED
      BY <2>1, <3>1, <3>2
  <2>4. p.n \in {q[k].n : k \in DOMAIN q}
    <3>1. Len(o) + 1 \in DOMAIN q
      BY <1>2
    <3> QED
      BY <1>2, <3>1
  <2> QED
    BY <2>2, <2>3, <2>4
<1>6. \A k \in DOMAIN q : q[k].dts = Time(s, q[k].n)
  BY <1>2, <1>3, <1>4
<1>7. ASSUME NEW k \in DOMAIN q, NEW l \in DOMAIN q, k < l
      PROVE  q[k].n < q[l].n
  <2>1. k \in 1..Len(o)
    BY <1>2, <1>7
  <2>2. CASE l \in 1..Len(o)
    BY <1>2, <1>7, <2>1, <2>2 DEF CopiedOK
  <2>3. CASE l = Len(o) + 1
    BY <1>2, <1>4, <2>1, <2>3
  <2> QED
    BY <1>3, <2>2, <2>3
<1> QED
  BY <1>5, <1>6, <1>7

LEMMA CopyKeeps ==
  ASSUME JobOK, TypeOK, CopyInv, ~job.getjpeg, ~job.discont, job' = job,
         NEW s \in Streams, CopyPacket(s)
  PROVE  \A t \in Streams : CopiedOK(t)'
<1> DEFINE n0 == pos[file]
<1>1. Finds(s) /\ Consume
  BY DEF CopyPacket
<1>2. /\ file \in Files /\ job.fileOf[s] = file /\ n0 \in Nat \ {0} /\ Stamp(s) \in Int
      /\ pos' = [pos EXCEPT ![file] = @ + 1]
  BY <1>1, ReadFacts DEF Consume
<1>3. /\ n0 \in Feeding(s) /\ Stamp(s) = Time(s, n0)
      /\ Kept(s) <=> n0 \in Cut(s)
  BY <1>1, KeptIsCut DEF CopyInv
<1>4. out \in [Streams -> Seq([n : Nat \ {0}, dts : Int])] /\ Streams' = Streams
  BY SameJob DEF TypeOK
<1>5. ASSUME NEW t \in Streams, out'[t] = out[t], Reached(t)' = Reached(t)
      PROVE  CopiedOK(t)'
  BY <1>5, SameJob DEF CopiedOK, CopyInv
<1>6. ASSUME NEW t \in Streams, t # s
      PROVE  CopiedOK(t)'
  <2>1. out'[t] = out[t]
    BY <1>4, <1>6 DEF CopyPacket
  <2>2. job.fileOf[t] # file \/ n0 \notin Cut(t)
    <3>1. job.input[file][n0].ost = s
      BY <1>1 DEF Finds
    <3> QED
      BY <1>6, <3>1, CutFacts
  <2> QED
    BY <1>2, <1>5, <2>1, <2>2, ReachedGrows
<1>7. CASE ~Kept(s)
  <2>1. out'[s] = out[s] /\ Reached(s)' = Reached(s)
    BY <1>2, <1>3, <1>7, ReachedGrows DEF CopyPacket
  <2> QED
    BY <1>5, <1>6, <2>1
<1>8. CASE Kept(s)
  <2> DEFINE p == [n |-> n0, dts |-> Stamp(s)]
             q == Append(out[s], p)
  <2>1. out'[s] = q
    BY <1>4, <1>8 DEF CopyPacket
  <2>2. Reached(s)' = Reached(s) \cup {n0}
    BY <1>2, <1>3, <1>8, ReachedGrows
  <2>3. p \in [n : Nat \ {0}, dts : Int] /\ p.n = n0 /\ p.dts = Time(s, p.n)
    BY <1>2, <1>3
  <2>4. \A n \in Reached(s) : n < p.n
    BY <1>2 DEF Reached
  <2>5. CopiedOK(s)
    BY DEF CopyInv
  <2>6. /\ {q[k].n : k \in DOMAIN q} = Reached(s) \cup {p.n}
        /\ \A k \in DOMAIN q : q[k].dts = Time(s, q[k].n)
        /\ \A k, l \in DOMAIN q : k < l => q[k].n < q[l].n
    BY <2>3, <2>4, <2>5, CopiedGrows
  <2>7. CopiedOK(s)'
    BY <2>1, <2>2, <2>6, SameJob DEF CopiedOK
  <2> QED
    BY <1>6, <2>7
<1> QED
  BY <1>7, <1>8

LEMMA CopyInvStep ==
  ASSUME JobOK, TypeOK, CopyInv, [Next]_vars
  PROVE  CopyInv'
<1> USE DEF reading, clocks, copying, pictures
<1>1. job' = job
  BY NextKeepsJob
<1>2. /\ Files' = Files /\ Streams' = Streams
      /\ \A s : Feeding(s)' = Feeding(s) /\ Early(s)' = Early(s) /\ Cut(s)' = Cut(s)
      /\ \A s, n : Time(s, n)' = Time(s, n)
  BY <1>1, SameJob
<1> SUFFICES ASSUME ~job.getjpeg, ~job.discont
             PROVE  CopyInv'
  BY <1>1 DEF CopyInv
<1>3. /\ pc # "seek" /\ ts_offset = job.offset
      /\ \A s \in Streams : CopiedOK(s)
      /\ \A s \in Streams : is_past[s] =>
           \E n \in Feeding(s) : n < pos[job.fileOf[s]] /\ n \notin Early(s)
      /\ \A f \in Files : eof_reached[f] => pos[f] > Len(job.input[f])
      /\ pc \in {"flush", "done"} /\ ~received_sigterm =>
           \A s \in Streams : is_past[s] \/ eof_reached[job.fileOf[s]]
  BY DEF CopyInv
<1>4. ASSUME UNCHANGED <<pos, out>>
      PROVE  \A s \in Streams' : CopiedOK(s)'
  BY <1>1, <1>2, <1>3, <1>4 DEF CopiedOK, Reached
<1>5. ASSUME UNCHANGED <<pos, ts_offset, out, is_past, eof_reached>>, pc' # "seek",
             pc' \in {"flush", "done"} /\ ~received_sigterm' =>
               \A s \in Streams : is_past[s] \/ eof_reached[job.fileOf[s]]
      PROVE  CopyInv'
  BY <1>1, <1>2, <1>3, <1>4, <1>5 DEF CopyInv
<1>6. CASE Select \/ Retry \/ LeaveServed \/ ReadAgain \/ Stop \/ UNCHANGED vars
  BY <1>3, <1>5, <1>6 DEF Select, Retry, LeaveServed, AllRequestsServed, ReadAgain, Stop, vars
<1>7. CASE LeaveLoop
  <2>1. ~received_sigterm => NoneEligible /\ ~SomeNoPacket
    BY <1>7 DEF LeaveLoop
  <2>2. ~received_sigterm => \A s \in Streams : is_past[s] \/ eof_reached[job.fileOf[s]]
    BY <2>1, JobFacts DEF NoneEligible, SomeNoPacket, Eligible
  <2> QED
    BY <1>5, <1>7, <2>2 DEF LeaveLoop
<1>8. CASE SeekForPicture
  BY <1>3, <1>8 DEF SeekForPicture
<1>9. CASE EndOfFile
  <2>1. /\ UNCHANGED <<pos, ts_offset, out, is_past>> /\ pc' = "select"
        /\ eof_reached' = [eof_reached EXCEPT ![file] = TRUE]
        /\ pos[file] > Len(job.input[file])
    BY <1>9 DEF EndOfFile
  <2>2. eof_reached \in [Files -> BOOLEAN]
    BY DEF TypeOK
  <2> QED
    BY <1>1, <1>2, <1>3, <1>4, <2>1, <2>2 DEF CopyInv
<1>10. ASSUME NEW o \in Streams \cup {0}, Finds(o), Consume, ts_offset' = job.offset,
              \A s \in Streams : CopiedOK(s)',
              \A s \in Streams : is_past'[s] =>
                is_past[s] \/ (job.fileOf[s] = file /\ pos[file] \in Feeding(s) \ Early(s))
       PROVE  CopyInv'
  <2>1. /\ pos' = [pos EXCEPT ![file] = @ + 1] /\ pc' = "select" /\ eof_reached' = eof_reached
        /\ pos \in [Files -> Nat \ {0}] /\ file \in Files
        /\ pos[file] <= Len(job.input[file])
    BY <1>10 DEF Consume, Finds, Reads, TypeOK
  <2>2. \A f \in Files : pos'[f] = IF f = file THEN pos[f] + 1 ELSE pos[f]
    BY <2>1
  <2>3. ASSUME NEW s \in Streams, is_past'[s]
        PROVE  \E n \in Feeding(s) : n < pos'[job.fileOf[s]] /\ n \notin Early(s)
    <3>1. job.fileOf[s] \in Files /\ pos[job.fileOf[s]] \in Nat
      BY <2>1, JobFacts
    <3>2. CASE is_past[s]
      <4>1. PICK n \in Feeding(s) : n < pos[job.fileOf[s]] /\ n \notin Early(s)
        BY <1>3, <3>2
      <4>2. n < pos'[job.fileOf[s]]
        BY <2>2, <3>1, <4>1, CutFacts
      <4> QED
        BY <4>1, <4>2
    <3>3. CASE job.fileOf[s] = file /\ pos[file] \in Feeding(s) \ Early(s)
      BY <2>2, <3>1, <3>3
    <3> QED
      BY <1>10, <2>3, <3>2, <3>3
  <2>4. \A f \in Files : eof_reached'[f] => pos'[f] > Len(job.input[f])
    <3>1. \A f \in Files : pos[f] \in Nat /\ Len(job.input[f]) \in Nat
      BY <2>1, PacketFacts
    <3>2. ~eof_reached[file]
      BY <1>3, <2>1, <3>1
    <3> QED
      BY <1>3, <2>1, <2>2, <3>1, <3>2
  <2> QED
    BY <1>1, <1>2, <1>10, <2>1, <2>3, <2>4 DEF CopyInv
<1>11. CASE Discard
  <2>1. Finds(0) /\ Consume /\ UNCHANGED <<ts_offset, out, is_past>>
    BY <1>11 DEF Discard
  <2>2. file \in Files /\ pos' = [pos EXCEPT ![file] = @ + 1]
    BY <2>1 DEF Consume, Finds, Reads, TypeOK
  <2>3. ASSUME NEW s \in Streams
        PROVE  CopiedOK(s)'
    <3>1. job.fileOf[s] = file => pos[file] \notin Cut(s)
      <4>1. job.input[file][pos[file]].ost = 0 /\ s # 0
        BY <2>1, JobFacts DEF Finds
      <4> QED
        BY <4>1, CutFacts
    <3>2. Reached(s)' = Reached(s)
      BY <1>1, <2>2, <3>1, ReachedGrows
    <3> QED
      BY <1>2, <1>3, <2>1, <3>2 DEF CopiedOK
  <2> QED
    BY <1>3, <1>10, <2>1, <2>3
<1>12. ASSUME NEW s \in Streams, CopyPacket(s)
       PROVE  CopyInv'
  <2>1. Finds(s) /\ Consume /\ Realign(s) /\ is_past' = Past(s)
    BY <1>12 DEF CopyPacket
  <2>2. /\ file \in Files /\ job.fileOf[s] = file
        /\ pos[file] \in Feeding(s)
        /\ TooLate(s) <=> pos[file] \notin Early(s)
    BY <1>3, <2>1, ReadFacts, KeptIsCut
  <2>3. ts_offset' = job.offset
    <3>1. Discontinuity(s) = 0
      BY DEF Discontinuity
    <3>2. job.offset \in [Files -> Int]
      BY JobFacts
    <3> QED
      BY <1>3, <2>1, <2>2, <3>1, <3>2 DEF Realign, Offset
  <2>4. \A t \in Streams : is_past'[t] => is_past[t] \/ (t = s /\ TooLate(s))
    BY <2>1 DEF Past, TypeOK
  <2>5. \A t \in Streams : CopiedOK(t)'
    BY <1>1, <1>12, CopyKeeps
  <2>6. \A t \in Streams : is_past'[t] =>
          is_past[t] \/ (job.fileOf[t] = file /\ pos[file] \in Feeding(t) \ Early(t))
    BY <2>2, <2>4
  <2> QED
    BY <1>10, <2>1, <2>3, <2>5, <2>6
<1>13. ASSUME NEW s \in Streams, WriteFails(s)
       PROVE  CopyInv'
  BY <1>5, <1>13 DEF WriteFails
<1>14. ASSUME NEW s \in Streams, DecodeFails(s) \/ DecodeNothing(s) \/ DecodePicture(s)
       PROVE  CopyInv'
  BY <1>14 DEF DecodeFails, DecodeNothing, DecodePicture
<1>15. CASE FlushPicture
  BY <1>15 DEF FlushPicture, Flushable
<1>16. CASE FlushEnd
  BY <1>3, <1>5, <1>16 DEF FlushEnd
<1> QED
  BY <1>6, <1>7, <1>8, <1>9, <1>11, <1>12, <1>13, <1>14, <1>15, <1>16 DEF Next, Loop

LEMMA InitCopy == Init => CopyInv
<1> SUFFICES ASSUME Init PROVE CopyInv
  OBVIOUS
<1>1. JobOK
  BY DEF Init, JobOK
<1>2. ASSUME NEW s \in Streams
      PROVE  CopiedOK(s)
  <2>1. out[s] = <<>> /\ DOMAIN out[s] = {}
    BY DEF Init
  <2>2. pos[job.fileOf[s]] = 1
    BY <1>1, JobFacts DEF Init
  <2>3. Reached(s) = {}
    BY <1>1, <2>2, CutFacts DEF Reached
  <2> QED
    BY <2>1, <2>3 DEF CopiedOK
<1> QED
  BY <1>2 DEF Init, CopyInv

-----------------------------------------------------------------------------
(* Two inputs are read in step                                             *)

\* The stream selected is still the one whose output is the furthest behind
\* when its input is read.
BalanceInv ==
  ~job.getjpeg /\ ~job.discont /\ again = 0 /\ OneEach =>
    /\ \A f \in Files : ~no_packet[f]
    /\ pc = "read" => \E s \in Streams : job.fileOf[s] = file /\ Furthest(s)
    /\ \A s, t \in Streams :
         s # t /\ out[s] # <<>> /\ Eligible(t) => OptsBefore(s) <= Opts(t)

LEMMA OptsFacts ==
  ASSUME JobOK, TypeOK, NEW s \in Streams
  PROVE  /\ Opts(s) \in Int
         /\ out[s] # <<>> => OptsBefore(s) \in Int
<1>1. out[s] \in Seq([n : Nat \ {0}, dts : Int]) /\ job.duration[s] \in Nat
  BY JobFacts DEF TypeOK
<1>2. ASSUME NEW k \in 1..Len(out[s])
      PROVE  out[s][k].dts \in Int
  <2>1. out[s][k] \in [n : Nat \ {0}, dts : Int]
    BY <1>1, <1>2, ElementFacts
  <2> QED
    BY <2>1
<1>3. Opts(s) \in Int
  <2>1. CASE out[s] = <<>>
    BY <2>1 DEF Opts
  <2>2. CASE out[s] # <<>>
    <3>1. Len(out[s]) \in 1..Len(out[s])
      BY <1>1, <2>2
    <3>2. out[s][Len(out[s])].dts \in Int
      BY <1>2, <3>1
    <3> QED
      BY <1>1, <2>2, <3>2 DEF Opts, LastDts
  <2> QED
    BY <2>1, <2>2
<1>4. ASSUME out[s] # <<>>
      PROVE  OptsBefore(s) \in Int
  <2>1. CASE Len(out[s]) = 1
    BY <2>1 DEF OptsBefore
  <2>2. CASE Len(out[s]) # 1
    <3>1. Len(out[s]) - 1 \in 1..Len(out[s])
      BY <1>1, <1>4, <2>2, ElementFacts
    <3>2. out[s][Len(out[s]) - 1].dts \in Int
      BY <1>2, <3>1
    <3> QED
      <4>1. OptsBefore(s) = out[s][Len(out[s]) - 1].dts + job.duration[s]
        BY <2>2 DEF OptsBefore
      <4>2. job.duration[s] \in Int
        BY JobFacts
      <4> QED
        BY <3>2, <4>1, <4>2
  <2> QED
    BY <2>1, <2>2
<1> QED
  BY <1>3, <1>4

\* The time a stream's output has reached does not go back, and was what it is
\* before the last packet.
LEMMA OptsGrow ==
  ASSUME JobOK, TypeOK, CopyInv, OneEach, ~job.getjpeg, ~job.discont, job' = job,
         NEW s \in Streams, CopyPacket(s), Kept(s)
  PROVE  /\ OptsBefore(s)' = Opts(s) /\ Opts(s)' \in Int
         /\ Opts(s) <= Opts(s)'
<1> DEFINE o == out[s]
           p == [n |-> pos[file], dts |-> Stamp(s)]
           d == job.duration[s]
<1>1. /\ Finds(s) /\ job.fileOf[s] = file /\ pos[file] \in Feeding(s)
      /\ Stamp(s) = Time(s, pos[file]) /\ Stamp(s) \in Int
  <2>1. Finds(s)
    BY DEF CopyPacket
  <2>2. ts_offset = job.offset /\ CopiedOK(s)
    BY DEF CopyInv
  <2> QED
    BY <2>1, <2>2, ReadFacts, KeptIsCut
<1>2. o \in Seq([n : Nat \ {0}, dts : Int]) /\ d \in Nat /\ pos[file] \in Nat \ {0}
  BY <1>1, JobFacts, ReadFacts DEF TypeOK
<1>3. out'[s] = Append(o, p) /\ job'.duration[s] = d
  BY DEF CopyPacket, TypeOK
<1>4. /\ Len(out'[s]) = Len(o) + 1 /\ out'[s] # <<>> /\ out'[s][Len(o) + 1] = p
      /\ \A k \in 1..Len(o) : out'[s][k] = o[k]
      /\ Len(o) \in Nat
  <2>1. p \in [n : Nat \ {0}, dts : Int]
    BY <1>1, <1>2
  <2> HIDE DEF o, p
  <2> QED
    BY SMTT(30), <1>2, <1>3, <2>1
<1>5. Opts(s)' = Stamp(s) + d
  BY <1>3, <1>4 DEF Opts, LastDts
<1>6. Stamp(s) >= 0
  BY <1>1 DEF OneEach
<1>7. CASE o = <<>>
  <2>1. Len(o) = 0
    BY <1>7
  <2>2. OptsBefore(s)' = 0 /\ Opts(s) = 0
    BY <1>4, <1>7, <2>1 DEF OptsBefore, Opts
  <2> QED
    BY <1>1, <1>2, <1>5, <1>6, <2>2
<1>8. CASE o # <<>>
  <2>1. Len(o) \in 1..Len(o)
    BY <1>2, <1>8
  <2>2. Opts(s) = o[Len(o)].dts + d /\ o[Len(o)].dts \in Int
    <3>1. o[Len(o)] \in [n : Nat \ {0}, dts : Int]
      BY <1>2, <2>1, ElementFacts
    <3> QED
      BY <1>8, <3>1 DEF Opts, LastDts
  <2>3. OptsBefore(s)' = Opts(s)
    <3>1. Len(out'[s]) # 1 /\ Len(out'[s]) - 1 = Len(o)
      BY <1>4, <2>1
    <3>2. OptsBefore(s)' = out'[s][Len(o)].dts + d
      BY <1>3, <3>1 DEF OptsBefore
    <3> QED
      BY <1>4, <2>1, <2>2, <3>2
  <2>4. /\ o[Len(o)].n \in Reached(s) /\ o[Len(o)].dts = Time(s, o[Len(o)].n)
    <3>1. CopiedOK(s) /\ DOMAIN out[s] = 1..Len(o)
      BY <1>2 DEF CopyInv
    <3> QED
      BY <2>1, <3>1 DEF CopiedOK
  <2>5. o[Len(o)].n \in Feeding(s) /\ o[Len(o)].n < pos[file]
    BY <1>1, <2>4, CutFacts DEF Reached
  <2>6. o[Len(o)].dts <= Stamp(s)
    BY <1>1, <2>4, <2>5 DEF OneEach, InOrder
  <2> QED
    BY SMTT(30), <1>1, <1>2, <1>5, <2>2, <2>3, <2>6
<1> QED
  BY <1>7, <1>8

LEMMA BalanceStep ==
  ASSUME JobOK, TypeOK, CopyInv, BalanceInv, [Next]_vars
  PROVE  BalanceInv'
<1> USE DEF reading, clocks, copying, pictures
<1>1. job' = job
  BY NextKeepsJob
<1>2. Files' = Files /\ Streams' = Streams /\ OneEach' = OneEach
  BY <1>1, SameJob DEF OneEach
<1>3. again' = 0 => again = 0
  <2>1. again' = again \/ again' = again + 1
    BY DEF Next, Loop, vars, Select, Retry, LeaveLoop, SeekForPicture, LeaveServed,
       ReadAgain, EndOfFile, Discard, CopyPacket, WriteFails, DecodeFails, DecodeNothing,
       DecodePicture, FlushPicture, FlushEnd, Consume, Stop
  <2>2. again \in Nat
    BY BoundsAssumption DEF TypeOK
  <2> QED
    BY <2>1, <2>2
<1> SUFFICES ASSUME ~job.getjpeg, ~job.discont, again = 0, again' = 0, OneEach
             PROVE  BalanceInv'
  BY <1>1, <1>2, <1>3 DEF BalanceInv
<1>4. /\ \A f \in Files : ~no_packet[f]
      /\ pc = "read" => \E s \in Streams : job.fileOf[s] = file /\ Furthest(s)
      /\ \A s, t \in Streams :
           s # t /\ out[s] # <<>> /\ Eligible(t) => OptsBefore(s) <= Opts(t)
  BY DEF BalanceInv
<1>5. \A s : out' = out => /\ LastDts(s)' = LastDts(s) /\ Opts(s)' = Opts(s)
                           /\ OptsBefore(s)' = OptsBefore(s)
  BY <1>1 DEF LastDts, Opts, OptsBefore
<1>6. ASSUME out' = out, \A f \in Files : ~no_packet'[f],
             \A t \in Streams : Eligible(t)' => Eligible(t),
             pc' = "read" => \E s \in Streams : job.fileOf[s] = file' /\ Furthest(s)'
      PROVE  BalanceInv'
  BY <1>1, <1>2, <1>4, <1>5, <1>6 DEF BalanceInv
<1>7. \A s : UNCHANGED <<out, is_past, no_packet, eof_reached>> =>
               Eligible(s)' = Eligible(s) /\ Furthest(s)' = Furthest(s)
  BY <1>1, <1>2, <1>5 DEF Eligible, Furthest
<1>8. CASE Select
  BY <1>1, <1>4, <1>6, <1>7, <1>8 DEF Select
<1>9. CASE Retry
  <2>1. FALSE
    BY <1>4, <1>9 DEF Retry, SomeNoPacket
  <2> QED
    BY <2>1
<1>10. CASE LeaveLoop \/ LeaveServed \/ SeekForPicture \/ FlushEnd
  BY <1>1, <1>4, <1>6, <1>7, <1>10
     DEF LeaveLoop, LeaveServed, AllRequestsServed, SeekForPicture, FlushEnd, CopyInv
<1>11. CASE Stop \/ UNCHANGED vars
  BY <1>1, <1>4, <1>6, <1>7, <1>11 DEF Stop, vars
<1>12. CASE ReadAgain
  <2>1. again' = 1
    BY <1>12 DEF ReadAgain
  <2> QED
    BY <2>1
<1>13. CASE EndOfFile
  <2>1. /\ out' = out /\ no_packet' = no_packet /\ pc' = "select" /\ is_past' = is_past
        /\ eof_reached' = [eof_reached EXCEPT ![file] = TRUE]
    BY <1>13 DEF EndOfFile
  <2>2. \A t \in Streams : Eligible(t)' => Eligible(t)
    <3>1. eof_reached \in [Files -> BOOLEAN]
      BY DEF TypeOK
    <3>2. \A t \in Streams : job.fileOf[t] \in Files
      BY JobFacts
    <3> QED
      BY <1>1, <2>1, <3>1, <3>2 DEF Eligible
  <2> QED
    BY <1>4, <1>6, <2>1, <2>2
<1>14. ASSUME Consume, \A t \in Streams : is_past[t] => is_past'[t]
       PROVE  /\ \A f \in Files : ~no_packet'[f]
              /\ \A t \in Streams : Eligible(t)' => Eligible(t)
              /\ pc' = "select"
  BY <1>1, <1>4, <1>14, JobFacts DEF Consume, Eligible
<1>15. CASE Discard
  BY <1>6, <1>14, <1>15 DEF Discard
<1>16. ASSUME NEW s \in Streams, CopyPacket(s)
       PROVE  BalanceInv'
  <2>1. Finds(s) /\ Consume /\ pc = "read" /\ is_past' = Past(s)
    BY <1>16 DEF CopyPacket, Finds, Reads
  <2>2. \A t \in Streams : is_past[t] => is_past'[t]
    BY <2>1 DEF Past, TypeOK
  <2>3. CASE ~Kept(s)
    BY <1>6, <1>14, <1>16, <2>1, <2>2, <2>3 DEF CopyPacket
  <2>4. CASE Kept(s)
    <3>1. Furthest(s)
      <4>1. PICK r \in Streams : job.fileOf[r] = file /\ Furthest(r)
        BY <1>4, <2>1
      <4>2. r = s
        BY <2>1, <4>1, ReadFacts DEF OneEach
      <4> QED
        BY <4>1, <4>2
    <3>2. OptsBefore(s)' = Opts(s) /\ Opts(s) <= Opts(s)' /\ Opts(s)' \in Int
      BY <1>1, <1>16, <2>4, OptsGrow
    <3>3. \A t \in Streams : t # s => /\ out'[t] = out[t] /\ Opts(t)' = Opts(t)
                                      /\ OptsBefore(t)' = OptsBefore(t)
      <4>1. \A t \in Streams : t # s => out'[t] = out[t]
        BY <1>16 DEF CopyPacket, TypeOK
      <4> QED
        BY <1>1, <4>1 DEF Opts, LastDts, OptsBefore
    <3>4. ASSUME NEW u \in Streams, NEW t \in Streams, u # t, out'[u] # <<>>, Eligible(t)'
          PROVE  OptsBefore(u)' <= Opts(t)'
      <4>1. Eligible(t)
        BY <1>14, <2>1, <2>2, <3>4
      <4>2. Opts(s) \in Int /\ Opts(t) \in Int /\ Opts(s)' \in Int
        BY <3>2, OptsFacts
      <4>3. CASE u = s
        BY <3>1, <3>2, <3>3, <3>4, <4>1, <4>2, <4>3 DEF Furthest
      <4>4. CASE u # s /\ t = s
        <5>1. out[u] # <<>> /\ OptsBefore(u)' = OptsBefore(u)
          BY <3>3, <3>4, <4>4
        <5>2. OptsBefore(u) <= Opts(s) /\ OptsBefore(u) \in Int
          BY <1>4, <4>1, <4>4, <5>1, OptsFacts
        <5> QED
          BY <3>2, <4>2, <4>4, <5>1, <5>2
      <4>5. CASE u # s /\ t # s
        BY <1>4, <3>3, <3>4, <4>1, <4>5
      <4> QED
        BY <4>3, <4>4, <4>5
    <3> QED
      BY <1>2, <1>14, <2>1, <2>2, <3>4 DEF BalanceInv
  <2> QED
    BY <2>3, <2>4
<1>17. ASSUME NEW s \in Streams, WriteFails(s)
       PROVE  BalanceInv'
  BY <1>4, <1>6, <1>7, <1>17 DEF WriteFails
<1>18. ASSUME NEW s \in Streams, DecodeFails(s) \/ DecodeNothing(s) \/ DecodePicture(s)
       PROVE  BalanceInv'
  BY <1>18 DEF DecodeFails, DecodeNothing, DecodePicture
<1>19. CASE FlushPicture
  BY <1>19 DEF FlushPicture, Flushable
<1> QED
  BY <1>8, <1>9, <1>10, <1>11, <1>12, <1>13, <1>15, <1>16, <1>17, <1>18, <1>19 DEF Next, Loop

LEMMA InitBalance == Init => BalanceInv
  BY DEF Init, BalanceInv

-----------------------------------------------------------------------------
(* Theorems                                                                *)

IInv == JobOK /\ TypeOK /\ CopyInv /\ BalanceInv

\* The inductive invariant: types, what was copied and read, and which input is
\* read next.
THEOREM Invariance == Spec => []IInv
<1>1. Init => IInv
  BY InitTypes, InitCopy, InitBalance DEF IInv
<1>2. IInv /\ [Next]_vars => IInv'
  BY NextTypes, CopyInvStep, BalanceStep DEF IInv
<1> QED
  BY <1>1, <1>2, PTL DEF Spec

\* Types, requests and pictures in step, the decoder within its delay.
THEOREM TypeCorrect == Spec => []TypeOK
<1>1. IInv => TypeOK
  BY DEF IInv
<1> QED
  BY <1>1, Invariance, PTL

\* A copied stream is the cut, in order and complete.
THEOREM CutsAreComplete == Spec => []CutIsComplete
<1>1. IInv => CutIsComplete
  <2> SUFFICES ASSUME IInv, ~job.getjpeg, ~job.discont, NEW s \in Streams
               PROVE  /\ {out[s][k].n : k \in DOMAIN out[s]}
                           = {n \in Cut(s) : n < pos[job.fileOf[s]]}
                      /\ \A k \in DOMAIN out[s] : out[s][k].dts = Time(s, out[s][k].n)
                      /\ \A k, l \in DOMAIN out[s] : k < l => out[s][k].n < out[s][l].n
                      /\ pc = "done" /\ ~received_sigterm /\ InOrder(s) =>
                           \A n \in Cut(s) : n < pos[job.fileOf[s]]
    BY DEF CutIsComplete
  <2>1. JobOK /\ TypeOK /\ CopyInv /\ CopiedOK(s)
    BY DEF IInv, CopyInv
  <2>2. ASSUME pc = "done", ~received_sigterm, InOrder(s), NEW n \in Cut(s)
        PROVE  n < pos[job.fileOf[s]]
    <3>1. /\ n \in Early(s) /\ n \in Feeding(s) /\ n \in Nat /\ job.fileOf[s] \in Files
          /\ n <= Len(job.input[job.fileOf[s]])
          /\ pos[job.fileOf[s]] \in Nat /\ Len(job.input[job.fileOf[s]]) \in Nat
      <4>1. job.fileOf[s] \in Files
        BY <2>1, JobFacts
      <4>2. n \in Early(s) /\ n \in Feeding(s) /\ n \in Nat /\ n <= Len(job.input[job.fileOf[s]])
        BY <2>1, <2>2, CutFacts
      <4>3. Len(job.input[job.fileOf[s]]) \in Nat
        BY <2>1, <4>1, PacketFacts
      <4> QED
        BY <2>1, <4>1, <4>2, <4>3 DEF TypeOK
    <3>2. CASE eof_reached[job.fileOf[s]]
      BY <2>1, <3>1, <3>2 DEF CopyInv
    <3>3. CASE is_past[s]
      <4>1. PICK m \in Feeding(s) : m < pos[job.fileOf[s]] /\ m \notin Early(s)
        BY <2>1, <3>3 DEF CopyInv
      <4>2. /\ Time(s, m) \in Int /\ Time(s, n) \in Int /\ m \in Nat
            /\ job.length \in Int
        BY <2>1, <3>1, CutFacts, JobFacts
      <4>3. job.length # NoLimit /\ ~(Time(s, m) < job.length) /\ Time(s, n) < job.length
        BY <3>1, <4>1 DEF Early
      <4>4. ~(m <= n)
        <5>1. ASSUME m < n PROVE FALSE
          BY <2>2, <3>1, <4>1, <4>2, <4>3, <5>1 DEF InOrder
        <5>2. m # n
          BY <4>1, <3>1
        <5> QED
          BY <3>1, <4>2, <5>1, <5>2
      <4> QED
        BY <3>1, <4>1, <4>2, <4>4
    <3> QED
      BY <2>1, <2>2, <3>2, <3>3 DEF CopyInv
  <2> QED
    BY <2>1, <2>2 DEF CopiedOK, Reached
<1> QED
  BY <1>1, Invariance, PTL

\* Two inputs are read in step.
THEOREM InputsAreBalanced == Spec => []Balanced
<1>1. IInv => Balanced
  BY DEF IInv, BalanceInv, Balanced
<1> QED
  BY <1>1, Invariance, PTL

-----------------------------------------------------------------------------
(* The clocks of the streams                                               *)

\* A time that follows another in a stream's clock.
Follows(s, before, after) ==
  /\ after - before >= -1
  /\ after - before - job.duration[s] \in (0 - DtsDelta)..DtsDelta

\* Once a stream has been read its next time is expected a frame's duration on.
\* Its last time is that of its last packet, or one of a packet that came too
\* late; then the recording time lies between the two.
StreamClock(s) ==
  /\ next_pts[s] # NoTime => next_pts[s] = pts[s] + job.duration[s]
  /\ out[s] # <<>> =>
       /\ next_pts[s] # NoTime
       /\ job.length = NoLimit \/ LastDts(s) < job.length
       /\ \/ pts[s] = LastDts(s)
          \/ /\ job.length # NoLimit /\ pts[s] >= job.length
             /\ job.length - LastDts(s) <= job.duration[s] + DtsDelta
  /\ \A k \in 1..(Len(out[s]) - 1) : Follows(s, out[s][k].dts, out[s][k + 1].dts)

ClockInv == ~job.getjpeg /\ job.discont => \A s \in Streams : StreamClock(s)

\* A packet's time follows the last one of its stream, wherever the clocks of the
\* inputs break.
LEMMA StampFollows ==
  ASSUME JobOK, TypeOK, job.discont, NEW s \in Streams, Finds(s),
         next_pts[s] = pts[s] + job.duration[s]
  PROVE  Follows(s, pts[s], Stamp(s))
<1>1. /\ Dts \in Int /\ Stamp(s) \in Int /\ pts[s] \in Int /\ job.duration[s] \in Nat
      /\ DtsDelta \in Nat
  BY ReadFacts, JobFacts, BoundsAssumption DEF TypeOK
<1>2. next_pts[s] \in Int /\ next_pts[s] # NoTime
  BY <1>1, BoundsAssumption
<1> DEFINE delta == Dts - next_pts[s]
<1>3. CASE delta < 0 - DtsDelta \/ delta > DtsDelta \/ Dts + 1 < pts[s]
  <2>1. Stamp(s) = next_pts[s]
    BY <1>1, <1>2, <1>3 DEF Stamp, Discontinuity
  <2> QED
    BY <1>1, <2>1 DEF Follows
<1>4. CASE ~(delta < 0 - DtsDelta \/ delta > DtsDelta \/ Dts + 1 < pts[s])
  <2>1. Stamp(s) = Dts
    BY <1>1, <1>2, <1>4 DEF Stamp, Discontinuity
  <2> QED
    BY <1>1, <1>4, <2>1 DEF Follows
<1> QED
  BY <1>3, <1>4

LEMMA CopyClock ==
  ASSUME JobOK, TypeOK, ClockInv, job.discont, job' = job, NEW s \in Streams, CopyPacket(s)
  PROVE  StreamClock(s)'
<1> DEFINE o == out[s]
           t == Stamp(s)
           d == job.duration[s]
           last == LastDts(s)
           Runs(a, b) == b - a >= -1 /\ b - a - d \in (0 - DtsDelta)..DtsDelta
<1>1. /\ Finds(s) /\ ~job.getjpeg
      /\ pts' = [pts EXCEPT ![s] = t] /\ next_pts' = [next_pts EXCEPT ![s] = t + d]
  BY DEF CopyPacket
<1>2. StreamClock(s)
  BY <1>1 DEF ClockInv
<1>3. /\ t \in Int /\ d \in Nat /\ pts[s] \in Int /\ DtsDelta \in Nat
      /\ job.length \in Int /\ NoLimit \in Int
      /\ o \in Seq([n : Nat \ {0}, dts : Int])
  BY <1>1, ReadFacts, JobFacts, BoundsAssumption DEF TypeOK
<1>4. o # <<>> => /\ Len(o) \in Nat \ {0} /\ last = o[Len(o)].dts /\ last \in Int
  <2>1. o # <<>> => Len(o) \in 1..Len(o) /\ \A k \in 1..Len(o) : o[k] \in [n : Nat \ {0}, dts : Int]
    <3> DEFINE T == [n : Nat \ {0}, dts : Int]
    <3>1. o \in Seq(T)
      BY <1>3
    <3> HIDE DEF o, T
    <3>2. o # <<>> => Len(o) \in 1..Len(o) /\ \A k \in 1..Len(o) : o[k] \in T
      BY <3>1, ElementFacts
    <3> QED
      BY <3>2 DEF T
  <2> QED
    BY <2>1 DEF LastDts
<1>5. pts'[s] = t /\ next_pts'[s] = t + d /\ next_pts'[s] # NoTime /\ job'.duration[s] = d
  <2>1. t + d # NoTime
    BY <1>3, BoundsAssumption
  <2>2. pts \in [Streams -> Int] /\ next_pts \in [Streams -> Int \cup {NoTime}]
    BY DEF TypeOK
  <2> HIDE DEF t, d
  <2>3. pts'[s] = t /\ next_pts'[s] = t + d
    BY <1>1, <2>2
  <2>4. job'.duration[s] = d
    BY DEF d
  <2> QED
    BY <2>1, <2>3, <2>4
<1>6. o # <<>> => /\ t - pts[s] >= -1
                  /\ t - pts[s] - d >= 0 - DtsDelta /\ t - pts[s] - d <= DtsDelta
  <2>1. o # <<>> => Follows(s, pts[s], t)
    BY <1>1, <1>2, StampFollows DEF StreamClock
  <2> HIDE DEF t
  <2> QED
    BY <1>3, <2>1 DEF Follows
<1>7. o # <<>> => /\ job.length = NoLimit \/ last < job.length
                  /\ \/ pts[s] = last
                     \/ /\ job.length # NoLimit /\ pts[s] >= job.length
                        /\ job.length - last <= d + DtsDelta
  BY <1>2 DEF StreamClock
<1>8. TooLate(s) <=> job.length # NoLimit /\ t >= job.length
  BY DEF TooLate
<1>9. \A k \in 1..(Len(o) - 1) : Runs(o[k].dts, o[k + 1].dts)
  BY <1>2 DEF StreamClock, Follows
<1>11. CASE Kept(s)
  <2> DEFINE p == [n |-> pos[file], dts |-> t]
  <2>1. out'[s] = Append(o, p)
    BY <1>11 DEF CopyPacket, TypeOK
  <2>2. p \in [n : Nat \ {0}, dts : Int] /\ p.dts = t
    BY <1>1, <1>3, ReadFacts
  <2> HIDE DEF p
  <2>3. /\ Len(out'[s]) = Len(o) + 1 /\ out'[s][Len(o) + 1] = p
        /\ \A k \in 1..Len(o) : out'[s][k] = o[k]
        /\ out'[s] # <<>> /\ Len(o) \in Nat
    <3> HIDE DEF o
    <3> QED
      BY SMTT(30), <1>3, <2>1, <2>2
  <2>4. LastDts(s)' = t
    BY <2>2, <2>3 DEF LastDts
  <2>5. job.length = NoLimit \/ t < job.length
    <3> HIDE DEF t
    <3> QED
      BY <1>3, <1>8, <1>11 DEF Kept
  <2>6. ASSUME o # <<>> PROVE Runs(last, t)
    <3>1. CASE pts[s] = last
      <4> HIDE DEF o, t, d, last
      <4> QED
        BY <1>3, <1>4, <1>6, <2>6, <3>1
    <3>2. CASE pts[s] # last
      <4>1. /\ job.length # NoLimit /\ pts[s] >= job.length /\ last < job.length
            /\ job.length - last <= d + DtsDelta /\ t < job.length
        BY <1>7, <2>5, <2>6, <3>2
      <4> DEFINE l == job.length
                 e == pts[s]
      <4>2. e \in Int /\ l \in Int /\ t - e >= -1 /\ t - e - d >= 0 - DtsDelta
        BY <1>3, <1>6, <2>6
      <4> HIDE DEF o, t, d, last, l, e
      <4>3. t = l - 1 /\ e = l
        BY SMTT(30), <1>3, <4>1, <4>2 DEF l, e
      <4>4. last < l /\ l - last <= d + DtsDelta
        BY <4>1 DEF l
      <4>5. t \in Int /\ d \in Nat /\ DtsDelta \in Nat /\ last \in Int
        BY <1>3, <1>4, <2>6
      <4>6. t - last >= -1 /\ t - last - d >= 0 - DtsDelta /\ t - last - d <= DtsDelta
        BY <4>2, <4>3, <4>4, <4>5
      <4> QED
        BY <4>5, <4>6
    <3> QED
      BY <3>1, <3>2
  <2>7. ASSUME NEW k \in 1..(Len(out'[s]) - 1)
        PROVE  Runs(out'[s][k].dts, out'[s][k + 1].dts)
    <3> HIDE DEF o, t, d, last, Runs
    <3>1. CASE k = Len(o)
      <4>1. o # <<>>
        BY <2>7, <3>1 DEF o
      <4>2. out'[s][k].dts = last /\ out'[s][k + 1].dts = t
        BY <1>4, <2>2, <2>3, <3>1, <4>1
      <4> QED
        BY <2>6, <4>1, <4>2
    <3>2. CASE k # Len(o)
      <4>1. k \in 1..(Len(o) - 1) /\ k \in 1..Len(o) /\ k + 1 \in 1..Len(o)
        BY <2>3, <2>7, <3>2
      <4>2. out'[s][k] = o[k] /\ out'[s][k + 1] = o[k + 1]
        BY <2>3, <4>1
      <4> QED
        BY <1>9, <4>1, <4>2
    <3> QED
      BY <3>1, <3>2
  <2>8. \A k \in 1..(Len(out'[s]) - 1) : Follows(s, out[s][k].dts, out[s][k + 1].dts)'
    BY <1>5, <2>7 DEF Follows
  <2> HIDE DEF o, t, d, last
  <2> QED
    BY <1>5, <2>4, <2>5, <2>8 DEF StreamClock
<1>12. CASE ~Kept(s)
  <2>1. out' = out
    BY <1>12 DEF CopyPacket
  <2>2. LastDts(s)' = last
    BY <2>1 DEF LastDts
  <2>3. ASSUME o # <<>>
        PROVE  /\ job.length = NoLimit \/ last < job.length
               /\ \/ t = last
                  \/ /\ job.length # NoLimit /\ t >= job.length
                     /\ job.length - last <= d + DtsDelta
    <3>1. job.length # NoLimit /\ t >= job.length
      BY <1>8, <1>12, <2>3 DEF Kept
    <3>2. job.length = NoLimit \/ last < job.length
      BY <1>7, <2>3
    <3>3. CASE pts[s] = last
      <4>1. job.length - last <= d + DtsDelta
        <5> HIDE DEF o, t, d, last
        <5> QED
          BY SMTT(30), <1>3, <1>4, <1>6, <2>3, <3>1, <3>3
      <4> QED
        BY <3>1, <3>2, <4>1
    <3>4. CASE pts[s] # last
      BY <1>7, <2>3, <3>1, <3>2, <3>4
    <3> QED
      BY <3>3, <3>4
  <2>4. \A k \in 1..(Len(out'[s]) - 1) : Follows(s, out[s][k].dts, out[s][k + 1].dts)'
    BY <1>5, <1>9, <2>1 DEF Follows
  <2> HIDE DEF t, d, last
  <2> QED
    BY <1>5, <2>1, <2>2, <2>3, <2>4 DEF StreamClock
<1> QED
  BY <1>11, <1>12

LEMMA ClockStep ==
  ASSUME JobOK, TypeOK, ClockInv, [Next]_vars
  PROVE  ClockInv'
<1>1. job' = job
  BY NextKeepsJob
<1>0. Streams' = Streams
  BY <1>1, SameJob
<1> SUFFICES ASSUME ~job.getjpeg, job.discont, NEW s \in Streams PROVE StreamClock(s)'
  BY <1>0, <1>1 DEF ClockInv
<1>2. StreamClock(s)
  BY DEF ClockInv
<1>3. ASSUME out'[s] = out[s], pts'[s] = pts[s], next_pts'[s] = next_pts[s]
      PROVE  StreamClock(s)'
  <2>1. LastDts(s)' = LastDts(s)
    BY <1>3 DEF LastDts
  <2>2. \A a, b : Follows(s, a, b)' = Follows(s, a, b)
    BY <1>1 DEF Follows
  <2> QED
    BY <1>1, <1>2, <1>3, <2>1, <2>2 DEF StreamClock
<1>4. CASE \E t \in Streams : CopyPacket(t)
  <2>1. PICK t \in Streams : CopyPacket(t)
    BY <1>4
  <2>2. CASE t = s
    BY <1>1, <2>1, <2>2, CopyClock
  <2>3. CASE t # s
    <3>1. out'[s] = out[s] /\ pts'[s] = pts[s] /\ next_pts'[s] = next_pts[s]
      BY <2>1, <2>3 DEF CopyPacket, TypeOK
    <3> QED
      BY <1>3, <3>1
  <2> QED
    BY <2>2, <2>3
<1>5. CASE ~\E t \in Streams : CopyPacket(t)
  <2>1. UNCHANGED <<out, pts, next_pts>>
    BY <1>5 DEF Next, Loop, Select, Retry, LeaveLoop, SeekForPicture, LeaveServed, ReadAgain,
       EndOfFile, Discard, WriteFails, DecodeFails, DecodeNothing, DecodePicture, FlushPicture,
       Flushable, FlushEnd, Stop, vars, clocks, copying
  <2> QED
    BY <1>3, <2>1
<1> QED
  BY <1>4, <1>5

LEMMA InitClock == Init => ClockInv
  BY DEF Init, ClockInv, StreamClock

\* The clock of a copied stream runs on where the parts of a concatenated input
\* join (the correction of ts_offset in transcode), though it is another
\* stream's packet that may have moved the offset they share.
THEOREM ClocksRunOn == Spec => []ClockRunsOn
<1>1. Spec => []ClockInv
  <2>1. IInv /\ ClockInv /\ [Next]_vars => ClockInv'
    BY ClockStep DEF IInv
  <2> QED
    BY <2>1, InitClock, Invariance, PTL DEF Spec
<1>2. ClockInv => ClockRunsOn
  BY DEF ClockInv, StreamClock, Follows, ClockRunsOn
<1> QED
  BY <1>1, <1>2, PTL
=============================================================================
