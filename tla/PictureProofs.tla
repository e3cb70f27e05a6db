---------------------------- MODULE PictureProofs ----------------------------
(***************************************************************************)
(* Proofs about the jobs of Transcoder that extract pictures, for any file *)
(* with the properties Regular, any requests in any order, any delay of the *)
(* decoder, any decoding errors, failing seeks and any stop: every picture *)
(* is from its request's time or later, and one written before the loop    *)
(* ends is the right one if the seek for its request cannot fail; and no   *)
(* request is left out if no packet fails, no seek can and the video has a *)
(* picture for each of them.                                               *)
(***************************************************************************)
EXTENDS TranscoderProofs, FiniteSetTheorems

-----------------------------------------------------------------------------
(* The invariant                                                           *)

Extracts == job.getjpeg /\ Regular
Looping == pc \in {"select", "seek", "read"}

\* A video packet that may still come out of the decoder, or never will.
Held(n) == \E i \in DOMAIN decoder : decoder[i].n = n
Pending(n) == n \in failed \/ n >= pos[1] \/ Held(n)

\* The decoder holds pictures of the video, with their times.
Decoded ==
  \A i \in DOMAIN decoder : /\ decoder[i].n \in Video
                            /\ decoder[i].time = Raw(decoder[i].n) - job.start

\* They were read, in their order, and none between them or behind them has come
\* out or was passed over.
QueueOK ==
  /\ \A i \in DOMAIN decoder :
       /\ decoder[i].n \in Video /\ decoder[i].n < pos[1]
       /\ decoder[i].time = Raw(decoder[i].n) - job.start
       /\ \A n \in Video : n > decoder[i].n => Pending(n)
  /\ \A i, j \in DOMAIN decoder : i < j => decoder[i].n < decoder[j].n

\* Every picture that could serve request k is still to come, but for the one
\* that served the request before it.
Taken(k, n) == k > 1 /\ n = images[k - 1].n /\ Raw(n) = job.times[k] + job.start
FineInLine(k) ==
  \A n \in Video : Raw(n) >= job.times[k] + job.start => Pending(n) \/ Taken(k, n)

\* The key frame that a seek for request k goes to, or the first picture, and that
\* no picture from it on has come out.
Key(n) == job.input[1][n].key
First(n) == \A m \in Video : n <= m
Anchor(k, key) ==
  /\ key \in Video /\ Key(key)
  /\ Raw(key) <= job.times[k] \/ First(key)
  /\ \A m \in Video : key < m /\ Key(m) => Raw(m) > job.times[k]
FromHere(key) ==
  /\ pos[1] >= key \/ First(key)
  /\ \A i \in DOMAIN decoder : decoder[i].n >= key
  /\ \A n \in Video : n >= key => Pending(n)
CoarseInLine(k) == \E key \in Video : Anchor(k, key) /\ FromHere(key)

InLine == IF job.coarse THEN CoarseInLine(jpeg_idx) ELSE FineInLine(jpeg_idx)

NotBefore(k, n) == ~job.coarse => Raw(n) >= job.times[k] + job.start
Right(k, n) == IF job.coarse THEN ShowsKey(k, n) ELSE Shows(k, n)
Fits(k, n, last) == NotBefore(k, n) /\ (~last /\ SeekFinds(k) => Right(k, n))
AllRight == \A k \in DOMAIN images : Fits(k, images[k].n, images[k].last)

Waiting == jpeg_idx <= Requests

\* With these: no seek is left to do when a packet is read, and when none is due
\* what serves the next request is still in front, if a seek for it cannot fail.
PictureInv ==
  Extracts =>
    /\ ts_offset[1] = 0 - job.start
    /\ Decoded
    /\ Looping => QueueOK
    /\ pc = "read" /\ Waiting => ~g_need_seek
    /\ Looping /\ Waiting /\ ~g_need_seek /\ SeekFinds(jpeg_idx) => InLine
    /\ AllRight

-----------------------------------------------------------------------------
(* The file of a job that extracts pictures                                *)

LEMMA VideoFacts ==
  ASSUME JobOK, Extracts
  PROVE  /\ Files = {1} /\ Streams = {1}
         /\ job.start \in Nat /\ job.coarse \in BOOLEAN /\ ~job.discont
         /\ Len(job.input[1]) \in Nat
         /\ \A n \in Video : /\ n \in 1..Len(job.input[1]) /\ n \in Nat
                             /\ Raw(n) \in Int /\ Key(n) \in BOOLEAN /\ Raw(n) >= job.start
         /\ \A n \in 1..Len(job.input[1]) :
              /\ job.input[1][n].ost # 0 => n \in Video
              /\ job.input[1][n].ost = 0 => n \notin Video
         /\ \A m, n \in Video : m < n <=> Raw(m) < Raw(n)
         /\ \E first \in Video : Key(first) /\ First(first)
<1>1. job.getjpeg /\ Regular
  BY DEF Extracts
<1>2. /\ Files = {1} /\ Streams = {1} /\ job.start \in Int /\ job.coarse \in BOOLEAN
      /\ job.fileOf[1] = 1
  BY <1>1, JobFacts
<1>3. /\ Len(job.input[1]) \in Nat /\ DOMAIN job.input[1] = 1..Len(job.input[1])
      /\ \A n \in 1..Len(job.input[1]) :
           /\ job.input[1][n].time \in Int /\ job.input[1][n].key \in BOOLEAN
           /\ job.input[1][n].ost = 0 \/ job.input[1][n].ost \in Streams
  BY <1>2, PacketFacts
<1>4. Video = {n \in 1..Len(job.input[1]) : job.input[1][n].ost = 1}
  BY <1>2, <1>3 DEF Video, Feeding
<1>5. \A n \in Video : /\ n \in 1..Len(job.input[1]) /\ n \in Nat
                       /\ Raw(n) \in Int /\ Key(n) \in BOOLEAN
  BY <1>3, <1>4 DEF Raw, Key
<1>6. \A n \in 1..Len(job.input[1]) :
        /\ job.input[1][n].ost # 0 => n \in Video
        /\ job.input[1][n].ost = 0 => n \notin Video
  BY <1>2, <1>3, <1>4
<1>7. \A m, n \in Video : m < n <=> Raw(m) < Raw(n)
  <2>1. \A m, n \in Video : m < n => Raw(m) < Raw(n)
    BY <1>1 DEF Regular
  <2> QED
    BY <1>5, <2>1
<1>8. PICK first \in Video : Key(first) /\ Raw(first) >= job.start /\ First(first)
  BY <1>1 DEF Regular, Key, First
<1>9. ASSUME NEW n \in Video PROVE Raw(n) >= job.start
  <2>1. first <= n /\ first \in Nat /\ n \in Nat /\ Raw(first) \in Int /\ Raw(n) \in Int
    BY <1>5, <1>8 DEF First
  <2>2. first < n \/ first = n
    BY <2>1
  <2> QED
    BY <1>2, <1>7, <1>8, <2>1, <2>2
<1>10. job.start \in Nat /\ ~job.discont
  BY <1>1, <1>2 DEF Regular
<1> QED
  BY <1>2, <1>3, <1>5, <1>6, <1>7, <1>8, <1>9, <1>10

\* The packet read keeps its place and time: no discontinuity moves it.
LEMMA Undisturbed ==
  ASSUME JobOK, TypeOK, Extracts, ts_offset[1] = 0 - job.start,
         NEW s \in Streams, Finds(s)
  PROVE  /\ s = 1 /\ file = 1 /\ pos[1] \in Video /\ pos[1] \in Nat \ {0}
         /\ Stamp(s) = Raw(pos[1]) - job.start
         /\ Offset(s) = 0 - job.start
<1>1. /\ file \in Files /\ pos[file] \in Nat \ {0}
      /\ pos[file] \in 1..Len(job.input[file])
  BY ReadFacts
<1>2. file = 1 /\ s = 1
  BY <1>1, VideoFacts
<1>3. job.input[1][pos[1]].ost # 0
  BY <1>2 DEF Finds
<1>4. pos[1] \in Video
  BY <1>1, <1>2, <1>3, VideoFacts
<1>5. Discontinuity(s) = 0
  BY VideoFacts DEF Discontinuity
<1>6. Dts = Raw(pos[1]) - job.start /\ job.start \in Int /\ Raw(pos[1]) \in Int
  BY <1>2, <1>4, VideoFacts DEF Dts, Raw
<1>7. Stamp(s) = Dts /\ Offset(s) = ts_offset[1]
  BY <1>2, <1>5, <1>6 DEF Stamp, Offset
<1> QED
  BY <1>1, <1>2, <1>4, <1>6, <1>7

\* No step changes the file, nor what is promised about it.
LEMMA SameVideo ==
  ASSUME job' = job
  PROVE  /\ Video' = Video /\ Extracts' = Extracts /\ Requests' = Requests
         /\ \A n : Raw(n)' = Raw(n) /\ Key(n)' = Key(n) /\ First(n)' = First(n)
         /\ \A k, n : Anchor(k, n)' = Anchor(k, n)
         /\ \A k : SeekFinds(k)' = SeekFinds(k)
         /\ \A k, n : NotBefore(k, n)' = NotBefore(k, n)
<1>1. Video' = Video
  BY DEF Video, Feeding
<1>2. \A n : Raw(n)' = Raw(n) /\ Key(n)' = Key(n)
  BY DEF Raw, Key
<1>3. \A n : First(n)' = First(n)
  BY <1>1 DEF First
<1>4. Extracts' = Extracts
  BY <1>1, <1>2 DEF Extracts, Regular, Raw
<1>5. \A k, n : Anchor(k, n)' = Anchor(k, n)
  BY <1>1, <1>2, <1>3 DEF Anchor
<1>6. \A k : SeekFinds(k)' = SeekFinds(k)
  BY <1>1, <1>2 DEF SeekFinds, Raw
<1>7. \A k, n : NotBefore(k, n)' = NotBefore(k, n)
  BY <1>2 DEF NotBefore
<1> QED
  BY <1>1, <1>2, <1>3, <1>4, <1>5, <1>6, <1>7 DEF Requests

-----------------------------------------------------------------------------
(* The right pictures stay right                                           *)

LEMMA RightLasts ==
  ASSUME job' = job, failed \subseteq failed', NEW k, NEW n, Right(k, n),
         k > 1 => images'[k - 1] = images[k - 1]
  PROVE  Right(k, n)'
<1>1. Video' = Video /\ \A m : Raw(m)' = Raw(m)
  BY SameVideo
<1>2. CASE job.coarse
  <2>1. ShowsKey(k, n)'
    BY <1>1, <1>2 DEF Right, ShowsKey, Raw
  <2> QED
    BY <1>2, <2>1 DEF Right
<1>3. CASE ~job.coarse
  <2>1. Shows(k, n)'
    BY <1>1, <1>3 DEF Right, Shows, Raw
  <2> QED
    BY <1>3, <2>1 DEF Right
<1> QED
  BY <1>2, <1>3

LEMMA FitsLasts ==
  ASSUME job' = job, failed \subseteq failed', NEW k, NEW n, NEW last, Fits(k, n, last),
         k > 1 => images'[k - 1] = images[k - 1]
  PROVE  Fits(k, n, last)'
<1>1. SeekFinds(k)' = SeekFinds(k) /\ NotBefore(k, n)' = NotBefore(k, n)
  BY SameVideo
<1>2. ~last /\ SeekFinds(k) => Right(k, n)'
  BY RightLasts DEF Fits
<1> QED
  BY <1>1, <1>2 DEF Fits

LEMMA AllRightStays ==
  ASSUME JobOK, TypeOK, Extracts, job' = job, AllRight, failed \subseteq failed',
         images' = images
  PROVE  AllRight'
<1>1. images \in Seq([n : Nat \ {0}, last : BOOLEAN])
  BY DEF TypeOK
<1>2. ASSUME NEW k \in DOMAIN images'
      PROVE  Fits(k, images[k].n, images[k].last)'
  <2>1. PICK n, last : n = images[k].n /\ last = images[k].last
    OBVIOUS
  <2>2. Fits(k, n, last)
    BY <1>2, <2>1 DEF AllRight
  <2>3. Fits(k, n, last)'
    BY <2>2, FitsLasts
  <2> QED
    BY <2>1, <2>3
<1> QED
  BY <1>2 DEF AllRight

-----------------------------------------------------------------------------
(* The decoder's queue                                                     *)

\* The queue with the packet read at its end.
LEMMA FedQueue ==
  ASSUME JobOK, TypeOK, Extracts, ts_offset[1] = 0 - job.start, QueueOK,
         NEW s \in Streams, Finds(s)
  PROVE  LET q == Fed(s)
         IN  /\ Len(decoder) \in Nat /\ DOMAIN decoder = 1..Len(decoder)
             /\ DOMAIN q = 1..(Len(decoder) + 1)
             /\ \A i \in DOMAIN decoder : q[i] = decoder[i]
             /\ q[Len(decoder) + 1].n = pos[1]
             /\ \A i \in DOMAIN q : /\ q[i].n \in Video /\ q[i].n < pos[1] + 1
                                    /\ q[i].time = Raw(q[i].n) - job.start
             /\ \A i, j \in DOMAIN q : i < j => q[i].n < q[j].n
             /\ \A i \in DOMAIN q : \A n \in Video : n > q[i].n => Pending(n)
             /\ Head(q) = q[1]
             /\ Len(Tail(q)) = Len(decoder) /\ DOMAIN Tail(q) = 1..Len(decoder)
             /\ \A i \in 1..Len(decoder) : Tail(q)[i] = q[i + 1]
<1> DEFINE q == Fed(s)
           e == [n |-> pos[file], time |-> Stamp(s)]
<1>1. /\ file = 1 /\ pos[1] \in Video /\ pos[1] \in Nat \ {0}
      /\ Stamp(s) = Raw(pos[1]) - job.start
  BY Undisturbed
<1>2. decoder \in Seq([n : Nat \ {0}, time : Int]) /\ Len(decoder) \in Nat
  BY DEF TypeOK
<1>3. q \in Seq([n : Nat \ {0}, time : Int]) /\ Len(q) = Len(decoder) + 1
  BY FedFacts
<1>4. DOMAIN decoder = 1..Len(decoder) /\ DOMAIN q = 1..(Len(decoder) + 1)
  BY <1>2, <1>3
<1>5. /\ \A i \in 1..Len(decoder) : q[i] = decoder[i]
      /\ q[Len(decoder) + 1] = e
  <2>1. e \in [n : Nat \ {0}, time : Int]
    BY ReadFacts
  <2> HIDE DEF e
  <2> QED
    BY <1>2, <2>1 DEF Fed, e
<1>6. e.n = pos[1] /\ e.time = Raw(pos[1]) - job.start
  BY <1>1
<1> HIDE DEF e
<1>7. ASSUME NEW i \in DOMAIN q
      PROVE  /\ q[i].n \in Video /\ q[i].n < pos[1] + 1
             /\ q[i].time = Raw(q[i].n) - job.start
             /\ i # Len(decoder) + 1 => q[i].n < pos[1] /\ i \in DOMAIN decoder
  <2>1. CASE i = Len(decoder) + 1
    BY <1>1, <1>5, <1>6, <2>1
  <2>2. CASE i # Len(decoder) + 1
    <3>1. i \in DOMAIN decoder
      BY <1>2, <1>4, <2>2
    <3>2. /\ decoder[i].n \in Video /\ decoder[i].n < pos[1]
          /\ decoder[i].time = Raw(decoder[i].n) - job.start
      BY <3>1 DEF QueueOK
    <3>3. decoder[i].n \in Nat
      BY <3>2, VideoFacts
    <3> QED
      BY <1>1, <1>4, <1>5, <2>2, <3>1, <3>2, <3>3
  <2> QED
    BY <2>1, <2>2
<1>8. ASSUME NEW i \in DOMAIN q, NEW j \in DOMAIN q, i < j
      PROVE  q[i].n < q[j].n
  <2>1. i # Len(decoder) + 1
    BY <1>2, <1>4, <1>8
  <2>2. CASE j = Len(decoder) + 1
    BY <1>5, <1>6, <1>7, <2>1, <2>2
  <2>3. CASE j # Len(decoder) + 1
    BY <1>4, <1>5, <1>7, <1>8, <2>1, <2>3 DEF QueueOK
  <2> QED
    BY <2>2, <2>3
<1>9. /\ Head(q) = q[1]
      /\ Len(Tail(q)) = Len(decoder) /\ DOMAIN Tail(q) = 1..Len(decoder)
      /\ \A i \in 1..Len(decoder) : Tail(q)[i] = q[i + 1]
  <2> HIDE DEF q
  <2> QED
    BY <1>2, <1>3
<1> HIDE DEF q
<1>10. q[Len(decoder) + 1].n = pos[1]
  BY <1>5, <1>6
<1>11. ASSUME NEW i \in DOMAIN q, NEW n \in Video, n > q[i].n
       PROVE  Pending(n)
  <2>1. CASE i = Len(decoder) + 1
    BY <1>1, <1>10, <1>11, <2>1, VideoFacts DEF Pending
  <2>2. CASE i # Len(decoder) + 1
    <3>1. i \in DOMAIN decoder /\ q[i] = decoder[i]
      BY <1>4, <1>5, <1>7, <2>2
    <3> QED
      BY <1>11, <3>1 DEF QueueOK
  <2> QED
    BY <2>1, <2>2
<1> QED
  BY <1>2, <1>4, <1>5, <1>7, <1>8, <1>9, <1>10, <1>11 DEF q

\* Reading a packet that gives no picture.
LEMMA FedStays ==
  ASSUME JobOK, TypeOK, Extracts, job' = job, ts_offset[1] = 0 - job.start, QueueOK,
         NEW s \in Streams, Finds(s), Consume, DecodeNothing(s) \/ DecodeFails(s)
  PROVE  /\ pos'[1] = pos[1] + 1 /\ pos[1] \in Video /\ pos[1] \in Nat
         /\ QueueOK'
         /\ failed \subseteq failed'
         /\ \A n \in Video : Pending(n) => Pending(n)'
         /\ \A i \in DOMAIN decoder' :
              \/ decoder'[i].n = pos[1]
              \/ \E j \in DOMAIN decoder : decoder'[i].n = decoder[j].n
<1>1. /\ file = 1 /\ pos[1] \in Video /\ pos[1] \in Nat \ {0}
  BY Undisturbed
<1>2. pos'[1] = pos[1] + 1
  BY <1>1, VideoFacts DEF Consume, TypeOK
<1>3. Video' = Video /\ (\A n : Raw(n)' = Raw(n)) /\ job.start' = job.start
  BY SameVideo
<1>4. CASE DecodeFails(s)
  <2>1. decoder' = decoder /\ failed' = failed \cup {pos[1]}
    BY <1>1, <1>4 DEF DecodeFails
  <2>2. ASSUME NEW n \in Video, Pending(n) PROVE Pending(n)'
    <3>1. n \in Nat
      BY VideoFacts
    <3>2. n \in failed \/ n >= pos[1] + 1 \/ n = pos[1] \/ Held(n)
      BY <1>1, <2>2, <3>1 DEF Pending
    <3>3. Held(n)' <=> Held(n)
      BY <2>1 DEF Held
    <3> QED
      BY <1>2, <2>1, <3>2, <3>3 DEF Pending
  <2>3. \A i \in DOMAIN decoder : decoder[i].n \in Nat
    BY VideoFacts DEF QueueOK
  <2>4. QueueOK'
    BY <1>1, <1>2, <1>3, <2>1, <2>2, <2>3 DEF QueueOK, Raw
  <2> QED
    BY <1>1, <1>2, <2>1, <2>2, <2>4
<1>5. CASE DecodeNothing(s)
  <2> DEFINE q == Fed(s)
  <2>1. decoder' = q /\ failed' = failed
    BY <1>5 DEF DecodeNothing
  <2>2. /\ Len(decoder) \in Nat /\ DOMAIN decoder = 1..Len(decoder)
        /\ DOMAIN q = 1..(Len(decoder) + 1)
        /\ \A i \in DOMAIN decoder : q[i] = decoder[i]
        /\ q[Len(decoder) + 1].n = pos[1]
        /\ \A i \in DOMAIN q : /\ q[i].n \in Video /\ q[i].n < pos[1] + 1
                               /\ q[i].time = Raw(q[i].n) - job.start
        /\ \A i, j \in DOMAIN q : i < j => q[i].n < q[j].n
        /\ \A i \in DOMAIN q : \A n \in Video : n > q[i].n => Pending(n)
    BY FedQueue
  <2> HIDE DEF q
  <2>3. ASSUME NEW n \in Video, Pending(n) PROVE Pending(n)'
    <3>1. n \in Nat
      BY VideoFacts
    <3>2. n \in failed \/ n >= pos[1] + 1 \/ n = pos[1] \/ Held(n)
      BY <1>1, <2>3, <3>1 DEF Pending
    <3>3. n = pos[1] \/ Held(n) => Held(n)'
      BY <2>1, <2>2 DEF Held
    <3> QED
      BY <1>2, <2>1, <3>2, <3>3 DEF Pending
  <2>4. QueueOK'
    <3>1. \A i \in DOMAIN decoder' : \A n \in Video' : n > decoder'[i].n => Pending(n)'
      BY <1>3, <2>1, <2>2, <2>3
    <3> QED
      BY <1>2, <1>3, <2>1, <2>2, <3>1 DEF QueueOK, Raw
  <2>5. ASSUME NEW i \in DOMAIN decoder'
        PROVE  \/ decoder'[i].n = pos[1]
               \/ \E j \in DOMAIN decoder : decoder'[i].n = decoder[j].n
    <3>1. i = Len(decoder) + 1 \/ i \in DOMAIN decoder
      BY <2>1, <2>2, <2>5
    <3> QED
      BY <2>1, <2>2, <3>1
  <2> QED
    BY <1>1, <1>2, <2>1, <2>3, <2>4, <2>5
<1> QED
  BY <1>4, <1>5

\* Reading a packet that gives the first picture of the queue.
LEMMA TakenFromQueue ==
  ASSUME JobOK, TypeOK, Extracts, job' = job, ts_offset[1] = 0 - job.start, QueueOK,
         NEW s \in Streams, Finds(s), DecodePicture(s)
  PROVE  LET picture == Head(Fed(s))
         IN  /\ pos'[1] = pos[1] + 1
             /\ picture.n \in Video /\ picture.n < pos[1] + 1
             /\ picture.time = Raw(picture.n) - job.start
             /\ picture.n = pos[1] \/ \E i \in DOMAIN decoder : decoder[i].n = picture.n
             /\ QueueOK'
             /\ failed' = failed
             /\ \A n \in Video : Pending(n) /\ n < picture.n => n \in failed
             /\ \A n \in Video : Pending(n) /\ n # picture.n => Pending(n)'
             /\ \A n \in Video : n > picture.n => Pending(n)
<1> DEFINE q == Fed(s)
<1>1. /\ file = 1 /\ pos[1] \in Video /\ pos[1] \in Nat \ {0}
  BY Undisturbed
<1>2. pos'[1] = pos[1] + 1
  BY <1>1, VideoFacts DEF DecodePicture, Consume, TypeOK
<1>3. Video' = Video /\ (\A n : Raw(n)' = Raw(n)) /\ job.start' = job.start
  BY SameVideo
<1>4. decoder' = Tail(q) /\ failed' = failed
  BY DEF DecodePicture
<1>5. /\ Len(decoder) \in Nat /\ DOMAIN decoder = 1..Len(decoder)
      /\ DOMAIN q = 1..(Len(decoder) + 1)
      /\ \A i \in DOMAIN decoder : q[i] = decoder[i]
      /\ q[Len(decoder) + 1].n = pos[1]
      /\ \A i \in DOMAIN q : /\ q[i].n \in Video /\ q[i].n < pos[1] + 1
                             /\ q[i].time = Raw(q[i].n) - job.start
      /\ \A i, j \in DOMAIN q : i < j => q[i].n < q[j].n
      /\ \A i \in DOMAIN q : \A n \in Video : n > q[i].n => Pending(n)
      /\ Head(q) = q[1]
      /\ Len(Tail(q)) = Len(decoder) /\ DOMAIN Tail(q) = 1..Len(decoder)
      /\ \A i \in 1..Len(decoder) : Tail(q)[i] = q[i + 1]
  BY FedQueue
<1> HIDE DEF q
<1>6. 1 \in DOMAIN q /\ \A i \in 1..Len(decoder) : i \in DOMAIN q /\ i + 1 \in DOMAIN q
  BY <1>5
<1>7. /\ Head(q).n \in Video /\ Head(q).n < pos[1] + 1
      /\ Head(q).time = Raw(Head(q).n) - job.start
      /\ Head(q).n \in Nat
  BY <1>5, <1>6, VideoFacts
<1>9. ASSUME NEW n \in Video, Pending(n)
      PROVE  n \in failed \/ n >= pos[1] + 1 \/ \E i \in DOMAIN q : q[i].n = n
  <2>1. n \in Nat
    BY VideoFacts
  <2>2. n \in failed \/ n >= pos[1] + 1 \/ n = pos[1] \/ Held(n)
    BY <1>1, <1>9, <2>1 DEF Pending
  <2>3. n = pos[1] => \E i \in DOMAIN q : q[i].n = n
    BY <1>5
  <2>4. Held(n) => \E i \in DOMAIN q : q[i].n = n
    BY <1>5, <1>6 DEF Held
  <2> QED
    BY <2>2, <2>3, <2>4
<1>10. ASSUME NEW n \in Video, Pending(n), n < Head(q).n
       PROVE  n \in failed
  <2>1. n \in Nat
    BY VideoFacts
  <2>2. ~(n >= pos[1] + 1)
    BY <1>1, <1>7, <1>10, <2>1
  <2>3. ASSUME NEW i \in DOMAIN q, q[i].n = n PROVE FALSE
    <3>1. i = 1 \/ 1 < i
      BY <1>5, <2>3
    <3> QED
      BY <1>5, <1>6, <1>7, <1>10, <2>1, <2>3, <3>1
  <2> QED
    BY <1>9, <1>10, <2>2, <2>3
<1>11. ASSUME NEW n \in Video, Pending(n), n # Head(q).n
       PROVE  Pending(n)'
  <2>1. CASE n \in failed \/ n >= pos[1] + 1
    BY <1>2, <1>4, <2>1 DEF Pending
  <2>2. ASSUME NEW i \in DOMAIN q, q[i].n = n PROVE Pending(n)'
    <3>1. i # 1
      BY <1>5, <1>11, <2>2
    <3>2. i - 1 \in 1..Len(decoder) /\ (i - 1) + 1 = i
      BY <1>5, <3>1
    <3>3. decoder'[i - 1] = q[i] /\ i - 1 \in DOMAIN decoder'
      BY <1>4, <1>5, <3>2
    <3> QED
      BY <2>2, <3>3 DEF Pending, Held
  <2> QED
    BY <1>9, <1>11, <2>1, <2>2
<1>12. Head(q).n = pos[1] \/ \E i \in DOMAIN decoder : decoder[i].n = Head(q).n
  <2>1. CASE 1 \in DOMAIN decoder
    BY <1>5, <2>1
  <2>2. CASE 1 \notin DOMAIN decoder
    <3>1. Len(decoder) + 1 = 1
      BY <1>5, <2>2
    <3> QED
      BY <1>5, <3>1
  <2> QED
    BY <2>1, <2>2
<1>13. QueueOK'
  <2>1. \A i \in 1..Len(decoder) : decoder'[i] = q[i + 1]
    BY <1>4, <1>5
  <2>2. DOMAIN decoder' = 1..Len(decoder)
    BY <1>4, <1>5
  <2>3. ASSUME NEW i \in DOMAIN decoder'
        PROVE  /\ decoder'[i].n \in Video' /\ decoder'[i].n < pos'[1]
               /\ decoder'[i].time = Raw(decoder'[i].n) - job.start
    BY <1>2, <1>3, <1>5, <1>6, <2>1, <2>2, <2>3
  <2>4. ASSUME NEW i \in DOMAIN decoder', NEW j \in DOMAIN decoder', i < j
        PROVE  decoder'[i].n < decoder'[j].n
    <3>1. i + 1 \in DOMAIN q /\ j + 1 \in DOMAIN q /\ i + 1 < j + 1
      BY <1>5, <1>6, <2>2, <2>4
    <3> QED
      BY <1>5, <2>1, <2>2, <3>1
  <2>5. ASSUME NEW i \in DOMAIN decoder', NEW n \in Video', n > decoder'[i].n
        PROVE  Pending(n)'
    <3>1. i + 1 \in DOMAIN q /\ 1 < i + 1 /\ decoder'[i] = q[i + 1] /\ i + 1 \in Nat
      BY <1>5, <1>6, <2>1, <2>2
    <3>2. n \in Video /\ Pending(n)
      BY <1>3, <1>5, <2>5, <3>1
    <3>3. Head(q).n < q[i + 1].n /\ q[i + 1].n \in Nat /\ n \in Nat
      BY <1>5, <1>6, <3>1, <3>2, VideoFacts
    <3>4. n # Head(q).n
      BY <1>7, <2>5, <3>1, <3>3
    <3> QED
      BY <1>11, <3>2, <3>4
  <2> QED
    BY <2>3, <2>4, <2>5 DEF QueueOK, Raw
<1>14. \A n \in Video : n > Head(q).n => Pending(n)
  BY <1>5, <1>6
<1> QED
  BY <1>2, <1>4, <1>7, <1>10, <1>11, <1>12, <1>13, <1>14 DEF q

-----------------------------------------------------------------------------
(* What serves the next request is in front                                *)

\* It stays there while pictures are read that do not serve it.
LEMMA InLineStays ==
  ASSUME JobOK, TypeOK, Extracts, job' = job, InLine, jpeg_idx' = jpeg_idx,
         images' = images, pos'[1] >= pos[1], pos'[1] \in Int, pos[1] \in Int,
         \A n \in Video : Pending(n) => Pending(n)',
         \A i \in DOMAIN decoder' :
           \/ decoder'[i].n = pos[1] /\ pos[1] \in Video
           \/ \E j \in DOMAIN decoder : decoder'[i].n = decoder[j].n
  PROVE  InLine'
<1>1. /\ Video' = Video
      /\ \A n : Raw(n)' = Raw(n) /\ Key(n)' = Key(n) /\ First(n)' = First(n)
      /\ \A k, n : Anchor(k, n)' = Anchor(k, n)
  BY SameVideo
<1>2. CASE job.coarse
  <2>1. PICK key \in Video : Anchor(jpeg_idx, key) /\ FromHere(key)
    BY <1>2 DEF InLine, CoarseInLine
  <2>2. key \in Nat
    BY VideoFacts
  <2>3. FromHere(key)'
    <3>1. pos'[1] >= key \/ First(key)
      BY <2>1, <2>2 DEF FromHere
    <3>2. ASSUME NEW i \in DOMAIN decoder' PROVE decoder'[i].n >= key
      <4>1. CASE \E j \in DOMAIN decoder : decoder'[i].n = decoder[j].n
        BY <2>1, <4>1 DEF FromHere
      <4>2. CASE decoder'[i].n = pos[1] /\ pos[1] \in Video
        BY <2>1, <2>2, <4>2 DEF FromHere, First
      <4> QED
        BY <4>1, <4>2
    <3>3. \A n \in Video : n >= key => Pending(n)'
      BY <2>1 DEF FromHere
    <3> QED
      BY <1>1, <3>1, <3>2, <3>3 DEF FromHere
  <2>4. Anchor(jpeg_idx, key)'
    BY <1>1, <2>1
  <2> QED
    BY <1>1, <1>2, <2>3, <2>4 DEF InLine, CoarseInLine
<1>3. CASE ~job.coarse
  <2>1. FineInLine(jpeg_idx)
    BY <1>3 DEF InLine
  <2>2. FineInLine(jpeg_idx)'
    BY <1>1, <2>1 DEF FineInLine, Taken, Raw
  <2> QED
    BY <1>3, <2>2 DEF InLine
<1> QED
  BY <1>2, <1>3

\* A seek puts it there.
LEMMA SeekPutsInLine ==
  ASSUME JobOK, TypeOK, Extracts, job' = job, ts_offset[1] = 0 - job.start,
         SeekForPicture, g_need_seek, Waiting
  PROVE  (SeekFinds(jpeg_idx) => InLine') /\ QueueOK'
<1>1. file = 1
  BY VideoFacts DEF SeekForPicture, TypeOK
<1>2. PICK p \in 1..(Len(job.input[1]) + 1) :
        /\ SeekTo(Target(jpeg_idx, ts_offset[1]), p)
        /\ pos' = [pos EXCEPT ![1] = p]
  BY <1>1 DEF SeekForPicture, Waiting
<1>3. pos'[1] = p /\ p \in Nat \ {0}
  BY <1>2, VideoFacts DEF TypeOK
<1>4. decoder' = <<>> /\ jpeg_idx' = jpeg_idx /\ images' = images
  BY DEF SeekForPicture, Waiting
<1>5. /\ Video' = Video
      /\ \A n : Raw(n)' = Raw(n) /\ Key(n)' = Key(n) /\ First(n)' = First(n)
      /\ \A k, n : Anchor(k, n)' = Anchor(k, n)
  BY SameVideo
<1> DEFINE time == job.times[jpeg_idx]
<1>6. time \in Nat /\ Target(jpeg_idx, ts_offset[1]) = time
  <2>1. jpeg_idx \in 1..Requests /\ Requests \in Nat
    BY JobFacts DEF Waiting, TypeOK
  <2>2. time \in Nat
    BY <2>1, JobFacts
  <2> QED
    BY <2>2, VideoFacts DEF Target
<1>7. KeysUpTo(time) = {n \in Video : Key(n) /\ Raw(n) <= time}
  <2>1. DOMAIN job.input[1] = 1..Len(job.input[1])
    BY VideoFacts, PacketFacts
  <2> QED
    BY <1>1, <2>1, VideoFacts DEF KeysUpTo, Key, Raw
<1> HIDE DEF time
<1>8. SeekTo(time, p)
  BY <1>2, <1>6
<1>9. \A n \in Video : n >= p => Pending(n)'
  BY <1>3 DEF Pending
<1>10. QueueOK'
  BY <1>4 DEF QueueOK
<1> SUFFICES ASSUME SeekFinds(jpeg_idx) PROVE InLine'
  BY <1>10
<1>11. CASE KeysUpTo(time) = {}
  <2>0. \A m \in Video : Raw(m) > time
    <3>1. PICK first \in Video : Key(first) /\ First(first)
      BY VideoFacts
    <3>2. first \notin KeysUpTo(time)
      BY <1>11
    <3>3. Raw(first) > time /\ Raw(first) \in Int
      BY <1>6, <1>7, <3>1, <3>2, VideoFacts
    <3>4. ASSUME NEW m \in Video PROVE Raw(m) > time
      <4>1. first \in Nat /\ m \in Nat /\ Raw(m) \in Int /\ (m = first \/ first < m)
        BY <3>1, VideoFacts DEF First
      <4>2. CASE m = first
        BY <3>3, <4>2
      <4>3. CASE first < m
        <5>1. Raw(first) < Raw(m)
          BY <4>3, VideoFacts
        <5> QED
          BY <1>6, <3>3, <4>1, <5>1
      <4> QED
        BY <4>1, <4>2, <4>3
    <3> QED
      BY <3>4
  <2>1. p = 1
    <3>1. BeforeVideo(time)
      <4>1. DOMAIN job.input[1] = 1..Len(job.input[1])
        BY VideoFacts, PacketFacts
      <4> QED
        BY <1>1, <2>0, <4>1, VideoFacts DEF BeforeVideo, Raw
    <3>2. job.rewinds
      <4>1. \A m \in Video : ~(Raw(m) <= time)
        BY <1>6, <2>0, VideoFacts
      <4> QED
        BY <4>1 DEF SeekFinds, time
    <3> QED
      BY <1>8, <1>11, <3>1, <3>2 DEF SeekTo
  <2>2. \A n \in Video : n >= p
    BY <2>1, VideoFacts
  <2>3. CASE ~job.coarse
    <3>1. FineInLine(jpeg_idx)'
      BY <1>5, <1>9, <2>2 DEF FineInLine
    <3> QED
      BY <1>10, <2>3, <3>1 DEF InLine
  <2>4. CASE job.coarse
    <3>1. PICK first \in Video : Key(first) /\ First(first)
      BY VideoFacts
    <3>2. \A m \in Video : Key(m) => Raw(m) > time
      BY <1>6, <1>7, <1>11, VideoFacts
    <3>3. Anchor(jpeg_idx, first)
      BY <3>1, <3>2 DEF Anchor, time
    <3>4. FromHere(first)'
      BY <1>4, <1>5, <1>9, <2>2, <3>1 DEF FromHere
    <3>5. CoarseInLine(jpeg_idx)'
      BY <1>4, <1>5, <3>3, <3>4 DEF CoarseInLine
    <3> QED
      BY <1>10, <2>4, <3>5 DEF InLine
  <2> QED
    BY <1>10, <2>3, <2>4
<1>12. CASE KeysUpTo(time) # {}
  <2>1. p \in KeysUpTo(time) /\ \A m \in KeysUpTo(time) : m <= p
    BY <1>8, <1>12 DEF SeekTo
  <2>2. p \in Video /\ Key(p) /\ Raw(p) <= time /\ Raw(p) \in Int
    BY <1>7, <2>1, VideoFacts
  <2>3. CASE ~job.coarse
    <3>1. ASSUME NEW n \in Video, Raw(n) >= time + job.start PROVE Pending(n)'
      <4>1. Raw(n) \in Int /\ job.start \in Nat /\ n \in Nat
        BY VideoFacts
      <4>2. ~(Raw(n) < Raw(p))
        BY <1>6, <2>2, <3>1, <4>1
      <4>3. ~(n < p)
        BY <2>2, <4>2, VideoFacts
      <4> QED
        BY <1>3, <1>9, <4>1, <4>3
    <3>2. FineInLine(jpeg_idx)'
      BY <1>4, <1>5, <3>1 DEF FineInLine, time, Raw
    <3> QED
      BY <1>10, <2>3, <3>2 DEF InLine
  <2>4. CASE job.coarse
    <3>1. \A m \in Video : p < m /\ Key(m) => Raw(m) > time
      <4> SUFFICES ASSUME NEW m \in Video, p < m, Key(m) PROVE Raw(m) > time
        OBVIOUS
      <4>1. m \in Nat /\ Raw(m) \in Int
        BY VideoFacts
      <4>2. m \notin KeysUpTo(time)
        BY <1>3, <2>1, <4>1
      <4> QED
        BY <1>6, <1>7, <4>1, <4>2
    <3>2. Anchor(jpeg_idx, p)
      BY <2>2, <3>1 DEF Anchor, time
    <3>3. FromHere(p)'
      BY <1>3, <1>4, <1>5, <1>9 DEF FromHere
    <3>4. CoarseInLine(jpeg_idx)'
      BY <1>4, <1>5, <2>2, <3>2, <3>3 DEF CoarseInLine
    <3> QED
      BY <1>10, <2>4, <3>4 DEF InLine
  <2> QED
    BY <1>10, <2>3, <2>4
<1> QED
  BY <1>11, <1>12

-----------------------------------------------------------------------------
(* The steps                                                               *)

\* One more picture is written.
LEMMA AllRightGrows ==
  ASSUME JobOK, TypeOK, Extracts, job' = job, AllRight, failed \subseteq failed',
         \E n \in Nat \ {0}, last \in BOOLEAN :
           /\ images' = Append(images, [n |-> n, last |-> last])
           /\ \A k : k = jpeg_idx => Fits(k, n, last)'
  PROVE  AllRight'
<1> PICK n \in Nat \ {0}, last \in BOOLEAN :
      /\ images' = Append(images, [n |-> n, last |-> last])
      /\ \A k : k = jpeg_idx => Fits(k, n, last)'
  OBVIOUS
<1>1. /\ images \in Seq([n : Nat \ {0}, last : BOOLEAN]) /\ Len(images) = jpeg_idx - 1
      /\ jpeg_idx \in Int /\ Len(images) \in Nat
  BY JobFacts DEF TypeOK
<1> DEFINE e == [n |-> n, last |-> last]
<1>2. e \in [n : Nat \ {0}, last : BOOLEAN] /\ e.n = n /\ e.last = last
  OBVIOUS
<1>3. images' = Append(images, e)
  OBVIOUS
<1> HIDE DEF e
<1>4. /\ DOMAIN images = 1..Len(images) /\ DOMAIN images' = 1..(Len(images) + 1)
      /\ \A i \in DOMAIN images : images'[i] = images[i]
      /\ images'[Len(images) + 1] = e
  BY <1>1, <1>2, <1>3
<1>5. ASSUME NEW k \in DOMAIN images'
      PROVE  Fits(k, images[k].n, images[k].last)'
  <2>1. CASE k \in DOMAIN images
    <3>1. PICK m, l : m = images[k].n /\ l = images[k].last
      OBVIOUS
    <3>2. Fits(k, m, l) /\ images'[k] = images[k]
      BY <1>4, <1>5, <2>1, <3>1 DEF AllRight
    <3>3. k > 1 => images'[k - 1] = images[k - 1]
      BY <1>1, <1>4, <2>1
    <3>4. Fits(k, m, l)'
      BY <3>2, <3>3, FitsLasts
    <3> QED
      BY <3>1, <3>2, <3>4
  <2>2. CASE k \notin DOMAIN images
    <3>1. k = jpeg_idx /\ images'[k] = e
      BY <1>1, <1>4, <1>5, <2>2
    <3> QED
      BY <1>2, <1>5, <3>1
  <2> QED
    BY <2>1, <2>2
<1> QED
  BY <1>5 DEF AllRight

LEMMA ServesIsOver ==
  ASSUME JobOK, TypeOK, Extracts, Waiting,
         NEW picture, picture.n \in Video, picture.time = Raw(picture.n) - job.start
  PROVE  LET time == job.times[jpeg_idx]
         IN  /\ time \in Nat
             /\ Target(jpeg_idx, 0 - job.start) = time
             /\ Serves(picture, 0 - job.start)
                  <=> (job.coarse \/ Raw(picture.n) >= time + job.start)
<1>1. jpeg_idx \in 1..Requests /\ Requests \in Nat
  BY JobFacts DEF Waiting, TypeOK
<1>2. job.times[jpeg_idx] \in Nat
  BY <1>1, JobFacts
<1>3. job.start \in Nat /\ Raw(picture.n) \in Int /\ Raw(picture.n) >= job.start
  BY VideoFacts
<1>4. Target(jpeg_idx, 0 - job.start) = job.times[jpeg_idx]
  BY <1>2, <1>3 DEF Target
<1>5. Over(job.times[jpeg_idx], picture.time) <=> job.times[jpeg_idx] > picture.time
  BY <1>2, <1>3 DEF Over
<1>6. job.times[jpeg_idx] > picture.time <=> ~(Raw(picture.n) >= job.times[jpeg_idx] + job.start)
  BY <1>2, <1>3
<1> QED
  BY <1>2, <1>4, <1>5, <1>6 DEF Serves, Waiting

\* The picture that serves a request is the right one for it.
LEMMA ServedIsRight ==
  ASSUME JobOK, TypeOK, Extracts, InLine, Waiting,
         NEW n \in Video, job.coarse \/ Raw(n) >= job.times[jpeg_idx] + job.start,
         n = pos[1] \/ \E i \in DOMAIN decoder : decoder[i].n = n,
         \A m \in Video : Pending(m) /\ m < n => m \in failed
  PROVE  Right(jpeg_idx, n)
<1>1. n \in Nat /\ job.start \in Nat
  BY VideoFacts
<1>2. CASE ~job.coarse
  <2>1. \A m \in Video : m < n /\ Raw(m) >= job.times[jpeg_idx] + job.start =>
          m \in failed \/ Taken(jpeg_idx, m)
    BY <1>2 DEF InLine, FineInLine
  <2>2. Shows(jpeg_idx, n)
    BY <1>2, <2>1 DEF Shows, Taken
  <2> QED
    BY <1>2, <2>2 DEF Right
<1>3. CASE job.coarse
  <2>1. PICK key \in Video : Anchor(jpeg_idx, key) /\ FromHere(key)
    BY <1>3 DEF InLine, CoarseInLine
  <2>2. key \in Nat /\ Raw(key) \in Int /\ pos[1] \in Int
    BY VideoFacts DEF TypeOK
  <2>3. key <= n
    <3>1. CASE n = pos[1]
      BY <2>1, <2>2, <3>1 DEF FromHere, First
    <3>2. CASE \E i \in DOMAIN decoder : decoder[i].n = n
      BY <1>1, <2>1, <2>2, <3>2 DEF FromHere
    <3> QED
      BY <3>1, <3>2
  <2>4. ASSUME NEW m \in Video, key <= m, m < n PROVE m \in failed
    <3>1. m \in Nat
      BY VideoFacts
    <3> QED
      BY <2>1, <2>2, <2>4, <3>1 DEF FromHere
  <2>5. Raw(key) <= job.times[jpeg_idx] => Raw(key) <= job.times[jpeg_idx] + job.start
    <3>1. jpeg_idx \in 1..Requests /\ Requests \in Nat
      BY JobFacts DEF Waiting, TypeOK
    <3>2. job.times[jpeg_idx] \in Nat
      BY <3>1, JobFacts
    <3> QED
      BY <1>1, <2>2, <3>2
  <2>6. ShowsKey(jpeg_idx, n)
    BY <2>1, <2>3, <2>4, <2>5 DEF ShowsKey, Anchor, Key, First
  <2> QED
    BY <1>3, <2>6 DEF Right
<1> QED
  BY <1>2, <1>3

\* A step that neither reads nor seeks.
LEMMA Unmoved ==
  ASSUME JobOK, TypeOK, job' = job, PictureInv, Looping' => Looping,
         UNCHANGED <<pos, ts_offset, decoder, jpeg_idx, g_need_seek, images, failed>>,
         pc' = "read" /\ Waiting => ~g_need_seek
  PROVE  PictureInv'
<1> SUFFICES ASSUME Extracts' PROVE PictureInv'
  BY DEF PictureInv
<1>1. /\ Extracts' = Extracts /\ Requests' = Requests /\ Video' = Video
      /\ \A k, n : Anchor(k, n)' = Anchor(k, n)
      /\ \A n : First(n)' = First(n) /\ Raw(n)' = Raw(n)
  BY SameVideo
<1>2. /\ ts_offset[1] = 0 - job.start
      /\ Decoded
      /\ Looping => QueueOK
      /\ Looping /\ Waiting /\ ~g_need_seek /\ SeekFinds(jpeg_idx) => InLine
      /\ AllRight
  BY <1>1 DEF PictureInv
<1>3. Waiting' = Waiting
  BY <1>1 DEF Waiting
<1>4. \A n : Pending(n)' = Pending(n)
  BY DEF Pending, Held
<1>5. QueueOK' = QueueOK /\ Decoded' = Decoded
  BY <1>1, <1>4 DEF QueueOK, Decoded, Raw
<1>6. InLine' = InLine
  <2>1. \A n : FromHere(n)' = FromHere(n)
    BY <1>1, <1>4 DEF FromHere
  <2>2. CoarseInLine(jpeg_idx)' = CoarseInLine(jpeg_idx)
    BY <1>1, <2>1 DEF CoarseInLine
  <2>3. FineInLine(jpeg_idx)' = FineInLine(jpeg_idx)
    BY <1>1, <1>4 DEF FineInLine, Taken, Raw
  <2> QED
    BY <2>2, <2>3 DEF InLine
<1>7. AllRight'
  BY <1>1, <1>2, AllRightStays
<1>8. SeekFinds(jpeg_idx)' = SeekFinds(jpeg_idx)
  BY SameVideo
<1>9. Looping' => QueueOK'
  BY <1>2, <1>5
<1>10. Looping' /\ Waiting' /\ ~g_need_seek' /\ SeekFinds(jpeg_idx)' => InLine'
  BY <1>2, <1>3, <1>6, <1>8
<1> QED
  BY <1>2, <1>3, <1>5, <1>7, <1>9, <1>10 DEF PictureInv

\* A seek, or none when none is due.
LEMMA SeekStep ==
  ASSUME JobOK, TypeOK, job' = job, PictureInv, SeekForPicture
  PROVE  PictureInv'
<1>1. CASE ~(g_need_seek /\ Waiting)
  <2>1. UNCHANGED <<pos, ts_offset, decoder, jpeg_idx, g_need_seek, images, failed>>
    BY <1>1 DEF SeekForPicture, Waiting, clocks
  <2>2. Looping
    BY DEF SeekForPicture, Looping
  <2> QED
    BY <1>1, <2>1, <2>2, Unmoved
<1>2. CASE g_need_seek /\ Waiting
  <2> SUFFICES ASSUME Extracts' PROVE PictureInv'
    BY DEF PictureInv
  <2>1. Extracts /\ ts_offset[1] = 0 - job.start /\ AllRight
    BY SameVideo DEF PictureInv
  <2>2. (SeekFinds(jpeg_idx) => InLine') /\ QueueOK'
    BY <1>2, <2>1, SeekPutsInLine
  <2>3. /\ ~g_need_seek' /\ ts_offset' = ts_offset /\ images' = images
        /\ failed' = failed /\ jpeg_idx' = jpeg_idx
    BY <1>2 DEF SeekForPicture, Waiting, clocks
  <2>4. AllRight'
    BY <2>1, <2>3, AllRightStays
  <2>5. Decoded'
    BY <2>2 DEF QueueOK, Decoded
  <2>6. SeekFinds(jpeg_idx)' => InLine'
    BY <2>2, <2>3, SameVideo
  <2> QED
    BY <2>1, <2>2, <2>3, <2>4, <2>5, <2>6 DEF PictureInv
<1> QED
  BY <1>1, <1>2

\* A packet of no stream.
LEMMA DiscardStep ==
  ASSUME JobOK, TypeOK, job' = job, PictureInv, Discard
  PROVE  PictureInv'
<1> SUFFICES ASSUME Extracts' PROVE PictureInv'
  BY DEF PictureInv
<1>1. /\ Extracts /\ ts_offset[1] = 0 - job.start /\ AllRight
      /\ Looping => QueueOK
      /\ pc = "read" /\ Waiting => ~g_need_seek
      /\ Looping /\ Waiting /\ ~g_need_seek /\ SeekFinds(jpeg_idx) => InLine
  BY SameVideo DEF PictureInv
<1>2. /\ pc = "read" /\ pc' = "select" /\ Looping
      /\ UNCHANGED <<ts_offset, decoder, jpeg_idx, g_need_seek, images, failed>>
  BY DEF Discard, Finds, Reads, Consume, Looping, clocks, pictures
<1>3. file = 1
  BY <1>1, <1>2, VideoFacts DEF TypeOK
<1>4. pos'[1] = pos[1] + 1 /\ pos[1] \in Nat \ {0}
  BY <1>1, <1>3, VideoFacts DEF Discard, Consume, TypeOK
<1>5. pos[1] \notin Video
  <2>1. pos[1] \in 1..Len(job.input[1]) /\ job.input[1][pos[1]].ost = 0
    BY <1>1, <1>3, <1>4, VideoFacts DEF Discard, Finds
  <2> QED
    BY <1>1, <2>1, VideoFacts
<1>6. Video' = Video /\ (\A n : Raw(n)' = Raw(n)) /\ Waiting' = Waiting
  BY <1>2, SameVideo DEF Waiting
<1>7. ASSUME NEW n \in Video, Pending(n) PROVE Pending(n)'
  <2>1. n \in Nat /\ n # pos[1]
    BY <1>1, <1>5, VideoFacts
  <2>2. n \in failed \/ n >= pos[1] + 1 \/ Held(n)
    BY <1>4, <1>7, <2>1 DEF Pending
  <2>3. Held(n)' = Held(n)
    BY <1>2 DEF Held
  <2> QED
    BY <1>2, <1>4, <2>2, <2>3 DEF Pending
<1>8. QueueOK'
  <2>1. \A i \in DOMAIN decoder : decoder[i].n \in Nat
    BY <1>1, <1>2, VideoFacts DEF QueueOK
  <2> QED
    BY <1>1, <1>2, <1>4, <1>6, <1>7, <2>1 DEF QueueOK, Raw
<1>9. Waiting /\ ~g_need_seek /\ SeekFinds(jpeg_idx) => InLine'
  BY <1>1, <1>2, <1>4, <1>7, InLineStays
<1>10. AllRight'
  BY <1>1, <1>2, AllRightStays
<1>11. Decoded'
  BY <1>8 DEF QueueOK, Decoded
<1>12. SeekFinds(jpeg_idx)' = SeekFinds(jpeg_idx)
  BY <1>2, SameVideo
<1> QED
  BY <1>1, <1>2, <1>6, <1>8, <1>9, <1>10, <1>11, <1>12 DEF PictureInv

\* A packet that gives no picture.
LEMMA FedStep ==
  ASSUME JobOK, TypeOK, job' = job, PictureInv,
         NEW s \in Streams, DecodeNothing(s) \/ DecodeFails(s)
  PROVE  PictureInv'
<1> SUFFICES ASSUME Extracts' PROVE PictureInv'
  BY DEF PictureInv
<1>1. /\ Extracts /\ ts_offset[1] = 0 - job.start /\ AllRight
      /\ Looping => QueueOK
      /\ Looping /\ Waiting /\ ~g_need_seek /\ SeekFinds(jpeg_idx) => InLine
  BY SameVideo DEF PictureInv
<1>2. /\ Finds(s) /\ Consume /\ Realign(s) /\ pc = "read" /\ pc' = "select" /\ Looping
      /\ UNCHANGED <<jpeg_idx, g_need_seek, images>>
  BY DEF DecodeNothing, DecodeFails, Finds, Reads, Consume, Looping
<1>3. /\ pos'[1] = pos[1] + 1 /\ pos[1] \in Video /\ pos[1] \in Nat
      /\ QueueOK'
      /\ failed \subseteq failed'
      /\ \A n \in Video : Pending(n) => Pending(n)'
      /\ \A i \in DOMAIN decoder' :
           \/ decoder'[i].n = pos[1]
           \/ \E j \in DOMAIN decoder : decoder'[i].n = decoder[j].n
  BY <1>1, <1>2, FedStays
<1>4. ts_offset'[1] = 0 - job.start
  <2>1. file = 1 /\ Offset(s) = 0 - job.start
    BY <1>1, <1>2, Undisturbed
  <2> QED
    BY <1>1, <1>2, <2>1, VideoFacts DEF Realign, TypeOK
<1>5. Waiting' = Waiting
  BY <1>2, SameVideo DEF Waiting
<1>6. Waiting /\ ~g_need_seek /\ SeekFinds(jpeg_idx) => InLine'
  BY <1>1, <1>2, <1>3, InLineStays
<1>7. AllRight'
  BY <1>1, <1>2, <1>3, AllRightStays
<1>8. Decoded'
  BY <1>3 DEF QueueOK, Decoded
<1>9. SeekFinds(jpeg_idx)' = SeekFinds(jpeg_idx)
  BY <1>2, SameVideo
<1> QED
  BY <1>2, <1>3, <1>4, <1>5, <1>6, <1>7, <1>8, <1>9 DEF PictureInv

\* A picture that does not serve the next request leaves it in front.
LEMMA PassedBy ==
  ASSUME JobOK, TypeOK, Extracts, job' = job, FineInLine(jpeg_idx), Waiting,
         jpeg_idx' = jpeg_idx, images' = images,
         NEW n \in Video, ~(Raw(n) >= job.times[jpeg_idx] + job.start),
         \A m \in Video : Pending(m) /\ m # n => Pending(m)'
  PROVE  FineInLine(jpeg_idx)'
<1>1. Video' = Video /\ \A m : Raw(m)' = Raw(m)
  BY SameVideo
<1>2. ASSUME NEW m \in Video, Raw(m) >= job.times[jpeg_idx] + job.start
      PROVE  Pending(m)' \/ Taken(jpeg_idx, m)
  <2>1. m # n
    BY <1>2
  <2>2. Pending(m) \/ Taken(jpeg_idx, m)
    BY <1>2 DEF FineInLine
  <2> QED
    BY <2>1, <2>2
<1> QED
  BY <1>1, <1>2 DEF FineInLine, Taken, Raw

\* After a picture that served one request, reading on reaches the next if it is
\* not far away.
LEMMA ReadOn ==
  ASSUME JobOK, TypeOK, Extracts, job' = job, Waiting,
         jpeg_idx' = jpeg_idx + 1, jpeg_idx + 1 <= Requests,
         NEW n \in Video, \A m \in Video : m > n => Pending(m),
         NEW picture, picture.time = Raw(n) - job.start,
         ~FarAway(jpeg_idx + 1, picture, 0 - job.start),
         images'[jpeg_idx].n = n,
         \A m \in Video : Pending(m) /\ m # n => Pending(m)'
  PROVE  FineInLine(jpeg_idx)'
<1>1. Video' = Video /\ \A m : Raw(m)' = Raw(m)
  BY SameVideo
<1> DEFINE next == job.times[jpeg_idx + 1]
<1>2. jpeg_idx \in Nat \ {0} /\ next \in Nat /\ job.start \in Nat
  <2>1. /\ jpeg_idx \in 1..Requests /\ jpeg_idx + 1 \in 1..Requests
        /\ jpeg_idx \in Nat \ {0}
    <3>1. Requests \in Nat
      BY JobFacts
    <3>2. jpeg_idx \in 1..(Requests + 1)
      BY DEF TypeOK
    <3> QED
      BY <3>1, <3>2
  <2>2. \A k \in 1..Requests : job.times[k] \in Nat
    BY JobFacts
  <2>3. job.start \in Nat
    BY VideoFacts
  <2> QED
    BY <2>1, <2>2, <2>3
<1>3. Raw(n) \in Int /\ SeekGap \in Nat
  BY VideoFacts, BoundsAssumption
<1> HIDE DEF next
<1>4. next + job.start >= Raw(n)
  <2>1. Target(jpeg_idx + 1, 0 - job.start) = next
    BY <1>2 DEF Target, next
  <2>2. ~Over(next - (Raw(n) - job.start), SeekGap)
    BY <2>1 DEF FarAway
  <2>3. next - (Raw(n) - job.start) \in Int
    BY <1>2, <1>3
  <2>4. ~(next - (Raw(n) - job.start) < 0)
    BY <1>3, <2>2, <2>3 DEF Over
  <2> QED
    BY <1>2, <1>3, <2>4
<1>5. ASSUME NEW m \in Video, Raw(m) >= next + job.start
      PROVE  Pending(m)' \/ (m = n /\ Raw(m) = next + job.start)
  <2>1. Raw(m) \in Int
    BY VideoFacts
  <2>2. CASE m = n
    BY <1>2, <1>3, <1>4, <1>5, <2>1, <2>2
  <2>3. CASE m # n
    <3>1. n \in Nat /\ m \in Nat /\ (m < n <=> Raw(m) < Raw(n))
      BY VideoFacts
    <3>2. n < m
      BY <1>2, <1>3, <1>4, <1>5, <2>1, <2>3, <3>1
    <3>3. Pending(m)
      BY <3>1, <3>2
    <3> QED
      BY <2>3, <3>3
  <2> QED
    BY <2>2, <2>3
<1> QED
  BY <1>1, <1>2, <1>5 DEF FineInLine, Taken, Raw, next

LEMMA PictureStep ==
  ASSUME JobOK, TypeOK, job' = job, PictureInv, NEW s \in Streams, DecodePicture(s)
  PROVE  PictureInv'
<1> SUFFICES ASSUME Extracts' PROVE PictureInv'
  BY DEF PictureInv
<1>1. /\ Extracts /\ ts_offset[1] = 0 - job.start /\ AllRight
      /\ Looping => QueueOK
      /\ pc = "read" /\ Waiting => ~g_need_seek
      /\ Looping /\ Waiting /\ ~g_need_seek /\ SeekFinds(jpeg_idx) => InLine
  BY SameVideo DEF PictureInv
<1>2. /\ Finds(s) /\ Consume /\ Realign(s) /\ pc = "read" /\ pc' = "select" /\ Looping
      /\ Offer(Head(Fed(s)), Offset(s), FALSE)
  BY DEF DecodePicture, Finds, Reads, Consume, Looping
<1>3. Waiting
  BY <1>1, <1>2, JobFacts DEF Finds, Reads, AllRequestsServed, Waiting, TypeOK, Extracts
<1>4. QueueOK /\ ~g_need_seek /\ (SeekFinds(jpeg_idx) => InLine)
  BY <1>1, <1>2, <1>3
<1> DEFINE p == Head(Fed(s))
<1>5. /\ pos'[1] = pos[1] + 1
      /\ p.n \in Video /\ p.n < pos[1] + 1
      /\ p.time = Raw(p.n) - job.start
      /\ p.n = pos[1] \/ \E i \in DOMAIN decoder : decoder[i].n = p.n
      /\ QueueOK'
      /\ failed' = failed
      /\ \A n \in Video : Pending(n) /\ n < p.n => n \in failed
      /\ \A n \in Video : Pending(n) /\ n # p.n => Pending(n)'
      /\ \A n \in Video : n > p.n => Pending(n)
  BY <1>1, <1>2, <1>4, TakenFromQueue
<1>6. file = 1 /\ Offset(s) = 0 - job.start
  BY <1>1, <1>2, Undisturbed
<1>7. ts_offset'[1] = 0 - job.start
  BY <1>1, <1>2, <1>6, VideoFacts DEF Realign, TypeOK
<1> HIDE DEF p
<1>8. Offer(p, 0 - job.start, FALSE)
  BY <1>2, <1>6 DEF p
<1>9. /\ job.times[jpeg_idx] \in Nat
      /\ Serves(p, 0 - job.start)
           <=> (job.coarse \/ Raw(p.n) >= job.times[jpeg_idx] + job.start)
  BY <1>1, <1>3, <1>5, ServesIsOver
<1>10. PICK n \in Video : n = p.n
  BY <1>5
<1>13. Decoded'
  BY <1>5 DEF QueueOK, Decoded
<1>11. CASE ~Serves(p, 0 - job.start)
  <2>1. UNCHANGED <<images, jpeg_idx, g_need_seek>>
    BY <1>8, <1>11 DEF Offer
  <2>2. ~job.coarse /\ ~(Raw(n) >= job.times[jpeg_idx] + job.start)
    BY <1>9, <1>10, <1>11
  <2>3. ASSUME SeekFinds(jpeg_idx) PROVE InLine'
    <3>1. FineInLine(jpeg_idx)
      BY <1>4, <2>2, <2>3 DEF InLine
    <3>2. FineInLine(jpeg_idx)'
      BY <1>1, <1>3, <1>5, <1>10, <2>1, <2>2, <3>1, PassedBy
    <3> QED
      BY <2>2, <3>2 DEF InLine
  <2>4. SeekFinds(jpeg_idx)' = SeekFinds(jpeg_idx)
    BY <2>1, SameVideo
  <2>5. AllRight'
    BY <1>1, <1>5, <2>1, AllRightStays
  <2> QED
    BY <1>2, <1>5, <1>7, <1>13, <2>3, <2>4, <2>5 DEF PictureInv
<1>12. CASE Serves(p, 0 - job.start)
  <2>1. /\ images' = Append(images, [n |-> n, last |-> FALSE])
        /\ jpeg_idx' = jpeg_idx + 1
        /\ g_need_seek' = (/\ jpeg_idx + 1 <= Requests
                           /\ job.coarse \/ FarAway(jpeg_idx + 1, p, 0 - job.start))
    BY <1>4, <1>8, <1>10, <1>12 DEF Offer
  <2>2. /\ images \in Seq([n : Nat \ {0}, last : BOOLEAN]) /\ Len(images) = jpeg_idx - 1
        /\ jpeg_idx \in Int /\ Len(images) \in Nat /\ n \in Nat \ {0}
    BY <1>1, JobFacts, VideoFacts DEF TypeOK
  <2> DEFINE e == [n |-> n, last |-> FALSE]
  <2>3. e \in [n : Nat \ {0}, last : BOOLEAN] /\ e.n = n
    BY <2>2
  <2>4. images' = Append(images, e)
    BY <2>1
  <2> HIDE DEF e
  <2>5. /\ \A i \in 1..Len(images) : images'[i] = images[i]
        /\ images'[Len(images) + 1] = e
    BY <2>2, <2>3, <2>4
  <2>6. images'[jpeg_idx].n = n
    BY <2>2, <2>3, <2>5
  <2>7. ASSUME NEW k, k = jpeg_idx PROVE Fits(k, n, FALSE)'
    <3>1. SeekFinds(jpeg_idx) => Right(jpeg_idx, n)
      BY <1>1, <1>3, <1>4, <1>5, <1>9, <1>10, <1>12, ServedIsRight
    <3>2. NotBefore(jpeg_idx, n)
      BY <1>9, <1>10, <1>12 DEF NotBefore
    <3>3. Fits(jpeg_idx, n, FALSE)
      BY <3>1, <3>2 DEF Fits
    <3>4. k > 1 => images'[k - 1] = images[k - 1]
      BY <2>2, <2>5, <2>7
    <3> QED
      BY <1>5, <2>7, <3>3, <3>4, FitsLasts
  <2>8. AllRight'
    <3>1. \E m \in Nat \ {0}, last \in BOOLEAN :
            /\ images' = Append(images, [n |-> m, last |-> last])
            /\ \A k : k = jpeg_idx => Fits(k, m, last)'
      BY <2>1, <2>2, <2>7
    <3> QED
      BY <1>1, <1>5, <3>1, AllRightGrows
  <2>9. ASSUME Waiting', ~g_need_seek' PROVE InLine'
    <3>1. jpeg_idx + 1 <= Requests
      BY <2>1, <2>9 DEF Waiting, Requests
    <3>2. ~job.coarse /\ ~FarAway(jpeg_idx + 1, p, 0 - job.start)
      BY <2>1, <2>9, <3>1
    <3>3. \A m \in Video : m > n => Pending(m)
      BY <1>5, <1>10
    <3>4. p.time = Raw(n) - job.start
      BY <1>5, <1>10
    <3>5. \A m \in Video : Pending(m) /\ m # n => Pending(m)'
      BY <1>5, <1>10
    <3>6. FineInLine(jpeg_idx)'
      BY <1>1, <1>3, <2>1, <2>6, <3>1, <3>2, <3>3, <3>4, <3>5, ReadOn
    <3> QED
      BY <3>2, <3>6 DEF InLine
  <2> QED
    BY <1>2, <1>5, <1>7, <1>13, <2>8, <2>9 DEF PictureInv
<1> QED
  BY <1>11, <1>12

\* A picture from the final flush.
LEMMA FlushStep ==
  ASSUME JobOK, TypeOK, job' = job, PictureInv, FlushPicture
  PROVE  PictureInv'
<1> SUFFICES ASSUME Extracts' PROVE PictureInv'
  BY DEF PictureInv
<1>1. Extracts /\ ts_offset[1] = 0 - job.start /\ AllRight /\ Decoded
  BY SameVideo DEF PictureInv
<1>2. /\ ~Looping' /\ pc' = "flush" /\ ts_offset' = ts_offset /\ failed' = failed
      /\ decoder # <<>> /\ Offer(Head(decoder), ts_offset[1], TRUE) /\ Waiting
      /\ decoder' = Tail(decoder)
  BY DEF FlushPicture, Flushable, Looping, Waiting, clocks
<1>4. /\ Head(decoder).n \in Video
      /\ Head(decoder).time = Raw(Head(decoder).n) - job.start
  <2>1. 1 \in DOMAIN decoder /\ Head(decoder) = decoder[1]
    BY <1>2 DEF TypeOK
  <2> QED
    BY <1>1, <2>1 DEF Decoded
<1>5. Decoded'
  <2>1. /\ Len(decoder) \in Nat /\ DOMAIN decoder = 1..Len(decoder)
        /\ DOMAIN decoder' = 1..(Len(decoder) - 1)
        /\ \A i \in 1..(Len(decoder) - 1) : decoder'[i] = decoder[i + 1]
    BY <1>2 DEF TypeOK
  <2>2. Video' = Video /\ (\A n : Raw(n)' = Raw(n)) /\ job.start' = job.start
    BY SameVideo
  <2>3. \A i \in DOMAIN decoder' : i + 1 \in DOMAIN decoder /\ decoder'[i] = decoder[i + 1]
    BY <2>1
  <2> QED
    BY <1>1, <2>2, <2>3 DEF Decoded
<1>3. AllRight'
  <2>1. CASE Serves(Head(decoder), ts_offset[1])
    <3>1. decoder \in Seq([n : Nat \ {0}, time : Int])
      BY DEF TypeOK
    <3>2. Head(decoder) \in [n : Nat \ {0}, time : Int]
      BY <1>2, <3>1, QueueFacts
    <3>3. /\ images' = Append(images, [n |-> Head(decoder).n, last |-> TRUE])
          /\ Head(decoder).n \in Nat \ {0}
      BY <1>2, <2>1, <3>2 DEF Offer
    <3>4. \E m \in Nat \ {0}, last \in BOOLEAN :
            /\ images' = Append(images, [n |-> m, last |-> last])
            /\ \A k : k = jpeg_idx => Fits(k, m, last)'
      <4>1. PICK m : m = Head(decoder).n
        OBVIOUS
      <4>2. NotBefore(jpeg_idx, m)
        BY <1>1, <1>2, <1>4, <2>1, <4>1, ServesIsOver DEF NotBefore
      <4>3. \A k : k = jpeg_idx => Fits(k, m, TRUE)'
        BY <4>2, SameVideo DEF Fits
      <4> QED
        BY <3>3, <4>1, <4>3
    <3> QED
      BY <1>1, <1>2, <3>4, AllRightGrows
  <2>2. CASE ~Serves(Head(decoder), ts_offset[1])
    <3>1. images' = images
      BY <1>2, <2>2 DEF Offer
    <3> QED
      BY <1>1, <1>2, <3>1, AllRightStays
  <2> QED
    BY <2>1, <2>2
<1> QED
  BY <1>1, <1>2, <1>3, <1>5 DEF PictureInv

-----------------------------------------------------------------------------
(* The theorem                                                             *)

LEMMA InitPictures == Init => PictureInv
<1> SUFFICES ASSUME Init, Extracts PROVE PictureInv
  BY DEF PictureInv
<1>1. JobOK
  BY InitTypes
<1>2. ts_offset[1] = 0 - job.start
  <2>1. IsJob(job) /\ job.getjpeg
    BY <1>1, JobsAssumption DEF JobOK, Extracts
  <2>2. job.offset[1] = 0 - job.start
    BY <2>1 DEF IsJob
  <2> QED
    BY <2>2 DEF Init
<1>3. decoder = <<>> /\ images = <<>> /\ pc = "select" /\ g_need_seek
  BY DEF Init
<1>4. QueueOK /\ Decoded
  BY <1>3 DEF QueueOK, Decoded
<1>5. AllRight
  BY <1>3 DEF AllRight
<1> QED
  BY <1>2, <1>3, <1>4, <1>5 DEF PictureInv

LEMMA PictureInvStep ==
  ASSUME JobOK, TypeOK, PictureInv, [Next]_vars
  PROVE  PictureInv'
<1>1. job' = job
  BY NextKeepsJob
<1>2. CASE ~Extracts
  BY <1>1, <1>2, SameVideo DEF PictureInv
<1>3. CASE Extracts
  <2>1. job.getjpeg /\ (pc = "read" /\ Waiting => ~g_need_seek)
    BY <1>3 DEF PictureInv, Extracts
  <2> DEFINE Same == UNCHANGED <<pos, ts_offset, decoder, jpeg_idx, g_need_seek,
                                 images, failed>>
  <2>2. CASE Select
    <3>1. Same /\ Looping /\ pc' = "seek"
      BY <2>1, <2>2 DEF Select, Looping, reading, clocks, pictures
    <3> QED
      BY <1>1, <3>1, Unmoved
  <2>3. CASE Retry
    <3>1. Same /\ Looping /\ pc' = "select"
      BY <2>3 DEF Retry, Looping, clocks, pictures
    <3> QED
      BY <1>1, <3>1, Unmoved
  <2>4. CASE LeaveLoop \/ LeaveServed
    <3>1. Same /\ Looping /\ pc' = "flush"
      BY <2>4 DEF LeaveLoop, LeaveServed, Looping, reading, clocks, pictures
    <3> QED
      BY <1>1, <3>1, Unmoved
  <2>5. CASE ReadAgain \/ EndOfFile
    <3>1. Same /\ Looping /\ pc' = "select"
      BY <2>5 DEF ReadAgain, EndOfFile, Reads, Looping, clocks, pictures
    <3> QED
      BY <1>1, <3>1, Unmoved
  <2>6. CASE FlushEnd
    <3>1. Same /\ ~Looping' /\ pc' = "done"
      BY <2>6 DEF FlushEnd, Looping, reading, clocks, pictures
    <3> QED
      BY <1>1, <3>1, Unmoved
  <2>7. CASE Stop \/ UNCHANGED vars
    <3>1. Same /\ pc' = pc
      BY <2>7 DEF Stop, vars, reading, clocks, pictures
    <3>2. Looping' = Looping
      BY <3>1 DEF Looping
    <3> QED
      BY <1>1, <2>1, <3>1, <3>2, Unmoved
  <2>8. CASE SeekForPicture
    BY <1>1, <2>8, SeekStep
  <2>9. CASE Discard
    BY <1>1, <2>9, DiscardStep
  <2>10. CASE \E s \in Streams : CopyPacket(s) \/ WriteFails(s)
    BY <2>1, <2>10 DEF CopyPacket, WriteFails
  <2>11. CASE \E s \in Streams : DecodeFails(s) \/ DecodeNothing(s)
    BY <1>1, <2>11, FedStep
  <2>12. CASE \E s \in Streams : DecodePicture(s)
    BY <1>1, <2>12, PictureStep
  <2>13. CASE FlushPicture
    BY <1>1, <2>13, FlushStep
  <2> QED
    BY <2>2, <2>3, <2>4, <2>5, <2>6, <2>7, <2>8, <2>9, <2>10, <2>11, <2>12, <2>13
       DEF Next, Loop
<1> QED
  BY <1>2, <1>3

\* Pictures belong to the requests whose names they bear (check_output_constraints,
\* the decision to seek in transcode_video, the seek and the flush in transcode):
\* none is from before its request's time, and one written before the loop ends is
\* the right one if the seek for its request cannot fail.
THEOREM PicturesAreRight == Spec => []PictureIsRight
<1>1. Init => PictureInv
  BY InitPictures
<1>2. PictureInv /\ IInv /\ [Next]_vars => PictureInv'
  BY PictureInvStep DEF IInv
<1>3. PictureInv => PictureIsRight
  BY DEF PictureInv, AllRight, Fits, NotBefore, Right, Extracts, PictureIsRight
<1> QED
  BY <1>1, <1>2, <1>3, Invariance, PTL DEF Spec

-----------------------------------------------------------------------------
(* No request is left out                                                  *)

\* The decoder holds no more pictures than its queue is long.
LEMMA HeldBound ==
  ASSUME TypeOK, NEW S, \A n \in S : Held(n)
  PROVE  IsFiniteSet(S) /\ Cardinality(S) <= Len(decoder)
<1> DEFINE D == 1..Len(decoder)
           f == [n \in S |-> CHOOSE i \in D : decoder[i].n = n]
<1>1. Len(decoder) \in Nat /\ DOMAIN decoder = D
  BY DEF TypeOK
<1>2. \A n \in S : f[n] \in D /\ decoder[f[n]].n = n
  BY <1>1 DEF Held
<1>3. f \in [S -> D]
  BY <1>2
<1> HIDE DEF f
<1>4. f \in Injection(S, D)
  BY <1>2, <1>3 DEF Injection, IsInjective
<1>5. IsFiniteSet(D) /\ Cardinality(D) = Len(decoder)
  <2>1. ASSUME NEW l \in Nat PROVE IsFiniteSet(1..l) /\ Cardinality(1..l) = l
    <3>1. 1 \in Int /\ l \in Int
      OBVIOUS
    <3>2. IsFiniteSet(1..l) /\ Cardinality(1..l) = IF 1 > l THEN 0 ELSE l - 1 + 1
      BY <3>1, FS_Interval
    <3> QED
      BY <3>2
  <2> QED
    BY <1>1, <2>1
<1> HIDE DEF D
<1> QED
  BY <1>4, <1>5, FS_Injection

\* There is a picture for every request and no seek for it can fail, and every
\* packet decoded so far.
AllReachable == failed = {} /\ \A k \in 1..Requests : Reachable(k) /\ SeekFinds(k)

\* The end of the file is not met while a request waits: the decoder would have
\* to hold back more pictures than its delay.
LEMMA NoEndWhileWaiting ==
  ASSUME JobOK, TypeOK, Extracts, AllReachable, QueueOK, Waiting, InLine,
         pos[1] > Len(job.input[1])
  PROVE  FALSE
<1> DEFINE k == jpeg_idx
<1>1. k \in 1..Requests /\ Reachable(k)
  BY JobFacts DEF TypeOK, Waiting, AllReachable
<1>2. /\ job.delay \in Nat /\ Len(decoder) \in Nat /\ Len(decoder) <= job.delay
      /\ job.times[k] \in Nat /\ job.start \in Nat
  BY <1>1, JobFacts, VideoFacts DEF TypeOK
<1>3. \A n \in Video : /\ n \in Nat /\ Raw(n) \in Int
                       /\ Pending(n) => Held(n)
  <2>1. pos[1] \in Nat /\ Len(job.input[1]) \in Nat
    BY VideoFacts DEF TypeOK
  <2>2. \A n \in Video : n \in Nat /\ Raw(n) \in Int /\ n <= Len(job.input[1])
    BY VideoFacts
  <2> QED
    BY <2>1, <2>2 DEF Pending, AllReachable
<1>4. CASE ~job.coarse
  <2>1. FineInLine(k)
    BY <1>4 DEF InLine
  <2>2. PICK n \in Video : Raw(n) >= job.times[k] + job.start /\ Behind(n) > job.delay
    BY <1>1, <1>4 DEF Reachable
  <2> DEFINE B == {m \in Video : m > n}
  <2>3. ASSUME NEW m \in B PROVE Held(m)
    <3>1. Raw(m) > Raw(n)
      BY <1>3, VideoFacts
    <3>2. Raw(m) >= job.times[k] + job.start /\ Raw(m) # job.times[k] + job.start
      BY <1>2, <1>3, <2>2, <3>1
    <3>3. Pending(m)
      BY <2>1, <3>2 DEF FineInLine, Taken
    <3> QED
      BY <1>3, <3>3
  <2>4. Behind(n) <= Len(decoder) /\ Behind(n) \in Nat
    <3> HIDE DEF B
    <3>1. IsFiniteSet(B) /\ Cardinality(B) <= Len(decoder)
      BY <2>3, HeldBound
    <3>2. Cardinality(B) \in Nat
      BY <3>1, FS_CardinalityType
    <3> QED
      BY <3>1, <3>2 DEF Behind, B
  <2> QED
    BY <1>2, <2>2, <2>4
<1>5. CASE job.coarse
  <2>1. PICK key \in Video : Anchor(k, key) /\ FromHere(key)
    BY <1>5 DEF InLine, CoarseInLine
  <2>2. PICK n \in Video :
          /\ Key(n)
          /\ Raw(n) <= job.times[k] \/ First(n)
          /\ \A m \in Video : m > n /\ Key(m) => Raw(m) > job.times[k]
          /\ Behind(n) >= job.delay
    BY <1>1, <1>5 DEF Reachable, Key, First
  <2>3. n = key
    <3>1. n \in Nat /\ key \in Nat /\ Raw(n) \in Int /\ Raw(key) \in Int
      BY <1>3
    <3>2. ~(n < key)
      <4>1. ASSUME n < key PROVE FALSE
        <5>1. Raw(key) > job.times[k]
          BY <2>1, <2>2, <3>1, <4>1 DEF Anchor
        <5>2. First(key)
          BY <1>2, <2>1, <3>1, <5>1 DEF Anchor
        <5> QED
          BY <3>1, <4>1, <5>2 DEF First
      <4> QED
        BY <4>1
    <3>3. ~(key < n)
      <4>1. ASSUME key < n PROVE FALSE
        <5>1. Raw(n) > job.times[k]
          BY <2>1, <2>2, <4>1 DEF Anchor
        <5>2. First(n)
          BY <1>2, <2>2, <3>1, <5>1
        <5> QED
          BY <3>1, <4>1, <5>2 DEF First
      <4> QED
        BY <4>1
    <3> QED
      BY <3>1, <3>2, <3>3
  <2> DEFINE B == {m \in Video : m > n}
  <2>4. \A m \in B \cup {n} : Held(m)
    BY <1>3, <2>1, <2>3 DEF FromHere
  <2>5. n \notin B
    BY <1>3
  <2>6. Behind(n) = Cardinality(B)
    BY DEF Behind
  <2> HIDE DEF B
  <2>7. IsFiniteSet(B) /\ IsFiniteSet(B \cup {n}) /\ Cardinality(B \cup {n}) <= Len(decoder)
    BY <2>4, HeldBound
  <2>8. Cardinality(B \cup {n}) = Cardinality(B) + 1 /\ Cardinality(B) \in Nat
    BY <2>5, <2>7, FS_AddElement, FS_CardinalityType
  <2> QED
    BY <1>2, <2>2, <2>6, <2>7, <2>8
<1> QED
  BY <1>4, <1>5

\* With such a file the loop is left only when all requests are served, and no
\* picture comes after it.
NoneLast == \A k \in DOMAIN images : ~images[k].last
ServedInv ==
  Extracts /\ AllReachable =>
    /\ ~eof_reached[1] /\ ~is_past[1]
    /\ Looping => NoneLast
    /\ pc # "exit"
    /\ pc \in {"flush", "done"} /\ ~received_sigterm => ~Waiting /\ NoneLast

LEMMA SameReachable ==
  ASSUME job' = job
  PROVE  \A k : Reachable(k)' = Reachable(k)
<1>1. Video' = Video /\ \A n : Raw(n)' = Raw(n)
  BY SameVideo
<1>2. \A n : Behind(n)' = Behind(n)
  BY <1>1 DEF Behind
<1> QED
  BY <1>1, <1>2 DEF Reachable, Raw

LEMMA ServedStep ==
  ASSUME JobOK, TypeOK, PictureInv, ServedInv, [Next]_vars
  PROVE  ServedInv'
<1>1. job' = job
  BY NextKeepsJob
<1>2. Extracts' = Extracts /\ Requests' = Requests
  BY <1>1, SameVideo
<1>3. failed \subseteq failed'
  BY DEF Next, Loop, Select, Retry, LeaveLoop, SeekForPicture, LeaveServed, ReadAgain, EndOfFile,
     Discard, CopyPacket, WriteFails, DecodeFails, DecodeNothing, DecodePicture, FlushPicture,
     FlushEnd, Stop, vars, pictures
<1>4. AllReachable' => AllReachable
  BY <1>1, <1>2, <1>3, SameReachable, SameVideo DEF AllReachable
<1> SUFFICES ASSUME Extracts, AllReachable, AllReachable' PROVE ServedInv'
  BY <1>2, <1>4 DEF ServedInv
<1>5. /\ ~eof_reached[1] /\ ~is_past[1]
      /\ Looping => NoneLast
      /\ pc # "exit"
      /\ pc \in {"flush", "done"} /\ ~received_sigterm => ~Waiting /\ NoneLast
  BY DEF ServedInv
<1>6. Files = {1} /\ Streams = {1} /\ job.getjpeg /\ 1 \in Files /\ 1 \in Streams
  BY VideoFacts DEF Extracts
<1>7. ASSUME UNCHANGED <<eof_reached, is_past, images, jpeg_idx>>,
             Looping' => Looping, pc' # "exit",
             pc' \in {"flush", "done"} /\ ~received_sigterm' =>
               \/ pc \in {"flush", "done"} /\ ~received_sigterm
               \/ ~Waiting /\ Looping
      PROVE  ServedInv'
  <2>1. NoneLast' = NoneLast /\ Waiting' = Waiting
    BY <1>2, <1>7 DEF NoneLast, Waiting
  <2> QED
    BY <1>5, <1>7, <2>1 DEF ServedInv
<1> DEFINE Still == UNCHANGED <<eof_reached, is_past, images, jpeg_idx>>
<1>8. CASE Select
  <2>1. Still /\ Looping /\ pc' = "seek"
    BY <1>6, <1>8 DEF Select, Looping, reading, copying, pictures
  <2> QED
    BY <1>7, <2>1
<1>9. CASE Retry
  <2>1. Still /\ Looping /\ pc' = "select"
    BY <1>9 DEF Retry, Looping, copying, pictures
  <2> QED
    BY <1>7, <2>1
<1>10. CASE LeaveLoop
  <2>1. Still /\ Looping /\ pc' = "flush" /\ UNCHANGED received_sigterm
    BY <1>10 DEF LeaveLoop, Looping, reading, copying, pictures
  <2>2. received_sigterm
    <3>1. ASSUME NoneEligible, ~SomeNoPacket PROVE FALSE
      <4>1. job.fileOf[1] = 1
        BY <1>6, JobFacts
      <4>2. ~no_packet[1]
        BY <1>6, <3>1 DEF SomeNoPacket
      <4>3. Eligible(1)
        BY <1>5, <4>1, <4>2 DEF Eligible
      <4> QED
        BY <1>6, <3>1, <4>3 DEF NoneEligible
    <3> QED
      BY <1>10, <3>1 DEF LeaveLoop
  <2> QED
    BY <1>7, <2>1, <2>2
<1>11. CASE SeekForPicture
  <2>1. Still /\ Looping /\ pc' = "read"
    BY <1>11 DEF SeekForPicture, Looping, copying
  <2> QED
    BY <1>7, <2>1
<1>12. CASE LeaveServed
  <2>1. Still /\ Looping /\ pc' = "flush" /\ ~Waiting
    <3>1. jpeg_idx > Requests /\ Requests \in Nat /\ jpeg_idx \in Nat
      BY <1>12, JobFacts DEF LeaveServed, AllRequestsServed, TypeOK
    <3> QED
      BY <1>12, <3>1 DEF LeaveServed, Looping, Waiting, reading, copying, pictures
  <2> QED
    BY <1>7, <2>1
<1>13. CASE ReadAgain
  <2>1. Still /\ Looping /\ pc' = "select"
    BY <1>13 DEF ReadAgain, Reads, Looping, copying, pictures
  <2> QED
    BY <1>7, <2>1
<1>14. CASE EndOfFile
  <2>1. pc = "read" /\ Looping /\ Waiting /\ file = 1 /\ pos[1] > Len(job.input[1])
    <3>1. pc = "read" /\ ~(jpeg_idx > Requests) /\ pos[file] > Len(job.input[file])
      BY <1>6, <1>14 DEF EndOfFile, Reads, AllRequestsServed
    <3>2. Requests \in Nat /\ jpeg_idx \in Nat /\ file = 1
      BY <1>6, <3>1, JobFacts DEF TypeOK
    <3> QED
      BY <3>1, <3>2 DEF Looping, Waiting
  <2>2. SeekFinds(jpeg_idx)
    <3>1. jpeg_idx \in 1..Requests
      BY <2>1, JobFacts DEF Waiting, TypeOK
    <3> QED
      BY <3>1 DEF AllReachable
  <2>3. QueueOK /\ InLine
    BY <2>1, <2>2 DEF PictureInv
  <2> QED
    BY <2>1, <2>3, NoEndWhileWaiting
<1>15. CASE Discard
  <2>1. Still /\ Looping /\ pc' = "select"
    BY <1>15 DEF Discard, Finds, Reads, Consume, Looping, copying, pictures
  <2> QED
    BY <1>7, <2>1
<1>16. CASE \E s \in Streams : CopyPacket(s) \/ WriteFails(s)
  BY <1>6, <1>16 DEF CopyPacket, WriteFails
<1>17. CASE \E s \in Streams : DecodeFails(s) \/ DecodeNothing(s)
  <2>1. Still /\ Looping /\ pc' = "select"
    BY <1>17 DEF DecodeFails, DecodeNothing, Finds, Reads, Consume, Looping, copying
  <2> QED
    BY <1>7, <2>1
<1>18. ASSUME NEW s \in Streams, DecodePicture(s)
       PROVE  ServedInv'
  <2> DEFINE p == Head(Fed(s))
  <2>1. /\ UNCHANGED <<eof_reached, is_past>> /\ Looping /\ pc' = "select"
        /\ Finds(s) /\ Offer(p, Offset(s), FALSE)
    BY <1>18 DEF DecodePicture, Finds, Reads, Consume, Looping, copying
  <2>2. p \in [n : Nat \ {0}, time : Int]
    BY <2>1, FedFacts
  <2> HIDE DEF p
  <2>3. images \in Seq([n : Nat \ {0}, last : BOOLEAN])
    BY DEF TypeOK
  <2>4. NoneLast'
    <3>1. CASE Serves(p, Offset(s))
      <4> DEFINE e == [n |-> p.n, last |-> FALSE]
      <4>1. e \in [n : Nat \ {0}, last : BOOLEAN] /\ ~e.last
        BY <2>2
      <4>2. images' = Append(images, e)
        BY <2>1, <3>1 DEF Offer
      <4> HIDE DEF e
      <4>3. \A k \in DOMAIN images' : images'[k] = e \/ (k \in DOMAIN images /\ images'[k] = images[k])
        BY <2>3, <4>1, <4>2
      <4> QED
        BY <1>5, <2>1, <4>1, <4>3 DEF NoneLast
    <3>2. CASE ~Serves(p, Offset(s))
      BY <1>5, <2>1, <3>2 DEF Offer, NoneLast
    <3> QED
      BY <3>1, <3>2
  <2> QED
    BY <1>5, <2>1, <2>4 DEF ServedInv
<1>19. CASE FlushPicture
  <2>1. /\ UNCHANGED <<eof_reached, is_past, received_sigterm>> /\ pc = "flush" /\ pc' = "flush"
        /\ Waiting
    BY <1>19 DEF FlushPicture, Flushable, Waiting, reading, copying
  <2>2. ~Looping'
    BY <2>1 DEF Looping
  <2> QED
    BY <1>5, <2>1, <2>2 DEF ServedInv
<1>20. CASE FlushEnd
  <2>1. Still /\ ~Looping' /\ pc = "flush" /\ pc' = "done" /\ UNCHANGED received_sigterm
    BY <1>20 DEF FlushEnd, Looping, reading, copying, pictures
  <2> QED
    BY <1>7, <2>1
<1>21. CASE Stop \/ UNCHANGED vars
  <2>1. Still /\ pc' = pc /\ (~received_sigterm' => ~received_sigterm)
    BY <1>21 DEF Stop, vars, reading, copying, pictures
  <2>2. Looping' = Looping
    BY <2>1 DEF Looping
  <2> QED
    BY <1>5, <1>7, <2>1, <2>2
<1> QED
  BY <1>8, <1>9, <1>10, <1>11, <1>12, <1>13, <1>14, <1>15, <1>16, <1>17, <1>18, <1>19, <1>20,
     <1>21 DEF Next, Loop

LEMMA InitServed == Init => ServedInv
<1> SUFFICES ASSUME Init, Extracts PROVE ServedInv
  BY DEF ServedInv
<1>1. JobOK
  BY InitTypes
<1>2. 1 \in Files /\ 1 \in Streams
  BY <1>1, VideoFacts
<1> QED
  BY <1>2 DEF Init, ServedInv, NoneLast

\* No request is left out (jpeg_idx, g_need_seek and eof_reached in transcode and
\* transcode_video): a job whose seeks cannot fail and that runs to its end without
\* a decoding error has written a picture for each, however far back or ahead of the
\* last it was. The end of a file is never met while a request waits.
THEOREM RequestsAreServed == Spec => []AllServed
<1>1. Spec => []PictureInv
  <2>1. PictureInv /\ IInv /\ [Next]_vars => PictureInv'
    BY PictureInvStep DEF IInv
  <2> QED
    BY <2>1, InitPictures, Invariance, PTL DEF Spec
<1>2. Spec => []ServedInv
  <2>1. PictureInv /\ IInv /\ ServedInv /\ [Next]_vars => ServedInv'
    BY ServedStep DEF IInv
  <2> QED
    BY <1>1, <2>1, InitServed, Invariance, PTL DEF Spec
<1>3. IInv /\ ServedInv => AllServed
  <2> SUFFICES ASSUME JobOK, TypeOK, ServedInv, job.getjpeg, Regular, pc = "done", ~received_sigterm,
                      failed = {}, \A k \in 1..Requests : Reachable(k) /\ SeekFinds(k)
               PROVE  Len(images) = Requests /\ \A k \in DOMAIN images : ~images[k].last
    BY DEF IInv, AllServed
  <2>1. ~Waiting /\ NoneLast
    BY DEF ServedInv, Extracts, AllReachable
  <2>2. Requests \in Nat /\ jpeg_idx \in 1..(Requests + 1) /\ Len(images) = jpeg_idx - 1
    BY JobFacts DEF TypeOK
  <2> QED
    BY <2>1, <2>2 DEF Waiting, NoneLast
<1> QED
  BY <1>2, <1>3, Invariance, PTL
=============================================================================
