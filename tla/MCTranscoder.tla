----------------------------- MODULE MCTranscoder -----------------------------
(***************************************************************************)
(* Small files and small jobs for Transcoder.                              *)
(***************************************************************************)
EXTENDS Transcoder, SequencesExt

P(s, t, k) == [ost |-> s, time |-> t, key |-> k]

\* Five pictures, two units apart, from a time on; some of them key frames.
Movie(start, keys) ==
  <<P(1, start, 1 \in keys), P(1, start + 2, 2 \in keys), P(1, start + 4, 3 \in keys),
    P(1, start + 6, 4 \in keys), P(1, start + 8, 5 \in keys)>>

PictureJob(coarse, start, keys, times, delay, discont, rewinds) ==
  [getjpeg |-> TRUE, coarse |-> coarse, input |-> <<Movie(start, keys)>>,
   fileOf |-> <<1>>, audio |-> {}, duration |-> <<2>>, length |-> NoLimit,
   times |-> times, delay |-> delay, offset |-> <<0 - start>>,
   start |-> start, discont |-> discont, rewinds |-> rewinds]

Times ==
  LET T == {0, 1, 4, 7}
  IN  {<<a>> : a \in T} \cup {<<a, b>> : a, b \in T} \cup {<<a, b, c>> : a, b, c \in T}

\* A job of three requests that finds discontinuities differs from one of two
\* only in its length; no property is about its pictures. The seeks of a file that
\* starts at 0 find a key frame, those before a start of 3 may fail; with two
\* requests, a seek before or after one that fails.
PictureJobs ==
  {j \in {PictureJob(coarse, start, keys, times, delay, discont, rewinds) :
     coarse \in BOOLEAN, start \in {0, 3}, keys \in {{1, 3, 5}, {1, 4}},
     times \in Times, delay \in {0, 1}, discont \in BOOLEAN, rewinds \in BOOLEAN} :
   /\ j.discont => Len(j.times) <= 2
   /\ ~j.rewinds => j.start = 3 /\ ~j.discont /\ Len(j.times) <= 2}

CopyJob(input, fileOf, length, offset, discont) ==
  [getjpeg |-> FALSE, coarse |-> FALSE, input |-> input, fileOf |-> fileOf,
   audio |-> {2}, duration |-> <<2, 1>>, length |-> length, times |-> <<>>,
   delay |-> 0, offset |-> offset, start |-> 0, discont |-> discont, rewinds |-> TRUE]

\* nativeVideoCut: a file of pictures and sound, and a packet of neither, cut
\* from a place after its beginning.
Clip(key, audio) ==
  <<P(1, 0, key = 1), P(2, 0, TRUE), P(2, 1, TRUE), P(1, 2, key = 2),
    P(0, 2, TRUE), P(1, 4, FALSE), P(2, audio, TRUE), P(2, 4, TRUE), P(1, 6, FALSE)>>

Cuts ==
  {CopyJob(<<Clip(key, audio)>>, <<1, 1>>, length, <<offset>>, FALSE) :
     key \in {1, 2}, audio \in {1, 3}, length \in {NoLimit, 1, 3, 4},
     offset \in {0, -2}}

\* nativeMux, its second job: the pictures of one file and the sound of another.
Pictures(key, step) ==
  <<P(1, 0, key = 1), P(1, step, FALSE), P(1, 2 * step, key = 3), P(1, 3 * step, FALSE)>>
Sounds(first) ==
  <<P(2, first, TRUE), P(2, first + 1, TRUE), P(2, first + 2, TRUE),
    P(2, first + 3, TRUE), P(2, first + 4, TRUE)>>

Muxes ==
  {CopyJob(<<Pictures(key, step), Sounds(first)>>, <<1, 2>>, length, <<0, 0>>, FALSE) :
     key \in {1, 3}, step \in {1, 2, 5}, first \in {0, 1, 3}, length \in {NoLimit, 3}}

\* nativeMultiConcat: two clips in a row, the second with times of its own. Where
\* they join, sound of the first may follow the second's first picture.
Concatenation(second, late) ==
  LET head == <<P(1, 0, TRUE), P(2, 0, TRUE), P(2, 1, TRUE), P(1, 2, FALSE)>>
      tail == <<P(2, second, TRUE), P(1, second + 2, FALSE), P(2, second + 1, TRUE)>>
  IN  IF late
      THEN head \o <<P(1, second, TRUE), P(2, 2, TRUE)>> \o tail
      ELSE head \o <<P(2, 2, TRUE), P(1, second, TRUE)>> \o tail

Concatenations ==
  {CopyJob(<<Concatenation(second, late)>>, <<1, 1>>, length, <<offset>>, TRUE) :
     second \in {-4, 0, 3, 20}, late \in BOOLEAN, length \in {NoLimit, 5},
     offset \in {0, -1}}

Batch == {j : j \in PictureJobs \cup Cuts \cup Muxes \cup Concatenations}
=============================================================================
