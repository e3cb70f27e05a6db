--------------------------- MODULE MCInterleaver ---------------------------
(***************************************************************************)
(* Interleaver with a video stream that reorders by one frame, an audio    *)
(* stream and a subtitle stream; times start below 0.                      *)
(***************************************************************************)
EXTENDS Interleaver

TypeOf == [s \in 0..2 |-> <<"video", "audio", "subtitle">>[s + 1]]
DelayOf == [s \in 0..2 |-> IF s = 0 THEN 1 ELSE 0]
DurationOf == [s \in 0..2 |-> 1]
Unset == -100

\* The encoders give pts only, a stream that is copied both times; the last
\* line has packets whose times are missing or refused.
Offers ==
  {<<0, 1, Unset>>, <<0, 2, Unset>>, <<0, 3, 3>>, <<1, -1, -1>>, <<1, 0, Unset>>,
   <<1, 1, 1>>, <<1, 3, 3>>, <<2, -2, -2>>, <<2, 2, 2>>,
   <<0, Unset, Unset>>, <<1, 1, 2>>}
=============================================================================
