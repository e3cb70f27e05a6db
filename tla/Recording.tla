------------------------------ MODULE Recording ------------------------------
(***************************************************************************)
(* What the recorder promises its application for the video: frames are    *)
(* taken while a recording is open, reach the file in the order in which   *)
(* they were taken, none twice, none that was not taken, and nothing       *)
(* reaches a file that has been finished. How the frames travel (lists,    *)
(* threads, mutexes, an encoder with a delay) is left open; module         *)
(* RealTimeEnc is one way.                                                 *)
(***************************************************************************)
EXTENDS Naturals, Sequences

VARIABLES
  phase,   \* "idle", "recording", "finished"
  taken,   \* the stamps of the frames taken in this recording, in order
  saved    \* the frames in its file, in order

vars == <<phase, taken, saved>>

Init == phase = "idle" /\ taken = <<>> /\ saved = <<>>

Begin ==
  /\ phase = "idle"
  /\ phase' = "recording"
  /\ taken' = <<>> /\ saved' = <<>>

\* A frame may still be taken after the file is finished; it is not saved.
\* Frames are told apart by their stamps: a new one's is larger than all before.
TakeFrame ==
  /\ phase # "idle"
  /\ Len(taken') = Len(taken) + 1
  /\ \A k \in 1..Len(taken) : taken'[k] = taken[k] /\ taken'[k] < taken'[Len(taken')]
  /\ UNCHANGED <<phase, saved>>

SaveFrame ==
  /\ phase = "recording"
  /\ Len(saved) < Len(taken)
  /\ saved' = Append(saved, taken[Len(saved) + 1])
  /\ UNCHANGED <<phase, taken>>

Finish == phase = "recording" /\ phase' = "finished" /\ UNCHANGED <<taken, saved>>

\* The recording is over: finished and released, or given up on.
Release == phase # "idle" /\ phase' = "idle" /\ UNCHANGED <<taken, saved>>

Next == Begin \/ TakeFrame \/ SaveFrame \/ Finish \/ Release

Spec == Init /\ [][Next]_vars
=============================================================================
