--------------------------- MODULE DelayingEncoder ---------------------------
(***************************************************************************)
(* What the recorder and the transcoder expect of a video encoder: it takes *)
(* pictures, gives each back as a packet later, in order, and drops what is *)
(* left when it is closed.                                                 *)
(***************************************************************************)
EXTENDS Naturals, Sequences

CONSTANT Pic     \* pictures

VARIABLES
  open,
  held,          \* pictures taken and not given back, oldest first
  packets        \* pictures given back, in order

vars == <<open, held, packets>>

Init == open = TRUE /\ held = <<>> /\ packets = <<>>

Take == open /\ (\E p \in Pic : held' = Append(held, p)) /\ UNCHANGED <<open, packets>>

Give ==
  /\ open /\ held # <<>>
  /\ packets' = Append(packets, Head(held)) /\ held' = Tail(held)
  /\ UNCHANGED open

Close == open /\ open' = FALSE /\ held' = <<>> /\ UNCHANGED packets

Next == Take \/ Give \/ Close

Spec == Init /\ [][Next]_vars
=============================================================================
