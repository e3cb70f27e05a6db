------------------------------ MODULE FrameList ------------------------------
(***************************************************************************)
(* The bounded frame lists s_framebuf_video_list and s_framebuf_audio_list *)
(* of src/interface/RealTimeEnc.h: a ring of n preallocated slots, a read  *)
(* and a write position, a fill count, and the mutex that guards them.     *)
(* The operators are the code fragments of RealTimeEnc.cpp that change a   *)
(* list; who calls them, and under which lock, is module RealTimeEnc.      *)
(*                                                                         *)
(* A definition marked "Bug" is a plausible mistake in the definition that *)
(* follows it, kept to see which property such a mistake would break.      *)
(***************************************************************************)
EXTENDS Naturals, Sequences

\* The owner of an unlocked frame_buf_mutex.
FreeMutex == "free"

\* A list of n slots holding frames of the set F, its mutex held by one of T.
ListOf(n, F, T) ==
  [readpos : 0..n-1, writepos : 0..n-1, size : 0..n,
   mutex : T \cup {FreeMutex}, allocated : BOOLEAN, framebuf : [0..n-1 -> F]]

\* The list as the constructor leaves it: every framebuf[i].buf is NULL.
\* (Positions and contents are uninitialised in the code and are not read
\* before LISTINIT; they are given a value here.)
UnallocatedList(n, blank) ==
  [readpos |-> 0, writepos |-> 0, size |-> 0, mutex |-> FreeMutex,
   allocated |-> FALSE, framebuf |-> [i \in 0..n-1 |-> blank]]

\* LISTINIT: reset the positions, allocate the missing buffers (malloc does
\* not fail here), initialise the mutex. The contents of the slots stay.
ListInit(l) ==
  [l EXCEPT !.readpos = 0, !.writepos = 0, !.size = 0,
            !.mutex = FreeMutex, !.allocated = TRUE]

\* Free every framebuf[i].buf; the positions and the count are not reset.
ListFree(l) == [l EXCEPT !.allocated = FALSE]

Lock(l, t) == [l EXCEPT !.mutex = t]
Unlock(l) == [l EXCEPT !.mutex = FreeMutex]

\* pos++; pos = pos % n
NextPos(pos, n) == (pos + 1) % n

\* Bug: the position is advanced before the frame is stored.
PutAdvanceFirst(l, n, f) ==
  [l EXCEPT !.framebuf[NextPos(l.writepos, n)] = f,
            !.size = @ + 1,
            !.writepos = NextPos(@, n)]

\* Bug: the frame is stored over the oldest one.
PutOverOldest(l, n, f) ==
  [l EXCEPT !.framebuf[l.readpos] = f,
            !.size = @ + 1,
            !.writepos = NextPos(@, n)]

\* Store frame f at writepos and count it.
Put(l, n, f) ==
  [l EXCEPT !.framebuf[l.writepos] = f,
            !.size = @ + 1,
            !.writepos = NextPos(@, n)]

\* Release the slot at readpos: only the positions move, the buffer stays
\* where it is and can be written again.
Take(l, n) == [l EXCEPT !.size = @ - 1, !.readpos = NextPos(@, n)]

\* Bug: the write position is read.
OldestAtWritepos(l) == l.framebuf[l.writepos]

\* The frame the next Take releases.
Oldest(l) == l.framebuf[l.readpos]

\* The slot k places after pos on a ring of n slots.
SlotAt(pos, k, n) == IF pos + k < n THEN pos + k ELSE pos + k - n

\* The queued frames, oldest first.
Contents(l, n) == [k \in 1..l.size |-> l.framebuf[SlotAt(l.readpos, k - 1, n)]]

\* Positions and count agree: the write position is size places after the
\* read position.
Consistent(l, n) == l.writepos = SlotAt(l.readpos, l.size, n)
=============================================================================
