----------------------------- MODULE FrameFifo -----------------------------
(***************************************************************************)
(* What the raw data frame buffer of a FrameServer promises to the process *)
(* that acquires: a bounded queue.  Frames that arrive while there is room *)
(* are queued, the others are lost; the reader takes frames from the head, *)
(* several at a time, and sees each of them once, in the order of arrival; *)
(* a start or a stop of the acquisition empties the queue.                 *)
(***************************************************************************)
EXTENDS Naturals, Sequences, SequencesExt

CONSTANTS
  Frame,      (* the frames                                                *)
  Capacity    (* how many of them the buffer holds                         *)

VARIABLES
  queue,      (* frames in the buffer, the oldest first                    *)
  given       (* the frames last given to the reader                       *)

vars == <<queue, given>>

Init ==
  /\ queue = <<>>
  /\ given = <<>>

(* A frame arrives and there is room for it.                               *)
Put(f) ==
  /\ Len(queue) < Capacity
  /\ queue' = Append(queue, f)
  /\ UNCHANGED given

(* The reader frees the n oldest frames, all of which it has read.         *)
Take(n) ==
  /\ given' = SubSeq(queue, 1, n)
  /\ queue' = SubSeq(queue, n + 1, Len(queue))

(* The reader discards the n oldest frames unread.                         *)
Discard(n) ==
  /\ queue' = SubSeq(queue, n + 1, Len(queue))
  /\ UNCHANGED given

(* The acquisition starts or stops.                                        *)
Wipe ==
  /\ queue' = <<>>
  /\ UNCHANGED given

Next ==
  \/ \E f \in Frame : Put(f)
  \/ \E n \in 1..Len(queue) : Take(n) \/ Discard(n)
  \/ Wipe

Spec == Init /\ [][Next]_vars
=============================================================================
