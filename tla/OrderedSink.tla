----------------------------- MODULE OrderedSink -----------------------------
(***************************************************************************)
(* What the converters promise of a step of a raw file: its buffers reach  *)
(* the writer one at a time, in the order of the file and each once; and   *)
(* the writer is told to finish when the last buffer has left it.          *)
(***************************************************************************)
EXTENDS Naturals, Sequences

CONSTANT NBuffers    \* buffers the step is cut into

VARIABLES
  taken,     \* the buffers the writer has been given, in that order
  left,      \* how many of them it has given on
  finished   \* it has been told to finish

sinkVars == <<taken, left, finished>>

Init == taken = <<>> /\ left = 0 /\ finished = FALSE

\* The next buffer of the file, when the one before it has left.
Take ==
  /\ Len(taken) < NBuffers /\ left = Len(taken) /\ ~finished
  /\ taken' = Append(taken, Len(taken))
  /\ UNCHANGED <<left, finished>>

Leave ==
  /\ left < Len(taken)
  /\ left' = left + 1
  /\ UNCHANGED <<taken, finished>>

Finish ==
  /\ left = NBuffers /\ ~finished
  /\ finished' = TRUE
  /\ UNCHANGED <<taken, left>>

Next == Take \/ Leave \/ Finish

Spec == Init /\ [][Next]_sinkVars
=============================================================================
