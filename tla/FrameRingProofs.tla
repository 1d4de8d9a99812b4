-------------------------- MODULE FrameRingProofs --------------------------
(***************************************************************************)
(* Proofs about FrameRing, for a ring of any size: its types, that it      *)
(* never holds more frames than it has slots, that no slot of the block    *)
(* write_raw reads is written to, and that it implements FrameFifo; then   *)
(* about the frames in it: their order, the minimum frame ID, the stale    *)
(* frame after a synchronization and the frame more of a step.             *)
(*                                                                         *)
(* The pointers run modulo 2 * Q; the first lemmas turn the operators on   *)
(* them into linear arithmetic, which the steps then use.                  *)
(***************************************************************************)
EXTENDS FrameRing, SequenceTheorems, FiniteSetTheorems, TLAPS

-----------------------------------------------------------------------------
(* Sums and differences of numbers below the modulus.                      *)
LEMMA ModSum ==
  ASSUME NEW M \in Nat \ {0}, NEW a \in 0..(M - 1), NEW n \in 0..M
  PROVE  (a + n) % M = IF a + n < M THEN a + n ELSE a + n - M
<1>1. ASSUME a + n < M PROVE (a + n) % M = a + n
  BY <1>1
<1>2. ASSUME ~(a + n < M), NEW b \in 0..(M - 1), a + n = b + M
      PROVE  (a + n) % M = b
  BY <1>2
<1> QED
  BY <1>1, <1>2

LEMMA ModDifference ==
  ASSUME NEW M \in Nat \ {0}, NEW a \in 0..(M - 1), NEW b \in 0..(M - 1)
  PROVE  (a - b) % M = IF a >= b THEN a - b ELSE a - b + M
<1>1. ASSUME a >= b PROVE (a - b) % M = a - b
  BY <1>1
<1>2. ASSUME ~(a >= b), NEW c \in 0..(M - 1), a - b = c - M
      PROVE  (a - b) % M = c
  BY <1>2
<1> QED
  BY <1>1, <1>2

(* The frames between two pointers.                                        *)
Gap(r, w) == (w - r) % (2 * Q)

LEMMA GapValue ==
  ASSUME NEW r \in Pointers, NEW w \in Pointers
  PROVE  /\ Gap(r, w) = IF w >= r THEN w - r ELSE w - r + 2 * Q
         /\ Gap(r, w) \in 0..(2 * Q - 1)
<1> DEFINE M == 2 * Q
<1>1. M \in Nat \ {0} /\ r \in 0..(M - 1) /\ w \in 0..(M - 1)
  BY FrameRingAssumption DEF Pointers
<1>2. Gap(r, w) = (w - r) % M
  BY DEF Gap
<1> HIDE DEF M
<1>3. Gap(r, w) = IF w >= r THEN w - r ELSE w - r + M
  BY <1>1, <1>2, ModDifference
<1>4. Gap(r, w) \in 0..(M - 1)
  BY <1>1, <1>3
<1> QED
  BY <1>3, <1>4 DEF M

LEMMA AdvanceValue ==
  ASSUME NEW p \in Pointers, NEW n \in 0..(2 * Q)
  PROVE  /\ Advance(p, n) = IF p + n < 2 * Q THEN p + n ELSE p + n - 2 * Q
         /\ Advance(p, n) \in Pointers
<1> DEFINE M == 2 * Q
<1>1. M \in Nat \ {0} /\ p \in 0..(M - 1) /\ n \in 0..M
  BY FrameRingAssumption DEF Pointers
<1>2. Advance(p, n) = (p + n) % M
  BY DEF Advance
<1> HIDE DEF M
<1>3. Advance(p, n) = IF p + n < M THEN p + n ELSE p + n - M
  BY <1>1, <1>2, ModSum
<1>4. Advance(p, n) \in 0..(M - 1)
  BY <1>1, <1>3
<1> QED
  BY <1>3, <1>4 DEF M, Pointers

LEMMA SlotValue ==
  ASSUME NEW p \in Pointers
  PROVE  /\ p % Q = IF p < Q THEN p ELSE p - Q
         /\ p % Q \in Slots
<1>1. Q \in Nat \ {0}
  BY FrameRingAssumption
<1>2. CASE p < Q
  <2>1. p \in 0..(Q - 1)
    BY <1>1, <1>2 DEF Pointers
  <2> QED
    BY <1>1, <1>2, <2>1 DEF Slots
<1>3. CASE ~(p < Q)
  <2>1. p - Q \in 0..(Q - 1) /\ p = (p - Q) + Q
    BY <1>1, <1>3 DEF Pointers
  <2>2. ((p - Q) + Q) % Q = p - Q
    <3> DEFINE a == p - Q
    <3>1. a \in 0..(Q - 1)
      BY <2>1
    <3> HIDE DEF a
    <3>2. (a + Q) % Q = a
      BY <1>1, <3>1
    <3> QED
      BY <3>2 DEF a
  <2> QED
    BY <1>1, <1>3, <2>1, <2>2 DEF Slots
<1> QED
  BY <1>2, <1>3

LEMMA GapZero ==
  ASSUME NEW r \in Pointers, NEW w \in Pointers
  PROVE  Gap(r, r) = 0 /\ (r # w => Gap(r, w) # 0)
<1>1. /\ Q \in Nat \ {0} /\ r \in 0..(2 * Q - 1) /\ w \in 0..(2 * Q - 1)
  BY FrameRingAssumption DEF Pointers
<1>2. /\ Gap(r, w) = IF w >= r THEN w - r ELSE w - r + 2 * Q
      /\ Gap(r, r) = IF r >= r THEN r - r ELSE r - r + 2 * Q
  BY GapValue
<1> QED
  BY <1>1, <1>2

(* The test of isFull() is exact while there are no more than Q frames.    *)
LEMMA NotFull ==
  ASSUME NEW r \in Pointers, NEW w \in Pointers, Gap(r, w) <= Q, ~IsFull(w, r)
  PROVE  Gap(r, w) < Q
<1>1. /\ Gap(r, w) = IF w >= r THEN w - r ELSE w - r + 2 * Q
      /\ Gap(r, w) \in 0..(2 * Q - 1)
  BY GapValue
<1>2. /\ w % Q = IF w < Q THEN w ELSE w - Q
      /\ r % Q = IF r < Q THEN r ELSE r - Q
  BY SlotValue
<1>3. Q \in Nat \ {0} /\ r \in 0..(2 * Q - 1) /\ w \in 0..(2 * Q - 1)
  BY FrameRingAssumption DEF Pointers
<1>4. w = r \/ w % Q # r % Q
  BY DEF IsFull
<1>5. Gap(r, w) # Q
  <2>1. SUFFICES ASSUME Gap(r, w) = Q PROVE FALSE
    OBVIOUS
  <2>2. w # r
    BY <1>1, <1>3, <2>1
  <2>3. w = r + Q \/ r = w + Q
    BY <1>1, <1>3, <2>1
  <2>4. w % Q = r % Q
    BY <1>2, <1>3, <2>3
  <2> QED
    BY <1>4, <2>2, <2>4
<1> QED
  BY <1>1, <1>3, <1>5

(* A block is not empty and lies within the frames of the ring.            *)
LEMMA BlockLengthBound ==
  ASSUME NEW r \in Pointers, NEW w \in Pointers, Gap(r, w) <= Q, w # r,
         stopAt \in Nat, cur \in Nat, cur < stopAt
  PROVE  BlockLength(w, r) \in 1..Gap(r, w)
<1>1. Q \div 2 \in Nat \ {0}
  BY FrameRingAssumption
<1>2. /\ Gap(r, w) = IF w >= r THEN w - r ELSE w - r + 2 * Q
      /\ Gap(r, w) \in 0..(2 * Q - 1)
  BY GapValue
<1>3. Q \in Nat \ {0} /\ r \in 0..(2 * Q - 1) /\ w \in 0..(2 * Q - 1)
  BY FrameRingAssumption DEF Pointers
<1>4. Gap(r, w) \in Nat \ {0} /\ stopAt - cur \in Nat \ {0}
  BY <1>2, <1>3
<1>5. Gap(r, w) = IF Distance(w, r) > Q THEN 2 * Q - Distance(w, r)
                                        ELSE Distance(w, r)
  <2>1. Distance(w, r) = IF w >= r THEN w - r ELSE r - w
    BY DEF Distance
  <2> QED
    BY <1>2, <1>3, <2>1
<1>6. BlockLength(w, r) = Smaller(Smaller(Gap(r, w), stopAt - cur), Q \div 2)
  BY <1>5, Zenon DEF BlockLength
<1> QED
  BY <1>1, <1>4, <1>6 DEF Smaller

(* A pointer moved by less than two rings is that far away.                *)
LEMMA GapAdvance ==
  ASSUME NEW r \in Pointers, NEW n \in 0..(2 * Q - 1)
  PROVE  Gap(r, Advance(r, n)) = n
<1>1. n \in 0..(2 * Q)
  BY FrameRingAssumption
<1>2. /\ Advance(r, n) = IF r + n < 2 * Q THEN r + n ELSE r + n - 2 * Q
      /\ Advance(r, n) \in Pointers
  BY <1>1, AdvanceValue
<1>3. Gap(r, Advance(r, n)) = IF Advance(r, n) >= r THEN Advance(r, n) - r
                              ELSE Advance(r, n) - r + 2 * Q
  BY <1>2, GapValue
<1>4. Q \in Nat /\ r \in 0..(2 * Q - 1)
  BY FrameRingAssumption DEF Pointers
<1> QED
  BY <1>2, <1>3, <1>4

(* Some frames more.                                                       *)
LEMMA GapMove ==
  ASSUME NEW r \in Pointers, NEW w \in Pointers, NEW n \in Nat,
         Gap(r, w) + n < 2 * Q
  PROVE  /\ Advance(w, n) \in Pointers
         /\ Gap(r, Advance(w, n)) = Gap(r, w) + n
<1>1. Q \in Nat \ {0, 1} /\ r \in 0..(2 * Q - 1) /\ w \in 0..(2 * Q - 1)
  BY FrameRingAssumption DEF Pointers
<1>2. Gap(r, w) = IF w >= r THEN w - r ELSE w - r + 2 * Q
  BY GapValue
<1>3. n \in 0..(2 * Q)
  BY <1>1, <1>2
<1>4. /\ Advance(w, n) = IF w + n < 2 * Q THEN w + n ELSE w + n - 2 * Q
      /\ Advance(w, n) \in Pointers
  BY <1>3, AdvanceValue
<1>5. Gap(r, Advance(w, n)) = IF Advance(w, n) >= r THEN Advance(w, n) - r
                              ELSE Advance(w, n) - r + 2 * Q
  BY <1>4, GapValue
<1> QED
  BY <1>1, <1>2, <1>4, <1>5

(* Three pointers in this order around the ring.                           *)
LEMMA GapSplit ==
  ASSUME NEW a \in Pointers, NEW b \in Pointers, NEW c \in Pointers,
         Gap(a, b) <= Gap(a, c)
  PROVE  /\ Gap(b, c) = Gap(a, c) - Gap(a, b)
         /\ b # c => Gap(a, b) < Gap(a, c)
<1>1. /\ Q \in Nat \ {0, 1} /\ a \in 0..(2 * Q - 1) /\ b \in 0..(2 * Q - 1)
      /\ c \in 0..(2 * Q - 1)
  BY FrameRingAssumption DEF Pointers
<1>2. /\ Gap(a, b) = IF b >= a THEN b - a ELSE b - a + 2 * Q
      /\ Gap(a, c) = IF c >= a THEN c - a ELSE c - a + 2 * Q
      /\ Gap(b, c) = IF c >= b THEN c - b ELSE c - b + 2 * Q
  BY GapValue
<1> QED
  BY <1>1, <1>2

(* Pointers less than a ring apart have different slots.                   *)
LEMMA SlotsDiffer ==
  ASSUME NEW r \in Pointers, NEW p \in Pointers, NEW w \in Pointers,
         Gap(r, p) < Gap(r, w), Gap(r, w) < Q
  PROVE  p % Q # w % Q
<1>1. /\ Q \in Nat \ {0, 1} /\ r \in 0..(2 * Q - 1) /\ p \in 0..(2 * Q - 1)
      /\ w \in 0..(2 * Q - 1)
  BY FrameRingAssumption DEF Pointers
<1>2. /\ Gap(r, p) = IF p >= r THEN p - r ELSE p - r + 2 * Q
      /\ Gap(r, w) = IF w >= r THEN w - r ELSE w - r + 2 * Q
  BY GapValue
<1>3. /\ p % Q = IF p < Q THEN p ELSE p - Q
      /\ w % Q = IF w < Q THEN w ELSE w - Q
  BY SlotValue
<1> QED
  BY <1>1, <1>2, <1>3

(* The slot before a pointer, as acquire() computes it.                    *)
LEMMA PreviousSlot ==
  ASSUME NEW r \in Pointers, NEW w \in Pointers, r # w
  PROVE  \E p \in Pointers : /\ Gap(r, p) = Gap(r, w) - 1
                             /\ p % Q = (w + Q - 1) % Q
<1> DEFINE p == IF w = 0 THEN 2 * Q - 1 ELSE w - 1
<1>1. /\ Q \in Nat \ {0, 1} /\ r \in 0..(2 * Q - 1) /\ w \in 0..(2 * Q - 1)
      /\ p \in 0..(2 * Q - 1)
  BY FrameRingAssumption DEF Pointers
<1>2. p \in Pointers
  BY <1>1 DEF Pointers
<1>3. Gap(r, p) = Gap(r, w) - 1
  <2>1. /\ Gap(r, p) = IF p >= r THEN p - r ELSE p - r + 2 * Q
        /\ Gap(r, w) = IF w >= r THEN w - r ELSE w - r + 2 * Q
    BY <1>2, GapValue
  <2> QED
    BY <1>1, <2>1
<1>4. p % Q = (w + Q - 1) % Q
  <2>1. p % Q = (IF p < Q THEN p ELSE p - Q) /\ p % Q \in 0..(Q - 1)
    BY <1>2, SlotValue DEF Slots
  <2> DEFINE b == p % Q
  <2>2. w + Q - 1 \in {b, b + Q, b + Q + Q}
    BY <1>1, <2>1
  <2> HIDE DEF b
  <2>3. b \in 0..(Q - 1)
    BY <2>1 DEF b
  <2>4. b % Q = b /\ (b + Q) % Q = b /\ (b + Q + Q) % Q = b
    BY <1>1, <2>3
  <2>5. (w + Q - 1) % Q = b
    BY <2>2, <2>4
  <2> QED
    BY <2>5 DEF b
<1> QED
  BY <1>2, <1>3, <1>4

-----------------------------------------------------------------------------
(* The inductive invariant.  Its parts: the DAQ thread serves a start or a *)
(* stop only while the script waits for it, and the worker has ended when  *)
(* it comes back from the join; there is room for the frame the worker     *)
(* holds a slot for, and the slot is the one at the write pointer unless   *)
(* the pointers were just wiped; the block of the script lies within the   *)
(* ring; datagrams are not empty; the minimum can be a frame ID.           *)
DaqInv ==
  /\ dpc # "idle" => spc \in {"starting", "stopping"}
  /\ dpc \in {"start_again", "start_worker"} => wpc = "off"

HoldsSlot == wpc \in {"copy", "push"} /\ slot # DevNull

RoomInv ==
  /\ Gap(rp, wp) <= Q
  /\ HoldsSlot => Gap(rp, wp) < Q

SlotInv ==
  HoldsSlot /\ dpc \in {"idle", "start_wipe", "stop_wipe"} => slot = wp % Q

BlockInv ==
  /\ spc = "sync_set" => Gap(rp, wrp) <= Gap(rp, wp)
  /\ spc = "loop" => rdp = rp
  /\ spc = "read" => /\ Gap(rp, rdp) <= Gap(rp, wrp)
                     /\ Gap(rp, wrp) \in 1..Gap(rp, wp)

DatagramInv ==
  /\ wpc \in {"mode", "pick", "copy", "push"} => pkt # <<>>
  /\ \A i \in DOMAIN net : net[i] # <<>>

IdInv ==
  /\ base < next
  /\ spc = "sync_min" => base < target

IInv ==
  /\ TypeOK
  /\ DaqInv
  /\ RoomInv
  /\ SlotInv
  /\ BlockInv
  /\ DatagramInv
  /\ IdInv

USE FrameRingAssumption

-----------------------------------------------------------------------------
LEMMA InitIInv == Init => IInv
<1>1. 0 \in Pointers /\ 0 \in Nat /\ DevNull \notin Slots
  BY DEF Pointers, Slots, DevNull
<1>2. Gap(0, 0) = 0
  BY <1>1, GapValue
<1>3. Init => TypeOK
  <2> SUFFICES ASSUME Init PROVE TypeOK
    OBVIOUS
  <2>1. mode \in BOOLEAN /\ die \in BOOLEAN /\ hasWorker \in BOOLEAN
    BY Zenon DEF Init
  <2>2. shm \in [Slots -> Nat]
    BY DEF Init
  <2>3. /\ net \in Seq(Seq(Nat)) /\ pkt \in Seq(Nat) /\ block \in Seq(Nat)
        /\ given \in Seq(Nat)
    BY DEF Init
  <2> QED
    BY <1>1, <2>1, <2>2, <2>3 DEF Init, TypeOK
<1>4. Init => DaqInv /\ SlotInv /\ BlockInv /\ DatagramInv
  BY DEF Init, DaqInv, SlotInv, HoldsSlot, BlockInv, DatagramInv
<1>5. Init => RoomInv /\ IdInv
  BY <1>2 DEF Init, RoomInv, HoldsSlot, IdInv
<1> QED
  BY <1>3, <1>4, <1>5 DEF IInv

-----------------------------------------------------------------------------
(* The network and the worker.                                             *)
LEMMA FpgaSendIInv == IInv /\ FpgaSend => IInv'
<1> SUFFICES ASSUME IInv, FpgaSend PROVE IInv'
  OBVIOUS
<1> USE DEF IInv
<1>1. TypeOK' /\ DatagramInv' /\ IdInv'
  <2>1. PICK n \in 1..MaxDatagram :
          /\ next' = next + n
          /\ \/ net' = Append(net, [i \in 1..n |-> next + i - 1])
             \/ net' = net
    BY DEF FpgaSend
  <2> DEFINE d == [i \in 1..n |-> next + i - 1]
  <2>2. d \in Seq(Nat) /\ d # <<>> /\ net \in Seq(Seq(Nat)) /\ next \in Nat
    <3>1. next \in Nat /\ net \in Seq(Seq(Nat)) /\ n \in Nat \ {0}
      BY DEF TypeOK
    <3>2. d \in [1..n -> Nat] /\ 1 \in DOMAIN d
      BY <3>1
    <3>3. d \in Seq(Nat)
      BY <3>1, <3>2, SeqDef
    <3>4. Len(d) = n
      BY <3>1, <3>2, <3>3, LenProperties
    <3>5. d # <<>>
      BY <3>1, <3>4
    <3> QED
      BY <3>1, <3>3, <3>5
  <2> HIDE DEF d
  <2>3. net' = Append(net, d) \/ net' = net
    BY <2>1 DEF d
  <2>4. net' \in Seq(Seq(Nat)) /\ \A i \in DOMAIN net' : net'[i] # <<>>
    <3>1. CASE net' = net
      BY <2>2, <3>1 DEF DatagramInv
    <3>2. CASE net' = Append(net, d)
      <4>1. net' \in Seq(Seq(Nat)) /\ DOMAIN net' = 1..(Len(net) + 1)
        BY <2>2, <3>2
      <4>2. \A i \in 1..(Len(net) + 1) :
              net'[i] = d \/ (i \in DOMAIN net /\ net'[i] = net[i])
        BY <2>2, <3>2
      <4> QED
        BY <2>2, <4>1, <4>2 DEF DatagramInv
    <3> QED
      BY <2>3, <3>1, <3>2
  <2>5. next' \in Nat /\ next <= next'
    BY <2>1, <2>2
  <2>6. TypeOK'
    BY <2>4, <2>5 DEF FpgaSend, serverVars, ptrVars, workerVars, scriptVars,
                      TypeOK
  <2>7. DatagramInv'
    BY <2>4 DEF FpgaSend, workerVars, DatagramInv
  <2>8. IdInv'
    BY <2>2, <2>5 DEF FpgaSend, scriptVars, IdInv, TypeOK
  <2> QED
    BY <2>6, <2>7, <2>8
<1>2. DaqInv' /\ RoomInv' /\ SlotInv' /\ BlockInv'
  BY DEF FpgaSend, serverVars, ptrVars, netVars, workerVars, scriptVars,
         DaqInv, RoomInv, HoldsSlot, SlotInv, BlockInv
<1> QED
  BY <1>1, <1>2

LEMMA WorkerExitIInv == IInv /\ WorkerExit => IInv'
<1> SUFFICES ASSUME IInv, WorkerExit PROVE IInv'
  OBVIOUS
<1> USE DEF IInv
<1>1. /\ TypeOK' /\ DaqInv' /\ RoomInv' /\ SlotInv' /\ BlockInv'
      /\ DatagramInv' /\ IdInv'
  BY DEF WorkerExit, serverVars, ptrVars, netVars, workerVars, scriptVars,
         TypeOK, DaqInv, RoomInv, HoldsSlot, SlotInv, BlockInv, DatagramInv,
         IdInv
<1> QED
  BY <1>1

LEMMA WorkerRecvIInv == IInv /\ WorkerRecv => IInv'
<1> SUFFICES ASSUME IInv, WorkerRecv PROVE IInv'
  OBVIOUS
<1> USE DEF IInv
<1>1. TypeOK'
  <2>1. net \in Seq(Seq(Nat)) /\ net # <<>>
    BY DEF WorkerRecv, TypeOK
  <2>2. Head(net) \in Seq(Nat) /\ Tail(net) \in Seq(Seq(Nat))
    BY <2>1
  <2>3. /\ pkt' \in Seq(Nat) /\ net' \in Seq(Seq(Nat)) /\ wpc' = "mode"
        /\ UNCHANGED <<shm, ptrVars, serverVars, next, base, slot, dpc, scriptVars>>
    BY <2>2 DEF WorkerRecv
  <2> QED
    BY <2>3 DEF serverVars, ptrVars, scriptVars, TypeOK
<1>2. DatagramInv'
  BY DEF WorkerRecv, serverVars, ptrVars, netVars, workerVars, scriptVars,
         DatagramInv, TypeOK
<1>3. DaqInv' /\ RoomInv' /\ SlotInv' /\ BlockInv' /\ IdInv'
  BY DEF WorkerRecv, serverVars, ptrVars, netVars, workerVars, scriptVars,
         DaqInv, RoomInv, HoldsSlot, SlotInv, BlockInv, IdInv
<1> QED
  BY <1>1, <1>2, <1>3

LEMMA WorkerModeIInv == IInv /\ WorkerMode => IInv'
<1> SUFFICES ASSUME IInv, WorkerMode PROVE IInv'
  OBVIOUS
<1> USE DEF IInv
<1>1. TypeOK' /\ DatagramInv'
  <2>1. \/ wpc' = "pick" /\ pkt' = pkt
        \/ wpc' = "recv" /\ pkt' = <<>>
    BY DEF WorkerMode
  <2>2. pkt' \in Seq(Nat) /\ wpc' \in {"pick", "recv"}
    <3>1. <<>> \in Seq(Nat) /\ pkt \in Seq(Nat)
      BY DEF TypeOK
    <3> QED
      BY <2>1, <3>1, Zenon
  <2>3. TypeOK'
    BY <2>2 DEF WorkerMode, serverVars, ptrVars, netVars, workerVars,
                scriptVars, TypeOK
  <2>4. DatagramInv'
    BY <2>1 DEF WorkerMode, netVars, DatagramInv
  <2> QED
    BY <2>3, <2>4
<1>2. DaqInv' /\ RoomInv' /\ SlotInv' /\ BlockInv' /\ IdInv'
  BY DEF WorkerMode, serverVars, ptrVars, netVars, workerVars, scriptVars,
         DaqInv, RoomInv, HoldsSlot, SlotInv, BlockInv, IdInv
<1> QED
  BY <1>1, <1>2

LEMMA WorkerPickIInv == IInv /\ WorkerPick => IInv'
<1> SUFFICES ASSUME IInv, WorkerPick PROVE IInv'
  OBVIOUS
<1> USE DEF IInv
<1>1. TypeOK'
  BY SlotValue DEF WorkerPick, serverVars, ptrVars, netVars, workerVars,
                   scriptVars, TypeOK
<1>2. RoomInv'
  BY NotFull, Zenon DEF WorkerPick, serverVars, ptrVars, netVars, workerVars,
                        scriptVars, RoomInv, HoldsSlot, TypeOK
<1>3. DaqInv' /\ SlotInv' /\ BlockInv' /\ DatagramInv' /\ IdInv'
  BY DEF WorkerPick, serverVars, ptrVars, netVars, workerVars, scriptVars,
         DaqInv, SlotInv, HoldsSlot, BlockInv, DatagramInv, IdInv
<1> QED
  BY <1>1, <1>2, <1>3

LEMMA WorkerCopyIInv == IInv /\ WorkerCopy => IInv'
<1> SUFFICES ASSUME IInv, WorkerCopy PROVE IInv'
  OBVIOUS
<1> USE DEF IInv
<1>1. TypeOK'
  <2>1. pkt \in Seq(Nat) /\ pkt # <<>> /\ shm \in [Slots -> Nat]
    BY DEF WorkerCopy, TypeOK, DatagramInv
  <2>2. shm' \in [Slots -> Nat]
    <3>1. Head(pkt) \in Nat
      BY <2>1
    <3>2. shm' = shm \/ shm' = [shm EXCEPT ![slot] = Head(pkt)]
      BY DEF WorkerCopy
    <3> QED
      BY <2>1, <3>1, <3>2
  <2>3. pkt' \in Seq(Nat) /\ wpc' \in {"recv", "pick", "push"}
    <3>1. pkt' \in {<<>>, Tail(pkt), pkt} /\ wpc' \in {"recv", "pick", "push"}
      BY DEF WorkerCopy, NextFrame
    <3>2. Tail(pkt) \in Seq(Nat) /\ <<>> \in Seq(Nat)
      BY <2>1
    <3> QED
      BY <2>1, <3>1, <3>2
  <2> QED
    BY <2>2, <2>3 DEF WorkerCopy, serverVars, ptrVars, netVars, workerVars,
                      scriptVars, TypeOK
<1>2. DatagramInv'
  BY DEF WorkerCopy, serverVars, ptrVars, netVars, workerVars, scriptVars,
         DatagramInv, NextFrame, TypeOK
<1>3. DaqInv' /\ RoomInv' /\ SlotInv' /\ BlockInv' /\ IdInv'
  BY DEF WorkerCopy, serverVars, ptrVars, netVars, workerVars, scriptVars,
         DaqInv, RoomInv, HoldsSlot, SlotInv, BlockInv, IdInv
<1> QED
  BY <1>1, <1>2, <1>3

LEMMA WorkerPushIInv == IInv /\ WorkerPush => IInv'
<1> SUFFICES ASSUME IInv, WorkerPush PROVE IInv'
  OBVIOUS
<1> USE DEF IInv
<1>1. TypeOK'
  BY AdvanceValue DEF WorkerPush, serverVars, ptrVars, netVars, workerVars,
                      scriptVars, TypeOK, NextFrame, DatagramInv
<1>2. RoomInv' /\ BlockInv' /\ SlotInv'
  <2>1. wp' = wp \/ (wp' = Advance(wp, 1) /\ Gap(rp, wp) < Q)
    BY DEF WorkerPush, RoomInv, HoldsSlot
  <2>2. rp \in Pointers /\ wp \in Pointers /\ wrp \in Pointers
        /\ pkt \in Seq(Nat)
    BY DEF TypeOK
  <2>3. Gap(rp, wp) \in Nat /\ Gap(rp, wrp) \in Nat /\ Gap(rp, wp) <= Q
    BY <2>2, GapValue DEF RoomInv
  <2>4. Gap(rp, wp') \in Nat /\ Gap(rp, wp') <= Q /\ Gap(rp, wp) <= Gap(rp, wp')
    <3>1. CASE wp' = wp
      BY <2>3, <3>1
    <3>2. CASE wp' = Advance(wp, 1) /\ Gap(rp, wp) < Q
      <4>1. Gap(rp, wp) + 1 < 2 * Q
        BY <2>3, <3>2
      <4>2. Gap(rp, wp') = Gap(rp, wp) + 1
        BY <2>2, <3>2, <4>1, GapMove
      <4> QED
        BY <2>3, <3>2, <4>2
    <3> QED
      BY <2>1, <3>1, <3>2
  <2>5. /\ rp' = rp /\ wrp' = wrp /\ rdp' = rdp /\ spc' = spc
        /\ wpc' \in {"pick", "recv"}
    BY DEF WorkerPush, NextFrame, scriptVars
  <2>6. RoomInv' /\ SlotInv'
    BY <2>4, <2>5 DEF RoomInv, SlotInv, HoldsSlot
  <2>7. BlockInv'
    BY <2>3, <2>4, <2>5 DEF BlockInv
  <2> QED
    BY <2>6, <2>7
<1>3. DatagramInv'
  <2>1. \/ pkt = <<>>
        \/ wpc' = "recv"
        \/ wpc' = "pick" /\ Len(pkt) > 1 /\ pkt' = Tail(pkt)
    BY DEF WorkerPush, NextFrame
  <2>2. pkt # <<>>
    BY DEF WorkerPush, DatagramInv
  <2>3. pkt' # <<>> \/ wpc' = "recv"
    BY <2>1, <2>2 DEF TypeOK
  <2>4. net' = net /\ wpc' \in {"recv", "pick"}
    BY DEF WorkerPush, NextFrame, netVars
  <2> QED
    BY <2>3, <2>4 DEF DatagramInv
<1>4. DaqInv' /\ IdInv'
  BY DEF WorkerPush, serverVars, ptrVars, netVars, workerVars, scriptVars,
         DaqInv, IdInv
<1> QED
  BY <1>1, <1>2, <1>3, <1>4

-----------------------------------------------------------------------------
(* The DAQ thread.                                                         *)
LEMMA FirstWipeIInv == IInv /\ FirstWipe => IInv'
<1> SUFFICES ASSUME IInv, FirstWipe PROVE IInv'
  OBVIOUS
<1> USE DEF IInv
<1>1. TypeOK'
  <2>1. wp' = 0 /\ rp' = 0 /\ 0 \in Pointers
    BY DEF FirstWipe, Pointers
  <2>2. mode' \in BOOLEAN
    BY Zenon DEF FirstWipe
  <2>3. dpc' \in {"start_die", "stop_die"}
    BY DEF FirstWipe, Goto
  <2> QED
    BY <2>1, <2>2, <2>3 DEF FirstWipe, serverVars, ptrVars, netVars,
                            workerVars, scriptVars, TypeOK
<1>2. RoomInv'
  <2>1. wp' = 0 /\ rp' = 0 /\ Gap(0, 0) = 0
    BY GapValue DEF FirstWipe, Pointers
  <2> QED
    BY <2>1 DEF FirstWipe, Goto, serverVars, ptrVars, netVars, workerVars,
                scriptVars, RoomInv, HoldsSlot, Goto
<1>3. DaqInv' /\ SlotInv' /\ BlockInv' /\ DatagramInv' /\ IdInv'
  BY DEF FirstWipe, Goto, serverVars, ptrVars, netVars, workerVars,
         scriptVars, DaqInv, SlotInv, HoldsSlot, BlockInv, DatagramInv, IdInv
<1> QED
  BY <1>1, <1>2, <1>3

LEMMA TellWorkerIInv == IInv /\ TellWorker => IInv'
<1> SUFFICES ASSUME IInv, TellWorker PROVE IInv'
  OBVIOUS
<1> USE DEF IInv
<1>1. /\ TypeOK' /\ DaqInv' /\ RoomInv' /\ SlotInv' /\ BlockInv'
      /\ DatagramInv' /\ IdInv'
  BY DEF TellWorker, Goto, serverVars, ptrVars, netVars, workerVars,
         scriptVars, TypeOK, DaqInv, RoomInv, HoldsSlot, SlotInv, BlockInv,
         DatagramInv, IdInv
<1> QED
  BY <1>1

LEMMA JoinWorkerIInv == IInv /\ JoinWorker => IInv'
<1> SUFFICES ASSUME IInv, JoinWorker PROVE IInv'
  OBVIOUS
<1> USE DEF IInv
<1>1. /\ TypeOK' /\ DaqInv' /\ RoomInv' /\ SlotInv' /\ BlockInv'
      /\ DatagramInv' /\ IdInv'
  BY DEF JoinWorker, Goto, serverVars, ptrVars, netVars, workerVars,
         scriptVars, TypeOK, DaqInv, RoomInv, HoldsSlot, SlotInv, BlockInv,
         DatagramInv, IdInv
<1> QED
  BY <1>1

LEMMA SecondWipeIInv == IInv /\ SecondWipe => IInv'
<1> SUFFICES ASSUME IInv, SecondWipe PROVE IInv'
  OBVIOUS
<1> USE DEF IInv
<1>1. TypeOK'
  BY DEF SecondWipe, Goto, serverVars, ptrVars, netVars, workerVars,
         scriptVars, TypeOK, Pointers
<1>2. RoomInv'
  <2>1. wp' = 0 /\ rp' = 0 /\ Gap(0, 0) = 0
    BY GapValue DEF SecondWipe, Pointers
  <2> QED
    BY <2>1 DEF SecondWipe, Goto, serverVars, ptrVars, netVars, workerVars,
                scriptVars, RoomInv, HoldsSlot
<1>3. DaqInv' /\ SlotInv' /\ BlockInv' /\ DatagramInv' /\ IdInv'
  BY DEF SecondWipe, Goto, serverVars, ptrVars, netVars, workerVars,
         scriptVars, DaqInv, SlotInv, HoldsSlot, BlockInv, DatagramInv, IdInv
<1> QED
  BY <1>1, <1>2, <1>3

LEMMA StartWorkerIInv == IInv /\ StartWorker => IInv'
<1> SUFFICES ASSUME IInv, StartWorker PROVE IInv'
  OBVIOUS
<1> USE DEF IInv
<1>1. /\ TypeOK' /\ DaqInv' /\ RoomInv' /\ SlotInv' /\ BlockInv'
      /\ DatagramInv' /\ IdInv'
  BY DEF StartWorker, Goto, serverVars, ptrVars, netVars, workerVars,
         scriptVars, TypeOK, DaqInv, RoomInv, HoldsSlot, SlotInv, BlockInv,
         DatagramInv, IdInv
<1> QED
  BY <1>1

-----------------------------------------------------------------------------
(* The script.                                                             *)
LEMMA AskStartIInv == IInv /\ AskStart => IInv'
<1> SUFFICES ASSUME IInv, AskStart PROVE IInv'
  OBVIOUS
<1> USE DEF IInv
<1>1. TypeOK' /\ DatagramInv' /\ IdInv'
  <2>1. next \in Nat /\ base \in Nat /\ base < next /\ net \in Seq(Seq(Nat))
    BY DEF TypeOK, IdInv
  <2>2. \/ base' = next - 1 /\ net' = <<>>
        \/ base' = base /\ net' = net
    BY DEF AskStart
  <2>3. base' \in Nat /\ base' < next
    BY <2>1, <2>2
  <2>4. /\ base' \in Nat /\ base' < next
        /\ net' \in Seq(Seq(Nat)) /\ net' \in {<<>>, net}
    <3>1. <<>> \in Seq(Seq(Nat))
      OBVIOUS
    <3>2. net' \in {<<>>, net} /\ net' \in Seq(Seq(Nat))
      BY <2>1, <2>2, <3>1, Zenon
    <3> QED
      BY <2>3, <3>2
  <2>5. TypeOK'
    BY <2>4 DEF AskStart, Goto, serverVars, ptrVars, workerVars, TypeOK
  <2>6. DatagramInv' /\ IdInv'
    BY <2>4 DEF AskStart, workerVars, DatagramInv, IdInv
  <2> QED
    BY <2>5, <2>6
<1>2. DaqInv' /\ RoomInv' /\ SlotInv' /\ BlockInv'
  BY DEF AskStart, Goto, serverVars, ptrVars, netVars, workerVars, scriptVars,
         DaqInv, RoomInv, HoldsSlot, SlotInv, BlockInv
<1> QED
  BY <1>1, <1>2

LEMMA AskStopIInv == IInv /\ AskStop => IInv'
<1> SUFFICES ASSUME IInv, AskStop PROVE IInv'
  OBVIOUS
<1> USE DEF IInv
<1>1. /\ TypeOK' /\ DaqInv' /\ RoomInv' /\ SlotInv' /\ BlockInv'
      /\ DatagramInv' /\ IdInv'
  BY DEF AskStop, Goto, serverVars, ptrVars, netVars, workerVars, scriptVars,
         TypeOK, DaqInv, RoomInv, HoldsSlot, SlotInv, BlockInv, DatagramInv,
         IdInv
<1> QED
  BY <1>1

LEMMA SyncTagIInv == IInv /\ SyncTag => IInv'
<1> SUFFICES ASSUME IInv, SyncTag PROVE IInv'
  OBVIOUS
<1> USE DEF IInv
<1>1. /\ TypeOK' /\ DaqInv' /\ RoomInv' /\ SlotInv' /\ BlockInv'
      /\ DatagramInv' /\ IdInv'
  BY DEF SyncTag, ScriptStep, serverVars, ptrVars, netVars, workerVars,
         scriptVars, TypeOK, DaqInv, RoomInv, HoldsSlot, SlotInv, BlockInv,
         DatagramInv, IdInv
<1> QED
  BY <1>1

LEMMA SyncMinimumIInv == IInv /\ SyncMinimum => IInv'
<1> SUFFICES ASSUME IInv, SyncMinimum PROVE IInv'
  OBVIOUS
<1> USE DEF IInv
<1>1. /\ TypeOK' /\ DaqInv' /\ RoomInv' /\ SlotInv' /\ BlockInv'
      /\ DatagramInv' /\ IdInv'
  BY DEF SyncMinimum, ScriptStep, serverVars, ptrVars, netVars, workerVars,
         scriptVars, TypeOK, DaqInv, RoomInv, HoldsSlot, SlotInv, BlockInv,
         DatagramInv, IdInv
<1> QED
  BY <1>1

LEMMA SyncReadIInv == IInv /\ SyncRead => IInv'
<1> SUFFICES ASSUME IInv, SyncRead PROVE IInv'
  OBVIOUS
<1> USE DEF IInv
<1>1. BlockInv'
  <2>1. Gap(rp, wp) \in Nat
    BY GapValue DEF TypeOK
  <2> QED
    BY <2>1 DEF SyncRead, ScriptStep, serverVars, ptrVars, netVars,
                workerVars, scriptVars, BlockInv
<1>2. TypeOK' /\ DaqInv' /\ RoomInv' /\ SlotInv' /\ DatagramInv' /\ IdInv'
  BY DEF SyncRead, ScriptStep, serverVars, ptrVars, netVars, workerVars,
         scriptVars, TypeOK, DaqInv, RoomInv, HoldsSlot, SlotInv, DatagramInv,
         IdInv
<1> QED
  BY <1>1, <1>2

LEMMA SyncSetIInv == IInv /\ SyncSet => IInv'
<1> SUFFICES ASSUME IInv, SyncSet PROVE IInv'
  OBVIOUS
<1> USE DEF IInv
<1>1. RoomInv' /\ BlockInv'
  <2>1. rp \in Pointers /\ wrp \in Pointers /\ wp \in Pointers
    BY DEF TypeOK
  <2>2. Gap(rp, wrp) <= Gap(rp, wp)
    BY DEF BlockInv, SyncSet, ScriptStep
  <2>3. Gap(wrp, wp) = Gap(rp, wp) - Gap(rp, wrp)
    BY <2>1, <2>2, GapSplit
  <2>4. Gap(rp, wrp) \in Nat /\ Gap(rp, wp) \in Nat
    BY <2>1, GapValue
  <2>5. rp' = wrp /\ wp' = wp /\ wpc' = wpc /\ slot' = slot /\ spc' = "first"
    BY DEF SyncSet, ScriptStep, workerVars
  <2>6. RoomInv'
    BY <2>3, <2>4, <2>5 DEF RoomInv, HoldsSlot
  <2> QED
    BY <2>5, <2>6 DEF BlockInv
<1>2. TypeOK' /\ DaqInv' /\ SlotInv' /\ DatagramInv' /\ IdInv'
  BY DEF SyncSet, ScriptStep, serverVars, ptrVars, netVars, workerVars,
         scriptVars, TypeOK, DaqInv, SlotInv, HoldsSlot, DatagramInv, IdInv
<1> QED
  BY <1>1, <1>2

LEMMA FirstFrameIInv == IInv /\ FirstFrame => IInv'
<1> SUFFICES ASSUME IInv, FirstFrame PROVE IInv'
  OBVIOUS
<1> USE DEF IInv
<1>1. TypeOK'
  BY SlotValue DEF FirstFrame, ScriptStep, serverVars, ptrVars, netVars,
                   workerVars, scriptVars, TypeOK
<1>2. DaqInv' /\ RoomInv' /\ SlotInv' /\ BlockInv' /\ DatagramInv' /\ IdInv'
  BY DEF FirstFrame, ScriptStep, serverVars, ptrVars, netVars, workerVars,
         scriptVars, DaqInv, RoomInv, HoldsSlot, SlotInv, BlockInv,
         DatagramInv, IdInv
<1> QED
  BY <1>1, <1>2

LEMMA NextBlockIInv == IInv /\ NextBlock => IInv'
<1> SUFFICES ASSUME IInv, NextBlock PROVE IInv'
  OBVIOUS
<1> USE DEF IInv
<1>1. TypeOK' /\ BlockInv'
  <2>1. BlockLength(wp, rp) \in 1..Gap(rp, wp) /\ Gap(rp, wp) \in 0..(2 * Q - 1)
    BY BlockLengthBound, GapValue DEF TypeOK, RoomInv, NextBlock
  <2>2. /\ Advance(rp, BlockLength(wp, rp)) \in Pointers
        /\ Gap(rp, Advance(rp, BlockLength(wp, rp))) = BlockLength(wp, rp)
    <3>1. rp \in Pointers
      BY DEF TypeOK
    <3>2. /\ BlockLength(wp, rp) \in 0..(2 * Q - 1)
          /\ BlockLength(wp, rp) \in 0..(2 * Q)
      BY <2>1
    <3> QED
      BY <3>1, <3>2, AdvanceValue, GapAdvance
  <2>3. Gap(rp, rp) = 0
    BY GapValue DEF TypeOK, Pointers
  <2> QED
    BY <2>1, <2>2, <2>3 DEF NextBlock, ScriptStep, serverVars, ptrVars,
                            netVars, workerVars, scriptVars, TypeOK, BlockInv
<1>2. DaqInv' /\ RoomInv' /\ SlotInv' /\ DatagramInv' /\ IdInv'
  BY DEF NextBlock, ScriptStep, serverVars, ptrVars, netVars, workerVars,
         scriptVars, DaqInv, RoomInv, HoldsSlot, SlotInv, DatagramInv, IdInv
<1> QED
  BY <1>1, <1>2

LEMMA ReadFrameIInv == IInv /\ ReadFrame => IInv'
<1> SUFFICES ASSUME IInv, ReadFrame PROVE IInv'
  OBVIOUS
<1> USE DEF IInv
<1>1. TypeOK' /\ BlockInv'
  <2>1. /\ rp \in Pointers /\ rdp \in Pointers
        /\ wrp \in Pointers /\ wp \in Pointers
    BY DEF TypeOK
  <2>2. Gap(rp, rdp) < Gap(rp, wrp) /\ Gap(rp, rdp) \in 0..(2 * Q - 1)
        /\ Gap(rp, wrp) \in 0..(2 * Q - 1)
    BY <2>1, GapSplit, GapValue DEF BlockInv, ReadFrame, ScriptStep
  <2>3. /\ Advance(rdp, 1) \in Pointers
        /\ Gap(rp, Advance(rdp, 1)) = Gap(rp, rdp) + 1
    BY <2>1, <2>2, GapMove, GapValue
  <2>4. Gap(rp, rdp') <= Gap(rp, wrp)
    BY <2>2, <2>3 DEF ReadFrame
  <2>5. shm[rdp % Q] \in Nat
    BY <2>1, SlotValue DEF TypeOK
  <2>6. /\ block' \in Seq(Nat)
        /\ stale' \subseteq Nat
        /\ rdp' \in Pointers
    <3>1. block \in Seq(Nat) /\ stale \subseteq Nat
      BY DEF TypeOK
    <3>2. /\ block' = Append(block, shm[rdp % Q])
          /\ stale' = stale \cup {f \in {shm[rdp % Q]} : f < target}
          /\ rdp' = Advance(rdp, 1)
      BY DEF ReadFrame
    <3>3. block' \in Seq(Nat)
      BY <2>5, <3>1, <3>2
    <3>4. stale' \subseteq Nat
      BY <2>5, <3>1, <3>2
    <3> QED
      BY <2>3, <3>2, <3>3, <3>4
  <2>7. TypeOK'
    BY <2>6 DEF ReadFrame, ScriptStep, serverVars, ptrVars, netVars,
                workerVars, scriptVars, TypeOK
  <2>8. BlockInv'
    BY <2>4 DEF ReadFrame, ScriptStep, ptrVars, BlockInv
  <2> QED
    BY <2>7, <2>8
<1>2. DaqInv' /\ RoomInv' /\ SlotInv' /\ DatagramInv' /\ IdInv'
  BY DEF ReadFrame, ScriptStep, serverVars, ptrVars, netVars, workerVars,
         scriptVars, DaqInv, RoomInv, HoldsSlot, SlotInv, DatagramInv, IdInv
<1> QED
  BY <1>1, <1>2

LEMMA ReleaseBlockIInv == IInv /\ ReleaseBlock => IInv'
<1> SUFFICES ASSUME IInv, ReleaseBlock PROVE IInv'
  OBVIOUS
<1> USE DEF IInv
<1>1. TypeOK'
  <2>1. (rdp + Q - 1) % Q \in Slots
    BY DEF TypeOK, Pointers, Slots
  <2> QED
    BY <2>1 DEF ReleaseBlock, ScriptStep, serverVars, ptrVars, netVars,
                workerVars, scriptVars, TypeOK
<1>2. RoomInv' /\ BlockInv'
  <2>1. rp \in Pointers /\ rdp \in Pointers /\ wp \in Pointers
    BY DEF TypeOK
  <2>2. Gap(rp, rdp) <= Gap(rp, wp)
    BY DEF BlockInv, ReleaseBlock, ScriptStep
  <2>3. Gap(rdp, wp) = Gap(rp, wp) - Gap(rp, rdp)
    BY <2>1, <2>2, GapSplit
  <2>4. Gap(rp, rdp) \in Nat /\ Gap(rp, wp) \in Nat
    BY <2>1, GapValue
  <2>5. /\ rp' = rdp /\ rdp' = rdp /\ wp' = wp /\ wpc' = wpc /\ slot' = slot
        /\ spc' = "loop"
    BY DEF ReleaseBlock, ScriptStep, workerVars
  <2>6. RoomInv'
    BY <2>3, <2>4, <2>5 DEF RoomInv, HoldsSlot
  <2> QED
    BY <2>5, <2>6 DEF BlockInv
<1>3. DaqInv' /\ SlotInv' /\ DatagramInv' /\ IdInv'
  BY DEF ReleaseBlock, ScriptStep, serverVars, ptrVars, netVars, workerVars,
         scriptVars, DaqInv, SlotInv, HoldsSlot, DatagramInv, IdInv
<1> QED
  BY <1>1, <1>2, <1>3

LEMMA EndStepIInv == IInv /\ EndStep => IInv'
<1> SUFFICES ASSUME IInv, EndStep PROVE IInv'
  OBVIOUS
<1> USE DEF IInv
<1>1. /\ TypeOK' /\ DaqInv' /\ RoomInv' /\ SlotInv' /\ BlockInv'
      /\ DatagramInv' /\ IdInv'
  BY DEF EndStep, ScriptStep, serverVars, ptrVars, netVars, workerVars,
         scriptVars, TypeOK, DaqInv, RoomInv, HoldsSlot, SlotInv, BlockInv,
         DatagramInv, IdInv
<1> QED
  BY <1>1

LEMMA ScriptDiesIInv == IInv /\ ScriptDies => IInv'
<1> SUFFICES ASSUME IInv, ScriptDies PROVE IInv'
  OBVIOUS
<1> USE DEF IInv
<1>1. /\ TypeOK' /\ DaqInv' /\ RoomInv' /\ SlotInv' /\ BlockInv'
      /\ DatagramInv' /\ IdInv'
  BY DEF ScriptDies, serverVars, ptrVars, netVars, workerVars, scriptVars,
         TypeOK, DaqInv, RoomInv, HoldsSlot, SlotInv, BlockInv, DatagramInv,
         IdInv
<1> QED
  BY <1>1

-----------------------------------------------------------------------------
LEMMA NextIInv == IInv /\ [Next]_vars => IInv'
<1>1. ASSUME IInv, UNCHANGED vars PROVE IInv'
  <2>1. TypeOK'
    BY <1>1 DEF IInv, TypeOK, vars, serverVars, ptrVars, netVars, workerVars,
                scriptVars
  <2>2. DaqInv' /\ RoomInv' /\ SlotInv' /\ BlockInv' /\ DatagramInv' /\ IdInv'
    BY <1>1 DEF IInv, DaqInv, RoomInv, SlotInv, HoldsSlot, BlockInv,
                DatagramInv,
                IdInv, vars, ptrVars, netVars, workerVars, scriptVars
  <2> QED
    BY <2>1, <2>2 DEF IInv
<1>2. ASSUME IInv, Next PROVE IInv'
  BY <1>2, FpgaSendIInv, WorkerExitIInv, WorkerRecvIInv, WorkerModeIInv,
     WorkerPickIInv, WorkerCopyIInv, WorkerPushIInv, FirstWipeIInv,
     TellWorkerIInv, JoinWorkerIInv, SecondWipeIInv, StartWorkerIInv,
     AskStartIInv, AskStopIInv, SyncTagIInv, SyncMinimumIInv,
     SyncReadIInv, SyncSetIInv, FirstFrameIInv, NextBlockIInv,
     ReadFrameIInv, ReleaseBlockIInv, EndStepIInv, ScriptDiesIInv
     DEF Next, Worker, Server, Script
<1> QED
  BY <1>1, <1>2

-----------------------------------------------------------------------------
(* The invariant holds for a ring of any size and any number of frames,    *)
(* starts, stops and scripts.                                              *)
THEOREM Invariance == Spec => []IInv
<1>1. Init => IInv
  BY InitIInv
<1>2. IInv /\ [Next]_vars => IInv'
  BY NextIInv
<1> QED
  BY <1>1, <1>2, PTL DEF Spec

(* The types of the frame server's and the script's state.                 *)
THEOREM TypeCorrect == Spec => []TypeOK
<1>1. IInv => TypeOK
  BY DEF IInv
<1> QED
  BY <1>1, Invariance, PTL

(* The ring never holds more frames than it has slots, although isFull()   *)
(* and the push are two critical sections of the worker.                   *)
THEOREM Bounded == Spec => []OccupancyBounded
<1>1. IInv => OccupancyBounded
  BY DEF IInv, RoomInv, OccupancyBounded, Occupancy, Gap
<1> QED
  BY <1>1, Invariance, PTL

(* The worker never copies into a slot that write_raw has still to read.   *)
THEOREM NoTear == Spec => []NoTornFrame
<1>1. IInv => NoTornFrame
  <2> SUFFICES ASSUME IInv, spc = "read", wpc = "copy", slot \in BlockSlots
               PROVE  FALSE
    BY DEF NoTornFrame
  <2>1. /\ rp \in Pointers /\ wp \in Pointers
        /\ rdp \in Pointers /\ wrp \in Pointers
    BY DEF IInv, TypeOK
  <2>2. \A p \in Pointers : p % Q \in Slots /\ (p + Q - 1) % Q \in Slots
    BY SlotValue DEF Pointers, Slots
  <2>3. /\ Gap(rp, rdp) <= Gap(rp, wrp)
        /\ Gap(rp, wrp) \in 1..Gap(rp, wp)
    BY DEF IInv, BlockInv
  <2>4. /\ Gap(rp, rdp) \in 0..(2 * Q - 1) /\ Gap(rp, wrp) \in 0..(2 * Q - 1)
        /\ Gap(rp, wp) \in 0..(2 * Q - 1) /\ Gap(rdp, wrp) \in 0..(2 * Q - 1)
    BY <2>1, GapValue
  <2>5. \E p \in Pointers : Gap(rp, p) < Gap(rp, wp) /\ slot = p % Q
    <3>1. CASE slot = (wrp + Q - 1) % Q
      <4>1. rp # wrp
        <5>1. Gap(rp, rp) = 0
          BY <2>1, GapValue DEF Pointers
        <5> QED
          BY <2>3, <2>4, <5>1
      <4>2. PICK p \in Pointers : Gap(rp, p) = Gap(rp, wrp) - 1 /\ p % Q = slot
        BY <2>1, <3>1, <4>1, PreviousSlot
      <4> QED
        BY <2>3, <2>4, <4>2
    <3>2. ASSUME NEW k \in 0..(((wrp - rdp) % (2 * Q)) - 1),
                 slot = Advance(rdp, k) % Q
          PROVE  \E p \in Pointers : Gap(rp, p) < Gap(rp, wp) /\ slot = p % Q
      <4>1. Gap(rdp, wrp) = Gap(rp, wrp) - Gap(rp, rdp)
        BY <2>1, <2>3, GapSplit
      <4>2. k \in Nat /\ k < Gap(rdp, wrp)
        BY <2>4, <3>2 DEF Gap
      <4>3. Gap(rp, rdp) + k < Gap(rp, wrp)
        BY <2>4, <4>1, <4>2
      <4>4. Gap(rp, rdp) + k < 2 * Q
        BY <2>4, <4>2, <4>3
      <4>5. /\ Advance(rdp, k) \in Pointers
            /\ Gap(rp, Advance(rdp, k)) = Gap(rp, rdp) + k
        BY <2>1, <4>2, <4>4, GapMove
      <4> QED
        BY <2>3, <2>4, <3>2, <4>3, <4>5
    <3> QED
      BY <3>1, <3>2 DEF BlockSlots
  <2>6. slot # DevNull
    BY <2>2, <2>5 DEF Slots, DevNull
  <2>7. slot = wp % Q /\ Gap(rp, wp) < Q
    BY <2>6 DEF IInv, DaqInv, SlotInv, RoomInv, HoldsSlot
  <2> QED
    BY <2>1, <2>5, <2>7, SlotsDiffer
<1> QED
  BY <1>1, Invariance, PTL

-----------------------------------------------------------------------------
(* What the slots hold: the frames in memory m from one pointer to another.*)
Ring(m, r, w) == [k \in 1..Gap(r, w) |-> m[Advance(r, k - 1) % Q]]

LEMMA RingValue ==
  ASSUME NEW m \in [Slots -> Nat], NEW r \in Pointers, NEW w \in Pointers
  PROVE  /\ Ring(m, r, w) \in Seq(Nat)
         /\ Len(Ring(m, r, w)) = Gap(r, w)
         /\ Gap(r, w) \in 0..(2 * Q - 1)
         /\ \A k \in 1..Gap(r, w) :
              Ring(m, r, w)[k] = m[Advance(r, k - 1) % Q]
<1> DEFINE g == Gap(r, w)
<1>1. g \in 0..(2 * Q - 1)
  BY GapValue
<1>2. \A k \in 1..g : m[Advance(r, k - 1) % Q] \in Nat
  <2> TAKE k \in 1..g
  <2>1. k - 1 \in 0..(2 * Q)
    BY <1>1
  <2> QED
    BY <2>1, AdvanceValue, SlotValue
<1>3. Ring(m, r, w) = [k \in 1..g |-> m[Advance(r, k - 1) % Q]]
  BY DEF Ring
<1> HIDE DEF g
<1>4. Ring(m, r, w) \in [1..g -> Nat]
  BY <1>2, <1>3
<1>5. Ring(m, r, w) \in Seq(Nat)
  BY <1>1, <1>4, SeqDef
<1>6. Len(Ring(m, r, w)) = g
  BY <1>1, <1>4, <1>5, LenProperties
<1> QED
  BY <1>1, <1>3, <1>5, <1>6 DEF g

LEMMA RingEmpty ==
  ASSUME NEW m \in [Slots -> Nat], NEW r \in Pointers
  PROVE  Ring(m, r, r) = <<>>
<1>1. Gap(r, r) = 0
  BY GapValue DEF Pointers
<1>2. Ring(m, r, r) \in Seq(Nat) /\ Len(Ring(m, r, r)) = 0
  BY <1>1, RingValue
<1> QED
  BY <1>2, EmptySeq

(* The pointer k frames after another that is not further than a third.    *)
LEMMA AdvanceTwice ==
  ASSUME NEW r \in Pointers, NEW s \in Pointers, NEW k \in Nat,
         Gap(r, s) + k < 2 * Q
  PROVE  Advance(s, k) = Advance(r, Gap(r, s) + k)
<1>1. /\ Q \in Nat \ {0, 1} /\ r \in 0..(2 * Q - 1) /\ s \in 0..(2 * Q - 1)
      /\ Gap(r, s) = IF s >= r THEN s - r ELSE s - r + 2 * Q
  BY GapValue DEF Pointers
<1>2. k \in 0..(2 * Q) /\ Gap(r, s) + k \in 0..(2 * Q)
  BY <1>1
<1>3. /\ Advance(s, k) = IF s + k < 2 * Q THEN s + k ELSE s + k - 2 * Q
      /\ Advance(r, Gap(r, s) + k) =
           IF r + (Gap(r, s) + k) < 2 * Q THEN r + (Gap(r, s) + k)
                                          ELSE r + (Gap(r, s) + k) - 2 * Q
  BY <1>2, AdvanceValue
<1> QED
  BY <1>1, <1>3

LEMMA AdvanceGap ==
  ASSUME NEW r \in Pointers, NEW w \in Pointers
  PROVE  Advance(r, Gap(r, w)) = w
<1>1. Gap(r, w) \in 0..(2 * Q - 1) /\ Gap(r, w) + 0 < 2 * Q
  BY GapValue
<1>2. Advance(w, 0) = Advance(r, Gap(r, w) + 0)
  BY <1>1, AdvanceTwice
<1>3. Advance(w, 0) = w
  BY AdvanceValue DEF Pointers
<1> QED
  BY <1>1, <1>2, <1>3

(* A frame written where the write pointer w is leaves what is between r   *)
(* and a pointer s that is not after w.                                    *)
LEMMA RingWritten ==
  ASSUME NEW m \in [Slots -> Nat], NEW n \in [Slots -> Nat],
         NEW r \in Pointers, NEW s \in Pointers, NEW w \in Pointers,
         \A k \in Slots : k # w % Q => n[k] = m[k],
         Gap(r, s) <= Gap(r, w), Gap(r, w) < Q
  PROVE  Ring(n, r, s) = Ring(m, r, s)
<1>2. Gap(r, s) \in 0..(2 * Q - 1) /\ Gap(r, w) \in 0..(2 * Q - 1)
  BY GapValue
<1>3. ASSUME NEW k \in 1..Gap(r, s)
      PROVE  n[Advance(r, k - 1) % Q] = m[Advance(r, k - 1) % Q]
  <2> DEFINE p == Advance(r, k - 1)
  <2>1. k - 1 \in 0..(2 * Q - 1) /\ k - 1 \in 0..(2 * Q) /\ k - 1 < Gap(r, w)
    BY <1>2
  <2>2. p \in Pointers /\ Gap(r, p) = k - 1
    BY <2>1, AdvanceValue, GapAdvance
  <2> HIDE DEF p
  <2>3. p % Q # w % Q /\ p % Q \in Slots
    BY <2>1, <2>2, SlotsDiffer, SlotValue
  <2> QED
    BY <2>3 DEF p
<1> QED
  BY <1>3 DEF Ring

(* The write pointer moves over the frame written there.                   *)
LEMMA RingAppended ==
  ASSUME NEW m \in [Slots -> Nat], NEW r \in Pointers, NEW w \in Pointers,
         Gap(r, w) < Q
  PROVE  /\ Ring(m, r, Advance(w, 1)) = Append(Ring(m, r, w), m[w % Q])
         /\ m[w % Q] \in Nat
<1> DEFINE v == Advance(w, 1)
           g == Gap(r, w)
           old == Ring(m, r, w)
           new == Ring(m, r, v)
           f == m[w % Q]
<1>1. v \in Pointers /\ Gap(r, v) = g + 1 /\ g \in 0..(2 * Q - 1) /\ f \in Nat
  <2>1. g \in 0..(2 * Q - 1) /\ g + 1 < 2 * Q
    BY GapValue
  <2> QED
    BY <2>1, GapMove, SlotValue
<1>2. /\ old \in Seq(Nat) /\ Len(old) = g
      /\ \A k \in 1..g : old[k] = m[Advance(r, k - 1) % Q]
  BY RingValue
<1> HIDE DEF v
<1>3. /\ new \in Seq(Nat) /\ Len(new) = g + 1
      /\ \A k \in 1..(g + 1) : new[k] = m[Advance(r, k - 1) % Q]
  <2>1. /\ new \in Seq(Nat) /\ Len(new) = Gap(r, v)
        /\ \A k \in 1..Gap(r, v) : new[k] = m[Advance(r, k - 1) % Q]
    BY <1>1, RingValue
  <2> QED
    BY <1>1, <2>1, Zenon
<1>4. new[g + 1] = f
  <2>1. g + 1 \in 1..(g + 1) /\ (g + 1) - 1 = g
    BY <1>1
  <2>2. new[g + 1] = m[Advance(r, g) % Q]
    BY <1>3, <2>1
  <2> QED
    BY <2>2, AdvanceGap
<1> HIDE DEF g, old, new, f
<1>5. /\ Append(old, f) \in Seq(Nat) /\ Len(Append(old, f)) = g + 1
      /\ \A k \in 1..g : Append(old, f)[k] = old[k]
      /\ Append(old, f)[g + 1] = f
  BY <1>1, <1>2, AppendProperties
<1>6. \A k \in 1..(g + 1) : new[k] = Append(old, f)[k]
  <2> TAKE k \in 1..(g + 1)
  <2>1. k \in 1..g \/ k = g + 1
    BY <1>1
  <2> QED
    BY <1>2, <1>3, <1>4, <1>5, <2>1
<1>7. new = Append(old, f)
  BY <1>3, <1>5, <1>6, SeqEqual
<1> QED
  BY <1>1, <1>7 DEF v, old, new, f

(* The frames up to a pointer between the two, and those from it on.       *)
LEMMA RingSplit ==
  ASSUME NEW m \in [Slots -> Nat], NEW r \in Pointers, NEW s \in Pointers,
         NEW w \in Pointers, Gap(r, s) <= Gap(r, w)
  PROVE  /\ Ring(m, r, s) = SubSeq(Ring(m, r, w), 1, Gap(r, s))
         /\ Ring(m, s, w) = SubSeq(Ring(m, r, w), Gap(r, s) + 1, Gap(r, w))
<1> DEFINE all == Ring(m, r, w)
           front == Ring(m, r, s)
           rest == Ring(m, s, w)
           g == Gap(r, s)
           n == Gap(r, w)
<1>1. g \in 0..(2 * Q - 1) /\ n \in 0..(2 * Q - 1) /\ g <= n /\ Gap(s, w) = n - g
  BY GapValue, GapSplit
<1>2. /\ all \in Seq(Nat) /\ Len(all) = n
      /\ \A k \in 1..n : all[k] = m[Advance(r, k - 1) % Q]
  BY RingValue
<1>3. /\ front \in Seq(Nat) /\ Len(front) = g
      /\ \A k \in 1..g : front[k] = m[Advance(r, k - 1) % Q]
  BY RingValue
<1>4. /\ rest \in Seq(Nat) /\ Len(rest) = n - g
      /\ \A k \in 1..(n - g) : rest[k] = m[Advance(s, k - 1) % Q]
  <2>1. /\ rest \in Seq(Nat) /\ Len(rest) = Gap(s, w)
        /\ \A k \in 1..Gap(s, w) : rest[k] = m[Advance(s, k - 1) % Q]
    BY RingValue
  <2> QED
    BY <1>1, <2>1, Zenon
<1>5. ASSUME NEW k \in 1..(n - g)
      PROVE  rest[k] = all[k + g]
  <2>1. k - 1 \in Nat /\ g + (k - 1) < 2 * Q /\ k + g \in 1..n
        /\ (k + g) - 1 = g + (k - 1)
    BY <1>1
  <2>2. Advance(s, k - 1) = Advance(r, g + (k - 1))
    BY <2>1, AdvanceTwice
  <2>3. all[k + g] = m[Advance(r, g + (k - 1)) % Q]
    BY <1>2, <2>1
  <2> QED
    BY <1>4, <2>2, <2>3
<1> HIDE DEF all, front, rest, g, n
<1>6. /\ g \in 0..Len(all) /\ \A i \in 1..g : all[i] \in Nat
      /\ \A i \in (g + 1)..n : all[i] \in Nat
  <2>1. g \in 0..Len(all) /\ \A i \in 1..Len(all) : all[i] \in Nat
    BY <1>1, <1>2, ElementOfSeq
  <2> QED
    BY <1>1, <1>2, <2>1
<1>7. front = SubSeq(all, 1, g)
  <2>1. /\ SubSeq(all, 1, g) \in Seq(Nat) /\ Len(SubSeq(all, 1, g)) = g
        /\ \A i \in 1..g : SubSeq(all, 1, g)[i] = all[i]
    BY <1>1, <1>6, SubSeqProperties
  <2>2. \A i \in 1..g : front[i] = SubSeq(all, 1, g)[i]
    <3> TAKE i \in 1..g
    <3>1. i \in 1..n
      BY <1>1
    <3> QED
      BY <1>2, <1>3, <2>1, <3>1
  <2> QED
    BY <1>3, <2>1, <2>2, SeqEqual
<1>8. rest = SubSeq(all, g + 1, n)
  <2>1. /\ SubSeq(all, g + 1, n) \in Seq(Nat)
        /\ Len(SubSeq(all, g + 1, n)) = IF g + 1 <= n THEN n - (g + 1) + 1 ELSE 0
        /\ \A i \in 1..(n - (g + 1) + 1) : SubSeq(all, g + 1, n)[i] = all[(g + 1) + i - 1]
    BY <1>1, <1>6, SubSeqProperties
  <2>2. Len(SubSeq(all, g + 1, n)) = n - g
    BY <1>1, <2>1
  <2>3. \A i \in 1..(n - g) : rest[i] = SubSeq(all, g + 1, n)[i]
    <3> TAKE i \in 1..(n - g)
    <3>1. i \in 1..(n - (g + 1) + 1) /\ (g + 1) + i - 1 = i + g
      BY <1>1
    <3> QED
      BY <1>5, <2>1, <3>1
  <2> QED
    BY <1>4, <2>1, <2>2, <2>3, SeqEqual
<1> QED
  BY <1>7, <1>8 DEF all, front, rest, g, n

-----------------------------------------------------------------------------
(* A sequence and what is left of it after its head.                       *)
LEMMA HeadTail ==
  ASSUME NEW S, NEW s \in Seq(S), s # <<>>
  PROVE  /\ Len(s) \in Nat \ {0}
         /\ Head(s) = s[1] /\ Head(s) \in S
         /\ Tail(s) \in Seq(S) /\ Len(Tail(s)) = Len(s) - 1
         /\ \A i \in 1..(Len(s) - 1) : Tail(s)[i] = s[i + 1]
  BY HeadTailProperties, EmptySeq

(* What the invariant says of the contents: frames are accepted while a    *)
(* script acquires and not between the two wipes; the worker holds the     *)
(* rest of a datagram only while it handles it, and has ended after a      *)
(* stop; what is under way was sent since the IDs restarted; the frame to  *)
(* be pushed is in its slot; write_raw has what the ring held.             *)
Acquiring ==
  spc \in {"on", "sync_min", "sync_read", "sync_set", "first", "loop", "read"}

ModeInv ==
  /\ dpc \in {"start_die", "start_join", "start_again", "stop_die", "stop_join"}
       => ~mode
  /\ Acquiring \/ dpc = "start_worker" => mode
  /\ wpc \in {"off", "recv"} => pkt = <<>>
  /\ spc = "stopped" => wpc = "off"

Fresh(s, b, n) == \A i \in 1..Len(s) : s[i] \in (b + 1)..(n - 1)

FrameInv ==
  /\ next <= MaxFrame + 1
  /\ Fresh(pkt, base, next)
  /\ \A d \in 1..Len(net) : Fresh(net[d], base, next)

CopyInv == wpc = "push" /\ slot # DevNull => shm[slot] = Head(pkt)

ReadInv == block = IF spc = "read" THEN Ring(shm, rp, rdp) ELSE <<>>

ContentInv == ModeInv /\ FrameInv /\ CopyInv /\ ReadInv

(* The slot the worker copies to while frames are accepted.                *)
LEMMA WorkerSlot ==
  ASSUME IInv, ContentInv, mode, HoldsSlot
  PROVE  slot = wp % Q /\ Gap(rp, wp) < Q /\ Gap(rp, wp) \in Nat
<1>1. dpc \in {"idle", "start_wipe", "stop_wipe"}
  BY DEF IInv, TypeOK, DaqInv, ContentInv, ModeInv, HoldsSlot
<1>2. Gap(rp, wp) \in Nat
  BY GapValue DEF IInv, TypeOK
<1> QED
  BY <1>1, <1>2 DEF IInv, SlotInv, RoomInv

LEMMA InitContent == Init => ContentInv
<1> SUFFICES ASSUME Init PROVE ContentInv
  OBVIOUS
<1>1. ModeInv
  BY DEF Init, ModeInv, Acquiring
<1>2. CopyInv /\ ReadInv
  BY DEF Init, CopyInv, ReadInv
<1>3. FrameInv
  BY EmptySeq DEF Init, FrameInv, Fresh
<1> QED
  BY <1>1, <1>2, <1>3 DEF ContentInv

LEMMA FpgaSendContent == IInv /\ ContentInv /\ FpgaSend => ContentInv'
<1> SUFFICES ASSUME IInv, ContentInv, FpgaSend PROVE ContentInv'
  OBVIOUS
<1> USE DEF ContentInv
<1>1. PICK n \in 1..MaxDatagram :
        /\ next + n - 1 <= MaxFrame
        /\ next' = next + n
        /\ \/ net' = Append(net, [i \in 1..n |-> next + i - 1])
           \/ net' = net
  BY DEF FpgaSend
<1>2. /\ next \in Nat /\ base \in Nat /\ base < next /\ n \in Nat \ {0}
      /\ net \in Seq(Seq(Nat))
  BY DEF IInv, TypeOK, IdInv
<1>3. next' <= MaxFrame + 1 /\ next <= next' /\ next' \in Nat
  BY <1>1, <1>2
<1>4. ASSUME NEW s, Fresh(s, base, next) PROVE Fresh(s, base, next')
  BY <1>2, <1>3, <1>4 DEF Fresh
<1>5. /\ Fresh(pkt, base, next')
      /\ \A d \in 1..Len(net) : Fresh(net[d], base, next')
  BY <1>4 DEF FrameInv
<1>6. \A d \in 1..Len(net') : Fresh(net'[d], base, next')
  <2> DEFINE m == [i \in 1..n |-> next + i - 1]
  <2>1. m \in [1..n -> Nat]
    BY <1>2
  <2>2. m \in Seq(Nat)
    BY <1>2, <2>1, SeqDef
  <2>3. Len(m) = n
    BY <1>2, <2>1, <2>2, LenProperties
  <2>4. \A i \in 1..n : m[i] \in (base + 1)..(next' - 1)
    BY <1>1, <1>2
  <2>5. Fresh(m, base, next')
    BY <2>3, <2>4 DEF Fresh
  <2> HIDE DEF m
  <2>6. CASE net' = net
    BY <1>5, <2>6
  <2>7. CASE net' = Append(net, m)
    <3>1. /\ Len(net') = Len(net) + 1 /\ net'[Len(net) + 1] = m
          /\ \A d \in 1..Len(net) : net'[d] = net[d]
          /\ Len(net) \in Nat
      BY <1>2, <2>2, <2>7, AppendProperties, LenProperties
    <3>2. \A d \in 1..Len(net') : d \in 1..Len(net) \/ d = Len(net) + 1
      BY <3>1
    <3> QED
      BY <1>5, <2>5, <3>1, <3>2
  <2> QED
    BY <1>1, <2>6, <2>7 DEF m
<1>7. FrameInv'
  BY <1>3, <1>5, <1>6 DEF FpgaSend, FrameInv, workerVars
<1>8. ModeInv' /\ CopyInv' /\ ReadInv'
  BY DEF FpgaSend, serverVars, ptrVars, workerVars, scriptVars, ModeInv,
         Acquiring, CopyInv, ReadInv
<1> QED
  BY <1>7, <1>8

LEMMA WorkerExitContent == IInv /\ ContentInv /\ WorkerExit => ContentInv'
  BY DEF WorkerExit, serverVars, ptrVars, netVars, scriptVars, ContentInv,
         ModeInv, Acquiring, FrameInv, CopyInv, ReadInv

LEMMA WorkerRecvContent == IInv /\ ContentInv /\ WorkerRecv => ContentInv'
<1> SUFFICES ASSUME IInv, ContentInv, WorkerRecv PROVE ContentInv'
  OBVIOUS
<1> USE DEF ContentInv
<1>1. net \in Seq(Seq(Nat)) /\ net # <<>>
  BY DEF IInv, TypeOK, WorkerRecv
<1>2. /\ Len(net) \in Nat \ {0} /\ pkt' = net[1]
      /\ Len(net') = Len(net) - 1
      /\ \A d \in 1..(Len(net) - 1) : net'[d] = net[d + 1]
  BY <1>1, HeadTail DEF WorkerRecv
<1>3. FrameInv'
  BY <1>2 DEF WorkerRecv, FrameInv
<1>4. ModeInv' /\ CopyInv' /\ ReadInv'
  BY DEF WorkerRecv, serverVars, ptrVars, scriptVars, ModeInv, Acquiring,
         CopyInv, ReadInv
<1> QED
  BY <1>3, <1>4

LEMMA WorkerModeContent == IInv /\ ContentInv /\ WorkerMode => ContentInv'
<1> SUFFICES ASSUME IInv, ContentInv, WorkerMode PROVE ContentInv'
  OBVIOUS
<1> USE DEF ContentInv
<1>1. FrameInv'
  <2>1. Fresh(pkt', base, next)
    BY EmptySeq DEF WorkerMode, FrameInv, Fresh
  <2> QED
    BY <2>1 DEF WorkerMode, netVars, FrameInv
<1>2. ModeInv' /\ CopyInv' /\ ReadInv'
  BY DEF WorkerMode, serverVars, ptrVars, scriptVars, ModeInv, Acquiring,
         CopyInv, ReadInv
<1> QED
  BY <1>1, <1>2

LEMMA WorkerPickContent == IInv /\ ContentInv /\ WorkerPick => ContentInv'
  BY DEF WorkerPick, serverVars, ptrVars, netVars, scriptVars, ContentInv,
         ModeInv, Acquiring, FrameInv, CopyInv, ReadInv

(* The next frame of the datagram, or none.                                *)
LEMMA NextFrameContent ==
  ASSUME IInv, ContentInv, NextFrame, wpc \in {"copy", "push"}
  PROVE  /\ Fresh(pkt', base, next)
         /\ wpc' \in {"pick", "recv"}
         /\ wpc' = "recv" => pkt' = <<>>
<1>1. pkt \in Seq(Nat) /\ pkt # <<>>
  BY DEF IInv, TypeOK, DatagramInv
<1>2. /\ Len(pkt) \in Nat \ {0} /\ pkt' \in Seq(Nat) /\ Len(pkt') = Len(pkt) - 1
      /\ \A i \in 1..(Len(pkt) - 1) : pkt'[i] = pkt[i + 1]
  BY <1>1, HeadTail DEF NextFrame
<1>3. Fresh(pkt', base, next)
  <2>1. ASSUME NEW i \in 1..Len(pkt')
        PROVE  i + 1 \in 1..Len(pkt) /\ pkt'[i] = pkt[i + 1]
    <3>1. i \in 1..(Len(pkt) - 1)
      BY <1>2
    <3> QED
      BY <1>2, <3>1
  <2>2. \A i \in 1..Len(pkt) : pkt[i] \in (base + 1)..(next - 1)
    BY DEF ContentInv, FrameInv, Fresh
  <2> QED
    BY <2>1, <2>2 DEF Fresh
<1>4. wpc' \in {"pick", "recv"} /\ (wpc' = "recv" => Len(pkt') = 0)
  BY <1>2 DEF NextFrame
<1> QED
  BY <1>2, <1>3, <1>4, EmptySeq

LEMMA WorkerCopyContent == IInv /\ ContentInv /\ WorkerCopy => ContentInv'
<1> SUFFICES ASSUME IInv, ContentInv, WorkerCopy PROVE ContentInv'
  OBVIOUS
<1> USE DEF ContentInv
<1>1. /\ pkt \in Seq(Nat) /\ pkt # <<>> /\ Head(pkt) \in Nat
      /\ shm \in [Slots -> Nat] /\ slot \in Slots \cup {DevNull} /\ wpc = "copy"
  BY HeadTail DEF IInv, TypeOK, DatagramInv, WorkerCopy
<1>2. shm' = IF slot = DevNull THEN shm ELSE [shm EXCEPT ![slot] = Head(pkt)]
  BY DEF WorkerCopy
<1>3. \/ wpc' = "recv" /\ pkt' = <<>>
      \/ NextFrame
      \/ wpc' = "push" /\ pkt' = pkt
  BY DEF WorkerCopy
<1>4. /\ Fresh(pkt', base, next)
      /\ wpc' \in {"pick", "recv", "push"}
      /\ wpc' = "recv" => pkt' = <<>>
      /\ wpc' = "push" => pkt' = pkt
  BY <1>1, <1>3, NextFrameContent, EmptySeq DEF FrameInv, Fresh
<1>5. FrameInv'
  BY <1>4 DEF WorkerCopy, netVars, FrameInv
<1>6. ModeInv'
  BY <1>1, <1>4 DEF WorkerCopy, serverVars, scriptVars, ModeInv, Acquiring
<1>7. CopyInv'
  BY <1>1, <1>2, <1>4 DEF WorkerCopy, CopyInv
<1>8. ReadInv'
  <2>1. UNCHANGED <<spc, rp, wp, rdp, block>>
    BY DEF WorkerCopy, ptrVars, scriptVars
  <2>2. CASE spc = "read" /\ slot # DevNull
    <3>1. mode
      BY <2>2 DEF ModeInv, Acquiring
    <3>2. slot = wp % Q /\ Gap(rp, wp) < Q /\ Gap(rp, wp) \in Nat
      BY <1>1, <2>2, <3>1, WorkerSlot DEF HoldsSlot
    <3>3. /\ rp \in Pointers /\ rdp \in Pointers /\ wrp \in Pointers
          /\ wp \in Pointers
      BY DEF IInv, TypeOK
    <3>4. Gap(rp, rdp) <= Gap(rp, wp)
      <4>1. /\ Gap(rp, rdp) \in Nat /\ Gap(rp, wrp) \in Nat
            /\ Gap(rp, wp) \in Nat
        BY <3>3, GapValue
      <4> QED
        BY <2>2, <4>1 DEF IInv, BlockInv
    <3>5. Ring(shm', rp, rdp) = Ring(shm, rp, rdp)
      <4>1. shm' = [shm EXCEPT ![wp % Q] = Head(pkt)]
        BY <1>2, <2>2, <3>2
      <4>2. /\ shm' \in [Slots -> Nat]
            /\ \A k \in Slots : k # wp % Q => shm'[k] = shm[k]
        BY <1>1, <4>1
      <4> QED
        BY <1>1, <3>2, <3>3, <3>4, <4>2, RingWritten
    <3> QED
      BY <2>1, <2>2, <3>5 DEF ReadInv
  <2>3. CASE ~(spc = "read" /\ slot # DevNull)
    BY <1>2, <2>1, <2>3 DEF ReadInv
  <2> QED
    BY <2>2, <2>3
<1> QED
  BY <1>5, <1>6, <1>7, <1>8

LEMMA WorkerPushContent == IInv /\ ContentInv /\ WorkerPush => ContentInv'
<1> SUFFICES ASSUME IInv, ContentInv, WorkerPush PROVE ContentInv'
  OBVIOUS
<1> USE DEF ContentInv
<1>1. /\ Fresh(pkt', base, next)
      /\ wpc' \in {"pick", "recv"} /\ wpc = "push"
      /\ wpc' = "recv" => pkt' = <<>>
  BY NextFrameContent DEF WorkerPush
<1>2. FrameInv'
  BY <1>1 DEF WorkerPush, netVars, FrameInv
<1>3. ModeInv' /\ CopyInv' /\ ReadInv'
  BY <1>1 DEF WorkerPush, serverVars, ptrVars, scriptVars, ModeInv, Acquiring,
              CopyInv, ReadInv
<1> QED
  BY <1>2, <1>3

LEMMA ServerContent == IInv /\ ContentInv /\ Server => ContentInv'
<1> SUFFICES ASSUME IInv, ContentInv, Server PROVE ContentInv'
  OBVIOUS
<1> USE DEF ContentInv, IInv, DaqInv, Goto, serverVars, ptrVars, netVars,
            workerVars, scriptVars, ModeInv, Acquiring, FrameInv, CopyInv,
            ReadInv
<1>1. CASE FirstWipe
  BY <1>1 DEF FirstWipe
<1>2. CASE TellWorker
  BY <1>2 DEF TellWorker
<1>3. CASE JoinWorker
  BY <1>3 DEF JoinWorker
<1>4. CASE SecondWipe
  BY <1>4 DEF SecondWipe
<1>5. CASE StartWorker
  BY <1>5 DEF StartWorker
<1> QED
  BY <1>1, <1>2, <1>3, <1>4, <1>5 DEF Server

LEMMA AskStartContent == IInv /\ ContentInv /\ AskStart => ContentInv'
<1> SUFFICES ASSUME IInv, ContentInv, AskStart PROVE ContentInv'
  OBVIOUS
<1> USE DEF ContentInv
<1>1. CASE spc = "on"
  BY <1>1 DEF AskStart, Goto, serverVars, ptrVars, workerVars, ModeInv,
              Acquiring, FrameInv, CopyInv, ReadInv
<1>2. CASE spc = "stopped" /\ net' = <<>>
  <2>1. pkt = <<>>
    BY <1>2 DEF ModeInv
  <2>2. Fresh(pkt', base', next') /\ Len(net') = 0
    BY <1>2, <2>1, EmptySeq DEF AskStart, workerVars, Fresh
  <2>3. FrameInv'
    BY <2>2 DEF AskStart, FrameInv
  <2> QED
    BY <1>2, <2>3 DEF AskStart, Goto, serverVars, ptrVars, workerVars, ModeInv,
                      Acquiring, CopyInv, ReadInv
<1> QED
  BY <1>1, <1>2 DEF AskStart

(* The requests of the script but for those of a block.                    *)
LEMMA RequestsContent ==
  IInv /\ ContentInv /\ (\/ AskStop \/ SyncTag \/ SyncMinimum \/ SyncRead
                         \/ SyncSet \/ FirstFrame \/ EndStep \/ ScriptDies)
    => ContentInv'
<1> USE DEF ContentInv, ScriptStep, Goto, serverVars, ptrVars, netVars,
            workerVars, scriptVars, ModeInv, Acquiring, FrameInv, CopyInv,
            ReadInv
<1>1. IInv /\ ContentInv /\ AskStop => ContentInv'
  BY DEF AskStop
<1>2. IInv /\ ContentInv /\ SyncTag => ContentInv'
  BY DEF SyncTag
<1>3. IInv /\ ContentInv /\ SyncMinimum => ContentInv'
  BY DEF SyncMinimum
<1>4. IInv /\ ContentInv /\ SyncRead => ContentInv'
  BY DEF SyncRead
<1>5. IInv /\ ContentInv /\ SyncSet => ContentInv'
  BY DEF SyncSet
<1>6. IInv /\ ContentInv /\ FirstFrame => ContentInv'
  BY DEF FirstFrame
<1>7. IInv /\ ContentInv /\ EndStep => ContentInv'
  BY DEF EndStep
<1>8. IInv /\ ContentInv /\ ScriptDies => ContentInv'
  BY DEF ScriptDies
<1> QED
  BY <1>1, <1>2, <1>3, <1>4, <1>5, <1>6, <1>7, <1>8

LEMMA BlockContent ==
  IInv /\ ContentInv /\ (NextBlock \/ ReadFrame \/ ReleaseBlock) => ContentInv'
<1> SUFFICES ASSUME IInv, ContentInv, NextBlock \/ ReadFrame \/ ReleaseBlock
             PROVE  ContentInv'
  OBVIOUS
<1> USE DEF ContentInv
<1>1. /\ shm \in [Slots -> Nat] /\ rp \in Pointers /\ rdp \in Pointers
      /\ wrp \in Pointers /\ wp \in Pointers
  BY DEF IInv, TypeOK
<1>2. ModeInv' /\ FrameInv' /\ CopyInv'
  BY DEF NextBlock, ReadFrame, ReleaseBlock, ScriptStep, serverVars, ptrVars,
         netVars, workerVars, ModeInv, Acquiring, FrameInv, CopyInv
<1>3. CASE NextBlock
  <2>1. Ring(shm, rp, rp) = <<>>
    BY <1>1, RingEmpty
  <2> QED
    BY <1>2, <1>3, <2>1 DEF NextBlock, ScriptStep, ptrVars, ReadInv
<1>4. CASE ReadFrame
  <2>1. /\ Gap(rp, rdp) \in Nat /\ Gap(rp, wrp) \in Nat /\ Gap(rp, wp) \in Nat
    BY <1>1, GapValue
  <2>2. Gap(rp, rdp) < Gap(rp, wrp) /\ Gap(rp, wrp) <= Gap(rp, wp)
        /\ Gap(rp, wp) <= Q
    BY <1>1, <1>4, <2>1, GapSplit DEF ReadFrame, ScriptStep, IInv, BlockInv,
                                      RoomInv
  <2>3. Gap(rp, rdp) < Q
    BY <2>1, <2>2
  <2>4. Ring(shm, rp, Advance(rdp, 1)) = Append(Ring(shm, rp, rdp), shm[rdp % Q])
    BY <1>1, <2>3, RingAppended
  <2> QED
    BY <1>2, <1>4, <2>4 DEF ReadFrame, ScriptStep, ptrVars, ReadInv
<1>5. CASE ReleaseBlock
  BY <1>2, <1>5 DEF ReleaseBlock, ScriptStep, ReadInv
<1> QED
  BY <1>3, <1>4, <1>5

LEMMA NextContent == IInv /\ ContentInv /\ [Next]_vars => ContentInv'
<1>1. ASSUME IInv, ContentInv, UNCHANGED vars PROVE ContentInv'
  BY <1>1 DEF ContentInv, ModeInv, Acquiring, FrameInv, CopyInv, ReadInv, vars,
              serverVars, ptrVars, netVars, workerVars, scriptVars
<1>2. ASSUME IInv, ContentInv, Worker PROVE ContentInv'
  BY <1>2, WorkerExitContent, WorkerRecvContent, WorkerModeContent,
     WorkerPickContent, WorkerCopyContent, WorkerPushContent DEF Worker
<1>3. ASSUME IInv, ContentInv, Script PROVE ContentInv'
  BY <1>3, AskStartContent, RequestsContent, BlockContent DEF Script
<1> QED
  BY <1>1, <1>2, <1>3, FpgaSendContent, ServerContent DEF Next

-----------------------------------------------------------------------------
(* What each step does to the queue that the buffer implements.            *)
Queue == IF mode THEN Ring(shm, rp, wp) ELSE <<>>

LEMMA PointerTypes ==
  ASSUME IInv
  PROVE  /\ shm \in [Slots -> Nat] /\ rp \in Pointers /\ rdp \in Pointers
         /\ wrp \in Pointers /\ wp \in Pointers
         /\ Gap(rp, rdp) \in Nat /\ Gap(rp, wrp) \in Nat /\ Gap(rp, wp) \in Nat
         /\ Gap(rp, wp) <= Q
<1>1. /\ shm \in [Slots -> Nat] /\ rp \in Pointers /\ rdp \in Pointers
      /\ wrp \in Pointers /\ wp \in Pointers /\ Gap(rp, wp) <= Q
  BY DEF IInv, TypeOK, RoomInv
<1> QED
  BY <1>1, GapValue

LEMMA QueueValue ==
  ASSUME IInv
  PROVE  /\ Queue \in Seq(Nat)
         /\ mode => Queue = Ring(shm, rp, wp) /\ Len(Queue) = Gap(rp, wp)
         /\ ~mode => Queue = <<>>
<1>1. Ring(shm, rp, wp) \in Seq(Nat) /\ Len(Ring(shm, rp, wp)) = Gap(rp, wp)
  BY PointerTypes, RingValue
<1>2. <<>> \in Seq(Nat)
  BY EmptySeq
<1>3. /\ mode => Queue = Ring(shm, rp, wp)
      /\ ~mode => Queue = <<>>
  BY DEF Queue
<1>4. mode \/ ~mode
  OBVIOUS
<1> QED
  BY <1>1, <1>2, <1>3, <1>4, Zenon

LEMMA SameQueue ==
  ASSUME UNCHANGED <<shm, rp, wp, mode>>
  PROVE  Queue' = Queue
  BY DEF Queue

LEMMA WorkerCopyQueue ==
  ASSUME IInv, ContentInv, WorkerCopy
  PROVE  Queue' = Queue /\ UNCHANGED <<given, mode>>
<1>1. UNCHANGED <<rp, wp, mode, given>>
  BY DEF WorkerCopy, ptrVars, serverVars, scriptVars
<1>2. shm' = IF slot = DevNull THEN shm ELSE [shm EXCEPT ![slot] = Head(pkt)]
  BY DEF WorkerCopy
<1>3. CASE mode /\ slot # DevNull
  <2>1. slot = wp % Q /\ Gap(rp, wp) < Q /\ Gap(rp, wp) <= Gap(rp, wp)
    BY <1>3, WorkerSlot DEF WorkerCopy, HoldsSlot
  <2>2. Head(pkt) \in Nat
    BY HeadTail DEF IInv, TypeOK, DatagramInv, WorkerCopy
  <2>3. shm' = [shm EXCEPT ![wp % Q] = Head(pkt)]
    BY <1>2, <1>3, <2>1
  <2>4. /\ shm' \in [Slots -> Nat]
        /\ \A k \in Slots : k # wp % Q => shm'[k] = shm[k]
    BY <2>2, <2>3, PointerTypes
  <2>5. Ring(shm', rp, wp) = Ring(shm, rp, wp)
    BY <2>1, <2>4, PointerTypes, RingWritten
  <2> QED
    BY <1>1, <1>3, <2>5 DEF Queue
<1>4. CASE ~(mode /\ slot # DevNull)
  BY <1>1, <1>2, <1>4 DEF Queue
<1> QED
  BY <1>1, <1>3, <1>4

LEMMA WorkerPushQueue ==
  ASSUME IInv, ContentInv, WorkerPush
  PROVE  /\ UNCHANGED <<given, mode>>
         /\ \/ Queue' = Queue
            \/ /\ Queue' = Append(Queue, Head(pkt))
               /\ Len(Queue) < Q
               /\ slot # DevNull
<1>1. UNCHANGED <<shm, rp, mode, given>>
  BY DEF WorkerPush, serverVars, scriptVars
<1>2. CASE mode /\ slot # DevNull
  <2>1. wp' = Advance(wp, 1) /\ HoldsSlot /\ shm[slot] = Head(pkt)
    BY <1>2 DEF WorkerPush, HoldsSlot, ContentInv, CopyInv
  <2>2. slot = wp % Q /\ Gap(rp, wp) < Q
    BY <1>2, <2>1, WorkerSlot
  <2>3. Ring(shm, rp, wp') = Append(Ring(shm, rp, wp), Head(pkt))
    BY <2>1, <2>2, PointerTypes, RingAppended
  <2>4. Queue' = Append(Queue, Head(pkt))
    BY <1>1, <1>2, <2>3 DEF Queue
  <2>5. Len(Queue) < Q
    BY <1>2, <2>2, QueueValue
  <2> QED
    BY <1>1, <1>2, <2>4, <2>5
<1>3. CASE ~(mode /\ slot # DevNull)
  BY <1>1, <1>3 DEF WorkerPush, Queue
<1> QED
  BY <1>1, <1>2, <1>3

LEMMA WipeQueue ==
  ASSUME IInv, FirstWipe \/ SecondWipe
  PROVE  Queue' = <<>> /\ given' = given
<1>1. CASE FirstWipe
  BY <1>1 DEF FirstWipe, Queue, scriptVars
<1>2. CASE SecondWipe
  <2>1. Ring(shm, 0, 0) = <<>>
    BY PointerTypes, RingEmpty DEF Pointers
  <2> QED
    BY <1>2, <2>1 DEF SecondWipe, Queue, scriptVars
<1> QED
  BY <1>1, <1>2

LEMMA SyncSetQueue ==
  ASSUME IInv, ContentInv, SyncSet
  PROVE  /\ given' = given
         /\ \E n \in 0..Len(Queue) : Queue' = SubSeq(Queue, n + 1, Len(Queue))
<1>1. mode /\ UNCHANGED <<shm, wp, mode, given>> /\ rp' = wrp
  BY DEF SyncSet, ScriptStep, ContentInv, ModeInv, Acquiring
<1>2. Gap(rp, wrp) <= Gap(rp, wp)
  BY DEF SyncSet, ScriptStep, IInv, BlockInv
<1>3. Queue = Ring(shm, rp, wp) /\ Len(Queue) = Gap(rp, wp)
  BY <1>1, QueueValue
<1>4. Ring(shm, wrp, wp) = SubSeq(Queue, Gap(rp, wrp) + 1, Len(Queue))
  BY <1>2, <1>3, PointerTypes, RingSplit
<1>5. Queue' = Ring(shm, wrp, wp)
  BY <1>1 DEF Queue
<1>6. Gap(rp, wrp) \in 0..Len(Queue)
  BY <1>2, <1>3, PointerTypes
<1> QED
  BY <1>1, <1>4, <1>5, <1>6

LEMMA ReleaseBlockQueue ==
  ASSUME IInv, ContentInv, ReleaseBlock
  PROVE  \E n \in 1..Len(Queue) :
           /\ Queue' = SubSeq(Queue, n + 1, Len(Queue))
           /\ given' = SubSeq(Queue, 1, n)
<1> DEFINE n == Gap(rp, rdp)
<1>1. mode /\ UNCHANGED <<shm, wp, mode>> /\ rp' = rdp /\ given' = block
  BY DEF ReleaseBlock, ScriptStep, ContentInv, ModeInv, Acquiring
<1>2. n \in 1..Gap(rp, wp) /\ n <= Gap(rp, wp)
  <2>1. rdp = wrp /\ Gap(rp, wrp) \in 1..Gap(rp, wp)
    BY DEF ReleaseBlock, ScriptStep, IInv, BlockInv
  <2> QED
    BY <2>1, PointerTypes
<1>3. Queue = Ring(shm, rp, wp) /\ Len(Queue) = Gap(rp, wp)
  BY <1>1, QueueValue
<1>4. block = Ring(shm, rp, rdp)
  BY DEF ReleaseBlock, ScriptStep, ContentInv, ReadInv
<1>5. /\ Ring(shm, rdp, wp) = SubSeq(Queue, n + 1, Len(Queue))
      /\ Ring(shm, rp, rdp) = SubSeq(Queue, 1, n)
  BY <1>2, <1>3, PointerTypes, RingSplit
<1>6. Queue' = Ring(shm, rdp, wp)
  BY <1>1 DEF Queue
<1> QED
  BY <1>1, <1>2, <1>3, <1>4, <1>5, <1>6

(* The other steps leave it as it is.                                      *)
Elsewhere ==
  \/ FpgaSend \/ WorkerExit \/ WorkerRecv \/ WorkerMode \/ WorkerPick
  \/ TellWorker \/ JoinWorker \/ StartWorker
  \/ AskStart \/ AskStop \/ SyncTag \/ SyncMinimum \/ SyncRead \/ FirstFrame
  \/ NextBlock \/ ReadFrame \/ EndStep \/ ScriptDies

LEMMA ElsewhereQueue ==
  ASSUME IInv, Elsewhere
  PROVE  UNCHANGED <<shm, rp, wp, mode, given>> /\ Queue' = Queue
<1>1. UNCHANGED <<shm, rp, wp, mode, given>>
  <2> USE DEF serverVars, ptrVars, scriptVars, ScriptStep
  <2>1. CASE \/ FpgaSend \/ WorkerExit \/ WorkerRecv \/ WorkerMode \/ WorkerPick
             \/ TellWorker \/ JoinWorker \/ StartWorker
    BY <2>1 DEF FpgaSend, WorkerExit, WorkerRecv, WorkerMode, WorkerPick,
                TellWorker, JoinWorker, StartWorker
  <2>2. CASE \/ AskStart \/ AskStop \/ SyncTag \/ SyncMinimum \/ SyncRead
             \/ FirstFrame \/ NextBlock \/ ReadFrame \/ ScriptDies
    BY <2>2 DEF AskStart, AskStop, SyncTag, SyncMinimum, SyncRead, FirstFrame,
                NextBlock, ReadFrame, ScriptDies
  <2>3. CASE EndStep
    BY <2>3 DEF EndStep, IInv, BlockInv
  <2> QED
    BY <2>1, <2>2, <2>3 DEF Elsewhere
<1> QED
  BY <1>1, SameQueue

LEMMA StepCases ==
  ASSUME Next
  PROVE  \/ Elsewhere
         \/ WorkerCopy \/ WorkerPush \/ FirstWipe \/ SecondWipe \/ SyncSet
         \/ ReleaseBlock
  BY DEF Next, Worker, Server, Script, Elsewhere

-----------------------------------------------------------------------------
(* The buffer implements the bounded queue.                                *)
LEMMA FifoStep ==
  ASSUME IInv, ContentInv, [Next]_vars
  PROVE  [Fifo!Next]_(Fifo!vars)
<1> USE DEF Fifo!vars
<1>1. ASSUME UNCHANGED <<Queue, given>>
      PROVE  UNCHANGED Fifo!vars
  BY <1>1 DEF Queue, Ring, Gap, Occupancy
<1>2. ASSUME Queue' = <<>>, given' = given
      PROVE  Fifo!Wipe
  BY <1>2 DEF Fifo!Wipe, Queue, Ring, Gap, Occupancy
<1>3. ASSUME NEW n \in 1..Len(Queue), given' = SubSeq(Queue, 1, n),
             Queue' = SubSeq(Queue, n + 1, Len(Queue))
      PROVE  Fifo!Take(n) /\ n \in 1..Len(Queue)
  BY <1>3 DEF Fifo!Take, Queue, Ring, Gap, Occupancy
<1>4. ASSUME NEW n \in 1..Len(Queue), given' = given,
             Queue' = SubSeq(Queue, n + 1, Len(Queue))
      PROVE  Fifo!Discard(n) /\ n \in 1..Len(Queue)
  BY <1>4 DEF Fifo!Discard, Queue, Ring, Gap, Occupancy
<1>5. ASSUME NEW f, Queue' = Append(Queue, f), given' = given, Len(Queue) < Q
      PROVE  Fifo!Put(f)
  BY <1>5 DEF Fifo!Put, Queue, Ring, Gap, Occupancy
<1>6. ASSUME NEW n \in 1..Len(Queue), Fifo!Take(n) \/ Fifo!Discard(n)
      PROVE  Fifo!Next
  BY <1>6 DEF Fifo!Next, Queue, Ring, Gap, Occupancy
<1>7. CASE UNCHANGED vars
  <2>1. UNCHANGED <<Queue, given>>
    BY <1>7, SameQueue DEF vars, ptrVars, serverVars, scriptVars
  <2> QED
    BY <1>1, <2>1
<1>8. CASE Elsewhere
  BY <1>1, <1>8, ElsewhereQueue
<1>9. CASE WorkerCopy
  BY <1>1, <1>9, WorkerCopyQueue
<1>10. CASE WorkerPush
  <2>1. Head(pkt) \in 1..MaxFrame
    <3>1. pkt \in Seq(Nat) /\ pkt # <<>> /\ base \in Nat /\ next \in Nat
      BY <1>10 DEF WorkerPush, IInv, TypeOK, DatagramInv
    <3>2. Head(pkt) \in (base + 1)..(next - 1) /\ next <= MaxFrame + 1
      BY <3>1, HeadTail DEF ContentInv, FrameInv, Fresh
    <3> QED
      BY <3>1, <3>2
  <2>2. CASE Queue' = Queue
    BY <1>1, <1>10, <2>2, WorkerPushQueue
  <2>3. CASE Queue' = Append(Queue, Head(pkt)) /\ Len(Queue) < Q
    <3>1. Fifo!Put(Head(pkt))
      BY <1>5, <1>10, <2>3, WorkerPushQueue
    <3> QED
      BY <2>1, <3>1 DEF Fifo!Next
  <2> QED
    BY <1>10, <2>2, <2>3, WorkerPushQueue
<1>11. CASE FirstWipe \/ SecondWipe
  BY <1>2, <1>11, WipeQueue DEF Fifo!Next
<1>12. CASE SyncSet
  <2>1. PICK n \in 0..Len(Queue) : Queue' = SubSeq(Queue, n + 1, Len(Queue))
    BY <1>12, SyncSetQueue
  <2>2. given' = given /\ Queue \in Seq(Nat) /\ Len(Queue) \in Nat
    BY <1>12, SyncSetQueue, QueueValue, LenProperties
  <2>3. CASE n = 0
    <3>1. Queue' = Queue
      BY <2>1, <2>2, <2>3, SubSeqFull
    <3> QED
      BY <1>1, <2>2, <3>1
  <2>4. CASE n # 0
    <3>1. n \in 1..Len(Queue)
      BY <2>2, <2>4
    <3> QED
      BY <1>4, <1>6, <2>1, <2>2, <3>1
  <2> QED
    BY <2>3, <2>4
<1>13. CASE ReleaseBlock
  BY <1>3, <1>6, <1>13, ReleaseBlockQueue
<1> QED
  BY <1>7, <1>8, <1>9, <1>10, <1>11, <1>12, <1>13, StepCases

(* The frames a script gets, the pointers and the slots behave as a        *)
(* bounded queue: for any ring, any datagrams, losses, starts and stops,   *)
(* every step of the three threads is one of the queue or none.            *)
THEOREM Refinement == Spec => ImplementsFifo
<1>1. Init => Fifo!Init
  BY DEF Init, Fifo!Init
<1>2. Init => IInv /\ ContentInv
  BY InitIInv, InitContent
<1>3. IInv /\ ContentInv /\ [Next]_vars
        => IInv' /\ ContentInv' /\ [Fifo!Next]_(Fifo!vars)
  BY NextIInv, NextContent, FifoStep
<1> QED
  BY <1>1, <1>2, <1>3, PTL DEF Spec, ImplementsFifo, Fifo!Spec

-----------------------------------------------------------------------------
(* The order of the frames.  A later frame has a greater number, by at     *)
(* least the distance of their places; the frames of s come before those   *)
(* of t.                                                                   *)
Increasing(s) ==
  \A i, j \in 1..Len(s) : i < j => s[i] + (j - i) <= s[j]

Before(s, t) == \A i \in 1..Len(s), j \in 1..Len(t) : s[i] < t[j]

Below(s, n) == \A i \in 1..Len(s) : s[i] < n

BeforeAll(s, nt) == \A d \in 1..Len(nt) : Before(s, nt[d])

NetOrder(nt) ==
  /\ \A d \in 1..Len(nt) : Increasing(nt[d])
  /\ \A d, e \in 1..Len(nt) : d < e => Before(nt[d], nt[e])

(* Sequence p is a part of s after its first a elements.                   *)
Part(p, s, a) ==
  /\ a + Len(p) <= Len(s)
  /\ \A i \in 1..Len(p) : p[i] = s[i + a]

LEMMA PartOrder ==
  ASSUME NEW p \in Seq(Nat), NEW s \in Seq(Nat), NEW a \in Nat, Part(p, s, a)
  PROVE  /\ Increasing(s) => Increasing(p)
         /\ \A t \in Seq(Nat) : Before(s, t) => Before(p, t)
         /\ \A t \in Seq(Nat) : Before(t, s) => Before(t, p)
         /\ \A n \in Nat : Below(s, n) => Below(p, n)
         /\ \A nt \in Seq(Seq(Nat)) : BeforeAll(s, nt) => BeforeAll(p, nt)
<1>1. Len(p) \in Nat /\ Len(s) \in Nat
  BY LenProperties
<1>2. \A i \in 1..Len(p) : i + a \in 1..Len(s) /\ p[i] = s[i + a]
  <2> DEFINE m == Len(p)
             n == Len(s)
  <2>1. m \in Nat /\ n \in Nat /\ a + m <= n /\ \A i \in 1..m : p[i] = s[i + a]
    BY <1>1 DEF Part
  <2> HIDE DEF m, n
  <2>2. \A i \in 1..m : i + a \in 1..n
    BY <2>1
  <2>3. \A i \in 1..m : i + a \in 1..n /\ p[i] = s[i + a]
    BY <2>1, <2>2
  <2> QED
    BY <2>3 DEF m, n
<1>3. \A i, j \in 1..Len(p) : (j + a) - (i + a) = j - i
  BY <1>1
<1>4. Increasing(s) => Increasing(p)
  <2> SUFFICES ASSUME Increasing(s), NEW i \in 1..Len(p), NEW j \in 1..Len(p),
                      i < j
               PROVE  p[i] + (j - i) <= p[j]
    BY DEF Increasing
  <2>1. i + a \in 1..Len(s) /\ j + a \in 1..Len(s) /\ i + a < j + a
    BY <1>1, <1>2
  <2>2. s[i + a] + ((j + a) - (i + a)) <= s[j + a]
    BY <2>1 DEF Increasing
  <2> QED
    BY <1>2, <1>3, <2>2
<1>5. \A t : Before(s, t) => Before(p, t)
  BY <1>2 DEF Before
<1>6. \A t : Before(t, s) => Before(t, p)
  BY <1>2 DEF Before
<1>7. \A n : Below(s, n) => Below(p, n)
  BY <1>2 DEF Below
<1> QED
  BY <1>4, <1>5, <1>6, <1>7 DEF BeforeAll

LEMMA PartValue ==
  ASSUME NEW s \in Seq(Nat)
  PROVE  /\ Part(s, s, 0) /\ Part(<<>>, s, 0) /\ <<>> \in Seq(Nat)
         /\ s # <<>> => Part(Tail(s), s, 1) /\ Tail(s) \in Seq(Nat)
         /\ \A n \in 0..Len(s) :
              /\ SubSeq(s, 1, n) \in Seq(Nat) /\ Part(SubSeq(s, 1, n), s, 0)
              /\ SubSeq(s, n + 1, Len(s)) \in Seq(Nat)
              /\ Part(SubSeq(s, n + 1, Len(s)), s, n)
              /\ Increasing(s) => Before(SubSeq(s, 1, n), SubSeq(s, n + 1, Len(s)))
<1>1. /\ Len(s) \in Nat /\ \A i \in 1..Len(s) : s[i] \in Nat
      /\ \A i \in 1..Len(s) : i + 0 = i
  BY LenProperties, ElementOfSeq
<1>2. Part(s, s, 0)
  BY <1>1 DEF Part
<1>3. <<>> \in Seq(Nat) /\ Part(<<>>, s, 0)
  BY <1>1, EmptySeq DEF Part
<1>4. ASSUME s # <<>> PROVE Part(Tail(s), s, 1) /\ Tail(s) \in Seq(Nat)
  BY <1>1, <1>4, HeadTail DEF Part
<1>5. ASSUME NEW n \in 0..Len(s)
      PROVE  /\ SubSeq(s, 1, n) \in Seq(Nat) /\ Part(SubSeq(s, 1, n), s, 0)
             /\ SubSeq(s, n + 1, Len(s)) \in Seq(Nat)
             /\ Part(SubSeq(s, n + 1, Len(s)), s, n)
             /\ Increasing(s) => Before(SubSeq(s, 1, n), SubSeq(s, n + 1, Len(s)))
  <2> DEFINE f == SubSeq(s, 1, n)
             r == SubSeq(s, n + 1, Len(s))
  <2>1. /\ \A i \in 1..n : s[i] \in Nat
        /\ \A i \in (n + 1)..Len(s) : s[i] \in Nat
    BY <1>1
  <2>2. /\ f \in Seq(Nat) /\ Len(f) = (IF 1 <= n THEN n - 1 + 1 ELSE 0)
        /\ \A i \in 1..(n - 1 + 1) : f[i] = s[1 + i - 1]
    BY <1>1, <2>1, SubSeqProperties
  <2>3. /\ r \in Seq(Nat)
        /\ Len(r) = (IF n + 1 <= Len(s) THEN Len(s) - (n + 1) + 1 ELSE 0)
        /\ \A i \in 1..(Len(s) - (n + 1) + 1) : r[i] = s[(n + 1) + i - 1]
    BY <1>1, <2>1, SubSeqProperties
  <2> HIDE DEF f, r
  <2>4. /\ f \in Seq(Nat) /\ Len(f) = n
        /\ \A i \in 1..n : f[i] = s[i]
    <3>1. \A i \in 1..n : i \in 1..(n - 1 + 1) /\ 1 + i - 1 = i
      OBVIOUS
    <3> QED
      BY <2>2, <3>1
  <2>5. /\ r \in Seq(Nat) /\ Len(r) = Len(s) - n
        /\ \A i \in 1..(Len(s) - n) : r[i] = s[i + n]
    <3>1. \A i \in 1..(Len(s) - n) :
            i \in 1..(Len(s) - (n + 1) + 1) /\ (n + 1) + i - 1 = i + n
      BY <1>1
    <3> QED
      BY <1>1, <2>3, <3>1
  <2>6. Part(f, s, 0) /\ Part(r, s, n)
    BY <1>1, <2>4, <2>5 DEF Part
  <2>7. ASSUME Increasing(s) PROVE Before(f, r)
    <3> SUFFICES ASSUME NEW i \in 1..n, NEW j \in 1..(Len(s) - n)
                 PROVE  f[i] < r[j]
      BY <2>4, <2>5 DEF Before
    <3>1. /\ i \in 1..Len(s) /\ j + n \in 1..Len(s) /\ i < j + n
          /\ (j + n) - i \in Nat \ {0}
      BY <1>1
    <3>2. s[i] + ((j + n) - i) <= s[j + n] /\ s[i] \in Nat /\ s[j + n] \in Nat
      BY <1>1, <2>7, <3>1 DEF Increasing
    <3>3. s[i] < s[j + n]
      <4> DEFINE u == s[i]
                 v == s[j + n]
                 k == (j + n) - i
      <4>1. k \in Nat \ {0} /\ u \in Nat /\ v \in Nat /\ u + k <= v
        BY <3>1, <3>2
      <4> HIDE DEF u, v, k
      <4>2. u < v
        BY <4>1
      <4> QED
        BY <4>2 DEF u, v
    <3> QED
      BY <2>4, <2>5, <3>3
  <2> QED
    BY <2>4, <2>5, <2>6, <2>7 DEF f, r
<1> QED
  BY <1>2, <1>3, <1>4, <1>5

(* A frame that comes after all of s is appended to it.                    *)
LEMMA AppendOrder ==
  ASSUME NEW s \in Seq(Nat), NEW x \in Nat, Below(s, x)
  PROVE  /\ Append(s, x) \in Seq(Nat)
         /\ Increasing(s) => Increasing(Append(s, x))
         /\ \A t \in Seq(Nat) : Before(t, s) /\ Below(t, x)
                                  => Before(t, Append(s, x))
         /\ \A t \in Seq(Nat) : Before(s, t) /\ Before(<<x>>, t)
                                  => Before(Append(s, x), t)
         /\ \A n \in Nat : Below(s, n) /\ x < n => Below(Append(s, x), n)
<1> DEFINE q == Append(s, x)
           n == Len(s)
<1>1. /\ n \in Nat /\ q \in Seq(Nat) /\ Len(q) = n + 1 /\ q[n + 1] = x
      /\ \A i \in 1..n : q[i] = s[i] /\ s[i] \in Nat
  BY AppendProperties, LenProperties, ElementOfSeq
<1>2. \A i \in 1..n : s[i] < x
  BY DEF Below
<1> HIDE DEF q
<1>3. \A i \in 1..(n + 1) : i \in 1..n \/ i = n + 1
  BY <1>1
<1>4. ASSUME Increasing(s) PROVE Increasing(q)
  <2> SUFFICES ASSUME NEW i \in 1..(n + 1), NEW j \in 1..(n + 1), i < j
               PROVE  q[i] + (j - i) <= q[j]
    BY <1>1 DEF Increasing
  <2>1. i \in 1..n
    BY <1>1
  <2>2. CASE j \in 1..n
    BY <1>1, <1>4, <2>1, <2>2 DEF Increasing
  <2>3. CASE j = n + 1
    <3>1. n \in 1..n /\ s[n] \in Nat /\ s[i] \in Nat /\ s[n] < x
      BY <1>1, <1>2, <2>1
    <3>2. s[i] + (n - i) <= s[n]
      <4>1. CASE i = n
        BY <3>1, <4>1
      <4>2. CASE i # n
        BY <1>1, <1>4, <2>1, <3>1, <4>2 DEF Increasing
      <4> QED
        BY <4>1, <4>2
    <3>3. s[i] + ((n + 1) - i) <= x
      <4> DEFINE u == s[i]
                 v == s[n]
      <4>1. /\ u \in Nat /\ v \in Nat /\ x \in Nat /\ n \in Nat /\ i \in Nat
            /\ u + (n - i) <= v /\ v < x
        BY <1>1, <2>1, <3>1, <3>2
      <4> HIDE DEF u, v, n
      <4>2. u + ((n + 1) - i) <= x
        BY <4>1
      <4> QED
        BY <4>2 DEF u
    <3> QED
      BY <1>1, <2>1, <2>3, <3>3
  <2> QED
    BY <1>3, <2>2, <2>3
<1>5. ASSUME NEW t, Before(t, s), Below(t, x) PROVE Before(t, q)
  BY <1>1, <1>3, <1>5 DEF Before, Below
<1>6. ASSUME NEW t, Before(s, t), Before(<<x>>, t) PROVE Before(q, t)
  <2>1. \A j \in 1..Len(t) : x < t[j]
    BY <1>6 DEF Before
  <2> QED
    BY <1>1, <1>3, <1>6, <2>1 DEF Before
<1>7. ASSUME NEW m, Below(s, m), x < m PROVE Below(q, m)
  BY <1>1, <1>3, <1>7 DEF Below
<1> QED
  BY <1>1, <1>4, <1>5, <1>6, <1>7 DEF q

(* The head of a sequence comes before what is left of it.                 *)
LEMMA HeadOrder ==
  ASSUME NEW s \in Seq(Nat), s # <<>>
  PROVE  /\ Head(s) \in Nat /\ Part(<<Head(s)>>, s, 0) /\ <<Head(s)>> \in Seq(Nat)
         /\ Tail(s) \in Seq(Nat) /\ Part(Tail(s), s, 1)
         /\ Increasing(s) => Before(<<Head(s)>>, Tail(s))
         /\ \A t \in Seq(Nat) : Before(t, s) => Below(t, Head(s))
<1> DEFINE h == Head(s)
<1>1. /\ Len(s) \in Nat \ {0} /\ h = s[1] /\ h \in Nat
      /\ Tail(s) \in Seq(Nat) /\ Len(Tail(s)) = Len(s) - 1
      /\ \A i \in 1..(Len(s) - 1) : Tail(s)[i] = s[i + 1]
      /\ \A i \in 1..Len(s) : s[i] \in Nat
  BY HeadTail, ElementOfSeq
<1> HIDE DEF h
<1>2. <<h>> \in Seq(Nat) /\ Len(<<h>>) = 1 /\ <<h>>[1] = h
  BY <1>1
<1>3. Part(<<h>>, s, 0)
  BY <1>1, <1>2 DEF Part
<1>4. Part(Tail(s), s, 1)
  BY PartValue
<1>5. ASSUME Increasing(s) PROVE Before(<<h>>, Tail(s))
  <2> SUFFICES ASSUME NEW j \in 1..(Len(s) - 1) PROVE h < Tail(s)[j]
    BY <1>1, <1>2 DEF Before
  <2>1. 1 \in 1..Len(s) /\ j + 1 \in 1..Len(s) /\ 1 < j + 1
    BY <1>1
  <2>2. s[1] + ((j + 1) - 1) <= s[j + 1] /\ s[1] \in Nat /\ s[j + 1] \in Nat
    BY <1>1, <1>5, <2>1 DEF Increasing
  <2>3. s[1] < s[j + 1]
    BY <2>2
  <2> QED
    BY <1>1, <2>3
<1>6. ASSUME NEW t, Before(t, s) PROVE Below(t, h)
  BY <1>1, <1>6 DEF Before, Below
<1> QED
  BY <1>1, <1>2, <1>3, <1>4, <1>5, <1>6 DEF h

(* The datagrams that wait.                                                *)
LEMMA NetTail ==
  ASSUME NEW nt \in Seq(Seq(Nat)), nt # <<>>, NetOrder(nt)
  PROVE  /\ Increasing(Head(nt)) /\ BeforeAll(Head(nt), Tail(nt))
         /\ NetOrder(Tail(nt))
         /\ \A s \in Seq(Nat) : BeforeAll(s, nt)
              => Before(s, Head(nt)) /\ BeforeAll(s, Tail(nt))
<1>1. /\ Len(nt) \in Nat \ {0} /\ Head(nt) = nt[1]
      /\ Len(Tail(nt)) = Len(nt) - 1
      /\ \A i \in 1..(Len(nt) - 1) : Tail(nt)[i] = nt[i + 1]
  BY HeadTail
<1>2. /\ \A i \in 1..(Len(nt) - 1) : i + 1 \in 1..Len(nt) /\ 1 < i + 1
      /\ \A i, j \in 1..(Len(nt) - 1) : i < j => i + 1 < j + 1
      /\ 1 \in 1..Len(nt)
  BY <1>1
<1> QED
  BY <1>1, <1>2 DEF NetOrder, BeforeAll

LEMMA NetAppend ==
  ASSUME NEW nt \in Seq(Seq(Nat)), NEW d \in Seq(Nat)
  PROVE  /\ \A s \in Seq(Nat) : BeforeAll(s, nt) /\ Before(s, d)
              => BeforeAll(s, Append(nt, d))
         /\ NetOrder(nt) /\ Increasing(d)
              /\ (\A i \in 1..Len(nt) : Before(nt[i], d))
              => NetOrder(Append(nt, d))
<1> DEFINE q == Append(nt, d)
           n == Len(nt)
<1>1. /\ n \in Nat /\ Len(q) = n + 1 /\ q[n + 1] = d
      /\ \A i \in 1..n : q[i] = nt[i]
  BY AppendProperties, LenProperties
<1> HIDE DEF q
<1>2. \A i \in 1..(n + 1) : i \in 1..n \/ i = n + 1
  BY <1>1
<1>3. \A i, j \in 1..(n + 1) : i < j => i \in 1..n
  BY <1>1
<1>4. ASSUME NEW s, BeforeAll(s, nt), Before(s, d) PROVE BeforeAll(s, q)
  BY <1>1, <1>2, <1>4 DEF BeforeAll
<1>5. ASSUME NetOrder(nt), Increasing(d), \A i \in 1..n : Before(nt[i], d)
      PROVE  NetOrder(q)
  <2>1. \A e \in 1..(n + 1) : Increasing(q[e])
    BY <1>1, <1>2, <1>5 DEF NetOrder
  <2>2. ASSUME NEW e \in 1..(n + 1), NEW f \in 1..(n + 1), e < f
        PROVE  Before(q[e], q[f])
    <3>1. e \in 1..n /\ q[e] = nt[e]
      BY <1>1, <1>3, <2>2
    <3>2. CASE f \in 1..n
      BY <1>1, <1>5, <2>2, <3>1, <3>2 DEF NetOrder
    <3>3. CASE f = n + 1
      BY <1>1, <1>5, <3>1, <3>3
    <3> QED
      BY <1>2, <3>2, <3>3
  <2> QED
    BY <1>1, <2>1, <2>2 DEF NetOrder
<1> QED
  BY <1>4, <1>5 DEF q

-----------------------------------------------------------------------------
(* What was given to a script comes before what is in the ring, this       *)
(* before the rest of the datagram the worker handles, this before the     *)
(* datagrams that wait, and all before the next frame of the FPGA.         *)
Ordered(g, q, p, nt, n) ==
  /\ Increasing(g) /\ Increasing(q) /\ Increasing(p)
  /\ Before(g, q) /\ Before(g, p) /\ Before(q, p)
  /\ Below(g, n) /\ Below(q, n)
  /\ BeforeAll(g, nt) /\ BeforeAll(q, nt) /\ BeforeAll(p, nt)
  /\ NetOrder(nt)

LEMMA OrderedDrop ==
  ASSUME NEW g \in Seq(Nat), NEW q \in Seq(Nat), NEW p \in Seq(Nat),
         NEW nt \in Seq(Seq(Nat)), NEW n \in Nat, Ordered(g, q, p, nt, n),
         NEW x \in Seq(Nat), NEW a \in Nat
  PROVE  /\ Part(x, q, a) => Ordered(g, x, p, nt, n)
         /\ Part(x, p, a) => Ordered(g, q, x, nt, n)
  BY PartOrder DEF Ordered

LEMMA OrderedTake ==
  ASSUME NEW g \in Seq(Nat), NEW q \in Seq(Nat), NEW p \in Seq(Nat),
         NEW nt \in Seq(Seq(Nat)), NEW n \in Nat, Ordered(g, q, p, nt, n),
         NEW k \in 0..Len(q)
  PROVE  Ordered(SubSeq(q, 1, k), SubSeq(q, k + 1, Len(q)), p, nt, n)
<1> DEFINE f == SubSeq(q, 1, k)
           r == SubSeq(q, k + 1, Len(q))
<1>1. /\ f \in Seq(Nat) /\ Part(f, q, 0) /\ r \in Seq(Nat) /\ Part(r, q, k)
      /\ Increasing(q) => Before(f, r)
  BY PartValue
<1>2. k \in Nat /\ 0 \in Nat
  OBVIOUS
<1> HIDE DEF f, r
<1>3. /\ Increasing(f) /\ Before(f, p) /\ Below(f, n) /\ BeforeAll(f, nt)
  BY <1>1, <1>2, PartOrder DEF Ordered
<1>4. /\ Increasing(r) /\ Before(r, p) /\ Below(r, n) /\ BeforeAll(r, nt)
  BY <1>1, <1>2, PartOrder DEF Ordered
<1>5. Ordered(f, r, p, nt, n)
  BY <1>1, <1>3, <1>4 DEF Ordered
<1> QED
  BY <1>5 DEF f, r

LEMMA OrderedPush ==
  ASSUME NEW g \in Seq(Nat), NEW q \in Seq(Nat), NEW p \in Seq(Nat),
         NEW nt \in Seq(Seq(Nat)), NEW n \in Nat, Ordered(g, q, p, nt, n),
         p # <<>>, Head(p) < n
  PROVE  Ordered(g, Append(q, Head(p)), Tail(p), nt, n)
<1> DEFINE h == Head(p)
           s == Tail(p)
           x == Append(q, h)
<1>1. /\ h \in Nat /\ Part(<<h>>, p, 0) /\ <<h>> \in Seq(Nat)
      /\ s \in Seq(Nat) /\ Part(s, p, 1) /\ Before(<<h>>, s)
      /\ Below(g, h) /\ Below(q, h)
  BY HeadOrder DEF Ordered
<1> HIDE DEF h, s
<1>2. /\ Increasing(s) /\ Before(g, s) /\ Before(q, s) /\ BeforeAll(s, nt)
      /\ BeforeAll(<<h>>, nt)
  BY <1>1, PartOrder DEF Ordered
<1>3. /\ x \in Seq(Nat) /\ Increasing(x) /\ Before(g, x) /\ Below(x, n)
      /\ Before(x, s)
  BY <1>1, <1>2, AppendOrder DEF Ordered, h
<1>4. BeforeAll(x, nt)
  <2> SUFFICES ASSUME NEW d \in 1..Len(nt) PROVE Before(x, nt[d])
    BY DEF BeforeAll
  <2>1. nt[d] \in Seq(Nat) /\ Before(q, nt[d]) /\ Before(<<h>>, nt[d])
    BY <1>2, ElementOfSeq DEF Ordered, BeforeAll
  <2> QED
    BY <1>1, <2>1, AppendOrder
<1> HIDE DEF x
<1>5. Ordered(g, x, s, nt, n)
  BY <1>2, <1>3, <1>4 DEF Ordered
<1> QED
  BY <1>5 DEF x, h, s

LEMMA OrderedReceive ==
  ASSUME NEW g \in Seq(Nat), NEW q \in Seq(Nat), NEW p \in Seq(Nat),
         NEW nt \in Seq(Seq(Nat)), NEW n \in Nat, Ordered(g, q, p, nt, n),
         nt # <<>>
  PROVE  Ordered(g, q, Head(nt), Tail(nt), n)
  BY NetTail DEF Ordered

LEMMA OrderedSend ==
  ASSUME NEW g \in Seq(Nat), NEW q \in Seq(Nat), NEW p \in Seq(Nat),
         NEW nt \in Seq(Seq(Nat)), NEW n \in Nat, Ordered(g, q, p, nt, n),
         Below(p, n), \A d \in 1..Len(nt) : Below(nt[d], n),
         NEW k \in Nat, NEW m \in Seq(Nat),
         Len(m) = k, \A i \in 1..k : m[i] = n + i - 1
  PROVE  /\ Ordered(g, q, p, nt, n + k)
         /\ Ordered(g, q, p, Append(nt, m), n + k)
<1>1. Below(g, n + k) /\ Below(q, n + k)
  <2>1. \A i \in 1..Len(g) : g[i] \in Nat /\ g[i] < n
    BY ElementOfSeq DEF Ordered, Below
  <2>2. \A i \in 1..Len(q) : q[i] \in Nat /\ q[i] < n
    BY ElementOfSeq DEF Ordered, Below
  <2>3. \A u \in Nat : u < n => u < n + k
    OBVIOUS
  <2> QED
    BY <2>1, <2>2, <2>3 DEF Below
<1>2. Increasing(m)
  BY DEF Increasing
<1>3. ASSUME NEW s \in Seq(Nat), Below(s, n) PROVE Before(s, m)
  <2>1. \A i \in 1..Len(s) : s[i] \in Nat /\ s[i] < n
    BY <1>3, ElementOfSeq DEF Below
  <2>2. \A j \in 1..Len(m) : m[j] \in Nat /\ n <= m[j]
    OBVIOUS
  <2> QED
    BY <2>1, <2>2 DEF Before
<1>4. Before(g, m) /\ Before(q, m) /\ Before(p, m)
  BY <1>3 DEF Ordered
<1>5. \A d \in 1..Len(nt) : Before(nt[d], m)
  BY <1>3, ElementOfSeq
<1>6. /\ NetOrder(Append(nt, m)) /\ BeforeAll(g, Append(nt, m))
      /\ BeforeAll(q, Append(nt, m)) /\ BeforeAll(p, Append(nt, m))
  BY <1>2, <1>4, <1>5, NetAppend DEF Ordered
<1> QED
  BY <1>1, <1>6 DEF Ordered

OrderInv == Ordered(given, Queue, pkt, net, next)

LEMMA OrderTypes ==
  ASSUME IInv
  PROVE  /\ given \in Seq(Nat) /\ Queue \in Seq(Nat) /\ pkt \in Seq(Nat)
         /\ net \in Seq(Seq(Nat)) /\ next \in Nat /\ base \in Nat
  BY QueueValue DEF IInv, TypeOK

LEMMA InitOrder == Init => OrderInv
<1> SUFFICES ASSUME Init PROVE OrderInv
  OBVIOUS
<1>1. given = <<>> /\ Queue = <<>> /\ pkt = <<>> /\ net = <<>>
  BY DEF Init, Queue
<1>2. Len(<<>>) = 0
  BY EmptySeq
<1> QED
  BY <1>1, <1>2 DEF OrderInv, Ordered, Increasing, Before, Below, BeforeAll,
                    NetOrder

LEMMA FpgaSendOrder == IInv /\ ContentInv /\ OrderInv /\ FpgaSend => OrderInv'
<1> SUFFICES ASSUME IInv, ContentInv, OrderInv, FpgaSend PROVE OrderInv'
  OBVIOUS
<1>1. PICK k \in 1..MaxDatagram :
        /\ next' = next + k
        /\ \/ net' = Append(net, [i \in 1..k |-> next + i - 1])
           \/ net' = net
  BY DEF FpgaSend
<1> DEFINE m == [i \in 1..k |-> next + i - 1]
<1>2. /\ m \in Seq(Nat) /\ Len(m) = k /\ k \in Nat
      /\ \A i \in 1..k : m[i] = next + i - 1
  <2>1. k \in Nat /\ m \in [1..k -> Nat]
    BY OrderTypes
  <2>2. m \in Seq(Nat)
    BY <2>1, SeqDef
  <2> QED
    BY <2>1, <2>2, LenProperties
<1> HIDE DEF m
<1>3. Below(pkt, next) /\ \A d \in 1..Len(net) : Below(net[d], next)
  <2>1. \A u \in (base + 1)..(next - 1) : u < next
    BY OrderTypes
  <2>2. ASSUME NEW s, Fresh(s, base, next) PROVE Below(s, next)
    BY <2>1, <2>2 DEF Fresh, Below
  <2> QED
    BY <2>2 DEF ContentInv, FrameInv
<1>4. /\ Ordered(given, Queue, pkt, net, next + k)
      /\ Ordered(given, Queue, pkt, Append(net, m), next + k)
  BY <1>2, <1>3, OrderTypes, OrderedSend DEF OrderInv
<1>5. UNCHANGED <<given, Queue, pkt>>
  BY ElsewhereQueue DEF Elsewhere, FpgaSend, workerVars
<1> QED
  BY <1>1, <1>4, <1>5 DEF OrderInv, m

LEMMA WorkerRecvOrder == IInv /\ OrderInv /\ WorkerRecv => OrderInv'
<1> SUFFICES ASSUME IInv, OrderInv, WorkerRecv PROVE OrderInv'
  OBVIOUS
<1>1. UNCHANGED <<given, Queue, next>>
  BY ElsewhereQueue DEF Elsewhere, WorkerRecv
<1>2. net # <<>> /\ pkt' = Head(net) /\ net' = Tail(net)
  BY DEF WorkerRecv
<1>3. Ordered(given, Queue, Head(net), Tail(net), next)
  BY <1>2, OrderTypes, OrderedReceive DEF OrderInv
<1> QED
  BY <1>1, <1>2, <1>3 DEF OrderInv

(* The worker passes over frames, or reads no more of a datagram.          *)
LEMMA WorkerDropsOrder ==
  ASSUME IInv, ContentInv, OrderInv, WorkerMode \/ WorkerCopy
  PROVE  OrderInv'
<1>1. UNCHANGED <<given, Queue, net, next>>
  BY ElsewhereQueue, WorkerCopyQueue DEF Elsewhere, WorkerMode, WorkerCopy,
                                         netVars
<1>2. pkt' \in {pkt, <<>>, Tail(pkt)} /\ (pkt' = Tail(pkt) => pkt # <<>>)
  BY EmptySeq DEF WorkerMode, WorkerCopy, NextFrame, IInv, DatagramInv
<1>3. pkt' \in Seq(Nat) /\ (Part(pkt', pkt, 0) \/ Part(pkt', pkt, 1))
  BY <1>2, OrderTypes, PartValue
<1>4. Ordered(given, Queue, pkt', net, next)
  BY <1>3, OrderTypes, OrderedDrop DEF OrderInv
<1> QED
  BY <1>1, <1>4 DEF OrderInv

LEMMA WorkerPushOrder ==
  ASSUME IInv, ContentInv, OrderInv, WorkerPush
  PROVE  OrderInv'
<1>1. UNCHANGED <<given, net, next>> /\ pkt' = Tail(pkt)
  BY DEF WorkerPush, NextFrame, netVars, scriptVars
<1>2. pkt # <<>> /\ Head(pkt) < next
  <2>1. pkt # <<>>
    BY DEF WorkerPush, IInv, DatagramInv
  <2>2. Head(pkt) \in (base + 1)..(next - 1)
    BY <2>1, HeadTail, OrderTypes DEF ContentInv, FrameInv, Fresh
  <2>3. \A u \in (base + 1)..(next - 1) : u < next
    BY OrderTypes
  <2> QED
    BY <2>1, <2>2, <2>3, Zenon
<1>3. CASE Queue' = Queue
  <2>1. Tail(pkt) \in Seq(Nat) /\ Part(Tail(pkt), pkt, 1)
    BY <1>2, OrderTypes, PartValue
  <2>2. Ordered(given, Queue, Tail(pkt), net, next)
    BY <2>1, OrderTypes, OrderedDrop DEF OrderInv
  <2> QED
    BY <1>1, <1>3, <2>2 DEF OrderInv
<1>4. CASE Queue' = Append(Queue, Head(pkt))
  <2>1. Ordered(given, Append(Queue, Head(pkt)), Tail(pkt), net, next)
    BY <1>2, OrderTypes, OrderedPush DEF OrderInv
  <2> QED
    BY <1>1, <1>4, <2>1 DEF OrderInv
<1> QED
  BY <1>3, <1>4, WorkerPushQueue

LEMMA WipeOrder ==
  ASSUME IInv, OrderInv, FirstWipe \/ SecondWipe
  PROVE  OrderInv'
<1>1. UNCHANGED <<given, pkt, net, next>> /\ Queue' = <<>>
  BY WipeQueue DEF FirstWipe, SecondWipe, netVars, workerVars
<1>2. Ordered(given, <<>>, pkt, net, next)
  BY OrderTypes, PartValue, OrderedDrop DEF OrderInv
<1> QED
  BY <1>1, <1>2 DEF OrderInv

LEMMA SyncSetOrder ==
  ASSUME IInv, ContentInv, OrderInv, SyncSet
  PROVE  OrderInv'
<1>1. PICK n \in 0..Len(Queue) : Queue' = SubSeq(Queue, n + 1, Len(Queue))
  BY SyncSetQueue
<1>2. UNCHANGED <<given, pkt, net, next>>
  BY DEF SyncSet, ScriptStep, netVars, workerVars
<1>3. n \in Nat /\ Queue' \in Seq(Nat) /\ Part(Queue', Queue, n)
  BY <1>1, OrderTypes, PartValue
<1>4. Ordered(given, Queue', pkt, net, next)
  BY <1>3, OrderTypes, OrderedDrop DEF OrderInv
<1> QED
  BY <1>2, <1>4 DEF OrderInv

LEMMA ReleaseBlockOrder ==
  ASSUME IInv, ContentInv, OrderInv, ReleaseBlock
  PROVE  OrderInv'
<1>1. PICK n \in 1..Len(Queue) : /\ Queue' = SubSeq(Queue, n + 1, Len(Queue))
                                 /\ given' = SubSeq(Queue, 1, n)
  BY ReleaseBlockQueue
<1>2. UNCHANGED <<pkt, net, next>>
  BY DEF ReleaseBlock, ScriptStep, netVars, workerVars
<1>3. n \in 0..Len(Queue)
  BY OrderTypes, LenProperties
<1>4. Ordered(given', Queue', pkt, net, next)
  BY <1>1, <1>3, OrderTypes, OrderedTake DEF OrderInv
<1> QED
  BY <1>2, <1>4 DEF OrderInv

LEMMA ElsewhereOrder ==
  ASSUME IInv, OrderInv, Elsewhere,
         ~(FpgaSend \/ WorkerRecv \/ WorkerMode)
  PROVE  OrderInv'
<1>1. UNCHANGED <<given, Queue>>
  BY ElsewhereQueue
<1>2. UNCHANGED <<pkt, next>> /\ net' \in {net, <<>>}
  BY DEF Elsewhere, WorkerExit, WorkerPick, TellWorker, JoinWorker, StartWorker,
         AskStart, AskStop, SyncTag, SyncMinimum, SyncRead, FirstFrame,
         NextBlock, ReadFrame, EndStep, ScriptDies, ScriptStep, netVars,
         workerVars
<1>3. CASE net' = net
  BY <1>1, <1>2, <1>3 DEF OrderInv
<1>4. CASE net' = <<>>
  <2>1. Len(<<>>) = 0
    BY EmptySeq
  <2>2. Ordered(given, Queue, pkt, <<>>, next)
    BY <2>1 DEF OrderInv, Ordered, BeforeAll, NetOrder
  <2> QED
    BY <1>1, <1>2, <1>4, <2>2 DEF OrderInv
<1> QED
  BY <1>2, <1>3, <1>4

LEMMA NextOrder == IInv /\ ContentInv /\ OrderInv /\ [Next]_vars => OrderInv'
<1> SUFFICES ASSUME IInv, ContentInv, OrderInv, [Next]_vars PROVE OrderInv'
  OBVIOUS
<1>1. CASE UNCHANGED vars
  <2>1. UNCHANGED <<given, Queue, pkt, net, next>>
    BY <1>1, SameQueue DEF vars, ptrVars, serverVars, netVars, workerVars,
                           scriptVars
  <2> QED
    BY <2>1 DEF OrderInv
<1>2. CASE Next
  <2>1. CASE Elsewhere
    BY <2>1, FpgaSendOrder, WorkerRecvOrder, WorkerDropsOrder, ElsewhereOrder
  <2> QED
    BY <1>2, <2>1, StepCases, WorkerDropsOrder, WorkerPushOrder, WipeOrder,
       SyncSetOrder, ReleaseBlockOrder
<1> QED
  BY <1>1, <1>2

(* The inductive invariant with what the slots hold and in which order.    *)
THEOREM ContentInvariance == Spec => [](IInv /\ ContentInv /\ OrderInv)
<1>1. Init => IInv /\ ContentInv /\ OrderInv
  BY InitIInv, InitContent, InitOrder
<1>2. IInv /\ ContentInv /\ OrderInv /\ [Next]_vars
        => (IInv /\ ContentInv /\ OrderInv)'
  BY NextIInv, NextContent, NextOrder
<1> QED
  BY <1>1, <1>2, PTL DEF Spec

(* The frames a script gets are those the FPGA sent, each once and in the  *)
(* order it sent them: a block continues the one before it, whatever       *)
(* starts, stops, losses and failed scripts there were in between.         *)
THEOREM FramesInOrder == Spec => InOrder
<1>1. ASSUME IInv, ContentInv, OrderInv, ReleaseBlock
      PROVE  \A i, j \in 1..Len(given \o given') :
               i < j => (given \o given')[i] < (given \o given')[j]
  <2>1. PICK n \in 1..Len(Queue) : given' = SubSeq(Queue, 1, n)
    BY <1>1, ReleaseBlockQueue
  <2> DEFINE g == given
             h == SubSeq(Queue, 1, n)
             a == Len(g)
             b == Len(h)
             c == g \o h
  <2>2. n \in 0..Len(Queue) /\ h \in Seq(Nat) /\ Part(h, Queue, 0)
    BY <1>1, OrderTypes, LenProperties, PartValue
  <2>3. /\ g \in Seq(Nat) /\ Increasing(g) /\ Increasing(h) /\ Before(g, h)
    BY <1>1, <2>2, OrderTypes, PartOrder DEF OrderInv, Ordered
  <2> HIDE DEF g, h
  <2>4. /\ a \in Nat /\ b \in Nat /\ Len(c) = a + b
        /\ \A i \in 1..a : c[i] = g[i] /\ g[i] \in Nat
        /\ \A i \in 1..(a + b) : i \in 1..a \/ i - a \in 1..b
        /\ \A i \in 1..(a + b) : i - a \in 1..b => c[i] = h[i - a]
        /\ \A i \in 1..b : h[i] \in Nat
    <3>1. /\ a \in Nat /\ b \in Nat /\ Len(c) = a + b
          /\ \A i \in 1..(a + b) : c[i] = IF i <= a THEN g[i] ELSE h[i - a]
      BY <2>2, <2>3, ConcatProperties, LenProperties
    <3>2. /\ \A i \in 1..a : g[i] \in Nat
          /\ \A i \in 1..b : h[i] \in Nat
      BY <2>2, <2>3, ElementOfSeq
    <3> HIDE DEF a, b, c
    <3>3. \A i \in 1..a : i \in 1..(a + b) /\ i <= a
      BY <3>1
    <3>4. /\ \A i \in 1..(a + b) : i \in 1..a \/ i - a \in 1..b
          /\ \A i \in 1..(a + b) : i - a \in 1..b => ~(i <= a)
      BY <3>1
    <3> QED
      BY <3>1, <3>2, <3>3, <3>4
  <2> HIDE DEF a, b, c
  <2>5. ASSUME NEW i \in 1..(a + b), NEW j \in 1..(a + b), i < j
        PROVE  c[i] < c[j]
    <3>1. CASE j \in 1..a
      <4>1. i \in 1..a
        BY <2>4, <2>5, <3>1
      <4>2. g[i] + (j - i) <= g[j]
        BY <2>3, <2>5, <3>1, <4>1 DEF Increasing, a
      <4> QED
        BY <2>4, <2>5, <3>1, <4>1, <4>2
    <3>2. CASE i \in 1..a /\ j - a \in 1..b
      BY <2>3, <2>4, <3>2 DEF Before, a, b
    <3>3. CASE i - a \in 1..b /\ j - a \in 1..b
      <4>1. i - a < j - a
        BY <2>4, <2>5
      <4>2. h[i - a] + ((j - a) - (i - a)) <= h[j - a]
        BY <2>3, <3>3, <4>1 DEF Increasing, b
      <4>3. h[i - a] \in Nat /\ h[j - a] \in Nat
        BY <2>4, <3>3
      <4>4. h[i - a] < h[j - a]
        <5> DEFINE u == h[i - a]
                   v == h[j - a]
                   x == i - a
                   y == j - a
        <5>1. /\ u \in Nat /\ v \in Nat /\ x \in Int /\ y \in Int
              /\ x < y /\ u + (y - x) <= v
          BY <3>3, <4>1, <4>2, <4>3
        <5> HIDE DEF u, v, x, y
        <5>2. u < v
          BY <5>1
        <5> QED
          BY <5>2 DEF u, v
      <4> QED
        BY <2>4, <3>3, <4>4
    <3> QED
      BY <2>4, <3>1, <3>2, <3>3
  <2>6. given \o given' = c
    BY <2>1 DEF c, g, h
  <2> QED
    BY <2>4, <2>5, <2>6
<1>2. IInv /\ ContentInv /\ OrderInv /\ [Next]_vars
        => [ReleaseBlock =>
              \A i, j \in 1..Len(given \o given') :
                i < j => (given \o given')[i] < (given \o given')[j]]_vars
  BY <1>1
<1> QED
  BY <1>2, ContentInvariance, PTL DEF Spec, InOrder

-----------------------------------------------------------------------------
(* The minimum frame ID is that of a frame the script synchronized with    *)
(* since the IDs restarted, or none, while there is a worker to use it.    *)
Synchronized == spc \in {"sync_read", "sync_set", "first", "loop", "read"}

MinInv ==
  /\ target <= next
  /\ wpc # "off" => minId = 0 \/ minId + base <= target
  /\ dpc = "start_worker" => minId = 0
  /\ Synchronized => minId + base = target

LEMMA NextMin == IInv /\ ContentInv /\ MinInv /\ [Next]_vars => MinInv'
<1> SUFFICES ASSUME IInv, ContentInv, MinInv, [Next]_vars PROVE MinInv'
  OBVIOUS
<1>1. /\ minId \in Nat /\ base \in Nat /\ next \in Nat /\ target \in Nat
      /\ base < next
      /\ dpc # "idle" => spc \in {"starting", "stopping"}
      /\ spc = "sync_min" => base < target
      /\ spc = "stopped" => wpc = "off"
      /\ dpc = "start_worker" => wpc = "off"
  BY DEF IInv, TypeOK, IdInv, DaqInv, ContentInv, ModeInv
<1> USE DEF MinInv, Synchronized, ScriptStep, Goto, serverVars, netVars,
            workerVars, scriptVars
<1>2. CASE FpgaSend
  <2>1. next <= next' /\ next' \in Nat
    BY <1>1, <1>2 DEF FpgaSend
  <2> QED
    BY <1>1, <1>2, <2>1 DEF FpgaSend
<1>3. CASE Worker
  BY <1>3 DEF Worker, WorkerExit, WorkerRecv, WorkerMode, WorkerPick,
              WorkerCopy, WorkerPush, NextFrame
<1>4. CASE Server
  BY <1>1, <1>4 DEF Server, FirstWipe, TellWorker, JoinWorker, SecondWipe,
                    StartWorker
<1>5. CASE AskStart
  BY <1>1, <1>5 DEF AskStart
<1>6. CASE SyncTag
  BY <1>1, <1>6 DEF SyncTag
<1>7. CASE SyncMinimum
  BY <1>1, <1>7 DEF SyncMinimum
<1>8. CASE \/ AskStop \/ SyncRead \/ SyncSet \/ FirstFrame \/ NextBlock
           \/ ReadFrame \/ ReleaseBlock \/ EndStep \/ ScriptDies
  BY <1>8 DEF AskStop, SyncRead, SyncSet, FirstFrame, NextBlock, ReadFrame,
              ReleaseBlock, EndStep, ScriptDies
<1>9. CASE UNCHANGED vars
  BY <1>9 DEF vars
<1> QED
  BY <1>2, <1>3, <1>4, <1>5, <1>6, <1>7, <1>8, <1>9 DEF Next, Script

(* The worker passes over no frame that the script could still want: one   *)
(* it drops for its ID was produced before the last synchronization, even  *)
(* when the IDs restarted in between.                                      *)
THEOREM OlderPassedOver == Spec => OnlyOlderPassedOver
<1>1. Init => IInv /\ ContentInv /\ MinInv
  BY InitIInv, InitContent DEF Init, MinInv, Synchronized
<1>2. IInv /\ ContentInv /\ MinInv /\ [Next]_vars
        => (IInv /\ ContentInv /\ MinInv)'
  BY NextIInv, NextContent, NextMin
<1>3. IInv /\ ContentInv /\ MinInv /\ [Next]_vars
        => [WorkerCopy /\ Head(pkt) \notin Bad /\ wpc' # "push"
              => Head(pkt) < target]_vars
  <2> SUFFICES ASSUME IInv, ContentInv, MinInv, WorkerCopy,
                      Head(pkt) \notin Bad, wpc' # "push"
               PROVE  Head(pkt) < target
    OBVIOUS
  <2>1. Head(pkt) - base < minId /\ wpc = "copy"
    BY DEF WorkerCopy
  <2>2. pkt # <<>> /\ minId \in Nat /\ target \in Nat
    BY <2>1 DEF IInv, TypeOK, DatagramInv
  <2>3. Head(pkt) \in (base + 1)..(next - 1)
    BY <2>2, HeadTail, OrderTypes DEF ContentInv, FrameInv, Fresh
  <2>4. minId = 0 \/ minId + base <= target
    BY <2>1 DEF MinInv
  <2> DEFINE h == Head(pkt)
  <2>5. h \in Int /\ base < h /\ h - base < minId /\ base \in Nat
    <3>1. /\ base \in Nat /\ next \in Nat
          /\ \A u \in (base + 1)..(next - 1) : u \in Int /\ base < u
      BY OrderTypes
    <3> QED
      BY <2>1, <2>3, <3>1, Zenon
  <2> HIDE DEF h
  <2>6. h < target
    BY <2>2, <2>4, <2>5
  <2> QED
    BY <2>6 DEF h
<1> QED
  BY <1>1, <1>2, <1>3, PTL DEF Spec, OnlyOlderPassedOver

-----------------------------------------------------------------------------
(* From the read pointer that a synchronization sets, the ring holds the   *)
(* frames from target on and at most one older frame f: the one that the   *)
(* worker was about to push when the minimum changed.                      *)
Consuming == spc \in {"sync_set", "first", "loop", "read"}

Begin == IF spc = "sync_set" THEN wrp ELSE rp

NoOlderBut(s, t, f) == \A k \in 1..Len(s) : s[k] < t => s[k] = f

OnlyStale(f) ==
  /\ NoOlderBut(Ring(shm, Begin, wp), target, f)
  /\ wpc = "push" /\ slot # DevNull /\ Head(pkt) < target => Head(pkt) = f
  /\ spc \in {"loop", "read"} => stale \subseteq {f}

StaleInv ==
  /\ \E f \in Nat : stale \subseteq {f}
  /\ Consuming => \E f \in Nat : OnlyStale(f)

LEMMA BeginValue ==
  ASSUME IInv, Consuming
  PROVE  Begin \in Pointers /\ Gap(Begin, wp) \in Nat /\ Gap(Begin, wp) <= Gap(rp, wp)
<1>1. CASE spc = "sync_set"
  <2>1. Gap(rp, wrp) <= Gap(rp, wp)
    BY <1>1 DEF IInv, BlockInv
  <2>2. Gap(wrp, wp) = Gap(rp, wp) - Gap(rp, wrp)
    BY <2>1, PointerTypes, GapSplit
  <2>3. Gap(wrp, wp) \in Nat
    BY PointerTypes, GapValue
  <2> QED
    BY <1>1, <2>2, <2>3, PointerTypes DEF Begin
<1>2. CASE spc # "sync_set"
  BY <1>2, PointerTypes DEF Begin
<1> QED
  BY <1>1, <1>2

LEMMA ConsumingMode ==
  ASSUME IInv, ContentInv, Consuming
  PROVE  mode /\ dpc = "idle"
  BY DEF IInv, TypeOK, DaqInv, ContentInv, ModeInv, Acquiring, Consuming

LEMMA WorkerCopyStale ==
  ASSUME IInv, ContentInv, MinInv, StaleInv, WorkerCopy
  PROVE  StaleInv'
<1>1. UNCHANGED <<spc, wrp, rp, wp, slot, target, stale>>
  BY DEF WorkerCopy, ptrVars, scriptVars
<1>2. ASSUME Consuming, NEW f \in Nat, OnlyStale(f)
      PROVE  OnlyStale(f)'
  <2>1. Begin' = Begin /\ mode
    BY <1>1, <1>2, ConsumingMode DEF Begin
  <2>2. Head(pkt) \in Nat /\ base \in Nat /\ minId \in Nat /\ target = minId + base
    BY <1>2, HeadTail DEF IInv, TypeOK, DatagramInv, WorkerCopy, MinInv,
                          Synchronized, Consuming
  <2>3. Ring(shm', Begin, wp) = Ring(shm, Begin, wp)
    <3>1. CASE slot = DevNull
      BY <3>1 DEF WorkerCopy
    <3>2. CASE slot # DevNull
      <4>1. slot = wp % Q /\ Gap(rp, wp) < Q
        BY <2>1, <3>2, WorkerSlot DEF WorkerCopy, HoldsSlot
      <4>2. Gap(Begin, wp) < Q /\ Gap(Begin, wp) <= Gap(Begin, wp) /\ Begin \in Pointers
        BY <1>2, <4>1, BeginValue, PointerTypes
      <4>3. shm' = [shm EXCEPT ![wp % Q] = Head(pkt)]
        BY <3>2, <4>1 DEF WorkerCopy
      <4>4. /\ shm' \in [Slots -> Nat]
            /\ \A k \in Slots : k # wp % Q => shm'[k] = shm[k]
        BY <2>2, <4>3, PointerTypes
      <4> QED
        BY <4>2, <4>4, PointerTypes, RingWritten
    <3> QED
      BY <3>1, <3>2
  <2>4. wpc' = "push" => pkt' = pkt /\ ~(Head(pkt) < target)
    <3>1. wpc' = "push" => pkt' = pkt /\ Head(pkt) - base >= minId
      BY DEF WorkerCopy, NextFrame
    <3> DEFINE h == Head(pkt)
    <3>2. /\ h \in Nat /\ base \in Nat /\ minId \in Nat /\ target = minId + base
          /\ wpc' = "push" => h - base >= minId
      BY <2>2, <3>1
    <3> HIDE DEF h
    <3>3. wpc' = "push" => ~(h < target)
      BY <3>2
    <3> QED
      BY <3>1, <3>3 DEF h
  <2> QED
    BY <1>1, <1>2, <2>1, <2>3, <2>4 DEF OnlyStale
<1> QED
  BY <1>1, <1>2 DEF StaleInv, Consuming

LEMMA WorkerPushStale ==
  ASSUME IInv, ContentInv, StaleInv, WorkerPush
  PROVE  StaleInv'
<1>1. /\ UNCHANGED <<spc, shm, wrp, rp, slot, target, stale>>
      /\ wp' = (IF slot = DevNull THEN wp ELSE Advance(wp, 1)) /\ wpc' # "push"
  BY DEF WorkerPush, NextFrame, ptrVars, scriptVars
<1>2. ASSUME Consuming, NEW f \in Nat, OnlyStale(f)
      PROVE  OnlyStale(f)'
  <2>1. Begin' = Begin /\ mode
    BY <1>1, <1>2, ConsumingMode DEF Begin
  <2>2. NoOlderBut(Ring(shm, Begin, wp'), target, f)
    <3>1. CASE slot = DevNull
      BY <1>1, <1>2, <3>1 DEF OnlyStale
    <3>2. CASE slot # DevNull
      <4>1. slot = wp % Q /\ Gap(rp, wp) < Q /\ shm[slot] = Head(pkt)
        BY <2>1, <3>2, WorkerSlot DEF WorkerPush, HoldsSlot, ContentInv, CopyInv
      <4>2. Gap(Begin, wp) < Q /\ Begin \in Pointers
        BY <1>2, <4>1, BeginValue, PointerTypes
      <4> DEFINE x == shm[wp % Q]
                 s == Ring(shm, Begin, wp)
      <4>3. /\ Ring(shm, Begin, wp') = Append(s, x) /\ x \in Nat /\ s \in Seq(Nat)
        BY <1>1, <3>2, <4>2, PointerTypes, RingAppended, RingValue
      <4>4. NoOlderBut(s, target, f) /\ (x < target => x = f)
        BY <1>2, <3>2, <4>1 DEF OnlyStale, WorkerPush
      <4> HIDE DEF x, s
      <4>5. /\ Len(Append(s, x)) = Len(s) + 1 /\ Append(s, x)[Len(s) + 1] = x
            /\ \A k \in 1..Len(s) : Append(s, x)[k] = s[k]
            /\ \A k \in 1..(Len(s) + 1) : k \in 1..Len(s) \/ k = Len(s) + 1
        BY <4>3, AppendProperties, LenProperties
      <4>6. NoOlderBut(Append(s, x), target, f)
        BY <4>4, <4>5 DEF NoOlderBut
      <4> QED
        BY <4>3, <4>6
    <3> QED
      BY <3>1, <3>2
  <2> QED
    BY <1>1, <1>2, <2>1, <2>2 DEF OnlyStale
<1> QED
  BY <1>1, <1>2 DEF StaleInv, Consuming

LEMMA SyncReadStale ==
  ASSUME IInv, ContentInv, StaleInv, SyncRead
  PROVE  StaleInv'
<1> DEFINE f == IF wpc = "push" THEN Head(pkt) ELSE 0
<1>1. /\ UNCHANGED <<shm, wp, wpc, pkt, slot, target, stale>> /\ wrp' = wp
      /\ spc' = "sync_set"
  BY DEF SyncRead, ScriptStep, ptrVars, workerVars
<1>2. f \in Nat
  BY HeadTail DEF IInv, TypeOK, DatagramInv
<1>3. Ring(shm, wp, wp) = <<>> /\ Len(<<>>) = 0
  BY PointerTypes, RingEmpty, EmptySeq
<1>4. Begin' = wp
  BY <1>1 DEF Begin
<1>5. OnlyStale(f)'
  BY <1>1, <1>3, <1>4 DEF OnlyStale, NoOlderBut
<1> QED
  BY <1>1, <1>2, <1>5 DEF StaleInv

LEMMA ReadFrameStale ==
  ASSUME IInv, ContentInv, StaleInv, ReadFrame
  PROVE  StaleInv'
<1>1. /\ UNCHANGED <<shm, rp, wp, wpc, pkt, slot, target>>
      /\ spc = "read" /\ spc' = "read" /\ rdp # wrp
      /\ stale' = stale \cup {x \in {shm[rdp % Q]} : x < target}
  BY DEF ReadFrame, ScriptStep, ptrVars, workerVars
<1>2. PICK f \in Nat : OnlyStale(f)
  BY <1>1 DEF StaleInv, Consuming
<1>3. shm[rdp % Q] < target => shm[rdp % Q] = f
  <2> DEFINE s == Ring(shm, rp, wp)
             k == Gap(rp, rdp) + 1
  <2>1. k \in 1..Gap(rp, wp) /\ k - 1 = Gap(rp, rdp)
    <3>1. Gap(rp, rdp) < Gap(rp, wrp) /\ Gap(rp, wrp) <= Gap(rp, wp)
      BY <1>1, PointerTypes, GapSplit DEF IInv, BlockInv
    <3> QED
      BY <3>1, PointerTypes
  <2>2. /\ Len(s) = Gap(rp, wp)
        /\ \A i \in 1..Gap(rp, wp) : s[i] = shm[Advance(rp, i - 1) % Q]
    <3>1. shm \in [Slots -> Nat] /\ rp \in Pointers /\ wp \in Pointers
      BY PointerTypes
    <3> QED
      BY <3>1, RingValue, Zenon
  <2>4. NoOlderBut(s, target, f)
    BY <1>1, <1>2 DEF OnlyStale, Begin
  <2> HIDE DEF k, s
  <2>3. s[k] = shm[rdp % Q]
    BY <2>1, <2>2, PointerTypes, AdvanceGap
  <2> QED
    BY <2>1, <2>2, <2>3, <2>4 DEF NoOlderBut
<1>4. stale' \subseteq {f}
  BY <1>1, <1>2, <1>3 DEF OnlyStale
<1>5. OnlyStale(f)'
  BY <1>1, <1>2, <1>4 DEF OnlyStale, Begin
<1> QED
  BY <1>4, <1>5 DEF StaleInv

LEMMA ReleaseBlockStale ==
  ASSUME IInv, ContentInv, StaleInv, ReleaseBlock
  PROVE  StaleInv'
<1>1. /\ UNCHANGED <<shm, wp, wpc, pkt, slot, target, stale>> /\ rp' = rdp
      /\ spc = "read" /\ spc' = "loop" /\ rdp = wrp
  BY DEF ReleaseBlock, ScriptStep, workerVars
<1>2. PICK f \in Nat : OnlyStale(f)
  BY <1>1 DEF StaleInv, Consuming
<1> DEFINE s == Ring(shm, rp, wp)
           r == Ring(shm, rdp, wp)
           n == Gap(rp, rdp)
<1>3. s \in Seq(Nat) /\ Len(s) = Gap(rp, wp) /\ n \in 0..Len(s) /\ n \in Nat
  <2>1. Gap(rp, rdp) <= Gap(rp, wp) /\ Gap(rp, rdp) \in Nat
    BY <1>1, PointerTypes DEF IInv, BlockInv
  <2> QED
    BY <2>1, PointerTypes, RingValue
<1>4. r = SubSeq(s, n + 1, Len(s))
  BY <1>3, PointerTypes, RingSplit
<1>5. NoOlderBut(s, target, f)
  BY <1>1, <1>2 DEF OnlyStale, Begin
<1> HIDE DEF s, r, n
<1>6. Part(r, s, n) /\ r \in Seq(Nat)
  BY <1>3, <1>4, PartValue
<1>7. NoOlderBut(r, target, f)
  <2> SUFFICES ASSUME NEW k \in 1..Len(r), r[k] < target PROVE r[k] = f
    BY DEF NoOlderBut
  <2>1. k + n \in 1..Len(s)
    <3> DEFINE a == Len(r)
               b == Len(s)
    <3>1. a \in Nat /\ b \in Nat /\ n + a <= b /\ k \in 1..a
      BY <1>3, <1>6, LenProperties DEF Part
    <3> HIDE DEF a, b
    <3>2. k + n \in 1..b
      BY <1>3, <3>1
    <3> QED
      BY <3>2 DEF b
  <2>2. r[k] = s[k + n]
    BY <1>6 DEF Part
  <2> QED
    BY <1>5, <2>1, <2>2 DEF NoOlderBut
<1>8. Begin' = rdp
  BY <1>1 DEF Begin
<1>9. OnlyStale(f)'
  BY <1>1, <1>2, <1>7, <1>8 DEF OnlyStale, r
<1> QED
  BY <1>1, <1>9 DEF StaleInv

LEMMA NextStale ==
  IInv /\ ContentInv /\ MinInv /\ StaleInv /\ [Next]_vars => StaleInv'
<1> SUFFICES ASSUME IInv, ContentInv, MinInv, StaleInv, [Next]_vars
             PROVE  StaleInv'
  OBVIOUS
<1> USE DEF StaleInv, OnlyStale, Begin, Consuming
<1>1. CASE \/ FpgaSend \/ WorkerExit \/ WorkerRecv \/ WorkerMode \/ WorkerPick
           \/ UNCHANGED vars
  <2>1. /\ UNCHANGED <<shm, rp, wp, wrp, spc, stale, target>>
        /\ wpc' = "push" => wpc = "push" /\ UNCHANGED <<pkt, slot>>
    BY <1>1 DEF FpgaSend, WorkerExit, WorkerRecv, WorkerMode, WorkerPick, vars,
                ptrVars, workerVars, scriptVars
  <2> QED
    BY <2>1
<1>2. CASE Server
  <2>1. spc' \notin {"sync_set", "first", "loop", "read"} /\ stale' = stale
    BY <1>2 DEF Server, FirstWipe, TellWorker, JoinWorker, SecondWipe,
                StartWorker, Goto, scriptVars, IInv, DaqInv
  <2> QED
    BY <2>1
<1>3. CASE AskStart \/ AskStop \/ SyncTag \/ SyncMinimum \/ EndStep \/ ScriptDies
  <2>1. spc' \notin {"sync_set", "first", "loop", "read"} /\ stale' = stale
    BY <1>3 DEF AskStart, AskStop, SyncTag, SyncMinimum, EndStep, ScriptDies,
                ScriptStep
  <2> QED
    BY <2>1
<1>4. CASE SyncSet
  <2>1. /\ UNCHANGED <<shm, wp, stale, target, wpc, pkt, slot>> /\ rp' = wrp
        /\ spc = "sync_set" /\ spc' = "first"
    BY <1>4 DEF SyncSet, ScriptStep, workerVars
  <2> QED
    BY <2>1
<1>5. CASE FirstFrame
  <2>1. /\ UNCHANGED <<shm, wp, rp, target, wpc, pkt, slot>> /\ stale' = {}
        /\ spc = "first" /\ spc' = "loop"
    BY <1>5 DEF FirstFrame, ScriptStep, workerVars, ptrVars
  <2> QED
    BY <2>1
<1>6. CASE NextBlock
  <2>1. /\ UNCHANGED <<shm, wp, rp, target, wpc, pkt, slot, stale>>
        /\ spc = "loop" /\ spc' = "read"
    BY <1>6 DEF NextBlock, ScriptStep, workerVars, ptrVars
  <2> QED
    BY <2>1
<1> QED
  BY <1>1, <1>2, <1>3, <1>4, <1>5, <1>6, WorkerCopyStale, WorkerPushStale,
     SyncReadStale, ReadFrameStale, ReleaseBlockStale
     DEF Next, Worker, Script

(* A step of acquire() meets at most one frame older than its              *)
(* synchronization, however the worker and the requests interleave.        *)
THEOREM OneStale == Spec => []AtMostOneStale
<1> DEFINE J == IInv /\ ContentInv /\ MinInv /\ StaleInv
<1>1. Init => J
  <2>1. Init => StaleInv
    BY DEF Init, StaleInv, Consuming
  <2>2. Init => MinInv
    BY DEF Init, MinInv, Synchronized
  <2> QED
    BY <2>1, <2>2, InitIInv, InitContent
<1>2. J /\ [Next]_vars => J'
  BY NextIInv, NextContent, NextMin, NextStale
<1>3. J => AtMostOneStale
  <2> SUFFICES ASSUME NEW f \in Nat, stale \subseteq {f}
               PROVE  Cardinality(stale) <= 1
    BY DEF StaleInv, AtMostOneStale
  <2>1. stale = {} \/ stale = {f}
    OBVIOUS
  <2>2. Cardinality({}) = 0 /\ Cardinality({f}) = 1
    BY FS_EmptySet, FS_Singleton
  <2>3. Cardinality(stale) \in {0, 1}
    BY <2>1, <2>2, Zenon
  <2> QED
    BY <2>3
<1> QED
  BY <1>1, <1>2, <1>3, PTL DEF Spec

-----------------------------------------------------------------------------
(* How far a step of acquire() is: either it has released no block and cur *)
(* is the first frame of the ring, or cur is the last frame released and   *)
(* what was released is at most one more than the IDs passed.              *)
StepInv ==
  /\ inStep <= NRequired + 1
  /\ spc \in {"loop", "read"} =>
       \/ inStep = 0 /\ rp # wp /\ cur = shm[rp % Q] /\ stopAt = cur + NRequired
       \/ /\ given # <<>> /\ cur = given[Len(given)]
          /\ inStep + stopAt <= cur + NRequired + 1
  /\ spc = "read" => Gap(rp, wrp) + cur <= stopAt

(* A block has no more frames than the step still needs.                   *)
LEMMA BlockLengthNeeded ==
  ASSUME IInv, wp # rp, cur < stopAt
  PROVE  /\ Gap(rp, Advance(rp, BlockLength(wp, rp))) = BlockLength(wp, rp)
         /\ BlockLength(wp, rp) + cur <= stopAt
<1>1. /\ stopAt \in Nat /\ cur \in Nat
  BY DEF IInv, TypeOK
<1>2. BlockLength(wp, rp) \in 1..Gap(rp, wp)
  BY <1>1, PointerTypes, BlockLengthBound
<1>3. BlockLength(wp, rp) \in 0..(2 * Q - 1)
  <2>1. Gap(rp, wp) \in 0..(2 * Q - 1)
    BY PointerTypes, GapValue
  <2> QED
    BY <1>2, <2>1
<1>4. Gap(rp, Advance(rp, BlockLength(wp, rp))) = BlockLength(wp, rp)
  BY <1>3, PointerTypes, GapAdvance
<1>5. BlockLength(wp, rp) <= stopAt - cur
  <2> DEFINE n == Distance(wp, rp)
             r == IF n > Q THEN 2 * Q - n ELSE n
  <2>1. BlockLength(wp, rp) = Smaller(Smaller(r, stopAt - cur), Q \div 2)
    BY DEF BlockLength
  <2>2. r \in Int /\ stopAt - cur \in Int /\ Q \div 2 \in Int
    BY <1>1, PointerTypes DEF Distance, Pointers
  <2> HIDE DEF r
  <2> QED
    BY <2>1, <2>2 DEF Smaller
<1> QED
  BY <1>1, <1>3, <1>4, <1>5

LEMMA WorkerCopyStep ==
  ASSUME IInv, ContentInv, StepInv, WorkerCopy
  PROVE  StepInv'
<1>1. UNCHANGED <<spc, wrp, rp, wp, cur, stopAt, inStep, given>>
  BY DEF WorkerCopy, ptrVars, scriptVars
<1>2. ASSUME spc \in {"loop", "read"}, rp # wp
      PROVE  shm'[rp % Q] = shm[rp % Q]
  <2>1. CASE slot = DevNull
    BY <2>1 DEF WorkerCopy
  <2>2. CASE slot # DevNull
    <3>1. mode
      BY <1>2 DEF ContentInv, ModeInv, Acquiring
    <3>2. slot = wp % Q /\ Gap(rp, wp) < Q
      BY <2>2, <3>1, WorkerSlot DEF WorkerCopy, HoldsSlot
    <3>3. Gap(rp, rp) < Gap(rp, wp)
      <4>1. Gap(rp, rp) = 0 /\ Gap(rp, wp) # 0
        BY <1>2, PointerTypes, GapZero
      <4> QED
        BY <4>1, PointerTypes
    <3>4. rp % Q # wp % Q
      BY <3>2, <3>3, PointerTypes, SlotsDiffer
    <3>5. shm' = [shm EXCEPT ![wp % Q] = Head(pkt)]
      BY <2>2, <3>2 DEF WorkerCopy
    <3>6. rp % Q \in Slots
      BY PointerTypes, SlotValue
    <3> QED
      BY <3>4, <3>5, <3>6, PointerTypes
  <2> QED
    BY <2>1, <2>2
<1> QED
  BY <1>1, <1>2 DEF StepInv

LEMMA WorkerPushStep ==
  ASSUME IInv, ContentInv, StepInv, WorkerPush
  PROVE  StepInv'
<1>1. /\ UNCHANGED <<shm, spc, wrp, rp, cur, stopAt, inStep, given>>
      /\ wp' = (IF slot = DevNull THEN wp ELSE Advance(wp, 1))
  BY DEF WorkerPush, scriptVars
<1>2. ASSUME spc \in {"loop", "read"}, rp # wp
      PROVE  rp # wp'
  <2>1. CASE slot = DevNull
    BY <1>1, <1>2, <2>1
  <2>2. CASE slot # DevNull
    <3>1. Gap(rp, wp) \in Nat /\ Gap(rp, wp) < Q
      BY <2>2 , PointerTypes DEF IInv, RoomInv, HoldsSlot, WorkerPush
    <3>2. Gap(rp, wp) + 1 < 2 * Q
      BY <3>1
    <3>3. Gap(rp, Advance(wp, 1)) = Gap(rp, wp) + 1
      BY <3>2, PointerTypes, GapMove
    <3>4. Gap(rp, rp) = 0
      BY PointerTypes, GapValue DEF Pointers
    <3>5. Gap(rp, wp) + 1 # 0
      BY <3>1
    <3> QED
      BY <1>1, <2>2, <3>3, <3>4, <3>5
  <2> QED
    BY <2>1, <2>2
<1> QED
  BY <1>1, <1>2 DEF StepInv

(* The last frame of a block, whose ID is fetched when it is released.     *)
LEMMA LastOfBlock ==
  ASSUME IInv, ContentInv, ReleaseBlock
  PROVE  /\ block \in Seq(Nat) /\ Len(block) = Gap(rp, rdp)
         /\ Gap(rp, rdp) \in Nat \ {0} /\ Gap(rp, rdp) = Gap(rp, wrp)
         /\ block[1] = shm[rp % Q]
         /\ block[Len(block)] = shm[(rdp + Q - 1) % Q]
<1> DEFINE n == Gap(rp, rdp)
<1>1. block = Ring(shm, rp, rdp) /\ rdp = wrp
  BY DEF ReleaseBlock, ScriptStep, ContentInv, ReadInv
<1>2. n \in Nat \ {0} /\ n = Gap(rp, wrp) /\ n \in 0..(2 * Q - 1)
  <2>1. Gap(rp, wrp) \in 1..Gap(rp, wp)
    BY DEF ReleaseBlock, ScriptStep, IInv, BlockInv
  <2> QED
    BY <1>1, <2>1, PointerTypes, GapValue
<1>3. /\ block \in Seq(Nat) /\ Len(block) = n
      /\ \A k \in 1..n : block[k] = shm[Advance(rp, k - 1) % Q]
  <2>1. shm \in [Slots -> Nat] /\ rp \in Pointers /\ rdp \in Pointers
    BY PointerTypes
  <2>2. /\ Ring(shm, rp, rdp) \in Seq(Nat)
        /\ Len(Ring(shm, rp, rdp)) = Gap(rp, rdp)
        /\ \A k \in 1..Gap(rp, rdp) :
             Ring(shm, rp, rdp)[k] = shm[Advance(rp, k - 1) % Q]
    BY <2>1, RingValue, Zenon
  <2> HIDE DEF n
  <2> QED
    BY <1>1, <2>2 DEF n
<1>4. rp # rdp
  <2>1. Gap(rp, rp) = 0
    BY PointerTypes, GapValue DEF Pointers
  <2> QED
    BY <1>2, <2>1
<1>5. PICK p \in Pointers : Gap(rp, p) = n - 1 /\ p % Q = (rdp + Q - 1) % Q
  BY <1>4, PointerTypes, PreviousSlot
<1> HIDE DEF n
<1>6. block[n] = shm[p % Q]
  <2>1. Advance(rp, n - 1) = p
    BY <1>5, PointerTypes, AdvanceGap
  <2>2. n \in 1..n
    BY <1>2
  <2> QED
    BY <1>3, <2>1, <2>2
<1>7. block[1] = shm[rp % Q]
  <2>1. 1 \in 1..n /\ 1 - 1 = 0
    BY <1>2
  <2>2. Advance(rp, 0) = rp
    BY PointerTypes, AdvanceValue DEF Pointers
  <2> QED
    BY <1>3, <2>1, <2>2
<1> QED
  BY <1>2, <1>3, <1>5, <1>6, <1>7 DEF n

LEMMA ReleaseBlockStep ==
  ASSUME IInv, ContentInv, OrderInv, StepInv, ReleaseBlock
  PROVE  StepInv'
<1> DEFINE n == Len(block)
           x == block[1]
           y == block[Len(block)]
<1>1. /\ block \in Seq(Nat) /\ n \in Nat \ {0} /\ n = Gap(rp, wrp)
      /\ x = shm[rp % Q] /\ x \in Nat /\ y \in Nat
  BY LastOfBlock, ElementOfSeq
<1>2. /\ cur' = y /\ given' = block /\ inStep' = inStep + n /\ stopAt' = stopAt
      /\ spc = "read" /\ spc' = "loop"
  BY LastOfBlock DEF ReleaseBlock, ScriptStep
<1>3. x + (n - 1) <= y
  <2>1. PICK k \in 1..Len(Queue) : given' = SubSeq(Queue, 1, k)
    BY ReleaseBlockQueue
  <2>2. k \in 0..Len(Queue)
    BY OrderTypes, LenProperties
  <2>3. Part(block, Queue, 0)
    BY <1>2, <2>1, <2>2, OrderTypes, PartValue
  <2>4. Increasing(block)
    BY <1>1, <2>3, OrderTypes, PartOrder DEF OrderInv, Ordered
  <2>5. CASE n = 1
    BY <1>1, <2>5
  <2>6. CASE n # 1
    <3>1. 1 \in 1..Len(block) /\ n \in 1..Len(block) /\ 1 < n
      BY <1>1, <2>6
    <3> QED
      BY <2>4, <3>1 DEF Increasing
  <2> QED
    BY <2>5, <2>6
<1>4. CASE inStep = 0 /\ cur = shm[rp % Q] /\ stopAt = cur + NRequired
  <2>1. cur = x /\ n + cur <= stopAt /\ stopAt = cur + NRequired /\ inStep = 0
    BY <1>1, <1>2, <1>4 DEF StepInv
  <2>2. /\ n + stopAt <= y + NRequired + 1 /\ n <= NRequired + 1
        /\ inStep' = n
    <3>1. /\ n \in Nat /\ x \in Nat /\ y \in Nat /\ NRequired \in Nat
          /\ x + (n - 1) <= y /\ n + x <= x + NRequired
          /\ stopAt = x + NRequired
      BY <1>1, <1>3, <2>1
    <3>2. inStep' = 0 + n
      BY <1>2, <2>1
    <3> HIDE DEF n, x, y
    <3> QED
      BY <3>1, <3>2
  <2>3. given' # <<>>
    BY <1>1, <1>2, EmptySeq
  <2> QED
    BY <1>2, <2>2, <2>3 DEF StepInv
<1>5. CASE /\ given # <<>> /\ cur = given[Len(given)]
           /\ inStep + stopAt <= cur + NRequired + 1
  <2>1. cur < x
    <3>1. given \in Seq(Nat) /\ Len(given) \in 1..Len(given)
      BY <1>5, OrderTypes, EmptySeq
    <3>2. PICK k \in 1..Len(Queue) : given' = SubSeq(Queue, 1, k)
      BY ReleaseBlockQueue
    <3>3. k \in 0..Len(Queue)
      BY OrderTypes, LenProperties
    <3>4. Part(block, Queue, 0)
      BY <1>2, <3>2, <3>3, OrderTypes, PartValue
    <3>5. Before(given, block)
      BY <1>1, <3>1, <3>4, OrderTypes, PartOrder DEF OrderInv, Ordered
    <3>6. 1 \in 1..Len(block)
      BY <1>1
    <3> QED
      BY <1>5, <3>1, <3>5, <3>6 DEF Before
  <2>2. /\ n + cur <= stopAt /\ inStep \in Nat /\ stopAt \in Nat /\ cur \in Nat
    BY <1>1, <1>2 DEF StepInv, IInv, TypeOK
  <2>3. /\ inStep' + stopAt <= y + NRequired + 1 /\ inStep' <= NRequired + 1
    <3>1. /\ n \in Nat /\ x \in Nat /\ y \in Nat /\ NRequired \in Nat
          /\ x + (n - 1) <= y /\ cur < x /\ n + cur <= stopAt
          /\ inStep \in Nat /\ stopAt \in Nat /\ cur \in Nat
          /\ inStep + stopAt <= cur + NRequired + 1
      BY <1>1, <1>3, <1>5, <2>1, <2>2
    <3>2. inStep' = inStep + n
      BY <1>2
    <3> HIDE DEF n, x, y
    <3>3. /\ (inStep + n) + stopAt <= y + NRequired + 1
          /\ inStep + n <= NRequired + 1
      BY <3>1
    <3> QED
      BY <3>2, <3>3
  <2>4. given' # <<>>
    BY <1>1, <1>2, EmptySeq
  <2> QED
    BY <1>2, <2>3, <2>4 DEF StepInv
<1> QED
  BY <1>2, <1>4, <1>5 DEF StepInv

LEMMA NextStep ==
  IInv /\ ContentInv /\ OrderInv /\ StepInv /\ [Next]_vars => StepInv'
<1> SUFFICES ASSUME IInv, ContentInv, OrderInv, StepInv, [Next]_vars
             PROVE  StepInv'
  OBVIOUS
<1> USE DEF StepInv
<1>1. CASE \/ FpgaSend \/ WorkerExit \/ WorkerRecv \/ WorkerMode \/ WorkerPick
           \/ UNCHANGED vars
  BY <1>1 DEF FpgaSend, WorkerExit, WorkerRecv, WorkerMode, WorkerPick, vars,
              ptrVars, scriptVars
<1>2. CASE Server
  <2>1. spc' \notin {"loop", "read"} /\ inStep' = inStep
    BY <1>2 DEF Server, FirstWipe, TellWorker, JoinWorker, SecondWipe,
                StartWorker, Goto, scriptVars, IInv, DaqInv
  <2> QED
    BY <2>1
<1>3. CASE \/ AskStart \/ AskStop \/ SyncTag \/ SyncMinimum \/ SyncRead
           \/ SyncSet \/ EndStep \/ ScriptDies
  <2>1. spc' \notin {"loop", "read"} /\ inStep' = inStep
    BY <1>3 DEF AskStart, AskStop, SyncTag, SyncMinimum, SyncRead, SyncSet,
                EndStep, ScriptDies, ScriptStep
  <2> QED
    BY <2>1
<1>4. CASE FirstFrame
  BY <1>4 DEF FirstFrame, ScriptStep, ptrVars
<1>5. CASE NextBlock
  <2>1. /\ UNCHANGED <<shm, rp, wp, cur, stopAt, inStep, given>> /\ spc = "loop"
        /\ spc' = "read" /\ wrp' = Advance(rp, BlockLength(wp, rp))
        /\ wp # rp /\ cur < stopAt
    BY <1>5 DEF NextBlock, ScriptStep, ptrVars
  <2>2. Gap(rp, wrp') + cur <= stopAt
    BY <2>1, BlockLengthNeeded
  <2> QED
    BY <2>1, <2>2
<1>6. CASE ReadFrame
  BY <1>6 DEF ReadFrame, ScriptStep, ptrVars
<1> QED
  BY <1>1, <1>2, <1>3, <1>4, <1>5, <1>6, WorkerCopyStep, WorkerPushStep,
     ReleaseBlockStep DEF Next, Worker, Script

(* A step of acquire() takes at most one frame more than it needs, for any *)
(* number of required frames, any ring and any gaps in what arrives.       *)
THEOREM OneFrameMore == Spec => []AtMostOneFrameMore
<1> DEFINE J == IInv /\ ContentInv /\ OrderInv /\ StepInv
<1>1. Init => J
  <2>1. Init => StepInv
    BY DEF Init, StepInv
  <2> QED
    BY <2>1, InitIInv, InitContent, InitOrder
<1>2. J /\ [Next]_vars => J'
  BY NextIInv, NextContent, NextOrder, NextStep
<1>3. J => AtMostOneFrameMore
  BY DEF StepInv, AtMostOneFrameMore
<1> QED
  BY <1>1, <1>2, <1>3, PTL DEF Spec
=============================================================================
