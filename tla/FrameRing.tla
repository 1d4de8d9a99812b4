----------------------------- MODULE FrameRing -----------------------------
(***************************************************************************)
(* The raw data frame buffer shared by the worker thread of UDPFrameServer *)
(* (producer), the DAQ thread, which executes the requests of the scripts  *)
(* (FrameServer::startAcquisition, stopAcquisition and the pointer         *)
(* operations), and Connection.acquire() of a script with its write_raw    *)
(* process (consumer).                                                     *)
(*                                                                         *)
(* The slots are shared memory and no lock covers them; the pointers and   *)
(* the mode are fields of FrameServer under FrameServer::lock; die and     *)
(* minimumFrameID are fields read and written without it.  A step of the   *)
(* model is a critical section, or a stretch of code that touches one      *)
(* shared field outside one.                                               *)
(*                                                                         *)
(* A frame is its number in the order the FPGA produces them; its frame ID *)
(* is this number less base, the number at the last synchronization of the *)
(* system, where the IDs restart.  Datagrams hold several frames and may   *)
(* be lost on the way.  The frames in Bad arrive with an inconsistent size.*)
(* Of the FPGA it is assumed that no frame states a size of 0 words: of one*)
(* the worker would copy nothing, judge what the slot held before, and stay*)
(* at the same word for ever (UDPFrameServer.cpp:147-159).                 *)
(***************************************************************************)
EXTENDS Integers, Sequences, FiniteSets

CONSTANTS
  Q,          (* MaxRawDataFrameQueueSize: slots in the ring               *)
  MaxFrame,   (* last frame the FPGA produces, a bound                     *)
  MaxDatagram,(* most frames in a datagram                                 *)
  NetSize,    (* datagrams the UDP socket holds                            *)
  Lossy,      (* whether datagrams may be lost                             *)
  MaxStarts,  (* acquisitions started, a bound                             *)
  NRequired,  (* nRequiredFrames of acquire()                              *)
  Bad         (* frames that parseDataFrame refuses                        *)

ASSUME FrameRingAssumption ==
  /\ Q \in Nat \ {0, 1}
  /\ MaxFrame \in Nat
  /\ MaxDatagram \in Nat \ {0}
  /\ NetSize \in Nat \ {0}
  /\ Lossy \in BOOLEAN
  /\ MaxStarts \in Nat
  /\ NRequired \in Nat
  /\ Bad \subseteq Nat

VARIABLES
  shm,        (* the slots of the shared memory: frames, 0 at first        *)
  wp, rp,     (* dataFrameWritePointer and dataFrameReadPointer            *)
  mode,       (* acquisitionMode # 0                                       *)
  die,        (* the worker is told to end                                 *)
  hasWorker,
  minId,      (* minimumFrameID                                            *)
  next,       (* the next frame of the FPGA                                *)
  base,       (* the last frame before the IDs restarted                   *)
  net,        (* datagrams waiting in the UDP socket                       *)
  wpc,        (* where the worker is                                       *)
  pkt,        (* frames of the datagram the worker has not handled yet     *)
  slot,       (* where the worker copies the frame: a slot, or DevNull     *)
  dpc,        (* where the DAQ thread is in a start or stop request        *)
  spc,        (* where the script is                                       *)
  rdp,        (* the script's rdPointer                                    *)
  wrp,        (* the script's wrPointer: where its block ends              *)
  cur, stopAt,(* its currentFrame and stopFrame                            *)
  target,     (* its targetFrameID at the last synchronization             *)
  block,      (* frames write_raw has read of the block                    *)
  given,      (* the last block read and released, a history variable      *)
  inStep,     (* how many frames were released in this step                *)
  stale,      (* those of the step older than target, a history variable   *)
  starts      (* acquisitions started                                      *)

serverVars == <<mode, die, hasWorker, minId>>
ptrVars    == <<wp, rp>>
netVars    == <<next, base, net>>
workerVars == <<wpc, pkt, slot>>
scriptVars == <<spc, rdp, wrp, cur, stopAt, target, block, given, inStep, stale, starts>>
vars == <<shm, ptrVars, serverVars, netVars, workerVars, dpc, scriptVars>>

Slots    == 0..(Q - 1)
Pointers == 0..(2 * Q - 1)
DevNull  == -1

(* Mutated form of Advance: the pointer is not wrapped.                    *)
AdvanceUnwrapped(p, n) == p + n

(* A pointer runs over twice the ring, so that a full ring and an empty    *)
(* one differ.                                                             *)
Advance(p, n) == (p + n) % (2 * Q)
Occupancy     == (wp - rp) % (2 * Q)

IsFull(w, r) == w # r /\ w % Q = r % Q

-----------------------------------------------------------------------------
(* The FPGA sends a datagram with the next frames, or it is lost.          *)
FpgaSend ==
  /\ \E n \in 1..MaxDatagram :
       /\ next + n - 1 <= MaxFrame
       /\ next' = next + n
       /\ \/ Len(net) < NetSize /\ net' = Append(net, [i \in 1..n |-> next + i - 1])
          \/ Lossy /\ UNCHANGED net
  /\ UNCHANGED <<shm, ptrVars, serverVars, base, workerVars, dpc, scriptVars>>

-----------------------------------------------------------------------------
(* The worker thread: UDPFrameServer::doWork.                              *)
WorkerExit ==
  /\ wpc = "recv"
  /\ die
  /\ wpc' = "off"
  /\ UNCHANGED <<shm, ptrVars, serverVars, netVars, pkt, slot, dpc, scriptVars>>

WorkerRecv ==
  /\ wpc = "recv"
  /\ ~die
  /\ net # <<>>
  /\ pkt' = Head(net)
  /\ net' = Tail(net)
  /\ wpc' = "mode"
  /\ UNCHANGED <<shm, ptrVars, serverVars, next, base, slot, dpc, scriptVars>>

(* Read without the lock, once for the whole datagram.                     *)
WorkerMode ==
  /\ wpc = "mode"
  /\ IF mode THEN wpc' = "pick" /\ UNCHANGED pkt
             ELSE wpc' = "recv" /\ pkt' = <<>>
  /\ UNCHANGED <<shm, ptrVars, serverVars, netVars, slot, dpc, scriptVars>>

(* Mutated form of WorkerPick: a full ring is not noticed.                 *)
WorkerPickAlways ==
  /\ wpc = "pick"
  /\ slot' = wp % Q
  /\ wpc' = "copy"
  /\ UNCHANGED <<shm, ptrVars, serverVars, netVars, pkt, dpc, scriptVars>>

(* The first critical section: a slot, or devNull when the ring is full.   *)
WorkerPick ==
  /\ wpc = "pick"
  /\ slot' = IF IsFull(wp, rp) THEN DevNull ELSE wp % Q
  /\ wpc' = "copy"
  /\ UNCHANGED <<shm, ptrVars, serverVars, netVars, pkt, dpc, scriptVars>>

(* The next frame of the datagram, or the next datagram.                   *)
NextFrame ==
  /\ pkt' = Tail(pkt)
  /\ wpc' = IF Len(pkt) > 1 THEN "pick" ELSE "recv"

(* memcpy, parseDataFrame and the comparison with minimumFrameID, all      *)
(* outside the lock.  A bad frame ends the datagram; a frame older than    *)
(* the minimum is passed over.                                             *)
WorkerCopy ==
  /\ wpc = "copy"
  /\ shm' = IF slot = DevNull THEN shm ELSE [shm EXCEPT ![slot] = Head(pkt)]
  /\ \/ /\ Head(pkt) \in Bad
        /\ wpc' = "recv"
        /\ pkt' = <<>>
     \/ /\ Head(pkt) \notin Bad
        /\ Head(pkt) - base < minId
        /\ NextFrame
     \/ /\ Head(pkt) \notin Bad
        /\ Head(pkt) - base >= minId
        /\ wpc' = "push"
        /\ UNCHANGED pkt
  /\ UNCHANGED <<ptrVars, serverVars, netVars, slot, dpc, scriptVars>>

(* Mutated form of WorkerPush: the pointer also moves for a frame that     *)
(* went to devNull.                                                        *)
WorkerPushAlways ==
  /\ wpc = "push"
  /\ wp' = Advance(wp, 1)
  /\ NextFrame
  /\ UNCHANGED <<shm, rp, serverVars, netVars, slot, dpc, scriptVars>>

(* The second critical section.                                            *)
WorkerPush ==
  /\ wpc = "push"
  /\ wp' = IF slot = DevNull THEN wp ELSE Advance(wp, 1)
  /\ NextFrame
  /\ UNCHANGED <<shm, rp, serverVars, netVars, slot, dpc, scriptVars>>

-----------------------------------------------------------------------------
(* The DAQ thread: a request to start or to stop, asked by a script that   *)
(* waits for the answer.                                                   *)
Goto(from, to) == dpc = from /\ dpc' = to

(* initializeSystem() stops, synchronizes the system, which restarts the   *)
(* frame IDs, and starts.  Its commands empty the UDP socket meanwhile.  A *)
(* start without a stop is that of a second connection, which has stopped  *)
(* and synchronized before the first one started.                          *)
AskStart ==
  /\ starts < MaxStarts
  /\ starts' = starts + 1
  /\ \/ spc = "stopped" /\ base' = next - 1 /\ net' = <<>>
     \/ spc = "on" /\ UNCHANGED <<base, net>>
  /\ spc' = "starting"
  /\ Goto("idle", "start_wipe")
  /\ UNCHANGED <<shm, ptrVars, serverVars, next, workerVars, rdp, wrp, cur,
                 stopAt, target, block, given, inStep, stale>>

AskStop ==
  /\ spc \in {"out", "on"}
  /\ spc' = "stopping"
  /\ Goto("idle", "stop_wipe")
  /\ UNCHANGED <<shm, ptrVars, serverVars, netVars, workerVars, rdp, wrp, cur,
                 stopAt, target, block, given, inStep, stale, starts>>

(* acquisitionMode = 0 and both pointers reset.                            *)
FirstWipe ==
  /\ \/ Goto("start_wipe", "start_die")
     \/ Goto("stop_wipe", "stop_die")
  /\ mode' = FALSE
  /\ wp' = 0
  /\ rp' = 0
  /\ UNCHANGED <<shm, die, hasWorker, minId, netVars, workerVars, scriptVars>>

(* Mutated form of TellWorker: die stays as it is.                         *)
TellWorkerNot ==
  /\ \/ Goto("start_die", "start_join")
     \/ Goto("stop_die", "stop_join")
  /\ UNCHANGED <<shm, ptrVars, serverVars, netVars, workerVars, scriptVars>>

(* stopWorker(): die, then pthread_join.                                   *)
TellWorker ==
  /\ \/ Goto("start_die", "start_join")
     \/ Goto("stop_die", "stop_join")
  /\ die' = (die \/ hasWorker)
  /\ UNCHANGED <<shm, ptrVars, mode, hasWorker, minId, netVars, workerVars,
                 scriptVars>>

(* Mutated form of JoinWorker: it is not waited for.                       *)
JoinWorkerNot ==
  /\ \/ Goto("start_join", "start_again") /\ UNCHANGED spc
     \/ Goto("stop_join", "idle") /\ spc' = "stopped"
  /\ hasWorker' = FALSE
  /\ UNCHANGED <<shm, ptrVars, mode, die, minId, netVars, workerVars, rdp, wrp,
                 cur, stopAt, target, block, given, inStep, stale, starts>>

JoinWorker ==
  /\ \/ Goto("start_join", "start_again") /\ UNCHANGED spc
     \/ Goto("stop_join", "idle") /\ spc' = "stopped"
  /\ wpc = "off"
  /\ hasWorker' = FALSE
  /\ UNCHANGED <<shm, ptrVars, mode, die, minId, netVars, workerVars, rdp, wrp,
                 cur, stopAt, target, block, given, inStep, stale, starts>>

(* Mutated form of SecondWipe: the pointers stay as the worker left them.  *)
SecondWipeNot ==
  /\ Goto("start_again", "start_worker")
  /\ mode' = TRUE
  /\ minId' = 0
  /\ UNCHANGED <<shm, ptrVars, die, hasWorker, netVars, workerVars, scriptVars>>

(* Mutated form of SecondWipe: the minimum of the last acquisition stays.  *)
SecondWipeKeepsMinimum ==
  /\ Goto("start_again", "start_worker")
  /\ wp' = 0
  /\ rp' = 0
  /\ mode' = TRUE
  /\ UNCHANGED <<shm, minId, die, hasWorker, netVars, workerVars, scriptVars>>

(* 220 ms later: the pointers reset again, acquisitionMode = mode and      *)
(* minimumFrameID = 0.                                                     *)
SecondWipe ==
  /\ Goto("start_again", "start_worker")
  /\ wp' = 0
  /\ rp' = 0
  /\ mode' = TRUE
  /\ minId' = 0
  /\ UNCHANGED <<shm, die, hasWorker, netVars, workerVars, scriptVars>>

StartWorker ==
  /\ Goto("start_worker", "idle")
  /\ die' = FALSE
  /\ hasWorker' = TRUE
  /\ wpc' = "recv"
  /\ spc' = "on"
  /\ UNCHANGED <<shm, ptrVars, mode, minId, netVars, pkt, slot, rdp, wrp, cur,
                 stopAt, target, block, given, inStep, stale, starts>>

-----------------------------------------------------------------------------
(* The script: Connection.acquire().  Each of its requests is one critical *)
(* section of the DAQ thread, which is idle otherwise.                     *)
ScriptStep(from, to) ==
  /\ spc = from
  /\ spc' = to
  /\ UNCHANGED <<shm, mode, die, hasWorker, netVars, workerVars, dpc, starts>>

(* __synchronizeDataToConfig(): the time tag of the FPGA, ...              *)
SyncTag ==
  /\ ScriptStep("on", "sync_min")
  /\ target' = next
  /\ UNCHANGED <<ptrVars, minId, rdp, wrp, cur, stopAt, block, given, inStep, stale>>

(* ... setMinimumFrameID with its frame ID, ...                            *)
SyncMinimum ==
  /\ ScriptStep("sync_min", "sync_read")
  /\ minId' = target - base
  /\ UNCHANGED <<ptrVars, rdp, wrp, cur, stopAt, target, block, given, inStep, stale>>

(* ... and the read pointer moved to the write pointer just read.          *)
SyncRead ==
  /\ ScriptStep("sync_read", "sync_set")
  /\ wrp' = wp
  /\ UNCHANGED <<minId, ptrVars, rdp, cur, stopAt, target, block, given, inStep, stale>>

(* Mutated form of SyncSet: the frames in the ring are not consumed.       *)
SyncSetNot ==
  /\ ScriptStep("sync_set", "first")
  /\ UNCHANGED <<minId, ptrVars, rdp, wrp, cur, stopAt, target, block, given, inStep, stale>>

SyncSet ==
  /\ ScriptStep("sync_set", "first")
  /\ rp' = wrp
  /\ UNCHANGED <<minId, wp, rdp, wrp, cur, stopAt, target, block, given, inStep, stale>>

(* The first frame of the step gives its range of IDs.                     *)
FirstFrame ==
  /\ ScriptStep("first", "loop")
  /\ wp # rp
  /\ rdp' = rp
  /\ cur' = shm[rp % Q]
  /\ stopAt' = shm[rp % Q] + NRequired
  /\ inStep' = 0
  /\ stale' = {}
  /\ UNCHANGED <<minId, ptrVars, wrp, target, block, given>>

Distance(w, r) == IF w >= r THEN w - r ELSE r - w
Smaller(a, b)  == IF a < b THEN a ELSE b

(* Mutated form of BlockLength: the wrap of the pointers is forgotten.     *)
BlockLengthUnwrapped(w, r) ==
  Smaller(Smaller(Distance(w, r), stopAt - cur), Q \div 2)

(* Mutated form of BlockLength: the frames still needed do not bound it.   *)
BlockLengthGreedy(w, r) ==
  LET n == Distance(w, r)
      inRing == IF n > Q THEN 2 * Q - n ELSE n
  IN  Smaller(inRing, Q \div 2)

(* How many frames the next block has: those in the ring, no more than     *)
(* needed and no more than half the ring.                                  *)
BlockLength(w, r) ==
  LET n == Distance(w, r)
      inRing == IF n > Q THEN 2 * Q - n ELSE n
  IN  Smaller(Smaller(inRing, stopAt - cur), Q \div 2)

NextBlock ==
  /\ ScriptStep("loop", "read")
  /\ cur < stopAt
  /\ wp # rp
  /\ rdp' = rp
  /\ wrp' = Advance(rp, BlockLength(wp, rp))
  /\ UNCHANGED <<minId, ptrVars, cur, stopAt, target, block, given, inStep, stale>>

(* write_raw reads one frame of the block from the shared memory.          *)
ReadFrame ==
  /\ ScriptStep("read", "read")
  /\ rdp # wrp
  /\ block' = Append(block, shm[rdp % Q])
  /\ rdp' = Advance(rdp, 1)
  /\ stale' = stale \cup {f \in {shm[rdp % Q]} : f < target}
  /\ UNCHANGED <<minId, ptrVars, wrp, cur, stopAt, target, given, inStep>>

(* write_raw answers with its read pointer, and the script moves the       *)
(* server's read pointer there.                                            *)
ReleaseBlock ==
  /\ ScriptStep("read", "loop")
  /\ rdp = wrp
  /\ cur' = shm[(rdp + Q - 1) % Q]
  /\ rp' = rdp
  /\ given' = block
  /\ inStep' = inStep + Len(block)
  /\ block' = <<>>
  /\ UNCHANGED <<minId, wp, rdp, wrp, stopAt, target, stale>>

EndStep ==
  /\ ScriptStep("loop", "on")
  /\ cur >= stopAt
  /\ rp' = rdp
  /\ UNCHANGED <<minId, wp, rdp, wrp, cur, stopAt, target, block, given, inStep, stale>>

(* An exception ends the script between two requests; the acquisition      *)
(* goes on, and another script may follow.                                 *)
ScriptDies ==
  /\ spc \notin {"out", "starting", "stopping"}
  /\ spc' = "out"
  /\ block' = <<>>
  /\ UNCHANGED <<shm, ptrVars, serverVars, netVars, workerVars, dpc, rdp, wrp,
                 cur, stopAt, target, given, inStep, stale, starts>>

-----------------------------------------------------------------------------
Init ==
  /\ shm = [s \in Slots |-> 0]
  /\ wp = 0 /\ rp = 0
  /\ mode = FALSE
  /\ die = TRUE
  /\ hasWorker = FALSE
  /\ minId = 0
  /\ next = 1
  /\ base = 0
  /\ net = <<>>
  /\ wpc = "off"
  /\ pkt = <<>>
  /\ slot = DevNull
  /\ dpc = "idle"
  /\ spc = "out"
  /\ rdp = 0 /\ wrp = 0
  /\ cur = 0 /\ stopAt = 0
  /\ target = 0
  /\ block = <<>>
  /\ given = <<>>
  /\ inStep = 0
  /\ stale = {}
  /\ starts = 0

Worker ==
  WorkerExit \/ WorkerRecv \/ WorkerMode \/ WorkerPick \/ WorkerCopy \/ WorkerPush

Server ==
  FirstWipe \/ TellWorker \/ JoinWorker \/ SecondWipe \/ StartWorker

Script ==
  \/ AskStart \/ AskStop
  \/ SyncTag \/ SyncMinimum \/ SyncRead \/ SyncSet
  \/ FirstFrame \/ NextBlock \/ ReadFrame \/ ReleaseBlock \/ EndStep
  \/ ScriptDies

Next == FpgaSend \/ Worker \/ Server \/ Script

Spec     == Init /\ [][Next]_vars
(* Neither the worker nor the DAQ thread is descheduled for ever: recv()   *)
(* of the worker returns after 100 ms without a datagram.                  *)
FairSpec == Spec /\ WF_vars(Worker) /\ WF_vars(Server)

-----------------------------------------------------------------------------
TypeOK ==
  /\ shm \in [Slots -> Nat]
  /\ wp \in Pointers /\ rp \in Pointers
  /\ rdp \in Pointers /\ wrp \in Pointers
  /\ mode \in BOOLEAN /\ die \in BOOLEAN /\ hasWorker \in BOOLEAN
  /\ minId \in Nat /\ next \in Nat /\ base \in Nat
  /\ cur \in Nat /\ stopAt \in Nat /\ target \in Nat
  /\ inStep \in Nat /\ starts \in Nat
  /\ net \in Seq(Seq(Nat)) /\ pkt \in Seq(Nat)
  /\ block \in Seq(Nat) /\ given \in Seq(Nat)
  /\ stale \subseteq Nat
  /\ slot \in Slots \cup {DevNull}
  /\ wpc \in {"off", "recv", "mode", "pick", "copy", "push"}
  /\ dpc \in {"idle", "start_wipe", "start_die", "start_join", "start_again",
              "start_worker", "stop_wipe", "stop_die", "stop_join"}
  /\ spc \in {"out", "starting", "stopping", "stopped", "on", "sync_min",
              "sync_read", "sync_set", "first", "loop", "read"}

(* While frames are accepted the two pointers, which run over twice the    *)
(* ring, never describe more frames than the ring has slots: isFull() is a *)
(* test for equality and would not notice.                                 *)
OccupancyBounded ==
  mode => Occupancy <= Q

(* The slots write_raw still has to read, or whose frame ID acquire() has  *)
(* still to fetch, are not written to.                                     *)
BlockSlots ==
  {Advance(rdp, k) % Q : k \in 0..(((wrp - rdp) % (2 * Q)) - 1)}
    \cup {(wrp + Q - 1) % Q}

NoTornFrame ==
  spc = "read" /\ wpc = "copy" => slot \notin BlockSlots

(* The frames a script gets are those the FPGA sent, each once and in the  *)
(* order it sent them, over any number of starts, stops and failed scripts.*)
InOrder ==
  [][ReleaseBlock =>
       \A i, j \in 1..Len(given \o given') :
         i < j => (given \o given')[i] < (given \o given')[j]]_vars

(* The worker passes over frames that are older than the last              *)
(* synchronization of the data, and no others: the minimum, which is a     *)
(* frame ID, does not survive a restart of the IDs.                        *)
OnlyOlderPassedOver ==
  [][WorkerCopy /\ Head(pkt) \notin Bad /\ wpc' # "push"
       => Head(pkt) < target]_vars

(* A frame the worker compared with the former minimumFrameID may enter    *)
(* the ring after the synchronization consumed it: one, and never more.    *)
AtMostOneStale == Cardinality(stale) <= 1

(* The buffer implements the bounded queue.                                *)
Fifo == INSTANCE FrameFifo WITH
          Frame    <- 1..MaxFrame,
          Capacity <- Q,
          queue    <- IF mode THEN [k \in 1..Occupancy |-> shm[Advance(rp, k - 1) % Q]]
                              ELSE <<>>

ImplementsFifo == Fifo!Spec

(* The DAQ thread answers a start or a stop: the join of the worker ends,  *)
(* whatever the worker is doing.                                           *)
RequestAnswered ==
  spc \in {"starting", "stopping"} ~> spc \notin {"starting", "stopping"}

(* A step of acquire() takes the frames it needs and at most one more: the *)
(* first block counts from a frame it has not consumed yet, the next ones  *)
(* from the last one consumed.                                             *)
AtMostOneFrameMore == inStep <= NRequired + 1
=============================================================================
