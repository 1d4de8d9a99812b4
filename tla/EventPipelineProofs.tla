------------------------- MODULE EventPipelineProofs -------------------------
(***************************************************************************)
(* EventPipeline implements OrderedSink for every number of workers, queue *)
(* and file: the writer gets the buffers in order, one at a time, and all  *)
(* of them before it is told to finish, although completeQueue() may come  *)
(* back while workers still run.                                           *)
(***************************************************************************)
EXTENDS EventPipeline, SequenceTheorems, TLAPS

USE PipelineAssumption

(* The places of a worker whose buffer the writer has not given on.        *)
HeldPlaces == {"taken", "turn", "turn_wait", "handle"}

Held(w) == pc[w] \in HeldPlaces

TypeInv ==
  /\ nextSeqN \in 0..NBuffers
  /\ queue \in Seq(Nat)
  /\ Len(queue) <= nextSeqN
  /\ pc \in [Workers -> HeldPlaces \cup {"loop", "wait", "pass_on", "gone"}]
  /\ task \in [Workers -> Nat]
  /\ expected \in Nat /\ left \in Nat
  /\ order \in Seq(Nat)

(* The first of the buffers that no worker has taken.                      *)
Untaken == nextSeqN - Len(queue)

(* The queue holds the last buffers made, in their order.                  *)
QueueInv == \A i \in 1..Len(queue) : queue[i] = Untaken + i - 1

(* The workers hold the buffers between the writer's and the queue's, each *)
(* of them one, and none is missing.                                       *)
HeldInv ==
  /\ \A w \in Workers : Held(w) => expected <= task[w] /\ task[w] < Untaken
  /\ \A v, w \in Workers : Held(v) /\ Held(w) /\ task[v] = task[w] => v = w

CoverInv ==
  /\ expected <= Untaken
  /\ \A b \in Nat : expected <= b /\ b < Untaken =>
       \E w \in Workers : Held(w) /\ task[w] = b

(* One worker is in the writer at most, with the buffer expected.          *)
WriterInv ==
  /\ left = expected
  /\ \A w \in Workers : pc[w] = "handle" => task[w] = expected /\ Len(order) = left + 1
  /\ (\A w \in Workers : pc[w] # "handle") => Len(order) = left

(* The pool is drained before it is terminated, and its threads are joined *)
(* before the writer is told to finish.                                    *)
MainInv ==
  /\ main \notin {"fill", "full"} => nextSeqN = NBuffers
  /\ main \in {"scan", "scan_wait", "join", "finish", "end"} => queue = <<>>
  /\ main \in {"finish", "end"} => \A w \in Workers : pc[w] = "gone"
  /\ finished <=> main = "end"

IInv == TypeInv /\ QueueInv /\ HeldInv /\ CoverInv /\ WriterInv /\ MainInv

-----------------------------------------------------------------------------
LEMMA InitIInv == Init => IInv
<1> SUFFICES ASSUME Init PROVE IInv
  OBVIOUS
<1>1. TypeInv
  BY DEF Init, TypeInv, HeldPlaces
<1>2. QueueInv /\ HeldInv /\ CoverInv
  BY DEF Init, QueueInv, HeldInv, CoverInv, Held, HeldPlaces, Untaken
<1>3. WriterInv
  BY DEF Init, WriterInv
<1>4. MainInv
  BY DEF Init, MainInv
<1> QED
  BY <1>1, <1>2, <1>3, <1>4 DEF IInv

(* The part of the invariant that says nothing of processStep()'s thread.  *)
PoolInv == TypeInv /\ QueueInv /\ HeldInv /\ CoverInv /\ WriterInv

(* A step that takes no buffer, gives none to the writer and none on, and  *)
(* moves workers only between places where that means the same, keeps it.  *)
LEMMA QuietStep ==
  ASSUME PoolInv,
         UNCHANGED <<nextSeqN, queue, task, expected, left, order>>,
         pc' \in [Workers -> HeldPlaces \cup {"loop", "wait", "pass_on", "gone"}],
         \A w \in Workers : Held(w)' = Held(w),
         \A w \in Workers : pc'[w] = "handle" <=> pc[w] = "handle"
  PROVE  PoolInv'
<1>1. TypeInv'
  BY DEF PoolInv, TypeInv
<1>2. QueueInv'
  BY DEF PoolInv, QueueInv, Untaken
<1>3. HeldInv'
  BY DEF PoolInv, HeldInv, Untaken
<1>4. CoverInv'
  BY DEF PoolInv, CoverInv, Untaken
<1>5. WriterInv'
  BY DEF PoolInv, WriterInv
<1> QED
  BY <1>1, <1>2, <1>3, <1>4, <1>5 DEF PoolInv

-----------------------------------------------------------------------------
(* processStep()'s thread.                                                 *)

(* Signals to the workers wake some of those that wait in the pool.        *)
LEMMA QueueTaskPool ==
  ASSUME IInv, QueueTask
  PROVE  PoolInv'
<1>1. CASE Len(queue) >= MaxQueue
  BY <1>1, QuietStep DEF IInv, PoolInv, TypeInv, QueueTask, writerVars, Held
<1>2. CASE ~(Len(queue) >= MaxQueue)
  <2> SUFFICES ASSUME nextSeqN < NBuffers, queue' = Append(queue, nextSeqN),
                      nextSeqN' = nextSeqN + 1, SignalQueued,
                      UNCHANGED <<task, expected, left, order>>
               PROVE  PoolInv'
    BY <1>2 DEF QueueTask, writerVars
  <2>1. /\ nextSeqN \in Nat /\ Len(queue) \in Nat /\ Len(queue) <= nextSeqN
        /\ queue \in Seq(Nat) /\ nextSeqN' \in 0..NBuffers
        /\ pc \in [Workers -> HeldPlaces \cup {"loop", "wait", "pass_on", "gone"}]
    BY DEF IInv, TypeInv
  <2>2. /\ queue' \in Seq(Nat) /\ Len(queue') = Len(queue) + 1
        /\ \A i \in 1..Len(queue) : queue'[i] = queue[i]
        /\ queue'[Len(queue) + 1] = nextSeqN
    BY <2>1, AppendProperties
  <2>3. Untaken' = Untaken
    BY <2>1, <2>2 DEF Untaken
  <2>4. /\ pc' \in [Workers -> HeldPlaces \cup {"loop", "wait", "pass_on", "gone"}]
        /\ \A w \in Workers : pc'[w] = pc[w] \/ (pc[w] = "wait" /\ pc'[w] = "loop")
    <3>1. pc' = pc \/ \E w \in Workers : pc[w] = "wait" /\ pc' = [pc EXCEPT ![w] = "loop"]
      BY DEF SignalQueued
    <3> QED
      BY <2>1, <3>1
  <2>5. \A w \in Workers : Held(w)' = Held(w) /\ (pc'[w] = "handle" <=> pc[w] = "handle")
    BY <2>4 DEF Held, HeldPlaces
  <2>6. TypeInv'
    BY <2>1, <2>2, <2>4 DEF IInv, TypeInv
  <2>7. QueueInv'
    <3> SUFFICES ASSUME NEW i \in 1..Len(queue) + 1
                 PROVE  queue'[i] = Untaken + i - 1
      BY <2>2, <2>3 DEF QueueInv
    <3>1. CASE i \in 1..Len(queue)
      BY <2>2, <3>1 DEF IInv, QueueInv
    <3>2. CASE i = Len(queue) + 1
      BY <2>1, <2>2, <3>2 DEF Untaken
    <3> QED
      BY <2>1, <3>1, <3>2
  <2>8. HeldInv'
    BY <2>3, <2>5 DEF IInv, HeldInv
  <2>9. CoverInv'
    BY <2>3, <2>5 DEF IInv, CoverInv
  <2>10. WriterInv'
    BY <2>5 DEF IInv, WriterInv
  <2> QED
    BY <2>6, <2>7, <2>8, <2>9, <2>10 DEF PoolInv
<1> QED
  BY <1>1, <1>2

(* The other steps of that thread and the waits that end by themselves.    *)
LEMMA MainQuietPool ==
  ASSUME IInv, CallComplete \/ Drain \/ Scan \/ Terminate \/ Join \/ Finish \/ Spurious
  PROVE  PoolInv'
<1>1. pc \in [Workers -> HeldPlaces \cup {"loop", "wait", "pass_on", "gone"}]
  BY DEF IInv, TypeInv
<1>2. UNCHANGED <<nextSeqN, queue, task, expected, left, order>>
  BY DEF CallComplete, Drain, Scan, Terminate, Join, Finish, Spurious, poolVars,
         workerVars, writerVars
<1>3. /\ pc' \in [Workers -> HeldPlaces \cup {"loop", "wait", "pass_on", "gone"}]
      /\ \A w \in Workers : \/ pc'[w] = pc[w]
                            \/ pc[w] = "wait" /\ pc'[w] = "loop"
                            \/ pc[w] = "turn_wait" /\ pc'[w] = "turn"
  <2>1. CASE CallComplete \/ Drain \/ Scan \/ Join \/ Finish
    BY <1>1, <2>1 DEF CallComplete, Drain, Scan, Join, Finish, workerVars
  <2>2. CASE Terminate
    BY <1>1, <2>2 DEF Terminate
  <2>3. CASE Spurious
    <3>1. CASE UNCHANGED pc
      BY <1>1, <3>1
    <3>2. CASE \E w \in Workers :
                 /\ pc[w] \in {"wait", "turn_wait"}
                 /\ pc' = [pc EXCEPT ![w] = IF pc[w] = "wait" THEN "loop" ELSE "turn"]
      BY <1>1, <3>2 DEF HeldPlaces
    <3> QED
      BY <2>3, <3>1, <3>2 DEF Spurious
  <2> QED
    BY <2>1, <2>2, <2>3
<1>4. \A w \in Workers : Held(w)' = Held(w) /\ (pc'[w] = "handle" <=> pc[w] = "handle")
  BY <1>3 DEF Held, HeldPlaces
<1> QED
  BY <1>2, <1>3, <1>4, QuietStep DEF IInv, PoolInv

-----------------------------------------------------------------------------
(* The workers.                                                            *)

(* A worker takes the buffer at the front of the queue.                    *)
LEMMA TakePool ==
  ASSUME IInv, NEW w \in Workers, pc[w] = "loop", queue # <<>>, TakeTask(w),
         pc' = [pc EXCEPT ![w] = "taken"], UNCHANGED <<nextSeqN, writerVars>>
  PROVE  PoolInv'
<1>1. /\ nextSeqN \in Nat /\ Len(queue) \in Nat /\ Len(queue) <= nextSeqN
      /\ queue \in Seq(Nat) /\ nextSeqN \in 0..NBuffers
      /\ pc \in [Workers -> HeldPlaces \cup {"loop", "wait", "pass_on", "gone"}]
      /\ task \in [Workers -> Nat] /\ expected \in Nat
  BY DEF IInv, TypeInv
<1>2. /\ Head(queue) \in Nat /\ queue' \in Seq(Nat) /\ Len(queue') = Len(queue) - 1
      /\ \A i \in 1..Len(queue') : queue'[i] = queue[i + 1]
  BY <1>1, HeadTailProperties DEF TakeTask
<1>3. Len(queue) > 0
  BY <1>1, EmptySeq
<1>4. Head(queue) = Untaken
  <2>1. Head(queue) = queue[1]
    BY <1>1
  <2>2. queue[1] = Untaken + 1 - 1
    BY <1>1, <1>3 DEF IInv, QueueInv
  <2> QED
    BY <1>1, <2>1, <2>2 DEF Untaken
<1>5. Untaken \in Nat /\ Untaken' = Untaken + 1
  BY <1>1, <1>2 DEF Untaken, writerVars
<1>6. /\ task' \in [Workers -> Nat] /\ task'[w] = Untaken
      /\ \A v \in Workers \ {w} : task'[v] = task[v] /\ pc'[v] = pc[v]
      /\ pc' \in [Workers -> HeldPlaces \cup {"loop", "wait", "pass_on", "gone"}]
      /\ pc'[w] = "taken"
  BY <1>1, <1>2, <1>4 DEF TakeTask, HeldPlaces
<1>7. /\ ~Held(w) /\ Held(w)' /\ \A v \in Workers \ {w} : Held(v)' = Held(v)
      /\ \A v \in Workers : pc'[v] = "handle" <=> pc[v] = "handle"
  BY <1>6 DEF Held, HeldPlaces
<1>8. TypeInv'
  BY <1>1, <1>2, <1>6 DEF IInv, TypeInv, writerVars
<1>9. QueueInv'
  <2> SUFFICES ASSUME NEW i \in 1..Len(queue')
               PROVE  queue'[i] = Untaken + 1 + i - 1
    BY <1>5 DEF QueueInv
  <2>1. i + 1 \in 1..Len(queue) /\ queue'[i] = queue[i + 1]
    BY <1>1, <1>2
  <2>2. queue[i + 1] = Untaken + (i + 1) - 1
    BY <2>1 DEF IInv, QueueInv
  <2> QED
    BY <1>5, <2>1, <2>2
<1>10. HeldInv'
  <2>1. \A v \in Workers : Held(v)' => expected' <= task'[v] /\ task'[v] < Untaken'
    <3> SUFFICES ASSUME NEW v \in Workers, Held(v)'
                 PROVE  expected <= task'[v] /\ task'[v] < Untaken + 1
      BY <1>5 DEF writerVars
    <3>1. CASE v = w
      BY <1>1, <1>5, <1>6, <3>1 DEF IInv, CoverInv
    <3>2. CASE v # w
      <4>1. expected <= task[v] /\ task[v] < Untaken
        BY <1>7, <3>2 DEF IInv, HeldInv
      <4> QED
        BY <1>1, <1>5, <1>6, <3>2, <4>1
    <3> QED
      BY <3>1, <3>2
  <2>2. ASSUME NEW u \in Workers, NEW v \in Workers, Held(u)', Held(v)',
               task'[u] = task'[v], u # v
        PROVE  FALSE
    <3>1. CASE u = w
      <4>1. task[v] < Untaken /\ task[v] = Untaken
        BY <1>6, <1>7, <2>2, <3>1 DEF IInv, HeldInv
      <4> QED
        BY <1>5, <4>1
    <3>2. CASE v = w
      <4>1. task[u] < Untaken /\ task[u] = Untaken
        BY <1>6, <1>7, <2>2, <3>2 DEF IInv, HeldInv
      <4> QED
        BY <1>5, <4>1
    <3>3. CASE u # w /\ v # w
      BY <1>6, <1>7, <2>2, <3>3 DEF IInv, HeldInv
    <3> QED
      BY <3>1, <3>2, <3>3
  <2> QED
    BY <2>1, <2>2 DEF HeldInv
<1>11. CoverInv'
  <2>1. expected' <= Untaken'
    BY <1>1, <1>5 DEF IInv, CoverInv, writerVars
  <2>2. ASSUME NEW b \in Nat, expected <= b, b < Untaken + 1
        PROVE  \E v \in Workers : Held(v)' /\ task'[v] = b
    <3>1. CASE b = Untaken
      BY <1>6, <1>7, <3>1
    <3>2. CASE b < Untaken
      <4>1. PICK v \in Workers : Held(v) /\ task[v] = b
        BY <2>2, <3>2 DEF IInv, CoverInv
      <4> QED
        BY <1>6, <1>7, <4>1
    <3> QED
      BY <1>5, <2>2, <3>1, <3>2
  <2> QED
    BY <1>5, <2>1, <2>2 DEF CoverInv, writerVars
<1>12. WriterInv'
  BY <1>6, <1>7 DEF IInv, WriterInv, writerVars, Held, HeldPlaces
<1> QED
  BY <1>8, <1>9, <1>10, <1>11, <1>12 DEF PoolInv

(* The writer is given the expected buffer, or the worker waits for its    *)
(* turn.                                                                   *)
LEMMA TurnPool ==
  ASSUME IInv, NEW w \in Workers, Turn(w)
  PROVE  PoolInv'
<1>1. /\ pc \in [Workers -> HeldPlaces \cup {"loop", "wait", "pass_on", "gone"}]
      /\ task \in [Workers -> Nat] /\ order \in Seq(Nat) /\ left \in Nat
      /\ pc[w] = "turn"
      /\ UNCHANGED <<nextSeqN, queue, task, expected, left>>
  BY DEF IInv, TypeInv, Turn, mainVars, poolVars
<1>2. CASE ~MyTurn(w)
  <2>1. pc' = [pc EXCEPT ![w] = "turn_wait"] /\ UNCHANGED order
    BY <1>2 DEF Turn
  <2>2. pc' \in [Workers -> HeldPlaces \cup {"loop", "wait", "pass_on", "gone"}]
    BY <1>1, <2>1 DEF HeldPlaces
  <2>3. \A v \in Workers : Held(v)' = Held(v) /\ (pc'[v] = "handle" <=> pc[v] = "handle")
    BY <1>1, <2>1 DEF Held, HeldPlaces
  <2> QED
    BY <1>1, <2>1, <2>2, <2>3, QuietStep DEF IInv, PoolInv
<1>3. CASE MyTurn(w)
  <2>1. pc' = [pc EXCEPT ![w] = "handle"] /\ order' = Append(order, task[w])
    BY <1>3 DEF Turn
  <2>2. pc' \in [Workers -> HeldPlaces \cup {"loop", "wait", "pass_on", "gone"}]
    BY <1>1, <2>1 DEF HeldPlaces
  <2>3. \A v \in Workers : Held(v)' = Held(v)
    BY <1>1, <2>1 DEF Held, HeldPlaces
  <2>4. order' \in Seq(Nat) /\ Len(order') = Len(order) + 1
    BY <1>1, <2>1, AppendProperties
  <2>5. \A v \in Workers : pc[v] # "handle"
    <3> SUFFICES ASSUME NEW v \in Workers, pc[v] = "handle" PROVE FALSE
      OBVIOUS
    <3>1. task[v] = expected /\ task[w] = expected
      BY <1>3 DEF IInv, WriterInv, MyTurn
    <3>2. Held(v) /\ Held(w)
      BY <1>1 DEF Held, HeldPlaces
    <3> QED
      BY <1>1, <3>1, <3>2 DEF IInv, HeldInv
  <2>6. Len(order') = left + 1
    BY <2>4, <2>5 DEF IInv, WriterInv
  <2>7. TypeInv'
    BY <1>1, <2>2, <2>4 DEF IInv, TypeInv
  <2>8. QueueInv' /\ HeldInv' /\ CoverInv'
    BY <1>1, <2>3 DEF IInv, QueueInv, HeldInv, CoverInv, Untaken
  <2>9. WriterInv'
    <3>1. \A v \in Workers : pc'[v] = "handle" => task[v] = expected
      BY <1>1, <1>3, <2>1, <2>5 DEF MyTurn
    <3>2. pc'[w] = "handle"
      BY <1>1, <2>1
    <3> QED
      BY <1>1, <2>6, <3>1, <3>2 DEF IInv, WriterInv
  <2> QED
    BY <2>7, <2>8, <2>9 DEF PoolInv
<1> QED
  BY <1>2, <1>3

(* The writer gives a buffer on, and expects the next one.                 *)
LEMMA HandledPool ==
  ASSUME IInv, NEW w \in Workers, Handled(w)
  PROVE  PoolInv'
<1>1. /\ pc \in [Workers -> HeldPlaces \cup {"loop", "wait", "pass_on", "gone"}]
      /\ task \in [Workers -> Nat] /\ expected \in Nat /\ left \in Nat
      /\ Untaken \in Int
      /\ pc[w] = "handle" /\ expected' = expected + 1 /\ left' = left + 1
      /\ UNCHANGED <<nextSeqN, queue, task, order>>
  BY DEF IInv, TypeInv, Untaken, Handled, mainVars, poolVars
<1>2. /\ pc' \in [Workers -> HeldPlaces \cup {"loop", "wait", "pass_on", "gone"}]
      /\ pc'[w] = "pass_on"
      /\ \A v \in Workers \ {w} : pc'[v] = pc[v] \/ (pc[v] = "turn_wait" /\ pc'[v] = "turn")
  BY <1>1 DEF Handled, HeldPlaces
<1>3. task[w] = expected /\ Len(order) = left + 1 /\ left = expected
  BY <1>1 DEF IInv, WriterInv
<1>4. /\ Held(w) /\ ~Held(w)'
      /\ \A v \in Workers \ {w} : /\ Held(v)' = Held(v)
                                  /\ pc'[v] = "handle" <=> pc[v] = "handle"
  BY <1>1, <1>2 DEF Held, HeldPlaces
<1>5. \A v \in Workers : Held(v)' => Held(v) /\ v # w
  BY <1>4
<1>6. \A v \in Workers : Held(v)' => expected + 1 <= task[v] /\ task[v] < Untaken
  <2> SUFFICES ASSUME NEW v \in Workers, Held(v)'
               PROVE  expected + 1 <= task[v] /\ task[v] < Untaken
    OBVIOUS
  <2>1. expected <= task[v] /\ task[v] < Untaken
    BY <1>5 DEF IInv, HeldInv
  <2>2. task[v] # expected
    BY <1>3, <1>4, <1>5 DEF IInv, HeldInv
  <2> QED
    BY <1>1, <2>1, <2>2
<1>7. TypeInv'
  BY <1>1, <1>2 DEF IInv, TypeInv
<1>8. QueueInv' /\ Untaken' = Untaken
  BY <1>1 DEF IInv, QueueInv, Untaken
<1>9. HeldInv'
  BY <1>1, <1>5, <1>6, <1>8 DEF IInv, HeldInv
<1>10. CoverInv'
  <2>1. expected < Untaken
    BY <1>3, <1>4 DEF IInv, HeldInv
  <2>2. ASSUME NEW b \in Nat, expected + 1 <= b, b < Untaken
        PROVE  \E v \in Workers : Held(v)' /\ task[v] = b
    <3>1. expected <= b /\ b # expected
      BY <1>1, <2>2
    <3>2. PICK v \in Workers : Held(v) /\ task[v] = b
      BY <2>2, <3>1 DEF IInv, CoverInv
    <3> QED
      BY <1>3, <1>4, <3>1, <3>2
  <2> QED
    BY <1>1, <1>8, <2>1, <2>2 DEF CoverInv
<1>11. WriterInv'
  <2>1. \A v \in Workers : pc'[v] # "handle"
    <3> SUFFICES ASSUME NEW v \in Workers, pc'[v] = "handle" PROVE FALSE
      OBVIOUS
    <3>1. v # w /\ pc[v] = "handle"
      BY <1>2, <1>4
    <3>2. task[v] = expected /\ Held(v)
      BY <3>1 DEF IInv, WriterInv, Held, HeldPlaces
    <3> QED
      BY <1>3, <1>4, <3>1, <3>2 DEF IInv, HeldInv
  <2> QED
    BY <1>1, <1>3, <2>1 DEF WriterInv
<1> QED
  BY <1>7, <1>8, <1>9, <1>10, <1>11 DEF PoolInv

(* Every step of a worker.                                                 *)
LEMMA WorkerPool ==
  ASSUME IInv, NEW w \in Workers, Worker(w)
  PROVE  PoolInv'
<1>1. pc \in [Workers -> HeldPlaces \cup {"loop", "wait", "pass_on", "gone"}]
  BY DEF IInv, TypeInv
<1>2. ASSUME UNCHANGED <<nextSeqN, queue, task, expected, left, order>>,
             \/ pc' = pc
             \/ \E p \in {"wait", "gone"} : pc[w] = "loop" /\ pc' = [pc EXCEPT ![w] = p]
             \/ pc[w] = "taken" /\ pc' = [pc EXCEPT ![w] = "turn"]
             \/ pc[w] = "pass_on" /\ pc' = [pc EXCEPT ![w] = "loop"]
      PROVE  PoolInv'
  <2>1. pc' \in [Workers -> HeldPlaces \cup {"loop", "wait", "pass_on", "gone"}]
    BY <1>1, <1>2 DEF HeldPlaces
  <2>2. \A v \in Workers : Held(v)' = Held(v) /\ (pc'[v] = "handle" <=> pc[v] = "handle")
    BY <1>1, <1>2 DEF Held, HeldPlaces
  <2> QED
    BY <1>2, <2>1, <2>2, QuietStep DEF IInv, PoolInv
<1>3. CASE LoopStep(w)
  <2>1. UNCHANGED <<nextSeqN, writerVars>> /\ pc[w] = "loop"
    BY <1>3 DEF LoopStep
  <2>2. CASE UNCHANGED <<queue, task>> /\ \E p \in {"wait", "gone"} : pc' = [pc EXCEPT ![w] = p]
    BY <1>2, <2>1, <2>2 DEF writerVars
  <2>3. CASE queue # <<>> /\ TakeTask(w) /\ pc' = [pc EXCEPT ![w] = "taken"]
    BY <2>1, <2>3, TakePool
  <2> QED
    BY <1>3, <2>2, <2>3 DEF LoopStep
<1>4. CASE Stages(w)
  BY <1>2, <1>4 DEF Stages, mainVars, poolVars, writerVars
<1>5. CASE Turn(w)
  BY <1>5, TurnPool
<1>6. CASE Handled(w)
  BY <1>6, HandledPool
<1>7. CASE Completed(w)
  BY <1>2, <1>7 DEF Completed, poolVars, writerVars
<1> QED
  BY <1>3, <1>4, <1>5, <1>6, <1>7 DEF Worker

-----------------------------------------------------------------------------
(* Where processStep() is tells what the pool has left to do.              *)
LEMMA MainStep ==
  ASSUME IInv, Next
  PROVE  MainInv'
<1>1. CASE QueueTask
  <2>1. main = "fill" /\ main' \in {"fill", "full"} /\ UNCHANGED finished
    BY <1>1 DEF QueueTask
  <2> QED
    BY <2>1 DEF IInv, MainInv
<1>2. CASE CallComplete
  BY <1>2 DEF IInv, MainInv, CallComplete, poolVars, workerVars
<1>3. CASE Drain
  BY <1>3 DEF IInv, MainInv, Drain, poolVars, workerVars
<1>4. CASE Scan
  <2>1. /\ main = "scan" /\ main' \in {"scan", "scan_wait"}
        /\ UNCHANGED <<nextSeqN, queue, finished>>
    BY <1>4 DEF Scan, poolVars
  <2> QED
    BY <2>1 DEF IInv, MainInv
<1>5. CASE Terminate
  <2>1. main = "scan" /\ main' = "join" /\ UNCHANGED <<nextSeqN, queue, finished>>
    BY <1>5 DEF Terminate
  <2> QED
    BY <2>1 DEF IInv, MainInv
<1>6. CASE Join
  BY <1>6 DEF IInv, MainInv, Join, poolVars, workerVars
<1>7. CASE Finish
  BY <1>7 DEF IInv, MainInv, Finish, poolVars, workerVars
<1>8. ASSUME NEW w \in Workers, Worker(w)
      PROVE  MainInv'
  <2>1. pc[w] # "gone"
    BY <1>8 DEF Worker, LoopStep, Stages, Turn, Handled, Completed
  <2>2. main \notin {"finish", "end"}
    BY <2>1 DEF IInv, MainInv
  <2>3. UNCHANGED <<nextSeqN, finished>>
    BY <1>8 DEF Worker, LoopStep, Stages, Turn, Handled, Completed, mainVars
  <2>4. CASE UNCHANGED queue
    <3>1. \/ main' = main
          \/ main = "scan_wait" /\ main' = "scan"
          \/ main = "full" /\ main' = "fill"
          \/ main = "drain_wait" /\ main' = "drain"
      <4>1. CASE LoopStep(w)
        BY <4>1 DEF LoopStep, SignalDequeued
      <4>2. CASE Completed(w)
        BY <4>2 DEF Completed, SignalCompleted
      <4> QED
        BY <1>8, <4>1, <4>2 DEF Worker, Stages, Turn, Handled, mainVars
    <3> QED
      BY <2>2, <2>3, <2>4, <3>1 DEF IInv, MainInv
  <2>5. CASE ~UNCHANGED queue
    <3>1. queue # <<>> /\ SignalDequeued
      BY <1>8, <2>5 DEF Worker, LoopStep, Stages, Turn, Handled, Completed, poolVars
    <3>2. main \notin {"scan", "scan_wait", "join"}
      BY <3>1 DEF IInv, MainInv
    <3>3. \/ main' = main
          \/ main = "full" /\ main' = "fill"
          \/ main = "drain_wait" /\ main' = "drain"
      BY <3>1 DEF SignalDequeued
    <3> QED
      BY <2>2, <2>3, <3>2, <3>3 DEF IInv, MainInv
  <2> QED
    BY <2>4, <2>5
<1>9. CASE Spurious
  <2>1. UNCHANGED <<nextSeqN, queue, finished>>
    BY <1>9 DEF Spurious, poolVars
  <2>2. CASE UNCHANGED main /\ \E w \in Workers : pc[w] \in {"wait", "turn_wait"}
    <3>1. main \notin {"finish", "end"}
      BY <2>2 DEF IInv, MainInv
    <3> QED
      BY <2>1, <2>2, <3>1 DEF IInv, MainInv
  <2>3. CASE main \in {"full", "drain_wait", "scan_wait"}
             /\ main' = CASE main = "full"       -> "fill"
                          [] main = "drain_wait" -> "drain"
                          [] main = "scan_wait"  -> "scan"
    <3>1. \/ main = "scan_wait" /\ main' = "scan"
          \/ main = "full" /\ main' = "fill"
          \/ main = "drain_wait" /\ main' = "drain"
      BY <2>3
    <3> QED
      BY <2>1, <3>1 DEF IInv, MainInv
  <2> QED
    BY <1>9, <2>2, <2>3 DEF Spurious
<1> QED
  BY <1>1, <1>2, <1>3, <1>4, <1>5, <1>6, <1>7, <1>8, <1>9 DEF Next, Main

LEMMA NextIInv == IInv /\ [Next]_vars => IInv'
<1> SUFFICES ASSUME IInv, [Next]_vars PROVE IInv'
  OBVIOUS
<1>1. CASE Next
  <2>1. PoolInv'
    BY <1>1, QueueTaskPool, MainQuietPool, WorkerPool DEF Next, Main
  <2> QED
    BY <1>1, <2>1, MainStep DEF IInv, PoolInv
<1>2. CASE UNCHANGED vars
  BY <1>2 DEF vars, mainVars, poolVars, workerVars, writerVars, IInv, TypeInv,
       QueueInv, HeldInv, CoverInv, WriterInv, MainInv, Untaken, Held
<1> QED
  BY <1>1, <1>2

(* The strengthened invariant: where the buffers between the writer and    *)
(* the end of the file are, at every step of the pool.                     *)
THEOREM Invariance == Spec => []IInv
BY InitIInv, NextIInv, PTL DEF Spec

-----------------------------------------------------------------------------
(* Each step of the pipeline is one of the ordered sink, or none of it.    *)
LEMMA SinkStep ==
  ASSUME IInv, [Next]_vars
  PROVE  [Sink!Next]_(Sink!sinkVars)
<1>1. /\ nextSeqN \in 0..NBuffers /\ Len(queue) \in Nat /\ Len(queue) <= nextSeqN
      /\ expected \in Nat /\ order \in Seq(Nat) /\ Len(order) \in Nat
      /\ task \in [Workers -> Nat] /\ left = expected /\ NBuffers \in Nat
  BY DEF IInv, TypeInv, WriterInv
<1>2. Untaken \in Nat /\ Untaken <= NBuffers
  BY <1>1 DEF Untaken
<1>3. ASSUME NEW w \in Workers, Turn(w), MyTurn(w)
      PROVE  Sink!Take
  <2>1. pc[w] = "turn" /\ task[w] = expected /\ order' = Append(order, task[w])
        /\ UNCHANGED <<left, finished>>
    BY <1>3 DEF Turn, MyTurn, mainVars
  <2>2. \A v \in Workers : pc[v] # "handle"
    <3> SUFFICES ASSUME NEW v \in Workers, pc[v] = "handle" PROVE FALSE
      OBVIOUS
    <3>1. task[v] = task[w] /\ Held(v) /\ Held(w)
      BY <2>1 DEF IInv, WriterInv, Held, HeldPlaces
    <3> QED
      BY <2>1, <3>1 DEF IInv, HeldInv
  <2>3. Len(order) = left
    BY <2>2 DEF IInv, WriterInv
  <2>4. task[w] < Untaken
    BY <2>1 DEF IInv, HeldInv, Held, HeldPlaces
  <2>5. Len(order) < NBuffers /\ task[w] = Len(order)
    BY <1>1, <1>2, <2>1, <2>3, <2>4
  <2>6. ~finished
    BY <2>1 DEF IInv, MainInv
  <2> QED
    BY <2>1, <2>3, <2>5, <2>6 DEF Sink!Take
<1>4. ASSUME NEW w \in Workers, Handled(w)
      PROVE  Sink!Leave
  <2>1. pc[w] = "handle" /\ left' = left + 1 /\ UNCHANGED <<order, finished>>
    BY <1>4 DEF Handled, mainVars
  <2>2. left < Len(order)
    BY <1>1, <2>1 DEF IInv, WriterInv
  <2> QED
    BY <2>1, <2>2 DEF Sink!Leave
<1>5. ASSUME Finish
      PROVE  Sink!Finish
  <2>1. main = "finish" /\ finished' = TRUE /\ UNCHANGED <<order, left>>
    BY <1>5 DEF Finish, writerVars
  <2>2. nextSeqN = NBuffers /\ queue = <<>> /\ ~finished
    BY <2>1 DEF IInv, MainInv
  <2>3. Untaken = NBuffers
    BY <1>1, <2>2 DEF Untaken
  <2>4. \A w \in Workers : ~Held(w)
    BY <2>1 DEF IInv, MainInv, Held, HeldPlaces
  <2>5. ~(expected < Untaken) /\ expected <= Untaken
    BY <1>1, <2>4 DEF IInv, CoverInv
  <2>6. left = NBuffers
    BY <1>1, <2>3, <2>5
  <2> QED
    BY <2>1, <2>2, <2>6 DEF Sink!Finish
<1>6. \/ \E w \in Workers : Turn(w) /\ MyTurn(w)
      \/ \E w \in Workers : Handled(w)
      \/ Finish
      \/ UNCHANGED <<order, left, finished>>
  <2>1. CASE QueueTask \/ CallComplete \/ Drain \/ Scan \/ Terminate \/ Join \/ Spurious
    BY <2>1 DEF QueueTask, CallComplete, Drain, Scan, Terminate, Join, Spurious, writerVars
  <2>2. ASSUME NEW w \in Workers, Worker(w), ~Handled(w), ~(Turn(w) /\ MyTurn(w))
        PROVE  UNCHANGED <<order, left, finished>>
    BY <2>2 DEF Worker, LoopStep, Stages, Turn, Completed, mainVars, writerVars
  <2>3. CASE UNCHANGED vars
    BY <2>3 DEF vars, mainVars, writerVars
  <2> QED
    BY <2>1, <2>2, <2>3 DEF Next, Main
<1> QED
  BY <1>3, <1>4, <1>5, <1>6 DEF Sink!Next, Sink!sinkVars

(* The writer is an ordered sink, whatever the early return of             *)
(* completeQueue() and the order in which the workers run.                 *)
THEOREM SinkImplemented == Spec => ImplementsSink
<1>1. Init => Sink!Init
  BY DEF Init, Sink!Init
<1>2. IInv /\ [Next]_vars => [Sink!Next]_(Sink!sinkVars)
  BY SinkStep
<1> QED
  BY <1>1, <1>2, Invariance, PTL DEF Spec, ImplementsSink, Sink!Spec
=============================================================================
