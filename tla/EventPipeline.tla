---------------------------- MODULE EventPipeline ----------------------------
(***************************************************************************)
(* The conversion of one step of a raw file: RawReader::processStep() cuts *)
(* the file into numbered buffers and gives them to a pool of workers      *)
(* (ThreadPool.cpp), which take each through the unordered stages, in any  *)
(* order, and then through the writer, an OrderedEventHandler, in the      *)
(* order of their numbers.  Every section under a mutex is one action; a   *)
(* wait on a condition ends by a signal or, as POSIX allows, by itself.    *)
(***************************************************************************)
EXTENDS Naturals, Sequences

CONSTANTS
  NWorkers,   \* the pool's threads: one for each CPU
  MaxQueue,   \* maxQueueSize
  NBuffers    \* buffers the step is cut into

ASSUME PipelineAssumption ==
  /\ NWorkers \in Nat \ {0}
  /\ MaxQueue \in Nat \ {0}
  /\ NBuffers \in Nat

VARIABLES
  main,        \* where processStep() is
  calls,       \* calls of completeQueue() begun
  scanned,     \* workers completeQueue() has looked at: i of its loop
  nextSeqN,    \* number of the next buffer
  queue,       \* the pool's queue
  terminate,   \* the pool's flag
  pc,          \* pc[w]: where worker w is
  task,        \* task[w]: the buffer it has, or had
  isBusy,      \* isBusy[w]
  expected,    \* expectedSeqN of the writer
  order,       \* the buffers the writer was given, in that order
  left,        \* how many buffers it has given on
  finished,    \* its finish() was called
  aborted      \* the program was, by a call of a pure virtual function

poolVars == <<queue, terminate>>
workerVars == <<pc, task, isBusy>>
writerVars == <<expected, order, left>>
mainVars == <<main, calls, scanned, nextSeqN, finished>>
vars == <<mainVars, poolVars, workerVars, writerVars, aborted>>

Workers == 1..NWorkers

-----------------------------------------------------------------------------
(* Conditions: what a signal does to the threads that wait.                *)

\* cond_dequeued, on which only processStep()'s thread waits.
SignalDequeued ==
  main' = CASE main = "full"       -> "fill"
            [] main = "drain_wait" -> "drain"
            [] OTHER               -> main

\* cond_completed: the scan goes on with the next worker.
SignalCompleted == main' = IF main = "scan_wait" THEN "scan" ELSE main

\* cond_queued: one of the workers that wait, if any does.
SignalQueued ==
  LET waiting == {w \in Workers : pc[w] = "wait"}
  IN  IF waiting = {} THEN pc' = pc
      ELSE \E w \in waiting : pc' = [pc EXCEPT ![w] = "loop"]

Init ==
  /\ main = "fill" /\ calls = 0 /\ scanned = 0 /\ nextSeqN = 0 /\ finished = FALSE
  /\ queue = <<>> /\ terminate = FALSE
  /\ pc = [w \in Workers |-> "loop"]
  /\ task = [w \in Workers |-> 0]
  /\ isBusy = [w \in Workers |-> FALSE]
  /\ expected = 0 /\ order = <<>> /\ left = 0
  /\ aborted = FALSE

-----------------------------------------------------------------------------
(* The thread of processStep()                                             *)

QueueTask ==
  /\ main = "fill" /\ nextSeqN < NBuffers
  /\ IF Len(queue) >= MaxQueue
     THEN main' = "full" /\ UNCHANGED <<queue, nextSeqN, pc>>
     ELSE /\ queue' = Append(queue, nextSeqN)
          /\ nextSeqN' = nextSeqN + 1
          /\ SignalQueued
          /\ UNCHANGED main
  /\ UNCHANGED <<calls, scanned, finished, terminate, task, isBusy, writerVars, aborted>>

\* The file is read, and completeQueue() called; the destructor of the pool
\* calls it a second time.
CallComplete ==
  /\ \/ main = "fill" /\ nextSeqN = NBuffers
     \/ main = "scan" /\ scanned = NWorkers /\ calls = 1
  /\ main' = "drain" /\ calls' = calls + 1
  /\ UNCHANGED <<scanned, nextSeqN, finished, poolVars, workerVars, writerVars, aborted>>

Drain ==
  /\ main = "drain"
  /\ IF queue # <<>> THEN main' = "drain_wait" /\ UNCHANGED scanned
                     ELSE main' = "scan" /\ scanned' = 0
  /\ UNCHANGED <<calls, nextSeqN, finished, poolVars, workerVars, writerVars, aborted>>

\* One wait for each worker found busy, whoever it is that completes.
Scan ==
  /\ main = "scan" /\ scanned < NWorkers
  /\ LET busy == {w \in scanned + 1..NWorkers : isBusy[w]}
     IN  \/ /\ busy = {}
            /\ scanned' = NWorkers /\ UNCHANGED main
         \/ \E w \in busy : /\ \A v \in busy : w <= v
                            /\ scanned' = w /\ main' = "scan_wait"
  /\ UNCHANGED <<calls, nextSeqN, finished, poolVars, workerVars, writerVars, aborted>>

\* Mutated form of Terminate: the pool is deleted without the joins.
TerminateUnjoined ==
  /\ main = "scan" /\ scanned = NWorkers /\ calls = 2
  /\ terminate' = TRUE /\ main' = "finish"
  /\ pc' = [w \in Workers |-> IF pc[w] = "wait" THEN "loop" ELSE pc[w]]
  /\ UNCHANGED <<calls, scanned, nextSeqN, finished, queue, task, isBusy, writerVars, aborted>>

Terminate ==
  /\ main = "scan" /\ scanned = NWorkers /\ calls = 2
  /\ terminate' = TRUE /\ main' = "join"
  /\ pc' = [w \in Workers |-> IF pc[w] = "wait" THEN "loop" ELSE pc[w]]
  /\ UNCHANGED <<calls, scanned, nextSeqN, finished, queue, task, isBusy, writerVars, aborted>>

Join ==
  /\ main = "join" /\ \A w \in Workers : pc[w] = "gone"
  /\ main' = "finish"
  /\ UNCHANGED <<calls, scanned, nextSeqN, finished, poolVars, workerVars, writerVars, aborted>>

Finish ==
  /\ main = "finish"
  /\ main' = "end" /\ finished' = TRUE
  /\ UNCHANGED <<calls, scanned, nextSeqN, poolVars, workerVars, writerVars, aborted>>

-----------------------------------------------------------------------------
(* The workers                                                             *)

\* Mutated form of TakeTask: the task queued last.
TakeLast(w) ==
  /\ task' = [task EXCEPT ![w] = queue[Len(queue)]]
  /\ queue' = SubSeq(queue, 1, Len(queue) - 1)

TakeTask(w) ==
  /\ task' = [task EXCEPT ![w] = Head(queue)]
  /\ queue' = Tail(queue)

\* The loop's conditions, and the task at the front of the queue.
LoopStep(w) ==
  /\ pc[w] = "loop"
  /\ \/ /\ terminate
        /\ pc' = [pc EXCEPT ![w] = "gone"]
        /\ UNCHANGED <<main, queue, task, isBusy>>
     \/ /\ ~terminate /\ queue = <<>>
        /\ pc' = [pc EXCEPT ![w] = "wait"]
        /\ UNCHANGED <<main, queue, task, isBusy>>
     \/ /\ ~terminate /\ queue # <<>>
        /\ TakeTask(w)
        /\ isBusy' = [isBusy EXCEPT ![w] = TRUE]
        /\ pc' = [pc EXCEPT ![w] = "taken"]
        /\ SignalDequeued
  /\ UNCHANGED <<calls, scanned, nextSeqN, finished, terminate, writerVars, aborted>>

\* runTask(), then Decoder, CoarseSorter and ProcessHit, without any order.
\* runTask() is virtual, and the destructor of ThreadPool leaves a pool in which
\* it is pure; whether the worker finds the one or the other is a data race.
Stages(w) ==
  /\ pc[w] = "taken"
  /\ \/ /\ pc' = [pc EXCEPT ![w] = "turn"]
        /\ UNCHANGED aborted
     \/ /\ calls = 2
        /\ aborted' = TRUE
        /\ UNCHANGED pc
  /\ UNCHANGED <<mainVars, poolVars, task, isBusy, writerVars>>

\* while (mySeqN != expectedSeqN)
MyTurn(w) == task[w] = expected

\* OrderedEventHandler::pushEvents(): handleEvents() begins, or the wait.
Turn(w) ==
  /\ pc[w] = "turn"
  /\ IF MyTurn(w)
     THEN /\ pc' = [pc EXCEPT ![w] = "handle"]
          /\ order' = Append(order, task[w])
     ELSE /\ pc' = [pc EXCEPT ![w] = "turn_wait"]
          /\ UNCHANGED order
  /\ UNCHANGED <<mainVars, poolVars, task, isBusy, expected, left, aborted>>

\* handleEvents() has ended: the next number may come in, and a worker that
\* waits with it is woken.
Handled(w) ==
  /\ pc[w] = "handle"
  /\ expected' = expected + 1
  /\ pc' = [v \in Workers |->
              IF v = w THEN "pass_on"
              ELSE IF pc[v] = "turn_wait" /\ task[v] = expected' THEN "turn"
              ELSE pc[v]]
  /\ left' = left + 1
  /\ UNCHANGED <<mainVars, poolVars, task, isBusy, order, aborted>>

\* The sink behind the writer deletes the buffer, and the task is done.
Completed(w) ==
  /\ pc[w] = "pass_on"
  /\ pc' = [pc EXCEPT ![w] = "loop"]
  /\ isBusy' = [isBusy EXCEPT ![w] = FALSE]
  /\ SignalCompleted
  /\ UNCHANGED <<calls, scanned, nextSeqN, finished, poolVars, task, writerVars, aborted>>

\* A wait that ends by itself.
Spurious ==
  /\ \/ /\ main \in {"full", "drain_wait", "scan_wait"}
        /\ main' = CASE main = "full"       -> "fill"
                     [] main = "drain_wait" -> "drain"
                     [] main = "scan_wait"  -> "scan"
        /\ UNCHANGED pc
     \/ /\ \E w \in Workers :
             /\ pc[w] \in {"wait", "turn_wait"}
             /\ pc' = [pc EXCEPT ![w] = IF pc[w] = "wait" THEN "loop" ELSE "turn"]
        /\ UNCHANGED main
  /\ UNCHANGED <<calls, scanned, nextSeqN, finished, poolVars, task, isBusy, writerVars, aborted>>

-----------------------------------------------------------------------------

Main == QueueTask \/ CallComplete \/ Drain \/ Scan \/ Terminate \/ Join \/ Finish

Worker(w) == LoopStep(w) \/ Stages(w) \/ Turn(w) \/ Handled(w) \/ Completed(w)

Next ==
  /\ ~aborted
  /\ Main \/ (\E w \in Workers : Worker(w)) \/ Spurious

Spec == Init /\ [][Next]_vars

\* Every thread that can go on does; waits that end by themselves are not
\* counted on.
FairSpec == Spec /\ WF_vars(~aborted /\ Main)
                 /\ \A w \in Workers : WF_vars(~aborted /\ Worker(w))

-----------------------------------------------------------------------------
(* Properties *)

Sink == INSTANCE OrderedSink WITH taken <- order

\* The converters' writer is an ordered sink: one buffer at a time, in the
\* order of the file, each once, and finish() only after the last has left it,
\* although completeQueue() may return while workers still run.
ImplementsSink == Sink!Spec

\* processStep() comes to its end: no signal is lost, and the workers do not
\* all wait in the writer for a buffer that is still queued. Or else the program
\* is aborted by a worker that the first completeQueue() did not wait for, when
\* it had just taken its task.
Finishes == <>(main = "end" \/ aborted)
=============================================================================
