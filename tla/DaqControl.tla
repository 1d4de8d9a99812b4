----------------------------- MODULE DaqControl -----------------------------
(***************************************************************************)
(* Life cycle of the DAQ loop: GRAMS_TOF_CommandDispatch (START_DAQ,       *)
(* STOP_DAQ, RESET_DAQ, the script commands and the destructor),           *)
(* GRAMS_TOF_DAQManager (initialize, run, stop, pollSocket, cleanup) and   *)
(* the shutdown of GRAMS_TOF_DAQController.                                *)
(*                                                                         *)
(* Two threads take steps.  The command thread runs one handler of the     *)
(* dispatch table at a time; after shutdown its place is taken by the main *)
(* thread, which joined it, so that one program counter, pc, serves both.  *)
(* The DAQ thread is daqThread_.  They share daqRunning_, daqMutex_, the   *)
(* atomic globalUserStop, the raw pointer frameServer_ and the listening   *)
(* socket of the DAQ service.  POSIX signals set globalUserStop too.       *)
(***************************************************************************)
EXTENDS Naturals, FiniteSets

CONSTANTS
  MaxCommands,  (* commands the hub sends, a bound on the model            *)
  MaxSignals    (* SIGTERM, SIGINT and SIGHUP received, a bound            *)

ASSUME DaqControlAssumption == MaxCommands \in Nat /\ MaxSignals \in Nat

VARIABLES
  pc,           (* where the command thread (or the main thread) is        *)
  thr,          (* where daqThread_ is; "none" is a thread not joinable    *)
  daqRunning,   (* daqRunning_                                             *)
  userStop,     (* globalUserStop                                          *)
  frameServer,  (* frameServer_: the number of an object, 0 is nullptr     *)
  live,         (* frame servers created and not deleted                   *)
  made,         (* number of frame servers created so far                  *)
  lastInit,     (* how the last initialize() ended, "cleaned" once         *)
                (* cleanup() ran after it                                  *)
  doubleFree,   (* cleanup() deleted a frame server already deleted        *)
  listening,    (* a connect() to the DAQ service's socket path succeeds   *)
  conn,         (* the script's connection to the DAQ service              *)
  handlers,     (* catchUserStop is installed                              *)
  selfExit,     (* a signal arrived or the set up of the loop failed: the  *)
                (* loop may end for a cause other than stop()              *)
  commands,     (* commands received so far                                *)
  signals       (* signals received so far                                 *)

vars == <<pc, thr, daqRunning, userStop, frameServer, live, made, lastInit,
          doubleFree, listening, conn, handlers, selfExit, commands, signals>>

managerVars == <<frameServer, live, made, lastInit, doubleFree, handlers>>
countVars   == <<commands, signals>>

(* The places of the command thread.  In StartLocked it holds daqMutex_.   *)
StartLocked == {"start_join", "start_init", "start_spawn"}
DtorPlaces  == {"dtor_check", "dtor_stop", "dtor_join", "dtor_thread",
                "dtor_daq", "exited", "terminated"}
Places == {"idle", "start_lock", "stop_check", "stop_store", "stop_join",
           "stop_clear", "reset_clear", "reset_store", "reset_join",
           "reset_cleanup", "reset_init", "reset_spawn",
           "script_connect", "script_run", "script_wait"}
          \cup StartLocked \cup DtorPlaces

(* The places of the DAQ thread.                                           *)
LoopPlaces   == {"poll", "serve", "closing"}
AlivePlaces  == {"spawned", "unlock"} \cup LoopPlaces
ThreadPlaces == {"none", "done"} \cup AlivePlaces

(* Mutated form of DaqMutexFree: STOP_DAQ joins under daqMutex_ too.       *)
DaqMutexFreeStop == pc \notin StartLocked \cup {"stop_join"}

DaqMutexFree == pc \notin StartLocked

Joinable == thr # "none"

-----------------------------------------------------------------------------
(* GRAMS_TOF_DAQManager as the command thread uses it.                     *)

(* initialize(): the signal handlers first, then the listening socket, the *)
(* shared memory and the frame server.  "early" is a failure before the    *)
(* assignment of frameServer_ (socket, bind or listen; shared memory),     *)
(* "late" is createFrameServer returning NULL because the FPGA does not    *)
(* answer.  The former frame server is never deleted here.                 *)
Initialize(outcome) ==
  /\ handlers' = TRUE
  /\ lastInit' = outcome
  /\ UNCHANGED doubleFree
  /\ \/ /\ outcome = "early"
        /\ listening' \in BOOLEAN
        /\ UNCHANGED <<frameServer, live, made>>
     \/ /\ outcome = "late"
        /\ listening' = TRUE
        /\ frameServer' = 0
        /\ UNCHANGED <<live, made>>
     \/ /\ outcome = "ok"
        /\ listening' = TRUE
        /\ made' = made + 1
        /\ frameServer' = made + 1
        /\ live' = live \cup {made + 1}

(* cleanup(): deletes frameServer_ when it is not null and leaves the      *)
(* pointer as it is.                                                       *)
Cleanup ==
  /\ live' = live \ {frameServer}
  /\ doubleFree' = (doubleFree \/ (frameServer # 0 /\ frameServer \notin live))
  /\ lastInit' = "cleaned"
  /\ UNCHANGED <<frameServer, made, handlers>>

(* stop(): the only effect is on the flag.                                 *)
StopRequest == userStop' = TRUE

Goto(from, to) == pc = from /\ pc' = to

(* daqThread_.join() when joinable, nothing otherwise.                     *)
JoinThread == thr \in {"none", "done"} /\ thr' = "none"

(* Mutated form of SpawnThread: daqRunning_ is left to the new thread.     *)
SpawnThreadUnflagged(from) ==
  /\ pc = from
  /\ pc' = IF Joinable THEN "terminated" ELSE "idle"
  /\ thr' \in IF Joinable THEN {thr} ELSE {"spawned", "none"}
  /\ UNCHANGED daqRunning

(* daqThread_ = std::thread(runDAQThread): std::terminate when the thread  *)
(* object still holds a thread, and the constructor may throw, which       *)
(* leaves daqRunning_ set and makes the handler return false.              *)
SpawnThread(from) ==
  /\ pc = from
  /\ daqRunning' = TRUE
  /\ pc' = IF Joinable THEN "terminated" ELSE "idle"
  /\ thr' \in IF Joinable THEN {thr} ELSE {"spawned", "none"}

-----------------------------------------------------------------------------
(* A command arrives and dispatch() finds its handler.                     *)
Receive(place) ==
  /\ Goto("idle", place)
  /\ commands < MaxCommands
  /\ commands' = commands + 1
  /\ UNCHANGED <<thr, daqRunning, userStop, managerVars, listening, conn,
                 selfExit, signals>>

ReceiveStart  == Receive("start_lock")
ReceiveStop   == Receive("stop_check")
ReceiveReset  == Receive("reset_clear")
ReceiveScript == Receive("script_connect")

(* START_DAQ.  The handler keeps daqMutex_ from here to its end, across    *)
(* the join of the previous thread.                                        *)
StartLock ==
  /\ pc = "start_lock"
  /\ pc' = IF daqRunning THEN "idle" ELSE "start_join"
  /\ UNCHANGED <<thr, daqRunning, userStop, managerVars, listening, conn,
                 selfExit, countVars>>

StartJoin ==
  /\ Goto("start_join", "start_init")
  /\ JoinThread
  /\ UNCHANGED <<daqRunning, userStop, managerVars, listening, conn,
                 selfExit, countVars>>

StartInit ==
  /\ pc = "start_init"
  /\ \E outcome \in {"early", "late", "ok"} :
       /\ Initialize(outcome)
       /\ pc' = IF outcome = "ok" THEN "start_spawn" ELSE "idle"
  /\ UNCHANGED <<thr, daqRunning, userStop, conn, selfExit, countVars>>

StartSpawn ==
  /\ SpawnThread("start_spawn")
  /\ UNCHANGED <<userStop, managerVars, listening, conn, selfExit, countVars>>

(* Mutated forms of STOP_DAQ: the thread is not joined; the manager is     *)
(* cleaned up as in RESET_DAQ.                                             *)
StopJoinNothing ==
  /\ Goto("stop_join", "stop_clear")
  /\ UNCHANGED <<thr, daqRunning, userStop, managerVars, listening, conn,
                 selfExit, countVars>>

StopClearCleanup ==
  /\ Goto("stop_clear", "idle")
  /\ daqRunning' = FALSE
  /\ Cleanup
  /\ UNCHANGED <<thr, userStop, listening, conn, selfExit, countVars>>

(* STOP_DAQ.                                                               *)
StopCheck ==
  /\ pc = "stop_check"
  /\ pc' = IF daqRunning THEN "stop_store" ELSE "idle"
  /\ UNCHANGED <<thr, daqRunning, userStop, managerVars, listening, conn,
                 selfExit, countVars>>

StopStore ==
  /\ Goto("stop_store", "stop_join")
  /\ StopRequest
  /\ UNCHANGED <<thr, daqRunning, managerVars, listening, conn, selfExit,
                 countVars>>

StopJoin ==
  /\ Goto("stop_join", "stop_clear")
  /\ JoinThread
  /\ UNCHANGED <<daqRunning, userStop, managerVars, listening, conn,
                 selfExit, countVars>>

StopClear ==
  /\ Goto("stop_clear", "idle")
  /\ daqRunning' = FALSE
  /\ UNCHANGED <<thr, userStop, managerVars, listening, conn, selfExit,
                 countVars>>

(* Mutated forms of RESET_DAQ: cleanup() comes before the join; the thread *)
(* is not joined.                                                          *)
ResetStoreCleanup ==
  /\ Goto("reset_store", "reset_join")
  /\ StopRequest
  /\ Cleanup
  /\ UNCHANGED <<thr, daqRunning, listening, conn, selfExit, countVars>>

ResetJoinNothing ==
  /\ Goto("reset_join", "reset_cleanup")
  /\ UNCHANGED <<thr, daqRunning, userStop, managerVars, listening, conn,
                 selfExit, countVars>>

(* RESET_DAQ: also when no DAQ loop was started.                           *)
ResetClear ==
  /\ Goto("reset_clear", "reset_store")
  /\ daqRunning' = FALSE
  /\ UNCHANGED <<thr, userStop, managerVars, listening, conn, selfExit,
                 countVars>>

ResetStore ==
  /\ Goto("reset_store", "reset_join")
  /\ StopRequest
  /\ UNCHANGED <<thr, daqRunning, managerVars, listening, conn, selfExit,
                 countVars>>

ResetJoin ==
  /\ Goto("reset_join", "reset_cleanup")
  /\ JoinThread
  /\ UNCHANGED <<daqRunning, userStop, managerVars, listening, conn,
                 selfExit, countVars>>

ResetCleanup ==
  /\ Goto("reset_cleanup", "reset_init")
  /\ Cleanup
  /\ UNCHANGED <<thr, daqRunning, userStop, listening, conn, selfExit,
                 countVars>>

ResetInit ==
  /\ pc = "reset_init"
  /\ \E outcome \in {"early", "late", "ok"} :
       /\ Initialize(outcome)
       /\ pc' = IF outcome = "ok" THEN "reset_spawn" ELSE "idle"
  /\ UNCHANGED <<thr, daqRunning, userStop, conn, selfExit, countVars>>

ResetSpawn ==
  /\ SpawnThread("reset_spawn")
  /\ UNCHANGED <<userStop, managerVars, listening, conn, selfExit, countVars>>

-----------------------------------------------------------------------------
(* A script command: the script connects to the DAQ service, sends         *)
(* requests and waits for each reply without a timeout.  The kernel        *)
(* completes connect() when the socket listens, whether or not the DAQ     *)
(* loop accepts.  A closed connection raises an exception in the script.   *)
ScriptConnect ==
  /\ pc = "script_connect"
  /\ \/ /\ listening
        /\ pc' = "script_wait"
        /\ conn' = "backlog"
     \/ /\ ~listening
        /\ pc' = "idle"
        /\ UNCHANGED conn
  /\ UNCHANGED <<thr, daqRunning, userStop, managerVars, listening, selfExit,
                 countVars>>

ScriptAsk ==
  /\ Goto("script_run", "script_wait")
  /\ UNCHANGED <<thr, daqRunning, userStop, managerVars, listening, conn,
                 selfExit, countVars>>

ScriptEnd ==
  /\ \/ Goto("script_run", "idle")
     \/ Goto("script_wait", "idle") /\ conn = "closed"
  /\ conn' = "none"
  /\ UNCHANGED <<thr, daqRunning, userStop, managerVars, listening, selfExit,
                 countVars>>

-----------------------------------------------------------------------------
(* The DAQ thread.                                                         *)

(* run(): nothing without a frame server, otherwise the stop flag is       *)
(* cleared, whoever set it, and the loop is set up; epoll_create or        *)
(* epoll_ctl may fail.                                                     *)
ThreadRun ==
  /\ thr = "spawned"
  /\ thr' \in IF frameServer = 0 THEN {"unlock"} ELSE {"poll", "unlock"}
  /\ userStop' = (userStop /\ frameServer = 0)
  /\ selfExit' = (selfExit \/ thr' = "unlock")
  /\ UNCHANGED <<pc, daqRunning, managerVars, listening, conn, countVars>>

(* The condition of the loop.                                              *)
ThreadLoop ==
  /\ thr = "poll"
  /\ thr' = IF userStop THEN "closing" ELSE "serve"
  /\ UNCHANGED <<pc, daqRunning, userStop, managerVars, listening, conn,
                 selfExit, countVars>>

(* One iteration: epoll_pwait times out, or a connection is accepted, or a *)
(* request is handled by frameServer_ and answered, or the connection is   *)
(* closed: it cannot be watched, handleRequest() fails, or an error is     *)
(* reported for it.  accept() itself succeeds.                             *)
ThreadServe ==
  /\ thr = "serve"
  /\ thr' = "poll"
  /\ \/ conn # "backlog" /\ (pc = "script_wait" => conn = "closed") /\ UNCHANGED <<pc, conn>>
     \/ conn = "backlog" /\ conn' = "accepted" /\ UNCHANGED pc
     \/ conn = "accepted" /\ Goto("script_wait", "script_run") /\ UNCHANGED conn
     \/ conn \in {"backlog", "accepted"} /\ conn' = "closed" /\ UNCHANGED pc
  /\ UNCHANGED <<daqRunning, userStop, managerVars, listening, selfExit,
                 countVars>>

(* The clients of the loop are destroyed; a connection still in the        *)
(* backlog of the listening socket stays there.                            *)
ThreadClose ==
  /\ thr = "closing"
  /\ thr' = "unlock"
  /\ conn' = IF conn = "accepted" THEN "closed" ELSE conn
  /\ UNCHANGED <<pc, daqRunning, userStop, managerVars, listening, selfExit,
                 countVars>>

(* The last critical section of runDAQThread().                            *)
ThreadEnd ==
  /\ thr = "unlock"
  /\ DaqMutexFree
  /\ thr' = "done"
  /\ daqRunning' = FALSE
  /\ UNCHANGED <<pc, userStop, managerVars, listening, conn, selfExit,
                 countVars>>

(* catchUserStop.                                                          *)
Signal ==
  /\ handlers
  /\ signals < MaxSignals
  /\ pc \notin {"exited", "terminated"}
  /\ signals' = signals + 1
  /\ userStop' = TRUE
  /\ selfExit' = TRUE
  /\ UNCHANGED <<pc, thr, daqRunning, managerVars, listening, conn, commands>>

-----------------------------------------------------------------------------
(* Enter was pressed: the controller stopped the command client, which     *)
(* joined the command thread, and the members are destroyed in order, the  *)
(* dispatch table before the DAQ manager.                                  *)
Shutdown ==
  /\ Goto("idle", "dtor_check")
  /\ UNCHANGED <<thr, daqRunning, userStop, managerVars, listening, conn,
                 selfExit, countVars>>

DtorCheck ==
  /\ pc = "dtor_check"
  /\ pc' = IF daqRunning THEN "dtor_stop" ELSE "dtor_thread"
  /\ UNCHANGED <<thr, daqRunning, userStop, managerVars, listening, conn,
                 selfExit, countVars>>

DtorStop ==
  /\ Goto("dtor_stop", "dtor_join")
  /\ StopRequest
  /\ UNCHANGED <<thr, daqRunning, managerVars, listening, conn, selfExit,
                 countVars>>

DtorJoin ==
  /\ Goto("dtor_join", "dtor_thread")
  /\ JoinThread
  /\ UNCHANGED <<daqRunning, userStop, managerVars, listening, conn,
                 selfExit, countVars>>

(* The destructor of the member daqThread_.                                *)
DtorThread ==
  /\ pc = "dtor_thread"
  /\ pc' = IF Joinable THEN "terminated" ELSE "dtor_daq"
  /\ UNCHANGED <<thr, daqRunning, userStop, managerVars, listening, conn,
                 selfExit, countVars>>

(* The destructor of GRAMS_TOF_DAQManager: stop() and cleanup().           *)
DtorDaq ==
  /\ Goto("dtor_daq", "exited")
  /\ StopRequest
  /\ Cleanup
  /\ UNCHANGED <<thr, daqRunning, listening, conn, selfExit, countVars>>

-----------------------------------------------------------------------------
(* main(): with an FPGA the process goes on only if initialize() succeeds; *)
(* with --no-fpga it is skipped, and there is no frame server yet.         *)
Init ==
  /\ pc = "idle"
  /\ thr = "none"
  /\ daqRunning = FALSE
  /\ userStop = FALSE
  /\ made \in {0, 1}
  /\ frameServer = made
  /\ live = 1..made
  /\ lastInit = IF made = 1 THEN "ok" ELSE "late"
  /\ doubleFree = FALSE
  /\ listening = (made = 1)
  /\ conn = "none"
  /\ handlers = (made = 1)
  /\ selfExit = FALSE
  /\ commands = 0
  /\ signals = 0

Hub == ReceiveStart \/ ReceiveStop \/ ReceiveReset \/ ReceiveScript \/ Shutdown

Handler ==
  \/ StartLock \/ StartJoin \/ StartInit \/ StartSpawn
  \/ StopCheck \/ StopStore \/ StopJoin \/ StopClear
  \/ ResetClear \/ ResetStore \/ ResetJoin
  \/ ResetCleanup \/ ResetInit \/ ResetSpawn
  \/ ScriptConnect \/ ScriptAsk \/ ScriptEnd
  \/ DtorCheck \/ DtorStop \/ DtorJoin \/ DtorThread \/ DtorDaq

DaqThread ==
  /\ pc # "terminated"
  /\ ThreadRun \/ ThreadLoop \/ ThreadServe \/ ThreadClose \/ ThreadEnd

(* The process is gone; nothing moves any more.                            *)
Finished ==
  /\ pc \in {"exited", "terminated"}
  /\ UNCHANGED vars

Next == Hub \/ Handler \/ DaqThread \/ Signal \/ Finished

(* Neither thread is descheduled for ever, and a script does not ask       *)
(* questions for ever.  The hub, the operator and the signals are free.    *)
Fairness ==
  /\ WF_vars(Handler)
  /\ WF_vars(DaqThread)
  /\ SF_vars(ScriptEnd)

Spec     == Init /\ [][Next]_vars
FairSpec == Spec /\ Fairness

-----------------------------------------------------------------------------
TypeOK ==
  /\ pc \in Places
  /\ thr \in ThreadPlaces
  /\ daqRunning \in BOOLEAN
  /\ userStop \in BOOLEAN
  /\ made \in Nat
  /\ frameServer \in 0..made
  /\ live \subseteq 1..made
  /\ lastInit \in {"early", "late", "ok", "cleaned"}
  /\ doubleFree \in BOOLEAN
  /\ listening \in BOOLEAN
  /\ conn \in {"none", "backlog", "accepted", "closed"}
  /\ handlers \in BOOLEAN
  /\ selfExit \in BOOLEAN
  /\ commands \in 0..MaxCommands
  /\ signals \in 0..MaxSignals

(* START_DAQ joins the previous thread while it holds daqMutex_ (dispatch, *)
(* lines 17-23), and that thread takes daqMutex_ last: the join must only  *)
(* ever meet a thread that is past its last critical section, or the two   *)
(* wait for each other for ever.                                           *)
StartJoinsFinishedThread ==
  pc = "start_join" => thr \in {"none", "done"}

(* The DAQ loop hands frameServer_ to its clients: the object is one that  *)
(* cleanup() has not deleted, whatever STOP, START and RESET did before,   *)
(* and none of them succeeded or failed in a way that replaced it.         *)
LoopUsesLiveServer ==
  thr \in LoopPlaces => frameServer \in live

(* Between two commands daqRunning_ tells whether a DAQ loop may still be  *)
(* running: START_DAQ and the destructor decide on nothing else.           *)
FlagTellsLoop ==
  pc = "idle" /\ thr \in AlivePlaces => daqRunning

(* std::terminate (a std::thread assigned or destroyed while joinable) is  *)
(* out of reach of the commands: it takes a signal, or a failure to set up *)
(* the loop, which end the thread without anyone joining it.               *)
TerminateOnlyAfterSelfExit ==
  pc = "terminated" => selfExit

(* cleanup() never clears frameServer_, so it may delete an object twice:  *)
(* but only when the initialize() that followed the first deletion failed  *)
(* before it reached the assignment of frameServer_.                       *)
DoubleFreeOnlyAfterFailedInit ==
  [][doubleFree' # doubleFree => lastInit = "early"]_vars

(* A stop request that came before the new thread reached run(), which     *)
(* cleared it: the loop goes on and the handler waits for it.              *)
StopLost ==
  pc \in {"stop_join", "reset_join", "dtor_join"} /\ thr \in LoopPlaces /\ ~userStop

(* A script that connected to the listening socket when no loop served it: *)
(* its recv() has no timeout.                                              *)
NobodyServes == pc = "script_wait" /\ thr \notin AlivePlaces

(* Every command, and the shutdown, ends, and the next one is read, but for*)
(* the two ways to hang above.                                             *)
CommandsEnd ==
  pc # "idle" ~> (pc \in {"idle", "exited", "terminated"} \/ StopLost \/ NobodyServes)

(* What STOP_DAQ and RESET_DAQ rely on: the comment at the call of stop()  *)
(* in RESET_DAQ says that it signals the loop to end.                      *)
StopEndsLoop ==
  pc \in {"stop_join", "reset_join"} ~> thr \in {"none", "done"}
=============================================================================
