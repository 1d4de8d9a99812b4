-------------------------- MODULE DaqControlProofs --------------------------
(***************************************************************************)
(* The safety properties of DaqControl, for every number of commands and   *)
(* signals, with and without an FPGA, whatever the hub's patience.         *)
(***************************************************************************)
EXTENDS DaqControl, TLAPS

(* The inductive invariant behind the safety properties of DaqControl: the *)
(* places where no thread may be left; what daqRunning_ tells and when it  *)
(* is false; what frameServer_ points to; and which handler is waiting     *)
(* when the loop was told to end and no signal arrived.                    *)
ThreadGonePlaces ==
  {"start_init", "start_spawn", "stop_clear", "reset_cleanup", "reset_init",
   "reset_spawn", "dtor_daq", "exited"}

JoinPlaces == {"stop_join", "reset_join", "dtor_join"}

ThreadGone  ==
  /\ pc \in ThreadGonePlaces => thr = "none"
  /\ pc = "dtor_thread" => thr \notin AlivePlaces
FlagHonest  == pc \notin {"reset_store", "reset_join", "terminated"}
                 => (thr \in AlivePlaces => daqRunning)
FlagCleared == pc \in StartLocked => ~daqRunning
ServerLive  ==
  /\ thr \in AlivePlaces \/ pc \in {"start_spawn", "reset_spawn"}
       => frameServer \in live
  /\ frameServer \in live \cup {0} \/ lastInit \in {"cleaned", "early"}
  /\ lastInit = "cleaned" => pc \in {"reset_init", "exited"}
EndedByStop ==
  /\ ~selfExit /\ userStop /\ thr \in {"poll", "serve"} => pc \in JoinPlaces
  /\ ~selfExit /\ thr \in {"closing", "unlock", "done"}  => pc \in JoinPlaces

IInv ==
  /\ TypeOK
  /\ ThreadGone
  /\ FlagHonest
  /\ FlagCleared
  /\ ServerLive
  /\ EndedByStop
  /\ TerminateOnlyAfterSelfExit

USE DaqControlAssumption

-----------------------------------------------------------------------------
(* The initial states satisfy the invariant.                               *)
LEMMA InitIInv == Init => IInv
<1> USE DEF Init, IInv, TypeOK, ThreadGone, FlagHonest, FlagCleared, ServerLive,
            EndedByStop, TerminateOnlyAfterSelfExit, Places, ThreadPlaces,
            AlivePlaces, LoopPlaces, StartLocked, DtorPlaces, ThreadGonePlaces,
            JoinPlaces
<1> SUFFICES ASSUME Init PROVE IInv
  OBVIOUS
<1>1. /\ daqRunning \in BOOLEAN /\ userStop \in BOOLEAN /\ doubleFree \in BOOLEAN
      /\ listening \in BOOLEAN /\ handlers \in BOOLEAN /\ selfExit \in BOOLEAN
  BY Zenon
<1>2. /\ made \in Nat /\ frameServer \in 0..made /\ live \subseteq 1..made
      /\ frameServer \in live \cup {0}
      /\ commands \in 0..MaxCommands /\ signals \in 0..MaxSignals
  BY SMT
<1>3. /\ pc = "idle" /\ thr = "none" /\ userStop = FALSE /\ conn = "none"
      /\ lastInit \in {"late", "ok"}
  BY Zenon
<1>4. QED
  BY <1>1, <1>2, <1>3

(* initialize(), however it ends, keeps the types of what it assigns.      *)
LEMMA InitializeTypes ==
  ASSUME TypeOK, NEW outcome \in {"early", "late", "ok"}, Initialize(outcome)
  PROVE  /\ made' \in Nat /\ frameServer' \in 0..made' /\ live' \subseteq 1..made'
         /\ handlers' \in BOOLEAN /\ listening' \in BOOLEAN /\ doubleFree' \in BOOLEAN
         /\ lastInit' \in {"early", "late", "ok", "cleaned"}
<1>1. made \in Nat /\ frameServer \in 0..made /\ live \subseteq 1..made
  BY DEF TypeOK
<1>2. \/ UNCHANGED <<frameServer, live, made>>
      \/ frameServer' = 0 /\ UNCHANGED <<live, made>>
      \/ made' = made + 1 /\ frameServer' = made + 1 /\ live' = live \cup {made + 1}
  BY Zenon DEF Initialize
<1>3. made' \in Nat /\ frameServer' \in 0..made' /\ live' \subseteq 1..made'
  <2>1. CASE UNCHANGED <<frameServer, live, made>>
    BY <1>1, <2>1
  <2>2. CASE frameServer' = 0 /\ UNCHANGED <<live, made>>
    BY <1>1, <2>2
  <2>3. CASE /\ made' = made + 1 /\ frameServer' = made + 1
             /\ live' = live \cup {made + 1}
    <3>1. made' \in Nat /\ frameServer' \in 0..made'
      BY <1>1, <2>3
    <3>2. live' \subseteq 1..made'
      BY <1>1, <2>3
    <3>3. QED
      BY <3>1, <3>2
  <2>4. QED
    BY <1>2, <2>1, <2>2, <2>3
<1>4. handlers' \in BOOLEAN /\ listening' \in BOOLEAN /\ doubleFree' \in BOOLEAN
  BY Zenon DEF Initialize, TypeOK
<1>5. lastInit' \in {"early", "late", "ok", "cleaned"}
  BY DEF Initialize
<1>6. QED
  BY <1>3, <1>4, <1>5

(* Every step of the command thread, the DAQ thread, the hub and the       *)
(* signals keeps the types.                                                *)
LEMMA NextTypeOK == TypeOK /\ [Next]_vars => TypeOK'
<1> SUFFICES ASSUME TypeOK, [Next]_vars PROVE TypeOK'
  OBVIOUS
<1> USE DEF TypeOK, Places, ThreadPlaces, AlivePlaces, LoopPlaces,
            StartLocked, DtorPlaces, managerVars, countVars, Goto
<1>1. CASE ReceiveStart
  BY <1>1 DEF ReceiveStart, Receive
<1>2. CASE ReceiveStop
  BY <1>2 DEF ReceiveStop, Receive
<1>3. CASE ReceiveReset
  BY <1>3 DEF ReceiveReset, Receive
<1>4. CASE ReceiveScript
  BY <1>4 DEF ReceiveScript, Receive
<1>5. CASE Shutdown
  BY <1>5 DEF Shutdown
<1>6. CASE StartLock
  BY <1>6 DEF StartLock
<1>7. CASE StartJoin
  BY <1>7 DEF StartJoin, JoinThread
<1>8. CASE StartInit
  <2>1. PICK outcome \in {"early", "late", "ok"} : Initialize(outcome)
    BY <1>8 DEF StartInit
  <2>2. pc' \in Places /\ UNCHANGED <<thr, daqRunning, userStop, conn, selfExit, countVars>>
    BY <1>8 DEF StartInit
  <2>3. QED
    BY <2>1, <2>2, InitializeTypes
<1>9. CASE StartSpawn
  BY <1>9 DEF StartSpawn, SpawnThread, Joinable
<1>10. CASE StopCheck
  BY <1>10 DEF StopCheck
<1>11. CASE StopStore
  BY <1>11 DEF StopStore, StopRequest
<1>12. CASE StopJoin
  BY <1>12 DEF StopJoin, JoinThread
<1>13. CASE StopClear
  <2>1. /\ pc' = "idle" /\ daqRunning' = FALSE
        /\ UNCHANGED <<thr, userStop, managerVars, listening, conn, selfExit,
                       countVars>>
    BY <1>13, Zenon DEF StopClear
  <2>2. pc' \in Places /\ daqRunning' \in BOOLEAN
    BY <2>1
  <2>3. QED
    BY <2>1, <2>2
<1>14. CASE ResetClear
  <2>1. /\ pc' = "reset_store" /\ daqRunning' = FALSE
        /\ UNCHANGED <<thr, userStop, managerVars, listening, conn, selfExit,
                       countVars>>
    BY <1>14, Zenon DEF ResetClear
  <2>2. pc' \in Places /\ daqRunning' \in BOOLEAN
    BY <2>1
  <2>3. QED
    BY <2>1, <2>2
<1>15. CASE ResetStore
  BY <1>15 DEF ResetStore, StopRequest
<1>16. CASE ResetJoin
  BY <1>16 DEF ResetJoin, JoinThread
<1>17. CASE ResetCleanup
  BY <1>17 DEF ResetCleanup, Cleanup
<1>18. CASE ResetInit
  <2>1. PICK outcome \in {"early", "late", "ok"} : Initialize(outcome)
    BY <1>18 DEF ResetInit
  <2>2. pc' \in Places /\ UNCHANGED <<thr, daqRunning, userStop, conn, selfExit, countVars>>
    BY <1>18 DEF ResetInit
  <2>3. QED
    BY <2>1, <2>2, InitializeTypes
<1>19. CASE ResetSpawn
  BY <1>19 DEF ResetSpawn, SpawnThread, Joinable
<1>20. CASE ScriptConnect
  BY <1>20 DEF ScriptConnect
<1>21. CASE ScriptAsk
  BY <1>21 DEF ScriptAsk
<1>22. CASE ScriptEnd
  BY <1>22 DEF ScriptEnd
<1>23. CASE DtorCheck
  BY <1>23 DEF DtorCheck
<1>24. CASE DtorStop
  BY <1>24 DEF DtorStop, StopRequest
<1>25. CASE DtorJoin
  BY <1>25 DEF DtorJoin, JoinThread
<1>26. CASE DtorThread
  BY <1>26 DEF DtorThread, Joinable
<1>27. CASE DtorDaq
  BY <1>27 DEF DtorDaq, Cleanup, StopRequest
<1>28. CASE ThreadRun
  BY <1>28 DEF ThreadRun
<1>29. CASE ThreadLoop
  BY <1>29 DEF ThreadLoop
<1>30. CASE ThreadServe
  BY <1>30 DEF ThreadServe
<1>31. CASE ThreadClose
  BY <1>31 DEF ThreadClose
<1>32. CASE ThreadEnd
  <2>1. /\ thr' = "done" /\ daqRunning' = FALSE
        /\ UNCHANGED <<pc, userStop, managerVars, listening, conn, selfExit,
                       countVars>>
    BY <1>32 DEF ThreadEnd
  <2>2. thr' \in ThreadPlaces /\ daqRunning' \in BOOLEAN
    BY <2>1
  <2>3. QED
    BY <2>1, <2>2
<1>33. CASE Signal
  BY <1>33 DEF Signal
<1>34. CASE UNCHANGED vars
  BY <1>34 DEF vars
<1>35. QED
  BY <1>1, <1>2, <1>3, <1>4, <1>5, <1>6, <1>7, <1>8, <1>9, <1>10, <1>11, <1>12, <1>13, <1>14, <1>15, <1>16, <1>17, <1>18, <1>19, <1>20, <1>21, <1>22, <1>23, <1>24, <1>25, <1>26, <1>27, <1>28, <1>29, <1>30, <1>31, <1>32, <1>33, <1>34
     DEF Next, Hub, Handler, DaqThread, Finished

(* The same for the other parts of the invariant.                          *)
LEMMA NextIInv == IInv /\ [Next]_vars => IInv'
<1> SUFFICES ASSUME IInv, [Next]_vars PROVE IInv'
  OBVIOUS
<1> USE DEF ThreadPlaces, AlivePlaces, LoopPlaces, StartLocked,
            ThreadGonePlaces, JoinPlaces, managerVars, countVars, Goto
<1>0. TypeOK /\ TypeOK'
  BY NextTypeOK DEF IInv
<1> DEFINE Parts == ThreadGone /\ FlagHonest /\ FlagCleared /\ ServerLive
                      /\ EndedByStop /\ TerminateOnlyAfterSelfExit
<1>00. Parts
  BY DEF IInv
<1> SUFFICES Parts'
  BY <1>0 DEF IInv
<1> USE <1>0, <1>00 DEF TypeOK, ThreadGone, FlagHonest, FlagCleared,
        ServerLive, EndedByStop, TerminateOnlyAfterSelfExit
<1>1. CASE ReceiveStart
  BY <1>1 DEF ReceiveStart, Receive
<1>2. CASE ReceiveStop
  BY <1>2 DEF ReceiveStop, Receive
<1>3. CASE ReceiveReset
  BY <1>3 DEF ReceiveReset, Receive
<1>4. CASE ReceiveScript
  BY <1>4 DEF ReceiveScript, Receive
<1>5. CASE Shutdown
  BY <1>5 DEF Shutdown
<1>6. CASE StartLock
  BY <1>6 DEF StartLock
<1>7. CASE StartJoin
  BY <1>7 DEF StartJoin, JoinThread
<1>8. CASE StartInit
  BY <1>8 DEF StartInit, Initialize
<1>9. CASE StartSpawn
  BY <1>9 DEF StartSpawn, SpawnThread, Joinable
<1>10. CASE StopCheck
  BY <1>10 DEF StopCheck
<1>11. CASE StopStore
  BY <1>11 DEF StopStore, StopRequest
<1>12. CASE StopJoin
  BY <1>12 DEF StopJoin, JoinThread
<1>13. CASE StopClear
  BY <1>13 DEF StopClear
<1>14. CASE ResetClear
  BY <1>14 DEF ResetClear
<1>15. CASE ResetStore
  BY <1>15 DEF ResetStore, StopRequest
<1>16. CASE ResetJoin
  BY <1>16 DEF ResetJoin, JoinThread
<1>17. CASE ResetCleanup
  BY <1>17 DEF ResetCleanup, Cleanup
<1>18. CASE ResetInit
  BY <1>18 DEF ResetInit, Initialize
<1>19. CASE ResetSpawn
  BY <1>19 DEF ResetSpawn, SpawnThread, Joinable
<1>20. CASE ScriptConnect
  BY <1>20 DEF ScriptConnect
<1>21. CASE ScriptAsk
  BY <1>21 DEF ScriptAsk
<1>22. CASE ScriptEnd
  BY <1>22 DEF ScriptEnd
<1>23. CASE DtorCheck
  BY <1>23 DEF DtorCheck
<1>24. CASE DtorStop
  BY <1>24 DEF DtorStop, StopRequest
<1>25. CASE DtorJoin
  BY <1>25 DEF DtorJoin, JoinThread
<1>26. CASE DtorThread
  BY <1>26 DEF DtorThread, Joinable
<1>27. CASE DtorDaq
  BY <1>27 DEF DtorDaq, Cleanup, StopRequest
<1>28. CASE ThreadRun
  BY <1>28 DEF ThreadRun
<1>29. CASE ThreadLoop
  BY <1>29 DEF ThreadLoop
<1>30. CASE ThreadServe
  BY <1>30 DEF ThreadServe
<1>31. CASE ThreadClose
  BY <1>31 DEF ThreadClose
<1>32. CASE ThreadEnd
  BY <1>32 DEF ThreadEnd, DaqMutexFree
<1>33. CASE Signal
  BY <1>33 DEF Signal
<1>34. CASE UNCHANGED vars
  BY <1>34 DEF vars
<1>35. QED
  BY <1>1, <1>2, <1>3, <1>4, <1>5, <1>6, <1>7, <1>8, <1>9, <1>10, <1>11, <1>12, <1>13, <1>14, <1>15, <1>16, <1>17, <1>18, <1>19, <1>20, <1>21, <1>22, <1>23, <1>24, <1>25, <1>26, <1>27, <1>28, <1>29, <1>30, <1>31, <1>32, <1>33, <1>34
     DEF Next, Hub, Handler, DaqThread, Finished

(* The inductive invariant holds in every reachable state.                 *)
THEOREM Invariance == Spec => []IInv
<1>1. Init => IInv
  BY InitIInv
<1>2. IInv /\ [Next]_vars => IInv'
  BY NextIInv
<1>3. QED
  BY <1>1, <1>2, PTL DEF Spec

(* Types of the state of the dispatch table and the DAQ manager.           *)
THEOREM TypeCorrect == Spec => []TypeOK
<1>1. IInv => TypeOK
  BY DEF IInv
<1>2. QED
  BY <1>1, Invariance, PTL

(* START_DAQ never joins, under daqMutex_, a thread that still needs it.   *)
THEOREM StartJoinSafe == Spec => []StartJoinsFinishedThread
<1>1. IInv => StartJoinsFinishedThread
  BY DEF IInv, TypeOK, FlagHonest, FlagCleared, StartJoinsFinishedThread,
         StartLocked, ThreadPlaces, AlivePlaces, LoopPlaces
<1>2. QED
  BY <1>1, Invariance, PTL

(* The loop never runs on a deleted or a null frame server.                *)
THEOREM LoopServerSafe == Spec => []LoopUsesLiveServer
<1>1. IInv => LoopUsesLiveServer
  BY DEF IInv, ServerLive, LoopUsesLiveServer, AlivePlaces
<1>2. QED
  BY <1>1, Invariance, PTL

(* daqRunning_ is set while a loop may run and no command is in progress.  *)
THEOREM FlagCorrect == Spec => []FlagTellsLoop
<1>1. IInv => FlagTellsLoop
  BY DEF IInv, FlagHonest, FlagTellsLoop
<1>2. QED
  BY <1>1, Invariance, PTL

(* Commands alone never bring the process to std::terminate.               *)
THEOREM TerminateCause == Spec => []TerminateOnlyAfterSelfExit
<1>1. IInv => TerminateOnlyAfterSelfExit
  BY DEF IInv
<1>2. QED
  BY <1>1, Invariance, PTL

(* The second deletion of a frame server needs a failed re-initialization. *)
THEOREM DoubleFreeCause == Spec => DoubleFreeOnlyAfterFailedInit
<1>1. IInv /\ [Next]_vars => [doubleFree' # doubleFree => lastInit = "early"]_vars
  <2> SUFFICES ASSUME IInv, Next, doubleFree' # doubleFree
               PROVE  lastInit = "early"
    OBVIOUS
  <2>1. ResetCleanup \/ DtorDaq
    BY DEF Next, Hub, Handler, DaqThread, Finished, managerVars, vars, ReceiveStart,
           ReceiveStop, ReceiveReset, ReceiveScript, Receive, Shutdown,
           StartLock, StartJoin, StartInit, StartSpawn, StopCheck, StopStore,
           StopJoin, StopClear, ResetClear, ResetStore, ResetJoin, ResetInit,
           ResetSpawn, ScriptConnect, ScriptAsk, ScriptEnd, DtorCheck,
           DtorStop, DtorJoin, DtorThread, ThreadRun, ThreadLoop,
           ThreadServe, ThreadClose, ThreadEnd, Signal, Initialize
  <2>2. pc \in {"reset_cleanup", "dtor_daq"}
    BY <2>1 DEF ResetCleanup, DtorDaq, Goto
  <2>3. frameServer # 0 /\ frameServer \notin live
    BY <2>1 DEF ResetCleanup, DtorDaq, Cleanup, IInv, TypeOK
  <2>4. QED
    BY <2>2, <2>3 DEF IInv, ServerLive
<1>2. QED
  BY <1>1, Invariance, PTL DEF Spec, DoubleFreeOnlyAfterFailedInit
=============================================================================
