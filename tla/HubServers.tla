----------------------------- MODULE HubServers -----------------------------
(***************************************************************************)
(* The server side that grams_tof_server_daq runs: GRAMS_TOF_CommandServer *)
(* accepts hubs and runs their commands, GRAMS_TOF_EventServer accepts     *)
(* listeners and sends them a CALLBACK after each command and a HEART_BEAT *)
(* now and then.  Four threads meet in the event server's client list (its *)
(* run(), heartbeatLoop(), send() on the command server's thread, stop()   *)
(* on the main thread), and both servers in the one registry of client     *)
(* descriptors, which is kept by number.                                   *)
(*                                                                         *)
(* A connection and the GRAMS_TOF_Client made for it have one name.  run(),*)
(* send() and heartbeatLoop() keep pointers to clients that another thread *)
(* may destroy: a use of such a pointer ends the program, reads or writes  *)
(* a client that is closed, or the one that now has the memory.            *)
(***************************************************************************)
EXTENDS Integers, FiniteSets, FiniteSetsExt

CONSTANTS
  NFds,         (* descriptors left for connections, a bound               *)
  MaxHubs,      (* connections to the command server, a bound              *)
  MaxListeners, (* connections to the event server, a bound                *)
  MaxCommands   (* commands received, a bound                              *)

ASSUME HubServersAssumption ==
  /\ NFds \in Nat \ {0} /\ MaxCommands \in Nat
  /\ MaxHubs \in Nat /\ MaxListeners \in Nat

Servers == {"command", "event"}
Senders == {"command", "heartbeat"}
Threads == Servers \cup Senders \cup {"main"}
Fds     == 1..NFds
Conns   == 1..MaxHubs + MaxListeners
NoFd    == -1
None    == 0
NoOne   == "none"
Nothing == [fd |-> NoFd, c |-> None]

VARIABLES
  conn,         (* the connection each number refers to in the kernel      *)
  clientFDs,    (* the numbers in GRAMS_TOF_FDManager                      *)
  home,         (* the server that accepted a connection                   *)
  failing,      (* those whose other end went away or stopped reading: a   *)
                (* send or a read may go either way                        *)
  got,          (* connections that brought over the CALLBACK sent now     *)
  fd,           (* fd_ of each client                                      *)
  place,        (* the first client that had the memory of a client        *)
  list,         (* clientList_ of each server                              *)
  mutex,        (* the sender inside clientListMutex_ of the event server  *)
  running,      (* running_ of each server                                 *)
  pc,           (* where each thread is                                    *)
  hand,         (* the entry of the list it works on: number and client    *)
  num,          (* the number it closes                                    *)
  copy,         (* clientsCopy of each sender                              *)
  commands,     (* commands received                                       *)
  audience,     (* the clients in the copy of the last send()              *)
  ok,           (* success of send()                                       *)
  struck,       (* history: connections whose client lost its number to the*)
                (* close of the client that had its memory before          *)
  fault         (* what ended the process: the pointer to a destroyed      *)
                (* client, or the argument that an acknowledgement lacks   *)

netVars    == <<conn, home, failing, got>>
clientVars == <<fd, place, list, struck>>
sendVars   == <<copy, audience, ok>>
vars == <<netVars, clientFDs, clientVars, mutex, running, pc, hand, num,
          sendVars, commands, fault>>

Empty == [f \in Fds |-> None]
InList(l) == {f \in Fds : l[f] # None}
ClientsOf(l) == {l[f] : f \in InList(l)}
Connected(c) == \E f \in Fds : conn[f] = c
crashed == fault # NoOne

Goto(t, from, to) ==
  /\ ~crashed
  /\ pc[t] = from
  /\ pc' = [pc EXCEPT ![t] = to]

(* clientListMutex_ of s is free; only run() and stop() use that of the    *)
(* command server, one after the other.                                    *)
Unlocked(s) == s = "event" => mutex = NoOne

(* Nothing that thread t still has in its hand matters any more.           *)
Release(t) == hand' = [hand EXCEPT ![t] = Nothing]

-----------------------------------------------------------------------------
(* The registry and the clients.                                           *)

(* The lists own the clients: one that is in none of them was destroyed.   *)
Alive == UNION {ClientsOf(list[s]) : s \in Servers}

(* What a pointer to client c leads to: None is a client that is closed.   *)
Reached(c) ==
  IF c \in Alive \cup {None} THEN {c}
  ELSE {None} \cup {d \in Alive : place[d] = place[c]}

(* The memory of destroyed clients that no other has since; only that which*)
(* a thread still points to tells itself from new memory.                  *)
Pointed == {hand[t].c : t \in Threads} \cup UNION {ClientsOf(copy[t]) : t \in Senders}
Freed ==
  {place[c] : c \in Pointed \ (Alive \cup {None})} \ {place[c] : c \in Alive}

(* removeClientFD() of some numbers: those registered are closed.          *)
Remove(S) ==
  /\ clientFDs' = clientFDs \ S
  /\ conn' = [f \in Fds |-> IF f \in S \cap clientFDs THEN None ELSE conn[f]]

NumbersOf(C) == {fd[c] : c \in C} \ {NoFd}

(* The destructors of some clients close them.                             *)
Destroy(C) ==
  /\ Remove(NumbersOf(C))
  /\ fd' = [c \in Conns |-> IF c \in C THEN NoFd ELSE fd[c]]

(* Mutated form of Erase: the client is released and not destroyed.        *)
EraseReleased(s, f, c) ==
  /\ list' = [list EXCEPT ![s][f] = None]
  /\ UNCHANGED <<conn, clientFDs, fd>>

(* erase(f) of the list of s, when client c has just been closed: whatever *)
(* client is there is destroyed.                                           *)
Erase(s, f, c) ==
  LET found == {list[s][f]} \ {None, c} IN
    /\ Remove(NumbersOf(found))
    /\ fd' = [d \in Conns |-> IF d \in found \cup {c} THEN NoFd ELSE fd[d]]
    /\ list' = [list EXCEPT ![s][f] = None]

FdAt(c) == IF c = None THEN NoFd ELSE fd[c]

-----------------------------------------------------------------------------
(* run() of either server.                                                 *)
Bound(s) == IF s = "command" THEN MaxHubs ELSE MaxListeners

Accept(s) ==
  /\ Goto(s, "wait", "insert")
  /\ running[s]
  /\ Cardinality({c \in Conns : home[c] = s}) < Bound(s)
  /\ \E c \in Conns, f \in Fds :
       /\ home[c] = NoOne /\ \A d \in Conns : d < c => home[d] # NoOne
       /\ conn[f] = None /\ \A g \in Fds : g < f => conn[g] # None
       /\ home' = [home EXCEPT ![c] = s]
       /\ conn' = [conn EXCEPT ![f] = c]
       /\ failing' \in {failing, failing \cup {c}}
       /\ hand' = [hand EXCEPT ![s] = [fd |-> f, c |-> c]]
  /\ UNCHANGED <<got, clientFDs, clientVars, mutex, running, num,
                 sendVars, commands, fault>>

(* The new client registers its number; a client that the list still has   *)
(* under it is destroyed then.                                             *)
Insert(s) ==
  /\ Goto(s, "insert", "wait")
  /\ Unlocked(s)
  /\ LET f == hand[s].fd
         c == hand[s].c
         old == {list[s][f]} \ {None}
         closed == NumbersOf(old)
     IN /\ clientFDs' = (clientFDs \cup {f}) \ closed
        /\ conn' = [g \in Fds |->
             IF g \in closed \cap (clientFDs \cup {f}) THEN None ELSE conn[g]]
        /\ fd' = [d \in Conns |->
             IF d = c THEN f ELSE IF d \in old THEN NoFd ELSE fd[d]]
        /\ list' = [list EXCEPT ![s][f] = c]
        /\ \E m \in {c} \cup (Freed \ {None}) : place' = [place EXCEPT ![c] = m]
  /\ Release(s)
  /\ UNCHANGED <<struck, home, failing, got, mutex, running, num, sendVars,
                 commands, fault>>

(* epoll_pwait() reports a connection of s, and the list has a client under*)
(* its number (another that is reported is left alone).  Only this thread  *)
(* adds to the list, so it does not matter that the two are not one step.  *)
Wake(s) ==
  /\ Goto(s, "wait", "recv")
  /\ running[s] /\ Unlocked(s)
  /\ \E f \in InList(list[s]) :
       /\ conn[f] # None /\ home[conn[f]] = s
       /\ hand' = [hand EXCEPT ![s] = [fd |-> f, c |-> list[s][f]]]
  /\ UNCHANGED <<netVars, clientFDs, clientVars, mutex, running, num,
                 sendVars, commands, fault>>

(* A number leads to its connection if the registry has it.                *)
Usable(n) == n \in clientFDs /\ conn[n] # None

(* The process ends, and nothing of it is left.                            *)
Die(cause) ==
  /\ ~crashed
  /\ fault' = cause
  /\ conn' = Empty /\ clientFDs' = {}
  /\ pc' = [u \in Threads |-> "done"]
  /\ fd' = [c \in Conns |-> NoFd] /\ place' = [c \in Conns |-> None]
  /\ list' = [s \in Servers |-> Empty] /\ struck' = {}
  /\ mutex' = NoOne /\ num' = [u \in Threads |-> NoFd]
  /\ hand' = [u \in Threads |-> Nothing]
  /\ copy' = [u \in Senders |-> Empty] /\ audience' = {} /\ ok' = TRUE
  /\ got' = {}
  /\ UNCHANGED <<home, failing, running, commands>>

(* The acknowledgement of a command says that it has one argument, and has *)
(* none: serialize() reads argv[0] of a vector that never had memory.  That*)
(* is undefined: the process ends here, or a word is read and it goes on   *)
(* with Receive.  The usual library ends it at the first command.          *)
AckFaults ==
  /\ pc["command"] = "recv" /\ commands < MaxCommands
  /\ \E d \in Reached(hand["command"].c) : Usable(FdAt(d))
  /\ Die("argument")

(* A command is acknowledged and run, then its CALLBACK is sent; what does *)
(* not parse, and what listeners send, is dropped.                         *)
Receive(s) ==
  /\ \/ /\ s = "command" /\ commands < MaxCommands
        /\ Goto(s, "recv", "copy")
        /\ commands' = commands + 1
     \/ /\ Goto(s, "recv", "wait")
        /\ UNCHANGED commands
  /\ \E d \in Reached(hand[s].c) : Usable(FdAt(d))
  /\ Release(s)
  /\ UNCHANGED <<netVars, clientFDs, clientVars, mutex, running, num,
                 sendVars, fault>>

(* The end of the stream, no data, EPOLLHUP, EPOLLERR or an error.         *)
Lost(s) ==
  /\ Goto(s, "recv", "close")
  /\ \E d \in Reached(hand[s].c) : Usable(FdAt(d)) => conn[FdAt(d)] \in failing
  /\ UNCHANGED <<netVars, clientFDs, clientVars, mutex, running, hand, num,
                 sendVars, commands, fault>>

(* After the loop: all clients are closed and destroyed.                   *)
Cleanup(s) ==
  /\ Goto(s, "wait", "done")
  /\ ~running[s] /\ Unlocked(s)
  /\ Destroy(ClientsOf(list[s]))
  /\ list' = [list EXCEPT ![s] = Empty]
  /\ UNCHANGED <<place, struck, home, failing, got, mutex, running, hand, num,
                 sendVars, commands, fault>>

-----------------------------------------------------------------------------
(* closeFD() reads fd_, removes that number and writes fd_.  run() calls it*)
(* without the lock, so two threads may be in it for one client, and then  *)
(* takes the lock to erase its entry.                                      *)
CloseRead(s) ==
  /\ pc[s] = "close"
  /\ \E d \in Reached(hand[s].c) :
       /\ Goto(s, "close", IF FdAt(d) = NoFd THEN "erase" ELSE "remove")
       /\ num' = [num EXCEPT ![s] = FdAt(d)]
       /\ hand' = [hand EXCEPT ![s].c = d]
  /\ UNCHANGED <<netVars, clientFDs, clientVars, mutex, running, sendVars,
                 commands, fault>>

CloseRemove(t) ==
  /\ Goto(t, "remove", IF mutex = t THEN "erase_failed" ELSE "set")
  /\ Remove({num[t]})
  /\ num' = [num EXCEPT ![t] = NoFd]
  /\ UNCHANGED <<home, failing, got, clientVars, mutex, running, hand,
                 sendVars, commands, fault>>

(* The connections of the client d that closeFD() writes instead of the one*)
(* in the hand of t.                                                       *)
Struck(t, d) == {d} \ {None, hand[t].c}

(* Mutated form of CloseSet: the client keeps the number it closed.        *)
CloseSetNot(s) ==
  /\ Goto(s, "set", "erase")
  /\ UNCHANGED <<netVars, clientFDs, clientVars, mutex, running, hand, num,
                 sendVars, commands, fault>>

CloseSet(s) ==
  /\ Goto(s, "set", "erase")
  /\ \E d \in Reached(hand[s].c) :
       /\ fd' = [c \in Conns |-> IF c = d THEN NoFd ELSE fd[c]]
       /\ struck' = struck \cup Struck(s, d)
  /\ UNCHANGED <<netVars, clientFDs, place, list, mutex, running, hand, num,
                 sendVars, commands, fault>>

EraseLost(s) ==
  /\ Goto(s, "erase", "wait")
  /\ Unlocked(s)
  /\ Erase(s, hand[s].fd, None)
  /\ Release(s)
  /\ UNCHANGED <<place, struck, home, failing, got, mutex, running, num,
                 sendVars, commands, fault>>

-----------------------------------------------------------------------------
(* send() on the command server's thread, and heartbeatLoop().             *)
Beat ==
  /\ Goto("heartbeat", "loop", "copy")
  /\ running["event"]
  /\ UNCHANGED <<netVars, clientFDs, clientVars, mutex, running, hand, num,
                 sendVars, commands, fault>>

LastBeat ==
  /\ Goto("heartbeat", "loop", "done")
  /\ ~running["event"]
  /\ UNCHANGED <<netVars, clientFDs, clientVars, mutex, running, hand, num,
                 sendVars, commands, fault>>

Copy(t) ==
  /\ Goto(t, "copy", "next")
  /\ Unlocked("event")
  /\ copy' = [copy EXCEPT ![t] = list["event"]]
  /\ IF t = "command"
     THEN ok' = TRUE /\ audience' = ClientsOf(list["event"])
     ELSE UNCHANGED <<ok, audience>>
  /\ UNCHANGED <<netVars, clientFDs, clientVars, mutex, running, hand, num,
                 commands, fault>>

(* The entries are visited in the order of their numbers.                  *)
NextFd(t) == CHOOSE f \in InList(copy[t]) : \A g \in InList(copy[t]) : f <= g

Sent(t, c) ==
  IF t = "command" THEN got' = got \cup {c}
  ELSE UNCHANGED got

SendTo(t) ==
  /\ Goto(t, "next", "next")
  /\ InList(copy[t]) # {}
  /\ \E d \in Reached(copy[t][NextFd(t)]) :
       /\ Usable(FdAt(d))
       /\ Sent(t, conn[FdAt(d)])
  /\ copy' = [copy EXCEPT ![t][NextFd(t)] = None]
  /\ UNCHANGED <<conn, home, failing, clientFDs, clientVars, mutex, running, hand,
                 num, commands, audience, ok, fault>>

(* The number is not registered, or its connection broken, or it is full   *)
(* before or among the bytes.                                              *)
SendFails(t) ==
  /\ Goto(t, "next", "lock")
  /\ InList(copy[t]) # {}
  /\ \E d \in Reached(copy[t][NextFd(t)]) :
       Usable(FdAt(d)) => conn[FdAt(d)] \in failing
  /\ hand' = [hand EXCEPT ![t] = [fd |-> NextFd(t), c |-> copy[t][NextFd(t)]]]
  /\ copy' = [copy EXCEPT ![t][NextFd(t)] = None]
  /\ UNCHANGED <<netVars, clientFDs, clientVars, mutex, running, num, commands,
                 audience, ok, fault>>

(* Until the entry is erased the lock is held.  A client without a number  *)
(* is closed already, and is not written again.                            *)
Lock(t) ==
  /\ Goto(t, "lock", "remove")
  /\ mutex = NoOne
  /\ mutex' = t
  /\ \E d \in Reached(hand[t].c) :
       /\ num' = [num EXCEPT ![t] = FdAt(d)]
       /\ hand' = [hand EXCEPT ![t].c = IF FdAt(d) = NoFd THEN None ELSE d]
  /\ UNCHANGED <<netVars, clientFDs, clientVars, running, sendVars, commands,
                 fault>>

(* Mutated form of EraseFailed: send() does not report the failure.        *)
EraseFailedQuietly(t) ==
  /\ Goto(t, "erase_failed", "next")
  /\ \E d \in Reached(hand[t].c) :
       Erase("event", hand[t].fd, d) /\ struck' = struck \cup Struck(t, d)
  /\ mutex' = NoOne
  /\ Release(t)
  /\ UNCHANGED <<place, home, failing, got, running, num, copy, audience, ok,
                 commands, fault>>

(* Mutated form of EraseFailed: the lock is not given back.                *)
EraseFailedLocked(t) ==
  /\ Goto(t, "erase_failed", "next")
  /\ \E d \in Reached(hand[t].c) :
       Erase("event", hand[t].fd, d) /\ struck' = struck \cup Struck(t, d)
  /\ ok' = IF t = "command" THEN FALSE ELSE ok
  /\ Release(t)
  /\ UNCHANGED <<place, home, failing, got, mutex, running, num, copy, audience,
                 commands, fault>>

EraseFailed(t) ==
  /\ Goto(t, "erase_failed", "next")
  /\ \E d \in Reached(hand[t].c) :
       Erase("event", hand[t].fd, d) /\ struck' = struck \cup Struck(t, d)
  /\ mutex' = NoOne
  /\ ok' = IF t = "command" THEN FALSE ELSE ok
  /\ Release(t)
  /\ UNCHANGED <<place, home, failing, got, running, num, copy, audience,
                 commands, fault>>

(* send() returns, and the heart beat sleeps again.                        *)
AllSent(t) ==
  /\ Goto(t, "next", IF t = "command" THEN "wait" ELSE "loop")
  /\ InList(copy[t]) = {}
  /\ IF t = "command" THEN ok' = TRUE /\ audience' = {} /\ got' = {}
     ELSE UNCHANGED <<ok, audience, got>>
  /\ UNCHANGED <<conn, home, failing, clientFDs, clientVars, mutex, running, hand, num,
                 copy, commands, fault>>

(* A pointer to a destroyed client is used, and the process ends.          *)
Crash(t) ==
  /\ \/ pc[t] \in {"recv", "close", "set", "lock", "erase_failed"}
        /\ hand[t].c \notin Alive \cup {None}
     \/ pc[t] = "next" /\ InList(copy[t]) # {} /\ copy[t][NextFd(t)] \notin Alive
  /\ Die("pointer")

-----------------------------------------------------------------------------
(* The main thread: stop() of the command server, then of the event server.*)
StopCommand ==
  /\ Goto("main", "quit", "join_command")
  /\ running' = [running EXCEPT !["command"] = FALSE]
  /\ UNCHANGED <<netVars, clientFDs, clientVars, mutex, hand, num, sendVars,
                 commands, fault>>

(* Its threads are joined, then stop() closes what is left in the list.    *)
Join(s, threads) ==
  /\ Unlocked(s) /\ \A t \in threads : pc[t] = "done"
  /\ Destroy(ClientsOf(list[s]))
  /\ list' = [list EXCEPT ![s] = Empty]
  /\ UNCHANGED <<place, struck, home, failing, got, mutex, hand, num,
                 sendVars, commands, fault>>

StopEvent ==
  /\ Goto("main", "join_command", "join_event")
  /\ Join("command", {"command"})
  /\ running' = [running EXCEPT !["event"] = FALSE]

JoinEvent ==
  /\ Goto("main", "join_event", "done")
  /\ Join("event", {"event", "heartbeat"})
  /\ UNCHANGED running

-----------------------------------------------------------------------------
Init ==
  /\ conn = Empty /\ clientFDs = {}
  /\ home = [c \in Conns |-> NoOne]
  /\ failing = {} /\ got = {}
  /\ fd = [c \in Conns |-> NoFd] /\ place = [c \in Conns |-> None]
  /\ list = [s \in Servers |-> Empty] /\ struck = {}
  /\ mutex = NoOne /\ num = [t \in Threads |-> NoFd]
  /\ hand = [t \in Threads |-> Nothing]
  /\ copy = [t \in Senders |-> Empty] /\ audience = {} /\ ok = TRUE
  /\ running = [s \in Servers |-> TRUE]
  /\ \E listening \in SUBSET Servers :
       pc = [t \in Threads |->
         CASE t = "main" -> "quit" [] t = "heartbeat" -> "loop"
           [] t \in listening -> "wait" [] OTHER -> "done"]
  /\ commands = 0
  /\ fault = NoOne

Run(s) ==
  \/ Accept(s) \/ Insert(s) \/ Wake(s) \/ Receive(s) \/ Lost(s)
  \/ CloseRead(s) \/ CloseSet(s) \/ EraseLost(s) \/ Cleanup(s)

Close(t) == CloseRemove(t) \/ Crash(t)

Send(t) ==
  \/ Copy(t) \/ SendTo(t) \/ SendFails(t) \/ Lock(t) \/ EraseFailed(t) \/ AllSent(t)

CommandThread   ==
  Run("command") \/ AckFaults \/ Send("command") \/ Close("command")
EventThread     == Run("event") \/ Close("event")
HeartbeatThread == Beat \/ LastBeat \/ Send("heartbeat") \/ Close("heartbeat")
MainThread      == StopCommand \/ StopEvent \/ JoinEvent

Next == CommandThread \/ EventThread \/ HeartbeatThread \/ MainThread

Spec == Init /\ [][Next]_vars
(* The threads run, and what they wait for without a limit of time are only*)
(* each other.  Nobody has to press Enter.                                 *)
FairSpec ==
  /\ Spec
  /\ WF_vars(CommandThread) /\ WF_vars(EventThread) /\ WF_vars(HeartbeatThread)
  /\ WF_vars(StopEvent \/ JoinEvent)

-----------------------------------------------------------------------------
(* The connection under an open number is one that a client still in a list*)
(* will close, or that was accepted just now.                              *)
Kept(f) ==
  \/ f \in clientFDs /\ \E s \in Servers : f \in NumbersOf(ClientsOf(list[s]))
  \/ \E s \in Servers : pc[s] = "insert" /\ hand[s].fd = f

(* Whatever the threads do to each other's clients, every open descriptor  *)
(* is kept, and when both servers were stopped none is open; except that of*)
(* a client that lost its number to the close of the client whose memory it*)
(* has: nobody ever closes that.                                           *)
NoLeak ==
  ~crashed =>
    /\ \A f \in Fds : conn[f] # None => Kept(f) \/ conn[f] \in struck
    /\ pc["main"] = "done" => \A f \in Fds :
         f \in clientFDs \/ conn[f] # None => conn[f] \in struck

(* When send() reports success, every listener that was in the list at its *)
(* beginning was sent the CALLBACK whole, unless the memory or the number  *)
(* of one that was closed meanwhile had gone to another connection, which  *)
(* was sent it instead.                                                    *)
SuccessIsTrue ==
  pc["command"] = "next" /\ InList(copy["command"]) = {} /\ ok =>
    (got \subseteq audience => audience \subseteq got)

(* No listener was lost, and the event server is not being stopped.        *)
Quiet ==
  /\ running["event"]
  /\ \A c \in Conns : home[c] = "event" => c \notin failing

(* As long as the listeners stay and read, and nobody stops the servers,   *)
(* the threads do each other no harm: no client is used after its end, none*)
(* loses its number to the close of another, and a connection whose peer   *)
(* stays is not closed.  Where a listener is lost or slow all of these may *)
(* happen.  Only the word that an acknowledgement reads beyond its empty   *)
(* arguments may end the program then.                                     *)
HarmOnlyAfterLoss ==
  Quiet =>
    /\ fault # "pointer" /\ struck = {}
    /\ ~crashed => \A c \in Conns :
         home[c] # NoOne /\ c \notin failing /\ running[home[c]] => Connected(c)

(* Once the command server is told to stop, the main thread gets through   *)
(* all joins and locks, unless the program has ended itself.               *)
StopReturns == pc["main"] = "join_command" ~> pc["main"] = "done" \/ crashed
=============================================================================
