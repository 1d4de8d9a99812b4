------------------------------ MODULE HubLinks ------------------------------
(***************************************************************************)
(* The two connections to the hub: the threads of GRAMS_TOF_CommandClient  *)
(* and GRAMS_TOF_EventClient, which connect, wait for data, and connect    *)
(* again when a connection is lost, and DAQController::run, which stops    *)
(* them.  They share the descriptors of the process and GRAMS_TOF_FDManager*)
(* (FdTable).  The two run() functions differ in the pointer with which    *)
(* the loop refers to the connection, and in what a packet that does not   *)
(* parse does.                                                             *)
(*                                                                         *)
(* A GRAMS_TOF_Client is its fd_.  Two threads that call closeFD() on one  *)
(* client are taken one after the other.                                   *)
(***************************************************************************)
EXTENDS FdTable

CONSTANTS
  MaxEvents,  (* what the hub does on established connections, a bound     *)
  Stoppable   (* whether the process may be asked to stop                  *)

ASSUME HubLinksAssumption ==
  /\ Roles \subseteq {"command", "event"}
  /\ MaxEvents \in Nat
  /\ Stoppable \in BOOLEAN

VARIABLES
  pc,         (* where the thread of each client is                        *)
  sock,       (* its connected_fd                                          *)
  ep,         (* its epoll_fd                                              *)
  fd,         (* the fd_ of its last GRAMS_TOF_Client                      *)
  hub,        (* whether hubConnection_ holds that client                  *)
  running,    (* running_                                                  *)
  spc,        (* where stop() of each client is                            *)
  moved,      (* whether it has moved the connection out                   *)
  events      (* what the hubs did                                         *)

threadVars == <<pc, sock, ep>>
linkVars   == <<fd, hub>>
stopVars   == <<running, spc, moved>>
vars == <<fdVars, threadVars, linkVars, stopVars, events>>

Alive == \A r \in Roles : pc[r] # "crashed"

Goto(r, from, to) ==
  /\ Alive
  /\ pc[r] = from
  /\ pc' = [pc EXCEPT ![r] = to]

-----------------------------------------------------------------------------
(* Mutated form of CloseClient: the client keeps the number it closed.     *)
CloseClientKeeps(r) ==
  /\ IF fd[r] # NoFd THEN RemoveClientFD(fd[r]) ELSE UNCHANGED fdVars
  /\ UNCHANGED fd

(* closeFD() of the client of r.                                           *)
CloseClient(r) ==
  /\ IF fd[r] # NoFd THEN RemoveClientFD(fd[r]) ELSE UNCHANGED fdVars
  /\ fd' = [fd EXCEPT ![r] = NoFd]

(* reset() of hubConnection_ destroys the client, which closes it.         *)
ResetConnection(r) ==
  /\ IF hub[r] THEN CloseClient(r) ELSE UNCHANGED <<fdVars, fd>>
  /\ hub' = [hub EXCEPT ![r] = FALSE]

-----------------------------------------------------------------------------
(* The thread of a client: run().                                          *)
Connecting(r) ==
  /\ running[r]
  /\ Goto(r, "loop", "socket")
  /\ ResetConnection(r)
  /\ UNCHANGED <<sock, ep, stopVars, events>>

LeaveLoop(r) ==
  /\ ~running[r]
  /\ Goto(r, "loop", "final")
  /\ UNCHANGED <<fdVars, sock, ep, linkVars, stopVars, events>>

MakeSocket(r) ==
  /\ sock' = [sock EXCEPT ![r] = LowestFree]
  /\ IF LowestFree = NoFd
     THEN Goto(r, "socket", "loop") /\ UNCHANGED table
     ELSE Goto(r, "socket", "register") /\ Open(LowestFree, NewSocket(r))
  /\ UNCHANGED <<serverFDs, clientFDs, ep, linkVars, stopVars, events>>

Register(r) ==
  /\ Goto(r, "register", "connect")
  /\ SetServerFD(r, sock[r])
  /\ UNCHANGED <<sock, ep, linkVars, stopVars, events>>

(* connect() needs a socket that is not connected yet.                     *)
Connected(r) ==
  /\ Goto(r, "connect", "store")
  /\ IsSocket(sock[r]) /\ table[sock[r]].peer = "none"
  /\ table' = [table EXCEPT ![sock[r]].peer = "up"]
  /\ UNCHANGED <<serverFDs, clientFDs, sock, ep, linkVars, stopVars, events>>

(* Refused, timed out, or not a socket any more.                           *)
ConnectFailed(r) ==
  /\ Goto(r, "connect", "close_sock")
  /\ UNCHANGED <<fdVars, sock, ep, linkVars, stopVars, events>>

CloseSocket(r) ==
  /\ Goto(r, "close_sock", "unregister")
  /\ CloseFd(sock[r])
  /\ UNCHANGED <<serverFDs, clientFDs, sock, ep, linkVars, stopVars, events>>

(* Mutated form of Unregister: the entry of the failed socket stays.       *)
UnregisterNot(r) ==
  /\ Goto(r, "unregister", "loop")
  /\ UNCHANGED <<fdVars, sock, ep, linkVars, stopVars, events>>

Unregister(r) ==
  /\ Goto(r, "unregister", "loop")
  /\ RemoveServerFD(r)
  /\ UNCHANGED <<sock, ep, linkVars, stopVars, events>>

Store(r) ==
  /\ Goto(r, "store", "epoll")
  /\ AddClientFD(sock[r])
  /\ fd' = [fd EXCEPT ![r] = sock[r]]
  /\ hub' = [hub EXCEPT ![r] = TRUE]
  /\ UNCHANGED <<sock, ep, stopVars, events>>

MakeEpoll(r) ==
  /\ ep' = [ep EXCEPT ![r] = LowestFree]
  /\ IF LowestFree = NoFd
     THEN Goto(r, "epoll", "give_up") /\ UNCHANGED table
     ELSE Goto(r, "epoll", "watch") /\ Open(LowestFree, NewEpoll(r))
  /\ UNCHANGED <<serverFDs, clientFDs, sock, linkVars, stopVars, events>>

CanWatch(r) ==
  /\ IsEpoll(ep[r]) /\ sock[r] # ep[r]
  /\ table[sock[r]] # Closed /\ sock[r] \notin table[ep[r]].watch

Watch(r) ==
  /\ Goto(r, "watch", "wait")
  /\ CanWatch(r)
  /\ table' = [table EXCEPT ![ep[r]].watch = @ \cup {sock[r]}]
  /\ UNCHANGED <<serverFDs, clientFDs, sock, ep, linkVars, stopVars, events>>

(* Mutated form of WatchFailed: the epoll stays open.                      *)
WatchFailedLeak(r) ==
  /\ Goto(r, "watch", "give_up")
  /\ ~CanWatch(r)
  /\ UNCHANGED <<fdVars, sock, ep, linkVars, stopVars, events>>

(* epoll_ctl() fails when one of the two descriptors was closed.           *)
WatchFailed(r) ==
  /\ Goto(r, "watch", "give_up")
  /\ ~CanWatch(r)
  /\ CloseFd(ep[r])
  /\ UNCHANGED <<serverFDs, clientFDs, sock, ep, linkVars, stopVars, events>>

GiveUp(r) ==
  /\ Goto(r, "give_up", "loop")
  /\ ResetConnection(r)
  /\ UNCHANGED <<sock, ep, stopVars, events>>

LeaveWait(r) ==
  /\ ~running[r]
  /\ Goto(r, "wait", "close_epoll")
  /\ UNCHANGED <<fdVars, sock, ep, linkVars, stopVars, events>>

Poll(r) ==
  /\ running[r]
  /\ Goto(r, "wait", "poll")
  /\ UNCHANGED <<fdVars, sock, ep, linkVars, stopVars, events>>

(* Data, or a hang-up, on a file that the epoll watches.                   *)
Ready(r) ==
  /\ IsEpoll(ep[r])
  /\ \E f \in table[ep[r]].watch : table[f].peer \in {"data", "hup"}

PollTimedOut(r) ==
  /\ ~Ready(r)
  /\ Goto(r, "poll", "wait")
  /\ UNCHANGED <<fdVars, sock, ep, linkVars, stopVars, events>>

Wake(r) ==
  /\ Ready(r)
  /\ Goto(r, "poll", IF hub[r] THEN "follow" ELSE "close_epoll")
  /\ UNCHANGED <<fdVars, sock, ep, linkVars, stopVars, events>>

(* Mutated form of Reachable: EventClient dereferences hubConnection_ too. *)
ReachableByPointer(r) == hub[r]

(* Whether what was found under the lock leads to the client after it:     *)
(* CommandClient goes through hubConnection_ again, and stop() may have    *)
(* moved the client away; EventClient has the address of the client, which *)
(* stop() destroys after the join.                                         *)
Reachable(r) == r = "event" \/ hub[r]

Follow(r) ==
  /\ Reachable(r)
  /\ Goto(r, "follow", "recv")
  /\ UNCHANGED <<fdVars, sock, ep, linkVars, stopVars, events>>

Crash(r) ==
  /\ ~Reachable(r)
  /\ Goto(r, "follow", "crashed")
  /\ UNCHANGED <<fdVars, sock, ep, linkVars, stopVars, events>>

HasData(r) == fd[r] \in clientFDs /\ IsSocket(fd[r]) /\ table[fd[r]].peer = "data"

(* Packets that parse are handled, and CommandClient acknowledges them; on *)
(* another packet, or a failed acknowledgement, it closes the connection.  *)
Receive(r) ==
  /\ HasData(r)
  /\ table' = [table EXCEPT ![fd[r]].peer = "up"]
  /\ \/ Goto(r, "recv", "wait")
     \/ r = "command" /\ Goto(r, "recv", "close_client")
  /\ UNCHANGED <<serverFDs, clientFDs, sock, ep, linkVars, stopVars, events>>

(* No data, the end of the stream or an error: all are a lost connection.  *)
Lost(r) ==
  /\ ~HasData(r)
  /\ Goto(r, "recv", "close_client")
  /\ UNCHANGED <<fdVars, sock, ep, linkVars, stopVars, events>>

CloseLost(r) ==
  /\ Goto(r, "close_client", "reset")
  /\ CloseClient(r)
  /\ UNCHANGED <<sock, ep, hub, stopVars, events>>

ResetLost(r) ==
  /\ Goto(r, "reset", "close_epoll")
  /\ ResetConnection(r)
  /\ UNCHANGED <<sock, ep, stopVars, events>>

CloseEpoll(r) ==
  /\ Goto(r, "close_epoll", "loop")
  /\ CloseFd(ep[r])
  /\ UNCHANGED <<serverFDs, clientFDs, sock, ep, linkVars, stopVars, events>>

Final(r) ==
  /\ Goto(r, "final", "done")
  /\ RemoveServerFD(r)
  /\ UNCHANGED <<sock, ep, linkVars, stopVars, events>>

-----------------------------------------------------------------------------
(* stop(), called by the controller for the command client, then for the   *)
(* event client.                                                           *)
StopStep(r, from, to) ==
  /\ Alive
  /\ spc[r] = from
  /\ spc' = [spc EXCEPT ![r] = to]

(* Mutated form of Stop: running_ is not cleared.                          *)
StopUnsaid(r) ==
  /\ Stoppable
  /\ r = "event" => \A q \in Roles \ {r} : spc[q] = "done"
  /\ StopStep(r, "none", "move")
  /\ UNCHANGED <<fdVars, threadVars, linkVars, running, moved, events>>

Stop(r) ==
  /\ Stoppable
  /\ r = "event" => \A q \in Roles \ {r} : spc[q] = "done"
  /\ StopStep(r, "none", "move")
  /\ running' = [running EXCEPT ![r] = FALSE]
  /\ UNCHANGED <<fdVars, threadVars, linkVars, moved, events>>

StopMove(r) ==
  /\ StopStep(r, "move", "close")
  /\ moved' = [moved EXCEPT ![r] = hub[r]]
  /\ hub' = [hub EXCEPT ![r] = FALSE]
  /\ UNCHANGED <<fdVars, threadVars, fd, running, events>>

StopClose(r) ==
  /\ StopStep(r, "close", "join")
  /\ IF moved[r] THEN CloseClient(r) ELSE UNCHANGED <<fdVars, fd>>
  /\ UNCHANGED <<threadVars, hub, running, moved, events>>

StopJoin(r) ==
  /\ StopStep(r, "join", "remove")
  /\ pc[r] = "done"
  /\ UNCHANGED <<fdVars, threadVars, linkVars, running, moved, events>>

StopRemove(r) ==
  /\ StopStep(r, "remove", "done")
  /\ RemoveServerFD(r)
  /\ UNCHANGED <<threadVars, linkVars, running, moved, events>>

-----------------------------------------------------------------------------
(* The hub sends data or closes a connection.                              *)
HubActs ==
  /\ Alive
  /\ events < MaxEvents
  /\ events' = events + 1
  /\ \E f \in Fds, p \in {"data", "hup"} :
       /\ IsSocket(f) /\ table[f].peer = "up"
       /\ table' = [table EXCEPT ![f].peer = p]
  /\ UNCHANGED <<serverFDs, clientFDs, threadVars, linkVars, stopVars>>

Init ==
  /\ FdInit
  /\ pc = [r \in Roles |-> "loop"]
  /\ sock = [r \in Roles |-> NoFd]
  /\ ep = [r \in Roles |-> NoFd]
  /\ fd = [r \in Roles |-> NoFd]
  /\ hub = [r \in Roles |-> FALSE]
  /\ running = [r \in Roles |-> TRUE]
  /\ spc = [r \in Roles |-> "none"]
  /\ moved = [r \in Roles |-> FALSE]
  /\ events = 0

Run(r) ==
  \/ Connecting(r) \/ LeaveLoop(r) \/ MakeSocket(r) \/ Register(r)
  \/ Connected(r) \/ ConnectFailed(r) \/ CloseSocket(r) \/ Unregister(r)
  \/ Store(r) \/ MakeEpoll(r) \/ Watch(r) \/ WatchFailed(r) \/ GiveUp(r)
  \/ LeaveWait(r) \/ Poll(r) \/ PollTimedOut(r) \/ Wake(r) \/ Follow(r)
  \/ Crash(r) \/ Receive(r) \/ Lost(r) \/ CloseLost(r) \/ ResetLost(r) \/ CloseEpoll(r) \/ Final(r)

StopSteps(r) == StopMove(r) \/ StopClose(r) \/ StopJoin(r) \/ StopRemove(r)

Next == HubActs \/ \E r \in Roles : Run(r) \/ Stop(r) \/ StopSteps(r)

Spec == Init /\ [][Next]_vars

(* The threads are scheduled, connect() returns, and a hub that is asked   *)
(* again and again accepts at last.                                        *)
FairSpec ==
  /\ Spec
  /\ \A r \in Roles : /\ WF_vars(Run(r))
                      /\ WF_vars(StopSteps(r))
                      /\ SF_vars(Connected(r))

-----------------------------------------------------------------------------
OwnSocket(r, f) == IsSocket(f) /\ table[f].owner = r

OwnFiles(r) == {f \in Fds : table[f] # Closed /\ table[f].owner = r}

(* However often it reconnects, a client has at most a socket and an epoll *)
(* open, and once it is stopped it has none.                               *)
NoLeak ==
  \A r \in Roles : /\ Cardinality(OwnFiles(r)) <= 2
                   /\ spc[r] = "done" => OwnFiles(r) = {}

(* The loop of a client follows hubConnection_ to a client that is gone    *)
(* only in one case: CommandClient's, between the move and the join of     *)
(* stop().  No loss, failed attempt or act of the other client does it.    *)
ConnectionChecked ==
  \A r \in Roles : pc[r] = "crashed" => r = "command" /\ spc[r] \in {"close", "join"}

(* A client waits on its own connection.                                   *)
Linked(r) ==
  /\ pc[r] \in {"wait", "poll", "follow", "recv"}
  /\ hub[r]
  /\ OwnSocket(r, fd[r])
  /\ IsEpoll(ep[r]) /\ table[ep[r]].owner = r /\ fd[r] \in table[ep[r]].watch

(* A client whose link is lost finds out and connects again: it never waits*)
(* for events of a descriptor that is not its connection any more, which no*)
(* event would end.                                                        *)
WaitsOnConnection ==
  \A r \in Roles : running[r] /\ pc[r] \in {"wait", "poll"} => Linked(r)

(* A client that runs is linked again whenever its connection was lost.    *)
LinkRecovered ==
  \A r \in Roles : []<>(Linked(r) \/ ~running[r])

(* stop() comes back, whatever the thread of the client is doing.          *)
StopReturns ==
  \A r \in Roles : spc[r] = "move" ~> spc[r] = "done"

-----------------------------------------------------------------------------
(* Where the socket is not a connection of the client yet.                 *)
Attempt == {"register", "connect", "store", "close_sock"}

(* Where the epoll is open.                                                *)
Polling == {"watch", "wait", "poll", "follow", "recv", "close_client", "reset",
            "close_epoll", "crashed"}

OwnEpoll(r, f) == IsEpoll(f) /\ table[f].owner = r

(* The numbers a client uses refer to what it opened under them.           *)
Intact(r) ==
  /\ pc[r] \in Attempt => OwnSocket(r, sock[r])
  /\ pc[r] \in Polling => OwnEpoll(r, ep[r])
  /\ fd[r] # NoFd /\ pc[r] # "done" => OwnSocket(r, fd[r])

(* The thread of the client closes the number the registry keeps for it,   *)
(* when the client's connection, or the socket of its failed attempt, was  *)
(* closed under that number already.                                       *)
ClosesKept(r) ==
  /\ serverFDs[r] # NoFd /\ pc'[r] # pc[r]
  /\ \/ pc[r] = "register"
     \/ pc[r] \in {"unregister", "final"} /\ ~OwnSocket(r, serverFDs[r])

(* stop() closes the connection it moved out when the thread has ended, and*)
(* has closed that number through the registry.                            *)
ClosesEnded(r) == spc[r] = "close" /\ spc'[r] # spc[r] /\ pc[r] = "done"

(* Two clients close numbers at any moment, from run() and from stop(), on *)
(* one table that hands the lowest free number out again.  As long as all  *)
(* their numbers are good, a number is taken from a client in two cases    *)
(* only, both a second close of one number: setFD() (FDManager.h:21) of a  *)
(* number the registry kept too long, and stop() behind a thread that has  *)
(* ended.  No loss, full table or failed step of epoll does it.            *)
OnlySecondCloseTakes ==
  [][(\A r \in Roles : Intact(r)) =>
       \/ \A r \in Roles : Intact(r)'
       \/ \E r \in Roles : ClosesKept(r) \/ ClosesEnded(r)]_vars
=============================================================================
