--------------------------- MODULE HubLinksProofs ---------------------------
(***************************************************************************)
(* Proofs about HubLinks for every set of clients, every size of the table *)
(* and every number of events: what a client leaves open, who may follow a *)
(* connection that is gone, and which steps take a number from a client.   *)
(***************************************************************************)
EXTENDS HubLinks, FiniteSetTheorems, WellFoundedInduction, TLAPS

USE FdTableAssumption, HubLinksAssumption

-----------------------------------------------------------------------------
(* The table of descriptors.                                               *)
Numbers == Fds \cup {NoFd}

File == [kind : {"socket", "epoll"}, owner : Roles,
         peer : {"none", "up", "data", "hup"}, watch : SUBSET Numbers]

Tables == [Fds -> File \cup {Closed}]

LEMMA FdIsNat == Fds \subseteq Nat /\ NoFd \notin Fds
  BY DEF Fds, NoFd

(* A set of descriptors that is not empty has a lowest one.                *)
LEMMA LowestExists ==
  ASSUME NEW S \in SUBSET Fds, S # {}
  PROVE  \E f \in S : \A g \in S : f <= g
<1> DEFINE R == {ss \in Nat \X Nat : ss[1] < ss[2]}
<1>1. IsWellFoundedOn(R, Nat)
  BY NatLessThanWellFounded DEF OpToRel
<1>2. S \subseteq Nat
  BY FdIsNat
<1> HIDE DEF R
<1>3. PICK x \in S : \A y \in S : ~ (<<y, x>> \in R)
  BY <1>1, <1>2, WFMin
<1>4. \A y \in S : ~ (y < x)
  BY <1>2, <1>3 DEF R
<1>5. \A y \in S : x <= y
  BY <1>2, <1>4
<1> QED
  BY <1>5

(* What socket() and epoll_create1() return is free.                       *)
LEMMA LowestIsFree ==
  LowestFree = NoFd \/ LowestFree \in FreeFds
<1>1. CASE FreeFds = {}
  BY <1>1 DEF LowestFree
<1>2. CASE FreeFds # {}
  <2>1. \E f \in FreeFds : \A g \in FreeFds : f <= g
    BY <1>2, LowestExists DEF FreeFds
  <2> QED
    BY <1>2, <2>1 DEF LowestFree
<1> QED
  BY <1>1, <1>2

(* closing a number only ever takes files away.                            *)
LEMMA CloseInTable ==
  ASSUME NEW t \in Tables, NEW n
  PROVE  /\ CloseIn(t, n) \in Tables
         /\ \A f \in Fds : CloseIn(t, n)[f] # Closed =>
              /\ f # n /\ t[f] # Closed
              /\ CloseIn(t, n)[f].owner = t[f].owner
              /\ CloseIn(t, n)[f].kind = t[f].kind
<1> SUFFICES ASSUME NEW f \in Fds
             PROVE  /\ CloseIn(t, n)[f] \in File \cup {Closed}
                    /\ CloseIn(t, n)[f] # Closed =>
                         /\ f # n /\ t[f] # Closed
                         /\ CloseIn(t, n)[f].owner = t[f].owner
                         /\ CloseIn(t, n)[f].kind = t[f].kind
  BY DEF Tables, CloseIn
<1>1. CASE f = n \/ t[f] = Closed
  BY <1>1 DEF CloseIn
<1>2. CASE f # n /\ t[f] # Closed
  <2>1. CloseIn(t, n)[f] = [t[f] EXCEPT !.watch = @ \ {n}]
    BY <1>2 DEF CloseIn
  <2>2. t[f] \in File
    BY <1>2 DEF Tables
  <2>3. [t[f] EXCEPT !.watch = @ \ {n}] \in File
    BY <2>2 DEF File
  <2>4. /\ [t[f] EXCEPT !.watch = @ \ {n}].owner = t[f].owner
        /\ [t[f] EXCEPT !.watch = @ \ {n}].kind = t[f].kind
    BY <2>2 DEF File
  <2> QED
    BY <1>2, <2>1, <2>3, <2>4
<1> QED
  BY <1>1, <1>2

-----------------------------------------------------------------------------
(* The inductive invariant.                                                *)
Places ==
  {"loop", "final", "done", "socket", "register", "connect", "close_sock",
   "unregister", "store", "epoll", "watch", "give_up", "wait", "poll",
   "close_epoll", "follow", "recv", "close_client", "reset", "crashed"}

Types ==
  /\ table \in Tables /\ serverFDs \in [Roles -> Numbers] /\ clientFDs \subseteq Numbers
  /\ pc \in [Roles -> Places]
  /\ sock \in [Roles -> Numbers] /\ ep \in [Roles -> Numbers]
  /\ fd \in [Roles -> Numbers] /\ hub \in [Roles -> BOOLEAN]
  /\ running \in [Roles -> BOOLEAN] /\ moved \in [Roles -> BOOLEAN]
  /\ spc \in [Roles -> {"none", "move", "close", "join", "remove", "done"}]
  /\ events \in 0..MaxEvents

Own(r, f) == table[f] # Closed /\ table[f].owner = r

(* Somebody will close each file of a client: a socket is the one the run  *)
(* of the loop made, the FDManager has it as the server descriptor, and as *)
(* long as the client runs its connection has it as well.                  *)
SocketInv(r) ==
  \A f \in Fds : Own(r, f) /\ table[f].kind = "socket" =>
    /\ f = sock[r]
    /\ pc[r] = "register" \/ serverFDs[r] = f
    /\ pc[r] \notin {"socket", "unregister", "done"}
    /\ running[r] /\ pc[r] \notin Attempt => hub[r] /\ fd[r] = f /\ f \in clientFDs

EpollInv(r) ==
  \A f \in Fds : Own(r, f) /\ table[f].kind = "epoll" =>
    f = ep[r] /\ pc[r] \in Polling

(* Only the stop of a client clears its running_, and it ends after the    *)
(* thread.                                                                 *)
StopInv(r) ==
  /\ spc[r] = "none" <=> running[r]
  /\ spc[r] \in {"remove", "done"} => pc[r] = "done"

(* The loop is on its way to the connection it found, or stop() took it.   *)
CrashInv(r) ==
  /\ pc[r] = "follow" => hub[r] \/ spc[r] \in {"close", "join"}
  /\ pc[r] = "crashed" => r = "command" /\ spc[r] \in {"close", "join"}

LinkInv(r) == SocketInv(r) /\ EpollInv(r) /\ StopInv(r) /\ CrashInv(r)

IInv == Types /\ \A r \in Roles : LinkInv(r)

-----------------------------------------------------------------------------
(* A step takes files of r away, and opens none, and the FDManager lets go *)
(* of a number of r only when it closes it.                                *)
Kept(r) ==
  \A f \in Fds : Own(r, f)' =>
    /\ Own(r, f)
    /\ table'[f].kind = table[f].kind
    /\ f \in clientFDs => f \in clientFDs'

(* A step of another client, or of its stop().                             *)
Untouched(r) ==
  /\ pc'[r] = pc[r] /\ sock'[r] = sock[r] /\ ep'[r] = ep[r]
  /\ fd'[r] = fd[r] /\ hub'[r] = hub[r] /\ serverFDs'[r] = serverFDs[r]
  /\ running'[r] = running[r] /\ spc'[r] = spc[r]

LEMMA UntouchedInv ==
  ASSUME NEW r \in Roles, LinkInv(r), Untouched(r), Kept(r)
  PROVE  LinkInv(r)'
<1>1. SocketInv(r)'
  <2> SUFFICES ASSUME NEW f \in Fds, Own(r, f)', table'[f].kind = "socket"
               PROVE  /\ f = sock'[r]
                      /\ pc'[r] = "register" \/ serverFDs'[r] = f
                      /\ pc'[r] \notin {"socket", "unregister", "done"}
                      /\ running'[r] /\ pc'[r] \notin Attempt =>
                           hub'[r] /\ fd'[r] = f /\ f \in clientFDs'
    BY DEF SocketInv
  <2>1. Own(r, f) /\ table[f].kind = "socket" /\ (f \in clientFDs => f \in clientFDs')
    BY DEF Kept
  <2> QED
    BY <2>1 DEF LinkInv, SocketInv, Untouched
<1>2. EpollInv(r)'
  BY DEF LinkInv, EpollInv, Untouched, Kept
<1>3. StopInv(r)' /\ CrashInv(r)'
  BY DEF LinkInv, StopInv, CrashInv, Untouched
<1> QED
  BY <1>1, <1>2, <1>3 DEF LinkInv

(* What the operations on descriptors keep.                                *)
LEMMA SameTableKept ==
  ASSUME NEW r \in Roles, table' = table, clientFDs \subseteq clientFDs'
  PROVE  Kept(r)
  BY DEF Kept, Own

LEMMA CloseFdKept ==
  ASSUME table \in Tables, NEW n, CloseFd(n)
  PROVE  /\ table' \in Tables
         /\ \A r \in Roles, f \in Fds : Own(r, f)' =>
              Own(r, f) /\ f # n /\ table'[f].kind = table[f].kind
  BY CloseInTable DEF CloseFd, Own

LEMMA SetServerKept ==
  ASSUME table \in Tables, NEW q \in Roles, NEW n \in Numbers,
         serverFDs \in [Roles -> Numbers], SetServerFD(q, n)
  PROVE  /\ table' \in Tables /\ clientFDs' = clientFDs
         /\ serverFDs' \in [Roles -> Numbers] /\ serverFDs'[q] = n
         /\ \A r \in Roles : r # q => serverFDs'[r] = serverFDs[r]
         /\ \A r \in Roles : Kept(r)
         /\ \A r \in Roles, f \in Fds : Own(r, f)' => f # serverFDs[q]
<1>1. CloseFd(serverFDs[q])
  BY DEF SetServerFD
<1>2. /\ table' \in Tables
      /\ \A r \in Roles, f \in Fds : Own(r, f)' =>
           Own(r, f) /\ f # serverFDs[q] /\ table'[f].kind = table[f].kind
  BY <1>1, CloseFdKept
<1>3. /\ clientFDs' = clientFDs /\ serverFDs' = [serverFDs EXCEPT ![q] = n]
  BY DEF SetServerFD
<1>4. \A r \in Roles : Kept(r)
  BY <1>2, <1>3 DEF Kept
<1>5. serverFDs' \in [Roles -> Numbers] /\ serverFDs'[q] = n
  BY <1>3
<1>6. \A r \in Roles : r # q => serverFDs'[r] = serverFDs[r]
  BY <1>3
<1> QED
  BY <1>2, <1>3, <1>4, <1>5, <1>6

LEMMA RemoveClientKept ==
  ASSUME table \in Tables, clientFDs \subseteq Numbers, NEW n, RemoveClientFD(n)
  PROVE  /\ table' \in Tables /\ clientFDs' \subseteq Numbers /\ serverFDs' = serverFDs
         /\ \A r \in Roles : Kept(r)
         /\ n \in clientFDs => \A r \in Roles, f \in Fds : Own(r, f)' => f # n
<1>1. clientFDs' = clientFDs \ {n} /\ serverFDs' = serverFDs
  BY DEF RemoveClientFD
<1>2. CASE n \in clientFDs
  <2>1. /\ table' \in Tables
        /\ \A r \in Roles, f \in Fds : Own(r, f)' =>
             Own(r, f) /\ f # n /\ table'[f].kind = table[f].kind
    BY <1>2, CloseFdKept DEF RemoveClientFD
  <2>2. \A r \in Roles : Kept(r)
    BY <1>1, <2>1 DEF Kept
  <2> QED
    BY <1>1, <2>1, <2>2
<1>3. CASE n \notin clientFDs
  <2>1. table' = table
    BY <1>3 DEF RemoveClientFD
  <2>2. clientFDs' = clientFDs
    BY <1>1, <1>3
  <2>3. \A r \in Roles : Kept(r)
    BY <2>1, <2>2, SameTableKept
  <2> QED
    BY <1>1, <1>3, <2>1, <2>2, <2>3
<1> QED
  BY <1>2, <1>3

LEMMA CloseClientKept ==
  ASSUME Types, NEW q \in Roles, CloseClient(q)
  PROVE  /\ table' \in Tables /\ clientFDs' \subseteq Numbers /\ serverFDs' = serverFDs
         /\ fd' \in [Roles -> Numbers] /\ fd'[q] = NoFd
         /\ \A r \in Roles : r # q => fd'[r] = fd[r]
         /\ \A r \in Roles : Kept(r)
         /\ fd[q] \in clientFDs /\ fd[q] # NoFd =>
              \A r \in Roles, f \in Fds : Own(r, f)' => f # fd[q]
<1>1. fd' = [fd EXCEPT ![q] = NoFd]
  BY DEF CloseClient
<1>2. /\ fd' \in [Roles -> Numbers] /\ fd'[q] = NoFd
      /\ \A r \in Roles : r # q => fd'[r] = fd[r]
  BY <1>1 DEF Types, Numbers
<1>3. CASE fd[q] # NoFd
  <2>1. RemoveClientFD(fd[q])
    BY <1>3 DEF CloseClient
  <2> QED
    BY <1>2, <2>1, RemoveClientKept DEF Types
<1>4. CASE fd[q] = NoFd
  <2>1. table' = table /\ clientFDs' = clientFDs /\ serverFDs' = serverFDs
    BY <1>4 DEF CloseClient, fdVars
  <2>2. \A r \in Roles : Kept(r)
    BY <2>1, SameTableKept
  <2> QED
    BY <1>2, <1>4, <2>1, <2>2 DEF Types
<1> QED
  BY <1>3, <1>4

LEMMA ResetKept ==
  ASSUME Types, NEW q \in Roles, ResetConnection(q)
  PROVE  /\ table' \in Tables /\ clientFDs' \subseteq Numbers /\ serverFDs' = serverFDs
         /\ fd' \in [Roles -> Numbers] /\ hub' \in [Roles -> BOOLEAN] /\ hub'[q] = FALSE
         /\ fd'[q] = IF hub[q] THEN NoFd ELSE fd[q]
         /\ \A r \in Roles : r # q => fd'[r] = fd[r] /\ hub'[r] = hub[r]
         /\ \A r \in Roles : Kept(r)
         /\ hub[q] /\ fd[q] \in clientFDs /\ fd[q] # NoFd =>
              \A r \in Roles, f \in Fds : Own(r, f)' => f # fd[q]
<1>1. hub' = [hub EXCEPT ![q] = FALSE]
  BY DEF ResetConnection
<1>2. /\ hub' \in [Roles -> BOOLEAN] /\ hub'[q] = FALSE
      /\ \A r \in Roles : r # q => hub'[r] = hub[r]
  BY <1>1 DEF Types
<1>3. CASE hub[q]
  <2>1. CloseClient(q)
    BY <1>3 DEF ResetConnection
  <2> QED
    BY <1>2, <1>3, <2>1, CloseClientKept
<1>4. CASE ~hub[q]
  <2>1. table' = table /\ clientFDs' = clientFDs /\ serverFDs' = serverFDs /\ fd' = fd
    BY <1>4 DEF ResetConnection, fdVars
  <2>2. \A r \in Roles : Kept(r)
    BY <2>1, SameTableKept
  <2> QED
    BY <1>2, <1>4, <2>1, <2>2 DEF Types
<1> QED
  BY <1>3, <1>4

-----------------------------------------------------------------------------
(* The steps of a thread.                                                  *)
LEMMA OthersInv ==
  ASSUME IInv, NEW q \in Roles,
         \A r \in Roles : r # q => Untouched(r) /\ Kept(r),
         Types', LinkInv(q)'
  PROVE  IInv'
<1>1. ASSUME NEW r \in Roles, r # q PROVE LinkInv(r)'
  BY <1>1, UntouchedInv DEF IInv
<1> QED
  BY <1>1 DEF IInv

LEMMA GotoPlace ==
  ASSUME Types, NEW q \in Roles, NEW from, NEW to \in Places, Goto(q, from, to)
  PROVE  /\ pc[q] = from /\ pc'[q] = to /\ pc' \in [Roles -> Places]
         /\ \A r \in Roles : r # q => pc'[r] = pc[r]
         /\ \A r \in Roles : pc[r] # "crashed"
  BY DEF Types, Goto, Alive

(* Steps that only go on to another place.                                 *)
LEMMA MoveInv ==
  ASSUME IInv, NEW q \in Roles, NEW from, NEW to \in Places, Goto(q, from, to),
         UNCHANGED <<fdVars, sock, ep, linkVars, stopVars, events>>,
         from \notin {"register", "done"},
         to \notin {"socket", "unregister", "done", "follow", "crashed"},
         from \in Attempt => to \in Attempt,
         from \in Polling => to \in Polling
  PROVE  IInv'
<1>1. /\ pc[q] = from /\ pc'[q] = to /\ pc' \in [Roles -> Places]
      /\ \A r \in Roles : r # q => pc'[r] = pc[r]
  BY GotoPlace DEF IInv
<1>2. /\ table' = table /\ serverFDs' = serverFDs /\ clientFDs' = clientFDs
      /\ sock' = sock /\ ep' = ep /\ fd' = fd /\ hub' = hub
      /\ running' = running /\ spc' = spc /\ moved' = moved /\ events' = events
  BY DEF fdVars, linkVars, stopVars
<1>3. Types'
  BY <1>1, <1>2 DEF IInv, Types
<1>4. \A r \in Roles : Kept(r)
  BY <1>2, SameTableKept
<1>5. \A r \in Roles : r # q => Untouched(r)
  BY <1>1, <1>2 DEF Untouched
<1>6. LinkInv(q)
  BY DEF IInv
<1>7. SocketInv(q)'
  BY <1>1, <1>2, <1>6 DEF LinkInv, SocketInv, Own
<1>8. EpollInv(q)'
  BY <1>1, <1>2, <1>6 DEF LinkInv, EpollInv, Own
<1>9. StopInv(q)' /\ CrashInv(q)'
  BY <1>1, <1>2, <1>6 DEF LinkInv, StopInv, CrashInv
<1> QED
  BY <1>3, <1>4, <1>5, <1>7, <1>8, <1>9, OthersInv DEF LinkInv

LEMMA MovesInv ==
  ASSUME IInv, NEW q \in Roles,
         \/ LeaveLoop(q) \/ ConnectFailed(q) \/ LeaveWait(q) \/ Poll(q)
         \/ PollTimedOut(q) \/ Follow(q) \/ Lost(q)
  PROVE  IInv'
<1>1. CASE LeaveLoop(q)
  BY <1>1, MoveInv DEF LeaveLoop, Places, Attempt, Polling
<1>2. CASE ConnectFailed(q)
  BY <1>2, MoveInv DEF ConnectFailed, Places, Attempt, Polling
<1>3. CASE LeaveWait(q)
  BY <1>3, MoveInv DEF LeaveWait, Places, Attempt, Polling
<1>4. CASE Poll(q)
  BY <1>4, MoveInv DEF Poll, Places, Attempt, Polling
<1>5. CASE PollTimedOut(q)
  BY <1>5, MoveInv DEF PollTimedOut, Places, Attempt, Polling
<1>6. CASE Follow(q)
  BY <1>6, MoveInv DEF Follow, Places, Attempt, Polling
<1>7. CASE Lost(q)
  BY <1>7, MoveInv DEF Lost, Places, Attempt, Polling
<1> QED
  BY <1>1, <1>2, <1>3, <1>4, <1>5, <1>6, <1>7

(* What the thread found under the lock, and what the loop makes of it.    *)
LEMMA WakeInv ==
  ASSUME IInv, NEW q \in Roles, Wake(q) \/ Crash(q)
  PROVE  IInv'
<1> DEFINE to == IF Wake(q) THEN IF hub[q] THEN "follow" ELSE "close_epoll" ELSE "crashed"
<1>1. /\ pc[q] \in {"poll", "follow"} /\ pc'[q] = to /\ pc' \in [Roles -> Places]
      /\ \A r \in Roles : r # q => pc'[r] = pc[r]
  BY DEF IInv, Types, Wake, Crash, Goto, Places
<1>2. /\ table' = table /\ serverFDs' = serverFDs /\ clientFDs' = clientFDs
      /\ sock' = sock /\ ep' = ep /\ fd' = fd /\ hub' = hub
      /\ running' = running /\ spc' = spc /\ moved' = moved /\ events' = events
  BY DEF fdVars, linkVars, stopVars, Wake, Crash
<1>3. Types'
  BY <1>1, <1>2 DEF IInv, Types
<1>4. \A r \in Roles : Kept(r)
  BY <1>2, SameTableKept
<1>5. \A r \in Roles : r # q => Untouched(r)
  BY <1>1, <1>2 DEF Untouched
<1>6. LinkInv(q)
  BY DEF IInv
<1>7. to \in {"follow", "close_epoll", "crashed"}
  OBVIOUS
<1>8. CrashInv(q)'
  <2>1. CASE Wake(q)
    BY <1>1, <1>2, <2>1 DEF CrashInv
  <2>2. CASE ~Wake(q)
    <3>1. pc[q] = "follow" /\ ~hub[q] /\ q # "event"
      BY <2>2 DEF Crash, Goto, Reachable
    <3>2. q = "command" /\ spc[q] \in {"close", "join"}
      BY <1>6, <3>1 DEF LinkInv, CrashInv
    <3> QED
      BY <1>1, <1>2, <2>2, <3>2 DEF CrashInv
  <2> QED
    BY <2>1, <2>2
<1> HIDE DEF to
<1>9. SocketInv(q)'
  BY <1>1, <1>2, <1>6, <1>7 DEF LinkInv, SocketInv, Own, Attempt
<1>10. EpollInv(q)'
  BY <1>1, <1>2, <1>6, <1>7 DEF LinkInv, EpollInv, Own, Polling
<1>11. StopInv(q)'
  BY <1>1, <1>2, <1>6 DEF LinkInv, StopInv
<1> QED
  BY <1>3, <1>4, <1>5, <1>8, <1>9, <1>10, <1>11, OthersInv DEF LinkInv

(* Steps that reset hubConnection_.  A client that runs has its socket     *)
(* there, so that it starts anew without one.                              *)
LEMMA ResetInv ==
  ASSUME IInv, NEW q \in Roles, Connecting(q) \/ GiveUp(q) \/ ResetLost(q)
  PROVE  IInv'
<1> DEFINE to == CASE Connecting(q) -> "socket"
                   [] ~Connecting(q) /\ GiveUp(q) -> "loop"
                   [] ~Connecting(q) /\ ~GiveUp(q) -> "close_epoll"
<1>1. /\ ResetConnection(q)
      /\ sock' = sock /\ ep' = ep
      /\ running' = running /\ spc' = spc /\ moved' = moved /\ events' = events
  BY DEF Connecting, GiveUp, ResetLost, stopVars
<1>2. /\ \/ pc[q] = "loop" /\ to = "socket" /\ running[q]
         \/ pc[q] = "give_up" /\ to = "loop"
         \/ pc[q] = "reset" /\ to = "close_epoll"
      /\ pc'[q] = to /\ pc' \in [Roles -> Places]
      /\ \A r \in Roles : r # q => pc'[r] = pc[r]
  BY DEF IInv, Types, Connecting, GiveUp, ResetLost, Goto, Places
<1>3. /\ table' \in Tables /\ clientFDs' \subseteq Numbers /\ serverFDs' = serverFDs
      /\ fd' \in [Roles -> Numbers] /\ hub' \in [Roles -> BOOLEAN] /\ hub'[q] = FALSE
      /\ \A r \in Roles : r # q => fd'[r] = fd[r] /\ hub'[r] = hub[r]
      /\ \A r \in Roles : Kept(r)
      /\ hub[q] /\ fd[q] \in clientFDs /\ fd[q] # NoFd =>
           \A r \in Roles, f \in Fds : Own(r, f)' => f # fd[q]
  BY <1>1, ResetKept DEF IInv
<1> HIDE DEF to
<1>4. Types'
  BY <1>1, <1>2, <1>3 DEF IInv, Types
<1>5. \A r \in Roles : r # q => Untouched(r)
  BY <1>1, <1>2, <1>3 DEF Untouched
<1>6. LinkInv(q)
  BY DEF IInv
<1>7. SocketInv(q)'
  <2> SUFFICES ASSUME NEW f \in Fds, Own(q, f)', table'[f].kind = "socket"
               PROVE  /\ f = sock'[q]
                      /\ pc'[q] = "register" \/ serverFDs'[q] = f
                      /\ pc'[q] \notin {"socket", "unregister", "done"}
                      /\ ~running'[q]
    BY DEF SocketInv
  <2>1. Own(q, f) /\ table[f].kind = "socket"
    BY <1>3 DEF Kept
  <2>2. /\ f = sock[q] /\ serverFDs[q] = f
        /\ running[q] => hub[q] /\ fd[q] = f /\ f \in clientFDs
    BY <1>2, <1>6, <2>1 DEF LinkInv, SocketInv, Attempt
  <2>3. ~running[q]
    BY <1>3, <2>2, FdIsNat
  <2> QED
    BY <1>1, <1>2, <1>3, <2>2, <2>3
<1>8. EpollInv(q)'
  BY <1>1, <1>2, <1>3, <1>6 DEF LinkInv, EpollInv, Kept, Polling
<1>9. StopInv(q)' /\ CrashInv(q)'
  BY <1>1, <1>2, <1>6 DEF LinkInv, StopInv, CrashInv
<1> QED
  BY <1>3, <1>4, <1>5, <1>7, <1>8, <1>9, OthersInv DEF LinkInv

LEMMA CloseLostInv ==
  ASSUME IInv, NEW q \in Roles, CloseLost(q)
  PROVE  IInv'
<1>1. /\ sock' = sock /\ ep' = ep /\ hub' = hub
      /\ running' = running /\ spc' = spc /\ moved' = moved /\ events' = events
  BY DEF CloseLost, stopVars
<1>2. /\ pc[q] = "close_client" /\ pc'[q] = "reset" /\ pc' \in [Roles -> Places]
      /\ \A r \in Roles : r # q => pc'[r] = pc[r]
  BY GotoPlace DEF IInv, CloseLost, Places
<1>3. /\ table' \in Tables /\ clientFDs' \subseteq Numbers /\ serverFDs' = serverFDs
      /\ fd' \in [Roles -> Numbers]
      /\ \A r \in Roles : r # q => fd'[r] = fd[r]
      /\ \A r \in Roles : Kept(r)
      /\ fd[q] \in clientFDs /\ fd[q] # NoFd =>
           \A r \in Roles, f \in Fds : Own(r, f)' => f # fd[q]
  BY CloseClientKept DEF IInv, CloseLost
<1>4. Types'
  BY <1>1, <1>2, <1>3 DEF IInv, Types
<1>5. \A r \in Roles : r # q => Untouched(r)
  BY <1>1, <1>2, <1>3 DEF Untouched
<1>6. LinkInv(q)
  BY DEF IInv
<1>7. SocketInv(q)'
  <2> SUFFICES ASSUME NEW f \in Fds, Own(q, f)', table'[f].kind = "socket"
               PROVE  f = sock'[q] /\ serverFDs'[q] = f /\ ~running'[q]
    BY <1>2 DEF SocketInv
  <2>1. Own(q, f) /\ table[f].kind = "socket"
    BY <1>3 DEF Kept
  <2>2. /\ f = sock[q] /\ serverFDs[q] = f
        /\ running[q] => fd[q] = f /\ f \in clientFDs
    BY <1>2, <1>6, <2>1 DEF LinkInv, SocketInv, Attempt
  <2>3. ~running[q]
    BY <1>3, <2>2, FdIsNat
  <2> QED
    BY <1>1, <1>3, <2>2, <2>3
<1>8. EpollInv(q)'
  BY <1>1, <1>2, <1>3, <1>6 DEF LinkInv, EpollInv, Kept, Polling
<1>9. StopInv(q)' /\ CrashInv(q)'
  BY <1>1, <1>2, <1>6 DEF LinkInv, StopInv, CrashInv
<1> QED
  BY <1>3, <1>4, <1>5, <1>7, <1>8, <1>9, OthersInv DEF LinkInv

(* The slot of the server descriptor: it gets the number of the attempt,   *)
(* and gives up that of a failed one or of the last.                       *)
LEMMA SlotInv ==
  ASSUME IInv, NEW q \in Roles, Register(q) \/ Unregister(q) \/ Final(q)
  PROVE  IInv'
<1> DEFINE n == IF Register(q) THEN sock[q] ELSE NoFd
<1>1. /\ SetServerFD(q, n)
      /\ sock' = sock /\ ep' = ep /\ fd' = fd /\ hub' = hub
      /\ running' = running /\ spc' = spc /\ moved' = moved /\ events' = events
  BY DEF Register, Unregister, Final, RemoveServerFD, linkVars, stopVars
<1>2. /\ \/ pc[q] = "register" /\ pc'[q] = "connect" /\ n = sock[q]
         \/ pc[q] = "unregister" /\ pc'[q] = "loop"
         \/ pc[q] = "final" /\ pc'[q] = "done"
      /\ pc' \in [Roles -> Places]
      /\ \A r \in Roles : r # q => pc'[r] = pc[r]
  BY DEF IInv, Types, Register, Unregister, Final, Goto, Places
<1>3. n \in Numbers
  BY DEF IInv, Types, Numbers
<1> HIDE DEF n
<1>4. /\ table' \in Tables /\ clientFDs' = clientFDs
      /\ serverFDs' \in [Roles -> Numbers] /\ serverFDs'[q] = n
      /\ \A r \in Roles : r # q => serverFDs'[r] = serverFDs[r]
      /\ \A r \in Roles : Kept(r)
      /\ \A r \in Roles, f \in Fds : Own(r, f)' => f # serverFDs[q]
  BY <1>1, <1>3, SetServerKept DEF IInv, Types
<1>5. Types'
  BY <1>1, <1>2, <1>4 DEF IInv, Types
<1>6. \A r \in Roles : r # q => Untouched(r)
  BY <1>1, <1>2, <1>4 DEF Untouched
<1>7. LinkInv(q)
  BY DEF IInv
<1>8. SocketInv(q)'
  <2> SUFFICES ASSUME NEW f \in Fds, Own(q, f)', table'[f].kind = "socket"
               PROVE  f = sock'[q] /\ serverFDs'[q] = f /\ pc'[q] = "connect"
    BY DEF SocketInv, Attempt
  <2>1. Own(q, f) /\ table[f].kind = "socket"
    BY <1>4 DEF Kept
  <2>2. /\ f = sock[q] /\ pc[q] # "unregister"
        /\ pc[q] # "register" => serverFDs[q] = f
    BY <1>7, <2>1 DEF LinkInv, SocketInv
  <2> QED
    BY <1>1, <1>2, <1>4, <2>2
<1>9. EpollInv(q)'
  BY <1>1, <1>2, <1>4, <1>7 DEF LinkInv, EpollInv, Kept, Polling
<1>10. StopInv(q)' /\ CrashInv(q)'
  BY <1>1, <1>2, <1>7 DEF LinkInv, StopInv, CrashInv
<1> QED
  BY <1>4, <1>5, <1>6, <1>8, <1>9, <1>10, OthersInv DEF LinkInv

(* Steps that close a descriptor by its number.                            *)
LEMMA CloseInv ==
  ASSUME IInv, NEW q \in Roles, CloseSocket(q) \/ WatchFailed(q) \/ CloseEpoll(q)
  PROVE  IInv'
<1> DEFINE n == IF CloseSocket(q) THEN sock[q] ELSE ep[q]
<1>1. /\ CloseFd(n) /\ serverFDs' = serverFDs /\ clientFDs' = clientFDs
      /\ sock' = sock /\ ep' = ep /\ fd' = fd /\ hub' = hub
      /\ running' = running /\ spc' = spc /\ moved' = moved /\ events' = events
  BY DEF CloseSocket, WatchFailed, CloseEpoll, linkVars, stopVars
<1>2. /\ \/ pc[q] = "close_sock" /\ pc'[q] = "unregister" /\ n = sock[q]
         \/ pc[q] = "watch" /\ pc'[q] = "give_up" /\ n = ep[q]
         \/ pc[q] = "close_epoll" /\ pc'[q] = "loop" /\ n = ep[q]
      /\ pc' \in [Roles -> Places]
      /\ \A r \in Roles : r # q => pc'[r] = pc[r]
  BY DEF IInv, Types, CloseSocket, WatchFailed, CloseEpoll, Goto, Places
<1> HIDE DEF n
<1>3. /\ table' \in Tables
      /\ \A r \in Roles, f \in Fds : Own(r, f)' =>
           Own(r, f) /\ f # n /\ table'[f].kind = table[f].kind
  BY <1>1, CloseFdKept DEF IInv, Types
<1>4. \A r \in Roles : Kept(r)
  BY <1>1, <1>3 DEF Kept
<1>5. Types'
  BY <1>1, <1>2, <1>3 DEF IInv, Types
<1>6. \A r \in Roles : r # q => Untouched(r)
  BY <1>1, <1>2 DEF Untouched
<1>7. LinkInv(q)
  BY DEF IInv
<1>8. SocketInv(q)'
  <2> SUFFICES ASSUME NEW f \in Fds, Own(q, f)', table'[f].kind = "socket"
               PROVE  /\ f = sock'[q] /\ serverFDs'[q] = f
                      /\ pc'[q] \in {"give_up", "loop"}
                      /\ running'[q] => hub'[q] /\ fd'[q] = f /\ f \in clientFDs'
    BY DEF SocketInv
  <2>1. Own(q, f) /\ table[f].kind = "socket" /\ f # n
    BY <1>3
  <2>2. /\ f = sock[q]
        /\ pc[q] = "register" \/ serverFDs[q] = f
        /\ running[q] /\ pc[q] \notin Attempt => hub[q] /\ fd[q] = f /\ f \in clientFDs
    BY <1>7, <2>1 DEF LinkInv, SocketInv
  <2>3. pc[q] \notin Attempt
    BY <1>2, <2>1, <2>2 DEF Attempt
  <2> QED
    BY <1>1, <1>2, <2>1, <2>2, <2>3
<1>9. EpollInv(q)'
  <2> SUFFICES ASSUME NEW f \in Fds, Own(q, f)', table'[f].kind = "epoll"
               PROVE  FALSE
    BY DEF EpollInv
  <2>1. Own(q, f) /\ table[f].kind = "epoll" /\ f # n
    BY <1>3
  <2>2. f = ep[q] /\ pc[q] \in Polling
    BY <1>7, <2>1 DEF LinkInv, EpollInv
  <2> QED
    BY <1>2, <2>1, <2>2 DEF Polling
<1>10. StopInv(q)' /\ CrashInv(q)'
  BY <1>1, <1>2, <1>7 DEF LinkInv, StopInv, CrashInv
<1> QED
  BY <1>4, <1>5, <1>6, <1>8, <1>9, <1>10, OthersInv DEF LinkInv

(* A descriptor that is opened was nobody's.                               *)
LEMMA OpenKept ==
  ASSUME table \in Tables, NEW q \in Roles, NEW file \in File, file.owner = q,
         LowestFree # NoFd, Open(LowestFree, file), clientFDs' = clientFDs
  PROVE  /\ LowestFree \in Fds /\ table[LowestFree] = Closed
         /\ table' \in Tables /\ table'[LowestFree] = file
         /\ \A f \in Fds : f # LowestFree => table'[f] = table[f]
         /\ \A r \in Roles : r # q => Kept(r)
<1>1. LowestFree \in Fds /\ table[LowestFree] = Closed
  BY LowestIsFree DEF FreeFds
<1> DEFINE n == LowestFree
<1>2. table' = [table EXCEPT ![n] = file]
  BY DEF Open
<1> HIDE DEF n
<1>3. n \in Fds /\ table[n] = Closed
  BY <1>1 DEF n
<1>4. table' \in Tables /\ table'[n] = file /\ \A f \in Fds : f # n => table'[f] = table[f]
  BY <1>2, <1>3 DEF Tables
<1>5. ASSUME NEW r \in Roles, r # q PROVE Kept(r)
  <2> SUFFICES ASSUME NEW f \in Fds, Own(r, f)'
               PROVE  Own(r, f) /\ table'[f].kind = table[f].kind
    BY DEF Kept
  <2>1. f # n
    BY <1>4, <1>5 DEF Own
  <2> QED
    BY <1>4, <2>1 DEF Own
<1> QED
  BY <1>3, <1>4, <1>5 DEF n

LEMMA NumbersOfFiles ==
  LowestFree \in Numbers
  BY LowestIsFree DEF Numbers, FreeFds

LEMMA NewFiles ==
  ASSUME NEW q \in Roles
  PROVE  /\ NewSocket(q) \in File /\ NewSocket(q).owner = q /\ NewSocket(q).kind = "socket"
         /\ NewEpoll(q) \in File /\ NewEpoll(q).owner = q /\ NewEpoll(q).kind = "epoll"
  BY DEF NewSocket, NewEpoll, File

LEMMA MakeSocketInv ==
  ASSUME IInv, NEW q \in Roles, MakeSocket(q)
  PROVE  IInv'
<1>1. /\ serverFDs' = serverFDs /\ clientFDs' = clientFDs /\ ep' = ep /\ fd' = fd /\ hub' = hub
      /\ running' = running /\ spc' = spc /\ moved' = moved /\ events' = events
  BY DEF MakeSocket, linkVars, stopVars
<1>2. /\ sock' \in [Roles -> Numbers] /\ sock'[q] = LowestFree
      /\ \A r \in Roles : r # q => sock'[r] = sock[r]
  BY NumbersOfFiles DEF IInv, Types, MakeSocket
<1>3. /\ pc[q] = "socket" /\ pc'[q] \in {"loop", "register"} /\ pc' \in [Roles -> Places]
      /\ \A r \in Roles : r # q => pc'[r] = pc[r]
  BY DEF IInv, Types, MakeSocket, Goto, Places
<1>4. /\ table' \in Tables
      /\ \A r \in Roles : r # q => Kept(r)
      /\ \A f \in Fds : Own(q, f)' =>
           \/ Own(q, f) /\ table'[f].kind = table[f].kind
           \/ f = LowestFree /\ pc'[q] = "register" /\ table'[f].kind = "socket"
  <2>1. CASE LowestFree = NoFd
    <3>1. table' = table
      BY <2>1 DEF MakeSocket
    <3>2. \A r \in Roles : Kept(r)
      BY <1>1, <3>1, SameTableKept
    <3> QED
      BY <3>1, <3>2 DEF IInv, Types, Own
  <2>2. CASE LowestFree # NoFd
    <3>1. Open(LowestFree, NewSocket(q)) /\ pc'[q] = "register"
      BY <2>2 DEF IInv, Types, MakeSocket, Goto
    <3>2. /\ table' \in Tables /\ table'[LowestFree] = NewSocket(q)
          /\ \A f \in Fds : f # LowestFree => table'[f] = table[f]
          /\ \A r \in Roles : r # q => Kept(r)
      BY <1>1, <2>2, <3>1, OpenKept, NewFiles DEF IInv, Types
    <3>3. table'[LowestFree].kind = "socket"
      BY <3>2, NewFiles
    <3>4. \A f \in Fds : f # LowestFree /\ Own(q, f)' =>
            Own(q, f) /\ table'[f].kind = table[f].kind
      BY <3>2, Zenon DEF Own
    <3> QED
      BY <3>1, <3>2, <3>3, <3>4, Zenon
  <2> QED
    BY <2>1, <2>2
<1>5. Types'
  BY <1>1, <1>2, <1>3, <1>4 DEF IInv, Types
<1>6. \A r \in Roles : r # q => Untouched(r)
  BY <1>1, <1>2, <1>3 DEF Untouched
<1>7. LinkInv(q)
  BY DEF IInv
<1>8. SocketInv(q)'
  <2> SUFFICES ASSUME NEW f \in Fds, Own(q, f)', table'[f].kind = "socket"
               PROVE  f = sock'[q] /\ pc'[q] = "register"
    BY DEF SocketInv, Attempt
  <2>1. ~(Own(q, f) /\ table[f].kind = "socket")
    BY <1>3, <1>7 DEF LinkInv, SocketInv
  <2> QED
    BY <1>2, <1>4, <2>1
<1>9. EpollInv(q)'
  BY <1>3, <1>4, <1>7 DEF LinkInv, EpollInv, Polling
<1>10. StopInv(q)' /\ CrashInv(q)'
  BY <1>1, <1>3, <1>7 DEF LinkInv, StopInv, CrashInv
<1> QED
  BY <1>4, <1>5, <1>6, <1>8, <1>9, <1>10, OthersInv DEF LinkInv

LEMMA MakeEpollInv ==
  ASSUME IInv, NEW q \in Roles, MakeEpoll(q)
  PROVE  IInv'
<1>1. /\ serverFDs' = serverFDs /\ clientFDs' = clientFDs /\ sock' = sock /\ fd' = fd /\ hub' = hub
      /\ running' = running /\ spc' = spc /\ moved' = moved /\ events' = events
  BY DEF MakeEpoll, linkVars, stopVars
<1>2. /\ ep' \in [Roles -> Numbers] /\ ep'[q] = LowestFree
      /\ \A r \in Roles : r # q => ep'[r] = ep[r]
  BY NumbersOfFiles DEF IInv, Types, MakeEpoll
<1>3. /\ pc[q] = "epoll" /\ pc'[q] \in {"give_up", "watch"} /\ pc' \in [Roles -> Places]
      /\ \A r \in Roles : r # q => pc'[r] = pc[r]
  BY DEF IInv, Types, MakeEpoll, Goto, Places
<1>4. /\ table' \in Tables
      /\ \A r \in Roles : r # q => Kept(r)
      /\ \A f \in Fds : Own(q, f)' =>
           \/ Own(q, f) /\ table'[f].kind = table[f].kind
           \/ f = LowestFree /\ pc'[q] = "watch" /\ table'[f].kind = "epoll"
  <2>1. CASE LowestFree = NoFd
    <3>1. table' = table
      BY <2>1 DEF MakeEpoll
    <3>2. \A r \in Roles : Kept(r)
      BY <1>1, <3>1, SameTableKept
    <3> QED
      BY <3>1, <3>2 DEF IInv, Types, Own
  <2>2. CASE LowestFree # NoFd
    <3>1. Open(LowestFree, NewEpoll(q)) /\ pc'[q] = "watch"
      BY <2>2 DEF IInv, Types, MakeEpoll, Goto
    <3>2. /\ table' \in Tables /\ table'[LowestFree] = NewEpoll(q)
          /\ \A f \in Fds : f # LowestFree => table'[f] = table[f]
          /\ \A r \in Roles : r # q => Kept(r)
      BY <1>1, <2>2, <3>1, OpenKept, NewFiles DEF IInv, Types
    <3>3. table'[LowestFree].kind = "epoll"
      BY <3>2, NewFiles
    <3>4. \A f \in Fds : f # LowestFree /\ Own(q, f)' =>
            Own(q, f) /\ table'[f].kind = table[f].kind
      BY <3>2, Zenon DEF Own
    <3> QED
      BY <3>1, <3>2, <3>3, <3>4, Zenon
  <2> QED
    BY <2>1, <2>2
<1>5. Types'
  BY <1>1, <1>2, <1>3, <1>4 DEF IInv, Types
<1>6. \A r \in Roles : r # q => Untouched(r)
  BY <1>1, <1>2, <1>3 DEF Untouched
<1>7. LinkInv(q)
  BY DEF IInv
<1>8. SocketInv(q)'
  BY <1>1, <1>3, <1>4, <1>7 DEF LinkInv, SocketInv, Attempt
<1>9. EpollInv(q)'
  <2> SUFFICES ASSUME NEW f \in Fds, Own(q, f)', table'[f].kind = "epoll"
               PROVE  f = ep'[q] /\ pc'[q] = "watch"
    BY DEF EpollInv, Polling
  <2>1. ~(Own(q, f) /\ table[f].kind = "epoll")
    BY <1>3, <1>7 DEF LinkInv, EpollInv, Polling
  <2> QED
    BY <1>2, <1>4, <2>1
<1>10. StopInv(q)' /\ CrashInv(q)'
  BY <1>1, <1>3, <1>7 DEF LinkInv, StopInv, CrashInv
<1> QED
  BY <1>4, <1>5, <1>6, <1>8, <1>9, <1>10, OthersInv DEF LinkInv

(* What the peer did and what an epoll watches leave the owners alone.     *)
LEMMA PeerKept ==
  ASSUME table \in Tables, NEW n \in Fds, table[n] # Closed,
         NEW p \in {"none", "up", "data", "hup"},
         table' = [table EXCEPT ![n].peer = p], clientFDs' = clientFDs
  PROVE  table' \in Tables /\ \A r \in Roles : Kept(r)
<1> DEFINE file == [table[n] EXCEPT !.peer = p]
<1>1. table[n] \in File
  BY DEF Tables
<1>2. file \in File /\ file.owner = table[n].owner /\ file.kind = table[n].kind
  BY <1>1 DEF File
<1>3. table' = [table EXCEPT ![n] = file]
  OBVIOUS
<1> HIDE DEF file
<1>4. table'[n] = file /\ table' \in Tables /\ \A f \in Fds : f # n => table'[f] = table[f]
  BY <1>2, <1>3 DEF Tables
<1>5. \A r \in Roles : Kept(r)
  BY <1>2, <1>4 DEF Kept, Own
<1> QED
  BY <1>4, <1>5

LEMMA WatchKept ==
  ASSUME table \in Tables, NEW n \in Fds, table[n] # Closed, NEW m \in Numbers,
         table' = [table EXCEPT ![n].watch = @ \cup {m}], clientFDs' = clientFDs
  PROVE  table' \in Tables /\ \A r \in Roles : Kept(r)
<1> DEFINE file == [table[n] EXCEPT !.watch = @ \cup {m}]
<1>1. table[n] \in File
  BY DEF Tables
<1>2. file \in File /\ file.owner = table[n].owner /\ file.kind = table[n].kind
  BY <1>1 DEF File
<1>3. table' = [table EXCEPT ![n] = file]
  OBVIOUS
<1> HIDE DEF file
<1>4. table'[n] = file /\ table' \in Tables /\ \A f \in Fds : f # n => table'[f] = table[f]
  BY <1>2, <1>3 DEF Tables
<1>5. \A r \in Roles : Kept(r)
  BY <1>2, <1>4 DEF Kept, Own
<1> QED
  BY <1>4, <1>5

LEMMA SocketIsOpen ==
  ASSUME table \in Tables, NEW f, IsSocket(f) \/ IsEpoll(f)
  PROVE  f \in Fds /\ table[f] # Closed
  BY DEF IsSocket, IsEpoll, Closed, Tables, File

LEMMA EditInv ==
  ASSUME IInv, NEW q \in Roles, Connected(q) \/ Watch(q) \/ Receive(q)
  PROVE  IInv'
<1>1. /\ serverFDs' = serverFDs /\ clientFDs' = clientFDs
      /\ sock' = sock /\ ep' = ep /\ fd' = fd /\ hub' = hub
      /\ running' = running /\ spc' = spc /\ moved' = moved /\ events' = events
  BY DEF Connected, Watch, Receive, linkVars, stopVars
<1>2. /\ \/ pc[q] = "connect" /\ pc'[q] = "store"
         \/ pc[q] = "watch" /\ pc'[q] = "wait"
         \/ pc[q] = "recv" /\ pc'[q] \in {"wait", "close_client"}
      /\ pc' \in [Roles -> Places]
      /\ \A r \in Roles : r # q => pc'[r] = pc[r]
  BY DEF IInv, Types, Connected, Watch, Receive, Goto, Places
<1>3. table' \in Tables /\ \A r \in Roles : Kept(r)
  <2>1. CASE Connected(q)
    BY <1>1, <2>1, SocketIsOpen, PeerKept DEF IInv, Types, Connected
  <2>2. CASE Watch(q)
    BY <1>1, <2>2, SocketIsOpen, WatchKept DEF IInv, Types, Watch, CanWatch
  <2>3. CASE Receive(q)
    BY <1>1, <2>3, SocketIsOpen, PeerKept DEF IInv, Types, Receive, HasData
  <2> QED
    BY <2>1, <2>2, <2>3
<1>4. Types'
  BY <1>1, <1>2, <1>3 DEF IInv, Types
<1>5. \A r \in Roles : r # q => Untouched(r)
  BY <1>1, <1>2 DEF Untouched
<1>6. LinkInv(q)
  BY DEF IInv
<1>7. SocketInv(q)'
  <2> SUFFICES ASSUME NEW f \in Fds, Own(q, f)', table'[f].kind = "socket"
               PROVE  /\ f = sock'[q] /\ serverFDs'[q] = f
                      /\ pc'[q] \notin {"socket", "unregister", "done"}
                      /\ running'[q] /\ pc'[q] \notin Attempt =>
                           hub'[q] /\ fd'[q] = f /\ f \in clientFDs'
    BY DEF SocketInv
  <2>1. Own(q, f) /\ table[f].kind = "socket"
    BY <1>3 DEF Kept
  <2>2. /\ f = sock[q] /\ serverFDs[q] = f
        /\ running[q] /\ pc[q] \notin Attempt => hub[q] /\ fd[q] = f /\ f \in clientFDs
    BY <1>2, <1>6, <2>1 DEF LinkInv, SocketInv
  <2> QED
    BY <1>1, <1>2, <2>2 DEF Attempt
<1>8. EpollInv(q)'
  BY <1>1, <1>2, <1>3, <1>6 DEF LinkInv, EpollInv, Kept, Polling
<1>9. StopInv(q)' /\ CrashInv(q)'
  BY <1>1, <1>2, <1>6 DEF LinkInv, StopInv, CrashInv
<1> QED
  BY <1>3, <1>4, <1>5, <1>7, <1>8, <1>9, OthersInv DEF LinkInv

LEMMA StoreInv ==
  ASSUME IInv, NEW q \in Roles, Store(q)
  PROVE  IInv'
<1>1. /\ table' = table /\ serverFDs' = serverFDs /\ clientFDs' = clientFDs \cup {sock[q]}
      /\ sock' = sock /\ ep' = ep
      /\ running' = running /\ spc' = spc /\ moved' = moved /\ events' = events
  BY DEF Store, AddClientFD, stopVars
<1>2. /\ fd' \in [Roles -> Numbers] /\ fd'[q] = sock[q]
      /\ hub' \in [Roles -> BOOLEAN] /\ hub'[q] = TRUE
      /\ \A r \in Roles : r # q => fd'[r] = fd[r] /\ hub'[r] = hub[r]
      /\ clientFDs' \subseteq Numbers
  BY <1>1 DEF IInv, Types, Store
<1>3. /\ pc[q] = "store" /\ pc'[q] = "epoll" /\ pc' \in [Roles -> Places]
      /\ \A r \in Roles : r # q => pc'[r] = pc[r]
  BY GotoPlace DEF IInv, Store, Places
<1>4. \A r \in Roles : Kept(r)
  BY <1>1, SameTableKept
<1>5. Types'
  BY <1>1, <1>2, <1>3 DEF IInv, Types
<1>6. \A r \in Roles : r # q => Untouched(r)
  BY <1>1, <1>2, <1>3 DEF Untouched
<1>7. LinkInv(q)
  BY DEF IInv
<1>8. SocketInv(q)'
  BY <1>1, <1>2, <1>3, <1>7 DEF LinkInv, SocketInv, Own
<1>9. EpollInv(q)'
  BY <1>1, <1>3, <1>7 DEF LinkInv, EpollInv, Own, Polling
<1>10. StopInv(q)' /\ CrashInv(q)'
  BY <1>1, <1>3, <1>7 DEF LinkInv, StopInv, CrashInv
<1> QED
  BY <1>4, <1>5, <1>6, <1>8, <1>9, <1>10, OthersInv DEF LinkInv

-----------------------------------------------------------------------------
(* The steps of stop(), and of the hub.                                    *)
LEMMA StopsInv ==
  ASSUME IInv, NEW q \in Roles,
         Stop(q) \/ StopMove(q) \/ StopJoin(q)
  PROVE  IInv'
<1>1. /\ table' = table /\ serverFDs' = serverFDs /\ clientFDs' = clientFDs
      /\ pc' = pc /\ sock' = sock /\ ep' = ep /\ fd' = fd /\ events' = events
  BY DEF Stop, StopMove, StopJoin, fdVars, threadVars, linkVars
<1>2. /\ spc' \in [Roles -> {"none", "move", "close", "join", "remove", "done"}]
      /\ \A r \in Roles : r # q => spc'[r] = spc[r]
      /\ running' \in [Roles -> BOOLEAN] /\ \A r \in Roles : r # q => running'[r] = running[r]
      /\ hub' \in [Roles -> BOOLEAN] /\ \A r \in Roles : r # q => hub'[r] = hub[r]
      /\ moved' \in [Roles -> BOOLEAN]
      /\ pc[q] # "crashed"
  BY DEF IInv, Types, Stop, StopMove, StopJoin, StopStep, Alive, linkVars
<1>3. \/ /\ spc[q] = "none" /\ spc'[q] = "move" /\ hub'[q] = hub[q] /\ ~running'[q]
      \/ /\ spc[q] = "move" /\ spc'[q] = "close" /\ running'[q] = running[q]
      \/ /\ spc[q] = "join" /\ spc'[q] = "remove" /\ hub'[q] = hub[q] /\ running'[q] = running[q]
         /\ pc[q] = "done"
  BY DEF IInv, Types, Stop, StopMove, StopJoin, StopStep, linkVars
<1>4. \A r \in Roles : Kept(r)
  BY <1>1, SameTableKept
<1>5. Types'
  BY <1>1, <1>2 DEF IInv, Types
<1>6. \A r \in Roles : r # q => Untouched(r)
  BY <1>1, <1>2 DEF Untouched
<1>7. LinkInv(q)
  BY DEF IInv
<1>8. ~running'[q]
  BY <1>2, <1>3, <1>7 DEF LinkInv, StopInv, IInv, Types
<1>9. SocketInv(q)'
  BY <1>1, <1>7, <1>8 DEF LinkInv, SocketInv, Own
<1>10. EpollInv(q)'
  BY <1>1, <1>7 DEF LinkInv, EpollInv, Own
<1>11. StopInv(q)' /\ CrashInv(q)'
  BY <1>1, <1>2, <1>3, <1>7, <1>8 DEF LinkInv, StopInv, CrashInv
<1> QED
  BY <1>4, <1>5, <1>6, <1>9, <1>10, <1>11, OthersInv DEF LinkInv

LEMMA StopClosesInv ==
  ASSUME IInv, NEW q \in Roles, StopClose(q) \/ StopRemove(q)
  PROVE  IInv'
<1>1. /\ pc' = pc /\ sock' = sock /\ ep' = ep /\ hub' = hub
      /\ running' = running /\ moved' = moved /\ events' = events
  BY DEF StopClose, StopRemove, threadVars, linkVars
<1>2. /\ spc' \in [Roles -> {"none", "move", "close", "join", "remove", "done"}]
      /\ \A r \in Roles : r # q => spc'[r] = spc[r]
      /\ \/ spc[q] = "close" /\ spc'[q] = "join"
         \/ spc[q] = "remove" /\ spc'[q] = "done"
      /\ pc[q] # "crashed"
  BY DEF IInv, Types, StopClose, StopRemove, StopStep, Alive
<1>3. LinkInv(q)
  BY DEF IInv
<1>4. /\ table' \in Tables /\ clientFDs' \subseteq Numbers
      /\ serverFDs' \in [Roles -> Numbers] /\ fd' \in [Roles -> Numbers]
      /\ \A r \in Roles : r # q => serverFDs'[r] = serverFDs[r] /\ fd'[r] = fd[r]
      /\ \A r \in Roles : Kept(r)
      /\ serverFDs'[q] = serverFDs[q] \/ pc[q] = "done"
  <2>1. CASE StopClose(q)
    <3>1. CASE moved[q]
      BY <2>1, <3>1, CloseClientKept DEF StopClose, IInv, Types
    <3>2. CASE ~moved[q]
      <4>1. table' = table /\ clientFDs' = clientFDs /\ serverFDs' = serverFDs /\ fd' = fd
        BY <2>1, <3>2 DEF StopClose, fdVars
      <4>2. \A r \in Roles : Kept(r)
        BY <4>1, SameTableKept
      <4> QED
        BY <4>1, <4>2 DEF IInv, Types
    <3> QED
      BY <3>1, <3>2
  <2>2. CASE StopRemove(q)
    <3>1. SetServerFD(q, NoFd) /\ fd' = fd /\ spc[q] = "remove"
      BY <2>2 DEF StopRemove, RemoveServerFD, linkVars, StopStep
    <3>2. pc[q] = "done"
      BY <1>3, <3>1 DEF LinkInv, StopInv
    <3>3. NoFd \in Numbers
      BY DEF Numbers
    <3> QED
      BY <3>1, <3>2, <3>3, SetServerKept DEF IInv, Types
  <2> QED
    BY <2>1, <2>2
<1>5. Types'
  BY <1>1, <1>2, <1>4 DEF IInv, Types
<1>6. \A r \in Roles : r # q => Untouched(r)
  BY <1>1, <1>2, <1>4 DEF Untouched
<1>7. ~running[q]
  BY <1>2, <1>3 DEF LinkInv, StopInv
<1>8. SocketInv(q)'
  <2> SUFFICES ASSUME NEW f \in Fds, Own(q, f)', table'[f].kind = "socket"
               PROVE  /\ f = sock'[q]
                      /\ pc'[q] = "register" \/ serverFDs'[q] = f
                      /\ pc'[q] \notin {"socket", "unregister", "done"}
    BY <1>1, <1>7 DEF SocketInv
  <2>1. Own(q, f) /\ table[f].kind = "socket"
    BY <1>4 DEF Kept
  <2> QED
    BY <1>1, <1>3, <1>4, <2>1 DEF LinkInv, SocketInv
<1>9. EpollInv(q)'
  BY <1>1, <1>3, <1>4 DEF LinkInv, EpollInv, Kept
<1>10. StopInv(q)' /\ CrashInv(q)'
  BY <1>1, <1>2, <1>3 DEF LinkInv, StopInv, CrashInv
<1> QED
  BY <1>4, <1>5, <1>6, <1>8, <1>9, <1>10, OthersInv DEF LinkInv

LEMMA HubInv ==
  ASSUME IInv, HubActs
  PROVE  IInv'
<1>1. /\ serverFDs' = serverFDs /\ clientFDs' = clientFDs /\ pc' = pc
      /\ sock' = sock /\ ep' = ep /\ fd' = fd /\ hub' = hub
      /\ running' = running /\ spc' = spc /\ moved' = moved
  BY DEF HubActs, threadVars, linkVars, stopVars
<1>2. events' \in 0..MaxEvents
  BY DEF HubActs, IInv, Types
<1>3. PICK f \in Fds, p \in {"data", "hup"} :
        IsSocket(f) /\ table' = [table EXCEPT ![f].peer = p]
  BY DEF HubActs
<1>4. table' \in Tables /\ \A r \in Roles : Kept(r)
  BY <1>1, <1>3, SocketIsOpen, PeerKept DEF IInv, Types
<1>5. Types'
  BY <1>1, <1>2, <1>4 DEF IInv, Types
<1>6. \A r \in Roles : Untouched(r)
  BY <1>1 DEF Untouched
<1>7. \A r \in Roles : LinkInv(r)'
  BY <1>4, <1>6, UntouchedInv DEF IInv
<1> QED
  BY <1>5, <1>7 DEF IInv

-----------------------------------------------------------------------------
LEMMA InitIInv ==
  ASSUME Init
  PROVE  IInv
<1>1. Types
  BY DEF Init, FdInit, Types, Tables, Numbers, Places
<1>2. \A r \in Roles : LinkInv(r)
  BY DEF Init, FdInit, LinkInv, SocketInv, EpollInv, StopInv, CrashInv, Own
<1> QED
  BY <1>1, <1>2 DEF IInv

LEMMA StutterIInv ==
  ASSUME IInv, UNCHANGED vars
  PROVE  IInv'
  BY DEF vars, fdVars, threadVars, linkVars, stopVars, IInv, Types, LinkInv,
         SocketInv, EpollInv, StopInv, CrashInv, Own

LEMMA RunIInv ==
  ASSUME IInv, NEW q \in Roles, Run(q)
  PROVE  IInv'
<1>1. CASE LeaveLoop(q) \/ ConnectFailed(q) \/ LeaveWait(q) \/ Poll(q)
             \/ PollTimedOut(q) \/ Follow(q) \/ Lost(q)
  BY <1>1, MovesInv
<1>2. CASE Wake(q) \/ Crash(q)
  BY <1>2, WakeInv
<1>3. CASE Connecting(q) \/ GiveUp(q) \/ ResetLost(q)
  BY <1>3, ResetInv
<1>4. CASE CloseLost(q)
  BY <1>4, CloseLostInv
<1>5. CASE Register(q) \/ Unregister(q) \/ Final(q)
  BY <1>5, SlotInv
<1>6. CASE CloseSocket(q) \/ WatchFailed(q) \/ CloseEpoll(q)
  BY <1>6, CloseInv
<1>7. CASE MakeSocket(q)
  BY <1>7, MakeSocketInv
<1>8. CASE MakeEpoll(q)
  BY <1>8, MakeEpollInv
<1>9. CASE Connected(q) \/ Watch(q) \/ Receive(q)
  BY <1>9, EditInv
<1>10. CASE Store(q)
  BY <1>10, StoreInv
<1> QED
  BY <1>1, <1>2, <1>3, <1>4, <1>5, <1>6, <1>7, <1>8, <1>9, <1>10, Zenon DEF Run

LEMMA NextIInv ==
  ASSUME IInv, [Next]_vars
  PROVE  IInv'
<1>1. CASE UNCHANGED vars
  BY <1>1, StutterIInv
<1>2. CASE HubActs
  BY <1>2, HubInv
<1>3. ASSUME NEW q \in Roles, Run(q)
      PROVE  IInv'
  BY <1>3, RunIInv
<1>4. ASSUME NEW q \in Roles, Stop(q) \/ StopSteps(q)
      PROVE  IInv'
  BY <1>4, StopsInv, StopClosesInv DEF StopSteps
<1> QED
  BY <1>1, <1>2, <1>3, <1>4 DEF Next

(* Every file a client has open is one it will close, and where its thread *)
(* and its stop are tells which: GRAMS_TOF_CommandClient::run, stop and    *)
(* GRAMS_TOF_FDManager.                                                    *)
THEOREM Invariance == Spec => []IInv
  BY InitIInv, NextIInv, PTL DEF Spec

-----------------------------------------------------------------------------
LEMMA AtMostTwo ==
  ASSUME NEW S, NEW a, NEW b, S \subseteq {a, b}
  PROVE  Cardinality(S) <= 2
<1>1. IsFiniteSet({a}) /\ Cardinality({a}) = 1
  BY FS_Singleton
<1>2. IsFiniteSet({a} \cup {b}) /\ Cardinality({a} \cup {b}) <= 2
  <2>1. IsFiniteSet({a} \cup {b})
    BY <1>1, FS_AddElement
  <2>2. b \in {a} => Cardinality({a} \cup {b}) = Cardinality({a})
    BY <1>1, FS_AddElement
  <2>3. b \notin {a} => Cardinality({a} \cup {b}) = Cardinality({a}) + 1
    BY <1>1, FS_AddElement
  <2> QED
    BY <1>1, <2>1, <2>2, <2>3
<1>3. S \subseteq {a} \cup {b}
  OBVIOUS
<1>4. Cardinality(S) <= Cardinality({a} \cup {b})
  BY <1>2, <1>3, FS_Subset
<1>5. Cardinality(S) \in Nat /\ Cardinality({a} \cup {b}) \in Nat
  BY <1>2, <1>3, FS_Subset, FS_CardinalityType
<1> QED
  BY <1>2, <1>4, <1>5

LEMMA IInvNoLeak ==
  ASSUME IInv
  PROVE  NoLeak
<1> SUFFICES ASSUME NEW r \in Roles
             PROVE  /\ Cardinality(OwnFiles(r)) <= 2
                    /\ spc[r] = "done" => OwnFiles(r) = {}
  BY DEF NoLeak
<1>1. ASSUME NEW f \in OwnFiles(r)
      PROVE  f \in {sock[r], ep[r]} /\ pc[r] # "done"
  <2>1. f \in Fds /\ Own(r, f)
    BY DEF OwnFiles, Own
  <2>2. table[f].kind \in {"socket", "epoll"}
    BY <2>1 DEF IInv, Types, Tables, File, Own
  <2> QED
    BY <2>1, <2>2 DEF IInv, LinkInv, SocketInv, EpollInv, Polling
<1>2. Cardinality(OwnFiles(r)) <= 2
  BY <1>1, AtMostTwo
<1>3. spc[r] = "done" => pc[r] = "done"
  BY DEF IInv, LinkInv, StopInv
<1> QED
  BY <1>1, <1>2, <1>3

(* However often the links of any number of clients are lost, and whatever *)
(* numbers they close under each other, run() of a client leaves at most a *)
(* socket and an epoll open, and stop() leaves none.                       *)
THEOREM NothingLeaks == Spec => []NoLeak
<1>1. IInv => NoLeak
  BY IInvNoLeak
<1> QED
  BY <1>1, Invariance, PTL

(* run() goes through hubConnection_ without the lock: it finds it empty   *)
(* in one window of stop() of the command client, and in no other case.    *)
THEOREM OnlyStopCrashes == Spec => []ConnectionChecked
<1>1. IInv => ConnectionChecked
  BY DEF IInv, LinkInv, CrashInv, ConnectionChecked
<1> QED
  BY <1>1, Invariance, PTL

-----------------------------------------------------------------------------
(* Who may take a number from a client.                                    *)

(* A client that runs has its connection in hubConnection_, one that is    *)
(* attempting has none, and one that has ended has no server descriptor.   *)
HoldInv(r) ==
  /\ running[r] /\ fd[r] # NoFd => hub[r]
  /\ fd[r] # NoFd => pc[r] \notin Attempt \cup {"socket", "unregister"}
  /\ pc[r] = "done" => serverFDs[r] = NoFd

Held == \A r \in Roles : HoldInv(r)

(* What the invariant speaks of, of a client, is as it was.                *)
SameHold(r) ==
  /\ pc'[r] = pc[r] /\ fd'[r] = fd[r] /\ hub'[r] = hub[r]
  /\ running'[r] = running[r] /\ serverFDs'[r] = serverFDs[r]

LEMMA OthersHold ==
  ASSUME Held, NEW q \in Roles, \A r \in Roles : r # q => SameHold(r), HoldInv(q)'
  PROVE  Held'
  BY DEF Held, HoldInv, SameHold

LEMMA RunHold ==
  ASSUME IInv, Held, NEW q \in Roles, Run(q)
  PROVE  Held'
<1>1. Types /\ HoldInv(q)
  BY DEF IInv, Held
<1>2. CASE \/ LeaveLoop(q) \/ ConnectFailed(q) \/ LeaveWait(q) \/ Poll(q)
           \/ PollTimedOut(q) \/ Follow(q) \/ Lost(q) \/ Wake(q) \/ Crash(q)
           \/ MakeEpoll(q) \/ WatchFailed(q) \/ CloseEpoll(q) \/ Connected(q) \/ Watch(q)
           \/ Receive(q) \/ CloseSocket(q)
  <2>1. /\ serverFDs' = serverFDs /\ fd' = fd /\ hub' = hub /\ running' = running
    BY <1>2 DEF fdVars, linkVars, stopVars, LeaveLoop, ConnectFailed, LeaveWait, Poll,
                PollTimedOut, Follow, Lost, Wake, Crash, MakeEpoll, WatchFailed, CloseEpoll,
                Connected, Watch, Receive, CloseSocket
  <2>2. /\ \A r \in Roles : r # q => pc'[r] = pc[r]
        /\ \/ pc[q] \in Attempt \cup {"unregister"}
           \/ pc'[q] \notin Attempt \cup {"socket", "unregister"}
        /\ pc'[q] # "done"
    BY <1>1, <1>2 DEF Types, Goto, LeaveLoop, ConnectFailed, LeaveWait, Poll,
                PollTimedOut, Follow, Lost, Wake, Crash, MakeEpoll, WatchFailed, CloseEpoll,
                Connected, Watch, Receive, CloseSocket, Attempt
  <2>3. HoldInv(q)'
    BY <1>1, <2>1, <2>2 DEF HoldInv
  <2> QED
    BY <2>1, <2>2, <2>3, OthersHold DEF SameHold
<1>3. CASE MakeSocket(q)
  <2>1. /\ serverFDs' = serverFDs /\ fd' = fd /\ hub' = hub /\ running' = running
    BY <1>3 DEF MakeSocket, linkVars, stopVars
  <2>2. /\ \A r \in Roles : r # q => pc'[r] = pc[r]
        /\ pc[q] = "socket" /\ pc'[q] # "done"
    BY <1>1, <1>3 DEF Types, Goto, MakeSocket
  <2>3. HoldInv(q)'
    BY <1>1, <2>1, <2>2 DEF HoldInv
  <2> QED
    BY <2>1, <2>2, <2>3, OthersHold DEF SameHold
<1>4. CASE Connecting(q) \/ GiveUp(q) \/ ResetLost(q)
  <2>1. ResetConnection(q) /\ running' = running
    BY <1>4 DEF Connecting, GiveUp, ResetLost, stopVars
  <2>2. /\ \A r \in Roles : r # q => pc'[r] = pc[r]
        /\ \/ pc'[q] = "socket" /\ running[q]
           \/ pc'[q] \in {"loop", "close_epoll"}
    BY <1>1, <1>4 DEF Connecting, GiveUp, ResetLost, Types, Goto
  <2>3. /\ serverFDs' = serverFDs /\ fd'[q] = IF hub[q] THEN NoFd ELSE fd[q]
        /\ \A r \in Roles : r # q => fd'[r] = fd[r] /\ hub'[r] = hub[r]
    BY <1>1, <2>1, ResetKept
  <2>4. HoldInv(q)'
    BY <1>1, <2>1, <2>2, <2>3 DEF HoldInv, Attempt
  <2> QED
    BY <2>1, <2>2, <2>3, <2>4, OthersHold DEF SameHold
<1>5. CASE CloseLost(q)
  <2>1. CloseClient(q) /\ running' = running /\ hub' = hub
    BY <1>5 DEF CloseLost, stopVars
  <2>2. (\A r \in Roles : r # q => pc'[r] = pc[r]) /\ pc'[q] = "reset"
    BY <1>1, <1>5 DEF CloseLost, Types, Goto
  <2>3. /\ serverFDs' = serverFDs /\ fd'[q] = NoFd
        /\ \A r \in Roles : r # q => fd'[r] = fd[r]
    BY <1>1, <2>1, CloseClientKept
  <2>4. HoldInv(q)'
    BY <2>2, <2>3 DEF HoldInv
  <2> QED
    BY <2>1, <2>2, <2>3, <2>4, OthersHold DEF SameHold
<1>6. CASE Register(q) \/ Unregister(q) \/ Final(q)
  <2>1. /\ \E n \in Numbers : SetServerFD(q, n) /\ (Final(q) => n = NoFd)
        /\ fd' = fd /\ hub' = hub /\ running' = running
    BY <1>1, <1>6 DEF Register, Unregister, Final, RemoveServerFD, linkVars, stopVars, Types,
                      Numbers, Goto
  <2>2. /\ \A r \in Roles : r # q => pc'[r] = pc[r]
        /\ \/ pc[q] = "register" /\ pc'[q] = "connect"
           \/ pc'[q] = "loop"
           \/ pc'[q] = "done" /\ Final(q)
    BY <1>1, <1>6 DEF Register, Unregister, Final, Types, Goto
  <2>3. /\ Final(q) => serverFDs'[q] = NoFd
        /\ \A r \in Roles : r # q => serverFDs'[r] = serverFDs[r]
    BY <1>1, <2>1, SetServerKept DEF Types
  <2>4. HoldInv(q)'
    BY <1>1, <2>1, <2>2, <2>3 DEF HoldInv, Attempt
  <2> QED
    BY <2>1, <2>2, <2>3, <2>4, OthersHold DEF SameHold
<1>7. CASE Store(q)
  <2>1. /\ serverFDs' = serverFDs /\ fd' = [fd EXCEPT ![q] = sock[q]]
        /\ hub' = [hub EXCEPT ![q] = TRUE] /\ running' = running
    BY <1>7 DEF Store, AddClientFD, stopVars
  <2>2. (\A r \in Roles : r # q => pc'[r] = pc[r]) /\ pc'[q] = "epoll"
    BY <1>1, <1>7 DEF Store, Types, Goto
  <2>3. HoldInv(q)'
    BY <1>1, <2>1, <2>2 DEF HoldInv, Attempt, Types
  <2>4. \A r \in Roles : r # q => fd'[r] = fd[r] /\ hub'[r] = hub[r]
    BY <1>1, <2>1 DEF Types
  <2> QED
    BY <2>1, <2>2, <2>3, <2>4, OthersHold DEF SameHold
<1> QED
  BY <1>2, <1>3, <1>4, <1>5, <1>6, <1>7, Zenon DEF Run

LEMMA StopsHold ==
  ASSUME IInv, Held, NEW q \in Roles, Stop(q) \/ StopSteps(q)
  PROVE  Held'
<1>1. Types /\ HoldInv(q) /\ LinkInv(q)
  BY DEF IInv, Held
<1>2. pc' = pc
  BY DEF Stop, StopSteps, StopMove, StopClose, StopJoin, StopRemove, threadVars
<1>3. CASE Stop(q)
  <2>1. /\ serverFDs' = serverFDs /\ fd' = fd /\ hub' = hub
        /\ running' = [running EXCEPT ![q] = FALSE]
    BY <1>3 DEF Stop, fdVars, linkVars
  <2> QED
    BY <1>1, <1>2, <2>1, OthersHold DEF HoldInv, SameHold, Types
<1>4. CASE StopMove(q)
  <2>1. /\ serverFDs' = serverFDs /\ fd' = fd /\ hub' = [hub EXCEPT ![q] = FALSE]
        /\ running' = running /\ spc[q] = "move"
    BY <1>4 DEF StopMove, StopStep, fdVars
  <2>2. ~running[q]
    BY <1>1, <2>1 DEF LinkInv, StopInv
  <2> QED
    BY <1>1, <1>2, <2>1, <2>2, OthersHold DEF HoldInv, SameHold, Types
<1>5. CASE StopClose(q)
  <2>1. /\ hub' = hub /\ running' = running
        /\ CloseClient(q) \/ UNCHANGED <<fdVars, fd>>
    BY <1>5 DEF StopClose
  <2>2. /\ serverFDs' = serverFDs /\ fd'[q] \in {NoFd, fd[q]}
        /\ \A r \in Roles : r # q => fd'[r] = fd[r]
    BY <1>1, <2>1, CloseClientKept DEF fdVars
  <2> QED
    BY <1>1, <1>2, <2>1, <2>2, OthersHold DEF HoldInv, SameHold
<1>6. CASE StopJoin(q)
  BY <1>1, <1>2, <1>6, OthersHold DEF StopJoin, fdVars, linkVars, HoldInv, SameHold
<1>7. CASE StopRemove(q)
  <2>1. SetServerFD(q, NoFd) /\ fd' = fd /\ hub' = hub /\ running' = running
    BY <1>7 DEF StopRemove, RemoveServerFD, linkVars
  <2>2. /\ serverFDs'[q] = NoFd
        /\ \A r \in Roles : r # q => serverFDs'[r] = serverFDs[r]
    BY <1>1, <2>1, SetServerKept DEF Types, Numbers
  <2> QED
    BY <1>1, <1>2, <2>1, <2>2, OthersHold DEF HoldInv, SameHold
<1> QED
  BY <1>3, <1>4, <1>5, <1>6, <1>7 DEF StopSteps

LEMMA NextHold ==
  ASSUME IInv, Held, [Next]_vars
  PROVE  Held'
<1>1. CASE UNCHANGED vars \/ HubActs
  <2>1. UNCHANGED <<pc, fd, hub, running, serverFDs>>
    BY <1>1 DEF vars, fdVars, threadVars, linkVars, stopVars, HubActs
  <2> QED
    BY <2>1 DEF Held, HoldInv
<1> QED
  BY <1>1, RunHold, StopsHold DEF Next

-----------------------------------------------------------------------------
(* Every open descriptor but n stays what it is and whose it is.           *)
AllBut(n) ==
  \A f \in Fds : f # n /\ table[f] # Closed =>
    table'[f].kind = table[f].kind /\ table'[f].owner = table[f].owner

LEMMA CloseAllBut ==
  ASSUME table \in Tables, NEW n, CloseFd(n)
  PROVE  AllBut(n)
<1> SUFFICES ASSUME NEW f \in Fds, f # n, table[f] # Closed
             PROVE  table'[f].kind = table[f].kind /\ table'[f].owner = table[f].owner
  BY DEF AllBut
<1>1. table'[f] = [table[f] EXCEPT !.watch = @ \ {n}]
  BY DEF CloseFd, CloseIn
<1>2. table[f] \in File
  BY DEF Tables
<1> QED
  BY <1>1, <1>2 DEF File

LEMMA SameAllBut ==
  ASSUME NEW n, table' = table
  PROVE  AllBut(n)
  BY DEF AllBut

LEMMA OpenAllBut ==
  ASSUME table \in Tables, NEW file, LowestFree # NoFd, Open(LowestFree, file)
  PROVE  /\ AllBut(NoFd) /\ LowestFree \in Fds /\ table'[LowestFree] = file
<1>1. LowestFree \in Fds /\ table[LowestFree] = Closed
  BY LowestIsFree DEF FreeFds
<1> DEFINE n == LowestFree
<1>2. table' = [table EXCEPT ![n] = file]
  BY DEF Open
<1> HIDE DEF n
<1>3. n \in Fds /\ table[n] = Closed
  BY <1>1 DEF n
<1>4. table'[n] = file /\ \A f \in Fds : f # n => table'[f] = table[f]
  BY <1>2, <1>3 DEF Tables
<1>5. AllBut(NoFd)
  BY <1>3, <1>4 DEF AllBut
<1> QED
  BY <1>3, <1>4, <1>5 DEF n

LEMMA EditAllBut ==
  ASSUME table \in Tables, NEW n \in Fds, table[n] # Closed,
         \/ \E p \in {"none", "up", "data", "hup"} : table' = [table EXCEPT ![n].peer = p]
         \/ \E m \in Numbers : table' = [table EXCEPT ![n].watch = @ \cup {m}]
  PROVE  AllBut(NoFd)
<1> SUFFICES ASSUME NEW f \in Fds, table[f] # Closed
             PROVE  table'[f].kind = table[f].kind /\ table'[f].owner = table[f].owner
  BY DEF AllBut
<1>1. table[f] \in File
  BY DEF Tables
<1>2. f # n => table'[f] = table[f]
  BY DEF Tables
<1>3. ASSUME NEW p \in {"none", "up", "data", "hup"}, table' = [table EXCEPT ![n].peer = p], f = n
      PROVE  table'[f].kind = table[f].kind /\ table'[f].owner = table[f].owner
  <2>1. table'[f] = [table[f] EXCEPT !.peer = p]
    BY <1>1, <1>3 DEF Tables
  <2> QED
    BY <1>1, <2>1 DEF File
<1>4. ASSUME NEW m \in Numbers, table' = [table EXCEPT ![n].watch = @ \cup {m}], f = n
      PROVE  table'[f].kind = table[f].kind /\ table'[f].owner = table[f].owner
  <2>1. table'[f] = [table[f] EXCEPT !.watch = @ \cup {m}]
    BY <1>1, <1>4 DEF Tables
  <2> QED
    BY <1>1, <2>1 DEF File
<1> QED
  BY <1>2, <1>3, <1>4

LEMMA CloseClientAllBut ==
  ASSUME table \in Tables, NEW q \in Roles, CloseClient(q)
  PROVE  AllBut(fd[q])
<1>1. CASE table' = table
  BY <1>1, SameAllBut
<1>2. CASE CloseFd(fd[q])
  BY <1>2, CloseAllBut
<1> QED
  BY <1>1, <1>2 DEF CloseClient, RemoveClientFD, fdVars

(* Whose file a number of the table t refers to.                           *)
SocketIn(t, r, f) == f \in Fds /\ t[f].kind = "socket" /\ t[f].owner = r
EpollIn(t, r, f)  == f \in Fds /\ t[f].kind = "epoll" /\ t[f].owner = r

LEMMA IntactNow ==
  ASSUME NEW r
  PROVE  Intact(r) <=> /\ pc[r] \in Attempt => SocketIn(table, r, sock[r])
                       /\ pc[r] \in Polling => EpollIn(table, r, ep[r])
                       /\ fd[r] # NoFd /\ pc[r] # "done" => SocketIn(table, r, fd[r])
  BY DEF Intact, OwnSocket, OwnEpoll, IsSocket, IsEpoll, SocketIn, EpollIn

LEMMA IntactNext ==
  ASSUME NEW r
  PROVE  Intact(r)' <=> /\ pc'[r] \in Attempt => SocketIn(table', r, sock'[r])
                        /\ pc'[r] \in Polling => EpollIn(table', r, ep'[r])
                        /\ fd'[r] # NoFd /\ pc'[r] # "done" => SocketIn(table', r, fd'[r])
  BY DEF Intact, OwnSocket, OwnEpoll, IsSocket, IsEpoll, SocketIn, EpollIn

(* A step that closes at most a number of q, or none, leaves the others    *)
(* what they hold.                                                         *)
Mine(q, n) == n = NoFd \/ SocketIn(table, q, n) \/ EpollIn(table, q, n)

LEMMA StaysOwn ==
  ASSUME table \in Tables, NEW n, AllBut(n)
  PROVE  \A r, f : f # n =>
           /\ SocketIn(table, r, f) => SocketIn(table', r, f)
           /\ EpollIn(table, r, f) => EpollIn(table', r, f)
<1> SUFFICES ASSUME NEW r, NEW f, f # n
             PROVE  /\ SocketIn(table, r, f) => SocketIn(table', r, f)
                    /\ EpollIn(table, r, f) => EpollIn(table', r, f)
  OBVIOUS
<1>1. SocketIn(table, r, f) \/ EpollIn(table, r, f) => f \in Fds /\ table[f] # Closed
  BY DEF SocketIn, EpollIn, Closed
<1> QED
  BY <1>1 DEF AllBut, SocketIn, EpollIn

SameUse(r) ==
  pc'[r] = pc[r] /\ sock'[r] = sock[r] /\ ep'[r] = ep[r] /\ fd'[r] = fd[r]

LEMMA OthersIntact ==
  ASSUME table \in Tables, NEW q \in Roles, NEW n, Mine(q, n), AllBut(n),
         \A r \in Roles : Intact(r), \A r \in Roles : r # q => SameUse(r), Intact(q)'
  PROVE  \A r \in Roles : Intact(r)'
<1> SUFFICES ASSUME NEW r \in Roles, r # q
             PROVE  Intact(r)'
  OBVIOUS
<1>1. \A f : SocketIn(table, r, f) \/ EpollIn(table, r, f) => f # n
  BY FdIsNat DEF Mine, SocketIn, EpollIn
<1>2. \A f : /\ SocketIn(table, r, f) => SocketIn(table', r, f)
             /\ EpollIn(table, r, f) => EpollIn(table', r, f)
  BY <1>1, StaysOwn
<1>3. Intact(r) /\ SameUse(r)
  OBVIOUS
<1> QED
  BY <1>2, <1>3, IntactNow, IntactNext DEF SameUse

(* Steps of a thread that close nothing.                                   *)
LEMMA IdleIntact ==
  ASSUME IInv, NEW q \in Roles, \A r \in Roles : Intact(r),
         \/ LeaveLoop(q) \/ ConnectFailed(q) \/ LeaveWait(q) \/ Poll(q)
         \/ PollTimedOut(q) \/ Follow(q) \/ Lost(q) \/ Wake(q) \/ Crash(q)
         \/ Connected(q) \/ Watch(q) \/ Receive(q)
  PROVE  \A r \in Roles : Intact(r)'
<1>1. Types
  BY DEF IInv
<1>2. /\ sock' = sock /\ ep' = ep /\ fd' = fd
      /\ \A r \in Roles : r # q => pc'[r] = pc[r]
      /\ pc'[q] \in Attempt => pc[q] \in Attempt
      /\ pc'[q] \in Polling => pc[q] \in Polling
      /\ pc[q] # "done"
  BY <1>1 DEF LeaveLoop, ConnectFailed, LeaveWait, Poll, PollTimedOut, Follow, Lost, Wake, Crash,
              Connected, Watch, Receive, linkVars, Types, Goto, Attempt, Polling
<1>3. AllBut(NoFd)
  <2>1. CASE Connected(q)
    BY <1>1, <2>1, SocketIsOpen, EditAllBut DEF Types, Connected
  <2>2. CASE Watch(q)
    BY <1>1, <2>2, SocketIsOpen, EditAllBut DEF Types, Watch, CanWatch
  <2>3. CASE Receive(q)
    BY <1>1, <2>3, SocketIsOpen, EditAllBut DEF Types, Receive, HasData
  <2>4. CASE ~(Connected(q) \/ Watch(q) \/ Receive(q))
    <3>1. table' = table
      BY <2>4 DEF fdVars, LeaveLoop, ConnectFailed, LeaveWait, Poll, PollTimedOut, Follow, Lost,
                  Wake, Crash
    <3> QED
      BY <3>1, SameAllBut
  <2> QED
    BY <2>1, <2>2, <2>3, <2>4
<1>4. \A f : /\ SocketIn(table, q, f) => SocketIn(table', q, f)
             /\ EpollIn(table, q, f) => EpollIn(table', q, f)
  BY <1>1, <1>3, StaysOwn, FdIsNat DEF Types, SocketIn, EpollIn
<1>5. Intact(q)'
  BY <1>2, <1>4, IntactNow, IntactNext
<1> QED
  BY <1>1, <1>2, <1>3, <1>5, OthersIntact DEF Types, Mine, SameUse

(* Steps that open a file use a free number.                               *)
LEMMA OpensIntact ==
  ASSUME IInv, NEW q \in Roles, \A r \in Roles : Intact(r), MakeSocket(q) \/ MakeEpoll(q)
  PROVE  \A r \in Roles : Intact(r)'
<1>1. Types
  BY DEF IInv
<1>2. /\ fd' = fd
      /\ \A r \in Roles : r # q => pc'[r] = pc[r] /\ sock'[r] = sock[r] /\ ep'[r] = ep[r]
      /\ \/ /\ pc'[q] = "register" /\ sock'[q] = LowestFree /\ LowestFree # NoFd
            /\ Open(LowestFree, NewSocket(q))
         \/ /\ pc'[q] = "watch" /\ ep'[q] = LowestFree /\ LowestFree # NoFd
            /\ Open(LowestFree, NewEpoll(q))
         \/ pc'[q] \in {"loop", "give_up"} /\ table' = table
      /\ pc[q] # "done"
  BY <1>1 DEF MakeSocket, MakeEpoll, linkVars, Types, Goto
<1>3. /\ AllBut(NoFd)
      /\ pc'[q] = "register" => SocketIn(table', q, sock'[q])
      /\ pc'[q] = "watch" => EpollIn(table', q, ep'[q])
  BY <1>1, <1>2, OpenAllBut, SameAllBut, NewFiles DEF Types, SocketIn, EpollIn
<1>4. \A f : SocketIn(table, q, f) => SocketIn(table', q, f)
  BY <1>1, <1>3, StaysOwn, FdIsNat DEF Types, SocketIn
<1>5. /\ pc'[q] \in Attempt => pc'[q] = "register"
      /\ pc'[q] \in Polling => pc'[q] = "watch"
  BY <1>2 DEF Attempt, Polling
<1>6. Intact(q)'
  BY <1>2, <1>3, <1>4, <1>5, IntactNow, IntactNext
<1> QED
  BY <1>1, <1>2, <1>3, <1>6, OthersIntact DEF Types, Mine, SameUse

(* Steps that close the socket or the epoll of the present attempt.        *)
LEMMA ClosesIntact ==
  ASSUME IInv, Held, NEW q \in Roles, \A r \in Roles : Intact(r),
         CloseSocket(q) \/ WatchFailed(q) \/ CloseEpoll(q)
  PROVE  \A r \in Roles : Intact(r)'
<1> DEFINE n == IF CloseSocket(q) THEN sock[q] ELSE ep[q]
<1>1. Types /\ HoldInv(q) /\ Intact(q)
  BY DEF IInv, Held
<1>2. /\ CloseFd(n) /\ sock' = sock /\ ep' = ep /\ fd' = fd
      /\ \A r \in Roles : r # q => pc'[r] = pc[r]
      /\ \/ pc[q] = "close_sock" /\ pc'[q] = "unregister" /\ n = sock[q]
         \/ pc[q] \in {"watch", "close_epoll"} /\ pc'[q] \in {"give_up", "loop"} /\ n = ep[q]
  BY <1>1 DEF CloseSocket, WatchFailed, CloseEpoll, linkVars, Types, Goto
<1> HIDE DEF n
<1>3. AllBut(n)
  BY <1>1, <1>2, CloseAllBut DEF Types
<1>4. /\ pc[q] = "close_sock" => SocketIn(table, q, n) /\ fd[q] = NoFd
      /\ pc[q] # "close_sock" => EpollIn(table, q, n)
  BY <1>1, <1>2, IntactNow DEF HoldInv, Attempt, Polling
<1>5. pc[q] # "close_sock" /\ fd[q] # NoFd => SocketIn(table', q, fd[q])
  <2>1. pc[q] # "close_sock" /\ fd[q] # NoFd => SocketIn(table, q, fd[q]) /\ fd[q] # n
    BY <1>1, <1>2, <1>4, IntactNow DEF SocketIn, EpollIn
  <2> QED
    BY <1>1, <1>3, <2>1, StaysOwn DEF Types
<1>6. Intact(q)'
  BY <1>2, <1>4, <1>5, IntactNext DEF Attempt, Polling
<1> QED
  BY <1>1, <1>2, <1>3, <1>4, <1>6, OthersIntact DEF Types, Mine, SameUse

(* Steps that close the client, or leave it when hubConnection_ is empty.  *)
LEMMA ClientIntact ==
  ASSUME IInv, NEW q \in Roles, \A r \in Roles : Intact(r), pc[q] # "done",
         sock' = sock, ep' = ep, \A r \in Roles : r # q => pc'[r] = pc[r],
         pc'[q] \notin Attempt,
         pc'[q] \in Polling => pc[q] \in Polling,
         CloseClient(q) \/ UNCHANGED <<fdVars, fd>>
  PROVE  \A r \in Roles : Intact(r)'
<1>1. Types /\ Intact(q)
  BY DEF IInv
<1>2. CASE UNCHANGED <<fdVars, fd>>
  <2>1. table' = table /\ fd' = fd /\ AllBut(NoFd)
    BY <1>2, SameAllBut DEF fdVars
  <2>2. Intact(q)'
    BY <1>1, <2>1, IntactNow, IntactNext
  <2> QED
    BY <1>1, <2>1, <2>2, OthersIntact DEF Types, Mine, SameUse
<1>3. CASE CloseClient(q)
  <2>1. /\ AllBut(fd[q]) /\ fd'[q] = NoFd
        /\ \A r \in Roles : r # q => fd'[r] = fd[r]
    BY <1>1, <1>3, CloseClientAllBut, CloseClientKept DEF Types
  <2>2. Mine(q, fd[q])
    BY <1>1, IntactNow DEF Mine
  <2>3. pc'[q] \in Polling => EpollIn(table', q, ep[q])
    <3>1. pc'[q] \in Polling => EpollIn(table, q, ep[q]) /\ ep[q] # fd[q]
      BY <1>1, IntactNow, FdIsNat DEF SocketIn, EpollIn
    <3> QED
      BY <1>1, <2>1, <3>1, StaysOwn DEF Types
  <2>4. Intact(q)'
    BY <2>1, <2>3, IntactNext
  <2> QED
    BY <1>1, <2>1, <2>2, <2>4, OthersIntact DEF Types, SameUse
<1> QED
  BY <1>2, <1>3

LEMMA ResetsIntact ==
  ASSUME IInv, NEW q \in Roles, \A r \in Roles : Intact(r),
         Connecting(q) \/ GiveUp(q) \/ ResetLost(q) \/ CloseLost(q)
  PROVE  \A r \in Roles : Intact(r)'
<1>1. /\ pc[q] # "done" /\ sock' = sock /\ ep' = ep
      /\ \A r \in Roles : r # q => pc'[r] = pc[r]
      /\ \/ pc'[q] \in {"socket", "loop"}
         \/ pc[q] \in {"reset", "close_client"} /\ pc'[q] \in {"reset", "close_epoll"}
      /\ CloseClient(q) \/ UNCHANGED <<fdVars, fd>>
  BY DEF Connecting, GiveUp, ResetLost, CloseLost, ResetConnection, IInv, Types, Goto
<1> QED
  BY <1>1, ClientIntact DEF Attempt, Polling

LEMMA StoreIntact ==
  ASSUME IInv, NEW q \in Roles, \A r \in Roles : Intact(r), Store(q)
  PROVE  \A r \in Roles : Intact(r)'
<1>1. Types /\ Intact(q)
  BY DEF IInv
<1>2. /\ table' = table /\ sock' = sock /\ ep' = ep /\ fd'[q] = sock[q]
      /\ \A r \in Roles : r # q => pc'[r] = pc[r] /\ fd'[r] = fd[r]
      /\ pc[q] = "store" /\ pc'[q] = "epoll"
  BY <1>1 DEF Store, AddClientFD, Types, Goto
<1>3. Intact(q)'
  BY <1>1, <1>2, IntactNow, IntactNext DEF Attempt, Polling
<1> QED
  BY <1>1, <1>2, <1>3, SameAllBut, OthersIntact DEF Types, Mine, SameUse

(* The registry's number of a client is only its own in the last step of   *)
(* the thread; in the others it closes nothing or is one kept too long.    *)
LEMMA SlotsIntact ==
  ASSUME IInv, NEW q \in Roles, \A r \in Roles : Intact(r),
         Register(q) \/ Unregister(q) \/ Final(q), ~ClosesKept(q)
  PROVE  \A r \in Roles : Intact(r)'
<1> DEFINE n == serverFDs[q]
<1>1. Types /\ Intact(q) /\ LinkInv(q)
  BY DEF IInv
<1>2. /\ CloseFd(n) /\ sock' = sock /\ ep' = ep /\ fd' = fd
      /\ \A r \in Roles : r # q => pc'[r] = pc[r]
      /\ \/ pc[q] = "register" /\ pc'[q] = "connect"
         \/ pc[q] = "unregister" /\ pc'[q] = "loop"
         \/ pc[q] = "final" /\ pc'[q] = "done"
  BY <1>1 DEF Register, Unregister, Final, RemoveServerFD, SetServerFD, linkVars, Types, Goto
<1>3. n = NoFd \/ (pc[q] # "register" /\ SocketIn(table, q, n))
  BY <1>2 DEF ClosesKept, OwnSocket, IsSocket, SocketIn
<1>4. pc[q] = "unregister" => ~SocketIn(table, q, n)
  BY <1>1 DEF LinkInv, SocketInv, Own, SocketIn, Closed
<1> HIDE DEF n
<1>5. AllBut(n)
  BY <1>1, <1>2, CloseAllBut DEF Types
<1>6. pc'[q] # "done" => n = NoFd
  BY <1>2, <1>3, <1>4
<1>7. n = NoFd => \A f : SocketIn(table, q, f) => SocketIn(table', q, f)
  BY <1>1, <1>5, StaysOwn, FdIsNat DEF Types, SocketIn
<1>8. Intact(q)'
  <2>1. CASE pc'[q] = "done"
    BY <2>1, IntactNext DEF Attempt, Polling
  <2>2. CASE pc'[q] # "done"
    BY <1>1, <1>2, <1>6, <1>7, <2>2, IntactNow, IntactNext DEF Attempt, Polling
  <2> QED
    BY <2>1, <2>2
<1> QED
  BY <1>1, <1>2, <1>3, <1>5, <1>8, OthersIntact DEF Types, Mine, SameUse

LEMMA StopsIntact ==
  ASSUME IInv, Held, NEW q \in Roles, \A r \in Roles : Intact(r),
         Stop(q) \/ StopSteps(q), ~ClosesEnded(q)
  PROVE  \A r \in Roles : Intact(r)'
<1>1. Types /\ HoldInv(q) /\ LinkInv(q) /\ Intact(q)
  BY DEF IInv, Held
<1>2. pc' = pc /\ sock' = sock /\ ep' = ep
  BY DEF Stop, StopSteps, StopMove, StopClose, StopJoin, StopRemove, threadVars
<1>3. CASE Stop(q) \/ StopMove(q) \/ StopJoin(q)
  <2>1. table' = table /\ fd' = fd
    BY <1>3 DEF Stop, StopMove, StopJoin, fdVars, linkVars
  <2> QED
    BY <1>2, <2>1, IntactNow, IntactNext
<1>4. CASE StopClose(q)
  <2>1. pc[q] # "done" /\ (CloseClient(q) \/ UNCHANGED <<fdVars, fd>>)
    BY <1>1, <1>4 DEF StopClose, StopStep, ClosesEnded, Types
  <2>2. CASE UNCHANGED <<fdVars, fd>> \/ fd[q] = NoFd
    <3>1. table' = table
      BY <2>1, <2>2 DEF fdVars, CloseClient
    <3>2. \A r \in Roles : fd'[r] = fd[r]
      BY <1>1, <2>1, <2>2, CloseClientKept
    <3> QED
      BY <1>2, <3>1, <3>2, IntactNow, IntactNext
  <2>3. CASE CloseClient(q) /\ fd[q] # NoFd
    <3>1. pc[q] \notin Attempt
      BY <1>1, <2>3 DEF HoldInv
    <3> QED
      BY <1>2, <2>1, <2>3, <3>1, ClientIntact
  <2> QED
    BY <2>1, <2>2, <2>3
<1>5. CASE StopRemove(q)
  <2>1. pc[q] = "done"
    BY <1>1, <1>5 DEF StopRemove, StopStep, LinkInv, StopInv
  <2>2. CloseFd(NoFd) /\ fd' = fd
    BY <1>1, <1>5, <2>1 DEF StopRemove, RemoveServerFD, SetServerFD, HoldInv, linkVars
  <2>3. AllBut(NoFd)
    BY <1>1, <2>2, CloseAllBut DEF Types
  <2>4. Intact(q)'
    BY <1>2, <2>1, IntactNext DEF Attempt, Polling
  <2> QED
    BY <1>1, <1>2, <2>2, <2>3, <2>4, OthersIntact DEF Types, Mine, SameUse
<1> QED
  BY <1>3, <1>4, <1>5 DEF StopSteps

LEMMA HubIntact ==
  ASSUME IInv, \A r \in Roles : Intact(r), HubActs
  PROVE  \A r \in Roles : Intact(r)'
<1>1. Types
  BY DEF IInv
<1>2. PICK f \in Fds, p \in {"data", "hup"} :
        IsSocket(f) /\ table' = [table EXCEPT ![f].peer = p]
  BY DEF HubActs
<1>3. AllBut(NoFd)
  BY <1>1, <1>2, SocketIsOpen, EditAllBut DEF Types
<1>4. \A r, g : /\ SocketIn(table, r, g) => SocketIn(table', r, g)
                /\ EpollIn(table, r, g) => EpollIn(table', r, g)
  BY <1>1, <1>3, StaysOwn, FdIsNat DEF Types, SocketIn, EpollIn
<1>5. pc' = pc /\ sock' = sock /\ ep' = ep /\ fd' = fd
  BY DEF HubActs, threadVars, linkVars
<1> QED
  BY <1>4, <1>5, IntactNow, IntactNext

LEMMA NextTakes ==
  ASSUME IInv, Held, Next, \A r \in Roles : Intact(r)
  PROVE  \/ \A r \in Roles : Intact(r)'
         \/ \E r \in Roles : ClosesKept(r) \/ ClosesEnded(r)
<1>1. CASE HubActs
  BY <1>1, HubIntact
<1>2. ASSUME NEW q \in Roles, Run(q)
      PROVE  (\A r \in Roles : Intact(r)') \/ ClosesKept(q)
  <2>1. CASE LeaveLoop(q) \/ ConnectFailed(q) \/ LeaveWait(q) \/ Poll(q)
               \/ PollTimedOut(q) \/ Follow(q) \/ Lost(q) \/ Wake(q) \/ Crash(q)
               \/ Connected(q) \/ Watch(q) \/ Receive(q)
    BY <2>1, IdleIntact
  <2>2. CASE MakeSocket(q) \/ MakeEpoll(q)
    BY <2>2, OpensIntact
  <2>3. CASE CloseSocket(q) \/ WatchFailed(q) \/ CloseEpoll(q)
    BY <2>3, ClosesIntact
  <2>4. CASE Connecting(q) \/ GiveUp(q) \/ ResetLost(q) \/ CloseLost(q)
    BY <2>4, ResetsIntact
  <2>5. CASE Register(q) \/ Unregister(q) \/ Final(q)
    BY <2>5, SlotsIntact
  <2>6. CASE Store(q)
    BY <2>6, StoreIntact
  <2> QED
    BY <1>2, <2>1, <2>2, <2>3, <2>4, <2>5, <2>6, Zenon DEF Run
<1>3. ASSUME NEW q \in Roles, Stop(q) \/ StopSteps(q)
      PROVE  (\A r \in Roles : Intact(r)') \/ ClosesEnded(q)
  BY <1>3, StopsIntact
<1> QED
  BY <1>1, <1>2, <1>3 DEF Next

(* Any number of clients close numbers on one table, from run() and from   *)
(* stop().  While all of them hold what they opened, only two steps take a *)
(* number from one: setFD() with a number whose connection was closed      *)
(* already, and a stop() that closes behind a thread that has ended.       *)
THEOREM OnlySecondCloses == Spec => OnlySecondCloseTakes
<1>1. Init => Held
  BY DEF Init, FdInit, Held, HoldInv
<1>2. IInv /\ Held /\ [Next]_vars => Held'
  BY NextHold
<1>3. IInv /\ Held /\ [Next]_vars =>
        [(\A r \in Roles : Intact(r)) =>
           \/ \A r \in Roles : Intact(r)'
           \/ \E r \in Roles : ClosesKept(r) \/ ClosesEnded(r)]_vars
  BY NextTakes
<1> QED
  BY <1>1, <1>2, <1>3, Invariance, PTL DEF Spec, OnlySecondCloseTakes
=============================================================================
