------------------------------ MODULE FdTable ------------------------------
(***************************************************************************)
(* The descriptors of the process: the kernel's table, which always hands  *)
(* out the lowest number that is free, and GRAMS_TOF_FDManager, which owns *)
(* descriptors by number, in a slot per kind of server and in a set of     *)
(* client descriptors.  A close names a number, whatever it now refers to. *)
(***************************************************************************)
EXTENDS Integers, FiniteSets

CONSTANTS
  Roles,      (* the owners of descriptors, and the kinds of ServerKind    *)
  LastFd      (* the highest descriptor: RLIMIT_NOFILE, a bound            *)

ASSUME FdTableAssumption == LastFd \in Nat /\ LastFd >= 3

VARIABLES
  table,      (* what each descriptor refers to                            *)
  serverFDs,  (* the descriptor kept for each kind, or NoFd                *)
  clientFDs   (* the numbers in the client map                             *)

fdVars == <<table, serverFDs, clientFDs>>

(* 0, 1 and 2 are always open.                                             *)
Fds  == 3..LastFd
NoFd == -1

Closed == [kind |-> "free"]

(* A file: who opened it; of a socket, what the peer did ("none", "up",    *)
(* "data", "hup"); of an epoll, the descriptors whose files it watches.    *)
NewSocket(r) == [kind |-> "socket", owner |-> r, peer |-> "none", watch |-> {}]
NewEpoll(r)  == [kind |-> "epoll", owner |-> r, peer |-> "none", watch |-> {}]

IsSocket(f) == f \in Fds /\ table[f].kind = "socket"
IsEpoll(f)  == f \in Fds /\ table[f].kind = "epoll"

FreeFds == {f \in Fds : table[f] = Closed}

(* What socket() or epoll_create1() returns, NoFd when the table is full.  *)
LowestFree ==
  IF FreeFds = {} THEN NoFd ELSE CHOOSE f \in FreeFds : \A g \in FreeFds : f <= g

(* The table t after close(n): a number that is not open is an error       *)
(* nobody looks at; an epoll forgets a file when it is closed.             *)
CloseIn(t, n) ==
  [f \in Fds |->
     IF f = n THEN Closed
     ELSE IF t[f] = Closed THEN Closed
     ELSE [t[f] EXCEPT !.watch = @ \ {n}]]

Open(f, file) == table' = [table EXCEPT ![f] = file]
CloseFd(n)    == table' = CloseIn(table, n)

(* setFD() of the kind's SafeFD: exchange, and close of the old number.    *)
SetServerFD(r, fd) ==
  /\ serverFDs' = [serverFDs EXCEPT ![r] = fd]
  /\ CloseFd(serverFDs[r])
  /\ UNCHANGED clientFDs

RemoveServerFD(r) == SetServerFD(r, NoFd)

AddClientFD(fd) ==
  /\ clientFDs' = clientFDs \cup {fd}
  /\ UNCHANGED <<table, serverFDs>>

(* Erasing the entry destroys its SafeFD, which closes the number.         *)
RemoveClientFD(fd) ==
  /\ clientFDs' = clientFDs \ {fd}
  /\ IF fd \in clientFDs THEN CloseFd(fd) ELSE UNCHANGED table
  /\ UNCHANGED serverFDs

FdInit ==
  /\ table = [f \in Fds |-> Closed]
  /\ serverFDs = [r \in Roles |-> NoFd]
  /\ clientFDs = {}
=============================================================================
