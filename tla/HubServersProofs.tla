-------------------------- MODULE HubServersProofs --------------------------
(***************************************************************************)
(* Proofs about HubServers for every number of descriptors, connections    *)
(* and commands: that the registry and the lists account for every open    *)
(* descriptor, that a success send() reports is one, and that the threads  *)
(* do no harm as long as no listener is lost.                              *)
(***************************************************************************)
EXTENDS HubServers, WellFoundedInduction, TLAPS

USE HubServersAssumption DEF Servers, Senders, Threads, None, NoFd, NoOne, crashed

-----------------------------------------------------------------------------
(* Types.                                                                  *)
Slots == [Fds -> Conns \cup {None}]
Entry == [fd : Fds \cup {NoFd}, c : Conns \cup {None}]

Places ==
  {"wait", "insert", "recv", "close", "remove", "set", "erase", "copy", "next",
   "lock", "erase_failed", "loop", "quit", "join_command", "join_event", "done"}

Types ==
  /\ conn \in Slots /\ clientFDs \subseteq Fds
  /\ home \in [Conns -> Servers \cup {NoOne}]
  /\ failing \subseteq Conns /\ got \subseteq Conns
  /\ fd \in [Conns -> Fds \cup {NoFd}] /\ place \in [Conns -> Conns \cup {None}]
  /\ list \in [Servers -> Slots] /\ mutex \in Senders \cup {NoOne}
  /\ running \in [Servers -> BOOLEAN] /\ pc \in [Threads -> Places]
  /\ hand \in [Threads -> Entry] /\ num \in [Threads -> Fds \cup {NoFd}]
  /\ copy \in [Senders -> Slots] /\ audience \subseteq Conns
  /\ ok \in BOOLEAN /\ commands \in Nat
  /\ struck \subseteq Conns /\ fault \in {NoOne, "pointer", "argument"}

LEMMA Numbers ==
  /\ Fds \subseteq Nat \ {0} /\ Conns \subseteq Nat \ {0}
  /\ NoFd \notin Fds /\ None \notin Conns
  BY DEF Fds, Conns

LEMMA GotoPlace ==
  ASSUME Types, NEW t \in Threads, NEW from, NEW to \in Places, Goto(t, from, to)
  PROVE  /\ ~crashed /\ pc[t] = from /\ pc'[t] = to /\ pc' \in [Threads -> Places]
         /\ \A u \in Threads : u # t => pc'[u] = pc[u]
  BY DEF Types, Goto

(* The clients that are in a list, or in the copy of a list.               *)
Listed(c) == \E s \in Servers, f \in Fds : list[s][f] = c
Copied(c) == \E t \in Senders, f \in Fds : copy[t][f] = c

LEMMA ClientsOfSlots ==
  ASSUME NEW l, NEW c
  PROVE  c \in ClientsOf(l) <=> c # None /\ \E f \in Fds : l[f] = c
  BY DEF ClientsOf, InList

LEMMA AliveListed ==
  ASSUME NEW c
  PROVE  c \in Alive <=> c # None /\ Listed(c)
  BY ClientsOfSlots DEF Alive, Listed

LEMMA AliveConns ==
  ASSUME Types
  PROVE  Alive \subseteq Conns
  BY AliveListed DEF Types, Slots, Listed

(* What a pointer leads to: the client itself while it lives.              *)
LEMMA ReachedClient ==
  ASSUME Types, NEW c, NEW d \in Reached(c)
  PROVE  /\ d \in Conns \cup {None}
         /\ d # None => d \in Alive /\ (d = c \/ place[d] = place[c])
         /\ c \in Alive => d = c
  BY AliveConns, AliveListed DEF Reached

LEMMA FdAtType ==
  ASSUME Types, NEW d \in Conns \cup {None}
  PROVE  FdAt(d) \in Fds \cup {NoFd} /\ (d # None => FdAt(d) = fd[d])
  BY DEF FdAt, Types

(* A set of descriptors that is not empty has a lowest one.                *)
LEMMA LowestExists ==
  ASSUME NEW S \in SUBSET Fds, S # {}
  PROVE  \E f \in S : \A g \in S : f <= g
<1> DEFINE R == {ss \in Nat \X Nat : ss[1] < ss[2]}
<1>1. IsWellFoundedOn(R, Nat)
  BY NatLessThanWellFounded DEF OpToRel
<1>2. S \subseteq Nat
  BY Numbers
<1> HIDE DEF R
<1>3. PICK x \in S : \A y \in S : ~ (<<y, x>> \in R)
  BY <1>1, <1>2, WFMin
<1>4. \A y \in S : ~ (y < x)
  BY <1>2, <1>3 DEF R
<1>5. \A y \in S : x <= y
  BY <1>2, <1>4
<1> QED
  BY <1>5

LEMMA NextFdInCopy ==
  ASSUME NEW t \in Senders, InList(copy[t]) # {}
  PROVE  NextFd(t) \in Fds /\ copy[t][NextFd(t)] # None
<1>1. \E f \in InList(copy[t]) : \A g \in InList(copy[t]) : f <= g
  BY LowestExists DEF InList
<1>2. NextFd(t) \in InList(copy[t])
  BY <1>1 DEF NextFd
<1> QED
  BY <1>2 DEF InList

(* What removeClientFD() does to the tables.                               *)
LEMMA RemoveValue ==
  ASSUME Types, NEW S, Remove(S)
  PROVE  /\ clientFDs' = clientFDs \ S /\ clientFDs' \subseteq Fds /\ conn' \in Slots
         /\ \A f \in Fds : conn'[f] = IF f \in clientFDs /\ f \notin clientFDs' THEN None ELSE conn[f]
  BY DEF Types, Remove, Slots

LEMMA DestroyValue ==
  ASSUME Types, NEW C, Destroy(C)
  PROVE  /\ clientFDs' = clientFDs \ NumbersOf(C) /\ clientFDs' \subseteq Fds /\ conn' \in Slots
         /\ \A f \in Fds : conn'[f] = IF f \in clientFDs /\ f \notin clientFDs' THEN None ELSE conn[f]
         /\ fd' \in [Conns -> Fds \cup {NoFd}]
         /\ \A c \in Conns : fd'[c] = IF c \in C THEN NoFd ELSE fd[c]
<1>1. Remove(NumbersOf(C)) /\ fd' = [c \in Conns |-> IF c \in C THEN NoFd ELSE fd[c]]
  BY DEF Destroy
<1> QED
  BY <1>1, RemoveValue DEF Types

(* The client that erase() destroys besides c.                             *)
Found(s, f, c) == {list[s][f]} \ {None, c}

LEMMA EraseValue ==
  ASSUME Types, NEW s \in Servers, NEW f \in Fds \cup {NoFd}, NEW c, Erase(s, f, c)
  PROVE  /\ clientFDs' = clientFDs \ NumbersOf(Found(s, f, c))
         /\ clientFDs' \subseteq Fds /\ conn' \in Slots
         /\ \A g \in Fds : conn'[g] = IF g \in clientFDs /\ g \notin clientFDs' THEN None ELSE conn[g]
         /\ fd' \in [Conns -> Fds \cup {NoFd}]
         /\ \A d \in Conns : fd'[d] = IF d \in Found(s, f, c) \cup {c} THEN NoFd ELSE fd[d]
<1>1. /\ Remove(NumbersOf(Found(s, f, c)))
      /\ fd' = [d \in Conns |-> IF d \in Found(s, f, c) \cup {c} THEN NoFd ELSE fd[d]]
  BY DEF Erase, Found
<1>2. /\ clientFDs' = clientFDs \ NumbersOf(Found(s, f, c)) /\ clientFDs' \subseteq Fds
      /\ conn' \in Slots
      /\ \A g \in Fds : conn'[g] = IF g \in clientFDs /\ g \notin clientFDs' THEN None ELSE conn[g]
  BY <1>1, RemoveValue
<1>3. /\ fd' \in [Conns -> Fds \cup {NoFd}]
      /\ \A d \in Conns : fd'[d] = IF d \in Found(s, f, c) \cup {c} THEN NoFd ELSE fd[d]
  BY <1>1 DEF Types
<1> QED
  BY <1>2, <1>3

LEMMA EraseList ==
  ASSUME Types, NEW s \in Servers, NEW f \in Fds \cup {NoFd}, NEW c, Erase(s, f, c)
  PROVE  /\ list' \in [Servers -> Slots]
         /\ \A u \in Servers, g \in Fds : list'[u][g] = IF u = s /\ g = f THEN None ELSE list[u][g]
<1>1. list' = [list EXCEPT ![s][f] = None]
  BY DEF Erase
<1> QED
  BY <1>1 DEF Types, Slots

(* The number of a client is that of its place in a list, once it has one. *)
LEMMA AcceptValue ==
  ASSUME Types, NEW s \in Servers, Accept(s)
  PROVE  \E c \in Conns, f \in Fds :
           /\ home[c] = NoOne /\ conn[f] = None
           /\ home' \in [Conns -> Servers \cup {NoOne}] /\ home'[c] = s
           /\ \A d \in Conns : d # c => home'[d] = home[d]
           /\ conn' \in Slots /\ conn'[f] = c
           /\ \A g \in Fds : g # f => conn'[g] = conn[g]
           /\ failing' \in {failing, failing \cup {c}}
           /\ hand' \in [Threads -> Entry] /\ hand'[s].fd = f /\ hand'[s].c = c
           /\ \A t \in Threads : t # s => hand'[t] = hand[t]
<1>1. PICK c \in Conns, f \in Fds :
        /\ home[c] = NoOne /\ conn[f] = None
        /\ home' = [home EXCEPT ![c] = s] /\ conn' = [conn EXCEPT ![f] = c]
        /\ failing' \in {failing, failing \cup {c}}
        /\ hand' = [hand EXCEPT ![s] = [fd |-> f, c |-> c]]
  BY DEF Accept
<1>2. /\ home' \in [Conns -> Servers \cup {NoOne}] /\ home'[c] = s
      /\ \A d \in Conns : d # c => home'[d] = home[d]
  BY <1>1 DEF Types
<1>3. conn' \in Slots /\ conn'[f] = c /\ \A g \in Fds : g # f => conn'[g] = conn[g]
  BY <1>1 DEF Types, Slots
<1>4. /\ hand' \in [Threads -> Entry] /\ hand'[s] = [fd |-> f, c |-> c]
      /\ \A t \in Threads : t # s => hand'[t] = hand[t]
  BY <1>1 DEF Types, Entry
<1> QED
  BY <1>1, <1>2, <1>3, <1>4

(* What Insert does to a table t of numbers.                               *)
LEMMA InsertValue ==
  ASSUME Types, NEW s \in Servers, Insert(s),
         hand[s].fd \in Fds, hand[s].c \in Conns
  PROVE  LET f == hand[s].fd
             c == hand[s].c
             old == {list[s][f]} \ {None}
         IN /\ clientFDs' = (clientFDs \cup {f}) \ NumbersOf(old) /\ clientFDs' \subseteq Fds
            /\ conn' \in Slots
            /\ \A g \in Fds : conn'[g] =
                 IF g \in clientFDs \cup {f} /\ g \notin clientFDs' THEN None ELSE conn[g]
            /\ fd' \in [Conns -> Fds \cup {NoFd}] /\ fd'[c] = f
            /\ \A d \in Conns : d # c => fd'[d] = IF d \in old THEN NoFd ELSE fd[d]
            /\ list' \in [Servers -> Slots]
            /\ \A u \in Servers, g \in Fds :
                 list'[u][g] = IF u = s /\ g = f THEN c ELSE list[u][g]
            /\ place' \in [Conns -> Conns \cup {None}]
            /\ place'[c] = c \/ place'[c] \in Freed \ {None}
            /\ \A d \in Conns : d # c => place'[d] = place[d]
            /\ hand' \in [Threads -> Entry] /\ hand'[s] = Nothing
            /\ \A t \in Threads : t # s => hand'[t] = hand[t]
<1> DEFINE f == hand[s].fd
           c == hand[s].c
           old == {list[s][f]} \ {None}
<1>1. /\ clientFDs' = (clientFDs \cup {f}) \ NumbersOf(old)
      /\ conn' = [g \in Fds |->
           IF g \in NumbersOf(old) \cap (clientFDs \cup {f}) THEN None ELSE conn[g]]
      /\ fd' = [d \in Conns |-> IF d = c THEN f ELSE IF d \in old THEN NoFd ELSE fd[d]]
      /\ list' = [list EXCEPT ![s][f] = c]
      /\ hand' = [hand EXCEPT ![s] = Nothing]
  BY DEF Insert, Release
<1>2. \E m \in {c} \cup (Freed \ {None}) : place' = [place EXCEPT ![c] = m]
  BY DEF Insert
<1>3. f \in Fds /\ c \in Conns
  OBVIOUS
<1> HIDE DEF f, c, old
<1>4. /\ clientFDs' \subseteq Fds /\ conn' \in Slots
      /\ \A g \in Fds : conn'[g] =
           IF g \in clientFDs \cup {f} /\ g \notin clientFDs' THEN None ELSE conn[g]
  BY <1>1, <1>3 DEF Types, Slots
<1>5. /\ fd' \in [Conns -> Fds \cup {NoFd}] /\ fd'[c] = f
      /\ \A d \in Conns : d # c => fd'[d] = IF d \in old THEN NoFd ELSE fd[d]
  BY <1>1, <1>3 DEF Types
<1>6. /\ list' \in [Servers -> Slots]
      /\ \A u \in Servers, g \in Fds : list'[u][g] = IF u = s /\ g = f THEN c ELSE list[u][g]
  BY <1>1, <1>3 DEF Types, Slots
<1>7. /\ hand' \in [Threads -> Entry] /\ hand'[s] = Nothing
      /\ \A t \in Threads : t # s => hand'[t] = hand[t]
  BY <1>1 DEF Types, Entry, Nothing
<1>8. Freed \subseteq Conns \cup {None}
  <2>1. \A d \in Pointed : d \in Conns \cup {None}
    BY ClientsOfSlots DEF Pointed, Types, Entry, Slots
  <2> QED
    BY <2>1 DEF Freed, Types
<1>9. /\ place' \in [Conns -> Conns \cup {None}]
      /\ place'[c] = c \/ place'[c] \in Freed \ {None}
      /\ \A d \in Conns : d # c => place'[d] = place[d]
  BY <1>2, <1>3, <1>8 DEF Types
<1> QED
  BY <1>1, <1>4, <1>5, <1>6, <1>7, <1>9 DEF f, c, old

-----------------------------------------------------------------------------
(* The inductive invariant of the descriptors.                             *)

(* A sender holds the lock from there until it has erased the entry.       *)
MutexInv ==
  /\ mutex # NoOne => pc[mutex] \in {"remove", "erase_failed"}
  /\ \A t \in Senders : pc[t] = "erase_failed" => mutex = t
  /\ pc["heartbeat"] = "remove" => mutex = "heartbeat"

(* Clients a thread may come upon.                                         *)
Known(c) == Listed(c) \/ Copied(c) \/ c \in audience

(* Of a connection that was not accepted nothing is anywhere; of one that  *)
(* was accepted just now nobody else has anything.                         *)
FreshInv ==
  /\ \A c \in Conns :
       \/ Known(c)
       \/ \E t \in Threads : hand[t].c = c
       \/ \E f \in Fds : conn[f] = c
       \/ \E d \in Conns : place[d] = c
       => home[c] # NoOne
  /\ \A s \in Servers : pc[s] = "insert" =>
       /\ hand[s].c \in Conns /\ hand[s].fd \in Fds \ clientFDs
       /\ home[hand[s].c] = s /\ conn[hand[s].fd] = hand[s].c
       /\ ~Known(hand[s].c) /\ \A d \in Conns : place[d] # hand[s].c
       /\ \A t \in Threads : t # s => hand[t].c # hand[s].c
  /\ \A f, g \in Fds : conn[f] = conn[g] /\ conn[f] # None => f = g

(* The registry has the numbers that are open.                             *)
RegisterInv ==
  \A f \in Fds :
    /\ f \in clientFDs => conn[f] # None
    /\ conn[f] # None =>
         f \in clientFDs \/ \E s \in Servers : pc[s] = "insert" /\ hand[s].fd = f

(* The number of the client has been removed, and its fd_ is still to go.  *)
Doomed(c) == \E t \in Threads : pc[t] \in {"set", "erase_failed"} /\ hand[t].c = c

(* Each number in the registry is that of a client in a list, which will   *)
(* close it when it goes; that of its connection, or the client of that    *)
(* connection has lost it.                                                 *)
OwnerInv ==
  \A f \in clientFDs :
    \/ conn[f] \in struck
    \/ \E s \in Servers, g \in Fds :
         /\ list[s][g] # None /\ list[s][g] = conn[f]
         /\ fd[list[s][g]] = f /\ ~Doomed(list[s][g])

(* closeFD() removes the number it has read in fd_, or one that another    *)
(* thread has removed since.                                               *)
RemoveInv ==
  \A t \in Threads : pc[t] = "remove" /\ hand[t].c # None =>
    fd[hand[t].c] \in {num[t], NoFd}

(* After the join of a server its list stays empty.                        *)
StopInv ==
  /\ pc["main"] \in {"join_event", "done"} => pc["command"] = "done" /\ list["command"] = Empty
  /\ pc["main"] = "done" => pc["event"] = "done" /\ list["event"] = Empty

(* The memory of two live clients is not the same.                         *)
PlaceInv ==
  \A c, d \in Conns : Listed(c) /\ Listed(d) /\ place[c] = place[d] => c = d

(* Lists are indexed by the number with which the connection was accepted, *)
(* and it has no other.                                                    *)
NumberInv ==
  /\ \A s \in Servers, f \in Fds : list[s][f] # None =>
       /\ fd[list[s][f]] \in {f, NoFd}
       /\ \A g \in Fds : conn[g] = list[s][f] => g = f
  /\ \A t \in Senders, f \in Fds : copy[t][f] # None => fd[copy[t][f]] \in {f, NoFd}

LeakInv ==
  /\ MutexInv /\ FreshInv /\ RegisterInv /\ OwnerInv /\ RemoveInv /\ StopInv
  /\ PlaceInv /\ NumberInv

IInv == Types /\ LeakInv

-----------------------------------------------------------------------------
(* A step that only takes away: from the tables, lists and numbers.  What  *)
(* it newly holds it has from a list or a copy.                            *)
Shrinks ==
  /\ home' = home /\ place' = place
  /\ \A c \in audience' : Known(c)
  /\ \A f \in Fds :
       /\ f \in clientFDs' => f \in clientFDs
       /\ conn'[f] = IF f \in clientFDs /\ f \notin clientFDs' THEN None ELSE conn[f]
  /\ \A c \in Conns : fd'[c] \in {fd[c], NoFd}
  /\ \A s \in Servers, f \in Fds : list'[s][f] \in {list[s][f], None}
  /\ \A t \in Senders, f \in Fds : copy'[t][f] \in {None, copy[t][f], list["event"][f]}
  /\ \A t \in Threads : hand'[t].c \in {None, hand[t].c} \/ Known(hand'[t].c)
  /\ \A s \in Servers : /\ pc'[s] = "insert" <=> pc[s] = "insert"
                        /\ pc[s] = "insert" => hand'[s] = hand[s]

LEMMA ShrinkKnown ==
  ASSUME Shrinks, NEW c, c # None
  PROVE  /\ Listed(c)' => Listed(c)
         /\ Known(c)' => Known(c)
<1>1. Listed(c)' => Listed(c)
  BY DEF Shrinks, Listed
<1>2. Copied(c)' => Copied(c) \/ Listed(c)
  <2> SUFFICES ASSUME NEW t \in Senders, NEW f \in Fds, copy'[t][f] = c
               PROVE  Copied(c) \/ Listed(c)
    BY DEF Copied
  <2>1. copy[t][f] = c \/ list["event"][f] = c
    BY DEF Shrinks
  <2> QED
    BY <2>1 DEF Copied, Listed
<1>3. c \in audience' => Known(c)
  BY DEF Shrinks
<1> QED
  BY <1>1, <1>2, <1>3 DEF Known

LEMMA ShrinkInv ==
  ASSUME Types, Types', FreshInv, RegisterInv, PlaceInv, NumberInv, Shrinks
  PROVE  FreshInv' /\ RegisterInv' /\ PlaceInv' /\ NumberInv'
<1>1. ASSUME NEW f \in Fds, conn'[f] # None
      PROVE  conn'[f] = conn[f] /\ (f \in clientFDs' <=> f \in clientFDs)
  BY <1>1 DEF Shrinks
<1>2. ASSUME NEW c \in Conns,
             \/ Known(c)'
             \/ \E t \in Threads : hand'[t].c = c
             \/ \E f \in Fds : conn'[f] = c
             \/ \E d \in Conns : place'[d] = c
      PROVE  home'[c] # NoOne
  <2>0. c # None
    BY Numbers
  <2>1. Known(c)' => Known(c)
    BY <2>0, ShrinkKnown
  <2>2. ASSUME NEW t \in Threads, hand'[t].c = c PROVE hand[t].c = c \/ Known(c)
    BY <2>0, <2>2 DEF Shrinks
  <2>3. ASSUME NEW f \in Fds, conn'[f] = c PROVE conn[f] = c
    BY <2>0, <2>3, <1>1
  <2>4. place' = place /\ home' = home
    BY DEF Shrinks
  <2> QED
    BY <1>2, <2>1, <2>2, <2>3, <2>4 DEF FreshInv
<1>3. ASSUME NEW s \in Servers, pc'[s] = "insert"
      PROVE  /\ hand'[s].c \in Conns /\ hand'[s].fd \in Fds \ clientFDs'
             /\ home'[hand'[s].c] = s /\ conn'[hand'[s].fd] = hand'[s].c
             /\ ~Known(hand[s].c)' /\ \A d \in Conns : place'[d] # hand'[s].c
             /\ \A t \in Threads : t # s => hand'[t].c # hand'[s].c
  <2> DEFINE c == hand[s].c
             f == hand[s].fd
  <2>1. /\ pc[s] = "insert" /\ hand'[s] = hand[s]
        /\ home' = home /\ place' = place
    BY <1>3 DEF Shrinks
  <2>2. /\ c \in Conns /\ f \in Fds \ clientFDs
        /\ home[c] = s /\ conn[f] = c
        /\ ~Known(c) /\ \A d \in Conns : place[d] # c
        /\ \A t \in Threads : t # s => hand[t].c # c
    BY <2>1 DEF FreshInv
  <2>3. c # None
    BY <2>2, Numbers
  <2>4. ASSUME NEW t \in Threads, t # s PROVE hand'[t].c # c
    BY <2>2, <2>3, <2>4 DEF Shrinks
  <2>5. conn'[f] = c /\ f \notin clientFDs'
    BY <2>2 DEF Shrinks
  <2> HIDE DEF c, f
  <2>6. ~Known(c)'
    <3>1. ASSUME NEW e, e # None, ~Known(e) PROVE ~Known(e)'
      BY <3>1, ShrinkKnown
    <3>2. ~Known(hand[s].c)'
      BY <2>1, <2>2, <2>3, <3>1 DEF c, Known, Listed, Copied
    <3> QED
      BY <3>2 DEF c
  <2> QED
    BY <2>1, <2>2, <2>4, <2>5, <2>6 DEF c, f
<1>4. \A f, g \in Fds : conn'[f] = conn'[g] /\ conn'[f] # None => f = g
  BY <1>1 DEF FreshInv
<1>5. FreshInv'
  BY <1>2, <1>3, <1>4 DEF FreshInv
<1>6. RegisterInv'
  <2> SUFFICES ASSUME NEW f \in Fds
               PROVE  /\ f \in clientFDs' => conn'[f] # None
                      /\ conn'[f] # None => f \in clientFDs' \/
                           \E s \in Servers : pc'[s] = "insert" /\ hand'[s].fd = f
    BY DEF RegisterInv
  <2>1. f \in clientFDs' => conn'[f] # None
    BY DEF Shrinks, RegisterInv
  <2>2. conn'[f] # None => f \in clientFDs' \/
          \E s \in Servers : pc'[s] = "insert" /\ hand'[s].fd = f
    BY <1>1 DEF RegisterInv, Shrinks
  <2> QED
    BY <2>1, <2>2
<1>7. PlaceInv'
  <2> SUFFICES ASSUME NEW c \in Conns, NEW d \in Conns, Listed(c)', Listed(d)',
                      place'[c] = place'[d]
               PROVE  c = d
    BY DEF PlaceInv
  <2>1. Listed(c) /\ Listed(d)
    BY ShrinkKnown, Numbers
  <2> QED
    BY <2>1 DEF PlaceInv, Shrinks
<1>8. ASSUME NEW s \in Servers, NEW f \in Fds, list'[s][f] # None
      PROVE  /\ fd'[list'[s][f]] \in {f, NoFd}
             /\ \A g \in Fds : conn'[g] = list'[s][f] => g = f
  <2>1. list'[s][f] = list[s][f] /\ list[s][f] \in Conns
    BY <1>8 DEF Shrinks, Types, Slots
  <2>2. fd[list[s][f]] \in {f, NoFd} /\ \A g \in Fds : conn[g] = list[s][f] => g = f
    BY <1>8, <2>1 DEF NumberInv
  <2>3. fd'[list[s][f]] \in {f, NoFd}
    BY <2>1, <2>2 DEF Shrinks
  <2> QED
    BY <1>1, <1>8, <2>1, <2>2, <2>3
<1>9. ASSUME NEW t \in Senders, NEW f \in Fds, copy'[t][f] # None
      PROVE  fd'[copy'[t][f]] \in {f, NoFd}
  <2>1. /\ copy'[t][f] \in Conns
        /\ copy'[t][f] = copy[t][f] \/ copy'[t][f] = list["event"][f]
    BY <1>9 DEF Shrinks, Types, Slots
  <2>2. fd[copy'[t][f]] \in {f, NoFd}
    BY <1>9, <2>1 DEF NumberInv
  <2> QED
    BY <2>1, <2>2 DEF Shrinks
<1>10. NumberInv'
  BY <1>8, <1>9 DEF NumberInv
<1> QED
  BY <1>5, <1>6, <1>7, <1>10

(* An owner of a number that stays registered keeps it, or is struck.      *)
LEMMA OwnerKept ==
  ASSUME OwnerInv, clientFDs' \subseteq clientFDs, struck \subseteq struck',
         \A f \in clientFDs' : conn'[f] = conn[f],
         \A s \in Servers, g \in Fds :
           /\ list[s][g] # None /\ fd[list[s][g]] \in clientFDs'
           /\ ~Doomed(list[s][g]) /\ list[s][g] \notin struck'
           => /\ list'[s][g] = list[s][g] /\ fd'[list[s][g]] = fd[list[s][g]]
              /\ \A t \in Threads :
                   pc'[t] \in {"set", "erase_failed"} => hand'[t].c # list[s][g]
  PROVE  OwnerInv'
<1> SUFFICES ASSUME NEW f \in clientFDs', conn'[f] \notin struck'
             PROVE  \E s \in Servers, g \in Fds :
                      /\ list'[s][g] # None /\ list'[s][g] = conn'[f]
                      /\ fd'[list'[s][g]] = f
                      /\ \A t \in Threads :
                           pc'[t] \in {"set", "erase_failed"} => hand'[t].c # list'[s][g]
  BY DEF OwnerInv, Doomed
<1>1. PICK s \in Servers, g \in Fds :
        /\ list[s][g] # None /\ list[s][g] = conn[f]
        /\ fd[list[s][g]] = f /\ ~Doomed(list[s][g])
  BY DEF OwnerInv
<1>2. list[s][g] \notin struck' /\ conn'[f] = conn[f]
  BY <1>1
<1> QED
  BY <1>1, <1>2

(* A number that stays registered leads to the connection it led to.       *)
LEMMA ConnKept ==
  ASSUME clientFDs' \subseteq Fds, clientFDs' \subseteq clientFDs,
         \A f \in Fds : conn'[f] = IF f \in clientFDs /\ f \notin clientFDs' THEN None ELSE conn[f]
  PROVE  \A f \in clientFDs' : conn'[f] = conn[f]
  OBVIOUS

(* Steps that leave connections, registry and clients alone.               *)
LEMMA StillInv ==
  ASSUME IInv, NEW t \in Threads, NEW from, NEW to \in Places, Goto(t, from, to),
         UNCHANGED <<conn, clientFDs, home, clientVars>>,
         Types', MutexInv', RemoveInv',
         \A u \in Threads : u # t => hand'[u] = hand[u],
         hand'[t].c \in {None, hand[t].c} \/ Known(hand'[t].c),
         \A u \in Senders, f \in Fds : copy'[u][f] \in {None, copy[u][f], list["event"][f]},
         \A c \in audience' : Known(c),
         from \notin {"insert", "done", "join_event"},
         to \notin {"insert", "set", "erase_failed"},
         t = "main" => to = "join_command"
  PROVE  IInv'
<1>1. /\ pc[t] = from /\ pc'[t] = to /\ \A u \in Threads : u # t => pc'[u] = pc[u]
  BY GotoPlace DEF IInv
<1>2. /\ conn' = conn /\ clientFDs' = clientFDs /\ home' = home
      /\ fd' = fd /\ place' = place /\ list' = list /\ struck' = struck
  BY DEF clientVars
<1>3. Shrinks
  <2>1. \A u \in Threads : hand'[u].c \in {None, hand[u].c} \/ Known(hand'[u].c)
    OBVIOUS
  <2>2. \A s \in Servers : /\ pc'[s] = "insert" <=> pc[s] = "insert"
                           /\ pc[s] = "insert" => hand'[s] = hand[s]
    BY <1>1
  <2> QED
    BY <1>2, <2>1, <2>2 DEF Shrinks
<1>4. FreshInv' /\ RegisterInv' /\ PlaceInv' /\ NumberInv'
  BY <1>3, ShrinkInv DEF IInv, LeakInv
<1>5. OwnerInv'
  <2>1. ASSUME NEW u \in Threads, pc'[u] \in {"set", "erase_failed"}
        PROVE  pc[u] = pc'[u] /\ hand'[u] = hand[u]
    BY <1>1, <2>1
  <2> QED
    BY <1>2, <2>1, OwnerKept DEF IInv, LeakInv, Doomed
<1>6. StopInv'
  BY <1>1, <1>2 DEF IInv, LeakInv, StopInv
<1> QED
  BY <1>4, <1>5, <1>6 DEF IInv, LeakInv

(* removing and waiting: RemoveInv of the other threads.                   *)
LEMMA RemoveKept ==
  ASSUME Types, RemoveInv, NEW t \in Threads,
         \A u \in Threads : u # t => pc'[u] = pc[u] /\ hand'[u] = hand[u] /\ num'[u] = num[u],
         \A c \in Conns : fd'[c] \in {fd[c], NoFd},
         pc'[t] = "remove" /\ hand'[t].c # None => fd'[hand'[t].c] \in {num'[t], NoFd}
  PROVE  RemoveInv'
<1> SUFFICES ASSUME NEW u \in Threads, pc'[u] = "remove", hand'[u].c # None
             PROVE  fd'[hand'[u].c] \in {num'[u], NoFd}
  BY DEF RemoveInv
<1>1. CASE u = t
  BY <1>1
<1>2. CASE u # t
  <2>1. hand[u].c \in Conns /\ fd[hand[u].c] \in {num[u], NoFd}
    BY <1>2 DEF RemoveInv, Types, Entry
  <2> QED
    BY <1>2, <2>1
<1> QED
  BY <1>1, <1>2

LEMMA WakeInv ==
  ASSUME IInv, NEW s \in Servers, Wake(s)
  PROVE  IInv'
<1>1. /\ Goto(s, "wait", "recv") /\ UNCHANGED <<conn, clientFDs, home, clientVars>>
      /\ failing' = failing /\ got' = got /\ mutex' = mutex /\ running' = running /\ num' = num
      /\ copy' = copy /\ audience' = audience /\ ok' = ok /\ commands' = commands
      /\ fault' = fault
  BY DEF Wake, netVars, sendVars
<1>2. PICK f \in Fds : /\ list[s][f] # None
                       /\ hand' = [hand EXCEPT ![s] = [fd |-> f, c |-> list[s][f]]]
  BY DEF Wake, InList
<1>3. /\ pc[s] = "wait" /\ pc'[s] = "recv" /\ pc' \in [Threads -> Places]
      /\ \A u \in Threads : u # s => pc'[u] = pc[u]
  BY <1>1, GotoPlace DEF IInv, Places
<1>4. /\ hand' \in [Threads -> Entry] /\ hand'[s].c = list[s][f]
      /\ \A u \in Threads : u # s => hand'[u] = hand[u]
  BY <1>2 DEF IInv, Types, Entry, Slots
<1>5. Types'
  BY <1>1, <1>3, <1>4 DEF IInv, Types, clientVars
<1>6. MutexInv'
  BY <1>1, <1>3 DEF IInv, LeakInv, MutexInv, Types
<1>7. RemoveInv'
  BY <1>1, <1>3, <1>4, RemoveKept DEF IInv, LeakInv, clientVars
<1>8. Known(hand'[s].c)
  BY <1>4 DEF Known, Listed
<1>9. \A c \in audience' : Known(c)
  BY <1>1 DEF Known
<1> QED
  BY <1>1, <1>4, <1>5, <1>6, <1>7, <1>8, <1>9, StillInv DEF Places

LEMMA ReceiveInv ==
  ASSUME IInv, NEW s \in Servers, Receive(s)
  PROVE  IInv'
<1> DEFINE to == IF pc'[s] = "copy" THEN "copy" ELSE "wait"
<1>1. /\ Goto(s, "recv", to) /\ UNCHANGED <<conn, clientFDs, home, clientVars>>
      /\ failing' = failing /\ got' = got /\ mutex' = mutex /\ running' = running /\ num' = num
      /\ copy' = copy /\ audience' = audience /\ ok' = ok /\ commands' \in Nat
      /\ fault' = fault /\ hand' = [hand EXCEPT ![s] = Nothing]
  BY DEF Receive, netVars, sendVars, Release, Goto, IInv, Types
<1> HIDE DEF to
<1>2. to \in {"copy", "wait"}
  BY DEF to
<1>3. /\ pc[s] = "recv" /\ pc'[s] = to /\ pc' \in [Threads -> Places]
      /\ \A u \in Threads : u # s => pc'[u] = pc[u]
  BY <1>1, <1>2, GotoPlace DEF IInv, Places
<1>4. /\ hand' \in [Threads -> Entry] /\ hand'[s].c = None
      /\ \A u \in Threads : u # s => hand'[u] = hand[u]
  BY <1>1 DEF IInv, Types, Entry, Nothing
<1>5. Types'
  BY <1>1, <1>3, <1>4 DEF IInv, Types, clientVars
<1>6. MutexInv'
  BY <1>1, <1>2, <1>3 DEF IInv, LeakInv, MutexInv, Types
<1>7. RemoveInv'
  BY <1>1, <1>2, <1>3, <1>4, RemoveKept DEF IInv, LeakInv, clientVars
<1>8. \A c \in audience' : Known(c)
  BY <1>1 DEF Known
<1> QED
  BY <1>1, <1>2, <1>4, <1>5, <1>6, <1>7, <1>8, StillInv DEF Places

(* Steps of a thread that takes nothing new into its hand.                 *)
LEMMA HandsStillInv ==
  ASSUME IInv, NEW t \in Threads, NEW from, NEW to \in Places, Goto(t, from, to),
         UNCHANGED <<conn, clientFDs, home, clientVars, failing, mutex, hand, num, fault, commands>>,
         got' \subseteq Conns, running' \in [Servers -> BOOLEAN], copy' \in [Senders -> Slots],
         audience' \subseteq Conns, ok' \in BOOLEAN,
         \A u \in Senders, f \in Fds : copy'[u][f] \in {None, copy[u][f], list["event"][f]},
         \A c \in audience' : Known(c),
         from \notin {"insert", "done", "join_event", "remove", "erase_failed"},
         to \notin {"insert", "set", "erase_failed", "remove"},
         t = "main" => to = "join_command"
  PROVE  IInv'
<1>1. /\ pc[t] = from /\ pc'[t] = to /\ pc' \in [Threads -> Places]
      /\ \A u \in Threads : u # t => pc'[u] = pc[u]
  BY GotoPlace DEF IInv
<1>2. Types'
  BY <1>1 DEF IInv, Types, clientVars
<1>3. MutexInv'
  BY <1>1 DEF IInv, LeakInv, MutexInv, Types
<1>4. RemoveInv'
  BY <1>1, RemoveKept DEF IInv, LeakInv, clientVars
<1>5. \A u \in Threads : hand'[u] = hand[u]
  OBVIOUS
<1> QED
  BY <1>2, <1>3, <1>4, <1>5, StillInv

LEMMA LostInv ==
  ASSUME IInv, NEW s \in Servers, Lost(s)
  PROVE  IInv'
<1>1. \A c \in audience : Known(c)
  BY DEF Known
<1> QED
  BY <1>1, HandsStillInv DEF Lost, netVars, sendVars, Places, IInv, Types

LEMMA BeatInv ==
  ASSUME IInv, Beat \/ LastBeat
  PROVE  IInv'
<1>1. \A c \in audience : Known(c)
  BY DEF Known
<1>2. CASE Beat
  BY <1>1, <1>2, HandsStillInv DEF Beat, netVars, sendVars, Places, IInv, Types
<1>3. CASE LastBeat
  BY <1>1, <1>3, HandsStillInv DEF LastBeat, netVars, sendVars, Places, IInv, Types
<1> QED
  BY <1>2, <1>3

LEMMA StopCommandInv ==
  ASSUME IInv, StopCommand
  PROVE  IInv'
<1>1. \A c \in audience : Known(c)
  BY DEF Known
<1>2. running' \in [Servers -> BOOLEAN]
  BY DEF StopCommand, IInv, Types
<1> QED
  BY <1>1, <1>2, HandsStillInv DEF StopCommand, netVars, sendVars, Places, IInv, Types

LEMMA CopyInv ==
  ASSUME IInv, NEW t \in Senders, Copy(t)
  PROVE  IInv'
<1>1. /\ Goto(t, "copy", "next")
      /\ UNCHANGED <<conn, clientFDs, home, clientVars, failing, mutex, hand, num, fault, commands>>
      /\ got' = got /\ running' = running
      /\ copy' = [copy EXCEPT ![t] = list["event"]]
      /\ audience' \in {audience, ClientsOf(list["event"])} /\ ok' \in BOOLEAN
  BY DEF Copy, netVars, IInv, Types
<1>2. /\ copy' \in [Senders -> Slots]
      /\ \A u \in Senders, f \in Fds : copy'[u][f] \in {None, copy[u][f], list["event"][f]}
  BY <1>1 DEF IInv, Types
<1>3. ASSUME NEW c \in audience' PROVE c \in Conns /\ Known(c)
  <2>1. c \in audience \/ \E f \in Fds : list["event"][f] = c /\ c # None
    BY <1>1, <1>3, ClientsOfSlots
  <2> QED
    BY <2>1 DEF Known, Listed, IInv, Types, Slots
<1> QED
  BY <1>1, <1>2, <1>3, HandsStillInv DEF Places, IInv, Types

(* What the visit of an entry leaves of the copy.                          *)
LEMMA VisitCopy ==
  ASSUME Types, NEW t \in Senders, NEW f \in Fds, copy' = [copy EXCEPT ![t][f] = None]
  PROVE  /\ copy' \in [Senders -> Slots]
         /\ \A u \in Senders, g \in Fds :
              copy'[u][g] = IF u = t /\ g = f THEN None ELSE copy[u][g]
  BY DEF Types, Slots

LEMMA SendToInv ==
  ASSUME IInv, NEW t \in Senders, SendTo(t)
  PROVE  IInv'
<1>1. /\ Goto(t, "next", "next")
      /\ UNCHANGED <<conn, clientFDs, home, clientVars, failing, mutex, hand, num, fault, commands>>
      /\ running' = running /\ audience' = audience /\ ok' = ok
      /\ copy' = [copy EXCEPT ![t][NextFd(t)] = None]
      /\ InList(copy[t]) # {}
  BY DEF SendTo
<1>2. /\ copy' \in [Senders -> Slots]
      /\ \A u \in Senders, f \in Fds : copy'[u][f] \in {None, copy[u][f], list["event"][f]}
  <2>1. Types /\ NextFd(t) \in Fds
    BY <1>1, NextFdInCopy DEF IInv
  <2>2. /\ copy' \in [Senders -> Slots]
        /\ \A u \in Senders, g \in Fds :
             copy'[u][g] = IF u = t /\ g = NextFd(t) THEN None ELSE copy[u][g]
    BY <1>1, <2>1, VisitCopy
  <2> QED
    BY <2>2
<1>3. got' \subseteq Conns
  <2>1. PICK d \in Reached(copy[t][NextFd(t)]) : Usable(FdAt(d)) /\ Sent(t, conn[FdAt(d)])
    BY DEF SendTo
  <2>2. FdAt(d) \in Fds /\ conn[FdAt(d)] \in Conns
    BY <2>1 DEF Usable, IInv, Types, Slots
  <2> QED
    BY <2>1, <2>2 DEF Sent, IInv, Types
<1>4. \A c \in audience : Known(c)
  BY DEF Known
<1> QED
  BY <1>1, <1>2, <1>3, <1>4, HandsStillInv DEF Places, IInv, Types

LEMMA AllSentInv ==
  ASSUME IInv, NEW t \in Senders, AllSent(t)
  PROVE  IInv'
<1>1. /\ Goto(t, "next", IF t = "command" THEN "wait" ELSE "loop")
      /\ UNCHANGED <<conn, clientFDs, home, clientVars, failing, mutex, hand, num, fault, commands>>
      /\ running' = running /\ copy' = copy
      /\ got' \in {got, {}} /\ audience' \in {audience, {}} /\ ok' \in BOOLEAN
  BY DEF AllSent, IInv, Types
<1>2. \A c \in audience' : Known(c)
  BY <1>1 DEF Known
<1>3. got' \subseteq Conns /\ audience' \subseteq Conns
  BY <1>1 DEF IInv, Types
<1> QED
  BY <1>1, <1>2, <1>3, HandsStillInv DEF Places, IInv, Types

(* Taking into the hand what a pointer leads to, or nothing.               *)
LEMMA HandReached ==
  ASSUME Types, NEW t \in Threads, NEW d \in Reached(hand[t].c), NEW e \in {d, None},
         hand' = [hand EXCEPT ![t].c = e]
  PROVE  /\ hand' \in [Threads -> Entry] /\ hand'[t].c = e /\ hand'[t].fd = hand[t].fd
         /\ \A u \in Threads : u # t => hand'[u] = hand[u]
         /\ e = None \/ Known(e)
<1>1. d \in Conns \cup {None}
  BY ReachedClient
<1>2. /\ hand' \in [Threads -> Entry] /\ hand'[t].c = e /\ hand'[t].fd = hand[t].fd
      /\ \A u \in Threads : u # t => hand'[u] = hand[u]
  BY <1>1 DEF Types, Entry
<1>3. e = None \/ Known(e)
  BY ReachedClient, AliveListed DEF Known
<1> QED
  BY <1>2, <1>3

LEMMA CloseReadInv ==
  ASSUME IInv, NEW s \in Servers, CloseRead(s)
  PROVE  IInv'
<1>1. /\ UNCHANGED <<conn, clientFDs, home, clientVars>>
      /\ failing' = failing /\ got' = got /\ mutex' = mutex /\ running' = running
      /\ copy' = copy /\ audience' = audience /\ ok' = ok /\ commands' = commands
      /\ fault' = fault
  BY DEF CloseRead, netVars, sendVars
<1>2. PICK d \in Reached(hand[s].c) :
        /\ Goto(s, "close", IF FdAt(d) = NoFd THEN "erase" ELSE "remove")
        /\ num' = [num EXCEPT ![s] = FdAt(d)] /\ hand' = [hand EXCEPT ![s].c = d]
  BY DEF CloseRead
<1> DEFINE to == IF FdAt(d) = NoFd THEN "erase" ELSE "remove"
<1>3. to \in {"erase", "remove"} /\ Goto(s, "close", to)
  BY <1>2
<1> HIDE DEF to
<1>4. /\ pc[s] = "close" /\ pc'[s] = to /\ pc' \in [Threads -> Places]
      /\ \A u \in Threads : u # s => pc'[u] = pc[u]
  BY <1>3, GotoPlace DEF IInv, Places
<1>5. /\ hand' \in [Threads -> Entry] /\ hand'[s].c = d
      /\ \A u \in Threads : u # s => hand'[u] = hand[u]
      /\ d = None \/ Known(d)
  BY <1>2, HandReached DEF IInv
<1>6. d \in Conns \cup {None}
  BY <1>2, ReachedClient DEF IInv
<1>7. /\ num' \in [Threads -> Fds \cup {NoFd}] /\ num'[s] = FdAt(d)
      /\ \A u \in Threads : u # s => num'[u] = num[u]
  BY <1>2, <1>6, FdAtType DEF IInv, Types
<1>8. Types'
  BY <1>1, <1>4, <1>5, <1>7 DEF IInv, Types, clientVars
<1>9. MutexInv'
  BY <1>1, <1>3, <1>4 DEF IInv, LeakInv, MutexInv, Types
<1>10. RemoveInv'
  <2>1. hand'[s].c # None => fd'[hand'[s].c] = num'[s]
    BY <1>1, <1>5, <1>6, <1>7, FdAtType DEF IInv, clientVars
  <2> QED
    BY <1>1, <1>4, <1>5, <1>7, <2>1, RemoveKept DEF IInv, LeakInv, clientVars
<1>11. \A c \in audience' : Known(c)
  BY <1>1 DEF Known
<1> QED
  BY <1>1, <1>3, <1>5, <1>8, <1>9, <1>10, <1>11, StillInv DEF Places

LEMMA SendFailsInv ==
  ASSUME IInv, NEW t \in Senders, SendFails(t)
  PROVE  IInv'
<1> DEFINE f == NextFd(t)
<1>1. /\ Goto(t, "next", "lock") /\ UNCHANGED <<conn, clientFDs, home, clientVars>>
      /\ failing' = failing /\ got' = got /\ mutex' = mutex /\ running' = running /\ num' = num
      /\ audience' = audience /\ ok' = ok /\ commands' = commands /\ fault' = fault
      /\ hand' = [hand EXCEPT ![t] = [fd |-> f, c |-> copy[t][f]]]
      /\ copy' = [copy EXCEPT ![t][f] = None] /\ InList(copy[t]) # {}
  BY DEF SendFails, netVars
<1>2. f \in Fds /\ copy[t][f] # None
  BY <1>1, NextFdInCopy
<1> HIDE DEF f
<1>3. /\ pc[t] = "next" /\ pc'[t] = "lock" /\ pc' \in [Threads -> Places]
      /\ \A u \in Threads : u # t => pc'[u] = pc[u]
  BY <1>1, GotoPlace DEF IInv, Places
<1>4. /\ hand' \in [Threads -> Entry] /\ hand'[t].c = copy[t][f]
      /\ \A u \in Threads : u # t => hand'[u] = hand[u]
  BY <1>1, <1>2 DEF IInv, Types, Entry, Slots
<1>5. /\ copy' \in [Senders -> Slots]
      /\ \A u \in Senders, g \in Fds : copy'[u][g] \in {None, copy[u][g], list["event"][g]}
  <2>1. Types
    BY DEF IInv
  <2>2. /\ copy' \in [Senders -> Slots]
        /\ \A u \in Senders, g \in Fds :
             copy'[u][g] = IF u = t /\ g = f THEN None ELSE copy[u][g]
    BY <1>1, <1>2, <2>1, VisitCopy
  <2> QED
    BY <2>2
<1>6. Types'
  BY <1>1, <1>3, <1>4, <1>5 DEF IInv, Types, clientVars
<1>7. MutexInv'
  BY <1>1, <1>3 DEF IInv, LeakInv, MutexInv, Types
<1>8. RemoveInv'
  BY <1>1, <1>3, <1>4, RemoveKept DEF IInv, LeakInv, clientVars
<1>9. Known(hand'[t].c) /\ \A c \in audience' : Known(c)
  BY <1>1, <1>2, <1>4 DEF Known, Copied
<1> QED
  BY <1>1, <1>4, <1>5, <1>6, <1>7, <1>8, <1>9, StillInv DEF Places

LEMMA LockInv ==
  ASSUME IInv, NEW t \in Senders, Lock(t)
  PROVE  IInv'
<1>1. /\ Goto(t, "lock", "remove") /\ UNCHANGED <<conn, clientFDs, home, clientVars>>
      /\ failing' = failing /\ got' = got /\ running' = running
      /\ copy' = copy /\ audience' = audience /\ ok' = ok /\ commands' = commands
      /\ fault' = fault /\ mutex = NoOne /\ mutex' = t
  BY DEF Lock, netVars, sendVars
<1>2. PICK d \in Reached(hand[t].c) :
        /\ num' = [num EXCEPT ![t] = FdAt(d)]
        /\ hand' = [hand EXCEPT ![t].c = IF FdAt(d) = NoFd THEN None ELSE d]
  BY DEF Lock
<1> DEFINE e == IF FdAt(d) = NoFd THEN None ELSE d
<1>3. e \in {d, None} /\ hand' = [hand EXCEPT ![t].c = e]
  BY <1>2
<1> HIDE DEF e
<1>4. /\ pc[t] = "lock" /\ pc'[t] = "remove" /\ pc' \in [Threads -> Places]
      /\ \A u \in Threads : u # t => pc'[u] = pc[u]
  BY <1>1, GotoPlace DEF IInv, Places
<1>5. /\ hand' \in [Threads -> Entry] /\ hand'[t].c = e
      /\ \A u \in Threads : u # t => hand'[u] = hand[u]
      /\ e = None \/ Known(e)
  BY <1>2, <1>3, HandReached DEF IInv
<1>6. d \in Conns \cup {None}
  BY <1>2, ReachedClient DEF IInv
<1>7. /\ num' \in [Threads -> Fds \cup {NoFd}] /\ num'[t] = FdAt(d)
      /\ \A u \in Threads : u # t => num'[u] = num[u]
  BY <1>2, <1>6, FdAtType DEF IInv, Types
<1>8. Types'
  BY <1>1, <1>4, <1>5, <1>7 DEF IInv, Types, clientVars
<1>9. MutexInv'
  BY <1>1, <1>4 DEF IInv, LeakInv, MutexInv, Types
<1>10. RemoveInv'
  <2>1. hand'[t].c # None => fd'[hand'[t].c] = num'[t]
    BY <1>1, <1>3, <1>5, <1>6, <1>7, FdAtType DEF IInv, clientVars
  <2> QED
    BY <1>1, <1>4, <1>5, <1>7, <2>1, RemoveKept DEF IInv, LeakInv, clientVars
<1>11. \A c \in audience' : Known(c)
  BY <1>1 DEF Known
<1> QED
  BY <1>1, <1>5, <1>8, <1>9, <1>10, <1>11, StillInv DEF Places

-----------------------------------------------------------------------------
(* The steps that close and erase.                                         *)
LEMMA CloseRemoveInv ==
  ASSUME IInv, NEW t \in Threads \ {"main"}, CloseRemove(t)
  PROVE  IInv'
<1> DEFINE to == IF mutex = t THEN "erase_failed" ELSE "set"
<1>1. /\ Goto(t, "remove", to) /\ Remove({num[t]}) /\ num' = [num EXCEPT ![t] = NoFd]
      /\ home' = home /\ failing' = failing /\ got' = got /\ mutex' = mutex
      /\ running' = running /\ hand' = hand /\ fd' = fd /\ place' = place /\ list' = list
      /\ struck' = struck /\ copy' = copy /\ audience' = audience /\ ok' = ok /\ commands' = commands
      /\ fault' = fault
  BY DEF CloseRemove, clientVars, sendVars
<1>2. to \in {"erase_failed", "set"} /\ (mutex = t <=> to = "erase_failed")
  OBVIOUS
<1> HIDE DEF to
<1>3. /\ pc[t] = "remove" /\ pc'[t] = to /\ pc' \in [Threads -> Places]
      /\ \A u \in Threads : u # t => pc'[u] = pc[u]
  BY <1>1, <1>2, GotoPlace DEF IInv, Places
<1>4. /\ clientFDs' = clientFDs \ {num[t]} /\ clientFDs' \subseteq Fds /\ conn' \in Slots
      /\ \A f \in Fds : conn'[f] = IF f \in clientFDs /\ f \notin clientFDs' THEN None ELSE conn[f]
  BY <1>1, RemoveValue DEF IInv
<1>5. /\ num' \in [Threads -> Fds \cup {NoFd}]
      /\ \A u \in Threads : u # t => num'[u] = num[u]
  BY <1>1 DEF IInv, Types
<1>6. Types'
  BY <1>1, <1>3, <1>4, <1>5 DEF IInv, Types
<1>7. MutexInv'
  BY <1>1, <1>2, <1>3 DEF IInv, LeakInv, MutexInv, Types
<1>8. RemoveInv'
  BY <1>1, <1>2, <1>3, <1>5, RemoveKept DEF IInv, LeakInv
<1>9. Shrinks
  <2>1. \A c \in audience' : Known(c)
    BY <1>1 DEF Known
  <2> QED
    BY <1>1, <1>2, <1>3, <1>4, <2>1 DEF Shrinks
<1>10. FreshInv' /\ RegisterInv' /\ PlaceInv' /\ NumberInv'
  BY <1>6, <1>9, ShrinkInv DEF IInv, LeakInv
<1>11. OwnerInv'
  <2>1. ASSUME NEW s \in Servers, NEW g \in Fds, list[s][g] # None,
               fd[list[s][g]] \in clientFDs', ~Doomed(list[s][g]),
               NEW u \in Threads, pc'[u] \in {"set", "erase_failed"}
        PROVE  hand'[u].c # list[s][g]
    <3>1. CASE u # t
      BY <1>1, <1>3, <2>1, <3>1 DEF Doomed
    <3>2. CASE u = t
      <4>1. list[s][g] \in Conns /\ fd[list[s][g]] # num[t] /\ fd[list[s][g]] # NoFd
        BY <1>4, <2>1, Numbers DEF IInv, Types, Slots
      <4>2. hand[t].c # None => fd[hand[t].c] \in {num[t], NoFd}
        BY <1>3 DEF IInv, LeakInv, RemoveInv
      <4> QED
        BY <1>1, <3>2, <4>1, <4>2, <2>1
    <3> QED
      BY <3>1, <3>2
  <2>2. clientFDs' \subseteq clientFDs
    BY <1>4
  <2>20. \A g \in clientFDs' : conn'[g] = conn[g]
    BY <1>4, ConnKept
  <2> QED
    BY <1>1, <2>1, <2>2, <2>20, OwnerKept DEF IInv, LeakInv
<1>12. StopInv'
  BY <1>1, <1>3 DEF IInv, LeakInv, StopInv
<1> QED
  BY <1>6, <1>7, <1>8, <1>10, <1>11, <1>12 DEF IInv, LeakInv

LEMMA CloseSetInv ==
  ASSUME IInv, NEW s \in Servers, CloseSet(s)
  PROVE  IInv'
<1>1. /\ Goto(s, "set", "erase") /\ home' = home /\ failing' = failing /\ got' = got /\ mutex' = mutex
      /\ running' = running /\ hand' = hand /\ num' = num /\ place' = place /\ list' = list
      /\ copy' = copy /\ audience' = audience /\ ok' = ok /\ commands' = commands
      /\ fault' = fault /\ conn' = conn /\ clientFDs' = clientFDs
  BY DEF CloseSet, netVars, sendVars
<1>2. PICK d \in Reached(hand[s].c) :
        /\ fd' = [c \in Conns |-> IF c = d THEN NoFd ELSE fd[c]]
        /\ struck' = struck \cup Struck(s, d)
  BY DEF CloseSet
<1>3. /\ pc[s] = "set" /\ pc'[s] = "erase" /\ pc' \in [Threads -> Places]
      /\ \A u \in Threads : u # s => pc'[u] = pc[u]
  BY <1>1, GotoPlace DEF IInv, Places
<1>4. /\ fd' \in [Conns -> Fds \cup {NoFd}]
      /\ \A c \in Conns : fd'[c] = IF c = d THEN NoFd ELSE fd[c]
  BY <1>2 DEF IInv, Types
<1>5. /\ struck \subseteq struck' /\ struck' \subseteq Conns
      /\ \A c \in Conns \ struck' : ~Doomed(c) => c # d
  <2>1. d \in Conns \cup {None}
    BY <1>2, ReachedClient DEF IInv
  <2>2. Doomed(hand[s].c)
    BY <1>3 DEF Doomed
  <2>3. struck' = struck \cup ({d} \ {None, hand[s].c}) /\ struck \subseteq Conns
    BY <1>2 DEF Struck, IInv, Types
  <2>4. ASSUME NEW c \in Conns \ struck', ~Doomed(c) PROVE c # d
    <3>1. c # None /\ c # hand[s].c
      BY <2>2, <2>4, Numbers
    <3> QED
      BY <2>3, <2>4, <3>1
  <2> QED
    BY <2>1, <2>3, <2>4
<1>6. Types'
  BY <1>1, <1>3, <1>4, <1>5 DEF IInv, Types
<1>7. MutexInv'
  BY <1>1, <1>3 DEF IInv, LeakInv, MutexInv, Types
<1>8. RemoveInv'
  BY <1>1, <1>3, <1>4, RemoveKept DEF IInv, LeakInv
<1>9. Shrinks
  <2>1. \A c \in audience' : Known(c)
    BY <1>1 DEF Known
  <2>2. \A f \in Fds : conn'[f] = IF f \in clientFDs /\ f \notin clientFDs' THEN None ELSE conn[f]
    BY <1>1
  <2> QED
    BY <1>1, <1>3, <1>4, <2>1, <2>2 DEF Shrinks
<1>10. FreshInv' /\ RegisterInv' /\ PlaceInv' /\ NumberInv'
  BY <1>6, <1>9, ShrinkInv DEF IInv, LeakInv
<1>11. OwnerInv'
  <2>1. ASSUME NEW u \in Servers, NEW g \in Fds, list[u][g] # None, ~Doomed(list[u][g]),
               list[u][g] \notin struck'
        PROVE  fd'[list[u][g]] = fd[list[u][g]]
    <3>1. list[u][g] \in Conns
      BY <2>1 DEF IInv, Types, Slots
    <3>2. list[u][g] # d
      BY <1>5, <2>1, <3>1
    <3> QED
      BY <1>4, <3>1, <3>2
  <2>2. ASSUME NEW c, ~Doomed(c), NEW t \in Threads, pc'[t] \in {"set", "erase_failed"}
        PROVE  hand'[t].c # c
    BY <1>1, <1>3, <2>2 DEF Doomed
  <2> QED
    BY <1>1, <1>5, <2>1, <2>2, OwnerKept DEF IInv, LeakInv
<1>12. StopInv'
  BY <1>1, <1>3 DEF IInv, LeakInv, StopInv
<1> QED
  BY <1>6, <1>7, <1>8, <1>10, <1>11, <1>12 DEF IInv, LeakInv

LEMMA ReleaseValue ==
  ASSUME Types, NEW t \in Threads, Release(t)
  PROVE  /\ hand' \in [Threads -> Entry] /\ hand'[t].c = None
         /\ \A u \in Threads : u # t => hand'[u] = hand[u]
  BY DEF Types, Release, Entry, Nothing

(* A client whose number stays registered was not found there.             *)
LEMMA EraseOwner ==
  ASSUME IInv, NEW s \in Servers, NEW f \in Fds \cup {NoFd}, NEW c, Erase(s, f, c),
         NEW u \in Servers, NEW g \in Fds, list[u][g] # None, list[u][g] # c,
         fd[list[u][g]] \in clientFDs'
  PROVE  list'[u][g] = list[u][g] /\ fd'[list[u][g]] = fd[list[u][g]]
<1> DEFINE d == list[u][g]
<1>0. Types
  BY DEF IInv
<1>1. /\ clientFDs' = clientFDs \ NumbersOf(Found(s, f, c)) /\ clientFDs' \subseteq Fds
      /\ \A e \in Conns : fd'[e] = IF e \in Found(s, f, c) \cup {c} THEN NoFd ELSE fd[e]
  BY <1>0, EraseValue
<1>2. list'[u][g] = IF u = s /\ g = f THEN None ELSE list[u][g]
  BY <1>0, EraseList
<1>3. d \in Conns
  BY DEF IInv, Types, Slots
<1>4. u = s /\ g = f => d \in Found(s, f, c)
  BY DEF Found
<1>5. d # c /\ fd[d] \in clientFDs'
  OBVIOUS
<1> HIDE DEF d
<1>6. fd[d] # NoFd
  BY <1>1, <1>5, Numbers
<1>7. d \notin Found(s, f, c)
  BY <1>1, <1>5, <1>6 DEF NumbersOf
<1>8. list'[u][g] = d
  BY <1>2, <1>4, <1>7 DEF d
<1>9. fd'[d] = fd[d]
  BY <1>1, <1>3, <1>5, <1>7
<1> QED
  BY <1>8, <1>9 DEF d

LEMMA EraseLostInv ==
  ASSUME IInv, NEW s \in Servers, EraseLost(s)
  PROVE  IInv'
<1> DEFINE f == hand[s].fd
<1>1. /\ Goto(s, "erase", "wait") /\ Erase(s, f, None) /\ Release(s)
      /\ home' = home /\ failing' = failing /\ got' = got /\ mutex' = mutex
      /\ running' = running /\ num' = num /\ place' = place /\ struck' = struck
      /\ copy' = copy /\ audience' = audience /\ ok' = ok /\ commands' = commands
      /\ fault' = fault
  BY DEF EraseLost, sendVars
<1>2. f \in Fds \cup {NoFd} /\ Types
  BY DEF IInv, Types, Entry
<1> HIDE DEF f
<1>3. /\ pc[s] = "erase" /\ pc'[s] = "wait" /\ pc' \in [Threads -> Places]
      /\ \A u \in Threads : u # s => pc'[u] = pc[u]
  BY <1>1, <1>2, GotoPlace DEF Places
<1>4. /\ clientFDs' \subseteq clientFDs /\ clientFDs' \subseteq Fds /\ conn' \in Slots
      /\ \A g \in Fds : conn'[g] = IF g \in clientFDs /\ g \notin clientFDs' THEN None ELSE conn[g]
      /\ fd' \in [Conns -> Fds \cup {NoFd}] /\ \A c \in Conns : fd'[c] \in {fd[c], NoFd}
  BY <1>1, <1>2, EraseValue
<1>5. /\ list' \in [Servers -> Slots]
      /\ \A u \in Servers, g \in Fds : list'[u][g] \in {list[u][g], None}
  BY <1>1, <1>2, EraseList
<1>6. /\ hand' \in [Threads -> Entry] /\ hand'[s].c = None
      /\ \A u \in Threads : u # s => hand'[u] = hand[u]
  BY <1>1, <1>2, ReleaseValue
<1>7. Types'
  BY <1>1, <1>3, <1>4, <1>5, <1>6 DEF IInv, Types
<1>8. MutexInv'
  BY <1>1, <1>3 DEF IInv, LeakInv, MutexInv, Types
<1>9. RemoveInv'
  BY <1>1, <1>2, <1>3, <1>4, <1>6, RemoveKept DEF IInv, LeakInv
<1>10. Shrinks
  <2>1. \A c \in audience' : Known(c)
    BY <1>1 DEF Known
  <2>2. \A u \in Servers : /\ pc'[u] = "insert" <=> pc[u] = "insert"
                           /\ pc[u] = "insert" => hand'[u] = hand[u]
    BY <1>3, <1>6
  <2> QED
    BY <1>1, <1>4, <1>5, <1>6, <2>1, <2>2 DEF Shrinks
<1>11. FreshInv' /\ RegisterInv' /\ PlaceInv' /\ NumberInv'
  BY <1>7, <1>10, ShrinkInv DEF IInv, LeakInv
<1>12. OwnerInv'
  <2>1. ASSUME NEW u \in Servers, NEW g \in Fds, list[u][g] # None, fd[list[u][g]] \in clientFDs'
        PROVE  list'[u][g] = list[u][g] /\ fd'[list[u][g]] = fd[list[u][g]]
    BY <1>1, <1>2, <2>1, EraseOwner
  <2>2. ASSUME NEW c, c # None, ~Doomed(c), NEW t \in Threads, pc'[t] \in {"set", "erase_failed"}
        PROVE  hand'[t].c # c
    BY <1>3, <1>6, <2>2 DEF Doomed
  <2>20. \A g \in clientFDs' : conn'[g] = conn[g]
    BY <1>4, ConnKept
  <2> QED
    BY <1>1, <1>4, <2>1, <2>2, <2>20, OwnerKept DEF IInv, LeakInv
<1>13. StopInv'
  <2>1. s = "event" => list'["command"] = list["command"]
    BY <1>1 DEF Erase
  <2> QED
    BY <1>3, <2>1 DEF IInv, LeakInv, StopInv
<1> QED
  BY <1>7, <1>8, <1>9, <1>11, <1>12, <1>13 DEF IInv, LeakInv

LEMMA EmptyList ==
  ASSUME NEW l \in Slots, \A f \in Fds : l[f] = None
  PROVE  l = Empty
  BY DEF Slots, Empty

LEMMA EraseFailedInv ==
  ASSUME IInv, NEW t \in Senders, EraseFailed(t)
  PROVE  IInv'
<1> DEFINE f == hand[t].fd
<1>1. /\ Goto(t, "erase_failed", "next") /\ Release(t)
      /\ home' = home /\ failing' = failing /\ got' = got /\ mutex' = NoOne
      /\ running' = running /\ num' = num /\ place' = place
      /\ copy' = copy /\ audience' = audience /\ ok' \in BOOLEAN /\ commands' = commands
      /\ fault' = fault
  BY DEF EraseFailed, IInv, Types
<1>0. PICK c \in Reached(hand[t].c) :
        Erase("event", f, c) /\ struck' = struck \cup Struck(t, c)
  BY DEF EraseFailed
<1>2. f \in Fds \cup {NoFd} /\ Types /\ "event" \in Servers
  BY DEF IInv, Types, Entry
<1>3. /\ pc[t] = "erase_failed" /\ pc'[t] = "next" /\ pc' \in [Threads -> Places]
      /\ \A u \in Threads : u # t => pc'[u] = pc[u]
  BY <1>1, <1>2, GotoPlace DEF Places
<1>30. /\ struck \subseteq struck' /\ struck' \subseteq Conns
       /\ \A e \in Conns \ struck' : ~Doomed(e) => e # c
  <2>1. c \in Conns \cup {None}
    BY <1>0, <1>2, ReachedClient
  <2>2. Doomed(hand[t].c)
    BY <1>3 DEF Doomed
  <2>3. struck' = struck \cup ({c} \ {None, hand[t].c}) /\ struck \subseteq Conns
    BY <1>0, <1>2 DEF Struck, Types
  <2>4. ASSUME NEW e \in Conns \ struck', ~Doomed(e) PROVE e # c
    <3>1. e # None /\ e # hand[t].c
      BY <2>2, <2>4, Numbers
    <3> QED
      BY <2>3, <2>4, <3>1
  <2> QED
    BY <2>1, <2>3, <2>4
<1> HIDE DEF f
<1>4. /\ clientFDs' \subseteq clientFDs /\ clientFDs' \subseteq Fds /\ conn' \in Slots
      /\ \A g \in Fds : conn'[g] = IF g \in clientFDs /\ g \notin clientFDs' THEN None ELSE conn[g]
      /\ fd' \in [Conns -> Fds \cup {NoFd}] /\ \A d \in Conns : fd'[d] \in {fd[d], NoFd}
  BY <1>0, <1>2, EraseValue
<1>5. /\ list' \in [Servers -> Slots]
      /\ \A u \in Servers, g \in Fds :
           list'[u][g] = IF u = "event" /\ g = f THEN None ELSE list[u][g]
  BY <1>0, <1>2, EraseList
<1>6. /\ hand' \in [Threads -> Entry] /\ hand'[t].c = None
      /\ \A u \in Threads : u # t => hand'[u] = hand[u]
  BY <1>1, <1>2, ReleaseValue
<1>7. Types'
  BY <1>1, <1>3, <1>4, <1>5, <1>6, <1>30 DEF IInv, Types
<1>8. MutexInv'
  BY <1>1, <1>3 DEF IInv, LeakInv, MutexInv, Types
<1>9. RemoveInv'
  BY <1>1, <1>2, <1>3, <1>4, <1>6, RemoveKept DEF IInv, LeakInv
<1>10. Shrinks
  <2>1. \A d \in audience' : Known(d)
    BY <1>1 DEF Known
  <2>2. \A u \in Servers : /\ pc'[u] = "insert" <=> pc[u] = "insert"
                           /\ pc[u] = "insert" => hand'[u] = hand[u]
    BY <1>3, <1>6
  <2> QED
    BY <1>1, <1>4, <1>5, <1>6, <2>1, <2>2 DEF Shrinks
<1>11. FreshInv' /\ RegisterInv' /\ PlaceInv' /\ NumberInv'
  BY <1>7, <1>10, ShrinkInv DEF IInv, LeakInv
<1>12. OwnerInv'
  <2>1. ASSUME NEW u \in Servers, NEW g \in Fds, list[u][g] # None, ~Doomed(list[u][g]),
               fd[list[u][g]] \in clientFDs', list[u][g] \notin struck'
        PROVE  list'[u][g] = list[u][g] /\ fd'[list[u][g]] = fd[list[u][g]]
    <3>1. list[u][g] \in Conns
      BY <1>2, <2>1 DEF Types, Slots
    <3>2. list[u][g] # c
      BY <1>30, <2>1, <3>1
    <3> QED
      BY <1>0, <1>2, <2>1, <3>2, EraseOwner
  <2>2. ASSUME NEW d, d # None, ~Doomed(d), NEW u \in Threads, pc'[u] \in {"set", "erase_failed"}
        PROVE  hand'[u].c # d
    BY <1>3, <1>6, <2>2 DEF Doomed
  <2>20. \A g \in clientFDs' : conn'[g] = conn[g]
    BY <1>4, ConnKept
  <2> QED
    BY <1>4, <1>30, <2>1, <2>2, <2>20, OwnerKept DEF IInv, LeakInv
<1>13. StopInv'
  <2>1. pc["main"] = "done" => list["event"] = Empty
    BY DEF IInv, LeakInv, StopInv
  <2>2. list'["command"] = list["command"]
    BY <1>0 DEF Erase
  <2>3. pc["main"] = "done" => list'["event"] = Empty
    <3>1. list["event"] = Empty => \A g \in Fds : list'["event"][g] = None
      BY <1>5 DEF Empty
    <3> QED
      BY <1>5, <2>1, <3>1, EmptyList
  <2> QED
    BY <1>3, <2>2, <2>3 DEF IInv, LeakInv, StopInv
<1> QED
  BY <1>7, <1>8, <1>9, <1>11, <1>12, <1>13 DEF IInv, LeakInv

(* All clients of a list are closed: Destroy, and the list is empty.       *)
LEMMA DestroyTypes ==
  ASSUME Types, NEW s \in Servers, Destroy(ClientsOf(list[s])),
         list' = [list EXCEPT ![s] = Empty]
  PROVE  /\ clientFDs' \subseteq clientFDs /\ clientFDs' \subseteq Fds /\ conn' \in Slots
         /\ \A g \in Fds : conn'[g] = IF g \in clientFDs /\ g \notin clientFDs' THEN None ELSE conn[g]
         /\ fd' \in [Conns -> Fds \cup {NoFd}] /\ \A d \in Conns : fd'[d] \in {fd[d], NoFd}
         /\ list' \in [Servers -> Slots] /\ list'[s] = Empty
         /\ \A u \in Servers : u # s => list'[u] = list[u]
<1>1. Empty \in Slots
  BY DEF Empty, Slots
<1>2. /\ list' \in [Servers -> Slots] /\ list'[s] = Empty
      /\ \A u \in Servers : u # s => list'[u] = list[u]
  BY <1>1 DEF Types
<1> DEFINE C == ClientsOf(list[s])
<1>3. Destroy(C)
  OBVIOUS
<1> HIDE DEF C
<1>4. /\ clientFDs' \subseteq clientFDs /\ clientFDs' \subseteq Fds /\ conn' \in Slots
      /\ \A g \in Fds : conn'[g] = IF g \in clientFDs /\ g \notin clientFDs' THEN None ELSE conn[g]
      /\ fd' \in [Conns -> Fds \cup {NoFd}] /\ \A d \in Conns : fd'[d] \in {fd[d], NoFd}
  BY <1>3, DestroyValue
<1> QED
  BY <1>2, <1>4

LEMMA DestroyOwner ==
  ASSUME Types, NEW s \in Servers, Destroy(ClientsOf(list[s])),
         list' = [list EXCEPT ![s] = Empty],
         NEW u \in Servers, NEW g \in Fds, list[u][g] # None,
         fd[list[u][g]] \in clientFDs'
  PROVE  list'[u][g] = list[u][g] /\ fd'[list[u][g]] = fd[list[u][g]]
<1> DEFINE d == list[u][g]
           C == ClientsOf(list[s])
<1>1. /\ clientFDs' = clientFDs \ NumbersOf(C) /\ clientFDs' \subseteq Fds
      /\ \A e \in Conns : fd'[e] = IF e \in C THEN NoFd ELSE fd[e]
  BY DestroyValue
<1>2. d \in Conns /\ fd[d] \in clientFDs'
  BY DEF Types, Slots
<1>3. u = s => d \in C
  BY ClientsOfSlots
<1>4. u # s => list'[u][g] = d
  BY DestroyTypes
<1> HIDE DEF d, C
<1>5. fd[d] # NoFd
  BY <1>1, <1>2, Numbers
<1>6. d \notin C
  BY <1>1, <1>2, <1>5 DEF NumbersOf
<1>7. fd'[d] = fd[d]
  BY <1>1, <1>2, <1>6
<1> QED
  BY <1>3, <1>4, <1>6, <1>7 DEF d

(* The end of a server's list, whether run() empties it or stop().         *)
LEMMA DestroyInv ==
  ASSUME IInv, NEW s \in Servers, Destroy(ClientsOf(list[s])),
         list' = [list EXCEPT ![s] = Empty],
         NEW t \in {s, "main"}, NEW from, NEW to \in Places, Goto(t, from, to),
         from \in {"wait", "join_command", "join_event"},
         to \in {"done", "join_event"},
         UNCHANGED <<place, struck, home, failing, got, mutex, hand, num, sendVars, commands, fault>>,
         running' \in [Servers -> BOOLEAN], StopInv'
  PROVE  IInv'
<1>1. Types
  BY DEF IInv
<1>2. /\ pc[t] = from /\ pc'[t] = to /\ pc' \in [Threads -> Places]
      /\ \A u \in Threads : u # t => pc'[u] = pc[u]
  BY <1>1, GotoPlace
<1>3. /\ clientFDs' \subseteq clientFDs /\ clientFDs' \subseteq Fds /\ conn' \in Slots
      /\ \A g \in Fds : conn'[g] = IF g \in clientFDs /\ g \notin clientFDs' THEN None ELSE conn[g]
      /\ fd' \in [Conns -> Fds \cup {NoFd}] /\ \A d \in Conns : fd'[d] \in {fd[d], NoFd}
      /\ list' \in [Servers -> Slots] /\ list'[s] = Empty
      /\ \A u \in Servers : u # s => list'[u] = list[u]
  BY <1>1, DestroyTypes
<1>4. /\ copy' = copy /\ audience' = audience /\ ok' = ok
  BY DEF sendVars
<1>5. Types'
  BY <1>1, <1>2, <1>3, <1>4 DEF Types
<1>6. MutexInv'
  BY <1>2 DEF IInv, LeakInv, MutexInv, Types
<1>7. RemoveInv'
  BY <1>1, <1>2, <1>3, RemoveKept DEF IInv, LeakInv
<1>8. Shrinks
  <2>1. \A c \in audience' : Known(c)
    BY <1>4 DEF Known
  <2>2. \A u \in Servers, g \in Fds : list'[u][g] \in {list[u][g], None}
    BY <1>3 DEF Empty
  <2>3. \A u \in Servers : /\ pc'[u] = "insert" <=> pc[u] = "insert"
                           /\ pc[u] = "insert" => hand'[u] = hand[u]
    BY <1>2
  <2> QED
    BY <1>3, <1>4, <2>1, <2>2, <2>3 DEF Shrinks
<1>9. FreshInv' /\ RegisterInv' /\ PlaceInv' /\ NumberInv'
  BY <1>5, <1>8, ShrinkInv DEF IInv, LeakInv
<1>10. OwnerInv'
  <2>1. ASSUME NEW u \in Servers, NEW g \in Fds, list[u][g] # None, fd[list[u][g]] \in clientFDs'
        PROVE  list'[u][g] = list[u][g] /\ fd'[list[u][g]] = fd[list[u][g]]
    BY <1>1, <2>1, DestroyOwner
  <2>2. ASSUME NEW c, ~Doomed(c), NEW u \in Threads, pc'[u] \in {"set", "erase_failed"}
        PROVE  hand'[u].c # c
    BY <1>2, <2>2 DEF Doomed
  <2>20. \A g \in clientFDs' : conn'[g] = conn[g]
    BY <1>3, ConnKept
  <2> QED
    BY <1>3, <2>1, <2>2, <2>20, OwnerKept DEF IInv, LeakInv
<1> QED
  BY <1>5, <1>6, <1>7, <1>9, <1>10 DEF IInv, LeakInv

LEMMA CleanupInv ==
  ASSUME IInv, NEW s \in Servers, Cleanup(s)
  PROVE  IInv'
<1>1. /\ Destroy(ClientsOf(list[s])) /\ list' = [list EXCEPT ![s] = Empty]
      /\ Goto(s, "wait", "done") /\ running' = running
      /\ UNCHANGED <<place, struck, home, failing, got, mutex, hand, num, sendVars, commands, fault>>
  BY DEF Cleanup
<1>2. running' \in [Servers -> BOOLEAN]
  BY <1>1 DEF IInv, Types
<1>3. StopInv'
  <2>1. pc[s] = "wait" /\ \A u \in Threads : u # s => pc'[u] = pc[u]
    BY <1>1, GotoPlace DEF IInv, Places
  <2>2. \A u \in Servers : u # s => list'[u] = list[u]
    BY <1>1, DestroyTypes DEF IInv
  <2> QED
    BY <2>1, <2>2 DEF IInv, LeakInv, StopInv
<1> QED
  BY <1>1, <1>2, <1>3, DestroyInv DEF Places

LEMMA StopEventInv ==
  ASSUME IInv, StopEvent
  PROVE  IInv'
<1>1. /\ Destroy(ClientsOf(list["command"])) /\ list' = [list EXCEPT !["command"] = Empty]
      /\ Goto("main", "join_command", "join_event") /\ pc["command"] = "done"
      /\ UNCHANGED <<place, struck, home, failing, got, mutex, hand, num, sendVars, commands, fault>>
  BY DEF StopEvent, Join
<1>2. running' \in [Servers -> BOOLEAN]
  BY DEF StopEvent, IInv, Types
<1>3. StopInv'
  <2>1. pc'["main"] = "join_event" /\ \A u \in Threads : u # "main" => pc'[u] = pc[u]
    BY <1>1, GotoPlace DEF IInv, Places
  <2>2. list'["command"] = Empty
    BY <1>1, DestroyTypes DEF IInv
  <2> QED
    BY <1>1, <2>1, <2>2 DEF StopInv
<1> QED
  BY <1>1, <1>2, <1>3, DestroyInv DEF Places

LEMMA JoinEventInv ==
  ASSUME IInv, JoinEvent
  PROVE  IInv'
<1>1. /\ Destroy(ClientsOf(list["event"])) /\ list' = [list EXCEPT !["event"] = Empty]
      /\ Goto("main", "join_event", "done") /\ pc["event"] = "done" /\ running' = running
      /\ UNCHANGED <<place, struck, home, failing, got, mutex, hand, num, sendVars, commands, fault>>
  BY DEF JoinEvent, Join
<1>2. running' \in [Servers -> BOOLEAN]
  BY <1>1 DEF IInv, Types
<1>3. StopInv'
  <2>1. pc["main"] = "join_event" /\ \A u \in Threads : u # "main" => pc'[u] = pc[u]
    BY <1>1, GotoPlace DEF IInv, Places
  <2>2. list'["command"] = list["command"] /\ list'["event"] = Empty
    BY <1>1, DestroyTypes DEF IInv
  <2> QED
    BY <1>1, <2>1, <2>2 DEF IInv, LeakInv, StopInv
<1> QED
  BY <1>1, <1>2, <1>3, DestroyInv DEF Places

-----------------------------------------------------------------------------
(* A connection is accepted, and its client enters the list.               *)
LEMMA AcceptInv ==
  ASSUME IInv, NEW s \in Servers, Accept(s)
  PROVE  IInv'
<1>1. /\ Goto(s, "wait", "insert") /\ got' = got /\ clientFDs' = clientFDs /\ fd' = fd
      /\ place' = place /\ list' = list /\ mutex' = mutex /\ running' = running
      /\ num' = num /\ copy' = copy /\ audience' = audience /\ ok' = ok
      /\ commands' = commands /\ fault' = fault /\ struck' = struck
  BY DEF Accept, clientVars, sendVars
<1>2. Types
  BY DEF IInv
<1>3. PICK c \in Conns, f \in Fds :
        /\ home[c] = NoOne /\ conn[f] = None
        /\ home' \in [Conns -> Servers \cup {NoOne}] /\ home'[c] = s
        /\ \A d \in Conns : d # c => home'[d] = home[d]
        /\ conn' \in Slots /\ conn'[f] = c
        /\ \A g \in Fds : g # f => conn'[g] = conn[g]
        /\ failing' \in {failing, failing \cup {c}}
        /\ hand' \in [Threads -> Entry] /\ hand'[s].fd = f /\ hand'[s].c = c
        /\ \A t \in Threads : t # s => hand'[t] = hand[t]
  BY <1>2, AcceptValue
<1>4. /\ pc[s] = "wait" /\ pc'[s] = "insert" /\ pc' \in [Threads -> Places]
      /\ \A u \in Threads : u # s => pc'[u] = pc[u]
  BY <1>1, <1>2, GotoPlace DEF Places
<1>5. Types'
  BY <1>1, <1>2, <1>3, <1>4 DEF Types
<1>6. MutexInv'
  BY <1>1, <1>4 DEF IInv, LeakInv, MutexInv, Types
<1>7. RemoveInv'
  BY <1>1, <1>2, <1>3, <1>4, RemoveKept DEF IInv, LeakInv
<1>8. StopInv'
  BY <1>1, <1>4 DEF IInv, LeakInv, StopInv
<1>13. f \notin clientFDs /\ \A u \in Servers : pc[u] = "insert" => hand[u].fd # f
  BY <1>3, Numbers DEF IInv, LeakInv, RegisterInv, FreshInv
<1>9. OwnerInv'
  <2>1. ASSUME NEW d, ~Doomed(d), NEW t \in Threads, pc'[t] \in {"set", "erase_failed"}
        PROVE  hand'[t].c # d
    BY <1>3, <1>4, <2>1 DEF Doomed
  <2>2. \A g \in clientFDs' : conn'[g] = conn[g]
    BY <1>1, <1>2, <1>3, <1>13 DEF Types
  <2> QED
    BY <1>1, <2>1, <2>2, OwnerKept DEF IInv, LeakInv
<1>10. PlaceInv'
  BY <1>1 DEF IInv, LeakInv, PlaceInv, Listed
<1>11. \A e \in Conns : Known(e)' <=> Known(e)
  BY <1>1 DEF Known, Listed, Copied
<1>12. /\ ~Known(c) /\ \A t \in Threads : hand[t].c # c
       /\ \A g \in Fds : conn[g] # c
      /\ \A d \in Conns : place[d] # c
  BY <1>3 DEF IInv, LeakInv, FreshInv
<1>14. c # None
  BY Numbers
<1>15. FreshInv'
  <2>1. ASSUME NEW e \in Conns,
               \/ Known(e)'
               \/ \E t \in Threads : hand'[t].c = e
               \/ \E g \in Fds : conn'[g] = e
               \/ \E d \in Conns : place'[d] = e
        PROVE  home'[e] # NoOne
    <3>1. CASE e = c
      BY <1>3, <3>1
    <3>2. CASE e # c
      <4>1. (\E t \in Threads : hand'[t].c = e) => \E t \in Threads : hand[t].c = e
        BY <1>3, <3>2
      <4>2. (\E g \in Fds : conn'[g] = e) => \E g \in Fds : conn[g] = e
        BY <1>3, <3>2
      <4>3. home[e] # NoOne
        BY <1>1, <1>11, <2>1, <4>1, <4>2 DEF IInv, LeakInv, FreshInv
      <4> QED
        BY <1>3, <3>2, <4>3
    <3> QED
      BY <3>1, <3>2
  <2>2. ASSUME NEW u \in Servers, pc'[u] = "insert"
        PROVE  /\ hand'[u].c \in Conns /\ hand'[u].fd \in Fds \ clientFDs'
               /\ home'[hand'[u].c] = u /\ conn'[hand'[u].fd] = hand'[u].c
               /\ ~Known(hand'[u].c)
               /\ \A d \in Conns : place'[d] # hand'[u].c
               /\ \A t \in Threads : t # u => hand'[t].c # hand'[u].c
    <3>1. CASE u = s
      BY <1>1, <1>3, <1>12, <1>13, <3>1
    <3>2. CASE u # s
      <4>1. hand'[u] = hand[u] /\ pc[u] = "insert"
        BY <1>3, <1>4, <2>2, <3>2
      <4>2. /\ hand[u].c \in Conns /\ hand[u].fd \in Fds \ clientFDs
            /\ home[hand[u].c] = u /\ conn[hand[u].fd] = hand[u].c
            /\ ~Known(hand[u].c)
            /\ \A d \in Conns : place[d] # hand[u].c
            /\ \A t \in Threads : t # u => hand[t].c # hand[u].c
        BY <4>1 DEF IInv, LeakInv, FreshInv
      <4>3. hand[u].c # c /\ hand[u].fd # f
        BY <1>12, <1>13, <4>1
      <4> QED
        BY <1>1, <1>3, <4>1, <4>2, <4>3
    <3> QED
      BY <3>1, <3>2
  <2>3. \A g, h \in Fds : conn'[g] = conn'[h] /\ conn'[g] # None => g = h
    <3>1. \A g, h \in Fds : conn[g] = conn[h] /\ conn[g] # None => g = h
      BY DEF IInv, LeakInv, FreshInv
    <3> QED
      BY <1>3, <1>12, <3>1
  <2>4. ASSUME NEW u \in Servers, pc'[u] = "insert" PROVE ~Known(hand[u].c)'
    <3>1. Known(hand[u].c)' <=> Known(hand'[u].c)
      BY <1>1 DEF Known, Listed, Copied
    <3> QED
      BY <2>2, <2>4, <3>1
  <2> QED
    BY <2>1, <2>2, <2>3, <2>4 DEF FreshInv
<1>16. RegisterInv'
  <2>1. ASSUME NEW g \in Fds, g # f
        PROVE  /\ g \in clientFDs' => conn'[g] # None
               /\ conn'[g] # None =>
                    g \in clientFDs' \/ \E u \in Servers : pc'[u] = "insert" /\ hand'[u].fd = g
    <3>1. \A u \in Servers : pc[u] = "insert" => u # s /\ pc'[u] = "insert" /\ hand'[u] = hand[u]
      BY <1>3, <1>4
    <3> QED
      BY <1>1, <1>3, <2>1, <3>1 DEF IInv, LeakInv, RegisterInv
  <2>2. f \notin clientFDs' /\ pc'[s] = "insert" /\ hand'[s].fd = f
    BY <1>1, <1>3, <1>4, <1>13
  <2> QED
    BY <2>1, <2>2 DEF RegisterInv
<1>17. NumberInv'
  <2>1. ASSUME NEW u \in Servers, NEW g \in Fds, list[u][g] # None
        PROVE  /\ fd'[list[u][g]] \in {g, NoFd}
               /\ \A h \in Fds : conn'[h] = list[u][g] => h = g
    <3>1. list[u][g] # c
      BY <1>12 DEF Known, Listed
    <3> QED
      BY <1>1, <1>3, <2>1, <3>1 DEF IInv, LeakInv, NumberInv
  <2> QED
    BY <1>1, <2>1 DEF IInv, LeakInv, NumberInv
<1> QED
  BY <1>5, <1>6, <1>7, <1>8, <1>9, <1>10, <1>15, <1>16, <1>17 DEF IInv, LeakInv

LEMMA FreedPlaces ==
  ASSUME Types, NEW m \in Freed \ {None}
  PROVE  /\ \E x \in Conns : place[x] = m
         /\ \A x \in Conns : Listed(x) => place[x] # m
<1>1. \A x \in Pointed : x \in Conns \cup {None}
  BY ClientsOfSlots DEF Pointed, Types, Entry, Slots
<1>2. \A x \in Conns : Listed(x) => x \in Alive
  BY AliveListed, Numbers
<1>3. PICK y \in Pointed \ (Alive \cup {None}) : place[y] = m
  BY DEF Freed
<1>4. m \notin {place[x] : x \in Alive}
  BY DEF Freed
<1> QED
  BY <1>1, <1>2, <1>3, <1>4

LEMMA InsertInv ==
  ASSUME IInv, NEW s \in Servers, Insert(s)
  PROVE  IInv'
<1> DEFINE f == hand[s].fd
           c == hand[s].c
           old == {list[s][f]} \ {None}
<1>1. /\ Goto(s, "insert", "wait") /\ home' = home /\ failing' = failing /\ got' = got
      /\ mutex' = mutex /\ running' = running
      /\ num' = num /\ copy' = copy /\ audience' = audience /\ ok' = ok
      /\ commands' = commands /\ fault' = fault /\ struck' = struck
  BY DEF Insert, sendVars
<1>2. Types
  BY DEF IInv
<1>3. /\ pc[s] = "insert" /\ pc'[s] = "wait" /\ pc' \in [Threads -> Places]
      /\ \A u \in Threads : u # s => pc'[u] = pc[u]
  BY <1>1, <1>2, GotoPlace DEF Places
<1>4. /\ c \in Conns /\ f \in Fds /\ f \notin clientFDs /\ home[c] = s /\ conn[f] = c
      /\ ~Known(c) /\ \A d \in Conns : place[d] # c
      /\ \A t \in Threads : t # s => hand[t].c # c
  BY <1>3 DEF IInv, LeakInv, FreshInv
<1>5. /\ clientFDs' = (clientFDs \cup {f}) \ NumbersOf(old) /\ clientFDs' \subseteq Fds
      /\ conn' \in Slots
      /\ \A g \in Fds : conn'[g] =
           IF g \in clientFDs \cup {f} /\ g \notin clientFDs' THEN None ELSE conn[g]
      /\ fd' \in [Conns -> Fds \cup {NoFd}] /\ fd'[c] = f
      /\ \A d \in Conns : d # c => fd'[d] = IF d \in old THEN NoFd ELSE fd[d]
      /\ list' \in [Servers -> Slots]
      /\ \A u \in Servers, g \in Fds :
           list'[u][g] = IF u = s /\ g = f THEN c ELSE list[u][g]
      /\ place' \in [Conns -> Conns \cup {None}]
      /\ place'[c] = c \/ place'[c] \in Freed \ {None}
      /\ \A d \in Conns : d # c => place'[d] = place[d]
      /\ hand' \in [Threads -> Entry] /\ hand'[s] = Nothing
      /\ \A t \in Threads : t # s => hand'[t] = hand[t]
  BY <1>2, <1>4, InsertValue
<1>6. \A d \in old : d = list[s][f]
  OBVIOUS
<1>7. list[s][f] # None => list[s][f] \in old
  OBVIOUS
<1>8. \A e : Known(e) <=> Listed(e) \/ Copied(e) \/ e \in audience
  BY DEF Known
<1> HIDE DEF f, c, old
<1>9. c # None
  BY <1>4, Numbers
<1>10. ASSUME NEW e, e # c
       PROVE  (\E u \in Servers, g \in Fds : list'[u][g] = e) => Listed(e)
  BY <1>5, <1>10 DEF Listed
<1>11. Types'
  BY <1>1, <1>2, <1>3, <1>5 DEF Types
<1>12. MutexInv'
  BY <1>1, <1>3 DEF IInv, LeakInv, MutexInv, Types
<1>13. hand'[s].c = None
  BY <1>5 DEF Nothing
<1>14. RemoveInv'
  <2> SUFFICES ASSUME NEW u \in Threads, pc'[u] = "remove", hand'[u].c # None
               PROVE  fd'[hand'[u].c] \in {num'[u], NoFd}
    BY DEF RemoveInv
  <2>1. u # s /\ pc[u] = "remove" /\ hand'[u] = hand[u]
    BY <1>3, <1>5
  <2>2. hand[u].c \in Conns \ {c}
    BY <1>2, <1>4, <2>1 DEF Types, Entry
  <2>3. fd[hand[u].c] \in {num[u], NoFd}
    BY <2>1 DEF IInv, LeakInv, RemoveInv
  <2>4. fd'[hand[u].c] \in {fd[hand[u].c], NoFd}
    BY <1>5, <2>2
  <2> QED
    BY <1>1, <2>1, <2>3, <2>4
<1>15. StopInv'
  <2>1. s = "event" => list'["command"] = list["command"]
    BY DEF Insert
  <2> QED
    BY <1>3, <2>1 DEF IInv, LeakInv, StopInv
<1>16. OwnerInv'
  <2> SUFFICES ASSUME NEW g \in clientFDs', conn'[g] \notin struck
               PROVE  \E u \in Servers, h \in Fds :
                        /\ list'[u][h] # None /\ list'[u][h] = conn'[g]
                        /\ fd'[list'[u][h]] = g
                        /\ \A t \in Threads :
                             pc'[t] \in {"set", "erase_failed"} => hand'[t].c # list'[u][h]
    BY <1>1 DEF OwnerInv, Doomed
  <2>1. CASE g = f
    <3>1. list'[s][f] = c /\ conn'[f] = c
      BY <1>4, <1>5, <2>1
    <3> QED
      BY <1>4, <1>5, <1>9, <1>13, <2>1, <3>1
  <2>2. CASE g # f
    <3>1. g \in clientFDs /\ g \notin NumbersOf(old) /\ g # NoFd
      BY <1>5, <2>2, Numbers
    <3>9. conn'[g] = conn[g]
      BY <1>5, <3>1
    <3>2. PICK u \in Servers, h \in Fds :
            /\ list[u][h] # None /\ list[u][h] = conn[g]
            /\ fd[list[u][h]] = g /\ ~Doomed(list[u][h])
      BY <3>1, <3>9 DEF IInv, LeakInv, OwnerInv
    <3> DEFINE d == list[u][h]
    <3>3. d \in Conns /\ Listed(d) /\ (u = s /\ h = f => d \in old)
      BY <1>2, <1>7, <3>2 DEF Types, Slots, Listed
    <3>4. d # c
      BY <1>4, <1>8, <3>3
    <3> HIDE DEF d
    <3>5. d \notin old
      BY <3>1, <3>2 DEF NumbersOf, d
    <3>6. fd'[d] = g
      BY <1>5, <3>2, <3>3, <3>4, <3>5 DEF d
    <3>7. list'[u][h] = d
      BY <1>5, <3>3, <3>5 DEF d
    <3>8. \A t \in Threads : pc'[t] \in {"set", "erase_failed"} => hand'[t].c # d
      BY <1>3, <1>5, <3>2 DEF Doomed, d
    <3> QED
      BY <3>2, <3>6, <3>7, <3>8, <3>9 DEF d
  <2> QED
    BY <2>1, <2>2
<1>17. \A m \in Freed \ {None} : /\ \E x \in Conns : place[x] = m
                                 /\ \A x \in Conns : Listed(x) => place[x] # m
  BY <1>2, FreedPlaces
<1>18. PlaceInv'
  <2> SUFFICES ASSUME NEW d \in Conns, NEW e \in Conns, place'[d] = place'[e],
                      \E u \in Servers, g \in Fds : list'[u][g] = d,
                      \E u \in Servers, g \in Fds : list'[u][g] = e
               PROVE  d = e
    BY DEF PlaceInv, Listed
  <2>1. \A x \in Conns : x # c /\ Listed(x) => place'[x] # place'[c]
    BY <1>4, <1>5, <1>17
  <2>2. (d # c => Listed(d)) /\ (e # c => Listed(e))
    BY <1>10
  <2>3. CASE d = c \/ e = c
    BY <2>1, <2>2, <2>3
  <2>4. CASE d # c /\ e # c
    BY <1>5, <2>2, <2>4 DEF IInv, LeakInv, PlaceInv
  <2> QED
    BY <2>3, <2>4
<1>19. \A g \in Fds : conn'[g] # None => conn'[g] = conn[g]
  BY <1>5
<1>20. \A g, h \in Fds : conn[g] = conn[h] /\ conn[g] # None => g = h
  BY DEF IInv, LeakInv, FreshInv
<1>21. NumberInv'
  <2>1. ASSUME NEW u \in Servers, NEW g \in Fds, list'[u][g] # None
        PROVE  /\ fd'[list'[u][g]] \in {g, NoFd}
               /\ \A h \in Fds : conn'[h] = list'[u][g] => h = g
    <3>1. CASE u = s /\ g = f
      BY <1>4, <1>5, <1>9, <1>19, <1>20, <3>1
    <3>2. CASE ~(u = s /\ g = f)
      <4>1. list'[u][g] = list[u][g] /\ list[u][g] \in Conns /\ Listed(list[u][g])
        BY <1>2, <1>5, <2>1, <3>2 DEF Types, Slots, Listed
      <4>2. list[u][g] # c
        BY <1>4, <1>8, <4>1
      <4>3. /\ fd[list[u][g]] \in {g, NoFd}
            /\ \A h \in Fds : conn[h] = list[u][g] => h = g
        BY <2>1, <4>1 DEF IInv, LeakInv, NumberInv
      <4>4. fd'[list[u][g]] \in {fd[list[u][g]], NoFd}
        BY <1>5, <4>1, <4>2
      <4> QED
        BY <1>19, <2>1, <4>1, <4>3, <4>4
    <3> QED
      BY <3>1, <3>2
  <2>2. ASSUME NEW t \in Senders, NEW g \in Fds, copy[t][g] # None
        PROVE  fd'[copy[t][g]] \in {g, NoFd}
    <3>1. copy[t][g] \in Conns /\ Copied(copy[t][g])
      BY <1>2, <2>2 DEF Types, Slots, Copied
    <3>2. copy[t][g] # c
      BY <1>4, <1>8, <3>1
    <3>3. fd[copy[t][g]] \in {g, NoFd}
      BY <2>2 DEF IInv, LeakInv, NumberInv
    <3>4. fd'[copy[t][g]] \in {fd[copy[t][g]], NoFd}
      BY <1>5, <3>1, <3>2
    <3> QED
      BY <3>3, <3>4
  <2> QED
    BY <1>1, <2>1, <2>2 DEF NumberInv
<1>22. RegisterInv'
  <2> SUFFICES ASSUME NEW g \in Fds
               PROVE  /\ g \in clientFDs' => conn'[g] # None
                      /\ conn'[g] # None => g \in clientFDs' \/
                           \E u \in Servers : pc'[u] = "insert" /\ hand'[u].fd = g
    BY DEF RegisterInv
  <2>1. g \in clientFDs' => conn'[g] # None
    BY <1>4, <1>5, <1>9 DEF IInv, LeakInv, RegisterInv
  <2>2. ASSUME conn'[g] # None, g \notin clientFDs'
        PROVE  \E u \in Servers : pc'[u] = "insert" /\ hand'[u].fd = g
    <3>1. conn[g] # None /\ g \notin clientFDs /\ g # f
      BY <1>5, <2>2
    <3>2. PICK u \in Servers : pc[u] = "insert" /\ hand[u].fd = g
      BY <3>1 DEF IInv, LeakInv, RegisterInv
    <3>3. u # s
      BY <3>1, <3>2 DEF f
    <3> QED
      BY <1>3, <1>5, <3>2, <3>3
  <2> QED
    BY <2>1, <2>2
<1>23. FreshInv'
  <2>1. \A d \in Conns : place'[d] = c \/ \E x \in Conns : place[x] = place'[d]
    BY <1>5, <1>17
  <2>2. ASSUME NEW e \in Conns, e # c,
               \/ Known(e)'
               \/ \E t \in Threads : hand'[t].c = e
               \/ \E g \in Fds : conn'[g] = e
               \/ \E d \in Conns : place'[d] = e
        PROVE  home[e] # NoOne
    <3>0. e # None
      BY Numbers
    <3>1. Known(e)' => Known(e)
      BY <1>1, <1>10, <2>2 DEF Known, Listed, Copied
    <3>2. (\E t \in Threads : hand'[t].c = e) => \E t \in Threads : hand[t].c = e
      BY <1>5, <1>13, <3>0
    <3>3. (\E g \in Fds : conn'[g] = e) => \E g \in Fds : conn[g] = e
      BY <1>19, <3>0
    <3>4. (\E d \in Conns : place'[d] = e) => \E d \in Conns : place[d] = e
      BY <2>1, <2>2
    <3> QED
      BY <2>2, <3>1, <3>2, <3>3, <3>4 DEF IInv, LeakInv, FreshInv
  <2>3. ASSUME NEW u \in Servers, pc'[u] = "insert"
        PROVE  /\ hand'[u].c \in Conns /\ hand'[u].fd \in Fds \ clientFDs'
               /\ home'[hand'[u].c] = u /\ conn'[hand'[u].fd] = hand'[u].c
               /\ ~Known(hand[u].c)'
               /\ \A d \in Conns : place'[d] # hand'[u].c
               /\ \A t \in Threads : t # u => hand'[t].c # hand'[u].c
    <3>1. u # s /\ pc[u] = "insert"
      BY <1>3, <2>3
    <3>2. hand'[u] = hand[u]
      BY <1>5, <3>1
    <3> DEFINE e == hand[u].c
               n == hand[u].fd
    <3>3. /\ e \in Conns /\ n \in Fds \ clientFDs
          /\ home[e] = u /\ conn[n] = e
          /\ ~Known(e)
          /\ \A d \in Conns : place[d] # e
          /\ \A t \in Threads : t # u => hand[t].c # e
      BY <3>1 DEF IInv, LeakInv, FreshInv
    <3>4. e # c /\ n # f
      BY <1>4, <3>1, <3>3
    <3>5. ~Known(hand[u].c)'
      <4>1. ASSUME NEW x, x # c, ~Known(x)
            PROVE  /\ ~(\E v \in Servers, g \in Fds : list'[v][g] = x)
                   /\ ~(\E t \in Senders, g \in Fds : copy'[t][g] = x) /\ x \notin audience'
        BY <1>1, <1>8, <1>10, <4>1 DEF Copied
      <4>2. /\ ~(\E v \in Servers, g \in Fds : list'[v][g] = hand'[u].c)
            /\ ~(\E t \in Senders, g \in Fds : copy'[t][g] = hand'[u].c)
            /\ hand'[u].c \notin audience'
        BY <3>2, <3>3, <3>4, <4>1
      <4> QED
        BY <4>2 DEF Known, Listed, Copied
    <3> HIDE DEF e, n
    <3>6. n \notin clientFDs' /\ conn'[n] = e
      BY <1>5, <3>3, <3>4
    <3>7. \A d \in Conns : place'[d] # e
      BY <2>1, <3>3, <3>4
    <3>8. e # None
      BY <3>3, Numbers
    <3>9. \A t \in Threads : t # u => hand'[t].c # e
      BY <1>5, <1>13, <3>3, <3>8
    <3>10. hand'[u].c = e /\ hand'[u].fd = n
      BY <3>2 DEF e, n
    <3> QED
      BY <1>1, <3>3, <3>5, <3>6, <3>7, <3>9, <3>10
  <2>4. \A g, h \in Fds : conn'[g] = conn'[h] /\ conn'[g] # None => g = h
    BY <1>19, <1>20
  <2>5. home[c] # NoOne
    BY <1>4
  <2> QED
    BY <1>1, <2>2, <2>3, <2>4, <2>5 DEF FreshInv
<1> QED
  BY <1>11, <1>12, <1>14, <1>15, <1>16, <1>18, <1>21, <1>22, <1>23 DEF IInv, LeakInv

LEMMA DieInv ==
  ASSUME IInv, NEW cause \in {"pointer", "argument"}, Die(cause)
  PROVE  IInv'
<1>1. /\ fault' = cause /\ struck' = {} /\ conn' = Empty /\ clientFDs' = {}
      /\ pc' = [u \in Threads |-> "done"]
      /\ fd' = [c \in Conns |-> NoFd] /\ place' = [c \in Conns |-> None]
      /\ list' = [s \in Servers |-> Empty]
      /\ mutex' = NoOne /\ num' = [u \in Threads |-> NoFd]
      /\ hand' = [u \in Threads |-> Nothing]
      /\ copy' = [u \in Senders |-> Empty] /\ audience' = {} /\ ok' = TRUE
      /\ got' = {} /\ home' = home /\ failing' = failing /\ running' = running
      /\ commands' = commands
  BY DEF Die
<1>2. Empty \in Slots /\ \A f \in Fds : Empty[f] = None
  BY DEF Empty, Slots
<1>3. Nothing \in Entry /\ Nothing.c = None
  BY DEF Nothing, Entry
<1>4. Types'
  BY <1>1, <1>2, <1>3 DEF IInv, Types, Places
<1>5. MutexInv' /\ RemoveInv' /\ OwnerInv'
  BY <1>1 DEF MutexInv, RemoveInv, OwnerInv
<1>6. RegisterInv'
  BY <1>1, <1>2 DEF RegisterInv
<1>7. StopInv'
  BY <1>1 DEF StopInv
<1>8. \A c \in Conns : ~Listed(c)' /\ ~Copied(c)'
  BY <1>1, <1>2, Numbers DEF Listed, Copied
<1>9. PlaceInv'
  BY <1>8 DEF PlaceInv
<1>10. NumberInv'
  BY <1>1, <1>2 DEF NumberInv
<1>11. FreshInv'
  <2>1. ASSUME NEW c \in Conns
        PROVE  /\ ~Known(c)' /\ \A u \in Threads : hand'[u].c # c
               /\ \A f \in Fds : conn'[f] # c
               /\ \A d \in Conns : place'[d] # c
    BY <1>1, <1>2, <1>3, <1>8, Numbers DEF Known
  <2>2. \A s \in Servers : pc'[s] # "insert"
    BY <1>1
  <2>3. \A f, g \in Fds : conn'[f] = conn'[g] /\ conn'[f] # None => f = g
    BY <1>1, <1>2
  <2> QED
    BY <2>1, <2>2, <2>3 DEF FreshInv
<1> QED
  BY <1>4, <1>5, <1>6, <1>7, <1>9, <1>10, <1>11 DEF IInv, LeakInv

LEMMA InitIInv == Init => IInv
<1> SUFFICES ASSUME Init PROVE IInv
  OBVIOUS
<1>1. Empty \in Slots /\ \A f \in Fds : Empty[f] = None
  BY DEF Empty, Slots
<1>2. Nothing \in Entry /\ Nothing.c = None
  BY DEF Nothing, Entry
<1>3. PICK listening \in SUBSET Servers :
        pc = [t \in Threads |->
         CASE t = "main" -> "quit" [] t = "heartbeat" -> "loop"
           [] t \in listening -> "wait" [] OTHER -> "done"]
  BY DEF Init
<1>4. pc \in [Threads -> {"quit", "loop", "wait", "done"}] /\ pc["main"] = "quit"
  BY <1>3
<1>5. Types
  BY <1>1, <1>2, <1>4 DEF Init, Types, Places
<1>6. MutexInv /\ RemoveInv /\ OwnerInv
  BY <1>4 DEF Init, MutexInv, RemoveInv, OwnerInv
<1>7. RegisterInv /\ StopInv
  BY <1>1, <1>4 DEF Init, RegisterInv, StopInv
<1>8. \A c \in Conns : ~Listed(c) /\ ~Copied(c)
  BY <1>1, Numbers DEF Init, Listed, Copied
<1>9. PlaceInv /\ NumberInv
  BY <1>1, <1>8 DEF Init, PlaceInv, NumberInv
<1>10. FreshInv
  <2>1. ASSUME NEW c \in Conns
        PROVE  /\ ~Known(c) /\ \A u \in Threads : hand[u].c # c
               /\ \A f \in Fds : conn[f] # c
               /\ \A d \in Conns : place[d] # c
    BY <1>1, <1>2, <1>8, Numbers DEF Known, Init
  <2>2. \A s \in Servers : pc[s] # "insert"
    BY <1>4
  <2>3. \A f, g \in Fds : conn[f] = conn[g] /\ conn[f] # None => f = g
    BY <1>1 DEF Init
  <2> QED
    BY <2>1, <2>2, <2>3 DEF FreshInv
<1> QED
  BY <1>5, <1>6, <1>7, <1>9, <1>10 DEF IInv, LeakInv

LEMMA Stutter ==
  ASSUME IInv, UNCHANGED vars
  PROVE  IInv'
<1>1. Types'
  BY DEF IInv, Types, vars, netVars, clientVars, sendVars
<1>2. MutexInv' /\ RegisterInv' /\ OwnerInv' /\ RemoveInv' /\ StopInv'
  BY DEF IInv, LeakInv, MutexInv, RegisterInv, OwnerInv, Doomed, RemoveInv, StopInv,
         vars, netVars, clientVars, sendVars
<1>3. FreshInv' /\ PlaceInv' /\ NumberInv'
  BY DEF IInv, LeakInv, FreshInv, Known, Listed, Copied, PlaceInv, NumberInv,
         vars, netVars, clientVars, sendVars
<1> QED
  BY <1>1, <1>2, <1>3 DEF IInv, LeakInv

(* Every step is one of these.                                             *)
LEMMA NextCases ==
  ASSUME Next
  PROVE  \/ \E s \in Servers : Run(s)
         \/ \E t \in Senders : Send(t)
         \/ \E t \in Threads \ {"main"} : Close(t)
         \/ AckFaults \/ Beat \/ LastBeat
         \/ StopCommand \/ StopEvent \/ JoinEvent
  BY DEF Next, CommandThread, EventThread, HeartbeatThread, MainThread

LEMMA NextIInv ==
  ASSUME IInv, Next
  PROVE  IInv'
<1>1. ASSUME NEW s \in Servers, Run(s) PROVE IInv'
  BY <1>1, AcceptInv, InsertInv, WakeInv, ReceiveInv, LostInv, CloseReadInv, CloseSetInv,
     EraseLostInv, CleanupInv DEF Run
<1>2. ASSUME NEW t \in Senders, Send(t) PROVE IInv'
  BY <1>2, CopyInv, SendToInv, SendFailsInv, LockInv, EraseFailedInv, AllSentInv DEF Send
<1>3. ASSUME NEW t \in Threads \ {"main"}, Close(t) PROVE IInv'
  BY <1>3, CloseRemoveInv, DieInv DEF Close, Crash
<1>6. CASE AckFaults
  BY <1>6, DieInv DEF AckFaults
<1>4. CASE Beat \/ LastBeat
  BY <1>4, BeatInv
<1>5. CASE StopCommand \/ StopEvent \/ JoinEvent
  BY <1>5, StopCommandInv, StopEventInv, JoinEventInv
<1> QED
  BY <1>1, <1>2, <1>3, <1>4, <1>5, <1>6, NextCases

(* In every reachable state the tables, the lists and what the threads hold*)
(* agree as IInv says, whatever the order in which run(), send() and       *)
(* heartbeatLoop() close a client.                                         *)
THEOREM Invariance == Spec => []IInv
<1>1. IInv /\ [Next]_vars => IInv'
  BY NextIInv, Stutter
<1> QED
  BY <1>1, InitIInv, PTL DEF Spec

(* run(), send() and heartbeatLoop() never lose an open descriptor, unless *)
(* a close writes the client that took over the memory of the one it was   *)
(* to close: every other is registered and the number of a client in a     *)
(* list, or accepted just now, and none of them is left open when stop() of*)
(* both servers has returned.                                              *)
THEOREM NothingLeaks == Spec => []NoLeak
<1>1. ASSUME IInv PROVE NoLeak
  <2>1. ASSUME NEW f \in clientFDs, conn[f] \notin struck PROVE Kept(f)
    <3>1. PICK s \in Servers, g \in Fds : list[s][g] # None /\ fd[list[s][g]] = f
      BY <1>1, <2>1 DEF IInv, LeakInv, OwnerInv
    <3>2. list[s][g] \in ClientsOf(list[s])
      BY <3>1, ClientsOfSlots
    <3>3. f # NoFd
      BY <1>1, Numbers DEF IInv, Types
    <3>4. f \in NumbersOf(ClientsOf(list[s]))
      BY <3>1, <3>2, <3>3 DEF NumbersOf
    <3> QED
      BY <3>4 DEF Kept
  <2>2. \A f \in Fds : conn[f] # None => Kept(f) \/ conn[f] \in struck
    BY <1>1, <2>1 DEF IInv, LeakInv, RegisterInv, Kept
  <2>3. ASSUME pc["main"] = "done", NEW f \in Fds, f \in clientFDs \/ conn[f] # None
        PROVE  conn[f] \in struck
    <3>1. \A s \in Servers : pc[s] = "done" /\ list[s] = Empty
      BY <1>1, <2>3 DEF IInv, LeakInv, StopInv
    <3>2. \A s \in Servers, g \in Fds : list[s][g] = None
      BY <3>1 DEF Empty
    <3>3. f \in clientFDs
      BY <1>1, <2>3, <3>1 DEF IInv, LeakInv, RegisterInv
    <3> QED
      BY <1>1, <3>2, <3>3 DEF IInv, LeakInv, OwnerInv
  <2> QED
    BY <2>2, <2>3 DEF NoLeak
<1> QED
  BY <1>1, Invariance, PTL

-----------------------------------------------------------------------------
(* The audience of a send().                                               *)

(* The command thread is between the copy of the list and its return.      *)
Sending == pc["command"] \in {"next", "lock"} \/ mutex = "command"

(* As long as send() runs, the number of an entry of its copy leads to that*)
(* client or out of the audience, and so does the number of a client that  *)
(* has the memory of another that was in the audience.                     *)
AudienceInv == Sending =>
  /\ \A f \in Fds : copy["command"][f] # None /\ conn[f] \in audience => conn[f] = copy["command"][f]
  /\ \A c \in audience, d \in Conns :
       Listed(d) /\ place[c] = place[d] /\ c # d /\ fd[d] # NoFd => conn[fd[d]] \notin audience
  /\ \A f \in Fds : copy["command"][f] # None => copy["command"][f] \in audience

(* Every client of the audience is still to be sent the CALLBACK, has got  *)
(* it, or another connection has.                                          *)
TellInv == pc["command"] = "next" /\ ok =>
  \A c \in audience :
    (\E f \in Fds : copy["command"][f] = c) \/ c \in got \/ ~(got \subseteq audience)

SendInv == IInv /\ AudienceInv /\ TellInv

(* Connections, clients and entries only go.                               *)
Fades ==
  /\ place' = place
  /\ \A f \in Fds : conn'[f] \in {conn[f], None}
  /\ \A c \in Conns : fd'[c] \in {fd[c], NoFd}
  /\ \A s \in Servers, f \in Fds : list'[s][f] \in {list[s][f], None}

LEMMA AudienceKept ==
  ASSUME Types, AudienceInv, Fades, audience' = audience, Sending' => Sending,
         \A f \in Fds : copy'["command"][f] \in {copy["command"][f], None}
  PROVE  AudienceInv'
<1> SUFFICES ASSUME Sending'
             PROVE  /\ \A f \in Fds : copy'["command"][f] # None /\ conn'[f] \in audience' =>
                         conn'[f] = copy'["command"][f]
                    /\ \A c \in audience', d \in Conns :
                         Listed(d)' /\ place'[c] = place'[d] /\ c # d /\ fd'[d] # NoFd =>
                           conn'[fd'[d]] \notin audience'
                    /\ \A f \in Fds : copy'["command"][f] # None => copy'["command"][f] \in audience'
  BY DEF AudienceInv
<1>1. /\ \A f \in Fds : copy["command"][f] # None /\ conn[f] \in audience => conn[f] = copy["command"][f]
      /\ \A c \in audience, d \in Conns :
           Listed(d) /\ place[c] = place[d] /\ c # d /\ fd[d] # NoFd => conn[fd[d]] \notin audience
      /\ \A f \in Fds : copy["command"][f] # None => copy["command"][f] \in audience
  BY DEF AudienceInv
<1>2. None \notin audience
  BY Numbers DEF Types
<1>3. \A f \in Fds : copy'["command"][f] # None /\ conn'[f] \in audience' =>
        conn'[f] = copy'["command"][f]
  BY <1>1, <1>2 DEF Fades
<1>4. ASSUME NEW c \in audience', NEW d \in Conns, Listed(d)', place'[c] = place'[d], c # d,
             fd'[d] # NoFd
      PROVE  conn'[fd'[d]] \notin audience'
  <2>1. Listed(d)
    BY <1>4, Numbers DEF Listed, Fades
  <2>2. fd'[d] = fd[d] /\ fd[d] \in Fds
    BY <1>4 DEF Fades, Types
  <2>3. conn[fd[d]] \notin audience
    BY <1>1, <1>4, <2>1, <2>2 DEF Fades
  <2> QED
    BY <1>2, <2>2, <2>3 DEF Fades
<1>5. \A f \in Fds : copy'["command"][f] # None => copy'["command"][f] \in audience'
  BY <1>1
<1> QED
  BY <1>3, <1>4, <1>5

(* Steps that leave send() of the command server alone.                    *)
LEMMA SendKept ==
  ASSUME SendInv, Fades, copy'["command"] = copy["command"], audience' = audience,
         Sending' => Sending,
         pc'["command"] = "next" /\ ok' => pc["command"] = "next" /\ ok /\ got' = got
  PROVE  AudienceInv' /\ TellInv'
<1>1. AudienceInv'
  BY AudienceKept DEF SendInv, IInv
<1>2. TellInv'
  BY DEF SendInv, TellInv
<1> QED
  BY <1>1, <1>2

(* Steps of the other threads, and those of run() of the command server.   *)
LEMMA SendApart ==
  ASSUME SendInv, Fades, NEW t \in Threads, NEW from, NEW to \in Places, Goto(t, from, to),
         t # "command" \/ to \notin {"next", "lock"},
         copy'["command"] = copy["command"], audience' = audience,
         mutex' = "command" => Sending,
         t # "command" => ok' = ok /\ got' = got
  PROVE  AudienceInv' /\ TellInv'
<1>1. /\ pc[t] = from /\ pc'[t] = to /\ \A u \in Threads : u # t => pc'[u] = pc[u]
  BY GotoPlace DEF SendInv, IInv
<1>2. Sending' => Sending
  BY <1>1 DEF Sending
<1>3. pc'["command"] = "next" /\ ok' => pc["command"] = "next" /\ ok /\ got' = got
  BY <1>1
<1> QED
  BY <1>2, <1>3, SendKept

LEMMA StillFades ==
  ASSUME UNCHANGED <<conn, clientVars>>
  PROVE  Fades
  BY DEF Fades, clientVars

LEMMA RunStillSend ==
  ASSUME SendInv, NEW s \in Servers, Wake(s) \/ Receive(s) \/ Lost(s) \/ CloseRead(s)
  PROVE  AudienceInv' /\ TellInv'
<1>1. /\ Fades /\ copy' = copy /\ audience' = audience /\ mutex' = mutex /\ ok' = ok /\ got' = got
  BY StillFades DEF Wake, Receive, Lost, CloseRead, netVars, sendVars
<1>2. \E from, to \in {"wait", "recv", "copy", "close", "erase", "remove"} : Goto(s, from, to)
  <2>1. CASE Wake(s)
    BY <2>1 DEF Wake
  <2>2. CASE Receive(s)
    BY <2>2 DEF Receive
  <2>3. CASE Lost(s)
    BY <2>3 DEF Lost
  <2>4. CASE CloseRead(s)
    BY <2>4 DEF CloseRead
  <2> QED
    BY <2>1, <2>2, <2>3, <2>4
<1>3. PICK from, to \in {"wait", "recv", "copy", "close", "erase", "remove"} : Goto(s, from, to)
  BY <1>2
<1>4. mutex' = "command" => Sending
  BY <1>1 DEF Sending
<1> QED
  BY <1>1, <1>3, <1>4, SendApart DEF Places

LEMMA CloseSend ==
  ASSUME SendInv, NEW t \in Threads \ {"main"}, CloseRemove(t)
  PROVE  AudienceInv' /\ TellInv'
<1>1. /\ place' = place /\ fd' = fd /\ list' = list /\ copy' = copy /\ audience' = audience
      /\ mutex' = mutex /\ ok' = ok /\ got' = got /\ Remove({num[t]})
      /\ Goto(t, "remove", IF mutex = t THEN "erase_failed" ELSE "set")
  BY DEF CloseRemove, clientVars, sendVars
<1>2. Fades
  BY <1>1, RemoveValue DEF Fades, SendInv, IInv
<1>3. PICK to \in {"erase_failed", "set"} : Goto(t, "remove", to)
  BY <1>1
<1>4. mutex' = "command" => Sending
  BY <1>1 DEF Sending
<1> QED
  BY <1>1, <1>2, <1>3, <1>4, SendApart DEF Places

LEMMA CloseSetSend ==
  ASSUME SendInv, NEW s \in Servers, CloseSet(s)
  PROVE  AudienceInv' /\ TellInv'
<1>1. /\ place' = place /\ list' = list
      /\ copy' = copy /\ audience' = audience /\ conn' = conn
      /\ mutex' = mutex /\ ok' = ok /\ got' = got /\ Goto(s, "set", "erase")
  BY DEF CloseSet, netVars, sendVars
<1>2. Fades
  <2>1. \A c \in Conns : fd'[c] \in {fd[c], NoFd}
    BY DEF CloseSet
  <2> QED
    BY <1>1, <2>1 DEF Fades
<1>4. mutex' = "command" => Sending
  BY <1>1 DEF Sending
<1> QED
  BY <1>1, <1>2, <1>4, SendApart DEF Places

LEMMA EraseFades ==
  ASSUME Types, NEW s \in Servers, NEW f \in Fds \cup {NoFd}, NEW c, Erase(s, f, c), place' = place
  PROVE  Fades
<1>1. \A g \in Fds : conn'[g] \in {conn[g], None}
  BY EraseValue
<1>2. \A d \in Conns : fd'[d] \in {fd[d], NoFd}
  BY EraseValue
<1>3. \A u \in Servers, g \in Fds : list'[u][g] \in {list[u][g], None}
  BY EraseList
<1> QED
  BY <1>1, <1>2, <1>3 DEF Fades

LEMMA EraseLostSend ==
  ASSUME SendInv, NEW s \in Servers, EraseLost(s)
  PROVE  AudienceInv' /\ TellInv'
<1>1. /\ place' = place /\ Erase(s, hand[s].fd, None)
      /\ copy' = copy /\ audience' = audience
      /\ mutex' = mutex /\ ok' = ok /\ got' = got /\ Goto(s, "erase", "wait")
  BY DEF EraseLost, sendVars
<1>2. Types /\ hand[s].fd \in Fds \cup {NoFd}
  BY DEF SendInv, IInv, Types, Entry
<1>3. Fades
  BY <1>1, <1>2, EraseFades
<1>4. mutex' = "command" => Sending
  BY <1>1 DEF Sending
<1> QED
  BY <1>1, <1>3, <1>4, SendApart DEF Places

LEMMA DestroyFades ==
  ASSUME Types, NEW s \in Servers, Destroy(ClientsOf(list[s])),
         list' = [list EXCEPT ![s] = Empty], place' = place
  PROVE  Fades
<1>1. /\ \A g \in Fds : conn'[g] \in {conn[g], None}
      /\ \A d \in Conns : fd'[d] \in {fd[d], NoFd}
      /\ list'[s] = Empty
      /\ \A u \in Servers : u # s => list'[u] = list[u]
  BY DestroyTypes
<1>2. \A u \in Servers, g \in Fds : list'[u][g] \in {list[u][g], None}
  BY <1>1 DEF Empty
<1> QED
  BY <1>1, <1>2 DEF Fades

LEMMA DestroySend ==
  ASSUME SendInv, NEW s \in Servers, NEW t \in {s, "main"}, NEW from, NEW to \in {"done", "join_event"},
         Goto(t, from, to), Destroy(ClientsOf(list[s])), list' = [list EXCEPT ![s] = Empty],
         UNCHANGED <<place, struck, home, failing, got, mutex, hand, num, sendVars, commands, fault>>
  PROVE  AudienceInv' /\ TellInv'
<1>1. /\ place' = place /\ copy' = copy /\ audience' = audience
      /\ mutex' = mutex /\ ok' = ok /\ got' = got
  BY DEF sendVars
<1>2. Fades
  BY <1>1, DestroyFades DEF SendInv, IInv
<1>3. mutex' = "command" => Sending
  BY <1>1 DEF Sending
<1>4. t \in Threads
  OBVIOUS
<1> QED
  BY <1>1, <1>2, <1>3, <1>4, SendApart DEF Places

LEMMA EndSend ==
  ASSUME SendInv, (\E s \in Servers : Cleanup(s)) \/ StopEvent \/ JoinEvent
  PROVE  AudienceInv' /\ TellInv'
<1>1. ASSUME NEW s \in Servers, Cleanup(s) PROVE AudienceInv' /\ TellInv'
  BY <1>1, DestroySend DEF Cleanup
<1>2. CASE StopEvent
  BY <1>2, DestroySend DEF StopEvent, Join
<1>3. CASE JoinEvent
  BY <1>3, DestroySend DEF JoinEvent, Join
<1> QED
  BY <1>1, <1>2, <1>3

LEMMA OtherSend ==
  ASSUME SendInv, Beat \/ LastBeat \/ StopCommand
  PROVE  AudienceInv' /\ TellInv'
<1>1. /\ Fades /\ copy' = copy /\ audience' = audience /\ mutex' = mutex /\ ok' = ok /\ got' = got
  BY StillFades DEF Beat, LastBeat, StopCommand, netVars, sendVars
<1>2. \/ Goto("heartbeat", "loop", "copy") \/ Goto("heartbeat", "loop", "done")
      \/ Goto("main", "quit", "join_command")
  BY DEF Beat, LastBeat, StopCommand
<1>3. mutex' = "command" => Sending
  BY <1>1 DEF Sending
<1> QED
  BY <1>1, <1>2, <1>3, SendApart DEF Places

LEMMA AcceptSend ==
  ASSUME SendInv, NEW s \in Servers, Accept(s)
  PROVE  AudienceInv' /\ TellInv'
<1>1. /\ Goto(s, "wait", "insert") /\ got' = got /\ fd' = fd /\ place' = place /\ list' = list
      /\ mutex' = mutex /\ copy' = copy /\ audience' = audience /\ ok' = ok
  BY DEF Accept, clientVars, sendVars
<1>2. Types
  BY DEF SendInv, IInv
<1>3. /\ pc[s] = "wait" /\ pc'[s] = "insert" /\ \A u \in Threads : u # s => pc'[u] = pc[u]
  BY <1>1, <1>2, GotoPlace DEF Places
<1>4. PICK c \in Conns, f \in Fds :
        /\ home[c] = NoOne /\ conn'[f] = c /\ \A g \in Fds : g # f => conn'[g] = conn[g]
  BY <1>2, AcceptValue
<1>5. c \notin audience
  BY <1>4 DEF SendInv, IInv, LeakInv, FreshInv, Known
<1>6. \A g \in Fds : conn'[g] \in audience => conn'[g] = conn[g]
  BY <1>4, <1>5
<1>7. Sending' => Sending
  BY <1>1, <1>3 DEF Sending
<1>8. AudienceInv'
  <2> SUFFICES ASSUME Sending
               PROVE  /\ \A g \in Fds : copy["command"][g] # None /\ conn'[g] \in audience =>
                           conn'[g] = copy["command"][g]
                      /\ \A e \in audience, d \in Conns :
                           Listed(d) /\ place[e] = place[d] /\ e # d /\ fd[d] # NoFd =>
                             conn'[fd[d]] \notin audience
                      /\ \A g \in Fds : copy["command"][g] # None => copy["command"][g] \in audience
    BY <1>1, <1>7 DEF AudienceInv, Listed
  <2>1. \A d \in Conns : fd[d] # NoFd => fd[d] \in Fds
    BY <1>2 DEF Types
  <2> QED
    BY <1>6, <2>1 DEF AudienceInv, SendInv
<1>9. TellInv'
  BY <1>1, <1>3 DEF TellInv, SendInv
<1> QED
  BY <1>8, <1>9

LEMMA InsertSend ==
  ASSUME SendInv, NEW s \in Servers, Insert(s)
  PROVE  AudienceInv' /\ TellInv'
<1> DEFINE f == hand[s].fd
           c == hand[s].c
           old == {list[s][f]} \ {None}
<1>1. /\ Goto(s, "insert", "wait") /\ got' = got
      /\ mutex' = mutex /\ copy' = copy /\ audience' = audience /\ ok' = ok
  BY DEF Insert, sendVars
<1>2. Types
  BY DEF SendInv, IInv
<1>3. /\ pc[s] = "insert" /\ pc'[s] = "wait" /\ \A u \in Threads : u # s => pc'[u] = pc[u]
  BY <1>1, <1>2, GotoPlace DEF Places
<1>4. /\ c \in Conns /\ f \in Fds /\ conn[f] = c /\ ~Known(c)
  BY <1>3 DEF SendInv, IInv, LeakInv, FreshInv
<1>5. /\ \A g \in Fds : conn'[g] \in {conn[g], None}
      /\ fd'[c] = f
      /\ \A d \in Conns : d # c => fd'[d] \in {fd[d], NoFd}
      /\ \A u \in Servers, g \in Fds :
           list'[u][g] = IF u = s /\ g = f THEN c ELSE list[u][g]
      /\ \A d \in Conns : d # c => place'[d] = place[d]
  BY <1>2, <1>4, InsertValue
<1> HIDE DEF f, c, old
<1>6. c \notin audience
  BY <1>4 DEF Known
<1>7. None \notin audience /\ audience \subseteq Conns
  BY <1>2, Numbers DEF Types
<1>8. Sending' => Sending
  BY <1>1, <1>3 DEF Sending
<1>9. AudienceInv'
  <2> SUFFICES ASSUME Sending
               PROVE  /\ \A g \in Fds : copy["command"][g] # None /\ conn'[g] \in audience =>
                           conn'[g] = copy["command"][g]
                      /\ \A e \in audience, d \in Conns :
                           Listed(d)' /\ place'[e] = place'[d] /\ e # d /\ fd'[d] # NoFd =>
                             conn'[fd'[d]] \notin audience
                      /\ \A g \in Fds : copy["command"][g] # None => copy["command"][g] \in audience
    BY <1>1, <1>8 DEF AudienceInv
  <2>1. /\ \A g \in Fds : copy["command"][g] # None /\ conn[g] \in audience => conn[g] = copy["command"][g]
        /\ \A e \in audience, d \in Conns :
             Listed(d) /\ place[e] = place[d] /\ e # d /\ fd[d] # NoFd => conn[fd[d]] \notin audience
        /\ \A g \in Fds : copy["command"][g] # None => copy["command"][g] \in audience
    BY DEF AudienceInv, SendInv
  <2>2. ASSUME NEW e \in audience, NEW d \in Conns, Listed(d)', place'[e] = place'[d], e # d,
               fd'[d] # NoFd
        PROVE  conn'[fd'[d]] \notin audience
    <3>1. CASE d = c
      BY <1>4, <1>5, <1>6, <1>7, <3>1
    <3>2. CASE d # c
      <4>1. Listed(d)
        BY <1>5, <2>2, <3>2 DEF Listed
      <4>2. fd'[d] = fd[d] /\ fd[d] \in Fds
        BY <1>2, <1>5, <2>2, <3>2 DEF Types
      <4>3. place[e] = place[d]
        BY <1>5, <1>6, <1>7, <2>2, <3>2
      <4>4. conn[fd[d]] \notin audience
        BY <2>1, <2>2, <4>1, <4>2, <4>3
      <4> QED
        BY <1>5, <1>7, <4>2, <4>4
    <3> QED
      BY <3>1, <3>2
  <2>3. \A g \in Fds : copy["command"][g] # None /\ conn'[g] \in audience =>
          conn'[g] = copy["command"][g]
    BY <1>5, <1>7, <2>1
  <2> QED
    BY <2>1, <2>2, <2>3
<1>10. TellInv'
  BY <1>1, <1>3 DEF TellInv, SendInv
<1> QED
  BY <1>9, <1>10

(* send() copies the list: everyone in it is the audience.                 *)
LEMMA CopySend ==
  ASSUME SendInv, NEW t \in Senders, Copy(t)
  PROVE  AudienceInv' /\ TellInv'
<1>1. /\ Goto(t, "copy", "next") /\ UNCHANGED <<conn, clientVars>>
      /\ got' = got /\ mutex' = mutex /\ copy' = [copy EXCEPT ![t] = list["event"]]
      /\ t # "command" => ok' = ok /\ audience' = audience
      /\ t = "command" => audience' = ClientsOf(list["event"])
  BY DEF Copy, netVars
<1>2. Types
  BY DEF SendInv, IInv
<1>3. Fades
  BY <1>1, StillFades
<1>4. CASE t # "command"
  <2>1. copy'["command"] = copy["command"]
    BY <1>1, <1>2, <1>4 DEF Types
  <2>2. mutex' = "command" => Sending
    BY <1>1 DEF Sending
  <2> QED
    BY <1>1, <1>3, <1>4, <2>1, <2>2, SendApart DEF Places
<1>5. CASE t = "command"
  <2>1. copy'["command"] = list["event"]
    BY <1>1, <1>2, <1>5 DEF Types
  <2>2. \A c : c \in audience' <=> c # None /\ \E f \in Fds : list["event"][f] = c
    BY <1>1, <1>5, ClientsOfSlots
  <2>3. /\ conn' = conn /\ fd' = fd /\ place' = place /\ list' = list
    BY <1>1 DEF clientVars
  <2>4. ASSUME NEW f \in Fds, list["event"][f] # None, conn[f] \in audience'
        PROVE  conn[f] = list["event"][f]
    <3>1. PICK g \in Fds : list["event"][g] = conn[f] /\ conn[f] # None
      BY <2>2, <2>4
    <3>2. f = g
      BY <3>1 DEF SendInv, IInv, LeakInv, NumberInv
    <3> QED
      BY <3>1, <3>2
  <2>5. ASSUME NEW c \in audience', NEW d \in Conns, Listed(d), place[c] = place[d]
        PROVE  c = d
    <3>1. Listed(c) /\ c \in Conns
      BY <1>2, <2>2 DEF Listed, Types, Slots
    <3> QED
      BY <2>5, <3>1 DEF SendInv, IInv, LeakInv, PlaceInv
  <2>6. AudienceInv'
    <3>1. /\ \A f \in Fds : copy'["command"][f] # None /\ conn'[f] \in audience' =>
               conn'[f] = copy'["command"][f]
          /\ \A f \in Fds : copy'["command"][f] # None => copy'["command"][f] \in audience'
      BY <2>1, <2>2, <2>3, <2>4
    <3>2. \A c \in audience', d \in Conns : Listed(d)' /\ place'[c] = place'[d] => c = d
      BY <2>3, <2>5 DEF Listed
    <3> QED
      BY <3>1, <3>2 DEF AudienceInv
  <2>7. TellInv'
    BY <2>1, <2>2 DEF TellInv
  <2> QED
    BY <2>6, <2>7
<1> QED
  BY <1>4, <1>5

(* The CALLBACK goes to the client of the entry, to that of another that   *)
(* has its memory, or to the connection that has its number.               *)
LEMMA SentTo ==
  ASSUME SendInv, NEW f \in Fds, copy["command"][f] # None, Sending,
         NEW d \in Reached(copy["command"][f]), Usable(FdAt(d)),
         conn[FdAt(d)] \in audience
  PROVE  conn[FdAt(d)] = copy["command"][f]
<1> DEFINE e == copy["command"][f]
<1>1. Types
  BY DEF SendInv, IInv
<1>2. e \in audience /\ e \in Conns
  BY <1>1 DEF SendInv, AudienceInv, Types, Slots
<1>3. FdAt(d) \in Fds /\ FdAt(d) # NoFd
  BY <1>1, Numbers DEF Usable, Types
<1>4. d \in Conns /\ d \in Alive /\ (d = e \/ place[d] = place[e]) /\ FdAt(d) = fd[d]
  <2>1. d # None
    BY <1>3 DEF FdAt
  <2>2. d \in Conns \cup {None} /\ (d # None => d \in Alive /\ (d = e \/ place[d] = place[e]))
    BY <1>1, ReachedClient
  <2> QED
    BY <2>1, <2>2 DEF FdAt
<1>5. Listed(d)
  BY <1>4, AliveListed
<1>6. CASE d = e
  <2>1. fd[e] \in {f, NoFd}
    BY DEF SendInv, IInv, LeakInv, NumberInv
  <2>2. FdAt(d) = f
    BY <1>3, <1>4, <1>6, <2>1
  <2>3. conn[f] \in audience
    BY <2>2
  <2>4. conn[f] = e
    BY <2>3 DEF SendInv, AudienceInv
  <2> QED
    BY <2>2, <2>4
<1>7. CASE d # e
  <2>1. place[e] = place[d] /\ fd[d] # NoFd
    BY <1>3, <1>4, <1>7
  <2>2. conn[fd[d]] \notin audience
    BY <1>2, <1>4, <1>5, <1>7, <2>1 DEF SendInv, AudienceInv
  <2> QED
    BY <1>4, <2>2
<1> QED
  BY <1>6, <1>7

LEMMA SendToSend ==
  ASSUME SendInv, NEW t \in Senders, SendTo(t)
  PROVE  AudienceInv' /\ TellInv'
<1> DEFINE f == NextFd(t)
<1>1. /\ Goto(t, "next", "next") /\ UNCHANGED <<conn, clientVars>>
      /\ mutex' = mutex /\ copy' = [copy EXCEPT ![t][f] = None]
      /\ audience' = audience /\ ok' = ok /\ InList(copy[t]) # {}
  BY DEF SendTo
<1>2. Types
  BY DEF SendInv, IInv
<1>3. f \in Fds /\ copy[t][f] # None
  BY <1>1, NextFdInCopy
<1>4. PICK d \in Reached(copy[t][f]) : Usable(FdAt(d)) /\ Sent(t, conn[FdAt(d)])
  BY DEF SendTo
<1> HIDE DEF f
<1>5. Fades
  BY <1>1, StillFades
<1>6. \A u \in Senders, g \in Fds :
        copy'[u][g] = IF u = t /\ g = f THEN None ELSE copy[u][g]
  <2>1. copy' = [copy EXCEPT ![t][f] = None] /\ f \in Fds
    BY <1>1, <1>3
  <2> QED
    BY <1>2, <2>1, VisitCopy
<1>7. /\ pc[t] = "next" /\ pc'[t] = "next" /\ \A u \in Threads : u # t => pc'[u] = pc[u]
  BY <1>1, <1>2, GotoPlace DEF Places
<1>8. CASE t # "command"
  <2>1. copy'["command"] = copy["command"]
    BY <1>1, <1>2, <1>8 DEF Types
  <2>2. mutex' = "command" => Sending
    BY <1>1 DEF Sending
  <2>3. got' = got
    BY <1>4, <1>8 DEF Sent
  <2> QED
    BY <1>1, <1>5, <1>8, <2>1, <2>2, <2>3, SendApart DEF Places
<1>9. CASE t = "command"
  <2>1. Sending
    BY <1>7, <1>9 DEF Sending
  <2>2. AudienceInv'
    BY <1>1, <1>2, <1>5, <1>6, <2>1, AudienceKept DEF SendInv
  <2> DEFINE x == conn[FdAt(d)]
  <2>3. got' = got \cup {x}
    BY <1>4, <1>9 DEF Sent
  <2>4. x \in audience => x = copy["command"][f]
    BY <1>3, <1>4, <1>9, <2>1, SentTo
  <2> HIDE DEF x
  <2>5. TellInv'
    <3> SUFFICES ASSUME ok, NEW c \in audience, ~(\E g \in Fds : copy'["command"][g] = c),
                        c \notin got'
                 PROVE  ~(got' \subseteq audience)
      BY <1>1 DEF TellInv
    <3>1. c \notin got
      BY <2>3
    <3>2. (\E g \in Fds : copy["command"][g] = c) \/ ~(got \subseteq audience)
      BY <1>7, <1>9, <3>1 DEF SendInv, TellInv
    <3>3. CASE ~(got \subseteq audience)
      BY <2>3, <3>3
    <3>4. CASE \E g \in Fds : copy["command"][g] = c
      <4>1. copy["command"][f] = c
        BY <1>6, <1>9, <3>4
      <4>2. x # c
        BY <2>3
      <4> QED
        BY <2>3, <2>4, <4>1, <4>2
    <3> QED
      BY <3>2, <3>3, <3>4
  <2> QED
    BY <2>2, <2>5
<1> QED
  BY <1>8, <1>9

LEMMA SendFailsSend ==
  ASSUME SendInv, NEW t \in Senders, SendFails(t)
  PROVE  AudienceInv' /\ TellInv'
<1> DEFINE f == NextFd(t)
<1>1. /\ Goto(t, "next", "lock") /\ UNCHANGED <<conn, clientVars>>
      /\ mutex' = mutex /\ copy' = [copy EXCEPT ![t][f] = None]
      /\ audience' = audience /\ ok' = ok /\ got' = got /\ InList(copy[t]) # {}
  BY DEF SendFails, netVars
<1>2. Types
  BY DEF SendInv, IInv
<1>3. f \in Fds
  BY <1>1, NextFdInCopy
<1> HIDE DEF f
<1>4. Fades
  BY <1>1, StillFades
<1>5. \A u \in Senders, g \in Fds :
        copy'[u][g] = IF u = t /\ g = f THEN None ELSE copy[u][g]
  <2>1. copy' = [copy EXCEPT ![t][f] = None] /\ f \in Fds
    BY <1>1, <1>3
  <2> QED
    BY <1>2, <2>1, VisitCopy
<1>6. /\ pc[t] = "next" /\ pc'[t] = "lock" /\ \A u \in Threads : u # t => pc'[u] = pc[u]
  BY <1>1, <1>2, GotoPlace DEF Places
<1>7. Sending' => Sending
  BY <1>1, <1>6 DEF Sending
<1>8. AudienceInv'
  BY <1>1, <1>2, <1>4, <1>5, <1>7, AudienceKept DEF SendInv
<1>9. CASE t # "command"
  <2>1. copy'["command"] = copy["command"]
    BY <1>1, <1>2, <1>9 DEF Types
  <2>2. pc'["command"] = pc["command"]
    BY <1>6, <1>9
  <2> QED
    BY <1>1, <1>8, <2>1, <2>2 DEF TellInv, SendInv
<1>10. CASE t = "command"
  BY <1>6, <1>8, <1>10 DEF TellInv
<1> QED
  BY <1>9, <1>10

LEMMA LockSend ==
  ASSUME SendInv, NEW t \in Senders, Lock(t)
  PROVE  AudienceInv' /\ TellInv'
<1>1. /\ Goto(t, "lock", "remove") /\ Fades /\ copy' = copy /\ audience' = audience
      /\ ok' = ok /\ got' = got /\ mutex' = t
  BY StillFades DEF Lock, netVars, sendVars
<1>2. mutex' = "command" => Sending
  BY <1>1 DEF Sending, Goto
<1> QED
  BY <1>1, <1>2, SendApart DEF Places

(* A failure of send() is reported, one of heartbeatLoop() is not its.     *)
LEMMA EraseFailedSend ==
  ASSUME SendInv, NEW t \in Senders, EraseFailed(t)
  PROVE  AudienceInv' /\ TellInv'
<1>1. /\ Goto(t, "erase_failed", "next") /\ \E c : Erase("event", hand[t].fd, c)
      /\ place' = place /\ copy' = copy /\ audience' = audience /\ mutex' = NoOne
      /\ got' = got /\ ok' = IF t = "command" THEN FALSE ELSE ok
  BY DEF EraseFailed
<1>2. Types /\ hand[t].fd \in Fds \cup {NoFd}
  BY DEF SendInv, IInv, Types, Entry
<1>3. Fades
  BY <1>1, <1>2, EraseFades
<1>4. /\ pc[t] = "erase_failed" /\ \A u \in Threads : u # t => pc'[u] = pc[u]
  BY <1>1, <1>2, GotoPlace DEF Places
<1>5. mutex = t
  BY <1>4 DEF SendInv, IInv, LeakInv, MutexInv
<1>6. Sending' => Sending
  BY <1>1, <1>4, <1>5 DEF Sending
<1>7. pc'["command"] = "next" /\ ok' => pc["command"] = "next" /\ ok
  BY <1>1, <1>4
<1> QED
  BY <1>1, <1>3, <1>6, <1>7, SendKept

LEMMA AllSentSend ==
  ASSUME SendInv, NEW t \in Senders, AllSent(t)
  PROVE  AudienceInv' /\ TellInv'
<1>1. /\ Goto(t, "next", IF t = "command" THEN "wait" ELSE "loop")
      /\ Fades /\ copy' = copy /\ mutex' = mutex
      /\ t # "command" => ok' = ok /\ got' = got /\ audience' = audience
  BY StillFades DEF AllSent
<1>2. CASE t # "command"
  <2>1. mutex' = "command" => Sending
    BY <1>1 DEF Sending
  <2> QED
    BY <1>1, <1>2, <2>1, SendApart DEF Places
<1>3. CASE t = "command"
  <2>1. pc["command"] = "next" /\ pc'["command"] = "wait"
    BY <1>1, <1>3, GotoPlace DEF Places, SendInv, IInv
  <2>2. mutex # "command"
    BY <2>1 DEF SendInv, IInv, LeakInv, MutexInv
  <2>3. ~Sending'
    BY <1>1, <2>1, <2>2 DEF Sending
  <2> QED
    BY <2>1, <2>3 DEF AudienceInv, TellInv
<1> QED
  BY <1>2, <1>3

LEMMA DieSend ==
  ASSUME NEW cause, Die(cause)
  PROVE  AudienceInv' /\ TellInv'
<1>1. pc'["command"] = "done" /\ mutex' = NoOne
  BY DEF Die
<1> QED
  BY <1>1 DEF AudienceInv, TellInv, Sending

LEMMA InitSendInv == Init => SendInv
<1> SUFFICES ASSUME Init PROVE SendInv
  OBVIOUS
<1>1. mutex = NoOne /\ pc["command"] \in {"wait", "done"}
  BY DEF Init
<1>2. AudienceInv /\ TellInv
  BY <1>1 DEF AudienceInv, TellInv, Sending
<1> QED
  BY <1>2, InitIInv DEF SendInv

LEMMA NextSendInv ==
  ASSUME SendInv, [Next]_vars
  PROVE  SendInv'
<1>1. IInv'
  BY NextIInv, Stutter DEF SendInv
<1>2. ASSUME Next PROVE AudienceInv' /\ TellInv'
  <2>1. ASSUME NEW s \in Servers, Run(s) PROVE AudienceInv' /\ TellInv'
    BY <2>1, AcceptSend, InsertSend, RunStillSend, CloseSetSend, EraseLostSend, EndSend DEF Run
  <2>2. ASSUME NEW t \in Senders, Send(t) PROVE AudienceInv' /\ TellInv'
    BY <2>2, CopySend, SendToSend, SendFailsSend, LockSend, EraseFailedSend, AllSentSend DEF Send
  <2>3. ASSUME NEW t \in Threads \ {"main"}, Close(t) PROVE AudienceInv' /\ TellInv'
    BY <2>3, CloseSend, DieSend DEF Close, Crash
  <2>5. CASE AckFaults
    BY <2>5, DieSend DEF AckFaults
  <2>4. CASE Beat \/ LastBeat \/ StopCommand \/ StopEvent \/ JoinEvent
    BY <2>4, OtherSend, EndSend
  <2> QED
    BY <1>2, <2>1, <2>2, <2>3, <2>4, <2>5, NextCases
<1>3. ASSUME UNCHANGED vars PROVE AudienceInv' /\ TellInv'
  BY <1>3 DEF SendInv, AudienceInv, TellInv, Sending, Listed, vars, netVars, clientVars, sendVars
<1> QED
  BY <1>1, <1>2, <1>3 DEF SendInv

(* When send() returns true, each listener that its copy of the list held  *)
(* has been sent the CALLBACK, or a connection out of that audience has in *)
(* its place.                                                              *)
THEOREM SuccessHolds == Spec => []SuccessIsTrue
<1>1. SendInv /\ [Next]_vars => SendInv'
  BY NextSendInv
<1>2. ASSUME SendInv PROVE SuccessIsTrue
  <2> SUFFICES ASSUME pc["command"] = "next", InList(copy["command"]) = {}, ok,
                      got \subseteq audience, NEW c \in audience
               PROVE  c \in got
    BY DEF SuccessIsTrue
  <2>1. c # None
    BY <1>2, Numbers DEF SendInv, IInv, Types
  <2>2. \A f \in Fds : copy["command"][f] # c
    BY <2>1 DEF InList
  <2> QED
    BY <1>2, <2>2 DEF SendInv, TellInv
<1> QED
  BY <1>1, <1>2, InitSendInv, PTL DEF Spec

-----------------------------------------------------------------------------
(* The harm that threads may do to each other.                             *)

(* A client and the connection it was made for.                            *)
Whole(f, c) == fd[c] = f /\ conn[f] = c /\ f \in clientFDs

(* Then nobody but run() of the command server closes a client, and only   *)
(* one whose hub is lost.                                                  *)
CalmPlaces ==
  /\ ~crashed /\ mutex = NoOne /\ struck = {}
  /\ pc["heartbeat"] \in {"loop", "copy", "next"}
  /\ pc["event"] \in {"wait", "insert", "recv", "done"}
  /\ pc["command"] \notin {"lock", "erase_failed"}

CalmLists ==
  \A s \in Servers, f \in Fds : list[s][f] # None =>
    /\ home[list[s][f]] = s
    /\ \/ Whole(f, list[s][f])
       \/ s = "command" /\ pc["command"] \in {"set", "erase"} /\ hand["command"].fd = f

CalmHands ==
  /\ \A s \in Servers : pc[s] \in {"recv", "close", "remove", "set", "erase"} =>
       hand[s].fd \in Fds /\ hand[s].c # None /\ list[s][hand[s].fd] = hand[s].c
  /\ pc["command"] \in {"close", "remove", "set", "erase"} => hand["command"].c \in failing
  /\ pc["command"] = "remove" => num["command"] = hand["command"].fd
  /\ pc["command"] = "erase" => fd[hand["command"].c] = NoFd

CalmCopies ==
  \A t \in Senders, f \in Fds : copy[t][f] # None => list["event"][f] = copy[t][f]

CalmConns ==
  \A c \in Conns : home[c] # NoOne /\ c \notin failing /\ running[home[c]] =>
    \/ \E f \in Fds : list[home[c]][f] = c
    \/ pc[home[c]] = "insert" /\ hand[home[c]].c = c

Calm == CalmPlaces /\ CalmLists /\ CalmHands /\ CalmCopies /\ CalmConns

(* Only an acknowledgement may end the program in the calm.                *)
QuietInv == Quiet => Calm \/ fault = "argument"

LEMMA QuietBefore ==
  ASSUME Types, Quiet', running' = running \/ running' = [running EXCEPT !["command"] = FALSE],
         \A c \in Conns : home'[c] = home[c] \/ home[c] = NoOne,
         failing \subseteq failing'
  PROVE  Quiet
<1>1. running'["event"] /\ \A c \in Conns : home'[c] = "event" => c \notin failing'
  BY DEF Quiet
<1>2. running["event"]
  BY <1>1 DEF Types
<1> QED
  BY <1>1, <1>2 DEF Quiet

(* In the calm every client of a list is alive, and is reached from it.    *)
LEMMA CalmReached ==
  ASSUME IInv, Calm, NEW s \in Servers, NEW f \in Fds, list[s][f] # None
  PROVE  /\ list[s][f] \in Conns /\ list[s][f] \in Alive
         /\ \A d \in Reached(list[s][f]) : d = list[s][f] /\ FdAt(d) = fd[d]
<1>1. list[s][f] \in Conns /\ list[s][f] \in Alive
  BY AliveListed DEF IInv, Types, Slots, Listed
<1>2. \A d \in Reached(list[s][f]) : d = list[s][f]
  BY <1>1, ReachedClient DEF IInv
<1>3. list[s][f] # None => FdAt(list[s][f]) = fd[list[s][f]]
  BY DEF FdAt
<1> QED
  BY <1>1, <1>2, <1>3

(* Each entry of the lists has a number and a client of its own.           *)
LEMMA CalmEntries ==
  ASSUME IInv, Calm, NEW s \in Servers, NEW f \in Fds, NEW u \in Servers, NEW g \in Fds,
         list[s][f] # None, list[s][f] = list[u][g]
  PROVE  s = u /\ f = g
<1> DEFINE c == list[s][f]
<1>1. c \in Conns /\ home[c] = s /\ home[c] = u
  BY DEF Calm, CalmLists, IInv, Types, Slots
<1>2. CASE Whole(f, c)
  <2>1. fd[c] = f
    BY <1>2 DEF Whole
  <2>2. fd[c] \in {g, NoFd}
    BY DEF IInv, LeakInv, NumberInv
  <2> QED
    BY <1>1, <2>1, <2>2, Numbers
<1>3. CASE Whole(g, c)
  <2>1. fd[c] = g
    BY <1>3 DEF Whole
  <2>2. fd[c] \in {f, NoFd}
    BY DEF IInv, LeakInv, NumberInv
  <2> QED
    BY <1>1, <2>1, <2>2, Numbers
<1>4. CASE ~Whole(f, c) /\ ~Whole(g, c)
  BY <1>1, <1>4 DEF Calm, CalmLists
<1> QED
  BY <1>1, <1>2, <1>3, <1>4

(* Parts of the calm that a step leaves alone.                             *)
LEMMA ListsStill ==
  ASSUME CalmLists, UNCHANGED <<conn, clientFDs, home, fd, list>>,
         pc["command"] \in {"set", "erase"} =>
           pc'["command"] \in {"set", "erase"} /\ hand'["command"].fd = hand["command"].fd
  PROVE  CalmLists'
  BY DEF CalmLists, Whole

LEMMA ConnsStill ==
  ASSUME Types, CalmConns, UNCHANGED <<home, failing, list>>,
         \A s \in Servers : running'[s] => running[s],
         \A s \in Servers : pc[s] = "insert" => pc'[s] = "insert" /\ hand'[s] = hand[s]
  PROVE  CalmConns'
<1> SUFFICES ASSUME NEW c \in Conns, home[c] # NoOne, c \notin failing, running'[home[c]]
             PROVE  \/ \E f \in Fds : list[home[c]][f] = c
                    \/ pc'[home[c]] = "insert" /\ hand'[home[c]].c = c
  BY DEF CalmConns
<1>1. home[c] \in Servers
  BY DEF Types
<1> QED
  BY <1>1 DEF CalmConns

LEMMA WakeCalm ==
  ASSUME IInv, Calm, NEW s \in Servers, Wake(s)
  PROVE  Calm'
<1>1. /\ Goto(s, "wait", "recv") /\ UNCHANGED <<conn, clientFDs, home, fd, list>>
      /\ failing' = failing /\ mutex' = mutex /\ running' = running /\ num' = num
      /\ copy' = copy /\ fault' = fault /\ struck' = struck
  BY DEF Wake, netVars, clientVars, sendVars
<1>2. PICK f \in Fds : /\ list[s][f] # None
                       /\ hand' = [hand EXCEPT ![s] = [fd |-> f, c |-> list[s][f]]]
  BY DEF Wake, InList
<1>3. /\ pc[s] = "wait" /\ pc'[s] = "recv" /\ \A u \in Threads : u # s => pc'[u] = pc[u]
  BY <1>1, GotoPlace DEF IInv, Places
<1>4. /\ hand'[s].fd = f /\ hand'[s].c = list[s][f]
      /\ \A u \in Threads : u # s => hand'[u] = hand[u]
  BY <1>2 DEF IInv, Types
<1>5. CalmPlaces' /\ CalmCopies'
  BY <1>1, <1>3 DEF Calm, CalmPlaces, CalmCopies
<1>6. CalmLists'
  BY <1>1, <1>3, <1>4, ListsStill DEF Calm
<1>7. CalmHands'
  BY <1>1, <1>2, <1>3, <1>4 DEF Calm, CalmHands
<1>8. CalmConns'
  BY <1>1, <1>3, <1>4, ConnsStill DEF Calm, IInv
<1> QED
  BY <1>5, <1>6, <1>7, <1>8 DEF Calm

LEMMA ReceiveCalm ==
  ASSUME IInv, Calm, NEW s \in Servers, Receive(s)
  PROVE  Calm'
<1>1. /\ UNCHANGED <<conn, clientFDs, home, fd, list>>
      /\ failing' = failing /\ mutex' = mutex /\ running' = running /\ num' = num
      /\ copy' = copy /\ fault' = fault /\ struck' = struck
      /\ hand' = [hand EXCEPT ![s] = Nothing]
  BY DEF Receive, netVars, clientVars, sendVars, Release
<1>2. (s = "command" /\ Goto(s, "recv", "copy")) \/ Goto(s, "recv", "wait")
  BY DEF Receive
<1>3. /\ pc[s] = "recv" /\ pc'[s] \in {"copy", "wait"} /\ (s = "event" => pc'[s] = "wait")
      /\ \A u \in Threads : u # s => pc'[u] = pc[u]
  BY <1>2, GotoPlace DEF IInv, Places
<1>4. \A u \in Threads : u # s => hand'[u] = hand[u]
  BY <1>1 DEF IInv, Types
<1>5. CalmPlaces' /\ CalmCopies'
  BY <1>1, <1>3 DEF Calm, CalmPlaces, CalmCopies
<1>6. CalmLists'
  BY <1>1, <1>3, <1>4, ListsStill DEF Calm
<1>7. CalmHands'
  BY <1>1, <1>3, <1>4 DEF Calm, CalmHands
<1>8. CalmConns'
  BY <1>1, <1>3, <1>4, ConnsStill DEF Calm, IInv
<1> QED
  BY <1>5, <1>6, <1>7, <1>8 DEF Calm

(* Only a hub is found lost.                                               *)
LEMMA LostCalm ==
  ASSUME IInv, Calm, Quiet, NEW s \in Servers, Lost(s)
  PROVE  Calm'
<1>1. /\ Goto(s, "recv", "close") /\ UNCHANGED <<conn, clientFDs, home, fd, list>>
      /\ failing' = failing /\ mutex' = mutex /\ running' = running /\ num' = num
      /\ copy' = copy /\ fault' = fault /\ struck' = struck /\ hand' = hand
  BY DEF Lost, netVars, clientVars, sendVars
<1>2. /\ pc[s] = "recv" /\ pc'[s] = "close" /\ \A u \in Threads : u # s => pc'[u] = pc[u]
  BY <1>1, GotoPlace DEF IInv, Places
<1> DEFINE f == hand[s].fd
           c == hand[s].c
<1>3. f \in Fds /\ c # None /\ list[s][f] = c
  BY <1>2 DEF Calm, CalmHands
<1>4. PICK d \in Reached(c) : Usable(FdAt(d)) => conn[FdAt(d)] \in failing
  BY DEF Lost
<1>5. c \in Conns /\ FdAt(d) = fd[c]
  BY <1>3, <1>4, CalmReached
<1>6. home[c] = s /\ Whole(f, c)
  BY <1>2, <1>3 DEF Calm, CalmLists
<1>7. c \in failing
  BY <1>3, <1>4, <1>5, <1>6 DEF Whole, Usable
<1>8. s = "command"
  BY <1>5, <1>6, <1>7 DEF Quiet
<1>9. CalmPlaces' /\ CalmCopies'
  BY <1>1, <1>2, <1>8 DEF Calm, CalmPlaces, CalmCopies
<1>10. CalmLists'
  BY <1>1, <1>2, ListsStill DEF Calm
<1>11. CalmHands'
  BY <1>1, <1>2, <1>3, <1>7, <1>8 DEF Calm, CalmHands
<1>12. CalmConns'
  BY <1>1, <1>2, ConnsStill DEF Calm, IInv
<1> QED
  BY <1>9, <1>10, <1>11, <1>12 DEF Calm

LEMMA CloseReadCalm ==
  ASSUME IInv, Calm, NEW s \in Servers, CloseRead(s)
  PROVE  Calm'
<1>1. /\ UNCHANGED <<conn, clientFDs, home, fd, list>> /\ pc[s] = "close"
      /\ failing' = failing /\ mutex' = mutex /\ running' = running
      /\ copy' = copy /\ fault' = fault /\ struck' = struck
  BY DEF CloseRead, netVars, clientVars, sendVars
<1>2. s = "command"
  BY <1>1 DEF Calm, CalmPlaces
<1> DEFINE f == hand[s].fd
           c == hand[s].c
<1>3. f \in Fds /\ c # None /\ list[s][f] = c /\ c \in failing
  BY <1>1, <1>2 DEF Calm, CalmHands
<1>4. PICK d \in Reached(c) :
        /\ Goto(s, "close", IF FdAt(d) = NoFd THEN "erase" ELSE "remove")
        /\ num' = [num EXCEPT ![s] = FdAt(d)] /\ hand' = [hand EXCEPT ![s].c = d]
  BY DEF CloseRead
<1>5. d = c /\ FdAt(d) = fd[c]
  BY <1>3, <1>4, CalmReached
<1>6. fd[c] = f
  BY <1>1, <1>3 DEF Calm, CalmLists, Whole
<1>7. hand' = hand /\ num'[s] = f
  BY <1>4, <1>5, <1>6 DEF IInv, Types, Entry
<1>8. /\ pc'[s] = "remove" /\ \A u \in Threads : u # s => pc'[u] = pc[u]
  <2>1. Goto(s, "close", "remove")
    BY <1>3, <1>4, <1>5, <1>6, Numbers
  <2> QED
    BY <2>1, GotoPlace DEF IInv, Places
<1>9. CalmPlaces' /\ CalmCopies'
  BY <1>1, <1>2, <1>8 DEF Calm, CalmPlaces, CalmCopies
<1>10. CalmLists'
  BY <1>1, <1>2, <1>7, <1>8, ListsStill DEF Calm
<1>11. CalmHands'
  BY <1>1, <1>2, <1>3, <1>7, <1>8 DEF Calm, CalmHands
<1>12. CalmConns'
  BY <1>1, <1>7, <1>8, ConnsStill DEF Calm, IInv
<1> QED
  BY <1>9, <1>10, <1>11, <1>12 DEF Calm

LEMMA CloseRemoveCalm ==
  ASSUME IInv, Calm, NEW t \in Threads \ {"main"}, CloseRemove(t)
  PROVE  Calm'
<1>1. /\ Goto(t, "remove", IF mutex = t THEN "erase_failed" ELSE "set") /\ Remove({num[t]})
      /\ home' = home /\ failing' = failing /\ mutex' = mutex
      /\ running' = running /\ hand' = hand /\ fd' = fd /\ list' = list
      /\ copy' = copy /\ fault' = fault /\ struck' = struck
  BY DEF CloseRemove, clientVars, sendVars
<1>2. t = "command" /\ mutex # t
  BY <1>1 DEF Goto, Calm, CalmPlaces
<1>3. /\ pc[t] = "remove" /\ pc'[t] = "set" /\ \A u \in Threads : u # t => pc'[u] = pc[u]
  BY <1>1, <1>2, GotoPlace DEF IInv, Places
<1> DEFINE f == hand[t].fd
           c == hand[t].c
<1>4. f \in Fds /\ c # None /\ list[t][f] = c /\ c \in failing /\ num[t] = f
  BY <1>2, <1>3 DEF Calm, CalmHands
<1>5. Whole(f, c)
  BY <1>2, <1>3, <1>4 DEF Calm, CalmLists
<1>6. /\ clientFDs' = clientFDs \ {num[t]}
      /\ \A g \in Fds : conn'[g] = IF g \in clientFDs /\ g \notin clientFDs' THEN None ELSE conn[g]
  BY <1>1, RemoveValue DEF IInv
<1>7. CalmPlaces' /\ CalmCopies'
  BY <1>1, <1>2, <1>3 DEF Calm, CalmPlaces, CalmCopies
<1>8. ASSUME NEW s \in Servers, NEW g \in Fds, list[s][g] # None
      PROVE  /\ home'[list'[s][g]] = s
             /\ \/ Whole(g, list[s][g])'
                \/ s = "command" /\ pc'["command"] \in {"set", "erase"} /\ hand'["command"].fd = g
  <2>1. home[list[s][g]] = s /\ Whole(g, list[s][g])
    BY <1>2, <1>3, <1>8 DEF Calm, CalmLists
  <2>2. CASE g = f
    <3>1. list[s][g] = c
      BY <1>5, <2>1, <2>2 DEF Whole
    <3>2. s = "command"
      BY <1>2, <1>4, <1>8, <3>1, CalmEntries
    <3> QED
      BY <1>1, <1>2, <1>3, <2>1, <2>2, <3>2
  <2>3. CASE g # f
    BY <1>1, <1>4, <1>6, <2>1, <2>3 DEF Whole
  <2> QED
    BY <2>2, <2>3
<1>9. CalmLists'
  BY <1>1, <1>8 DEF CalmLists
<1>10. CalmHands'
  BY <1>1, <1>2, <1>3, <1>4 DEF Calm, CalmHands
<1>11. CalmConns'
  BY <1>1, <1>3, ConnsStill DEF Calm, IInv
<1> QED
  BY <1>7, <1>9, <1>10, <1>11 DEF Calm

LEMMA CloseSetCalm ==
  ASSUME IInv, Calm, NEW s \in Servers, CloseSet(s)
  PROVE  Calm'
<1>1. /\ Goto(s, "set", "erase")
      /\ UNCHANGED <<conn, clientFDs, home, list>> /\ failing' = failing /\ mutex' = mutex
      /\ running' = running /\ hand' = hand /\ num' = num /\ copy' = copy /\ fault' = fault
  BY DEF CloseSet, netVars, sendVars
<1>2. s = "command"
  BY <1>1 DEF Goto, Calm, CalmPlaces
<1>3. /\ pc[s] = "set" /\ pc'[s] = "erase" /\ \A u \in Threads : u # s => pc'[u] = pc[u]
  BY <1>1, GotoPlace DEF IInv, Places
<1> DEFINE f == hand[s].fd
           c == hand[s].c
<1>4. f \in Fds /\ c # None /\ list[s][f] = c /\ c \in failing
  BY <1>2, <1>3 DEF Calm, CalmHands
<1>0. PICK e \in Reached(c) :
        /\ fd' = [d \in Conns |-> IF d = e THEN NoFd ELSE fd[d]]
        /\ struck' = struck \cup Struck(s, e)
  BY DEF CloseSet
<1>5. /\ c \in Conns /\ \A d \in Conns : fd'[d] = IF d = c THEN NoFd ELSE fd[d]
      /\ struck' = struck
  <2>1. e = c /\ c \in Conns
    BY <1>0, <1>4, CalmReached
  <2>2. Struck(s, e) = {}
    BY <2>1 DEF Struck
  <2> QED
    BY <1>0, <2>1, <2>2
<1>6. CalmPlaces' /\ CalmCopies'
  BY <1>1, <1>2, <1>3, <1>5 DEF Calm, CalmPlaces, CalmCopies
<1>7. ASSUME NEW u \in Servers, NEW g \in Fds, list[u][g] # None
      PROVE  /\ home'[list'[u][g]] = u
             /\ \/ Whole(g, list[u][g])'
                \/ u = "command" /\ pc'["command"] \in {"set", "erase"} /\ hand'["command"].fd = g
  <2>1. /\ home[list[u][g]] = u
        /\ Whole(g, list[u][g]) \/ (u = "command" /\ hand["command"].fd = g)
    BY <1>7 DEF Calm, CalmLists
  <2>2. CASE list[u][g] = c
    <3>1. u = "command" /\ g = f
      BY <1>2, <1>4, <1>7, <2>2, CalmEntries
    <3> QED
      BY <1>1, <1>2, <1>3, <2>1, <3>1
  <2>3. CASE list[u][g] # c
    <3>1. list[u][g] \in Conns
      BY <1>7 DEF IInv, Types, Slots
    <3>2. fd'[list[u][g]] = fd[list[u][g]]
      BY <1>5, <2>3, <3>1
    <3> QED
      BY <1>1, <1>2, <1>3, <2>1, <3>2 DEF Whole
  <2> QED
    BY <2>2, <2>3
<1>8. CalmLists'
  BY <1>1, <1>7 DEF CalmLists
<1>9. CalmHands'
  BY <1>1, <1>2, <1>3, <1>4, <1>5 DEF Calm, CalmHands
<1>10. CalmConns'
  BY <1>1, <1>3, ConnsStill DEF Calm, IInv
<1> QED
  BY <1>6, <1>8, <1>9, <1>10 DEF Calm

LEMMA EraseLostCalm ==
  ASSUME IInv, Calm, NEW s \in Servers, EraseLost(s)
  PROVE  Calm'
<1> DEFINE f == hand[s].fd
           c == hand[s].c
<1>1. /\ Goto(s, "erase", "wait") /\ Erase(s, f, None) /\ Release(s)
      /\ home' = home /\ failing' = failing /\ mutex' = mutex
      /\ running' = running /\ num' = num /\ copy' = copy /\ fault' = fault /\ struck' = struck
  BY DEF EraseLost, sendVars
<1>2. s = "command"
  BY <1>1 DEF Goto, Calm, CalmPlaces
<1>3. /\ pc[s] = "erase" /\ pc'[s] = "wait" /\ \A u \in Threads : u # s => pc'[u] = pc[u]
  BY <1>1, GotoPlace DEF IInv, Places
<1>4. f \in Fds /\ c # None /\ list[s][f] = c /\ c \in failing /\ fd[c] = NoFd
  BY <1>2, <1>3 DEF Calm, CalmHands
<1>5. Types /\ c \in Conns
  BY <1>4 DEF IInv, Types, Slots
<1>6. Found(s, f, None) = {c}
  BY <1>4 DEF Found
<1> HIDE DEF f, c
<1>7. NumbersOf({c}) = {}
  BY <1>4 DEF NumbersOf
<1>8. /\ clientFDs' = clientFDs
      /\ \A g \in Fds : conn'[g] = conn[g]
  <2>1. /\ clientFDs' = clientFDs \ NumbersOf(Found(s, f, None))
        /\ \A g \in Fds : conn'[g] = IF g \in clientFDs /\ g \notin clientFDs' THEN None ELSE conn[g]
    BY <1>1, <1>4, <1>5, EraseValue
  <2> QED
    BY <1>6, <1>7, <2>1
<1>9. \A d \in Conns : fd'[d] = fd[d]
  <2>1. \A d \in Conns : fd'[d] = IF d \in Found(s, f, None) \cup {None} THEN NoFd ELSE fd[d]
    BY <1>1, <1>4, <1>5, EraseValue
  <2> QED
    BY <1>4, <1>6, <2>1, Numbers
<1>10. \A u \in Servers, g \in Fds : list'[u][g] = IF u = s /\ g = f THEN None ELSE list[u][g]
  BY <1>1, <1>4, <1>5, EraseList
<1>11. \A u \in Threads : u # s => hand'[u] = hand[u]
  BY <1>1, <1>5, ReleaseValue
<1>12. CalmPlaces'
  BY <1>1, <1>2, <1>3 DEF Calm, CalmPlaces
<1>13. CalmCopies'
  BY <1>1, <1>2, <1>10 DEF Calm, CalmCopies
<1>14. CalmLists'
  <2> SUFFICES ASSUME NEW u \in Servers, NEW g \in Fds, list'[u][g] # None
               PROVE  home'[list'[u][g]] = u /\ Whole(g, list[u][g])'
    <3>1. \A u \in Servers, g \in Fds : list'[u][g] # None => list'[u][g] = list[u][g]
      BY <1>10
    <3> QED
      BY <3>1 DEF CalmLists, Whole
  <2>1. ~(u = s /\ g = f) /\ list'[u][g] = list[u][g] /\ list[u][g] # None
    BY <1>10
  <2>2. home[list[u][g]] = u /\ Whole(g, list[u][g])
    BY <1>2, <2>1 DEF Calm, CalmLists, f
  <2>3. list[u][g] \in Conns
    BY <1>5, <2>1 DEF Types, Slots
  <2> QED
    BY <1>1, <1>8, <1>9, <2>1, <2>2, <2>3 DEF Whole
<1>15. CalmHands'
  <2>1. \A u \in Servers : pc'[u] \in {"recv", "close", "remove", "set", "erase"} => u = "event"
    BY <1>2, <1>3
  <2> QED
    BY <1>2, <1>3, <1>10, <1>11, <2>1 DEF Calm, CalmHands
<1>16. CalmConns'
  <2> SUFFICES ASSUME NEW d \in Conns, home[d] # NoOne, d \notin failing, running[home[d]]
               PROVE  \/ \E g \in Fds : list'[home[d]][g] = d
                      \/ pc'[home[d]] = "insert" /\ hand'[home[d]].c = d
    BY <1>1 DEF CalmConns
  <2>1. d # c /\ home[d] \in Servers
    BY <1>4, <1>5 DEF Types
  <2>2. \/ \E g \in Fds : list[home[d]][g] = d
        \/ pc[home[d]] = "insert" /\ hand[home[d]].c = d
    BY DEF Calm, CalmConns
  <2>3. ASSUME NEW g \in Fds, list[home[d]][g] = d PROVE list'[home[d]][g] = d
    BY <1>4, <1>10, <2>1, <2>3
  <2> QED
    BY <1>3, <1>11, <2>1, <2>2, <2>3
<1> QED
  BY <1>12, <1>13, <1>14, <1>15, <1>16 DEF Calm

LEMMA CleanupCalm ==
  ASSUME IInv, Calm, Quiet, NEW s \in Servers, Cleanup(s)
  PROVE  Calm'
<1> DEFINE C == ClientsOf(list[s])
<1>1. /\ Goto(s, "wait", "done") /\ ~running[s] /\ Destroy(C)
      /\ list' = [list EXCEPT ![s] = Empty]
      /\ home' = home /\ failing' = failing /\ mutex' = mutex
      /\ running' = running /\ hand' = hand /\ num' = num /\ copy' = copy /\ fault' = fault /\ struck' = struck
  BY DEF Cleanup, sendVars
<1>2. s = "command"
  BY <1>1 DEF Quiet
<1>3. /\ pc[s] = "wait" /\ pc'[s] = "done" /\ \A u \in Threads : u # s => pc'[u] = pc[u]
  BY <1>1, GotoPlace DEF IInv, Places
<1>4. /\ list'[s] = Empty
      /\ \A u \in Servers : u # s => list'[u] = list[u]
  BY <1>1, DestroyTypes DEF IInv
<1>5. \A c \in C : c # None /\ \E g \in Fds : list[s][g] = c
  BY ClientsOfSlots
<1> HIDE DEF C
<1>6. /\ clientFDs' = clientFDs \ NumbersOf(C)
      /\ \A f \in Fds : conn'[f] = IF f \in clientFDs /\ f \notin clientFDs' THEN None ELSE conn[f]
      /\ \A c \in Conns : fd'[c] = IF c \in C THEN NoFd ELSE fd[c]
  BY <1>1, DestroyValue DEF IInv
<1>7. ASSUME NEW f \in Fds, list["event"][f] # None
      PROVE  home[list["event"][f]] = "event" /\ Whole(f, list["event"][f])'
  <2> DEFINE d == list["event"][f]
  <2>1. d \in Conns /\ home[d] = "event" /\ Whole(f, d)
    BY <1>7 DEF Calm, CalmLists, IInv, Types, Slots
  <2>2. ASSUME NEW c \in C PROVE c # d /\ fd[c] # f
    <3>1. PICK g \in Fds : list[s][g] = c /\ c # None
      BY <1>5
    <3>2. home[c] = "command" /\ Whole(g, c)
      BY <1>2, <1>3, <3>1 DEF Calm, CalmLists
    <3> QED
      BY <2>1, <3>2 DEF Whole
  <2>3. list'["event"][f] = d
    BY <1>2, <1>4
  <2> HIDE DEF d
  <2>4. f \notin NumbersOf(C) /\ d \notin C
    BY <2>2 DEF NumbersOf
  <2>5. fd'[d] = f /\ f \in clientFDs' /\ conn'[f] = d
    BY <1>6, <2>1, <2>4 DEF Whole
  <2> QED
    BY <2>1, <2>3, <2>5 DEF Whole, d
<1>8. CalmPlaces'
  BY <1>1, <1>2, <1>3 DEF Calm, CalmPlaces
<1>9. CalmCopies'
  BY <1>1, <1>2, <1>4 DEF Calm, CalmCopies
<1>10. CalmLists'
  <2>1. \A f \in Fds : list'["command"][f] = None
    BY <1>2, <1>4 DEF Empty
  <2>2. list'["event"] = list["event"]
    BY <1>2, <1>4
  <2> QED
    BY <1>1, <1>7, <2>1, <2>2 DEF CalmLists
<1>11. CalmHands'
  <2>1. \A u \in Servers : pc'[u] \in {"recv", "close", "remove", "set", "erase"} => u = "event"
    BY <1>2, <1>3
  <2>2. pc'["command"] = "done"
    BY <1>2, <1>3
  <2>3. list'["event"] = list["event"]
    BY <1>2, <1>4
  <2> QED
    BY <1>1, <1>2, <1>3, <2>1, <2>2, <2>3 DEF Calm, CalmHands
<1>12. CalmConns'
  <2> SUFFICES ASSUME NEW c \in Conns, home[c] # NoOne, c \notin failing, running[home[c]]
               PROVE  \/ \E f \in Fds : list'[home[c]][f] = c
                      \/ pc'[home[c]] = "insert" /\ hand[home[c]].c = c
    BY <1>1 DEF CalmConns
  <2>1. home[c] = "event"
    BY <1>1, <1>2 DEF IInv, Types
  <2>2. list'["event"] = list["event"] /\ pc'["event"] = pc["event"]
    BY <1>2, <1>3, <1>4
  <2> QED
    BY <2>1, <2>2 DEF Calm, CalmConns
<1> QED
  BY <1>8, <1>9, <1>10, <1>11, <1>12 DEF Calm

LEMMA AcceptCalm ==
  ASSUME IInv, Calm, NEW s \in Servers, Accept(s)
  PROVE  Calm'
<1>1. /\ Goto(s, "wait", "insert") /\ clientFDs' = clientFDs /\ fd' = fd /\ list' = list
      /\ mutex' = mutex /\ running' = running /\ num' = num /\ copy' = copy /\ fault' = fault /\ struck' = struck
  BY DEF Accept, clientVars, sendVars
<1>2. /\ pc[s] = "wait" /\ pc'[s] = "insert" /\ \A u \in Threads : u # s => pc'[u] = pc[u]
  BY <1>1, GotoPlace DEF IInv, Places
<1>3. PICK c \in Conns, f \in Fds :
        /\ home[c] = NoOne /\ conn[f] = None
        /\ home'[c] = s /\ \A d \in Conns : d # c => home'[d] = home[d]
        /\ \A g \in Fds : g # f => conn'[g] = conn[g]
        /\ failing' \in {failing, failing \cup {c}}
        /\ hand'[s].c = c
        /\ \A t \in Threads : t # s => hand'[t] = hand[t]
  BY AcceptValue DEF IInv
<1>4. \A u \in Servers, g \in Fds : list[u][g] # c
  BY <1>3 DEF IInv, LeakInv, FreshInv, Known, Listed
<1>5. CalmPlaces' /\ CalmCopies'
  BY <1>1, <1>2 DEF Calm, CalmPlaces, CalmCopies
<1>6. CalmLists'
  <2> SUFFICES ASSUME NEW u \in Servers, NEW g \in Fds, list[u][g] # None
               PROVE  /\ home'[list[u][g]] = u
                      /\ \/ fd[list[u][g]] = g /\ conn'[g] = list[u][g] /\ g \in clientFDs
                         \/ /\ u = "command" /\ pc'["command"] \in {"set", "erase"}
                            /\ hand'["command"].fd = g
    BY <1>1 DEF CalmLists, Whole
  <2>1. list[u][g] \in Conns /\ list[u][g] # c
    BY <1>4 DEF IInv, Types, Slots
  <2>2. /\ home[list[u][g]] = u
        /\ \/ fd[list[u][g]] = g /\ conn[g] = list[u][g] /\ g \in clientFDs
           \/ u = "command" /\ pc["command"] \in {"set", "erase"} /\ hand["command"].fd = g
    BY DEF Calm, CalmLists, Whole
  <2>3. pc["command"] \in {"set", "erase"} =>
          pc'["command"] \in {"set", "erase"} /\ hand'["command"] = hand["command"]
    BY <1>2, <1>3
  <2>4. conn[g] # None => g # f
    BY <1>3
  <2> QED
    BY <1>3, <2>1, <2>2, <2>3, <2>4
<1>7. CalmHands'
  <2>1. \A u \in Servers : u # s \/ pc'[u] = "insert"
    BY <1>2
  <2> QED
    BY <1>1, <1>2, <1>3, <2>1 DEF Calm, CalmHands
<1>8. CalmConns'
  <2> SUFFICES ASSUME NEW d \in Conns, home'[d] # NoOne, d \notin failing', running[home'[d]]
               PROVE  \/ \E g \in Fds : list[home'[d]][g] = d
                      \/ pc'[home'[d]] = "insert" /\ hand'[home'[d]].c = d
    BY <1>1 DEF CalmConns
  <2>1. CASE d = c
    BY <1>2, <1>3, <2>1
  <2>2. CASE d # c
    <3>1. home'[d] = home[d] /\ home[d] \in Servers /\ d \notin failing
      BY <1>3, <2>2 DEF IInv, Types
    <3>2. \/ \E g \in Fds : list[home[d]][g] = d
          \/ pc[home[d]] = "insert" /\ hand[home[d]].c = d
      BY <3>1 DEF Calm, CalmConns
    <3>3. pc[home[d]] = "insert" => home[d] # s
      BY <1>2
    <3> QED
      BY <1>2, <1>3, <3>1, <3>2, <3>3
  <2> QED
    BY <2>1, <2>2
<1> QED
  BY <1>5, <1>6, <1>7, <1>8 DEF Calm

LEMMA InsertCalm ==
  ASSUME IInv, Calm, NEW s \in Servers, Insert(s)
  PROVE  Calm'
<1> DEFINE f == hand[s].fd
           c == hand[s].c
           old == {list[s][f]} \ {None}
<1>1. /\ Goto(s, "insert", "wait") /\ home' = home /\ failing' = failing
      /\ mutex' = mutex /\ running' = running /\ num' = num /\ copy' = copy /\ fault' = fault /\ struck' = struck
  BY DEF Insert, sendVars
<1>2. Types
  BY DEF IInv
<1>3. /\ pc[s] = "insert" /\ pc'[s] = "wait" /\ \A u \in Threads : u # s => pc'[u] = pc[u]
  BY <1>1, <1>2, GotoPlace DEF Places
<1>4. /\ c \in Conns /\ f \in Fds /\ home[c] = s /\ conn[f] = c /\ ~Known(c)
  BY <1>3 DEF IInv, LeakInv, FreshInv
<1>5. list[s][f] = None
  <2> SUFFICES ASSUME list[s][f] # None PROVE FALSE
    OBVIOUS
  <2>1. list[s][f] # c
    BY <1>4 DEF Known, Listed
  <2>2. ~Whole(f, list[s][f])
    BY <1>4, <2>1 DEF Whole
  <2> QED
    BY <1>3, <1>4, <2>2 DEF Calm, CalmLists
<1>6. old = {}
  BY <1>5
<1>7. NumbersOf(old) = {}
  BY <1>6 DEF NumbersOf
<1>8. /\ clientFDs' = (clientFDs \cup {f}) \ NumbersOf(old)
      /\ \A g \in Fds : conn'[g] =
           IF g \in clientFDs \cup {f} /\ g \notin clientFDs' THEN None ELSE conn[g]
      /\ fd'[c] = f
      /\ \A d \in Conns : d # c => fd'[d] = IF d \in old THEN NoFd ELSE fd[d]
      /\ \A u \in Servers, g \in Fds :
           list'[u][g] = IF u = s /\ g = f THEN c ELSE list[u][g]
      /\ \A t \in Threads : t # s => hand'[t] = hand[t]
  BY <1>2, <1>4, InsertValue
<1> HIDE DEF f, c, old
<1>9. /\ clientFDs' = clientFDs \cup {f}
      /\ \A g \in Fds : conn'[g] = conn[g]
      /\ \A d \in Conns : d # c => fd'[d] = fd[d]
  BY <1>6, <1>7, <1>8
<1>10. \A u \in Servers, g \in Fds : list[u][g] # None => list'[u][g] = list[u][g]
  BY <1>5, <1>8
<1>11. \A u \in Servers, g \in Fds : list[u][g] # c
  BY <1>4 DEF Known, Listed
<1>12. CalmPlaces'
  BY <1>1, <1>3 DEF Calm, CalmPlaces
<1>13. CalmCopies'
  BY <1>1, <1>10 DEF Calm, CalmCopies
<1>14. CalmLists'
  <2> SUFFICES ASSUME NEW u \in Servers, NEW g \in Fds, list'[u][g] # None
               PROVE  /\ home[list'[u][g]] = u
                      /\ \/ fd'[list'[u][g]] = g /\ conn[g] = list'[u][g] /\ g \in clientFDs \cup {f}
                         \/ /\ u = "command" /\ pc'["command"] \in {"set", "erase"}
                            /\ hand'["command"].fd = g
    BY <1>1, <1>9 DEF CalmLists, Whole
  <2>1. CASE u = s /\ g = f
    BY <1>4, <1>8, <2>1
  <2>2. CASE ~(u = s /\ g = f)
    <3>1. list'[u][g] = list[u][g] /\ list[u][g] \in Conns /\ list[u][g] # c
      BY <1>2, <1>8, <1>11, <2>2 DEF Types, Slots
    <3>2. /\ home[list[u][g]] = u
          /\ \/ fd[list[u][g]] = g /\ conn[g] = list[u][g] /\ g \in clientFDs
             \/ u = "command" /\ pc["command"] \in {"set", "erase"} /\ hand["command"].fd = g
      BY <3>1 DEF Calm, CalmLists, Whole
    <3>3. pc["command"] \in {"set", "erase"} =>
            pc'["command"] \in {"set", "erase"} /\ hand'["command"] = hand["command"]
      BY <1>3, <1>8
    <3> QED
      BY <1>9, <3>1, <3>2, <3>3
  <2> QED
    BY <2>1, <2>2
<1>15. CalmHands'
  <2>1. ASSUME NEW u \in Servers, pc'[u] \in {"recv", "close", "remove", "set", "erase"}
        PROVE  hand'[u].fd \in Fds /\ hand'[u].c # None /\ list'[u][hand'[u].fd] = hand'[u].c
    <3>1. u # s /\ pc[u] = pc'[u] /\ hand'[u] = hand[u]
      BY <1>3, <1>8, <2>1
    <3>2. hand[u].fd \in Fds /\ hand[u].c # None /\ list[u][hand[u].fd] = hand[u].c
      BY <2>1, <3>1 DEF Calm, CalmHands
    <3> QED
      BY <1>10, <3>1, <3>2
  <2>2. ASSUME pc'["command"] \in {"close", "remove", "set", "erase"}
        PROVE  /\ hand'["command"].c \in failing
               /\ pc'["command"] = "remove" => num["command"] = hand'["command"].fd
               /\ pc'["command"] = "erase" => fd'[hand'["command"].c] = NoFd
    <3>1. "command" # s /\ pc["command"] = pc'["command"] /\ hand'["command"] = hand["command"]
      BY <1>3, <1>8, <2>2
    <3>2. /\ hand["command"].c \in failing
          /\ pc["command"] = "remove" => num["command"] = hand["command"].fd
          /\ pc["command"] = "erase" => fd[hand["command"].c] = NoFd
      BY <2>2, <3>1 DEF Calm, CalmHands
    <3>3. hand["command"].c \in Conns /\ hand["command"].c # c
      <4>1. /\ hand["command"].fd \in Fds /\ hand["command"].c # None
            /\ list["command"][hand["command"].fd] = hand["command"].c
        BY <2>2, <3>1 DEF Calm, CalmHands
      <4> QED
        BY <1>2, <1>11, <4>1 DEF Types, Slots
    <3> QED
      BY <1>9, <3>1, <3>2, <3>3
  <2> QED
    BY <1>1, <2>1, <2>2 DEF CalmHands
<1>16. CalmConns'
  <2> SUFFICES ASSUME NEW d \in Conns, home[d] # NoOne, d \notin failing, running[home[d]]
               PROVE  \/ \E g \in Fds : list'[home[d]][g] = d
                      \/ pc'[home[d]] = "insert" /\ hand'[home[d]].c = d
    BY <1>1 DEF CalmConns
  <2>1. CASE d = c
    BY <1>4, <1>8, <2>1
  <2>2. CASE d # c
    <3>1. home[d] \in Servers /\ d # None
      BY <1>2, Numbers DEF Types
    <3>2. \/ \E g \in Fds : list[home[d]][g] = d
          \/ pc[home[d]] = "insert" /\ hand[home[d]].c = d
      BY DEF Calm, CalmConns
    <3>3. home[d] = s => hand[home[d]].c # d
      BY <2>2 DEF c
    <3> QED
      BY <1>3, <1>8, <1>10, <3>1, <3>2, <3>3
  <2> QED
    BY <2>1, <2>2
<1> QED
  BY <1>12, <1>13, <1>14, <1>15, <1>16 DEF Calm

(* Steps of send() and heartbeatLoop() that change their copy only.        *)
LEMMA CopyStepCalm ==
  ASSUME IInv, Calm, NEW t \in Senders, NEW from \in {"copy", "next", "loop"},
         NEW to \in {"copy", "next", "loop", "wait"}, Goto(t, from, to),
         t = "heartbeat" => to # "wait", t = "command" => to # "loop",
         UNCHANGED <<conn, clientFDs, home, fd, list, failing, mutex, running, hand, num, fault, struck>>,
         CalmCopies'
  PROVE  Calm'
<1>1. /\ pc[t] = from /\ pc'[t] = to /\ \A u \in Threads : u # t => pc'[u] = pc[u]
  BY GotoPlace DEF IInv, Places
<1>2. CalmPlaces'
  BY <1>1 DEF Calm, CalmPlaces
<1>3. CalmLists'
  BY <1>1, ListsStill DEF Calm
<1>4. CalmHands'
  BY <1>1 DEF Calm, CalmHands
<1>5. CalmConns'
  BY <1>1, ConnsStill DEF Calm, IInv
<1> QED
  BY <1>2, <1>3, <1>4, <1>5 DEF Calm

LEMMA CopyCalm ==
  ASSUME IInv, Calm, NEW t \in Senders, Copy(t)
  PROVE  Calm'
<1>1. /\ Goto(t, "copy", "next")
      /\ UNCHANGED <<conn, clientFDs, home, fd, list, failing, mutex, running, hand, num, fault, struck>>
      /\ copy' = [copy EXCEPT ![t] = list["event"]]
  BY DEF Copy, netVars, clientVars
<1>2. \A u \in Senders : copy'[u] \in {copy[u], list["event"]}
  BY <1>1 DEF IInv, Types
<1>3. CalmCopies'
  BY <1>1, <1>2 DEF Calm, CalmCopies
<1> QED
  BY <1>1, <1>3, CopyStepCalm

LEMMA SendToCalm ==
  ASSUME IInv, Calm, NEW t \in Senders, SendTo(t)
  PROVE  Calm'
<1>1. /\ Goto(t, "next", "next")
      /\ UNCHANGED <<conn, clientFDs, home, fd, list, failing, mutex, running, hand, num, fault, struck>>
      /\ copy' = [copy EXCEPT ![t][NextFd(t)] = None] /\ InList(copy[t]) # {}
  BY DEF SendTo, clientVars
<1>2. \A u \in Senders, g \in Fds : copy'[u][g] \in {None, copy[u][g]}
  BY <1>1, NextFdInCopy, VisitCopy DEF IInv
<1>3. CalmCopies'
  BY <1>1, <1>2 DEF Calm, CalmCopies
<1> QED
  BY <1>1, <1>3, CopyStepCalm

LEMMA AllSentCalm ==
  ASSUME IInv, Calm, NEW t \in Senders, AllSent(t)
  PROVE  Calm'
<1>1. /\ Goto(t, "next", IF t = "command" THEN "wait" ELSE "loop")
      /\ UNCHANGED <<conn, clientFDs, home, fd, list, failing, mutex, running, hand, num, fault, struck>>
      /\ copy' = copy
  BY DEF AllSent, clientVars
<1>2. CalmCopies'
  BY <1>1 DEF Calm, CalmCopies
<1> QED
  BY <1>1, <1>2, CopyStepCalm

(* No sender fails, so none of them waits for the lock.                    *)
LEMMA NoFailure ==
  ASSUME IInv, Calm, Quiet, NEW t \in Senders
  PROVE  ~SendFails(t) /\ ~Lock(t) /\ ~EraseFailed(t)
<1>1. ~Lock(t) /\ ~EraseFailed(t)
  BY DEF Lock, EraseFailed, Goto, Calm, CalmPlaces
<1>2. ASSUME SendFails(t) PROVE FALSE
  <2> DEFINE f == NextFd(t)
             e == copy[t][f]
  <2>1. PICK d \in Reached(e) : Usable(FdAt(d)) => conn[FdAt(d)] \in failing
    BY <1>2 DEF SendFails
  <2>2. f \in Fds /\ e # None
    BY <1>2, NextFdInCopy DEF SendFails
  <2> HIDE DEF f
  <2>3. list["event"][f] = e
    BY <2>2 DEF Calm, CalmCopies
  <2>4. home[e] = "event" /\ Whole(f, e)
    BY <2>2, <2>3 DEF Calm, CalmLists
  <2>5. e \in Conns /\ FdAt(d) = fd[e]
    BY <2>1, <2>2, <2>3, CalmReached
  <2>6. e \in failing
    BY <2>1, <2>2, <2>4, <2>5 DEF Whole, Usable
  <2> QED
    BY <2>4, <2>5, <2>6 DEF Quiet
<1> QED
  BY <1>1, <1>2

(* No client that a thread holds is gone.                                  *)
LEMMA NoCrash ==
  ASSUME IInv, Calm, NEW t \in Threads \ {"main"}
  PROVE  ~Crash(t)
<1> SUFFICES ASSUME Crash(t) PROVE FALSE
  OBVIOUS
<1>1. CASE /\ pc[t] \in {"recv", "close", "set", "lock", "erase_failed"}
           /\ hand[t].c \notin Alive \cup {None}
  <2>1. t \in Servers
    BY <1>1 DEF Calm, CalmPlaces
  <2>2. pc[t] \in {"recv", "close", "remove", "set", "erase"}
    BY <1>1, <2>1 DEF Calm, CalmPlaces
  <2>3. hand[t].fd \in Fds /\ hand[t].c # None /\ list[t][hand[t].fd] = hand[t].c
    BY <2>1, <2>2 DEF Calm, CalmHands
  <2>4. hand[t].c \in Alive
    BY <2>1, <2>3, AliveListed DEF Listed
  <2> QED
    BY <1>1, <2>4
<1>2. CASE pc[t] = "next" /\ InList(copy[t]) # {} /\ copy[t][NextFd(t)] \notin Alive
  <2>1. t \in Senders
    BY <1>2 DEF Calm, CalmPlaces
  <2>2. NextFd(t) \in Fds /\ copy[t][NextFd(t)] # None
    BY <1>2, <2>1, NextFdInCopy
  <2>3. list["event"][NextFd(t)] = copy[t][NextFd(t)]
    BY <2>1, <2>2 DEF Calm, CalmCopies
  <2>4. copy[t][NextFd(t)] \in Alive
    BY <2>2, <2>3, AliveListed DEF Listed
  <2> QED
    BY <1>2, <2>4
<1> QED
  BY <1>1, <1>2 DEF Crash

LEMMA StopCommandCalm ==
  ASSUME IInv, Calm, StopCommand
  PROVE  Calm'
<1>1. /\ Goto("main", "quit", "join_command")
      /\ UNCHANGED <<conn, clientFDs, home, fd, list, failing, mutex, hand, num, copy, fault, struck>>
      /\ running' = [running EXCEPT !["command"] = FALSE]
  BY DEF StopCommand, netVars, clientVars, sendVars
<1>2. \A u \in Threads : u # "main" => pc'[u] = pc[u]
  BY <1>1, GotoPlace DEF IInv, Places
<1>3. \A s \in Servers : running'[s] => running[s]
  BY <1>1 DEF IInv, Types
<1>4. CalmPlaces' /\ CalmCopies'
  BY <1>1, <1>2 DEF Calm, CalmPlaces, CalmCopies
<1>5. CalmLists'
  BY <1>1, <1>2, ListsStill DEF Calm
<1>6. CalmHands'
  BY <1>1, <1>2 DEF Calm, CalmHands
<1>7. CalmConns'
  BY <1>1, <1>2, <1>3, ConnsStill DEF Calm, IInv
<1> QED
  BY <1>4, <1>5, <1>6, <1>7 DEF Calm

(* Nothing is left of a process that ended.                                *)
EndInv == crashed => struck = {}

HarmInv == IInv /\ QuietInv /\ EndInv

LEMMA InitHarmInv == Init => HarmInv
<1> SUFFICES ASSUME Init PROVE Calm
  BY InitIInv DEF HarmInv, QuietInv, EndInv, Init
<1>1. \A f \in Fds : Empty[f] = None
  BY DEF Empty
<1>2. pc["heartbeat"] = "loop" /\ \A s \in Servers : pc[s] \in {"wait", "done"}
  BY DEF Init
<1>3. CalmPlaces
  BY <1>2 DEF Init, CalmPlaces
<1>4. CalmLists /\ CalmCopies
  BY <1>1 DEF Init, CalmLists, CalmCopies
<1>5. CalmHands
  BY <1>2 DEF CalmHands
<1>6. CalmConns
  BY DEF Init, CalmConns
<1> QED
  BY <1>3, <1>4, <1>5, <1>6 DEF Calm

(* A listener that is lost stays lost.                                     *)
LEMMA NextQuiet ==
  ASSUME IInv, Next, Quiet'
  PROVE  Quiet
<1>1. running' = running \/ running' = [running EXCEPT !["command"] = FALSE]
         \/ running' = [running EXCEPT !["event"] = FALSE]
  BY DEF Next, CommandThread, EventThread, HeartbeatThread, MainThread, Run, Send, Close,
     Accept, Insert, Wake, Receive, Lost, CloseRead, CloseSet, EraseLost, Cleanup, CloseRemove,
     AckFaults, Crash, Die, Copy, SendTo, SendFails, Lock, EraseFailed, AllSent, Beat, LastBeat, StopCommand,
     StopEvent, JoinEvent
<1>2. (failing' = failing /\ home' = home) \/ \E s \in Servers : Accept(s)
  BY DEF Next, CommandThread, EventThread, HeartbeatThread, MainThread, Run, Send, Close,
     Insert, Wake, Receive, Lost, CloseRead, CloseSet, EraseLost, Cleanup, CloseRemove,
     AckFaults, Crash, Die, Copy, SendTo, SendFails, Lock, EraseFailed, AllSent, Beat, LastBeat, StopCommand,
     StopEvent, JoinEvent, Join, netVars
<1>3. /\ failing \subseteq failing' /\ \A c \in Conns : home'[c] = home[c] \/ home[c] = NoOne
  <2>1. ASSUME NEW s \in Servers, Accept(s)
        PROVE  failing \subseteq failing' /\ \A c \in Conns : home'[c] = home[c] \/ home[c] = NoOne
    BY <2>1, AcceptValue DEF IInv
  <2> QED
    BY <1>2, <2>1
<1>4. running' # [running EXCEPT !["event"] = FALSE]
  BY DEF Quiet, IInv, Types
<1> QED
  BY <1>1, <1>3, <1>4, QuietBefore DEF IInv

LEMMA NextCalm ==
  ASSUME IInv, Calm, Quiet, Quiet', Next
  PROVE  Calm' \/ fault' = "argument"
<1>1. ASSUME NEW s \in Servers, Run(s) PROVE Calm'
  BY <1>1, AcceptCalm, InsertCalm, WakeCalm, ReceiveCalm, LostCalm, CloseReadCalm, CloseSetCalm,
     EraseLostCalm, CleanupCalm DEF Run
<1>2. ASSUME NEW t \in Senders, Send(t) PROVE Calm'
  BY <1>2, CopyCalm, SendToCalm, AllSentCalm, NoFailure DEF Send
<1>3. ASSUME NEW t \in Threads \ {"main"}, Close(t) PROVE Calm'
  BY <1>3, CloseRemoveCalm, NoCrash DEF Close
<1>4. CASE Beat
  <2>1. CalmCopies'
    BY <1>4 DEF Beat, clientVars, sendVars, Calm, CalmCopies
  <2> QED
    BY <1>4, <2>1, CopyStepCalm DEF Beat, netVars, clientVars, sendVars
<1>5. ~LastBeat
  BY DEF LastBeat, Quiet
<1>6. ~StopEvent
  BY DEF StopEvent, Quiet, IInv, Types
<1>7. ~JoinEvent
  BY DEF JoinEvent, Join, Calm, CalmPlaces
<1>8. AckFaults => fault' = "argument"
  BY DEF AckFaults, Die
<1> QED
  BY <1>1, <1>2, <1>3, <1>4, <1>5, <1>6, <1>7, <1>8, StopCommandCalm, NextCases

(* Nothing happens after the end of the process.                           *)
LEMMA NoNextAfterEnd ==
  ASSUME Next
  PROVE  ~crashed
<1>1. ASSUME NEW s \in Servers, Run(s) PROVE ~crashed
  BY <1>1 DEF Run, Accept, Insert, Wake, Receive, Lost, CloseRead, CloseSet, EraseLost,
     Cleanup, Goto
<1>2. ASSUME NEW t \in Senders, Send(t) PROVE ~crashed
  BY <1>2 DEF Send, Copy, SendTo, SendFails, Lock, EraseFailed, AllSent, Goto
<1>3. ASSUME NEW t \in Threads \ {"main"}, Close(t) PROVE ~crashed
  BY <1>3 DEF Close, CloseRemove, Crash, Die, Goto
<1>4. CASE AckFaults \/ Beat \/ LastBeat \/ StopCommand \/ StopEvent \/ JoinEvent
  BY <1>4 DEF AckFaults, Die, Beat, LastBeat, StopCommand, StopEvent, JoinEvent, Goto
<1> QED
  BY <1>1, <1>2, <1>3, <1>4, NextCases

LEMMA NextEndInv ==
  ASSUME EndInv, [Next]_vars
  PROVE  EndInv'
<1>1. ASSUME Next PROVE EndInv'
  <2>1. ASSUME NEW s \in Servers, Run(s) PROVE fault' = fault
    BY <2>1 DEF Run, Accept, Insert, Wake, Receive, Lost, CloseRead, CloseSet, EraseLost, Cleanup
  <2>2. ASSUME NEW t \in Senders, Send(t) PROVE fault' = fault
    BY <2>2 DEF Send, Copy, SendTo, SendFails, Lock, EraseFailed, AllSent
  <2>3. ASSUME NEW t \in Threads \ {"main"}, Close(t) PROVE fault' = fault \/ struck' = {}
    BY <2>3 DEF Close, CloseRemove, Crash, Die
  <2>4. CASE AckFaults
    BY <2>4 DEF AckFaults, Die, EndInv
  <2>5. CASE Beat \/ LastBeat \/ StopCommand \/ StopEvent \/ JoinEvent
    BY <2>5, <1>1, NoNextAfterEnd DEF Beat, LastBeat, StopCommand, StopEvent, JoinEvent, Join, EndInv
  <2> QED
    BY <1>1, <2>1, <2>2, <2>3, <2>4, <2>5, NextCases, NoNextAfterEnd DEF EndInv
<1>2. ASSUME UNCHANGED vars PROVE EndInv'
  BY <1>2 DEF EndInv, vars, clientVars
<1> QED
  BY <1>1, <1>2

LEMMA NextHarmInv ==
  ASSUME HarmInv, [Next]_vars
  PROVE  HarmInv'
<1>1. IInv'
  BY NextIInv, Stutter DEF HarmInv
<1>2. ASSUME Next, Quiet' PROVE Calm' \/ fault' = "argument"
  <2>1. Quiet /\ fault # "argument"
    BY <1>2, NextQuiet, NoNextAfterEnd DEF HarmInv
  <2> QED
    BY <1>2, <2>1, NextCalm DEF HarmInv, QuietInv
<1>3. ASSUME UNCHANGED vars PROVE QuietInv'
  BY <1>3 DEF HarmInv, QuietInv, Quiet, Calm, CalmPlaces, CalmLists, CalmHands, CalmCopies,
     CalmConns, Whole, vars, netVars, clientVars, sendVars
<1>4. EndInv'
  BY NextEndInv DEF HarmInv
<1> QED
  BY <1>1, <1>2, <1>3, <1>4 DEF HarmInv, QuietInv

(* As long as no listener is lost and the event server runs, no destroyed  *)
(* client is used, none loses its number to the close of another, and no   *)
(* connection is closed whose peer stays, however run(), send() and        *)
(* heartbeatLoop() interleave; only the argument that an acknowledgement   *)
(* lacks may end the program.                                              *)
THEOREM HarmNeedsLoss == Spec => []HarmOnlyAfterLoss
<1>1. HarmInv /\ [Next]_vars => HarmInv'
  BY NextHarmInv
<1>2. ASSUME HarmInv, Quiet, Calm PROVE HarmOnlyAfterLoss
  <2>1. ~crashed /\ struck = {}
    BY <1>2 DEF Calm, CalmPlaces
  <2>2. ASSUME NEW c \in Conns, home[c] # NoOne, c \notin failing, running[home[c]]
        PROVE  Connected(c)
    <3>1. home[c] \in Servers
      BY <1>2, <2>2 DEF HarmInv, IInv, Types
    <3>2. CASE pc[home[c]] = "insert" /\ hand[home[c]].c = c
      <4>1. hand[home[c]].fd \in Fds /\ conn[hand[home[c]].fd] = c
        BY <1>2, <3>1, <3>2 DEF HarmInv, IInv, LeakInv, FreshInv
      <4> QED
        BY <4>1 DEF Connected
    <3>3. ASSUME NEW f \in Fds, list[home[c]][f] = c PROVE Connected(c)
      <4>1. c # None
        BY Numbers
      <4>2. \/ Whole(f, c)
            \/ /\ home[c] = "command" /\ pc["command"] \in {"set", "erase"}
               /\ hand["command"].fd = f
        BY <1>2, <3>1, <3>3, <4>1 DEF Calm, CalmLists
      <4>3. Whole(f, c)
        BY <1>2, <2>2, <3>3, <4>2 DEF Calm, CalmHands
      <4> QED
        BY <4>3 DEF Whole, Connected
    <3> QED
      BY <1>2, <2>2, <3>1, <3>2, <3>3 DEF Calm, CalmConns
  <2> QED
    BY <2>1, <2>2 DEF HarmOnlyAfterLoss
<1>3. ~Quiet => HarmOnlyAfterLoss
  BY DEF HarmOnlyAfterLoss
<1>5. ASSUME HarmInv, fault = "argument" PROVE HarmOnlyAfterLoss
  BY <1>5 DEF HarmInv, EndInv, HarmOnlyAfterLoss
<1>4. HarmInv => HarmOnlyAfterLoss
  BY <1>2, <1>3, <1>5 DEF HarmInv, QuietInv
<1> QED
  BY <1>1, <1>4, InitHarmInv, PTL DEF Spec
=============================================================================
