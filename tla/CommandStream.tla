--------------------------- MODULE CommandStream ---------------------------
(***************************************************************************)
(* Commands from the hub to their execution: the hub's packets arrive as a *)
(* stream of bytes cut anywhere, the command client puts them together,    *)
(* acknowledges each before it runs it, and tells the hub of its end with  *)
(* a CALLBACK over the event client's connection.                          *)
(*                                                                         *)
(* A packet is cut down to a first byte, which holds header and argc, one  *)
(* byte for each argument, and a last byte with CRC and footer.  It is     *)
(* known by its place in the order in which the hub sent all packets.  A   *)
(* malformed one has a wrong argc, and then no CRC fits, or a wrong CRC.   *)
(* Sockets do not block: what the hub does not read in time fills them,    *)
(* and a send then fails before or among its bytes, on a connection that   *)
(* stays up.  HubLinks models how the two connections are made and closed. *)
(***************************************************************************)
EXTENDS Integers, Sequences, SequencesExt

CONSTANTS
  MaxArgc,      (* MAX_ARGC                                                *)
  ReadSize,     (* buffer_size, the most one recv() returns                *)
  MaxPackets,   (* packets the hub sends, a bound                          *)
  MaxLosses     (* losses of either connection, a bound                    *)

ASSUME CommandStreamAssumption ==
  /\ MaxArgc \in Nat /\ ReadSize \in Nat \ {0}
  /\ MaxPackets \in Nat /\ MaxLosses \in Nat

VARIABLES
  packets,      (* all packets of the hub                                  *)
  first,        (* the first of the present connection                     *)
  open,         (* the hub has not closed this connection                  *)
  net,          (* bytes on their way                                      *)
  pc,           (* where the thread of the command client is               *)
  buf,          (* incoming_buffer                                         *)
  pkt,          (* pkt, the packet parsed last                             *)
  acks,         (* those sent on this connection, 0 for a part of one      *)
  done,         (* packets executed                                        *)
  before,       (* how many were when this connection was made, a history  *)
                (* variable                                                *)
  event,        (* hubConnection_ of the event client: "up", "closed": its *)
                (* descriptor is closed, "down": there is none             *)
  events,       (* CALLBACKs the hub got, 0 for a part of one              *)
  losses

hubVars   == <<packets, first, open>>
eventVars == <<event, events>>
doneVars  == <<done, before>>
vars == <<hubVars, net, pc, buf, pkt, acks, doneVars, eventVars, losses>>

MinSize == 2        (* MIN_PACKET_SIZE                                     *)

Packet == {m \in [argc : 0..MaxArgc+1, args : 0..MaxArgc, crcOk : BOOLEAN] :
             m.crcOk => m.argc = m.args}

Good(m) == m.crcOk

BytesOf(p, m) == [i \in 1..MinSize + m.args |-> [p |-> p, at |-> i]]

At(place, next) == pc = place /\ pc' = next

-----------------------------------------------------------------------------
(* The hub and the network.                                                *)
HubSends ==
  /\ open
  /\ pc # "connect"
  /\ Len(packets) < MaxPackets
  /\ \E m \in Packet :
       /\ packets' = Append(packets, m)
       /\ net' = net \o BytesOf(Len(packets) + 1, m)
  /\ UNCHANGED <<first, open, pc, buf, pkt, acks, doneVars, eventVars, losses>>

HubCloses ==
  /\ open
  /\ pc # "connect"
  /\ losses < MaxLosses
  /\ losses' = losses + 1
  /\ open' = FALSE
  /\ UNCHANGED <<packets, first, net, pc, buf, pkt, acks, doneVars, eventVars>>

(* The event client notices a lost connection: it closes the descriptor    *)
(* without its lock, resets the pointer with it, and connects again.       *)
EventCloses ==
  /\ event = "up"
  /\ losses < MaxLosses
  /\ losses' = losses + 1
  /\ event' = "closed"
  /\ UNCHANGED <<hubVars, net, pc, buf, pkt, acks, doneVars, events>>

EventResets ==
  /\ event = "closed"
  /\ event' = "down"
  /\ UNCHANGED <<hubVars, net, pc, buf, pkt, acks, doneVars, events, losses>>

EventConnects ==
  /\ event = "down"
  /\ event' = "up"
  /\ UNCHANGED <<hubVars, net, pc, buf, pkt, acks, doneVars, events, losses>>

-----------------------------------------------------------------------------
(* The command client.                                                     *)
Connect ==
  /\ At("connect", "poll")
  /\ open' = TRUE
  /\ first' = Len(packets) + 1
  /\ net' = <<>>
  /\ buf' = <<>>
  /\ acks' = <<>>
  /\ before' = Len(done)
  /\ UNCHANGED <<packets, pkt, done, eventVars, losses>>

(* One recv() returns what has arrived, at most a buffer full.             *)
Read ==
  /\ At("poll", "parse")
  /\ \E n \in 1..ReadSize :
       /\ n <= Len(net)
       /\ buf' = buf \o SubSeq(net, 1, n)
       /\ net' = SubSeq(net, n + 1, Len(net))
  /\ UNCHANGED <<hubVars, pkt, acks, doneVars, eventVars, losses>>

(* The hub closed: recv() returns 0 after the last byte, or EPOLLHUP or    *)
(* EPOLLERR throws the rest away.                                          *)
Lost ==
  /\ At("poll", "close")
  /\ ~open
  /\ UNCHANGED <<hubVars, net, buf, pkt, acks, doneVars, eventVars, losses>>

(* The number of arguments the first bytes of the buffer ask for: that of  *)
(* the packet that begins there, or any if none does.                      *)
ArgcRead ==
  IF Head(buf).at = 1 THEN {packets[Head(buf).p].argc} ELSE 0..MaxArgc+1

(* parse(): the bytes are those of one well-formed packet.                 *)
Parsed(bytes) ==
  LET p == Head(bytes).p IN Good(packets[p]) /\ bytes = BytesOf(p, packets[p])

(* Mutated form of TooLong: argc is not checked.                           *)
TooLongUnchecked(argc) == FALSE

TooLong(argc) == argc > MaxArgc

(* The loop over the buffer: wait for more bytes, or take a packet.        *)
Wait ==
  /\ At("parse", "poll")
  /\ \/ Len(buf) < MinSize
     \/ /\ Len(buf) >= MinSize
        /\ \E argc \in ArgcRead : ~TooLong(argc) /\ Len(buf) < MinSize + argc
  /\ UNCHANGED <<hubVars, net, buf, pkt, acks, doneVars, eventVars, losses>>

Refuse ==
  /\ At("parse", "close")
  /\ Len(buf) >= MinSize
  /\ \E argc \in ArgcRead : TooLong(argc)
  /\ UNCHANGED <<hubVars, net, buf, pkt, acks, doneVars, eventVars, losses>>

Take ==
  /\ pc = "parse"
  /\ Len(buf) >= MinSize
  /\ \E argc \in ArgcRead :
       LET bytes == SubSeq(buf, 1, MinSize + argc) IN
       /\ ~TooLong(argc)
       /\ Len(buf) >= MinSize + argc
       /\ buf' = SubSeq(buf, MinSize + argc + 1, Len(buf))
       /\ \/ Parsed(bytes)  /\ pc' = "ack" /\ pkt' = Head(bytes).p
          \/ ~Parsed(bytes) /\ pc' = "close" /\ UNCHANGED pkt
  /\ UNCHANGED <<hubVars, net, acks, doneVars, eventVars, losses>>

(* Mutated form of Ack: the command is not dispatched.                     *)
AckOnly ==
  /\ At("ack", "callback")
  /\ acks' = Append(acks, pkt)
  /\ UNCHANGED <<hubVars, net, buf, pkt, doneVars, eventVars, losses>>

Ack ==
  /\ At("ack", "handle")
  /\ acks' = Append(acks, pkt)
  /\ UNCHANGED <<hubVars, net, buf, pkt, doneVars, eventVars, losses>>

(* Mutated form of AckFailed: the loop goes on with the next packet.       *)
AckFailedGoesOn ==
  /\ At("ack", "parse")
  /\ acks' \in {acks, Append(acks, 0)}
  /\ UNCHANGED <<hubVars, net, buf, pkt, doneVars, eventVars, losses>>

(* The connection breaks or its socket is full, before or among the bytes: *)
(* sendData() fails.                                                       *)
AckFailed ==
  /\ At("ack", "close")
  /\ acks' \in {acks, Append(acks, 0)}
  /\ UNCHANGED <<hubVars, net, buf, pkt, doneVars, eventVars, losses>>

(* The handler: the command runs, whether it succeeds or not, and then its *)
(* CALLBACK is sent.                                                       *)
Execute ==
  /\ At("handle", "callback")
  /\ done' = Append(done, pkt)
  /\ UNCHANGED <<hubVars, net, buf, pkt, acks, before, eventVars, losses>>

(* Mutated form of Callback: one packet is taken from each read.           *)
CallbackThenPoll ==
  /\ At("callback", "poll")
  /\ \/ UNCHANGED events
     \/ event = "up" /\ \E whole \in {pkt, 0} : events' = Append(events, whole)
  /\ UNCHANGED <<hubVars, net, buf, pkt, acks, doneVars, event, losses>>

(* sendPacket() sends nothing when there is no connection or it is closed, *)
(* and what it sends on a connection that breaks or is full may be lost,   *)
(* all of it or its end; it is not sent again, and the connection is kept. *)
Callback ==
  /\ At("callback", "parse")
  /\ \/ UNCHANGED events
     \/ event = "up" /\ \E whole \in {pkt, 0} : events' = Append(events, whole)
  /\ UNCHANGED <<hubVars, net, buf, pkt, acks, doneVars, event, losses>>

Close ==
  /\ At("close", "connect")
  /\ open' = FALSE
  /\ buf' = <<>>
  /\ UNCHANGED <<packets, first, net, pkt, acks, doneVars, eventVars, losses>>

-----------------------------------------------------------------------------
Init ==
  /\ packets = <<>> /\ first = 1 /\ open = FALSE
  /\ net = <<>>
  /\ pc = "connect" /\ buf = <<>> /\ pkt = 0
  /\ acks = <<>> /\ done = <<>> /\ before = 0
  /\ event = "down" /\ events = <<>>
  /\ losses = 0

Hub == HubSends \/ HubCloses

EventClient == EventCloses \/ EventResets \/ EventConnects

CommandClient ==
  \/ Connect \/ Read \/ Lost \/ Wait \/ Refuse \/ Take
  \/ Ack \/ AckFailed \/ Execute \/ Callback \/ Close

Next == Hub \/ EventClient \/ CommandClient

Spec == Init /\ [][Next]_vars

(* What the hub sent arrives, and the command client's thread goes on: the *)
(* commands are taken to end.                                              *)
FairSpec == Spec /\ WF_vars(CommandClient)

-----------------------------------------------------------------------------
Byte == [p : 1..Len(packets), at : 1..MinSize+MaxArgc]

(* Types, and that incoming_buffer stays small whatever the hub sends:     *)
(* between two reads it holds less than the longest packet.                *)
TypeOK ==
  /\ packets \in Seq(Packet)
  /\ first \in 1..Len(packets)+1
  /\ open \in BOOLEAN
  /\ net \in Seq(Byte) /\ buf \in Seq(Byte)
  /\ pc \in {"connect", "poll", "parse", "ack", "handle", "callback", "close"}
  /\ pkt \in 0..Len(packets)
  /\ acks \in Seq(0..Len(packets))
  /\ done \in Seq(1..Len(packets)) /\ events \in Seq(0..Len(packets))
  /\ before \in 0..Len(done)
  /\ event \in {"up", "closed", "down"}
  /\ losses \in 0..MaxLosses
  /\ pc = "poll" => Len(buf) < MinSize + MaxArgc

(* The packets executed on this connection.                                *)
DoneHere == SubSeq(done, before + 1, Len(done))

(* However the stream is cut, the commands executed on a connection are the*)
(* first ones the hub sent on it, each once and in order, and none that    *)
(* comes after a malformed packet or after a failed acknowledgement; none  *)
(* of a former connection is executed again.                               *)
ExecutesPrefix ==
  /\ \A i \in DOMAIN DoneHere : DoneHere[i] = first + i - 1
  /\ \A i, j \in DOMAIN done : i < j => done[i] < done[j]
  /\ \A i \in DOMAIN done : Good(packets[done[i]])

(* An acknowledgement is sent for each command that is executed, and for   *)
(* no other; a part of one is the last thing sent on a connection.         *)
AcksMatch ==
  \/ acks = DoneHere
  \/ pc = "handle" /\ acks = Append(DoneHere, pkt)
  \/ pc \in {"close", "connect"} /\ acks = Append(DoneHere, 0)

(* A CALLBACK reaches the hub after the end of its command, at most once   *)
(* and in the order of the commands, whatever the two connections do and   *)
(* whatever parts of others come between.                                  *)
CallbackAfterEnd ==
  LET Whole == {i \in DOMAIN events : events[i] > 0} IN
  /\ \A i \in Whole : events[i] \in Range(done)
  /\ \A i, j \in Whole : i < j => events[i] < events[j]

(* A command all of whose bytes were sent is executed without a further    *)
(* word of the hub, unless a malformed packet came before it or one of the *)
(* two sides closes the connection.                                        *)
CommandExecuted ==
  \A p \in 1..MaxPackets :
    /\ open /\ p \in first..Len(packets)
    /\ \A q \in first..p : Good(packets[q])
    ~> p \in Range(done) \/ ~open
=============================================================================
