------------------------- MODULE CommandStreamProofs -------------------------
(***************************************************************************)
(* Proofs about CommandStream, for any number of packets and losses, any   *)
(* MAX_ARGC and any size of a read: its types, that what is executed on a  *)
(* connection is the beginning of what the hub sent on it, and that what   *)
(* is acknowledged and called back is what was executed.                   *)
(*                                                                         *)
(* The stream is what the hub sent and the client has not taken: the buffer*)
(* and the bytes on their way.  It is described by its first byte, by the  *)
(* byte that follows each byte, and by its last one.                       *)
(***************************************************************************)
EXTENDS CommandStream, SequenceTheorems, TLAPS

USE CommandStreamAssumption DEF MinSize

Stream == buf \o net

Size(m) == MinSize + m.args

(* The first packet that was not executed on this connection.              *)
Unexecuted == first + Len(done) - before

(* The packet with which the stream begins: one that is acknowledged or    *)
(* handled was taken from it.                                              *)
Upcoming == IF pc \in {"ack", "handle"} THEN Unexecuted + 1 ELSE Unexecuted

(* Byte c comes after byte b in what the hub sent.                         *)
Follows(sent, b, c) ==
  IF b.at < Size(sent[b.p]) THEN c.p = b.p /\ c.at = b.at + 1
                            ELSE c.p = b.p + 1 /\ c.at = 1

Bytes(sent) == [p : 1..Len(sent), at : 1..(MinSize + MaxArgc)]

(* The bytes s are those of the packets sent from number n on.             *)
IsStream(s, sent, n) ==
  /\ s \in Seq(Bytes(sent))
  /\ Len(s) = 0 => n = Len(sent) + 1
  /\ Len(s) > 0 => /\ s[1].p = n /\ s[1].at = 1
                  /\ s[Len(s)].p = Len(sent)
                  /\ s[Len(s)].at = Size(sent[Len(sent)])
  /\ \A i \in 1..(Len(s) - 1) : Follows(sent, s[i], s[i + 1])

Connected == pc \in {"poll", "parse", "ack", "handle", "callback"}

StreamInv == Connected => IsStream(Stream, packets, Upcoming)

(* What was executed before this connection and on it.                     *)
DoneInv ==
  /\ Unexecuted <= Len(packets) + 1
  /\ \A i \in 1..before : done[i] < first
  /\ \A i \in (before + 1)..Len(done) : done[i] = first + i - before - 1
  /\ \A i, j \in 1..Len(done) : i < j => done[i] < done[j]
  /\ \A i \in 1..Len(done) : Good(packets[done[i]])

(* The packet in the hands of the client.                                  *)
PacketInv ==
  /\ pc \in {"ack", "handle"} =>
       pkt = Unexecuted /\ pkt \in 1..Len(packets) /\ Good(packets[pkt])
  /\ pc = "callback" =>
       Len(done) > before /\ pkt = Unexecuted - 1 /\ pkt = done[Len(done)]

AckInv ==
  /\ pc \in {"poll", "parse", "ack", "callback"} => acks = DoneHere
  /\ pc = "handle" => acks = Append(DoneHere, pkt)
  /\ pc \in {"close", "connect"} => acks \in {DoneHere, Append(DoneHere, 0)}

(* CALLBACKs name packets executed, and while one is to be sent only those *)
(* before it.                                                              *)
EventInv ==
  /\ \A i \in 1..Len(events) :
       events[i] > 0 => /\ events[i] \in Range(done)
                        /\ events[i] < Unexecuted
                        /\ pc = "callback" => events[i] < pkt
  /\ \A i, j \in 1..Len(events) :
       i < j /\ events[i] > 0 /\ events[j] > 0 => events[i] < events[j]

IInv == TypeOK /\ StreamInv /\ DoneInv /\ PacketInv /\ AckInv /\ EventInv

-----------------------------------------------------------------------------
LEMMA SizeValue ==
  ASSUME NEW m \in Packet
  PROVE  Size(m) \in 2..(MinSize + MaxArgc)
<1>1. m.args \in 0..MaxArgc
  BY DEF Packet
<1> QED
  BY <1>1 DEF Size

(* The bytes of a packet.                                                  *)
LEMMA BytesOfValue ==
  ASSUME NEW p \in Nat, NEW m \in Packet
  PROVE  /\ Size(m) \in 2..(MinSize + MaxArgc)
         /\ Len(BytesOf(p, m)) = Size(m)
         /\ DOMAIN BytesOf(p, m) = 1..Size(m)
         /\ \A i \in 1..Size(m) : BytesOf(p, m)[i] = [p |-> p, at |-> i]
         /\ BytesOf(p, m) \in Seq([p : {p}, at : 1..(MinSize + MaxArgc)])
<1>2. Size(m) \in 2..(MinSize + MaxArgc)
  BY SizeValue
<1>3. BytesOf(p, m) \in [1..Size(m) -> [p : {p}, at : 1..(MinSize + MaxArgc)]]
  BY <1>2 DEF BytesOf, Size
<1>4. BytesOf(p, m) \in Seq([p : {p}, at : 1..(MinSize + MaxArgc)])
  <2> DEFINE S == [p : {p}, at : 1..(MinSize + MaxArgc)]
             n == Size(m)
             f == BytesOf(p, m)
  <2>1. n \in Nat /\ f \in [1..n -> S]
    BY <1>2, <1>3
  <2> HIDE DEF S, n, f
  <2>2. f \in Seq(S)
    BY <2>1, SeqDef
  <2> QED
    BY <2>2 DEF S, f
<1>5. Len(BytesOf(p, m)) = Size(m)
  BY <1>2, <1>3, <1>4, LenProperties
<1> QED
  BY <1>2, <1>3, <1>4, <1>5 DEF BytesOf, Size

(* The elements of a concatenation, and of a part.                         *)
LEMMA ConcatValue ==
  ASSUME NEW S, NEW s \in Seq(S), NEW t \in Seq(S)
  PROVE  /\ s \o t \in Seq(S)
         /\ Len(s \o t) = Len(s) + Len(t)
         /\ \A i \in 1..Len(s) : (s \o t)[i] = s[i]
         /\ \A i \in (Len(s) + 1)..(Len(s) + Len(t)) :
              (s \o t)[i] = t[i - Len(s)]
  BY ConcatProperties

LEMMA SuffixValue ==
  ASSUME NEW S, NEW s \in Seq(S), NEW n \in 0..Len(s)
  PROVE  /\ SubSeq(s, n + 1, Len(s)) \in Seq(S)
         /\ Len(SubSeq(s, n + 1, Len(s))) = Len(s) - n
         /\ \A i \in 1..(Len(s) - n) : SubSeq(s, n + 1, Len(s))[i] = s[i + n]
  BY LenProperties, ElementOfSeq, SubSeqProperties

LEMMA PrefixValue ==
  ASSUME NEW S, NEW s \in Seq(S), NEW n \in 0..Len(s)
  PROVE  /\ SubSeq(s, 1, n) \in Seq(S)
         /\ Len(SubSeq(s, 1, n)) = n
         /\ \A i \in 1..n : SubSeq(s, 1, n)[i] = s[i]
  BY LenProperties, ElementOfSeq, SubSeqProperties

(* What recv() moves from the network to the buffer leaves the stream as   *)
(* it is.                                                                  *)
LEMMA StreamMoved ==
  ASSUME NEW S, NEW s \in Seq(S), NEW t \in Seq(S), NEW n \in 0..Len(t)
  PROVE  (s \o SubSeq(t, 1, n)) \o SubSeq(t, n + 1, Len(t)) = s \o t
<1> DEFINE a == SubSeq(t, 1, n)
           b == SubSeq(t, n + 1, Len(t))
<1>1. Len(t) \in Nat
  BY LenProperties
<1>2. a \in Seq(S) /\ b \in Seq(S)
  BY PrefixValue, SuffixValue
<1>3. a \o b = t
  <2>1. SubSeq(t, 1, n) \o SubSeq(t, n + 1, Len(t)) = SubSeq(t, 1, Len(t))
    <3>1. /\ 1 \in 1..(Len(t) + 1) /\ n \in (1 - 1)..Len(t)
          /\ Len(t) \in n..Len(t)
      BY <1>1
    <3> QED
      BY <3>1, ConcatAdjacentSubSeq
  <2> QED
    BY <2>1, SubSeqFull
<1> HIDE DEF a, b
<1>4. \A x, y, z \in Seq(S) : (x \o y) \o z = x \o (y \o z)
  BY ConcatAssociative, SMTT(30)
<1>5. (s \o a) \o b = s \o (a \o b)
  BY <1>2, <1>4, Zenon
<1> QED
  BY <1>3, <1>5 DEF a, b

(* A packet executed is one more of this connection.                       *)
LEMMA SuffixAppend ==
  ASSUME NEW S, NEW s \in Seq(S), NEW e \in S, NEW n \in 0..Len(s)
  PROVE  SubSeq(Append(s, e), n + 1, Len(Append(s, e)))
           = Append(SubSeq(s, n + 1, Len(s)), e)
<1> DEFINE l == SubSeq(Append(s, e), n + 1, Len(Append(s, e)))
           r == Append(SubSeq(s, n + 1, Len(s)), e)
<1>1. Append(s, e) \in Seq(S) /\ Len(Append(s, e)) = Len(s) + 1
  BY AppendProperties
<1>2. Len(s) \in Nat /\ n \in 0..Len(Append(s, e))
  BY <1>1, LenProperties
<1>3. /\ l \in Seq(S) /\ Len(l) = Len(s) + 1 - n
      /\ \A i \in 1..(Len(s) + 1 - n) : l[i] = Append(s, e)[i + n]
  BY <1>1, <1>2, SuffixValue
<1>4. /\ SubSeq(s, n + 1, Len(s)) \in Seq(S)
      /\ Len(SubSeq(s, n + 1, Len(s))) = Len(s) - n
      /\ \A i \in 1..(Len(s) - n) : SubSeq(s, n + 1, Len(s))[i] = s[i + n]
  BY SuffixValue
<1>5. /\ r \in Seq(S) /\ Len(r) = Len(s) + 1 - n
      /\ \A i \in 1..(Len(s) - n) : r[i] = s[i + n]
      /\ r[Len(s) + 1 - n] = e
  BY <1>2, <1>4, AppendProperties
<1>6. \A i \in 1..Len(l) : l[i] = r[i]
  <2> SUFFICES ASSUME NEW i \in 1..Len(l) PROVE l[i] = r[i]
    OBVIOUS
  <2>1. CASE i <= Len(s) - n
    BY <1>2, <1>3, <1>5, <2>1, AppendProperties
  <2>2. CASE i = Len(s) + 1 - n
    BY <1>2, <1>3, <1>5, <2>2, AppendProperties
  <2> QED
    BY <1>2, <1>3, <2>1, <2>2
<1> HIDE DEF l, r
<1>7. l = r
  BY <1>3, <1>5, <1>6, SeqEqual
<1> QED
  BY <1>7 DEF l, r

LEMMA SeqWider ==
  ASSUME NEW S, NEW T, S \subseteq T, NEW s \in Seq(S)
  PROVE  s \in Seq(T)
  OBVIOUS

(* The elements of a stream.                                               *)
LEMMA StreamElement ==
  ASSUME NEW sent \in Seq(Packet), NEW s \in Seq(Bytes(sent)), NEW i \in 1..Len(s)
  PROVE  /\ Len(s) \in Nat /\ Len(sent) \in Nat /\ i \in Nat
         /\ s[i].p \in 1..Len(sent)
         /\ s[i].at \in Nat \ {0}
         /\ s[i] = [p |-> s[i].p, at |-> s[i].at]
         /\ sent[s[i].p] \in Packet
         /\ Size(sent[s[i].p]) \in 2..(MinSize + MaxArgc)
<1>1. s[i] \in Bytes(sent) /\ Len(s) \in Nat /\ Len(sent) \in Nat /\ i \in Nat
  BY ElementOfSeq, LenProperties
<1>2. /\ s[i].p \in 1..Len(sent) /\ s[i].at \in Nat \ {0}
      /\ s[i] = [p |-> s[i].p, at |-> s[i].at]
  BY <1>1 DEF Bytes
<1>3. sent[s[i].p] \in Packet
  BY <1>2, ElementOfSeq
<1>4. Size(sent[s[i].p]) \in 2..(MinSize + MaxArgc)
  BY <1>3, SizeValue
<1> QED
  BY <1>1, <1>2, <1>3, <1>4

(* The hub sends one packet more.                                          *)
LEMMA StreamExtended ==
  ASSUME NEW sent \in Seq(Packet), NEW m \in Packet, NEW s, NEW n,
         IsStream(s, sent, n)
  PROVE  IsStream(s \o BytesOf(Len(sent) + 1, m), Append(sent, m), n)
<1> DEFINE N == Len(sent)
           d == BytesOf(N + 1, m)
           more == Append(sent, m)
           t == s \o d
           L == Len(s)
<1>1. s \in Seq(Bytes(sent)) /\ L \in Nat /\ N \in Nat
  BY LenProperties DEF IsStream
<1>2. /\ more \in Seq(Packet) /\ Len(more) = N + 1 /\ more[N + 1] = m
      /\ \A i \in 1..N : more[i] = sent[i]
  BY <1>1, AppendProperties
<1> HIDE DEF N, L, d, t, more
<1>3. /\ Size(m) \in 2..(MinSize + MaxArgc) /\ Len(d) = Size(m)
      /\ d \in Seq([p : {N + 1}, at : 1..(MinSize + MaxArgc)])
      /\ \A i \in 1..Size(m) : d[i] = [p |-> N + 1, at |-> i]
  <2>1. N + 1 \in Nat
    BY <1>1
  <2> QED
    BY <2>1, BytesOfValue DEF d
<1>4. s \in Seq(Bytes(more)) /\ d \in Seq(Bytes(more))
  <2>1. Bytes(sent) \subseteq Bytes(more)
    BY <1>1, <1>2 DEF Bytes, N
  <2>2. [p : {N + 1}, at : 1..(MinSize + MaxArgc)] \subseteq Bytes(more)
    BY <1>1, <1>2 DEF Bytes
  <2> QED
    BY <1>1, <1>3, <2>1, <2>2, SeqWider
<1>5. /\ t \in Seq(Bytes(more)) /\ Len(t) = L + Size(m)
      /\ \A i \in 1..L : t[i] = s[i]
      /\ \A i \in (L + 1)..(L + Size(m)) : t[i] = d[i - L]
  <2>1. /\ t \in Seq(Bytes(more)) /\ Len(t) = Len(s) + Len(d)
        /\ \A i \in 1..Len(s) : t[i] = s[i]
        /\ \A i \in (Len(s) + 1)..(Len(s) + Len(d)) : t[i] = d[i - Len(s)]
    BY <1>4, ConcatValue DEF t
  <2> QED
    BY <1>3, <2>1 DEF L
<1>6. ASSUME NEW i \in (L + 1)..(L + Size(m))
      PROVE  t[i].p = N + 1 /\ t[i].at = i - L
  <2>1. i - L \in 1..Size(m)
    BY <1>1, <1>3
  <2>2. t[i] = [p |-> N + 1, at |-> i - L]
    BY <1>3, <1>5, <2>1
  <2> QED
    BY <2>2
<1>7. /\ L = 0 => n = N + 1
      /\ L > 0 => /\ s[1].p = n /\ s[1].at = 1
                 /\ s[L].p = N /\ s[L].at = Size(sent[N])
      /\ \A i \in 1..(L - 1) : Follows(sent, s[i], s[i + 1])
  BY DEF IsStream, L, N
<1>8. \A i \in 1..L : /\ s[i].p \in 1..N /\ s[i].at \in Nat
                      /\ Size(sent[s[i].p]) \in Nat
                      /\ Size(more[s[i].p]) = Size(sent[s[i].p])
  <2> SUFFICES ASSUME NEW i \in 1..L
               PROVE  /\ s[i].p \in 1..N /\ s[i].at \in Nat
                      /\ Size(sent[s[i].p]) \in Nat
                      /\ Size(more[s[i].p]) = Size(sent[s[i].p])
    OBVIOUS
  <2>1. /\ s[i].p \in 1..N /\ s[i].at \in Nat
        /\ Size(sent[s[i].p]) \in 2..(MinSize + MaxArgc)
    BY <1>1, StreamElement DEF L, N
  <2> QED
    BY <1>2, <2>1
<1> DEFINE z == Size(m)
<1>9. L \in Nat /\ N \in Nat /\ z \in Nat \ {0, 1} /\ Len(t) = L + z
  BY <1>1, <1>3, <1>5
<1>10. /\ \A i \in (L + 1)..(L + z) : t[i].p = N + 1 /\ t[i].at = i - L
       /\ more[N + 1] = m
  BY <1>2, <1>6
<1>11. Len(t) > 0 /\ t[1].p = n /\ t[1].at = 1
  <2> HIDE DEF z
  <2>1. CASE L = 0
    <3>1. 1 \in (L + 1)..(L + z) /\ 1 - L = 1 /\ n = N + 1
      BY <1>7, <1>9, <2>1
    <3> QED
      BY <1>9, <1>10, <2>1, <3>1
  <2>2. CASE L > 0
    <3>1. 1 \in 1..L
      BY <1>9, <2>2
    <3> QED
      BY <1>5, <1>7, <1>9, <2>2, <3>1
  <2> QED
    BY <1>9, <2>1, <2>2
<1>12. t[Len(t)].p = Len(more) /\ t[Len(t)].at = Size(more[Len(more)])
  <2>1. L + z \in (L + 1)..(L + z) /\ (L + z) - L = z
    BY <1>9
  <2> QED
    BY <1>2, <1>9, <1>10, <2>1
<1>13. ASSUME NEW i \in 1..(Len(t) - 1)
       PROVE  Follows(more, t[i], t[i + 1])
  <2>0. i \in Nat \ {0} /\ i < L + z /\ z = Size(m)
    BY <1>9, <1>13
  <2> HIDE DEF z
  <2>1. CASE i < L
    <3>1. i \in 1..L /\ i + 1 \in 1..L /\ i \in 1..(L - 1)
      BY <1>9, <2>0, <2>1
    <3>2. /\ t[i] = s[i] /\ t[i + 1] = s[i + 1] /\ Follows(sent, s[i], s[i + 1])
          /\ Size(more[s[i].p]) = Size(sent[s[i].p])
      BY <1>5, <1>7, <1>8, <3>1
    <3> QED
      BY <3>2 DEF Follows
  <2>2. CASE i = L
    <3>1. i \in 1..L /\ L > 0 /\ i + 1 \in (L + 1)..(L + z) /\ (i + 1) - L = 1
      BY <1>9, <2>0, <2>2
    <3>2. /\ t[i].p = N /\ t[i].at = Size(sent[N])
          /\ Size(more[N]) = Size(sent[N]) /\ Size(sent[N]) \in Nat
      BY <1>5, <1>7, <1>8, <2>2, <3>1
    <3>3. t[i + 1].p = N + 1 /\ t[i + 1].at = 1
      BY <1>10, <3>1
    <3> QED
      BY <3>2, <3>3 DEF Follows
  <2>3. CASE i > L
    <3>1. i \in (L + 1)..(L + z) /\ i + 1 \in (L + 1)..(L + z)
      BY <1>9, <2>0, <2>3
    <3>2. /\ t[i].p = N + 1 /\ t[i].at = i - L
          /\ t[i + 1].p = N + 1 /\ t[i + 1].at = (i + 1) - L
      BY <1>10, <3>1
    <3>3. i - L < Size(more[N + 1]) /\ (i + 1) - L = i - L + 1
      BY <1>9, <1>10, <2>0, <3>1
    <3> QED
      BY <3>2, <3>3 DEF Follows
  <2> QED
    BY <1>9, <2>0, <2>1, <2>2, <2>3
<1>14. IsStream(t, more, n)
  BY <1>5, <1>11, <1>12, <1>13 DEF IsStream
<1> QED
  BY <1>14 DEF t, d, more, N

(* The client takes the packet with which the stream begins.               *)
LEMMA StreamTaken ==
  ASSUME NEW sent \in Seq(Packet), NEW s, NEW n \in Nat, NEW k \in 1..Len(s),
         IsStream(s, sent, n), k = Size(sent[n]),
         \A i \in 1..k : s[i] = [p |-> n, at |-> i]
  PROVE  /\ n \in 1..Len(sent)
         /\ IsStream(SubSeq(s, k + 1, Len(s)), sent, n + 1)
<1> DEFINE L == Len(s)
           N == Len(sent)
           t == SubSeq(s, k + 1, Len(s))
<1>1. /\ s \in Seq(Bytes(sent)) /\ L \in Nat /\ N \in Nat
      /\ k \in Nat \ {0} /\ k <= L
  BY LenProperties DEF IsStream
<1>2. /\ t \in Seq(Bytes(sent)) /\ Len(t) = L - k
      /\ \A i \in 1..(L - k) : t[i] = s[i + k]
  BY <1>1, SuffixValue
<1>3. /\ s[L].p = N /\ s[L].at = Size(sent[N])
      /\ \A i \in 1..(L - 1) : Follows(sent, s[i], s[i + 1])
  BY <1>1 DEF IsStream
<1>4. s[k].p = n /\ s[k].at = k /\ s[1].p = n
  <2>1. k \in 1..k /\ 1 \in 1..k
    BY <1>1
  <2>2. s[k] = [p |-> n, at |-> k] /\ s[1] = [p |-> n, at |-> 1]
    BY <2>1
  <2> QED
    BY <2>2
<1>5. n \in 1..N
  BY <1>1, <1>4, StreamElement
<1>0. Len(t) = L - k /\ L \in Nat /\ k \in Nat \ {0} /\ k <= L
  BY <1>1, <1>2
<1> HIDE DEF t, L, N
<1>6. ASSUME Len(t) = 0 PROVE n + 1 = N + 1
  <2>1. k = L
    BY <1>0, <1>6
  <2>2. s[k].p = N
    BY <1>3, <2>1
  <2> QED
    BY <1>4, <2>2
<1>7. ASSUME Len(t) > 0
      PROVE  /\ t[1].p = n + 1 /\ t[1].at = 1
             /\ t[Len(t)].p = N /\ t[Len(t)].at = Size(sent[N])
  <2>1. k \in 1..(L - 1) /\ 1 \in 1..(L - k) /\ 1 + k = k + 1
    BY <1>0, <1>7
  <2>2. L - k \in 1..(L - k) /\ (L - k) + k = L
    BY <1>1, <2>1
  <2>3. t[1] = s[k + 1] /\ t[Len(t)] = s[L]
    BY <1>2, <2>1, <2>2
  <2>4. Follows(sent, s[k], s[k + 1])
    BY <1>3, <2>1
  <2> QED
    BY <1>1, <1>3, <1>4, <2>3, <2>4 DEF Follows
<1>8. ASSUME NEW i \in 1..(Len(t) - 1)
      PROVE  Follows(sent, t[i], t[i + 1])
  <2>1. /\ i \in 1..(L - k) /\ i + 1 \in 1..(L - k) /\ i + k \in 1..(L - 1)
        /\ (i + 1) + k = (i + k) + 1
    BY <1>0
  <2>2. t[i] = s[i + k] /\ t[i + 1] = s[(i + k) + 1]
    BY <1>2, <2>1
  <2> QED
    BY <1>3, <2>1, <2>2
<1>9. IsStream(t, sent, n + 1)
  BY <1>2, <1>6, <1>7, <1>8 DEF IsStream, N
<1> QED
  BY <1>5, <1>9 DEF t, N

(* The beginning of a concatenation goes.                                  *)
LEMMA StreamDropped ==
  ASSUME NEW S, NEW s \in Seq(S), NEW t \in Seq(S), NEW k \in 0..Len(s)
  PROVE  SubSeq(s, k + 1, Len(s)) \o t = SubSeq(s \o t, k + 1, Len(s \o t))
<1> DEFINE a == SubSeq(s, k + 1, Len(s))
           l == a \o t
           u == s \o t
           r == SubSeq(u, k + 1, Len(u))
<1>1. Len(s) \in Nat /\ Len(t) \in Nat /\ k \in Nat /\ k <= Len(s)
  BY LenProperties
<1>2. /\ u \in Seq(S) /\ Len(u) = Len(s) + Len(t)
      /\ \A i \in 1..Len(s) : u[i] = s[i]
      /\ \A i \in (Len(s) + 1)..(Len(s) + Len(t)) : u[i] = t[i - Len(s)]
  BY ConcatValue
<1>3. /\ a \in Seq(S) /\ Len(a) = Len(s) - k
      /\ \A i \in 1..(Len(s) - k) : a[i] = s[i + k]
  BY SuffixValue
<1>4. /\ l \in Seq(S) /\ Len(l) = Len(a) + Len(t)
      /\ \A i \in 1..Len(a) : l[i] = a[i]
      /\ \A i \in (Len(a) + 1)..(Len(a) + Len(t)) : l[i] = t[i - Len(a)]
  BY <1>3, ConcatValue
<1> HIDE DEF u
<1>5. /\ r \in Seq(S) /\ Len(r) = Len(u) - k
      /\ \A i \in 1..(Len(u) - k) : r[i] = u[i + k]
  <2>1. k \in 0..Len(u)
    BY <1>1, <1>2
  <2> QED
    BY <1>2, <2>1, SuffixValue
<1> HIDE DEF a, l, r
<1>6. Len(l) = Len(r)
  BY <1>1, <1>2, <1>3, <1>4, <1>5
<1>7. ASSUME NEW i \in 1..Len(l) PROVE l[i] = r[i]
  <2>1. CASE i <= Len(s) - k
    <3>1. i \in 1..Len(a) /\ i \in 1..(Len(u) - k) /\ i + k \in 1..Len(s)
      BY <1>1, <1>2, <1>3, <2>1
    <3> QED
      BY <1>2, <1>3, <1>4, <1>5, <3>1
  <2>2. CASE i > Len(s) - k
    <3>1. /\ i \in (Len(a) + 1)..(Len(a) + Len(t)) /\ i \in 1..(Len(u) - k)
          /\ i + k \in (Len(s) + 1)..(Len(s) + Len(t))
          /\ (i + k) - Len(s) = i - Len(a)
      BY <1>1, <1>2, <1>3, <1>4, <2>2
    <3> QED
      BY <1>2, <1>4, <1>5, <3>1
  <2> QED
    BY <1>1, <1>3, <1>4, <2>1, <2>2
<1>8. l = r
  BY <1>4, <1>5, <1>6, <1>7, SeqEqual
<1> QED
  BY <1>8 DEF l, r, a, u

-----------------------------------------------------------------------------
LEMMA InitIInv == Init => IInv
<1> SUFFICES ASSUME Init PROVE IInv
  OBVIOUS
<1>1. TypeOK
  <2>1. /\ packets \in Seq(Packet) /\ net \in Seq(Byte) /\ buf \in Seq(Byte)
        /\ acks \in Seq(0..Len(packets)) /\ done \in Seq(1..Len(packets))
        /\ events \in Seq(0..Len(packets))
    BY DEF Init
  <2>2. open \in BOOLEAN
    BY Zenon DEF Init
  <2>3. /\ first \in 1..Len(packets)+1 /\ before \in 0..Len(done)
        /\ pkt \in 0..Len(packets) /\ losses \in 0..MaxLosses
    BY DEF Init
  <2> QED
    BY <2>1, <2>2, <2>3 DEF Init, TypeOK
<1>2. StreamInv /\ PacketInv
  BY DEF Init, StreamInv, Connected, PacketInv
<1>3. DoneInv /\ EventInv
  BY DEF Init, DoneInv, EventInv, Unexecuted
<1>4. AckInv
  BY SubSeqEmpty DEF Init, AckInv, DoneHere
<1> QED
  BY <1>1, <1>2, <1>3, <1>4 DEF IInv

-----------------------------------------------------------------------------
(* The hub and the event client.                                           *)
LEMMA HubSendsIInv == IInv /\ HubSends => IInv'
<1> SUFFICES ASSUME IInv, HubSends PROVE IInv'
  OBVIOUS
<1> DEFINE N == Len(packets)
<1>1. PICK m \in Packet : /\ packets' = Append(packets, m)
                         /\ net' = net \o BytesOf(N + 1, m)
  BY DEF HubSends
<1> DEFINE d == BytesOf(N + 1, m)
<1>2. /\ first' = first /\ open' = open /\ pc' = pc /\ buf' = buf
      /\ pkt' = pkt /\ acks' = acks /\ done' = done /\ before' = before
      /\ event' = event /\ events' = events /\ losses' = losses
  BY DEF HubSends, doneVars, eventVars
<1>3. /\ packets \in Seq(Packet) /\ first \in 1..(N + 1)
      /\ net \in Seq(Byte) /\ buf \in Seq(Byte) /\ pkt \in 0..N
      /\ acks \in Seq(0..N) /\ done \in Seq(1..N) /\ events \in Seq(0..N)
      /\ N \in Nat
  BY LenProperties DEF IInv, TypeOK
<1> HIDE DEF N, d
<1>4. /\ packets' \in Seq(Packet) /\ Len(packets') = N + 1
      /\ \A i \in 1..N : packets'[i] = packets[i]
      /\ packets'[N + 1] = m
  BY <1>1, <1>3, AppendProperties DEF N
<1>5. /\ Byte \subseteq Byte' /\ 0..N \subseteq 0..(N + 1)
      /\ 1..N \subseteq 1..(N + 1)
  BY <1>3, <1>4 DEF Byte, N
<1>6. /\ Size(m) \in 2..(MinSize + MaxArgc) /\ Len(d) = Size(m)
      /\ \A i \in 1..Size(m) : d[i] = [p |-> N + 1, at |-> i]
      /\ d \in Seq(Byte')
  <2>1. /\ Size(m) \in 2..(MinSize + MaxArgc) /\ Len(d) = Size(m)
        /\ \A i \in 1..Size(m) : d[i] = [p |-> N + 1, at |-> i]
        /\ d \in Seq([p : {N + 1}, at : 1..(MinSize + MaxArgc)])
    <3>1. N + 1 \in Nat
      BY <1>3
    <3> QED
      BY <3>1, BytesOfValue DEF d
  <2>2. [p : {N + 1}, at : 1..(MinSize + MaxArgc)] \subseteq Byte'
    BY <1>3, <1>4 DEF Byte
  <2> QED
    BY <2>1, <2>2, SeqWider
<1>7. TypeOK'
  <2>1. buf \in Seq(Byte') /\ net \in Seq(Byte')
    BY <1>3, <1>5, SeqWider
  <2>2. net' \in Seq(Byte')
    BY <1>1, <1>6, <2>1, ConcatProperties DEF d
  <2>3. /\ acks \in Seq(0..(N + 1)) /\ done \in Seq(1..(N + 1))
        /\ events \in Seq(0..(N + 1))
    BY <1>3, <1>5, SeqWider
  <2> QED
    BY <1>2, <1>3, <1>4, <2>1, <2>2, <2>3 DEF IInv, TypeOK
<1>8. StreamInv'
  <2> SUFFICES ASSUME Connected PROVE IsStream(Stream', packets', Upcoming)
    BY <1>2 DEF StreamInv, Connected, Upcoming, Unexecuted
  <2>1. Stream' = Stream \o d
    <3>1. \A x, y, z \in Seq(Byte') : x \o (y \o z) = (x \o y) \o z
      BY SMTT(30)
    <3>2. buf \in Seq(Byte') /\ net \in Seq(Byte')
      BY <1>3, <1>5, SeqWider
    <3>3. buf \o (net \o d) = (buf \o net) \o d
      BY <1>6, <3>1, <3>2, Zenon
    <3> QED
      BY <1>1, <1>2, <3>3 DEF Stream, d
  <2>2. IsStream(Stream, packets, Upcoming)
    BY DEF IInv, StreamInv
  <2> QED
    BY <1>1, <1>3, <2>1, <2>2, StreamExtended DEF d, N
<1>9. DoneInv' /\ PacketInv'
  <2>1. \A i \in 1..Len(done) : done[i] \in 1..N
    BY <1>3, ElementOfSeq
  <2>2. Len(done) \in Nat /\ before \in 0..Len(done)
    BY <1>3, LenProperties DEF IInv, TypeOK
  <2>3. Unexecuted' = Unexecuted /\ Unexecuted \in Int
    BY <1>2, <1>3, <2>2 DEF Unexecuted
  <2>4. DoneInv'
    <3>1. Unexecuted' <= Len(packets') + 1
      BY <1>3, <1>4, <2>3 DEF IInv, DoneInv, N
    <3>2. \A i \in 1..Len(done) : Good(packets[done[i]]) /\ packets'[done[i]] = packets[done[i]]
      BY <1>4, <2>1, Zenon DEF IInv, DoneInv
    <3>3. \A i \in 1..Len(done') : Good(packets'[done'[i]])
      BY <1>2, <3>2, Zenon
    <3>4. /\ \A i \in 1..before' : done'[i] < first'
          /\ \A i \in (before' + 1)..Len(done') : done'[i] = first' + i - before' - 1
          /\ \A i, j \in 1..Len(done') : i < j => done'[i] < done'[j]
      BY <1>2, Zenon DEF IInv, DoneInv
    <3> QED
      BY <3>1, <3>3, <3>4, Zenon DEF DoneInv
  <2>5. PacketInv'
    BY <1>2, <1>3, <1>4, <2>3 DEF IInv, PacketInv, Good, N
  <2> QED
    BY <2>4, <2>5
<1>10. AckInv' /\ EventInv'
  BY <1>2 DEF IInv, AckInv, EventInv, DoneHere, Unexecuted
<1> QED
  BY <1>7, <1>8, <1>9, <1>10 DEF IInv

LEMMA HubClosesIInv == IInv /\ HubCloses => IInv'
<1> SUFFICES ASSUME IInv, HubCloses PROVE IInv'
  OBVIOUS
<1> USE DEF IInv, At
<1>1. TypeOK'
  <2>1. open' \in BOOLEAN
    BY Zenon DEF HubCloses
  <2> QED
    BY <2>1 DEF HubCloses, TypeOK, Byte, hubVars, eventVars, doneVars
<1>2. StreamInv' /\ DoneInv' /\ PacketInv' /\ AckInv' /\ EventInv'
  BY DEF HubCloses, StreamInv, Connected, Upcoming, Stream, Unexecuted, DoneInv,
         PacketInv, AckInv, DoneHere, EventInv, hubVars, eventVars, doneVars
<1> QED
  BY <1>1, <1>2

LEMMA EventClosesIInv == IInv /\ EventCloses => IInv'
<1> SUFFICES ASSUME IInv, EventCloses PROVE IInv'
  OBVIOUS
<1> USE DEF IInv, At
<1>1. TypeOK'
  BY DEF EventCloses, TypeOK, Byte, hubVars, eventVars, doneVars
<1>2. StreamInv' /\ DoneInv' /\ PacketInv' /\ AckInv' /\ EventInv'
  BY DEF EventCloses, StreamInv, Connected, Upcoming, Stream, Unexecuted, DoneInv,
         PacketInv, AckInv, DoneHere, EventInv, hubVars, eventVars, doneVars
<1> QED
  BY <1>1, <1>2

LEMMA EventResetsIInv == IInv /\ EventResets => IInv'
<1> SUFFICES ASSUME IInv, EventResets PROVE IInv'
  OBVIOUS
<1> USE DEF IInv, At
<1>1. TypeOK'
  BY DEF EventResets, TypeOK, Byte, hubVars, eventVars, doneVars
<1>2. StreamInv' /\ DoneInv' /\ PacketInv' /\ AckInv' /\ EventInv'
  BY DEF EventResets, StreamInv, Connected, Upcoming, Stream, Unexecuted, DoneInv,
         PacketInv, AckInv, DoneHere, EventInv, hubVars, eventVars, doneVars
<1> QED
  BY <1>1, <1>2

LEMMA EventConnectsIInv == IInv /\ EventConnects => IInv'
<1> SUFFICES ASSUME IInv, EventConnects PROVE IInv'
  OBVIOUS
<1> USE DEF IInv, At
<1>1. TypeOK'
  BY DEF EventConnects, TypeOK, Byte, hubVars, eventVars, doneVars
<1>2. StreamInv' /\ DoneInv' /\ PacketInv' /\ AckInv' /\ EventInv'
  BY DEF EventConnects, StreamInv, Connected, Upcoming, Stream, Unexecuted, DoneInv,
         PacketInv, AckInv, DoneHere, EventInv, hubVars, eventVars, doneVars
<1> QED
  BY <1>1, <1>2

LEMMA ConnectIInv == IInv /\ Connect => IInv'
<1> SUFFICES ASSUME IInv, Connect PROVE IInv'
  OBVIOUS
<1> USE DEF IInv, At
<1>1. TypeOK'
  <2>1. open' \in BOOLEAN
    BY Zenon DEF Connect
  <2>2. /\ Len(packets) \in Nat /\ Len(done) \in Nat
        /\ net' = <<>> /\ buf' = <<>> /\ acks' = <<>>
    BY LenProperties DEF Connect, TypeOK
  <2>3. /\ first' \in 1..Len(packets')+1 /\ before' \in 0..Len(done')
        /\ net' \in Seq(Byte') /\ buf' \in Seq(Byte')
        /\ acks' \in Seq(0..Len(packets')) /\ Len(buf') < MinSize + MaxArgc
    BY <2>2 DEF Connect
  <2> QED
    BY <2>1, <2>3 DEF Connect, TypeOK, Byte, eventVars
<1>2. /\ packets' = packets /\ done' = done /\ events' = events
      /\ first' = Len(packets) + 1 /\ before' = Len(done) /\ pc' = "poll"
      /\ net' = <<>> /\ buf' = <<>> /\ acks' = <<>>
  BY DEF Connect, eventVars
<1>3. /\ Len(packets) \in Nat /\ Len(done) \in Nat /\ first \in 1..Len(packets)+1
      /\ before \in 0..Len(done) /\ \A i \in 1..Len(done) : done[i] \in 1..Len(packets)
  BY LenProperties, ElementOfSeq DEF TypeOK
<1>4. StreamInv'
  <2>1. Stream' = <<>> /\ Upcoming' = Len(packets) + 1
    BY <1>2, <1>3 DEF Stream, Upcoming, Unexecuted
  <2>2. IsStream(<<>>, packets, Len(packets) + 1)
    BY <1>3 DEF IsStream
  <2> QED
    BY <1>2, <2>1, <2>2 DEF StreamInv
<1>5. DoneInv'
  BY <1>2, <1>3 DEF DoneInv, Unexecuted, Good
<1>6. AckInv'
  <2>1. DoneHere' = <<>>
    BY <1>2, <1>3, SubSeqEmpty DEF DoneHere
  <2> QED
    BY <1>2, <2>1 DEF AckInv
<1>7. EventInv'
  <2>1. Unexecuted' = Len(packets) + 1 /\ Unexecuted <= Len(packets) + 1
    BY <1>2, <1>3 DEF DoneInv, Unexecuted
  <2>2. /\ Unexecuted \in Int
        /\ \A i \in 1..Len(events) : events[i] \in 0..Len(packets)
    BY <1>3, ElementOfSeq DEF Unexecuted, TypeOK
  <2> QED
    BY <1>2, <1>3, <2>1, <2>2 DEF EventInv
<1>8. PacketInv'
  BY <1>2 DEF PacketInv
<1> QED
  BY <1>1, <1>4, <1>5, <1>6, <1>7, <1>8

LEMMA ReadIInv == IInv /\ Read => IInv'
<1> SUFFICES ASSUME IInv, Read PROVE IInv'
  OBVIOUS
<1> USE DEF IInv, At
<1>1. TypeOK'
  <2>1. PICK n \in 1..ReadSize : /\ n <= Len(net)
                                /\ buf' = buf \o SubSeq(net, 1, n)
                                /\ net' = SubSeq(net, n + 1, Len(net))
    BY DEF Read
  <2>2. buf \in Seq(Byte) /\ net \in Seq(Byte) /\ n \in 0..Len(net)
    BY <2>1, LenProperties DEF TypeOK
  <2>3. buf' \in Seq(Byte) /\ net' \in Seq(Byte)
    BY <2>1, <2>2, PrefixValue, SuffixValue, ConcatProperties
  <2> QED
    BY <2>3 DEF Read, TypeOK, Byte, hubVars, eventVars, doneVars
<1>2. StreamInv'
  <2>1. PICK n \in 1..ReadSize : /\ n <= Len(net)
                                /\ buf' = buf \o SubSeq(net, 1, n)
                                /\ net' = SubSeq(net, n + 1, Len(net))
    BY DEF Read
  <2>2. buf \in Seq(Byte) /\ net \in Seq(Byte) /\ n \in 0..Len(net)
    BY <2>1, LenProperties DEF TypeOK
  <2>3. Stream' = Stream
    BY <2>1, <2>2, StreamMoved DEF Stream
  <2> QED
    BY <2>3 DEF Read, StreamInv, Connected, Upcoming, Unexecuted, hubVars, doneVars
<1>3. DoneInv' /\ PacketInv' /\ AckInv' /\ EventInv'
  BY DEF Read, Unexecuted, DoneInv, PacketInv, AckInv, DoneHere, EventInv,
         hubVars, eventVars, doneVars
<1> QED
  BY <1>1, <1>2, <1>3

LEMMA LostIInv == IInv /\ Lost => IInv'
<1> SUFFICES ASSUME IInv, Lost PROVE IInv'
  OBVIOUS
<1> USE DEF IInv, At
<1>1. TypeOK'
  BY DEF Lost, TypeOK, Byte, hubVars, eventVars, doneVars
<1>2. StreamInv' /\ DoneInv' /\ PacketInv' /\ AckInv' /\ EventInv'
  BY DEF Lost, StreamInv, Connected, Upcoming, Stream, Unexecuted, DoneInv,
         PacketInv, AckInv, DoneHere, EventInv, hubVars, eventVars, doneVars
<1> QED
  BY <1>1, <1>2

LEMMA ArgcReadValue ==
  ASSUME TypeOK, Len(buf) >= MinSize
  PROVE  ArgcRead \subseteq 0..(MaxArgc + 1)
<1>1. buf \in Seq(Byte) /\ Len(buf) \in Nat /\ buf # <<>>
  BY LenProperties DEF TypeOK
<1>2. Head(buf) = buf[1] /\ buf[1] \in Byte
  BY <1>1, ElementOfSeq
<1>3. packets[Head(buf).p] \in Packet
  BY <1>2, ElementOfSeq DEF Byte, TypeOK
<1>4. packets[Head(buf).p].argc \in 0..(MaxArgc + 1)
  BY <1>3 DEF Packet
<1> QED
  BY <1>4 DEF ArgcRead

LEMMA WaitIInv == IInv /\ Wait => IInv'
<1> SUFFICES ASSUME IInv, Wait PROVE IInv'
  OBVIOUS
<1> USE DEF IInv, At
<1>1. TypeOK'
  <2>1. Len(buf) < MinSize + MaxArgc
    <3>1. CASE Len(buf) < MinSize
      BY <3>1, LenProperties DEF TypeOK
    <3>2. ASSUME Len(buf) >= MinSize,
                 NEW argc \in ArgcRead, ~TooLong(argc), Len(buf) < MinSize + argc
          PROVE  Len(buf) < MinSize + MaxArgc
      BY <3>2, ArgcReadValue, LenProperties DEF TooLong, TypeOK
    <3> QED
      BY <3>1, <3>2 DEF Wait
  <2> QED
    BY <2>1 DEF Wait, TypeOK, Byte, hubVars, eventVars, doneVars
<1>2. StreamInv' /\ DoneInv' /\ PacketInv' /\ AckInv' /\ EventInv'
  BY DEF Wait, StreamInv, Connected, Upcoming, Stream, Unexecuted, DoneInv,
         PacketInv, AckInv, DoneHere, EventInv, hubVars, eventVars, doneVars
<1> QED
  BY <1>1, <1>2

LEMMA RefuseIInv == IInv /\ Refuse => IInv'
<1> SUFFICES ASSUME IInv, Refuse PROVE IInv'
  OBVIOUS
<1> USE DEF IInv, At
<1>1. TypeOK'
  BY DEF Refuse, TypeOK, Byte, hubVars, eventVars, doneVars
<1>2. StreamInv' /\ DoneInv' /\ PacketInv' /\ AckInv' /\ EventInv'
  BY DEF Refuse, StreamInv, Connected, Upcoming, Stream, Unexecuted, DoneInv,
         PacketInv, AckInv, DoneHere, EventInv, hubVars, eventVars, doneVars
<1> QED
  BY <1>1, <1>2

LEMMA TakeIInv == IInv /\ Take => IInv'
<1> SUFFICES ASSUME IInv, Take PROVE IInv'
  OBVIOUS
<1> USE DEF IInv
<1>1. PICK argc \in ArgcRead :
        LET bytes == SubSeq(buf, 1, MinSize + argc) IN
        /\ Len(buf) >= MinSize + argc
        /\ buf' = SubSeq(buf, MinSize + argc + 1, Len(buf))
        /\ \/ Parsed(bytes)  /\ pc' = "ack" /\ pkt' = Head(bytes).p
           \/ ~Parsed(bytes) /\ pc' = "close" /\ UNCHANGED pkt
  BY DEF Take
<1> DEFINE k == MinSize + argc
           bytes == SubSeq(buf, 1, k)
<1>2. /\ pc = "parse" /\ packets' = packets /\ first' = first /\ open' = open
      /\ net' = net /\ acks' = acks /\ done' = done /\ before' = before
      /\ event' = event /\ events' = events /\ losses' = losses
  BY DEF Take, hubVars, doneVars, eventVars
<1>3. /\ buf \in Seq(Byte) /\ net \in Seq(Byte) /\ packets \in Seq(Packet)
      /\ Len(buf) \in Nat /\ argc \in Nat
  <2>1. Len(buf) >= MinSize /\ TypeOK
    BY DEF Take
  <2> QED
    BY <2>1, ArgcReadValue, LenProperties DEF TypeOK
<1>4. k \in Nat /\ k \in 2..Len(buf) /\ k \in 0..Len(buf)
  BY <1>1, <1>3
<1>5. /\ buf' = SubSeq(buf, k + 1, Len(buf))
      /\ \/ Parsed(bytes) /\ pc' = "ack" /\ pkt' = Head(bytes).p
         \/ pc' = "close" /\ pkt' = pkt
  BY <1>1
<1> HIDE DEF k
<1>6. buf' \in Seq(Byte)
  BY <1>3, <1>4, <1>5, SuffixValue
<1>7. /\ bytes \in Seq(Byte) /\ Len(bytes) = k
      /\ \A i \in 1..k : bytes[i] = buf[i]
  BY <1>3, <1>4, PrefixValue
<1> HIDE DEF bytes
<1>8. CASE pc' = "close" /\ pkt' = pkt
  <2>1. TypeOK'
    BY <1>2, <1>6, <1>8 DEF TypeOK, Byte
  <2> QED
    BY <1>2, <1>8, <2>1 DEF StreamInv, Connected, DoneInv, PacketInv, AckInv,
                            EventInv, Unexecuted, DoneHere
<1>9. CASE Parsed(bytes) /\ pc' = "ack" /\ pkt' = Head(bytes).p
  <2> DEFINE n == Unexecuted
  <2>1. /\ Stream \in Seq(Byte) /\ Len(Stream) = Len(buf) + Len(net)
        /\ \A i \in 1..Len(buf) : Stream[i] = buf[i]
        /\ Len(net) \in Nat
    BY <1>3, ConcatValue, LenProperties DEF Stream
  <2>2. IsStream(Stream, packets, n)
    BY <1>2 DEF StreamInv, Connected, Upcoming
  <2>3. Stream[1].p = n /\ bytes[1] = Stream[1] /\ Head(bytes) = bytes[1]
    <3>1. Len(Stream) > 0 /\ 1 \in 1..k /\ 1 \in 1..Len(buf) /\ bytes # <<>>
      BY <1>3, <1>4, <1>7, <2>1
    <3> QED
      BY <1>7, <2>1, <2>2, <3>1 DEF IsStream
  <2>4. n \in 1..Len(packets)
    <3>1. bytes[1] \in Byte
      BY <1>4, <1>7, ElementOfSeq
    <3> QED
      BY <2>3, <3>1 DEF Byte
  <2>5. Good(packets[n]) /\ bytes = BytesOf(n, packets[n])
    BY <1>9, <2>3 DEF Parsed
  <2>6. packets[n] \in Packet /\ n \in Nat /\ Len(packets) \in Nat
    BY <1>3, <2>4, ElementOfSeq, LenProperties
  <2> HIDE DEF n
  <2>7. k = Size(packets[n]) /\ \A i \in 1..k : bytes[i] = [p |-> n, at |-> i]
    <3> DEFINE m == packets[n]
    <3>1. m \in Packet /\ bytes = BytesOf(n, m)
      BY <2>5, <2>6
    <3> HIDE DEF m
    <3>2. /\ Len(bytes) = Size(m)
          /\ \A i \in 1..Size(m) : bytes[i] = [p |-> n, at |-> i]
      BY <2>6, <3>1, BytesOfValue
    <3> QED
      BY <1>7, <3>2 DEF m
  <2>8. IsStream(SubSeq(Stream, k + 1, Len(Stream)), packets, n + 1)
    <3>1. k \in 1..Len(Stream) /\ \A i \in 1..k : i \in 1..Len(buf)
      BY <1>3, <1>4, <2>1
    <3>2. \A i \in 1..k : Stream[i] = [p |-> n, at |-> i]
      BY <1>7, <2>1, <2>7, <3>1
    <3> QED
      BY <1>3, <2>2, <2>6, <2>7, <3>1, <3>2, StreamTaken
  <2>9. Stream' = SubSeq(Stream, k + 1, Len(Stream))
    BY <1>2, <1>3, <1>4, <1>5, StreamDropped DEF Stream
  <2>10. pkt' = n /\ Unexecuted' = n
    BY <1>2, <1>9, <2>3 DEF Unexecuted, n
  <2>11. TypeOK'
    BY <1>2, <1>6, <1>9, <2>4, <2>6, <2>10 DEF TypeOK, Byte
  <2>12. StreamInv'
    BY <1>2, <1>9, <2>8, <2>9, <2>10 DEF StreamInv, Upcoming
  <2>13. DoneInv' /\ EventInv'
    BY <1>2, <1>9, <2>10 DEF DoneInv, EventInv, n
  <2>14. PacketInv'
    BY <1>2, <1>9, <2>4, <2>5, <2>10 DEF PacketInv, Good
  <2>15. AckInv'
    BY <1>2, <1>9 DEF AckInv, DoneHere
  <2> QED
    BY <2>11, <2>12, <2>13, <2>14, <2>15
<1> QED
  BY <1>5, <1>8, <1>9

LEMMA AckIInv == IInv /\ Ack => IInv'
<1> SUFFICES ASSUME IInv, Ack PROVE IInv'
  OBVIOUS
<1> USE DEF IInv, At
<1>1. TypeOK'
  <2>1. acks \in Seq(0..Len(packets)) /\ pkt \in 0..Len(packets)
    BY DEF TypeOK
  <2>2. acks' \in Seq(0..Len(packets))
    BY <2>1, AppendProperties DEF Ack
  <2> QED
    BY <2>2 DEF Ack, TypeOK, Byte, hubVars, eventVars, doneVars
<1>2. StreamInv' /\ DoneInv' /\ PacketInv' /\ AckInv' /\ EventInv'
  BY DEF Ack, StreamInv, Connected, Upcoming, Stream, Unexecuted, DoneInv,
         PacketInv, AckInv, DoneHere, EventInv, hubVars, eventVars, doneVars
<1> QED
  BY <1>1, <1>2

LEMMA AckFailedIInv == IInv /\ AckFailed => IInv'
<1> SUFFICES ASSUME IInv, AckFailed PROVE IInv'
  OBVIOUS
<1> USE DEF IInv, At
<1>1. TypeOK'
  <2>1. acks \in Seq(0..Len(packets)) /\ 0 \in 0..Len(packets)
    BY LenProperties DEF TypeOK
  <2>2. acks' \in Seq(0..Len(packets))
    BY <2>1, AppendProperties DEF AckFailed
  <2> QED
    BY <2>2 DEF AckFailed, TypeOK, Byte, hubVars, eventVars, doneVars
<1>2. StreamInv' /\ DoneInv' /\ PacketInv' /\ AckInv' /\ EventInv'
  BY DEF AckFailed, StreamInv, Connected, Upcoming, Stream, Unexecuted, DoneInv,
         PacketInv, AckInv, DoneHere, EventInv, hubVars, eventVars, doneVars
<1> QED
  BY <1>1, <1>2

LEMMA ExecuteIInv == IInv /\ Execute => IInv'
<1> SUFFICES ASSUME IInv, Execute PROVE IInv'
  OBVIOUS
<1> USE DEF IInv, At
<1>1. TypeOK'
  <2>1. done \in Seq(1..Len(packets)) /\ pkt \in 1..Len(packets)
    BY DEF Execute, TypeOK, PacketInv
  <2>2. done' \in Seq(1..Len(packets)) /\ Len(done') = Len(done) + 1
    BY <2>1, AppendProperties DEF Execute
  <2>3. before \in 0..Len(done')
    BY <2>2, <2>1, LenProperties DEF TypeOK
  <2> QED
    BY <2>2, <2>3 DEF Execute, TypeOK, Byte, hubVars, eventVars
<1>2. /\ done' = Append(done, pkt) /\ pc = "handle" /\ pc' = "callback"
      /\ packets' = packets /\ first' = first /\ before' = before
      /\ net' = net /\ buf' = buf /\ pkt' = pkt /\ acks' = acks /\ events' = events
  BY DEF Execute, hubVars, eventVars
<1>3. /\ done \in Seq(1..Len(packets)) /\ pkt \in 1..Len(packets)
      /\ Len(done) \in Nat /\ Len(packets) \in Nat /\ first \in Nat \ {0}
      /\ before \in 0..Len(done) /\ pkt = Unexecuted /\ Good(packets[pkt])
  BY <1>2, LenProperties DEF TypeOK, PacketInv
<1>4. /\ Len(done') = Len(done) + 1 /\ done'[Len(done) + 1] = pkt
      /\ \A i \in 1..Len(done) : done'[i] = done[i] /\ done[i] \in 1..Len(packets)
      /\ DOMAIN done' = 1..(Len(done) + 1) /\ DOMAIN done = 1..Len(done)
  BY <1>2, <1>3, AppendProperties, LenProperties, ElementOfSeq
<1>5. Unexecuted' = Unexecuted + 1 /\ Unexecuted \in Int
  BY <1>2, <1>3, <1>4 DEF Unexecuted
<1>6. StreamInv'
  BY <1>2, <1>5 DEF StreamInv, Connected, Upcoming, Stream
<1>7. DoneInv'
  <2> DEFINE n == Len(done)
  <2>1. /\ \A i \in 1..before : done[i] < first
        /\ \A i \in (before + 1)..n : done[i] = first + i - before - 1
        /\ \A i, j \in 1..n : i < j => done[i] < done[j]
        /\ \A i \in 1..n : Good(packets[done[i]])
    BY DEF DoneInv
  <2>2. /\ n \in Nat /\ before \in 0..n /\ first \in Nat
        /\ pkt = first + n - before /\ pkt \in Nat
        /\ pkt <= Len(packets) /\ Len(packets) \in Nat
    BY <1>3 DEF Unexecuted
  <2>3. /\ done'[n + 1] = pkt
        /\ \A i \in 1..n : done'[i] = done[i] /\ done[i] \in Nat
    BY <1>4
  <2> HIDE DEF n
  <2>4. ASSUME NEW i \in 1..n PROVE done[i] < pkt
    <3>1. CASE i \in 1..before
      BY <2>1, <2>2, <2>3, <3>1
    <3>2. CASE i \in (before + 1)..n
      BY <2>1, <2>2, <3>2
    <3> QED
      BY <2>2, <3>1, <3>2
  <2>5. ASSUME NEW i \in (before + 1)..(n + 1)
        PROVE  done'[i] = first + i - before - 1
    <3>1. CASE i = n + 1
      BY <2>2, <2>3, <3>1
    <3>2. CASE i \in (before + 1)..n
      BY <2>1, <2>2, <2>3, <3>2
    <3> QED
      BY <2>2, <3>1, <3>2
  <2>6. ASSUME NEW i \in 1..(n + 1), NEW j \in 1..(n + 1), i < j
        PROVE  done'[i] < done'[j]
    <3>1. i \in 1..n
      BY <2>2, <2>6
    <3>2. CASE j = n + 1
      BY <2>3, <2>4, <3>1, <3>2
    <3>3. CASE j \in 1..n
      BY <2>1, <2>3, <2>6, <3>1, <3>3
    <3> QED
      BY <2>2, <3>2, <3>3
  <2>7. ASSUME NEW i \in 1..(n + 1) PROVE Good(packets[done'[i]])
    <3>1. CASE i = n + 1
      BY <1>3, <2>3, <3>1
    <3>2. CASE i \in 1..n
      BY <2>1, <2>3, <3>2
    <3> QED
      BY <2>2, <3>1, <3>2
  <2>8. \A i \in 1..before : done'[i] < first
    BY <2>1, <2>2, <2>3
  <2>9. Unexecuted' <= Len(packets) + 1
    BY <1>3, <1>5, <2>2
  <2>10. Len(done') = n + 1
    BY <1>4 DEF n
  <2> QED
    BY <1>2, <2>5, <2>6, <2>7, <2>8, <2>9, <2>10 DEF DoneInv, Good
<1>8. PacketInv'
  BY <1>2, <1>3, <1>4, <1>5 DEF PacketInv
<1>9. AckInv'
  <2>1. DoneHere' = Append(DoneHere, pkt)
    BY <1>2, <1>3, SuffixAppend DEF DoneHere
  <2> QED
    BY <1>2, <2>1 DEF AckInv
<1>10. EventInv'
  <2>1. Range(done) \subseteq Range(done')
    BY <1>3, <1>4 DEF Range
  <2> QED
    BY <1>2, <1>3, <1>5, <2>1, ElementOfSeq DEF EventInv, TypeOK
<1> QED
  BY <1>1, <1>6, <1>7, <1>8, <1>9, <1>10

LEMMA CallbackIInv == IInv /\ Callback => IInv'
<1> SUFFICES ASSUME IInv, Callback PROVE IInv'
  OBVIOUS
<1> USE DEF IInv, At
<1>1. TypeOK'
  <2>1. /\ events \in Seq(0..Len(packets))
        /\ pkt \in 0..Len(packets) /\ 0 \in 0..Len(packets)
    BY LenProperties DEF TypeOK
  <2>2. events' \in Seq(0..Len(packets))
    <3>1. \A e \in {pkt, 0} : Append(events, e) \in Seq(0..Len(packets))
      BY <2>1, AppendProperties
    <3> QED
      BY <2>1, <3>1 DEF Callback, eventVars
  <2> QED
    BY <2>2 DEF Callback, TypeOK, Byte, hubVars, doneVars
<1>2. EventInv'
  <2>1. /\ events \in Seq(0..Len(packets)) /\ pkt \in 0..Len(packets)
        /\ Len(packets) \in Nat /\ Len(events) \in Nat /\ 0 \in 0..Len(packets)
        /\ done \in Seq(1..Len(packets)) /\ Len(done) \in Nat /\ before \in 0..Len(done)
        /\ first \in Int
    BY LenProperties DEF TypeOK
  <2>2. \A i \in 1..Len(events) : events[i] \in 0..Len(packets)
    BY <2>1, ElementOfSeq
  <2>3. pkt = done[Len(done)] /\ pkt = Unexecuted - 1 /\ Len(done) \in DOMAIN done
    BY <2>1, LenProperties DEF Callback, PacketInv
  <2>4. pkt \in Range(done) /\ pkt < Unexecuted /\ Unexecuted \in Int
    <3>1. Unexecuted \in Int
      BY <2>1 DEF Unexecuted
    <3>2. pkt \in Range(done)
      BY <2>3, Zenon DEF Range
    <3> QED
      BY <2>1, <2>3, <3>1, <3>2
  <2>5. /\ done' = done /\ Unexecuted' = Unexecuted /\ pc' = "parse"
        /\ pc = "callback"
    BY DEF Callback, Unexecuted, hubVars, doneVars
  <2>6. CASE events' = events
    BY <2>5, <2>6 DEF EventInv
  <2>7. ASSUME NEW e \in {pkt, 0}, events' = Append(events, e)
        PROVE  EventInv'
    <3>1. /\ Len(events') = Len(events) + 1 /\ events'[Len(events) + 1] = e
          /\ \A i \in 1..Len(events) : events'[i] = events[i]
      BY <2>1, <2>7, AppendProperties
    <3>2. \A i \in 1..Len(events') :
            events'[i] > 0 => events'[i] \in Range(done) /\ events'[i] < Unexecuted
      <4> SUFFICES ASSUME NEW i \in 1..(Len(events) + 1), events'[i] > 0
                   PROVE  events'[i] \in Range(done) /\ events'[i] < Unexecuted
        BY <3>1
      <4>1. CASE i \in 1..Len(events)
        BY <3>1, <4>1 DEF EventInv
      <4>2. CASE i = Len(events) + 1
        BY <2>1, <2>4, <2>7, <3>1, <4>2
      <4> QED
        BY <2>1, <4>1, <4>2
    <3>3. \A i, j \in 1..Len(events') :
            i < j /\ events'[i] > 0 /\ events'[j] > 0 => events'[i] < events'[j]
      <4> SUFFICES ASSUME NEW i \in 1..(Len(events) + 1),
                          NEW j \in 1..(Len(events) + 1),
                          i < j, events'[i] > 0, events'[j] > 0
                   PROVE  events'[i] < events'[j]
        BY <3>1
      <4>1. i \in 1..Len(events)
        BY <2>1
      <4>2. CASE j \in 1..Len(events)
        <5>1. /\ events'[i] = events[i] /\ events'[j] = events[j]
              /\ events[i] > 0 /\ events[j] > 0
          BY <3>1, <4>1, <4>2
        <5>2. events[i] < events[j]
          BY <4>1, <4>2, <5>1 DEF EventInv
        <5> QED
          BY <5>1, <5>2
      <4>3. CASE j = Len(events) + 1
        <5>1. events[i] < pkt /\ e = pkt
          BY <2>1, <2>5, <2>7, <3>1, <4>1, <4>3 DEF EventInv
        <5> QED
          BY <3>1, <4>1, <4>3, <5>1
      <4>4. j \in 1..Len(events) \/ j = Len(events) + 1
        <5>1. Len(events) \in Nat
          BY <2>1
        <5> QED
          BY <5>1
      <4> QED
        BY <4>2, <4>3, <4>4
    <3> QED
      BY <2>5, <3>2, <3>3 DEF EventInv
  <2> QED
    BY <2>6, <2>7 DEF Callback
<1>3. StreamInv' /\ DoneInv' /\ PacketInv' /\ AckInv'
  BY DEF Callback, StreamInv, Connected, Upcoming, Stream, Unexecuted, DoneInv,
         PacketInv, AckInv, DoneHere, hubVars, doneVars
<1> QED
  BY <1>1, <1>2, <1>3

LEMMA CloseIInv == IInv /\ Close => IInv'
<1> SUFFICES ASSUME IInv, Close PROVE IInv'
  OBVIOUS
<1> USE DEF IInv, At
<1>1. TypeOK'
  <2>1. open' \in BOOLEAN
    BY Zenon DEF Close
  <2> QED
    BY <2>1 DEF Close, TypeOK, Byte, hubVars, eventVars, doneVars
<1>2. AckInv'
  BY DEF Close, AckInv, DoneHere, doneVars
<1>3. StreamInv' /\ DoneInv' /\ PacketInv' /\ EventInv'
  BY DEF Close, StreamInv, Connected, Unexecuted, DoneInv, PacketInv, EventInv,
         eventVars, doneVars
<1> QED
  BY <1>1, <1>2, <1>3

LEMMA NextIInv == IInv /\ [Next]_vars => IInv'
<1> SUFFICES ASSUME IInv, [Next]_vars PROVE IInv'
  OBVIOUS
<1>1. CASE Next
  <2>1. CASE Hub
    BY <2>1, HubSendsIInv, HubClosesIInv DEF Hub
  <2>2. CASE EventClient
    BY <2>2, EventClosesIInv, EventResetsIInv, EventConnectsIInv DEF EventClient
  <2>3. CASE CommandClient
    BY <2>3, ConnectIInv, ReadIInv, LostIInv, WaitIInv, RefuseIInv, TakeIInv,
       AckIInv, AckFailedIInv, ExecuteIInv, CallbackIInv, CloseIInv
       DEF CommandClient
  <2> QED
    BY <1>1, <2>1, <2>2, <2>3 DEF Next
<1>2. CASE UNCHANGED vars
  <2> USE <1>2 DEF vars, hubVars, eventVars, doneVars, IInv
  <2>1. TypeOK'
    BY DEF TypeOK, Byte
  <2>2. StreamInv' /\ DoneInv' /\ PacketInv'
    BY DEF StreamInv, Connected, Upcoming, Stream, Unexecuted, DoneInv, PacketInv
  <2>3. AckInv' /\ EventInv'
    BY DEF AckInv, DoneHere, EventInv, Unexecuted
  <2> QED
    BY <2>1, <2>2, <2>3
<1> QED
  BY <1>1, <1>2

-----------------------------------------------------------------------------
(* The inductive invariant holds in every reachable state.                 *)
THEOREM Invariance == Spec => []IInv
<1>1. Init => IInv
  BY InitIInv
<1>2. IInv /\ [Next]_vars => IInv'
  BY NextIInv
<1> QED
  BY <1>1, <1>2, PTL DEF Spec

(* Types, and that between two reads incoming_buffer holds less than the   *)
(* longest packet, whatever the hub sends and however the stream is cut.   *)
THEOREM TypeCorrect == Spec => []TypeOK
<1>1. IInv => TypeOK
  BY DEF IInv
<1> QED
  BY <1>1, Invariance, PTL

(* The commands executed on a connection are the first ones the hub sent   *)
(* on it, each once and in order, all of them well formed, and no command  *)
(* is executed again after a new connection.                               *)
THEOREM ExecutesOnlyPrefix == Spec => []ExecutesPrefix
<1>1. IInv => ExecutesPrefix
  <2> SUFFICES ASSUME IInv PROVE ExecutesPrefix
    OBVIOUS
  <2> USE DEF IInv
  <2>1. /\ done \in Seq(1..Len(packets)) /\ before \in 0..Len(done)
        /\ Len(done) \in Nat /\ DOMAIN done = 1..Len(done) /\ first \in Int
    BY LenProperties DEF TypeOK
  <2>2. /\ DoneHere \in Seq(1..Len(packets))
        /\ Len(DoneHere) = Len(done) - before
        /\ \A i \in 1..(Len(done) - before) : DoneHere[i] = done[i + before]
    BY <2>1, SuffixValue DEF DoneHere
  <2>3. DOMAIN DoneHere = 1..(Len(done) - before)
    BY <2>2, LenProperties
  <2>4. ASSUME NEW i \in DOMAIN DoneHere
        PROVE  DoneHere[i] = first + i - 1
    <3>0. i \in 1..(Len(done) - before)
      BY <2>3
    <3>1. DoneHere[i] = done[i + before] /\ i + before \in (before + 1)..Len(done)
      <4>1. DoneHere[i] = done[i + before]
        BY <2>2, <3>0
      <4>2. before \in Nat /\ Len(done) \in Nat
        BY <2>1
      <4>3. i + before \in (before + 1)..Len(done)
        BY <3>0, <4>2
      <4> QED
        BY <4>1, <4>3
    <3>2. done[i + before] = first + (i + before) - before - 1
      BY <3>1 DEF DoneInv
    <3> QED
      BY <2>1, <3>0, <3>1, <3>2
  <2> QED
    BY <2>1, <2>4 DEF ExecutesPrefix, DoneInv
<1> QED
  BY <1>1, Invariance, PTL

(* An acknowledgement is sent for each command that is executed and for no *)
(* other, before it, and nothing follows one that was cut.                 *)
THEOREM AcksMatchDone == Spec => []AcksMatch
<1>1. IInv => AcksMatch
  BY DEF IInv, AckInv, AcksMatch, TypeOK
<1> QED
  BY <1>1, Invariance, PTL

(* A whole CALLBACK names a command that ended, and none comes twice or    *)
(* before that of an earlier command, over any number of connections.      *)
THEOREM CallbacksAfterEnd == Spec => []CallbackAfterEnd
<1>1. IInv => CallbackAfterEnd
  <2> SUFFICES ASSUME IInv PROVE CallbackAfterEnd
    OBVIOUS
  <2> USE DEF IInv
  <2>1. events \in Seq(0..Len(packets)) /\ DOMAIN events = 1..Len(events)
    BY LenProperties DEF TypeOK
  <2>2. /\ \A i \in 1..Len(events) : events[i] > 0 => events[i] \in Range(done)
        /\ \A i, j \in 1..Len(events) :
             i < j /\ events[i] > 0 /\ events[j] > 0 => events[i] < events[j]
    BY DEF EventInv
  <2> QED
    BY <2>1, <2>2 DEF CallbackAfterEnd
<1> QED
  BY <1>1, Invariance, PTL
=============================================================================
