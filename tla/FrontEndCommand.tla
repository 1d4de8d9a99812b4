-------------------------- MODULE FrontEndCommand --------------------------
(***************************************************************************)
(* A command to the front end: sendCommand() of a script (daqd.py), which  *)
(* numbers each try and tries again, Client::doCommandToFrontEnd and       *)
(* UDPFrameServer::sendCommand of the DAQ loop, which send the try over    *)
(* UDP and wait 250 ms for a reply with its number, and the worker, which  *)
(* queues the replies while an acquisition runs.                           *)
(*                                                                         *)
(* A datagram may be lost or come late, after the wait for it was given up.*)
(* Late replies stay in the socket's buffer or in replyQueue, across       *)
(* commands, acquisitions and scripts.  A try is told from others by id,   *)
(* which the code does not have: its place in the order of all tries.      *)
(*                                                                         *)
(* Of the front end it is assumed that a reply has the 18 bytes of a number*)
(* at least: the wait passes over one of less than 2 (UDPFrameServer.cpp:  *)
(* 257), but one of 2 to 17 is handed to the script, which goes on without *)
(* reading it (daqd.py:816) and takes its bytes for the next answer.       *)
(***************************************************************************)
EXTENDS Integers, Sequences

CONSTANTS
  Window,       (* how many serial numbers there are: 0x7FFF + 1           *)
  MaxTries,     (* maxTries                                                *)
  MaxTotal      (* tries in all, a bound                                   *)

ASSUME FrontEndAssumption ==
  /\ Window \in Nat /\ Window >= 2
  /\ MaxTries \in Nat /\ MaxTries >= 1
  /\ MaxTotal \in Nat

VARIABLES
  script,       (* "idle", "try": about to send, "wait": for the answer    *)
  lastSN,       (* __lastSN, the number of the next try                    *)
  nTries,       (* nTries of the command                                   *)
  sentSN,       (* sentSN in the DAQ loop                                  *)
  acquiring,    (* hasWorker                                               *)
  net,          (* tries on their way to the front end and back            *)
  inbox,        (* replies in the buffer of udpSocket                      *)
  replyQueue,   (* replies queued by the worker                            *)
  tries,        (* the id of the last try                                  *)
  firstTry,     (* the id of the first try of this script                  *)
  answer        (* the id of the try whose reply was returned last         *)

scriptVars == <<script, lastSN, nTries, firstTry>>
serverVars == <<sentSN, acquiring, inbox, replyQueue>>
vars == <<scriptVars, serverVars, net, tries, answer>>

Messages == [id : 1..tries, sn : 0..Window-1]

-----------------------------------------------------------------------------
(* Mutated form of NextSN: the number is not masked.                       *)
NextSNUnmasked(sn) == sn + 1

NextSN(sn) == (sn + 1) % Window

(* A new script draws its first number, from all but the last.             *)
NewScript ==
  /\ script = "idle"
  /\ tries < MaxTotal
  /\ lastSN' \in 0..Window-2
  /\ firstTry' = tries + 1
  /\ UNCHANGED <<script, nTries, serverVars, net, tries, answer>>

StartCommand ==
  /\ script = "idle"
  /\ tries + MaxTries <= MaxTotal
  /\ script' = "try"
  /\ nTries' = 0
  /\ UNCHANGED <<lastSN, firstTry, serverVars, net, tries, answer>>

Try ==
  /\ script = "try"
  /\ script' = "wait"
  /\ nTries' = nTries + 1
  /\ tries' = tries + 1
  /\ sentSN' = lastSN
  /\ lastSN' = NextSN(lastSN)
  /\ net' = net \cup {[id |-> tries + 1, sn |-> lastSN]}
  /\ UNCHANGED <<firstTry, acquiring, inbox, replyQueue, answer>>

(* The front end does what it is asked, and its reply, which repeats the   *)
(* number, arrives.                                                        *)
FrontEndReplies ==
  /\ \E m \in net : /\ net' = net \ {m}
                    /\ inbox' = Append(inbox, m)
  /\ UNCHANGED <<scriptVars, sentSN, acquiring, replyQueue, tries, answer>>

(* A reply received by the worker.                                         *)
WorkerQueues ==
  /\ acquiring
  /\ inbox # <<>>
  /\ inbox' = Tail(inbox)
  /\ replyQueue' = Append(replyQueue, Head(inbox))
  /\ UNCHANGED <<scriptVars, sentSN, acquiring, net, tries, answer>>

(* While it acquires, the DAQ loop looks for replies in the queue only,    *)
(* otherwise on the socket only.                                           *)
Waiting == IF acquiring THEN replyQueue ELSE inbox

Consume ==
  /\ Waiting # <<>>
  /\ IF acquiring
     THEN replyQueue' = Tail(replyQueue) /\ UNCHANGED inbox
     ELSE inbox' = Tail(inbox) /\ UNCHANGED replyQueue

(* Mutated form of Accept: the reply's number is not looked at.            *)
AcceptAny ==
  /\ script = "wait"
  /\ Consume
  /\ script' = "idle"
  /\ answer' = Head(Waiting).id
  /\ UNCHANGED <<lastSN, nTries, firstTry, sentSN, acquiring, net, tries>>

Accept ==
  /\ script = "wait"
  /\ Consume
  /\ Head(Waiting).sn = sentSN
  /\ script' = "idle"
  /\ answer' = Head(Waiting).id
  /\ UNCHANGED <<lastSN, nTries, firstTry, sentSN, acquiring, net, tries>>

Mismatch ==
  /\ script = "wait"
  /\ Consume
  /\ Head(Waiting).sn # sentSN
  /\ UNCHANGED <<scriptVars, sentSN, acquiring, net, tries, answer>>

(* Mutated form of TimedOut: the wait on condReplyQueue has no time limit. *)
TimedOutDirect ==
  /\ script = "wait"
  /\ ~acquiring
  /\ script' = IF nTries < MaxTries THEN "try" ELSE "idle"
  /\ UNCHANGED <<lastSN, nTries, firstTry, serverVars, net, tries, answer>>

(* 250 ms went by without a reply.  On the socket a data frame in front of *)
(* the reply will do.  The script tries again or raises CommandErrorTimeout*)
TimedOut ==
  /\ script = "wait"
  /\ acquiring => replyQueue = <<>>
  /\ script' = IF nTries < MaxTries THEN "try" ELSE "idle"
  /\ UNCHANGED <<lastSN, nTries, firstTry, serverVars, net, tries, answer>>

(* A start or a stop of the acquisition: no reply is discarded.            *)
SetAcquisition ==
  /\ script = "idle"
  /\ acquiring' = ~acquiring
  /\ UNCHANGED <<scriptVars, sentSN, inbox, replyQueue, net, tries, answer>>

-----------------------------------------------------------------------------
Init ==
  /\ script = "idle"
  /\ lastSN \in 0..Window-2
  /\ nTries = 0
  /\ sentSN = 0
  /\ acquiring = FALSE
  /\ net = {}
  /\ inbox = <<>>
  /\ replyQueue = <<>>
  /\ tries = 0
  /\ firstTry = 1
  /\ answer = 0

DaqLoop == Accept \/ Mismatch \/ TimedOut

Next ==
  \/ NewScript \/ StartCommand \/ Try \/ SetAcquisition
  \/ FrontEndReplies \/ WorkerQueues \/ DaqLoop

Spec == Init /\ [][Next]_vars

(* The script and the DAQ loop go on; nothing is assumed of the front end. *)
FairSpec == Spec /\ WF_vars(Try) /\ WF_vars(DaqLoop)

-----------------------------------------------------------------------------
TypeOK ==
  /\ script \in {"idle", "try", "wait"}
  /\ lastSN \in 0..Window-1
  /\ nTries \in 0..MaxTries
  /\ sentSN \in 0..Window-1
  /\ acquiring \in BOOLEAN
  /\ tries \in Nat
  /\ firstTry \in 1..tries+1
  /\ answer \in 0..tries
  /\ net \subseteq Messages
  /\ inbox \in Seq(Messages)
  /\ replyQueue \in Seq(Messages)

(* sendCommand compares the serial numbers only, and late replies are never*)
(* thrown away: a reply is taken for the answer to another try only when   *)
(* that try was of an earlier script or at least Window tries ago.         *)
WrongAnswerOnlyWhenReused ==
  [][ script = "wait" /\ script' = "idle" /\ answer' # answer
        => \/ answer' = tries
           \/ answer' < firstTry
           \/ tries - answer' >= Window ]_vars

(* sendCommand() of the script comes to an end, with a reply or with       *)
(* CommandErrorTimeout, whatever is lost and whatever comes late.          *)
CommandReturns ==
  script # "idle" ~> script = "idle"
=============================================================================
