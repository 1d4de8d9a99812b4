----------------------- MODULE FrontEndCommandProofs -----------------------
(***************************************************************************)
(* Proofs about FrontEndCommand for every number of serial numbers, tries  *)
(* and scripts: its types, and that a reply is taken for the answer to     *)
(* another try only when the number was drawn again by a later script or   *)
(* all numbers were used in between.                                       *)
(*                                                                         *)
(* The invariant ties the serial number of each message on its way to the  *)
(* number of the next try: they differ by the tries since, modulo Window,  *)
(* as long as these are of one script and not more than Window.            *)
(***************************************************************************)
EXTENDS FrontEndCommand, SequenceTheorems, TLAPS

USE FrontEndAssumption

(* The messages of a sequence.                                             *)
In(s) == {s[i] : i \in 1..Len(s)}

(* The number m.sn is that of the try m.id, counted back from the next try.*)
Numbered(m) ==
  m.id >= firstTry /\ tries + 1 - m.id <= Window =>
    \/ lastSN = m.sn + (tries + 1 - m.id)
    \/ lastSN = m.sn + (tries + 1 - m.id) - Window

NumbersInv == \A m \in net \cup In(inbox) \cup In(replyQueue) : Numbered(m)

TryInv == script = "try" => nTries < MaxTries

SentInv ==
  script = "wait" => \/ lastSN = sentSN + 1
                     \/ lastSN = sentSN + 1 - Window

IInv == TypeOK /\ TryInv /\ SentInv /\ NumbersInv

-----------------------------------------------------------------------------
(* The mask counts one further, and starts again at zero.                  *)
LEMMA NextSNValue ==
  ASSUME NEW sn \in 0..Window-1
  PROVE  /\ NextSN(sn) = IF sn = Window - 1 THEN 0 ELSE sn + 1
         /\ NextSN(sn) \in 0..Window-1
<1>1. CASE sn = Window - 1
  <2>1. sn + 1 = 1 * Window
    BY <1>1
  <2>2. (sn + 1) % Window = 0
    BY <2>1
  <2> QED
    BY <1>1, <2>2 DEF NextSN
<1>2. CASE sn # Window - 1
  <2>1. (sn + 1) % Window = sn + 1
    BY <1>2
  <2> QED
    BY <1>2, <2>1 DEF NextSN
<1> QED
  BY <1>1, <1>2

(* What Append and Tail hold.                                              *)
LEMMA AppendIn ==
  ASSUME NEW S, NEW s \in Seq(S), NEW m \in S
  PROVE  /\ Append(s, m) \in Seq(S)
         /\ In(Append(s, m)) \subseteq In(s) \cup {m}
<1>1. Append(s, m) \in Seq(S) /\ Len(Append(s, m)) = Len(s) + 1
  OBVIOUS
<1>2. \A i \in 1..Len(s) + 1 : Append(s, m)[i] = IF i = Len(s) + 1 THEN m ELSE s[i]
  OBVIOUS
<1>3. ASSUME NEW i \in 1..Len(s) + 1
      PROVE  Append(s, m)[i] \in In(s) \cup {m}
  <2>1. CASE i = Len(s) + 1
    BY <1>2, <2>1
  <2>2. CASE i # Len(s) + 1
    <3>1. i \in 1..Len(s)
      BY <2>2, LenProperties
    <3> QED
      BY <1>2, <2>2, <3>1 DEF In
  <2> QED
    BY <2>1, <2>2
<1> QED
  BY <1>1, <1>3 DEF In

LEMMA TailIn ==
  ASSUME NEW S, NEW s \in Seq(S), s # <<>>
  PROVE  /\ Head(s) \in S /\ Head(s) \in In(s)
         /\ Tail(s) \in Seq(S)
         /\ In(Tail(s)) \subseteq In(s)
<1>1. /\ Len(s) \in Nat \ {0} /\ Head(s) = s[1] /\ Head(s) \in S
      /\ Tail(s) \in Seq(S) /\ Len(Tail(s)) = Len(s) - 1
  OBVIOUS
<1>2. \A i \in 1..Len(s) - 1 : Tail(s)[i] = s[i + 1] /\ i + 1 \in 1..Len(s)
  BY <1>1
<1>3. 1 \in 1..Len(s)
  BY <1>1
<1> QED
  BY <1>1, <1>2, <1>3 DEF In

-----------------------------------------------------------------------------
(* Messages keep their numbers while no try is made and no script begins.  *)
LEMMA NumbersKept ==
  ASSUME NumbersInv, UNCHANGED <<tries, firstTry, lastSN>>,
         net' \cup In(inbox') \cup In(replyQueue')
           \subseteq net \cup In(inbox) \cup In(replyQueue)
  PROVE  NumbersInv'
<1>1. ASSUME NEW m \in net' \cup In(inbox') \cup In(replyQueue') PROVE Numbered(m)'
  <2>1. Numbered(m)
    BY DEF NumbersInv
  <2> QED
    BY <2>1 DEF Numbered
<1> QED
  BY <1>1 DEF NumbersInv, In

(* The message taken by the DAQ loop, and what stays.                      *)
LEMMA ConsumeIn ==
  ASSUME TypeOK, Consume
  PROVE  /\ inbox' \in Seq(Messages) /\ replyQueue' \in Seq(Messages)
         /\ In(inbox') \cup In(replyQueue') \subseteq In(inbox) \cup In(replyQueue)
         /\ Head(Waiting) \in Messages
         /\ Head(Waiting) \in In(inbox) \cup In(replyQueue)
<1>1. inbox \in Seq(Messages) /\ replyQueue \in Seq(Messages)
  BY DEF TypeOK
<1>2. CASE acquiring
  <2>1. /\ Waiting = replyQueue /\ replyQueue # <<>>
        /\ replyQueue' = Tail(replyQueue) /\ inbox' = inbox
    BY <1>2 DEF Consume, Waiting
  <2> QED
    BY <1>1, <2>1, TailIn, Zenon
<1>3. CASE ~acquiring
  <2>1. /\ Waiting = inbox /\ inbox # <<>>
        /\ inbox' = Tail(inbox) /\ replyQueue' = replyQueue
    BY <1>3 DEF Consume, Waiting
  <2> QED
    BY <1>1, <2>1, TailIn, Zenon
<1> QED
  BY <1>2, <1>3

-----------------------------------------------------------------------------
LEMMA InitIInv == Init => IInv
<1> SUFFICES ASSUME Init PROVE IInv
  OBVIOUS
<1>1. inbox \in Seq(Messages) /\ replyQueue \in Seq(Messages)
  BY DEF Init
<1>2. In(inbox) = {} /\ In(replyQueue) = {}
  BY DEF Init, In
<1>3. TypeOK
  <2>1. acquiring \in BOOLEAN /\ script \in {"idle", "try", "wait"} /\ net \subseteq Messages
    BY Zenon DEF Init
  <2>2. /\ lastSN \in 0..Window-1 /\ nTries \in 0..MaxTries /\ sentSN \in 0..Window-1
        /\ tries \in Nat /\ firstTry \in 1..tries+1 /\ answer \in 0..tries
    BY SMT DEF Init
  <2> QED
    BY <1>1, <2>1, <2>2 DEF TypeOK
<1> QED
  BY <1>2, <1>3 DEF Init, IInv, TryInv, SentInv, NumbersInv

(* A try: the new message has the number before the next one, and the      *)
(* others are one try further behind it.                                   *)
LEMMA TryIInv == IInv /\ Try => IInv'
<1> SUFFICES ASSUME IInv, Try PROVE IInv'
  OBVIOUS
<1> USE DEF IInv
<1>1. /\ script = "try" /\ script' = "wait" /\ nTries' = nTries + 1
      /\ tries' = tries + 1 /\ sentSN' = lastSN /\ lastSN' = NextSN(lastSN)
      /\ net' = net \cup {[id |-> tries + 1, sn |-> lastSN]}
      /\ UNCHANGED <<firstTry, acquiring, inbox, replyQueue, answer>>
  BY DEF Try
<1>2. /\ nTries < MaxTries /\ nTries \in 0..MaxTries
      /\ lastSN \in 0..Window-1 /\ tries \in Nat /\ firstTry \in 1..tries+1
      /\ answer \in 0..tries
  BY <1>1 DEF TypeOK, TryInv
<1>3. /\ lastSN' = IF lastSN = Window - 1 THEN 0 ELSE lastSN + 1
      /\ lastSN' \in 0..Window-1
  BY <1>1, <1>2, NextSNValue
<1>4. Messages \subseteq Messages'
  BY <1>1, <1>2 DEF Messages
<1>5. [id |-> tries + 1, sn |-> lastSN] \in Messages'
  BY <1>1, <1>2 DEF Messages
<1>6. TypeOK'
  <2>1. net' \subseteq Messages'
    BY <1>1, <1>4, <1>5 DEF TypeOK
  <2>2. inbox' \in Seq(Messages') /\ replyQueue' \in Seq(Messages')
    BY <1>1, <1>4, SeqMonotonic DEF TypeOK
  <2>3. /\ script' \in {"idle", "try", "wait"} /\ acquiring' \in BOOLEAN
    BY <1>1 DEF TypeOK
  <2>4. /\ nTries' \in 0..MaxTries /\ lastSN' \in 0..Window-1 /\ sentSN' \in 0..Window-1
        /\ tries' \in Nat /\ firstTry' \in 1..tries'+1 /\ answer' \in 0..tries'
    BY <1>1, <1>2, <1>3
  <2> QED
    BY <2>1, <2>2, <2>3, <2>4 DEF TypeOK
<1>7. NumbersInv'
  <2>1. ASSUME NEW m \in net \cup In(inbox) \cup In(replyQueue) PROVE Numbered(m)'
    <3>1. m \in Messages
      BY DEF TypeOK, In
    <3>2. m.id \in 1..tries /\ m.sn \in 0..Window-1
      BY <3>1 DEF Messages
    <3>3. Numbered(m)
      BY DEF NumbersInv
    <3> QED
      BY <1>1, <1>2, <1>3, <3>2, <3>3 DEF Numbered
  <2>2. ASSUME NEW m \in net' \cup In(inbox') \cup In(replyQueue') PROVE Numbered(m)'
    <3>1. \/ m \in net \cup In(inbox) \cup In(replyQueue)
          \/ m = [id |-> tries + 1, sn |-> lastSN]
      BY <1>1
    <3>2. ASSUME m = [id |-> tries + 1, sn |-> lastSN] PROVE Numbered(m)'
      BY <1>1, <1>2, <1>3, <3>2 DEF Numbered
    <3> QED
      BY <2>1, <3>1, <3>2
  <2> QED
    BY <2>2 DEF NumbersInv, In
<1>8. SentInv'
  BY <1>1, <1>2, <1>3 DEF SentInv
<1> QED
  BY <1>1, <1>6, <1>7, <1>8 DEF TryInv

(* The steps that make no try and begin no script.                         *)
LEMMA NextIInv == IInv /\ [Next]_vars => IInv'
<1> SUFFICES ASSUME IInv, [Next]_vars PROVE IInv'
  OBVIOUS
<1> USE DEF IInv
<1>1. CASE NewScript
  <2>1. /\ script = "idle" /\ lastSN' \in 0..Window-2 /\ firstTry' = tries + 1
        /\ UNCHANGED <<script, nTries, serverVars, net, tries, answer>>
    BY <1>1 DEF NewScript
  <2>2. TypeOK'
    BY <2>1 DEF TypeOK, serverVars, Messages
  <2>3. ASSUME NEW m \in net' \cup In(inbox') \cup In(replyQueue') PROVE Numbered(m)'
    <3>1. m \in Messages /\ tries \in Nat
      BY <2>1 DEF TypeOK, In, serverVars
    <3> QED
      BY <2>1, <3>1 DEF Numbered, Messages
  <2> QED
    BY <2>1, <2>2, <2>3 DEF TryInv, SentInv, NumbersInv, In
<1>2. CASE StartCommand
  <2>1. /\ script' = "try" /\ nTries' = 0
        /\ UNCHANGED <<lastSN, firstTry, serverVars, net, tries, answer>>
    BY <1>2 DEF StartCommand
  <2>2. NumbersInv'
    BY <2>1, NumbersKept DEF serverVars
  <2>3. TypeOK'
    BY <2>1 DEF TypeOK, serverVars, Messages
  <2> QED
    BY <2>1, <2>2, <2>3 DEF TryInv, SentInv
<1>3. CASE Try
  BY <1>3, TryIInv
<1>4. CASE SetAcquisition
  <2>1. UNCHANGED <<scriptVars, sentSN, inbox, replyQueue, net, tries, answer>>
    BY <1>4 DEF SetAcquisition
  <2>2. acquiring' \in BOOLEAN
    BY <1>4, Zenon DEF SetAcquisition
  <2>3. NumbersInv'
    BY <2>1, NumbersKept DEF scriptVars
  <2>4. TypeOK'
    BY <2>1, <2>2 DEF TypeOK, scriptVars, Messages
  <2> QED
    BY <2>1, <2>3, <2>4 DEF TryInv, SentInv, scriptVars
<1>5. CASE FrontEndReplies
  <2>1. PICK m \in net : net' = net \ {m} /\ inbox' = Append(inbox, m)
    BY <1>5 DEF FrontEndReplies
  <2>2. UNCHANGED <<scriptVars, sentSN, acquiring, replyQueue, tries, answer>>
    BY <1>5 DEF FrontEndReplies
  <2>3. m \in Messages /\ inbox \in Seq(Messages)
    BY DEF TypeOK
  <2>4. inbox' \in Seq(Messages) /\ In(inbox') \subseteq In(inbox) \cup {m}
    BY <2>1, <2>3, AppendIn
  <2>5. NumbersInv'
    BY <2>1, <2>2, <2>4, NumbersKept DEF scriptVars
  <2>6. TypeOK'
    BY <2>1, <2>2, <2>4 DEF TypeOK, scriptVars, Messages
  <2> QED
    BY <2>2, <2>5, <2>6 DEF TryInv, SentInv, scriptVars
<1>6. CASE WorkerQueues
  <2>1. /\ inbox # <<>> /\ inbox' = Tail(inbox)
        /\ replyQueue' = Append(replyQueue, Head(inbox))
        /\ UNCHANGED <<scriptVars, sentSN, acquiring, net, tries, answer>>
    BY <1>6 DEF WorkerQueues
  <2>2. inbox \in Seq(Messages) /\ replyQueue \in Seq(Messages)
    BY DEF TypeOK
  <2>3. /\ inbox' \in Seq(Messages) /\ In(inbox') \subseteq In(inbox)
        /\ Head(inbox) \in Messages /\ Head(inbox) \in In(inbox)
    BY <2>1, <2>2, TailIn
  <2>4. /\ replyQueue' \in Seq(Messages)
        /\ In(replyQueue') \subseteq In(replyQueue) \cup {Head(inbox)}
    BY <2>1, <2>2, <2>3, AppendIn
  <2>5. NumbersInv'
    BY <2>1, <2>3, <2>4, NumbersKept DEF scriptVars
  <2>6. TypeOK'
    BY <2>1, <2>3, <2>4 DEF TypeOK, scriptVars, Messages
  <2> QED
    BY <2>1, <2>5, <2>6 DEF TryInv, SentInv, scriptVars
<1>7. CASE Accept
  <2>1. /\ Consume /\ script' = "idle" /\ answer' = Head(Waiting).id
        /\ UNCHANGED <<lastSN, nTries, firstTry, sentSN, acquiring, net, tries>>
    BY <1>7 DEF Accept
  <2>2. /\ inbox' \in Seq(Messages) /\ replyQueue' \in Seq(Messages)
        /\ In(inbox') \cup In(replyQueue') \subseteq In(inbox) \cup In(replyQueue)
        /\ Head(Waiting) \in Messages
    BY <2>1, ConsumeIn
  <2>3. NumbersInv'
    BY <2>1, <2>2, NumbersKept
  <2>4. answer' \in 0..tries /\ tries \in Nat
    BY <2>1, <2>2 DEF TypeOK, Messages
  <2>5. TypeOK'
    BY <2>1, <2>2, <2>4 DEF TypeOK, Messages
  <2> QED
    BY <2>1, <2>3, <2>5 DEF TryInv, SentInv
<1>8. CASE Mismatch
  <2>1. /\ Consume
        /\ UNCHANGED <<scriptVars, sentSN, acquiring, net, tries, answer>>
    BY <1>8 DEF Mismatch
  <2>2. /\ inbox' \in Seq(Messages) /\ replyQueue' \in Seq(Messages)
        /\ In(inbox') \cup In(replyQueue') \subseteq In(inbox) \cup In(replyQueue)
    BY <2>1, ConsumeIn
  <2>3. NumbersInv'
    BY <2>1, <2>2, NumbersKept DEF scriptVars
  <2>4. TypeOK'
    BY <2>1, <2>2 DEF TypeOK, scriptVars, Messages
  <2> QED
    BY <2>1, <2>3, <2>4 DEF TryInv, SentInv, scriptVars
<1>9. CASE TimedOut
  <2>1. /\ script' = IF nTries < MaxTries THEN "try" ELSE "idle"
        /\ UNCHANGED <<lastSN, nTries, firstTry, serverVars, net, tries, answer>>
    BY <1>9 DEF TimedOut
  <2>2. NumbersInv'
    BY <2>1, NumbersKept DEF serverVars
  <2>3. TypeOK'
    BY <2>1 DEF TypeOK, serverVars, Messages
  <2> QED
    BY <2>1, <2>2, <2>3 DEF TryInv, SentInv
<1>10. CASE UNCHANGED vars
  <2>1. NumbersInv'
    BY <1>10, NumbersKept DEF vars, scriptVars, serverVars
  <2>2. TypeOK'
    BY <1>10 DEF vars, scriptVars, serverVars, TypeOK, Messages
  <2> QED
    BY <1>10, <2>1, <2>2 DEF vars, scriptVars, serverVars, TryInv, SentInv
<1> QED
  BY <1>1, <1>2, <1>3, <1>4, <1>5, <1>6, <1>7, <1>8, <1>9, <1>10
     DEF Next, DaqLoop

(* The inductive invariant holds in every behaviour.                       *)
THEOREM Invariance == Spec => []IInv
  BY InitIInv, NextIInv, PTL DEF Spec

(* The state keeps its types: the serial numbers stay below Window, a      *)
(* command is tried at most maxTries times, and no answer, queued or on its*)
(* way, is to a try that was not made.                                     *)
THEOREM TypeCorrect == Spec => []TypeOK
<1>1. IInv => TypeOK
  BY DEF IInv
<1> QED
  BY <1>1, Invariance, PTL

-----------------------------------------------------------------------------
(* The comparison of the serial numbers in sendCommand: a reply is taken   *)
(* for the answer to another try only when that try was of an earlier      *)
(* script, or so long ago that all numbers were used since.                *)
THEOREM AnswersMatch == Spec => WrongAnswerOnlyWhenReused
<1>1. ASSUME IInv, Next, script = "wait", script' = "idle", answer' # answer
      PROVE  \/ answer' = tries
             \/ answer' < firstTry
             \/ tries - answer' >= Window
  <2> USE <1>1
  <2>1. Accept
    BY DEF Next, NewScript, StartCommand, Try, SetAcquisition, FrontEndReplies,
           WorkerQueues, DaqLoop, Mismatch, TimedOut, scriptVars
  <2> DEFINE m == Head(Waiting)
  <2>2. m \in Messages /\ m \in In(inbox) \cup In(replyQueue)
    BY <2>1, ConsumeIn DEF Accept, IInv
  <2>3. /\ m.sn = sentSN /\ answer' = m.id
        /\ m.id \in 1..tries /\ m.sn \in 0..Window-1
    BY <2>1, <2>2 DEF Accept, Messages
  <2>4. Numbered(m)
    BY <2>2 DEF IInv, NumbersInv
  <2>5. \/ lastSN = sentSN + 1
        \/ lastSN = sentSN + 1 - Window
    BY DEF IInv, SentInv
  <2>6. tries \in Nat /\ firstTry \in 1..tries+1 /\ sentSN \in 0..Window-1
    BY DEF IInv, TypeOK
  <2> HIDE DEF m
  <2> QED
    BY <2>3, <2>4, <2>5, <2>6 DEF Numbered
<1>2. IInv /\ [Next]_vars
        => [script = "wait" /\ script' = "idle" /\ answer' # answer
              => \/ answer' = tries
                 \/ answer' < firstTry
                 \/ tries - answer' >= Window]_vars
  BY <1>1
<1> QED
  BY <1>2, Invariance, PTL DEF Spec, WrongAnswerOnlyWhenReused
=============================================================================
