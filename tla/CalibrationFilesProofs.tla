----------------------- MODULE CalibrationFilesProofs -----------------------
(***************************************************************************)
(* Proofs about CalibrationFiles for every clock and every number of       *)
(* acquisitions: the types, which acquisition a command processes, what    *)
(* its answer and its table tell, and that a table never goes back.        *)
(***************************************************************************)
EXTENDS CalibrationFiles, TLAPS

USE ClockAssumption

(* The output of a job was written, or its writing was cut short.          *)
OutputMade(k, s) == out[k][s] = "written" \/ <<k, s>> \in cut

(* Where the command is tells what it is and what it has made.             *)
JobInv ==
  /\ ~Free => job.op = IF At("acquire") THEN "acquire" ELSE "process"
  /\ ~Free /\ job.op = "process" => IsLatest(job.kind, job.stamp)
  /\ At("find") \/ At("link") => job.kind \in Calibrations
  /\ At("link") => out[job.kind][job.stamp] # "absent"

(* An output that is not complete is being written or was cut short.       *)
OutInv ==
  \A k \in Kinds, s \in Stamp : out[k][s] = "writing" =>
     \/ At("write") /\ job.kind = k /\ job.stamp = s
     \/ <<k, s>> \in cut

(* A table leads to an output, which was made from an acquisition.         *)
TableInv ==
  \A k \in Calibrations :
     /\ table[k] # NoStamp => out[k][table[k]] # "absent"
     /\ linked[k] # NoStamp => raw[k][linked[k]] # "absent"

IInv == TypeOK /\ JobInv /\ OutInv /\ TableInv /\ TrueMeansTable

-----------------------------------------------------------------------------
LEMMA NoStampIsNone == NoStamp \notin Stamp
  BY DEF NoStamp, Stamp

(* The parts of a time, and what the order of the texts says of them.      *)
LEMMA StampParts ==
  ASSUME NEW s \in Stamp
  PROVE  s[1] \in Nat /\ s[2] \in Nat
<1>1. s[1] \in Secs /\ s[2] \in Millis
  BY DEF Stamp
<1>2. \A m \in Millis : m \in Nat
  OBVIOUS
<1> QED
  BY <1>1, <1>2

LEMMA TextOrder ==
  ASSUME NEW s \in Stamp, NEW t \in Stamp, ~TextBefore(s, t)
  PROVE  t[1] <= s[1]
  BY StampParts DEF TextBefore

-----------------------------------------------------------------------------
LEMMA InitIInv == Init => IInv
<1> SUFFICES ASSUME Init PROVE IInv
  OBVIOUS
<1>1. TypeOK
  BY DEF Init, TypeOK, NoJob, Job, Jobs, Answers, Free, Kinds, Calibrations, Levels, Steps
<1>2. JobInv /\ OutInv /\ TableInv /\ TrueMeansTable
  BY DEF Init, JobInv, OutInv, TableInv, TrueMeansTable, NoJob, Job, Free, At, Kinds
<1> QED
  BY <1>1, <1>2 DEF IInv

-----------------------------------------------------------------------------
(* The type of the job alone.                                              *)
JobType == job \in Jobs /\ (~Free => job.stamp \in Stamp)

LEMMA JobTypeStep == TypeOK /\ [Next]_vars => JobType'
<1> SUFFICES ASSUME TypeOK, [Next]_vars PROVE JobType'
  OBVIOUS
<1>a. job \in Jobs /\ (job.step # "done" => job.stamp \in Stamp) /\ clock \in Stamp
  BY DEF TypeOK, Free
<1>b. \A st \in Steps : st \in {"acquire", "read", "write", "find", "link", "done"}
  BY DEF Steps
<1>c. "disc" \in Kinds /\ "run" \in Kinds
  BY DEF Kinds, Calibrations
<1>d. job.answer \in Answers
  BY <1>a DEF Jobs
<1> USE DEF JobType, Free, At
<1>1. ASSUME NEW k \in Kinds, StartAcquire(k) PROVE JobType'
  BY <1>1, <1>a DEF Job, Jobs, Answers, StartAcquire, Steps
<1>2. ASSUME NEW k \in Kinds, NothingFound(k) PROVE JobType'
  BY <1>2 DEF Job, Jobs, Answers, NothingFound, Steps
<1>3. ASSUME NEW k \in Kinds, StartProcess(k) PROVE JobType'
  BY <1>3 DEF Job, Jobs, Answers, StartProcess, Steps
<1>4. CASE AcquireDark
  BY <1>4, <1>a, <1>c DEF Job, Jobs, Answers, AcquireDark, Steps
<1>5. CASE ConvertSingles
  BY <1>5, <1>c DEF Job, Jobs, Answers, ConvertSingles, Steps
<1>6. CASE Crash
  BY <1>6, <1>c DEF Job, Jobs, Answers, Crash, NoJob, Steps
<1>7. CASE EndAcquire
  BY <1>7, <1>a, <1>d DEF Job, Jobs, Answers, EndAcquire, Answer, Goto, Steps
<1>8. CASE ReadFails \/ OpenFailsQuietly
  BY <1>8, <1>a, <1>d DEF Job, Jobs, Answers, ReadFails, OpenFailsQuietly, AfterRun, Goto, Steps
<1>9. CASE OpenOutput
  BY <1>9, <1>a, <1>d DEF Job, Jobs, Answers, OpenOutput, Goto, Steps
<1>10. CASE WriteDone
  BY <1>10, <1>a, <1>d DEF Job, Jobs, Answers, WriteDone, AfterRun, Goto, Steps
<1>11. CASE WriteIncomplete
  BY <1>11, <1>a, <1>d DEF Job, Jobs, Answers, WriteIncomplete, AfterRun, Goto, Steps
<1>12. CASE FindOutput
  BY <1>12, <1>a, <1>d DEF Job, Jobs, Answers, FindOutput, Goto, Steps
<1>13. CASE TableFails
  BY <1>13, <1>a, <1>d DEF Job, Jobs, Answers, TableFails, Answer, Goto, Steps
<1>14. CASE Link
  BY <1>14, <1>a, <1>d DEF Job, Jobs, Answers, Link, Answer, Goto, Steps
<1>15. CASE Tick \/ CreateFile \/ AcquireMore \/ UNCHANGED vars
  BY <1>15, <1>a DEF Tick, CreateFile, AcquireMore, vars
<1> QED
  BY <1>1, <1>2, <1>3, <1>4, <1>5, <1>6, <1>7, <1>8, <1>9, <1>10, <1>11, <1>12,
     <1>13, <1>14, <1>15 DEF Next, AcquireStep, ProcessStep

(* Type correctness: what each step changes beside the job.                *)
LEMMA TypeStep == TypeOK /\ [Next]_vars => TypeOK'
<1> SUFFICES ASSUME TypeOK, [Next]_vars PROVE TypeOK'
  OBVIOUS
<1>a. JobType'
  BY JobTypeStep
<1>b. job.kind \in Kinds /\ (~Free => job.stamp \in Stamp)
  BY DEF TypeOK, Jobs
<1> USE DEF TypeOK, JobType, Free, At
<1>1. CASE Tick
  BY <1>1 DEF Tick
<1>2. ASSUME NEW k \in Kinds,
             StartAcquire(k) \/ NothingFound(k) \/ StartProcess(k)
      PROVE  TypeOK'
  BY <1>a, <1>2 DEF StartAcquire, NothingFound, StartProcess
<1>3. CASE CreateFile
  <2>1. FirstLevel(job.kind) \in Levels
    BY DEF FirstLevel, Levels
  <2> QED
    BY <1>a, <1>3, <2>1 DEF CreateFile
<1>4. CASE AcquireMore
  <2>1. ASSUME NEW l \in Levels, raw' = [raw EXCEPT ![job.kind][job.stamp] = l]
        PROVE  raw' \in [Kinds -> [Stamp -> Levels]]
    BY <2>1
  <2>2. "readable" \in Levels /\ "whole" \in Levels
    BY DEF Levels
  <2>3. raw' \in [Kinds -> [Stamp -> Levels]]
    BY <1>4, <2>1, <2>2 DEF AcquireMore
  <2> QED
    BY <1>a, <1>4, <2>3 DEF AcquireMore
<1>5. CASE EndAcquire \/ AcquireDark \/ ConvertSingles \/ ReadFails
           \/ OpenFailsQuietly \/ TableFails
  BY <1>a, <1>5 DEF EndAcquire, AcquireDark, ConvertSingles, ReadFails, OpenFailsQuietly,
                    TableFails
<1>6. CASE OpenOutput
  BY <1>a, <1>6 DEF OpenOutput
<1>7. CASE WriteDone \/ WriteIncomplete
  <2>1. cut' \subseteq Kinds \X Stamp
    BY <1>b, <1>7 DEF WriteDone, WriteIncomplete
  <2>2. out' \in [Kinds -> [Stamp -> {"absent", "writing", "written"}]]
    <3>1. CASE WriteDone
      BY <3>1 DEF WriteDone
    <3>2. CASE WriteIncomplete
      BY <3>2 DEF WriteIncomplete
    <3> QED
      BY <1>7, <3>1, <3>2
  <2>3. UNCHANGED <<clock, raw, table, linked, starts>>
    BY <1>7 DEF WriteDone, WriteIncomplete
  <2> QED
    BY <1>a, <2>1, <2>2, <2>3
<1>8. CASE FindOutput \/ Link
  <2>1. /\ table' \in [Calibrations -> Stamp \cup {NoStamp}]
        /\ linked' \in [Calibrations -> Stamp \cup {NoStamp}]
    BY <1>b, <1>8 DEF FindOutput, Link
  <2>2. UNCHANGED <<clock, raw, out, cut, starts>>
    BY <1>8 DEF FindOutput, Link
  <2> QED
    BY <1>a, <2>1, <2>2
<1>9. CASE Crash
  BY <1>a, <1>b, <1>9 DEF Crash
<1>10. CASE UNCHANGED vars
  BY <1>10 DEF vars
<1> QED
  BY <1>1, <1>2, <1>3, <1>4, <1>5, <1>6, <1>7, <1>8, <1>9, <1>10
     DEF Next, AcquireStep, ProcessStep

(* What a command is and has made.                                         *)
LEMMA JobStep == IInv /\ [Next]_vars => JobInv'
<1> SUFFICES ASSUME IInv, [Next]_vars PROVE JobInv'
  OBVIOUS
<1> USE DEF IInv, JobInv, Free, At
<1>1. CASE Tick
  BY <1>1 DEF Tick, IsLatest, Visible, OutputMade
<1>2. ASSUME NEW k \in Kinds, StartAcquire(k) PROVE JobInv'
  BY <1>2 DEF StartAcquire, Job
<1>3. ASSUME NEW k \in Kinds, NothingFound(k) PROVE JobInv'
  BY <1>3 DEF NothingFound, Job
<1>4. ASSUME NEW k \in Kinds, StartProcess(k) PROVE JobInv'
  BY <1>4 DEF StartProcess, Job, IsLatest, Visible
<1>5. CASE CreateFile
  BY <1>5 DEF CreateFile
<1>6. CASE AcquireMore
  BY <1>6 DEF AcquireMore
<1>7. CASE EndAcquire
  BY <1>7 DEF EndAcquire, Answer, Goto, Job
<1>8. CASE AcquireDark
  BY <1>8 DEF AcquireDark, Job
<1>9. CASE ConvertSingles
  BY <1>9 DEF ConvertSingles, Job
<1>10. CASE ReadFails \/ OpenFailsQuietly
  BY <1>10 DEF ReadFails, OpenFailsQuietly, AfterRun, Goto, Job, IsLatest, Visible, TypeOK
<1>11. CASE OpenOutput
  BY <1>11 DEF OpenOutput, Goto, Job, IsLatest, Visible, TypeOK
<1>12. CASE WriteDone
  BY <1>12 DEF WriteDone, AfterRun, Goto, Job, IsLatest, Visible, TypeOK
<1>13. CASE WriteIncomplete
  BY <1>13 DEF WriteIncomplete, AfterRun, Goto, Job, IsLatest, Visible, TypeOK, OutputMade
<1>14. CASE FindOutput
  BY <1>14 DEF FindOutput, Goto, Job, IsLatest, Visible, TypeOK, OutputMade
<1>15. CASE TableFails
  BY <1>15 DEF TableFails, Answer, Goto, Job, TypeOK
<1>16. CASE Link
  BY <1>16 DEF Link, Answer, Goto, Job, TypeOK
<1>17. CASE Crash
  BY <1>17 DEF Crash, NoJob, Job
<1>18. CASE UNCHANGED vars
  BY <1>18 DEF vars, IsLatest, Visible, OutputMade
<1> QED
  BY <1>1, <1>2, <1>3, <1>4, <1>5, <1>6, <1>7, <1>8, <1>9, <1>10, <1>11, <1>12,
     <1>13, <1>14, <1>15, <1>16, <1>17, <1>18 DEF Next, AcquireStep, ProcessStep

(* Outputs that are not complete.                                          *)
LEMMA OutStep == IInv /\ [Next]_vars => OutInv'
<1> SUFFICES ASSUME IInv, [Next]_vars, NEW k \in Kinds, NEW s \in Stamp,
                    out'[k][s] = "writing"
             PROVE  \/ At("write")' /\ job'.kind = k /\ job'.stamp = s
                    \/ <<k, s>> \in cut'
  BY DEF OutInv, At
<1> USE DEF At, Free
<1>a. out[k][s] = "writing" => \/ At("write") /\ job.kind = k /\ job.stamp = s
                              \/ <<k, s>> \in cut
  BY DEF IInv, OutInv
<1>b. out \in [Kinds -> [Stamp -> {"absent", "writing", "written"}]]
  BY DEF IInv, TypeOK
<1>1. CASE Tick \/ CreateFile \/ AcquireMore \/ UNCHANGED vars
  BY <1>1, <1>a DEF Tick, CreateFile, AcquireMore, vars
<1>2. ASSUME NEW c \in Kinds,
             StartAcquire(c) \/ NothingFound(c) \/ StartProcess(c)
      PROVE  <<k, s>> \in cut'
  BY <1>2, <1>a DEF StartAcquire, NothingFound, StartProcess
<1>3. CASE AcquireDark \/ ConvertSingles
  BY <1>3, <1>a DEF AcquireDark, ConvertSingles
<1>4. CASE EndAcquire \/ ReadFails \/ OpenFailsQuietly \/ TableFails
  BY <1>4, <1>a DEF EndAcquire, ReadFails, OpenFailsQuietly, TableFails
<1>5. CASE FindOutput \/ Link
  BY <1>5, <1>a DEF FindOutput, Link
<1>6. CASE OpenOutput
  <2>1. job'.step = "write" /\ job'.kind = job.kind /\ job'.stamp = job.stamp
    BY <1>6 DEF OpenOutput, Goto, Job
  <2>2. CASE k = job.kind /\ s = job.stamp
    BY <2>1, <2>2
  <2>3. CASE ~(k = job.kind /\ s = job.stamp)
    <3>1. out'[k][s] = out[k][s]
      BY <1>6, <1>b, <2>3 DEF OpenOutput
    <3> QED
      BY <1>6, <1>a, <3>1 DEF OpenOutput
  <2> QED
    BY <2>2, <2>3
<1>7. CASE WriteDone
  <2>1. ~(k = job.kind /\ s = job.stamp)
    BY <1>7, <1>b DEF WriteDone
  <2>2. out'[k][s] = out[k][s]
    BY <1>7, <1>b, <2>1 DEF WriteDone
  <2> QED
    BY <1>7, <1>a, <2>1, <2>2 DEF WriteDone
<1>8. CASE WriteIncomplete
  BY <1>8, <1>a DEF WriteIncomplete
<1>9. CASE Crash
  BY <1>9, <1>a DEF Crash
<1> QED
  BY <1>1, <1>2, <1>3, <1>4, <1>5, <1>6, <1>7, <1>8, <1>9
     DEF Next, AcquireStep, ProcessStep

(* What tables lead to.                                                    *)
LEMMA TableStep == IInv /\ [Next]_vars => TableInv'
<1> SUFFICES ASSUME IInv, [Next]_vars, NEW k \in Calibrations
             PROVE  /\ table'[k] # NoStamp => out'[k][table'[k]] # "absent"
                    /\ linked'[k] # NoStamp => raw'[k][linked'[k]] # "absent"
  BY DEF TableInv
<1> USE DEF At, Free
<1>a. /\ table[k] # NoStamp => table[k] \in Stamp /\ out[k][table[k]] # "absent"
      /\ linked[k] # NoStamp => linked[k] \in Stamp /\ raw[k][linked[k]] # "absent"
  BY DEF IInv, TypeOK, TableInv
<1>b. /\ out \in [Kinds -> [Stamp -> {"absent", "writing", "written"}]]
      /\ raw \in [Kinds -> [Stamp -> Levels]]
      /\ table \in [Calibrations -> Stamp \cup {NoStamp}]
      /\ linked \in [Calibrations -> Stamp \cup {NoStamp}]
      /\ k \in Kinds
  BY DEF IInv, TypeOK, Kinds
<1>1. CASE \/ Tick \/ AcquireDark \/ ConvertSingles \/ UNCHANGED vars
           \/ EndAcquire \/ ReadFails \/ OpenFailsQuietly \/ WriteIncomplete
           \/ TableFails \/ Crash
  BY <1>1, <1>a DEF Tick, AcquireDark, ConvertSingles, vars, EndAcquire, ReadFails,
                    OpenFailsQuietly, WriteIncomplete, TableFails, Crash
<1>2. ASSUME NEW c \in Kinds,
             StartAcquire(c) \/ NothingFound(c) \/ StartProcess(c)
      PROVE  UNCHANGED <<raw, out, table, linked>>
  BY <1>2 DEF StartAcquire, NothingFound, StartProcess
<1>3. CASE CreateFile \/ AcquireMore
  <2>1. ASSUME NEW s \in Stamp, raw[k][s] # "absent" PROVE raw'[k][s] # "absent"
    <3>1. CASE CreateFile
      BY <2>1, <3>1, <1>b DEF CreateFile, FirstLevel
    <3>2. CASE AcquireMore
      BY <2>1, <3>2, <1>b DEF AcquireMore
    <3> QED
      BY <1>3, <3>1, <3>2
  <2>2. UNCHANGED <<out, table, linked>>
    BY <1>3 DEF CreateFile, AcquireMore
  <2> QED
    BY <1>a, <2>1, <2>2
<1>4. CASE OpenOutput \/ WriteDone
  <2>1. ASSUME NEW s \in Stamp, out[k][s] # "absent" PROVE out'[k][s] # "absent"
    <3>1. CASE OpenOutput
      BY <2>1, <3>1, <1>b DEF OpenOutput
    <3>2. CASE WriteDone
      BY <2>1, <3>2, <1>b DEF WriteDone
    <3> QED
      BY <1>4, <3>1, <3>2
  <2>2. UNCHANGED <<raw, table, linked>>
    BY <1>4 DEF OpenOutput, WriteDone
  <2> QED
    BY <1>a, <2>1, <2>2
<1>5. CASE FindOutput
  BY <1>5, <1>a, <1>b DEF FindOutput
<1>6. CASE Link
  <2>1. /\ out[job.kind][job.stamp] # "absent"
        /\ raw[job.kind][job.stamp] # "absent"
    BY <1>6 DEF Link, IInv, JobInv, IsLatest, Visible
  <2>2. CASE k = job.kind
    BY <1>6, <1>b, <2>1, <2>2 DEF Link
  <2>3. CASE k # job.kind
    BY <1>6, <1>a, <1>b, <2>3 DEF Link
  <2> QED
    BY <2>2, <2>3
<1> QED
  BY <1>1, <1>2, <1>3, <1>4, <1>5, <1>6, <1>a DEF Next, AcquireStep, ProcessStep

(* What an answer means.                                                   *)
LEMMA AnswerStep == IInv /\ [Next]_vars => TrueMeansTable'
<1> SUFFICES ASSUME IInv, [Next]_vars,
                    job'.step = "done", job'.answer = "true",
                    job'.op = "process", job'.kind \in Calibrations
             PROVE  /\ table'[job'.kind] = job'.stamp
                    /\ \/ out'[job'.kind][job'.stamp] = "written"
                       \/ <<job'.kind, job'.stamp>> \in cut'
  BY DEF TrueMeansTable, OutputMade, Free
<1> USE DEF At, Free
<1>1. CASE Tick \/ UNCHANGED vars
  BY <1>1 DEF Tick, vars, IInv, TrueMeansTable, OutputMade
<1>2. ASSUME NEW c \in Kinds,
             StartAcquire(c) \/ NothingFound(c) \/ StartProcess(c)
      PROVE  FALSE
  BY <1>2 DEF StartAcquire, NothingFound, StartProcess, Job
<1>3. CASE CreateFile \/ AcquireMore
  BY <1>3 DEF CreateFile, AcquireMore
<1>4. CASE EndAcquire
  BY <1>4 DEF EndAcquire, Answer, Goto, Job, IInv, JobInv
<1>5. CASE AcquireDark \/ ConvertSingles
  BY <1>5 DEF AcquireDark, ConvertSingles, Job
<1>6. CASE ReadFails \/ OpenFailsQuietly
  BY <1>6 DEF ReadFails, OpenFailsQuietly, AfterRun, Goto, Job
<1>7. CASE OpenOutput \/ FindOutput
  BY <1>7 DEF OpenOutput, FindOutput, Goto, Job
<1>8. CASE WriteDone
  BY <1>8 DEF WriteDone, AfterRun, Goto, Job
<1>9. CASE WriteIncomplete
  BY <1>9 DEF WriteIncomplete, AfterRun, Goto, Job
<1>10. CASE TableFails
  BY <1>10 DEF TableFails, Answer, Goto, Job
<1>11. CASE Link
  <2>1. /\ job'.kind = job.kind /\ job'.stamp = job.stamp
    BY <1>11 DEF Link, Answer, Goto, Job
  <2>2. table'[job.kind] = job.stamp
    BY <1>11, <2>1 DEF Link, IInv, TypeOK
  <2>3. OutputMade(job.kind, job.stamp)
    <3>1. job.kind \in Kinds /\ job.stamp \in Stamp
      BY <1>11 DEF Link, IInv, TypeOK, Jobs
    <3>2. out[job.kind][job.stamp] \in {"writing", "written"}
      BY <1>11, <3>1 DEF Link, IInv, TypeOK, JobInv
    <3> QED
      BY <1>11, <3>1, <3>2 DEF Link, IInv, OutInv, OutputMade
  <2> QED
    BY <1>11, <2>1, <2>2, <2>3 DEF Link, OutputMade
<1>12. CASE Crash
  BY <1>12 DEF Crash, NoJob, Job
<1> QED
  BY <1>1, <1>2, <1>3, <1>4, <1>5, <1>6, <1>7, <1>8, <1>9, <1>10, <1>11, <1>12
     DEF Next, AcquireStep, ProcessStep

-----------------------------------------------------------------------------
(* The invariant, for every set of times and number of acquisitions.       *)
THEOREM Invariance == Spec => []IInv
<1>1. Init => IInv
  BY InitIInv
<1>2. IInv /\ [Next]_vars => IInv'
  BY TypeStep, JobStep, OutStep, TableStep, AnswerStep DEF IInv
<1> QED
  BY <1>1, <1>2, PTL DEF Spec

(* Types, and a command past its search has a name to work on.             *)
THEOREM TypeCorrect == Spec => []TypeOK
<1>1. IInv => TypeOK
  BY DEF IInv
<1> QED
  BY <1>1, Invariance, PTL

(* A command processes the newest acquisition, but for the order within a  *)
(* second (getLatestTimestamp()).                                          *)
THEOREM LatestChosen == Spec => []LatestIsNewest
<1>1. IInv => LatestIsNewest
  <2> SUFFICES ASSUME IInv, ~Free, job.op = "process",
                      NEW t \in Visible(job.kind), Before(job.stamp, t)
               PROVE  job.stamp[1] = t[1]
    BY DEF LatestIsNewest
  <2>1. job.stamp \in Stamp /\ t \in Stamp /\ ~TextBefore(job.stamp, t)
    BY DEF IInv, JobInv, IsLatest, Visible
  <2>2. t[1] <= job.stamp[1]
    BY <2>1, TextOrder
  <2> QED
    BY <2>1, <2>2, StampParts DEF Before
<1> QED
  BY <1>1, Invariance, PTL

(* RUN_PROCESS_* that answers TRUE has put its output into use.            *)
THEOREM AnswersTrue == Spec => []TrueMeansTable
<1>1. IInv => TrueMeansTable
  BY DEF IInv
<1> QED
  BY <1>1, Invariance, PTL

(* A table leads to a complete output, with the exceptions it states.      *)
THEOREM TablesSound == Spec => []TableSound
<1>1. IInv => TableSound
  <2> SUFFICES ASSUME IInv, NEW k \in Calibrations, table[k] # NoStamp
               PROVE  \/ out[k][table[k]] = "written"
                      \/ At("write") /\ job.kind = k /\ job.stamp = table[k]
                      \/ <<k, table[k]>> \in cut
    BY DEF TableSound
  <2>1. k \in Kinds /\ table[k] \in Stamp
    BY DEF IInv, TypeOK, Kinds
  <2>2. out[k][table[k]] \in {"writing", "written"}
    BY <2>1 DEF IInv, TypeOK, TableInv
  <2> QED
    BY <2>1, <2>2 DEF IInv, OutInv
<1> QED
  BY <1>1, Invariance, PTL

(* No processing takes a table back to an earlier second.                  *)
THEOREM TablesForward == Spec => TableNeverBack
<1>1. IInv /\ [Next]_vars =>
        [\A k \in Calibrations :
            linked[k] # NoStamp => linked'[k] # NoStamp /\ linked[k][1] <= linked'[k][1]]_vars
  <2> SUFFICES ASSUME IInv, Next, NEW k \in Calibrations, linked[k] # NoStamp
               PROVE  linked'[k] # NoStamp /\ linked[k][1] <= linked'[k][1]
    OBVIOUS
  <2>1. linked[k] \in Stamp /\ linked[k] \in Visible(k)
    BY DEF IInv, TypeOK, TableInv, Visible
  <2>2. linked[k][1] <= linked[k][1]
    BY <2>1, StampParts
  <2>3. CASE linked' = linked
    BY <2>2, <2>3
  <2>4. CASE Link
    <3>1. job.stamp \in Stamp /\ IsLatest(job.kind, job.stamp)
      BY <2>4 DEF Link, At, Free, IInv, TypeOK, JobInv
    <3>2. CASE k = job.kind
      <4>1. linked'[k] = job.stamp
        BY <2>4, <3>2 DEF Link, IInv, TypeOK
      <4>2. ~TextBefore(job.stamp, linked[k])
        BY <2>1, <3>1, <3>2 DEF IsLatest
      <4> QED
        BY <2>1, <3>1, <4>1, <4>2, TextOrder, NoStampIsNone
    <3>3. CASE k # job.kind
      BY <2>2, <2>4, <3>3 DEF Link, IInv, TypeOK
    <3> QED
      BY <3>2, <3>3
  <2> QED
    BY <2>3, <2>4 DEF Next, AcquireStep, ProcessStep, Tick, StartAcquire, NothingFound,
       StartProcess, CreateFile, AcquireMore, EndAcquire, AcquireDark, ConvertSingles,
       ReadFails, OpenFailsQuietly, OpenOutput, WriteDone, WriteIncomplete, FindOutput,
       TableFails, Crash
<1> QED
  BY <1>1, Invariance, PTL DEF Spec, TableNeverBack
=============================================================================
