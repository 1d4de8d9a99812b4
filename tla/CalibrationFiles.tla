-------------------------- MODULE CalibrationFiles --------------------------
(***************************************************************************)
(* The files that carry a calibration from its acquisition to the table    *)
(* the system uses: GRAMS_TOF_CommandDispatch's RUN_ACQUIRE_*,             *)
(* RUN_PROCESS_* and RUN_CONVERT_* commands, with the file naming of       *)
(* GRAMS_TOF_Config.  An acquisition is named after the time of its        *)
(* command.  Processing looks for the latest name, compared as text, makes *)
(* one output of that name and points the kind's table (a symbolic link)   *)
(* at it.  Commands run one at a time on the command client's thread; the  *)
(* process may be killed at any step, and the files stay.                  *)
(***************************************************************************)
EXTENDS Naturals, FiniteSets

CONSTANTS
  Secs,       \* the seconds the clock shows
  Millis,     \* the milliseconds it shows
  MaxStarts   \* bound on the acquisitions begun

ASSUME ClockAssumption ==
  /\ Secs \subseteq Nat
  /\ Millis \subseteq 0..999
  /\ MaxStarts \in Nat

VARIABLES
  clock,    \* the time the system clock shows: <<second, millisecond>>
  raw,      \* raw[k][s]: how far the acquisition of kind k named s has come
  out,      \* out[k][s]: the output processed from it
  table,    \* table[k]: the name of the output the link of kind k leads to
  linked,   \* history: the last value table[k] was given
  cut,      \* history: the outputs of which a part is missing
  job,      \* the command being executed, or the last one with its answer
  starts    \* history: acquisitions begun

vars == <<clock, raw, out, table, linked, cut, job, starts>>

Stamp == Secs \X Millis
NoStamp == <<>>

Calibrations == {"disc", "tdc", "qdc"}
Kinds == Calibrations \cup {"run"}

\* Not there; found by its name but not to be processed; to be processed but
\* incomplete; complete.
Levels == {"absent", "named", "readable", "whole"}

-----------------------------------------------------------------------------
(* Names *)

Before(s, t) == \/ s[1] < t[1]
                \/ s[1] = t[1] /\ s[2] < t[2]

\* getCurrentTimestamp() writes the milliseconds without leading zeros and a
\* Z after them: three characters of that text, as digits to the base 11, with
\* the Z greater than every digit.
FracText(ms) ==
  IF ms < 10 THEN 121 * ms + 110
  ELSE IF ms < 100 THEN 121 * (ms \div 10) + 11 * (ms % 10) + 10
  ELSE 121 * (ms \div 100) + 11 * ((ms \div 10) % 10) + (ms % 10)

\* Mutated form of TextBefore: the fraction decides.
TextBeforeByFraction(s, t) == FracText(s[2]) < FracText(t[2])

\* ts > latestTs on strings.  The digits before the point have fixed widths.
TextBefore(s, t) == \/ s[1] < t[1]
                    \/ s[1] = t[1] /\ FracText(s[2]) < FracText(t[2])

\* What the pattern of getLatestTimestamp() matches.
Visible(k) == {s \in Stamp : raw[k][s] # "absent"}

\* Mutated form of IsLatest: the first name the directory gives.
AnyVisible(k, s) == s \in Visible(k)

IsLatest(k, s) == /\ s \in Visible(k)
                  /\ \A t \in Visible(k) : ~TextBefore(s, t)

-----------------------------------------------------------------------------
(* Commands *)

Job(op, k, s, step, answer) ==
  [op |-> op, kind |-> k, stamp |-> s, step |-> step, answer |-> answer]

NoJob == Job("none", "run", NoStamp, "done", "false")

\* What a handler returns.
Answers == {"true", "false"}

Steps == {"acquire", "read", "write", "find", "link", "done"}

Jobs == [op : {"none", "acquire", "process"}, kind : Kinds,
         stamp : Stamp \cup {NoStamp}, step : Steps, answer : Answers]

\* No command is being executed: the last one, if any, is answered.
Free == job.step = "done"

Goto(step, a) == job' = Job(job.op, job.kind, job.stamp, step, a)
Answer(a) == Goto("done", a)

At(step) == job.step = step

Init ==
  /\ clock \in Stamp
  /\ raw = [k \in Kinds |-> [s \in Stamp |-> "absent"]]
  /\ out = [k \in Kinds |-> [s \in Stamp |-> "absent"]]
  /\ table = [k \in Calibrations |-> NoStamp]
  /\ linked = [k \in Calibrations |-> NoStamp]
  /\ cut = {}
  /\ job = NoJob
  /\ starts = 0

\* Time passes; nobody sets the clock back.
Tick ==
  /\ \E t \in Stamp : Before(clock, t) /\ clock' = t
  /\ UNCHANGED <<raw, out, table, linked, cut, job, starts>>

-----------------------------------------------------------------------------
(* Acquisition *)

\* RUN_ACQUIRE_*: the name is made before the script starts.
StartAcquire(k) ==
  /\ Free /\ starts < MaxStarts
  /\ job' = Job("acquire", k, clock, "acquire", "false")
  /\ starts' = starts + 1
  /\ UNCHANGED <<clock, raw, out, table, linked, cut>>

\* The threshold script opens its noise file when the baseline is written;
\* the others write a .modf first.
FirstLevel(k) == IF k = "disc" THEN "readable" ELSE "named"

\* Connecting and configuring takes more than a millisecond.
CreateFile ==
  /\ At("acquire") /\ raw[job.kind][job.stamp] = "absent"
  /\ Before(job.stamp, clock)
  /\ raw' = [raw EXCEPT ![job.kind][job.stamp] = FirstLevel(job.kind)]
  /\ UNCHANGED <<clock, out, table, linked, cut, job, starts>>

\* .bins (or .idxf and .rawf) come next, then the rest of the data.
AcquireMore ==
  /\ At("acquire")
  /\ \/ /\ raw[job.kind][job.stamp] = "named"
        /\ raw' = [raw EXCEPT ![job.kind][job.stamp] = "readable"]
     \/ /\ raw[job.kind][job.stamp] = "readable"
        /\ raw' = [raw EXCEPT ![job.kind][job.stamp] = "whole"]
  /\ UNCHANGED <<clock, out, table, linked, cut, job, starts>>

\* The script returns; it may fail at any point, after the last file too.
EndAcquire ==
  /\ At("acquire")
  /\ \E a \in Answers : /\ a = "true" => raw[job.kind][job.stamp] = "whole"
                        /\ Answer(a)
  /\ UNCHANGED <<clock, raw, out, table, linked, cut, starts>>

\* RUN_ACQUIRE_THRESHOLD_CALIBRATION_D: the names of its files end so that no
\* search finds them.
AcquireDark ==
  /\ Free
  /\ \E a \in Answers : job' = Job("acquire", "disc", clock, "done", a)
  /\ UNCHANGED <<clock, raw, out, table, linked, cut, starts>>

-----------------------------------------------------------------------------
(* Processing *)

\* Mutated form of NothingFound: the empty name is used like any other.
NothingFoundGoesOn(k) ==
  /\ Free /\ Visible(k) = {}
  /\ job' = Job("process", k, NoStamp, "read", "false")
  /\ UNCHANGED <<clock, raw, out, table, linked, cut, starts>>

\* getLatestTimestamp() throws: no file, or no directory yet.
NothingFound(k) ==
  /\ Free /\ Visible(k) = {}
  /\ job' = Job("process", k, NoStamp, "done", "false")
  /\ UNCHANGED <<clock, raw, out, table, linked, cut, starts>>

\* RUN_PROCESS_* and RUN_CONVERT_RAW_TO_RAW.
StartProcess(k) ==
  /\ Free
  /\ \E s \in Stamp : /\ IsLatest(k, s)
                      /\ job' = Job("process", k, s, "read", "false")
  /\ UNCHANGED <<clock, raw, out, table, linked, cut, starts>>

\* RUN_CONVERT_RAW_TO_SINGLES gives the converter the whole name of a file
\* where it expects a prefix: no file has the name it makes of it.
ConvertSingles ==
  /\ Free
  /\ job' = Job("process", "run", NoStamp, "done", "false")
  /\ UNCHANGED <<clock, raw, out, table, linked, cut, starts>>

\* A calibration goes on to its table, whatever safeRun() returned.
AfterRun(a) == Goto(IF job.kind \in Calibrations THEN "find" ELSE "done", a)

\* The analysis throws before it opens its output, and safeRun() catches.
ReadFails ==
  /\ At("read")
  /\ AfterRun("false")
  /\ UNCHANGED <<clock, raw, out, table, linked, cut, starts>>

\* The threshold analysis does not look whether its output could be opened.
OpenFailsQuietly ==
  /\ At("read") /\ job.kind = "disc"
  /\ AfterRun("true")
  /\ UNCHANGED <<clock, raw, out, table, linked, cut, starts>>

\* The analysis has read its input, for QDC also through the TDC table, and
\* opens the output, which empties it when it exists.
OpenOutput ==
  /\ At("read") /\ raw[job.kind][job.stamp] \in {"readable", "whole"}
  /\ job.kind = "qdc" => table["tdc"] # NoStamp
  /\ out' = [out EXCEPT ![job.kind][job.stamp] = "writing"]
  /\ Goto("write", job.answer)
  /\ UNCHANGED <<clock, raw, table, linked, cut, starts>>

\* Removing the temporary files of TDC and QDC may throw afterwards.
WriteDone ==
  /\ At("write")
  /\ out' = [out EXCEPT ![job.kind][job.stamp] = "written"]
  /\ cut' = cut \ {<<job.kind, job.stamp>>}
  /\ \E a \in Answers : /\ a = "false" => job.kind \in {"tdc", "qdc"}
                        /\ AfterRun(a)
  /\ UNCHANGED <<clock, raw, table, linked, starts>>

\* A part of the output is missing: the disk is full, and nobody looks at the
\* result of a write; or, for TDC and QDC, the process that fits an ASIC was
\* killed, or the input is shorter than its index says, and nobody looks at
\* the status of the process or goes by the length read.
WriteIncomplete ==
  /\ At("write")
  /\ cut' = cut \cup {<<job.kind, job.stamp>>}
  /\ \E a \in Answers : /\ a = "false" => job.kind \in {"tdc", "qdc"}
                        /\ AfterRun(a)
  /\ UNCHANGED <<clock, raw, out, table, linked, starts>>

-----------------------------------------------------------------------------
(* The table *)

\* Mutated form of FindOutput: nobody looks whether there is an output.
FindOutputUnchecked ==
  /\ At("find")
  /\ table' = [table EXCEPT ![job.kind] = NoStamp]
  /\ Goto("link", job.answer)
  /\ UNCHANGED <<clock, raw, out, linked, cut, starts>>

\* getFileByTimestamp() finds the output, and copyOrLink() removes the link.
FindOutput ==
  /\ At("find") /\ out[job.kind][job.stamp] # "absent"
  /\ table' = [table EXCEPT ![job.kind] = NoStamp]
  /\ Goto("link", job.answer)
  /\ UNCHANGED <<clock, raw, out, linked, cut, starts>>

\* Mutated form of TableFails: the exception is swallowed and the analysis's answer given.
TableFailsQuietly ==
  /\ At("find") \/ At("link")
  /\ Answer(job.answer)
  /\ UNCHANGED <<clock, raw, out, table, linked, cut, starts>>

\* No output, or the link cannot be removed or made: FALSE is answered.
TableFails ==
  /\ At("find") \/ At("link")
  /\ Answer("false")
  /\ UNCHANGED <<clock, raw, out, table, linked, cut, starts>>

Link ==
  /\ At("link")
  /\ table' = [table EXCEPT ![job.kind] = job.stamp]
  /\ linked' = [linked EXCEPT ![job.kind] = job.stamp]
  /\ Answer(job.answer)
  /\ UNCHANGED <<clock, raw, out, cut, starts>>

\* The process is killed, and started again.
Crash ==
  /\ ~Free
  /\ cut' = IF At("write") THEN cut \cup {<<job.kind, job.stamp>>} ELSE cut
  /\ job' = NoJob
  /\ UNCHANGED <<clock, raw, out, table, linked, starts>>

-----------------------------------------------------------------------------

AcquireStep == CreateFile \/ AcquireMore \/ EndAcquire \/ AcquireDark

ProcessStep == ReadFails \/ OpenFailsQuietly \/ OpenOutput \/ WriteDone \/ WriteIncomplete
                 \/ FindOutput \/ TableFails \/ Link

Next ==
  \/ Tick
  \/ \E k \in Kinds : StartAcquire(k) \/ NothingFound(k) \/ StartProcess(k)
  \/ AcquireStep
  \/ ConvertSingles
  \/ ProcessStep
  \/ Crash

Spec == Init /\ [][Next]_vars

-----------------------------------------------------------------------------
(* Properties *)

\* Types; and a command that has come past its search has a name to work on.
TypeOK ==
  /\ clock \in Stamp
  /\ raw \in [Kinds -> [Stamp -> Levels]]
  /\ out \in [Kinds -> [Stamp -> {"absent", "writing", "written"}]]
  /\ table \in [Calibrations -> Stamp \cup {NoStamp}]
  /\ linked \in [Calibrations -> Stamp \cup {NoStamp}]
  /\ cut \subseteq Kinds \X Stamp
  /\ job \in Jobs
  /\ ~Free => job.stamp \in Stamp
  /\ starts \in 0..MaxStarts

\* The acquisition a command processes is the newest there is, or begun in the
\* same second as the newest: milliseconds without leading zeros do not sort
\* (getLatestTimestamp(), getCurrentTimestamp()).
LatestIsNewest ==
  ~Free /\ job.op = "process" =>
     \A t \in Visible(job.kind) : Before(job.stamp, t) => job.stamp[1] = t[1]

\* RUN_PROCESS_* answers TRUE only when the table leads to the output of the
\* acquisition it chose, and that output was written to its end unless a part
\* of it was lost in a way the analysis does not look at (WriteIncomplete).
TrueMeansTable ==
  Free /\ job.answer = "true" /\ job.op = "process" /\ job.kind \in Calibrations =>
     /\ table[job.kind] = job.stamp
     /\ \/ out[job.kind][job.stamp] = "written"
        \/ <<job.kind, job.stamp>> \in cut

\* A table in use leads to a complete output, except while that same output is
\* being made again in place, or when a part of it was lost: by a kill, or in a
\* way the analysis does not look at.
TableSound ==
  \A k \in Calibrations : table[k] # NoStamp =>
     \/ out[k][table[k]] = "written"
     \/ At("write") /\ job.kind = k /\ job.stamp = table[k]
     \/ <<k, table[k]>> \in cut

\* No processing, whatever failed and whenever the process was killed before,
\* takes a table back to a calibration of an earlier second.
TableNeverBack ==
  [][\A k \in Calibrations :
        linked[k] # NoStamp => linked'[k] # NoStamp /\ linked[k][1] <= linked'[k][1]]_vars
=============================================================================
