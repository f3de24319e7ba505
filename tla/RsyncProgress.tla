---------------------------- MODULE RsyncProgress ----------------------------
(***************************************************************************)
(* What the goroutine of rsyncLogStream makes of the rsync client's log:   *)
(* the log arrives in chunks that end anywhere, in the middle of a line as *)
(* well; parseRsyncLogs reads a chunk, Merge adds it to the progress of    *)
(* the whole transfer, over all the times rsync was started.  At the end   *)
(* the last lines of the log are fetched and parsed once more.             *)
(*                                                                         *)
(* How the goroutine runs and ends is RsyncLogStream; here, each round of  *)
(* it is one step.  A line is what a regular expression finds in it.       *)
(***************************************************************************)
EXTENDS Naturals, Sequences, FiniteSetsExt

CONSTANTS Percentages, \* the percentages rsync prints
          DataAt,      \* [Percentages -> amount of data printed with it]
          Names,       \* the files rsync may fail on
          Counts,      \* the numbers of files transferred it may print
          TotalFiles,  \* the number of files it prints
          ExitCodes,
          MaxZeroReads, TailLines,  \* as in RsyncLogStream
          MaxLines,    \* bound: the lines of the log
          Nil

Units   == {0, 3, 6, 9, 12}     \* the powers of ten of bytes, K, M, G and T
Amounts == [val : Nat, unit : Units]
Nothing == [val |-> 0, unit |-> 0]

(* The expression for a progress line wants two characters of an amount,   *)
(* so that a plain 0 is never read as one.                                 *)
ASSUME ProgressAssumption ==
  /\ Percentages \subseteq 0..100
  /\ DataAt \in [Percentages -> {a \in Amounts : a.val > 0}]
  /\ Counts \subseteq Nat
  /\ TotalFiles \in Nat
  /\ Nil \notin Nat \cup Amounts
  /\ MaxZeroReads \in Nat /\ TailLines \in Nat /\ MaxLines \in Nat

VARIABLES log,       \* the lines rsync and the script around it have written
          pos,       \* complete lines parsed
          cut,       \* how much of the next line has been parsed
          zeroBytes, \* reads of nothing in a row
          rd,        \* "read" or "ended"
          progress,  \* r.progress
          past,      \* pastAttempts
          seen       \* failedFiles

vars == <<log, pos, cut, zeroBytes, rd, progress, past, seen>>

NoProgress == [pct |-> Nil, data |-> Nil, total |-> Nil, files |-> 0,
               failed |-> {}, retries |-> Nil, code |-> Nil]

Init ==
  /\ log = <<>>
  /\ pos = 0 /\ cut = 0 /\ zeroBytes = 0 /\ rd = "read"
  /\ progress = NoProgress
  /\ past = [pct |-> Nil, data |-> Nil]
  /\ seen = {}

-----------------------------------------------------------------------------
(* The log.                                                                *)

Line(kind, value) == [kind |-> kind, value |-> value]

LastKind == IF log = <<>> THEN "none" ELSE log[Len(log)].kind

\* The lines of a kind, and of those the indices in a text.
Of(lines, kind) == {i \in DOMAIN lines : lines[i].kind = kind}

Retries  == Cardinality(Of(log, "retry"))

\* The percentage rsync has reached since it was started last.
Reached ==
  LET attempt == {i \in Of(log, "progress") : \A j \in Of(log, "retry") : j < i}
  IN  IF attempt = {} THEN 0 ELSE log[Max(attempt)].value.pct

Write(kind, value) ==
  /\ rd = "read"
  /\ Len(log) < MaxLines
  /\ log' = Append(log, Line(kind, value))
  /\ UNCHANGED <<pos, cut, zeroBytes, rd, progress, past, seen>>

Copying == LastKind \notin {"stats", "count", "size"}

RsyncCopies ==
  /\ Copying
  /\ \/ \E p \in Percentages : p >= Reached /\ Write("progress", [pct |-> p, data |-> DataAt[p]])
     \/ \E f \in Names : Write("failed", [name |-> f, text |-> "whole"])

\* The statistics; their three lines come together.
RsyncEnds ==
  \/ Copying /\ Write("stats", TotalFiles)
  \/ LastKind = "stats" /\ \E n \in Counts : Write("count", n)
  \/ LastKind = "count" /\ \E p \in Percentages : p >= Reached /\ Write("size", DataAt[p])
  \/ LastKind = "count" /\ Reached = 0 /\ Write("size", Nothing)

\* rsync has failed, with its statistics or without, and is started again.
RsyncRetries == LastKind \notin {"stats", "count"} /\ Write("retry", Retries + 1)

\* What the parser finds in the beginnings of a line, up to the whole line
\* without its end: a number may lack digits, a message its end.
Beginnings(line) ==
  IF line.kind = "count" /\ line.value > 9
    THEN <<Line("count", line.value \div 10), line>>
  ELSE IF line.kind = "failed"
    THEN <<Line("failed", [line.value EXCEPT !.text = "cut"]), line>>
  ELSE <<line>>

-----------------------------------------------------------------------------
(* Amounts of data: val is in tenths of the unit.                          *)

\* 10^n for the difference of two units.
PowerOfTen(n) == IF n = 0 THEN 1 ELSE IF n = 3 THEN 1000
                 ELSE IF n = 6 THEN 1000000 ELSE IF n = 9 THEN 1000000000
                 ELSE 1000 * 1000000000

AddDataSize(a, b) ==
  IF a.unit <= b.unit
    THEN [val |-> b.val + a.val \div PowerOfTen(b.unit - a.unit), unit |-> b.unit]
    ELSE [val |-> b.val \div PowerOfTen(a.unit - b.unit) + a.val, unit |-> a.unit]

-----------------------------------------------------------------------------
(* parseRsyncLogs                                                          *)

First(lines, kind, default) ==
  IF Of(lines, kind) = {} THEN default ELSE lines[Min(Of(lines, kind))].value

Last(lines, kind, default) ==
  IF Of(lines, kind) = {} THEN default ELSE lines[Max(Of(lines, kind))].value

\* Variant: the files found before are found again.
FailedAgain(lines) == {lines[i].value : i \in Of(lines, "failed")}

\* The files that have not been found before, each with its first error.
Failed(lines) ==
  {lines[i].value : i \in {i \in Of(lines, "failed") :
     /\ lines[i].value.name \notin seen
     /\ \A j \in Of(lines, "failed") :
          lines[j].value.name = lines[i].value.name => i <= j}}

ParseRsyncLogs(lines) ==
  LET shown == Last(lines, "progress", [pct |-> Nil, data |-> Nil])
  IN  [pct     |-> shown.pct,
       data    |-> First(lines, "size", shown.data),
       total   |-> Last(lines, "stats", Nil),
       files   |-> First(lines, "count", 0),
       failed  |-> Failed(lines),
       retries |-> First(lines, "retry", Nil)]

-----------------------------------------------------------------------------
(* Merge                                                                   *)

\* The percentage of the past attempts and of this one together.
AllAttempts(in) ==
  IF past.pct = Nil THEN in.pct
  ELSE IF in.pct = Nil THEN past.pct ELSE past.pct + in.pct

\* Variant: the percentages of the attempts are not held to 100.
MergePctUnbounded(p, in) ==
  LET sum == AllAttempts(in) IN
    IF sum # Nil /\ (p.pct = Nil \/ sum > p.pct) THEN sum ELSE p.pct

\* Variant: the latest sum counts, whatever it is.
MergePctLatest(p, in) ==
  LET sum == AllAttempts(in) IN
    IF sum # Nil /\ (p.pct = Nil \/ sum <= 100) THEN sum ELSE p.pct

MergePct(p, in) ==
  LET sum == AllAttempts(in) IN
    IF sum # Nil /\ (p.pct = Nil \/ (sum <= 100 /\ sum > p.pct)) THEN sum ELSE p.pct

\* The amounts are compared without their units.
MergeData(p, in) ==
  LET sum == IF past.data = Nil THEN in.data
             ELSE IF in.data = Nil THEN past.data ELSE AddDataSize(past.data, in.data)
  IN  IF sum # Nil /\ (p.data = Nil \/ sum.val > p.data.val) THEN sum ELSE p.data

\* Variant: the total of files is left as it is.
MergeTotalKept(p, in) == p.total

MergeTotal(p, in) == IF in.total = Nil THEN p.total ELSE in.total

Merge(p, in) ==
  [pct     |-> MergePct(p, in),
   data    |-> MergeData(p, in),
   total   |-> MergeTotal(p, in),
   files   |-> p.files + in.files,
   failed  |-> p.failed \cup in.failed,
   retries |-> IF in.retries = Nil THEN p.retries ELSE in.retries,
   code    |-> p.code]

Status(p) ==
  IF p.code = 0 THEN "Succeeded"
  ELSE IF p.code # Nil
    THEN IF p.files = 0 /\ (p.data = Nil \/ p.data.val = 0) /\ p.total = Nil
         THEN "Failed" ELSE "Partially failed"
  ELSE IF p.pct = Nil THEN "Preparing"
  ELSE IF p.pct >= 100 THEN "Finishing up" ELSE "Transfer in-progress"

\* AsString asks for the Status, which sets the percentage of a success.
AsString(p) == IF Status(p) = "Succeeded" THEN [p EXCEPT !.pct = 100] ELSE p

-----------------------------------------------------------------------------
(* The rounds of the goroutine.                                            *)

\* A chunk is parsed and merged; a retry makes the progress so far the past.
Parse(lines, code) ==
  LET in     == ParseRsyncLogs(lines)
      merged == Merge([progress EXCEPT !.code = code], in)
  IN  /\ progress' = AsString(merged)
      /\ past' = IF in.retries = Nil THEN past
                 ELSE [pct |-> merged.pct, data |-> merged.data]
      /\ seen' = seen \cup {f.name : f \in in.failed}

\* The beginning of the line after line n, of which c texts are visible.
Beginning(n, c) == IF c = 0 THEN <<>> ELSE <<Beginnings(log[n + 1])[c]>>

\* Bytes arrive: the rest of the line that was cut, lines, and the beginning of
\* another one, which is parsed and kept to be parsed again.
ReadLines ==
  /\ rd = "read"
  /\ pos' \in pos..Len(log)
  /\ cut' \in 0..(IF pos' = Len(log) THEN 0 ELSE Len(Beginnings(log[pos' + 1])))
  /\ pos' > pos \/ cut' > cut
  /\ Parse(SubSeq(log, pos + 1, pos') \o Beginning(pos', cut'), Nil)
  /\ zeroBytes' = 0
  /\ UNCHANGED <<log, rd>>

\* Nothing arrives: what was kept is parsed again.
ReadNothing ==
  /\ rd = "read"
  /\ Parse(Beginning(pos, cut), Nil)
  /\ zeroBytes' = zeroBytes + 1
  /\ rd' = IF zeroBytes' > MaxZeroReads THEN "ended" ELSE "read"
  /\ UNCHANGED <<log, pos, cut>>

FinalLogs == SubSeq(log, IF Len(log) > TailLines THEN Len(log) - TailLines + 1 ELSE 1, Len(log))

\* EOF: the exit code, if it can be had, and the last lines of the log, or as
\* many of them as can be had, in place of what was kept.
ReadEOF ==
  /\ rd = "read"
  /\ \E code \in ExitCodes \cup {Nil}, n \in 0..Len(FinalLogs) : Parse(SubSeq(FinalLogs, 1, n), code)
  /\ rd' = "ended"
  /\ UNCHANGED <<log, pos, cut, zeroBytes>>

\* Another error: what was read last is not parsed.
ReadFails ==
  /\ rd = "read"
  /\ rd' = "ended"
  /\ UNCHANGED <<log, pos, cut, zeroBytes, progress, past, seen>>

\* The goroutine is gone; what rsync still writes is not read.
Finished == rd = "ended" /\ UNCHANGED vars

Rsync == RsyncCopies \/ RsyncEnds \/ RsyncRetries

Next == Rsync \/ ReadLines \/ ReadNothing \/ ReadEOF \/ ReadFails \/ Finished

Spec == Init /\ [][Next]_vars

-----------------------------------------------------------------------------
(* Properties.                                                             *)

TypeOK ==
  /\ pos \in 0..Len(log)
  /\ cut \in Nat
  /\ zeroBytes \in 0..(MaxZeroReads + 1)
  /\ rd \in {"read", "ended"}
  /\ progress.pct \in 0..100 \cup {Nil}
  /\ progress.data \in Amounts \cup {Nil}
  /\ progress.total \in {TotalFiles, Nil}
  /\ progress.files \in Nat
  /\ progress.failed \subseteq [name : Names, text : {"cut", "whole"}]
  /\ progress.retries \in Nat \cup {Nil}
  /\ progress.code \in ExitCodes \cup {Nil}
  /\ past.pct \in 0..100 \cup {Nil}
  /\ past.data \in Amounts \cup {Nil}
  /\ seen \subseteq Names

\* What has been shown is not taken back, though every retry starts rsync's own
\* counting anew and the end of the log is parsed twice: the percentage and the
\* files never go back, a failed file stays on the list with its error, and, until
\* the end of the log is fetched, the retries do not go back.
NeverBack ==
  [][/\ progress.pct # Nil => progress'.pct # Nil /\ progress'.pct >= progress.pct
     /\ progress'.files >= progress.files
     /\ progress.failed \subseteq progress'.failed
     /\ progress.total # Nil => progress'.total = progress.total
     /\ progress.retries # Nil /\ rd' = "read" => progress'.retries >= progress.retries]_vars

\* Every file that a parsed line says has failed is on the list, and once, though
\* its line may be parsed up to three times, and rsync fails on it in every
\* attempt.
FailedFilesOnce ==
  /\ \A f, g \in progress.failed : f.name = g.name => f = g
  /\ \A i \in Of(log, "failed") :
       i <= pos => \E f \in progress.failed : f.name = log[i].value.name

Moved(line) == \/ line.kind \in {"stats", "progress"}
               \/ line.kind = "count" /\ line.value > 0

\* A transfer is said to have failed, and not to have failed partially, only if no
\* line that was parsed, in any attempt, says that anything was transferred or
\* that rsync came to its statistics.
FailedMeansNothingMoved ==
  Status(progress) = "Failed" => \A i \in 1..pos : ~Moved(log[i])

\* "also returns data that was not processed, this is useful because log stream
\* can have incomplete lines" (cmd/transfer-pvc/progress.go:430): the beginning
\* of a line that is kept for the next round has not been added to the number of
\* transferred files.
UnprocessedIsNot ==
  [][rd' = "read" => progress'.files =
       progress.files + First(SubSeq(log, pos + 1, pos'), "count", 0)]_vars

\* "aggregate percentage of all retries" (cmd/transfer-pvc/progress.go:365): the
\* percentage is no more than what rsync has reached in its attempts together.
AttemptEnds == {i \in Of(log, "progress") :
                  \A j \in Of(log, "progress") :
                    j > i => \E k \in Of(log, "retry") : i < k /\ k < j}

PctIsOfAttempts ==
  progress.pct # Nil /\ progress.code # 0 =>
    progress.pct <= MapThenSumSet(LAMBDA i : log[i].value.pct, AttemptEnds)

\* "aggregate transferred data of all retries" (cmd/transfer-pvc/progress.go:383):
\* it is no less than what the attempt that was just read has transferred.
Bytes(amount) == amount.val * PowerOfTen(amount.unit)

DataIsAggregated ==
  [][pos' > pos =>
       LET in == ParseRsyncLogs(SubSeq(log, pos + 1, pos'))
       IN  in.data # Nil => Bytes(progress'.data) >= Bytes(in.data)]_vars

=============================================================================
