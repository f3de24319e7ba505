--------------------------- MODULE RsyncLogStream ---------------------------
(***************************************************************************)
(* Following the logs of the rsync client pod (cmd/transfer-pvc): the      *)
(* goroutine of rsyncLogStream that reads the pod's log stream, parses it  *)
(* and sends the progress over three unbuffered channels; followClientLogs *)
(* which waits for the pod, receives and prints; and the pod itself.       *)
(*                                                                         *)
(* A log line is a number: rsync writes lines 1, 2, ... in order.  What a  *)
(* line says is left out but for whether it names a failed file.           *)
(***************************************************************************)
EXTENDS Naturals

CONSTANTS MaxZeroReads, \* reads of nothing in a row that are tolerated (4)
          MaxPolls,     \* looks at the pod before its exit code is given up (6)
          TailLines,    \* lines of the final log request (35)
          MaxLines,     \* bound: the lines rsync writes
          FailedLines, SaveProgress, NoCode, ExitCodes,
          Blank, NotTried, Unwritten

VARIABLES pod,        \* what the API server says of the client pod
          exit,       \* the exit code of the rsync container
          written,    \* lines rsync has written so far
          stream,     \* the follow stream of the pod's log
          avail,      \* lines that have entered the stream
          rd,         \* where the goroutine stands
          pos,        \* lines the goroutine has read from the stream
          zeroBytes,  \* reads of nothing in a row
          polls,      \* looks at the pod in getFinalPodStatus
          err,        \* the goroutine's err: "nil", "EOF" or "error"
          progress,   \* r.progress
          closed,     \* the channels that are closed
          cancelled,  \* r.ctx is done
          wg,         \* the count of r.wg
          cn,         \* where followClientLogs stands
          result,     \* the err it returns: "nil" or "error"
          screen,     \* the progress printed last
          warned,     \* the failed files printed last
          saved       \* the progress file

podVars  == <<pod, exit, written>>
readVars == <<rd, pos, zeroBytes, polls, err, progress>>
chanVars == <<closed, cancelled, wg>>
userVars == <<cn, result, screen, warned>>
world    == <<podVars, stream, avail>>
vars == <<world, readVars, chanVars, userVars, saved>>

Channels   == {"stdout", "stderr", "err"}
Follow     == INSTANCE LogFollow WITH
                result <- IF cn = "returned" THEN result ELSE "none"
Progresses == Follow!Progresses
NoProgress == Follow!NoProgress

ASSUME StreamAssumption ==
  /\ MaxZeroReads \in Nat
  /\ MaxPolls \in Nat \ {0}
  /\ TailLines \in Nat
  /\ MaxLines \in Nat
  /\ ExitCodes # {}
  /\ NoCode \notin ExitCodes
  /\ Blank \notin Progresses
  /\ NotTried \notin Progresses \cup {Unwritten}
  /\ Unwritten \notin Progresses
  /\ SaveProgress \in BOOLEAN

\* The last TailLines lines of a log of n lines.
Tail(n) == {l \in 1..n : l + TailLines > n}

PodStates == {"unmatched", "starting", "unready", "running", "exited", "terminated"}
ReaderStates == {"unborn", "loop", "read", "status", "finalLogs", "stdout", "stderr",
                 "err", "file", "closeErr", "closeStderr", "closeStdout", "wgDone",
                 "streamClose", "done"}
FollowerStates == {"waitPod", "openStream", "select", "close", "wait", "returned"}
Ended     == pod \in {"exited", "terminated"}

Init ==
  /\ pod = "unmatched" /\ exit = NoCode /\ written = 0
  /\ stream = "unopened" /\ avail = 0
  /\ rd = "unborn" /\ pos = 0 /\ zeroBytes = 0 /\ polls = 0 /\ err = "nil"
  /\ progress = NoProgress
  /\ closed = {} /\ cancelled = FALSE /\ wg = 0
  /\ cn = "waitPod" /\ result = "nil"
  /\ screen = Blank /\ warned = {} /\ saved = NotTried

-----------------------------------------------------------------------------
(* The pod and the kubelet.  "unmatched": not exactly one pod has the      *)
(* labels; "starting": the pod has no container status yet; "exited":      *)
(* rsync has ended, "terminated": and the pod's status says so.            *)

\* The pod's status moves on; the kubelet may skip reporting some of it.
PodAdvances ==
  /\ pod' \in {next \in PodStates : <<pod, next>> \in
       {<<"unmatched", "starting">>, <<"unmatched", "unready">>, <<"unmatched", "running">>,
        <<"starting", "unready">>, <<"starting", "running">>,
        <<"unready", "running">>, <<"exited", "terminated">>}}
  /\ UNCHANGED <<exit, written, stream, avail, readVars, chanVars, userVars, saved>>

RsyncWrites ==
  /\ pod = "running"
  /\ written < MaxLines
  /\ written' = written + 1
  /\ avail' = IF stream = "open" THEN written' ELSE avail
  /\ UNCHANGED <<pod, exit, stream, readVars, chanVars, userVars, saved>>

RsyncExits ==
  /\ pod = "running"
  /\ pod' = "exited"
  /\ exit' \in ExitCodes
  /\ UNCHANGED <<written, stream, avail, readVars, chanVars, userVars, saved>>

\* The follow stream ends: at the end of the container's log, or cut before.
\* It ends with EOF, with an error, or without either ("silent").
StreamEnds ==
  /\ stream = "open"
  /\ stream' \in {"eof", "silent", "broken"}
  /\ UNCHANGED <<podVars, avail, readVars, chanVars, userVars, saved>>

-----------------------------------------------------------------------------
(* followClientLogs up to the start of the goroutine: rsyncLogStream.Init. *)

\* Init fails: followClientLogs returns before it defers Close.
InitFails ==
  /\ cn' = "returned"
  /\ result' = "error"
  /\ UNCHANGED <<world, readVars, chanVars, screen, warned, saved>>

\* A poll of waitForPodRunning that finds the pod: a pod that reports no
\* container yet passes, and so does one whose container has terminated.
WaitForPodRunning ==
  /\ cn = "waitPod"
  /\ pod \in {"starting", "running", "exited", "terminated"}
  /\ cn' = "openStream"
  /\ UNCHANGED <<world, readVars, chanVars, result, screen, warned, saved>>

\* The poll's list call fails, or five minutes are over.
WaitForPodFails == cn = "waitPod" /\ InitFails

OpenStreamFails == cn = "openStream" /\ InitFails

\* The log request succeeds once the container has started.
OpenStream ==
  /\ cn = "openStream"
  /\ pod \in {"running", "exited", "terminated"}
  /\ cn' = "select"
  /\ stream' = "open"
  /\ avail' = written
  /\ rd' = "loop"
  /\ wg' = 1
  /\ UNCHANGED <<podVars, pos, zeroBytes, polls, err, progress, closed, cancelled,
                 result, screen, warned, saved>>

-----------------------------------------------------------------------------
(* The goroutine.                                                          *)

\* The context is looked at once per round: when it is done the goroutine
\* returns past the progress file.
CheckCancelled ==
  /\ rd = "loop"
  /\ rd' = IF cancelled THEN "closeErr" ELSE "read"
  /\ UNCHANGED <<world, pos, zeroBytes, polls, err, progress, chanVars, userVars, saved>>

\* parseRsyncLogs of the given lines, and Merge into r.progress.
ParseAndMerge(lines, code) ==
  progress' = [lines |-> progress.lines \cup lines, code |-> code]

\* Read returns bytes and no error.
ReadLines ==
  /\ rd = "read"
  /\ pos' \in (pos + 1)..avail
  /\ zeroBytes' = 0
  /\ ParseAndMerge((pos + 1)..pos', progress.code)
  /\ rd' = "stdout"
  /\ UNCHANGED <<world, polls, err, chanVars, userVars, saved>>

\* Variant: reads of nothing are counted and never acted on.
ErrAfterIgnored(n) == err

\* The goroutine's err after the n-th read of nothing in a row.
ErrAfter(n) == IF n > MaxZeroReads THEN "EOF" ELSE err

\* Read returns neither bytes nor an error.
ReadNothing ==
  /\ rd = "read"
  /\ pos = avail
  /\ stream \in {"open", "silent"}
  /\ zeroBytes' = zeroBytes + 1
  /\ err' = ErrAfter(zeroBytes + 1)
  /\ rd' = "stdout"
  /\ UNCHANGED <<world, pos, polls, progress, chanVars, userVars, saved>>

\* Read returns EOF, with the last bytes or alone.  Those bytes are added to
\* logString, which the final logs replace: they are read and not parsed.
ReadEOF ==
  /\ rd = "read"
  /\ stream = "eof"
  /\ pos' = avail
  /\ zeroBytes' = IF pos' > pos THEN 0 ELSE zeroBytes + 1
  /\ err' = "EOF"
  /\ rd' = "status"
  /\ UNCHANGED <<world, polls, progress, chanVars, userVars, saved>>

\* Read fails: the error is sent as it is, what was read is not parsed.
ReadFails ==
  /\ rd = "read"
  /\ stream = "broken" \/ cancelled
  /\ pos' \in pos..avail
  /\ zeroBytes' = IF pos' > pos THEN 0 ELSE zeroBytes + 1
  /\ err' = "error"
  /\ rd' = "err"
  /\ UNCHANGED <<world, polls, progress, chanVars, userVars, saved>>

\* Variant: the looks at the pod are not counted.
CountPollNot == polls

CountPoll == polls + 1

\* One look of getFinalPodStatus at the pod.
PollStatus ==
  /\ rd = "status"
  /\ polls' = CountPoll
  /\ progress' = [progress EXCEPT !.code = IF pod = "terminated" THEN exit ELSE NoCode]
  /\ rd' = IF polls' >= MaxPolls \/ pod = "terminated" THEN "finalLogs" ELSE "status"
  /\ UNCHANGED <<world, pos, zeroBytes, err, chanVars, userVars, saved>>

\* Variant: the error of getFinalPodStatus is dropped.
StatusErrDropped == err

\* The goroutine's err when getFinalPodStatus fails: it hides the EOF.
StatusErr == "error"

\* The pod cannot be read: no code, no final logs.
PollStatusFails ==
  /\ rd = "status"
  /\ polls' = CountPoll
  /\ err' = StatusErr
  /\ progress' = [progress EXCEPT !.code = NoCode]
  /\ rd' = "stdout"
  /\ UNCHANGED <<world, pos, zeroBytes, chanVars, userVars, saved>>

\* The final logs are parsed in place of what was read last.
FinalLogs ==
  /\ rd = "finalLogs"
  /\ ParseAndMerge(Tail(written), progress.code)
  /\ rd' = "stdout"
  /\ UNCHANGED <<world, pos, zeroBytes, polls, err, chanVars, userVars, saved>>

\* The final logs cannot be had, or only their beginning.
FinalLogsFail ==
  /\ rd = "finalLogs"
  /\ err' = StatusErr
  /\ \E n \in 0..written : ParseAndMerge({l \in Tail(written) : l <= n}, progress.code)
  /\ rd' = "stdout"
  /\ UNCHANGED <<world, pos, zeroBytes, polls, chanVars, userVars, saved>>

\* The failed files are listed on stderr once the exit code is known.
Failures == IF progress.code = NoCode THEN {} ELSE progress.lines \cap FailedLines

AfterStderr == IF err = "nil" THEN "loop" ELSE "err"

\* Variant: nothing is ever sent to stderr.
AfterStdoutQuiet == AfterStderr

AfterStdout == IF Failures = {} THEN AfterStderr ELSE "stderr"

\* Variant: sending the err does not break the loop.
AfterErrLoop == "loop"

AfterErr == "file"

WriteProgressToFile ==
  /\ rd = "file"
  /\ saved' \in IF SaveProgress THEN {progress, Unwritten} ELSE {saved}
  /\ rd' = "closeErr"
  /\ UNCHANGED <<world, pos, zeroBytes, polls, err, progress, chanVars, userVars>>

\* The deferred calls, last one first.
CloseChannel(ch, here, next) ==
  /\ rd = here
  /\ closed' = closed \cup {ch}
  /\ rd' = next
  /\ UNCHANGED <<world, pos, zeroBytes, polls, err, progress, cancelled, wg, userVars, saved>>

CloseChannels ==
  \/ CloseChannel("err", "closeErr", "closeStderr")
  \/ CloseChannel("stderr", "closeStderr", "closeStdout")
  \/ CloseChannel("stdout", "closeStdout", "wgDone")

WgDone ==
  /\ rd = "wgDone"
  /\ wg' = wg - 1
  /\ rd' = "streamClose"
  /\ UNCHANGED <<world, pos, zeroBytes, polls, err, progress, closed, cancelled,
                 userVars, saved>>

StreamClose ==
  /\ rd = "streamClose"
  /\ stream' = "closed"
  /\ rd' = "done"
  /\ UNCHANGED <<podVars, avail, pos, zeroBytes, polls, err, progress, chanVars,
                 userVars, saved>>

-----------------------------------------------------------------------------
(* The select loop.  An unbuffered send and its receive are one step.      *)

\* Variant: output on stderr ends the loop, too.
EndsLoopStderr(ch) == ch \in {"err", "stderr"}

\* Variant: the loop goes on after an EOF.
EndsLoopNot(ch) == ch = "err" /\ err # "EOF"

\* What is received on the err channel, an EOF or the channel's end included,
\* ends the loop; a closed stdout or stderr is left alone.
EndsLoop(ch) == ch = "err"

Receive(ch, next) ==
  /\ cn = "select"
  /\ rd = ch \/ ch \in closed
  /\ rd' = IF rd = ch THEN next ELSE rd
  /\ cn' = IF EndsLoop(ch) THEN "close" ELSE cn
  /\ UNCHANGED <<world, pos, zeroBytes, polls, err, progress, chanVars, saved>>

ReceiveStdout ==
  /\ Receive("stdout", AfterStdout)
  /\ screen' = IF rd = "stdout" THEN progress ELSE screen
  /\ UNCHANGED <<result, warned>>

ReceiveStderr ==
  /\ Receive("stderr", AfterStderr)
  /\ warned' = IF rd = "stderr" THEN Failures ELSE warned
  /\ UNCHANGED <<result, screen>>

\* EOF is the end and no error.
ReceiveErr ==
  /\ Receive("err", AfterErr)
  /\ result' = IF rd = "err" /\ err # "EOF" THEN "error" ELSE result
  /\ UNCHANGED <<screen, warned>>

\* The deferred Close: cancel, then wait for the goroutine.
Cancel ==
  /\ cn = "close"
  /\ cancelled' = TRUE
  /\ cn' = "wait"
  /\ UNCHANGED <<world, readVars, closed, wg, result, screen, warned, saved>>

\* Variant: Close cancels and does not wait.
ReaderGoneOrNot == TRUE

ReaderGone == wg = 0

WaitReader ==
  /\ cn = "wait"
  /\ ReaderGone
  /\ cn' = "returned"
  /\ UNCHANGED <<world, readVars, chanVars, result, screen, warned, saved>>

-----------------------------------------------------------------------------
Environment == PodAdvances \/ RsyncWrites \/ RsyncExits \/ StreamEnds

Read   == ReadLines \/ ReadNothing \/ ReadEOF \/ ReadFails
Finish == PollStatus \/ PollStatusFails \/ FinalLogs \/ FinalLogsFail
Reader == \/ CheckCancelled \/ Read \/ Finish \/ WriteProgressToFile
          \/ CloseChannels \/ WgDone \/ StreamClose

\* What the goroutine cannot put off: anything but reading nothing from a
\* stream that is still open.  No request has to fail.
ReaderSteps == \/ CheckCancelled \/ ReadLines \/ ReadEOF \/ ReadFails
               \/ stream = "silent" /\ ReadNothing
               \/ PollStatus \/ FinalLogs \/ WriteProgressToFile
               \/ CloseChannels \/ WgDone \/ StreamClose

StartFollowing == \/ WaitForPodRunning \/ WaitForPodFails
                  \/ OpenStream \/ OpenStreamFails
Select   == ReceiveStdout \/ ReceiveStderr \/ ReceiveErr
Follower == StartFollowing \/ Select \/ Cancel \/ WaitReader

\* followClientLogs has returned and the goroutine, if any, is gone.
Finished ==
  /\ cn = "returned"
  /\ rd \in {"unborn", "done"}
  /\ UNCHANGED vars

Next == Environment \/ Reader \/ Follower \/ Finished

(* The goroutine and the caller are scheduled; a container that has exited *)
(* ends its log stream.  Nothing is assumed of a running container, of its *)
(* stream or of the kubelet's status updates.                              *)
Fairness ==
  /\ WF_vars(ReaderSteps)
  /\ WF_vars(StartFollowing)
  /\ WF_vars(Select)
  /\ WF_vars(Cancel)
  /\ WF_vars(WaitReader)
  /\ WF_vars(Ended /\ StreamEnds)

Spec == Init /\ [][Next]_vars /\ Fairness

-----------------------------------------------------------------------------
(* Properties.                                                             *)

TypeOK ==
  /\ pod \in PodStates
  /\ exit \in ExitCodes \cup {NoCode}
  /\ written \in Nat
  /\ stream \in {"unopened", "open", "eof", "silent", "broken", "closed"}
  /\ avail \in 0..written
  /\ rd \in ReaderStates
  /\ pos \in 0..avail
  /\ zeroBytes \in 0..(MaxZeroReads + 1)
  /\ polls \in 0..MaxPolls
  /\ err \in {"nil", "EOF", "error"}
  /\ progress \in Progresses
  /\ closed \in SUBSET Channels
  /\ cancelled \in BOOLEAN
  /\ wg \in {0, 1}
  /\ cn \in FollowerStates
  /\ result \in {"nil", "error"}
  /\ screen \in Progresses \cup {Blank}
  /\ warned \in SUBSET Nat
  /\ saved \in Progresses \cup {NotTried, Unwritten}

\* The goroutine is never stuck in a send: whenever it has something to send,
\* followClientLogs is in its select loop.  (Close waits for the goroutine,
\* and a send does not look at the context.)
SendHasReceiver == rd \in Channels => cn = "select"

\* followClientLogs leaves its loop for an error that was sent and never
\* because a channel was closed under it: the "not ok" branches of the select
\* are never taken, so no err of the goroutine is lost.
LoopSeesNoClosedChannel == cn = "select" => closed = {}

\* Once the goroutine has run, followClientLogs returns only after it has
\* closed its channels and tried to save the progress, if that was asked for:
\* cancelling its context does not make it skip the file.
ReturnedMeansSaved ==
  cn = "returned" /\ rd # "unborn" =>
    /\ rd \in {"streamClose", "done"}
    /\ closed = Channels
    /\ SaveProgress => saved # NotTried

\* A follow that ends without an error has shown all it knows: the screen is
\* the goroutine's last progress, the failed files are those of this progress,
\* and a progress file that could be written holds the same.
NilResultShowsAll ==
  cn = "returned" /\ result = "nil" =>
    /\ screen = progress
    /\ warned = Failures
    /\ saved \in {progress, Unwritten, NotTried}

\* A follow that ends without an error knows the container's exit code and has
\* parsed the end of its log, where rsync prints its errors and totals; if not,
\* then the stream fell silent or the pod's status came too late.
NilResultIsExplained ==
  cn = "returned" /\ result = "nil" =>
    \/ progress.code = exit /\ exit # NoCode /\ Tail(written) \subseteq progress.lines
    \/ progress.code = NoCode /\ (zeroBytes > MaxZeroReads \/ polls = MaxPolls)

\* What followClientLogs promises.
FollowSpec == Follow!ASpec

\* When rsync has ended, the follow ends, whatever becomes of the log stream,
\* the pod's status and the requests.
FollowEnds == Ended ~> cn = "returned"

=============================================================================
