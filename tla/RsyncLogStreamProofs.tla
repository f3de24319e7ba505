------------------------ MODULE RsyncLogStreamProofs ------------------------
(***************************************************************************)
(* Proofs about RsyncLogStream, for every log, every number of tolerated   *)
(* empty reads and polls, and with or without a progress file.             *)
(***************************************************************************)
EXTENDS RsyncLogStream, TLAPS

\* The goroutine's loop, the stretch after it, and the deferred calls.
InLoop    == {"loop", "read", "status", "finalLogs", "stdout", "stderr", "err"}
Deferred  == {"closeErr", "closeStderr", "closeStdout", "wgDone", "streamClose", "done"}
AfterLoop == {"file"} \cup Deferred

Shown == Follow!Shown

-----------------------------------------------------------------------------
(* The inductive invariant, part by part.                                  *)

\* Who may stand where: the goroutine is in its loop exactly while
\* followClientLogs is in its own.
Phases ==
  /\ rd = "unborn" => cn \in {"waitPod", "openStream", "returned"} /\ ~cancelled
  /\ rd \in InLoop => cn = "select" /\ ~cancelled
  /\ rd \in AfterLoop => cn \in {"close", "wait", "returned"}
  /\ cn = "returned" => rd \in {"unborn", "streamClose", "done"}

\* The wait group and the channels follow the deferred calls.
Bookkeeping ==
  /\ wg = IF rd \in {"unborn", "streamClose", "done"} THEN 0 ELSE 1
  /\ rd = "closeStderr" => closed = {"err"}
  /\ rd = "closeStdout" => closed = {"err", "stderr"}
  /\ rd \in {"wgDone", "streamClose", "done"} => closed = Channels
  /\ rd \in {"unborn", "file", "closeErr"} \cup InLoop => closed = {}

\* What the goroutine's counters and its err tell of its place.
Rounds ==
  /\ rd \in {"unborn", "loop", "read"} =>
       err = "nil" /\ polls = 0 /\ zeroBytes <= MaxZeroReads
  /\ rd \in {"status", "finalLogs"} => err = "EOF"
  /\ rd = "status" => polls < MaxPolls
  /\ rd = "stdout" /\ err = "nil" => polls = 0 /\ zeroBytes <= MaxZeroReads
  /\ rd \in {"stderr", "err"} \cup AfterLoop => err # "nil"

\* An exit code is known only of a container that has ended, and comes with
\* the end of its log.
Codes ==
  /\ exit \in ExitCodes <=> Ended
  /\ progress.code # NoCode =>
       /\ pod = "terminated"
       /\ progress.code = exit
       /\ rd \in {"finalLogs", "stdout", "stderr", "err"} \cup AfterLoop
       /\ err = "EOF" /\ rd # "finalLogs" => Tail(written) \subseteq progress.lines
       /\ err # "nil"
  /\ rd = "finalLogs" /\ progress.code = NoCode => polls = MaxPolls
  /\ rd \in {"stdout", "stderr", "err"} \cup AfterLoop /\ err = "EOF" /\ progress.code = NoCode =>
       zeroBytes > MaxZeroReads \/ polls = MaxPolls

\* The screen trails the progress from the read to the send of it.
Screen ==
  /\ rd \in {"status", "finalLogs", "stdout"} =>
       /\ Shown.lines \subseteq progress.lines
       /\ Shown.code = NoCode
  /\ rd \notin {"status", "finalLogs", "stdout"} => Shown = progress
  /\ rd = "unborn" => screen = Blank
  /\ rd \in {"stderr", "err"} \cup AfterLoop /\ err = "EOF" => screen # Blank
  /\ rd = "stderr" => progress.code # NoCode
  /\ warned = IF rd \in {"err"} \cup AfterLoop THEN Failures ELSE {}

\* The file and the result are settled after the loop.
Outcome ==
  /\ rd \notin Deferred \/ ~SaveProgress => saved = NotTried
  /\ rd \in Deferred /\ SaveProgress => saved \in {progress, Unwritten}
  /\ rd \in InLoop => result = "nil"
  /\ rd = "unborn" => (result = "nil" <=> cn # "returned")
  /\ rd \in AfterLoop => (result = "nil" <=> err = "EOF")

Inv == TypeOK /\ Phases /\ Bookkeeping /\ Rounds /\ Codes /\ Screen /\ Outcome

-----------------------------------------------------------------------------
(* The invariant is inductive.                                             *)

\* Nothing has been started yet, so every part of the invariant holds.
LEMMA InitInv == Init => Inv
  <1> SUFFICES ASSUME Init
               PROVE  Inv
    OBVIOUS
  <1> USE StreamAssumption
      DEF Init, InLoop, AfterLoop, Deferred, NoProgress, Follow!NoProgress
  <1>1. Shown = NoProgress /\ Failures = {}
    BY DEF Shown, Follow!Shown, Failures
  <1>2. TypeOK
    <2>1. progress \in Progresses
      BY DEF Progresses, Follow!Progresses
    <2>2. /\ exit \in ExitCodes \cup {NoCode} /\ avail \in 0..written /\ pos \in 0..avail
          /\ zeroBytes \in 0..(MaxZeroReads + 1) /\ polls \in 0..MaxPolls
      OBVIOUS
    <2>3. closed \in SUBSET Channels /\ warned \in SUBSET Nat
      OBVIOUS
    <2> QED
      BY <2>1, <2>2, <2>3 DEF TypeOK, PodStates, ReaderStates, FollowerStates
  <1>3. Phases /\ Bookkeeping /\ Rounds
    BY DEF Phases, Bookkeeping, Rounds
  <1>4. Codes
    BY DEF Codes, Ended
  <1>5. Screen /\ Outcome
    BY <1>1 DEF Screen, Outcome
  <1> QED
    BY <1>2, <1>3, <1>4, <1>5 DEF Inv

\* Every step of the pod, the goroutine and followClientLogs preserves it.
LEMMA NextInv == Inv /\ [Next]_vars => Inv'
  <1> SUFFICES ASSUME Inv, [Next]_vars
               PROVE  Inv'
    OBVIOUS
  <1> USE StreamAssumption
      DEF Inv, TypeOK, Phases, Bookkeeping, Rounds, Codes, Screen, Outcome,
          Shown, Follow!Shown, Progresses, Follow!Progresses, NoProgress,
          Follow!NoProgress, InLoop, AfterLoop, Deferred, Ended, Failures, Channels,
          PodStates, ReaderStates, FollowerStates,
          vars, world, podVars, readVars, chanVars, userVars
  <1>1. CASE PodAdvances
    BY <1>1 DEF PodAdvances
  <1>2. CASE RsyncWrites
    BY <1>2 DEF RsyncWrites, Tail
  <1>3. CASE RsyncExits
    BY <1>3 DEF RsyncExits
  <1>4. CASE StreamEnds
    BY <1>4 DEF StreamEnds
  <1>5. CASE CheckCancelled
    BY <1>5 DEF CheckCancelled
  <1>6. CASE ReadLines
    BY <1>6 DEF ReadLines, ParseAndMerge
  <1>7. CASE ReadNothing
    BY <1>7 DEF ReadNothing, ErrAfter
  <1>8. CASE ReadEOF
    BY <1>8 DEF ReadEOF
  <1>9. CASE ReadFails
    BY <1>9 DEF ReadFails
  <1>10. CASE PollStatus
    BY <1>10 DEF PollStatus, CountPoll
  <1>11. CASE PollStatusFails
    BY <1>11 DEF PollStatusFails, CountPoll, StatusErr
  <1>12. CASE FinalLogs
    BY <1>12 DEF FinalLogs, ParseAndMerge, Tail
  <1>13. CASE FinalLogsFail
    BY <1>13 DEF FinalLogsFail, ParseAndMerge, StatusErr, Tail
  <1>14. CASE WriteProgressToFile
    BY <1>14 DEF WriteProgressToFile
  <1>15. CASE CloseChannels
    <2>0. closed' \in SUBSET Channels
      BY <1>15 DEF CloseChannels, CloseChannel
    <2>1. TypeOK'
      BY <1>15, <2>0 DEF CloseChannels, CloseChannel
    <2>2. Phases'
      BY <1>15, <2>0 DEF CloseChannels, CloseChannel
    <2>3. Bookkeeping'
      BY <1>15, <2>0 DEF CloseChannels, CloseChannel
    <2>4. Rounds'
      BY <1>15, <2>0 DEF CloseChannels, CloseChannel
    <2>5. Codes'
      BY <1>15, <2>0 DEF CloseChannels, CloseChannel
    <2>6. Screen'
      BY <1>15, <2>0 DEF CloseChannels, CloseChannel
    <2>7. Outcome'
      BY <1>15, <2>0 DEF CloseChannels, CloseChannel
    <2> QED
      BY <2>1, <2>2, <2>3, <2>4, <2>5, <2>6, <2>7
  <1>16. CASE WgDone
    BY <1>16 DEF WgDone
  <1>17. CASE StreamClose
    BY <1>17 DEF StreamClose
  <1>18. CASE WaitForPodRunning
    BY <1>18 DEF WaitForPodRunning
  <1>19. CASE WaitForPodFails
    BY <1>19 DEF WaitForPodFails, InitFails
  <1>20. CASE OpenStream
    BY <1>20 DEF OpenStream
  <1>21. CASE OpenStreamFails
    BY <1>21 DEF OpenStreamFails, InitFails
  <1>22. CASE ReceiveStdout
    <2>0. rd = "stdout"
      BY <1>22 DEF ReceiveStdout, Receive
    <2>1. TypeOK'
      BY <1>22, <2>0 DEF ReceiveStdout, Receive, EndsLoop, AfterStdout, AfterStderr
    <2>2. Phases'
      BY <1>22, <2>0 DEF ReceiveStdout, Receive, EndsLoop, AfterStdout, AfterStderr
    <2>3. Bookkeeping'
      BY <1>22, <2>0 DEF ReceiveStdout, Receive, EndsLoop, AfterStdout, AfterStderr
    <2>4. Rounds'
      BY <1>22, <2>0 DEF ReceiveStdout, Receive, EndsLoop, AfterStdout, AfterStderr
    <2>5. Codes'
      BY <1>22, <2>0 DEF ReceiveStdout, Receive, EndsLoop, AfterStdout, AfterStderr
    <2>6. Screen'
      BY <1>22, <2>0 DEF ReceiveStdout, Receive, EndsLoop, AfterStdout, AfterStderr
    <2>7. Outcome'
      BY <1>22, <2>0 DEF ReceiveStdout, Receive, EndsLoop, AfterStdout, AfterStderr
    <2> QED
      BY <2>1, <2>2, <2>3, <2>4, <2>5, <2>6, <2>7
  <1>23. CASE ReceiveStderr
    BY <1>23 DEF ReceiveStderr, Receive, EndsLoop, AfterStderr
  <1>24. CASE ReceiveErr
    BY <1>24 DEF ReceiveErr, Receive, EndsLoop, AfterErr
  <1>25. CASE Cancel
    BY <1>25 DEF Cancel
  <1>26. CASE WaitReader
    BY <1>26 DEF WaitReader, ReaderGone
  <1>27. CASE Finished
    BY <1>27 DEF Finished
  <1>28. CASE UNCHANGED vars
    BY <1>28
  <1> QED
    BY <1>1, <1>2, <1>3, <1>4, <1>5, <1>6, <1>7, <1>8, <1>9, <1>10, <1>11, <1>12, <1>13, <1>14,
       <1>15, <1>16, <1>17, <1>18, <1>19, <1>20, <1>21, <1>22, <1>23, <1>24, <1>25, <1>26, <1>27, <1>28
    DEF Next, Environment, Reader, Read, Finish, Follower, StartFollowing, Select

\* The invariant holds throughout: the goroutine and followClientLogs stay in
\* step whatever the pod, its log stream and the API server do.
THEOREM Invariance == Spec => []Inv
  BY InitInv, NextInv, PTL DEF Spec

-----------------------------------------------------------------------------
(* What follows from it.                                                   *)

\* Every variable keeps its type; in particular the reads of nothing and the
\* looks at the pod stay within their limits.
THEOREM TypeCorrect == Spec => []TypeOK
  BY Invariance, PTL DEF Inv

\* A send of the goroutine always has its receiver, so that the wait in Close
\* cannot be for a goroutine stuck in a send.
THEOREM SendsAreReceived == Spec => []SendHasReceiver
  <1>1. Inv => SendHasReceiver
    BY DEF Inv, Phases, SendHasReceiver, Channels, InLoop
  <1> QED
    BY <1>1, Invariance, PTL

\* The select loop never receives from a closed channel.
THEOREM NoClosedChannel == Spec => []LoopSeesNoClosedChannel
  <1>1. Inv => LoopSeesNoClosedChannel
    BY DEF Inv, TypeOK, ReaderStates, Phases, Bookkeeping, LoopSeesNoClosedChannel,
           InLoop, AfterLoop, Deferred
  <1> QED
    BY <1>1, Invariance, PTL

\* When followClientLogs returns the goroutine has closed its channels and
\* tried to save the progress.
THEOREM SavedOnReturn == Spec => []ReturnedMeansSaved
  <1>1. Inv => ReturnedMeansSaved
    BY StreamAssumption
    DEF Inv, TypeOK, Phases, Bookkeeping, Outcome, Deferred, ReturnedMeansSaved
  <1> QED
    BY <1>1, Invariance, PTL

\* A follow without an error has shown all of the last progress.
THEOREM AllShown == Spec => []NilResultShowsAll
  <1>1. Inv => NilResultShowsAll
    <2> SUFFICES ASSUME Inv, cn = "returned", result = "nil"
                 PROVE  NilResultShowsAll
      BY DEF NilResultShowsAll
    <2>1. rd \in {"streamClose", "done"} /\ err = "EOF"
      BY DEF Inv, Phases, Outcome, AfterLoop, Deferred
    <2>2. screen # Blank /\ Shown = progress /\ warned = Failures
      BY <2>1 DEF Inv, Screen, AfterLoop, Deferred
    <2>3. screen = progress
      BY <2>2 DEF Shown, Follow!Shown
    <2>4. saved \in {progress, Unwritten, NotTried}
      BY <2>1, StreamAssumption DEF Inv, Outcome, Deferred
    <2> QED
      BY <2>2, <2>3, <2>4 DEF NilResultShowsAll
  <1> QED
    BY <1>1, Invariance, PTL

\* A follow without an error knows the container's exit code and the end of
\* its log, or gave up on a silent stream or a late status.
THEOREM NilExplained == Spec => []NilResultIsExplained
  <1>1. Inv => NilResultIsExplained
    <2> SUFFICES ASSUME Inv, cn = "returned", result = "nil"
                 PROVE  NilResultIsExplained
      BY DEF NilResultIsExplained
    <2>1. rd \in AfterLoop /\ err = "EOF"
      BY DEF Inv, Phases, Outcome, AfterLoop, Deferred
    <2>2. CASE progress.code = NoCode
      BY <2>1, <2>2 DEF Inv, Codes, NilResultIsExplained
    <2>3. CASE progress.code # NoCode
      BY <2>1, <2>3 DEF Inv, Codes, AfterLoop, Deferred, NilResultIsExplained
    <2> QED
      BY <2>2, <2>3
  <1> QED
    BY <1>1, Invariance, PTL

-----------------------------------------------------------------------------
(* RsyncLogStream implements LogFollow.                                    *)

\* The initial states of the log stream are those of the promise.
LEMMA InitFollow == Init => Follow!AInit
  BY DEF Init, Follow!AInit

\* Every step shows, warns, saves, refuses or returns, or is not seen at all.
LEMMA NextFollow ==
  ASSUME Inv, Inv', [Next]_vars
  PROVE  [Follow!ANext]_(Follow!avars)
  <1> USE DEF Follow!avars, vars, world, podVars, readVars, chanVars, userVars
  \* Steps that neither show, save nor return.
  <1>1. CASE Environment
    BY <1>1 DEF Environment, PodAdvances, RsyncWrites, RsyncExits, StreamEnds
  <1>2. CASE CheckCancelled \/ Read
    BY <1>2 DEF CheckCancelled, Read, ReadLines, ReadNothing, ReadEOF, ReadFails
  <1>3. CASE Finish
    BY <1>3 DEF Finish, PollStatus, PollStatusFails, FinalLogs, FinalLogsFail
  <1>4. CASE CloseChannels \/ WgDone \/ StreamClose
    BY <1>4 DEF CloseChannels, CloseChannel, WgDone, StreamClose
  <1>5. CASE WaitForPodRunning \/ OpenStream \/ ReceiveErr \/ Cancel
    BY <1>5 DEF WaitForPodRunning, OpenStream, ReceiveErr, Receive, EndsLoop, Cancel
  \* Steps of the abstract specification.
  <1>6. CASE WaitForPodFails \/ OpenStreamFails
    <2>1. rd = "unborn"
      BY <1>6 DEF WaitForPodFails, OpenStreamFails, Inv, TypeOK, ReaderStates, Phases,
                  InLoop, AfterLoop, Deferred
    <2>2. Follow!Refuse
      BY <1>6, <2>1 DEF WaitForPodFails, OpenStreamFails, InitFails, Follow!Refuse,
                        Inv, Screen, Outcome, Deferred
    <2> QED
      BY <2>2 DEF Follow!ANext
  <1>7. CASE ReceiveStdout
    <2>1. rd = "stdout"
      BY <1>7 DEF ReceiveStdout, Receive, Inv, TypeOK, ReaderStates, Phases, Bookkeeping,
                  InLoop, AfterLoop, Deferred
    <2>2. /\ cn = "select" /\ cn' = "select"
          /\ screen' = progress /\ UNCHANGED <<warned, saved, result>>
      BY <1>7, <2>1 DEF ReceiveStdout, Receive, EndsLoop
    <2>3. Shown.lines \subseteq progress.lines /\ Shown.code = NoCode
      BY <2>1 DEF Inv, Screen
    <2>4. saved = NotTried /\ progress \in Progresses
      BY <2>1 DEF Inv, TypeOK, Outcome, Deferred
    <2>5. Follow!Show
      BY <2>2, <2>3, <2>4 DEF Follow!Show, Shown, Progresses
    <2> QED
      BY <2>5 DEF Follow!ANext
  <1>8. CASE ReceiveStderr
    <2>1. rd = "stderr"
      BY <1>8 DEF ReceiveStderr, Receive, Inv, TypeOK, ReaderStates, Phases, Bookkeeping,
                  InLoop, AfterLoop, Deferred
    <2>2. /\ cn = "select" /\ cn' = "select"
          /\ warned' = Failures /\ UNCHANGED <<screen, saved, result>>
      BY <1>8, <2>1 DEF ReceiveStderr, Receive, EndsLoop
    <2>3. Shown = progress /\ progress.code # NoCode /\ saved = NotTried
      BY <2>1 DEF Inv, Screen, Outcome, Deferred
    <2>4. Follow!Warn
      BY <2>2, <2>3 DEF Follow!Warn, Shown, Failures
    <2> QED
      BY <2>4 DEF Follow!ANext
  <1>9. CASE WriteProgressToFile
    <2>1. /\ cn # "returned" /\ cn' = cn
          /\ UNCHANGED <<screen, warned, result>>
      BY <1>9 DEF WriteProgressToFile, Inv, Phases
    <2>2. Shown = progress /\ saved = NotTried
      BY <1>9 DEF WriteProgressToFile, Inv, Screen, Outcome, Deferred
    <2>3. CASE SaveProgress
      <3>1. Follow!Save
        BY <1>9, <2>1, <2>2, <2>3 DEF WriteProgressToFile, Follow!Save, Shown
      <3> QED
        BY <3>1 DEF Follow!ANext
    <2>4. CASE ~SaveProgress
      BY <1>9, <2>1, <2>4 DEF WriteProgressToFile
    <2> QED
      BY <2>3, <2>4
  <1>10. CASE WaitReader
    <2>1. /\ cn # "returned" /\ cn' = "returned"
          /\ UNCHANGED <<rd, err, progress, screen, warned, saved, result>>
      BY <1>10 DEF WaitReader
    <2>2. rd \in AfterLoop /\ rd \in Deferred
      BY <1>10 DEF WaitReader, ReaderGone, Inv, TypeOK, ReaderStates, Phases, Bookkeeping,
                   InLoop, AfterLoop, Deferred
    <2>3. Shown = progress /\ warned = Failures
      BY <2>2 DEF Inv, Screen, AfterLoop, Deferred
    <2>4. result \in {"nil", "error"} /\ (result = "nil" => screen # Blank)
      BY <2>2 DEF Inv, TypeOK, Screen, Outcome
    <2>5. SaveProgress => saved # NotTried
      BY <2>2, StreamAssumption DEF Inv, TypeOK, Outcome, Progresses
    <2>6. Follow!Return
      BY <2>1, <2>3, <2>4, <2>5 DEF Follow!Return, Shown, Failures
    <2> QED
      BY <2>6 DEF Follow!ANext
  <1>11. CASE UNCHANGED vars
    BY <1>11
  <1> QED
    BY <1>1, <1>2, <1>3, <1>4, <1>5, <1>6, <1>7, <1>8, <1>9, <1>10, <1>11
    DEF Next, Reader, Follower, StartFollowing, Select, Finished

\* followClientLogs and its goroutine keep what LogFollow promises: nothing is
\* shown or saved after the return, and nothing is lost before it.
THEOREM ImplementsLogFollow == Spec => FollowSpec
  <1>1. Inv /\ Inv' /\ [Next]_vars => [Follow!ANext]_(Follow!avars)
    BY NextFollow
  <1> QED
    BY InitFollow, Invariance, <1>1, PTL DEF Spec, FollowSpec, Follow!ASpec
=============================================================================
