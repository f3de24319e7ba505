------------------------ MODULE MigrationFilesProofs ------------------------
(***************************************************************************)
(* Proofs about MigrationFiles: for any resources, contents and patches,   *)
(* any number of runs and interruptions at any file operation.             *)
(***************************************************************************)
EXTENDS MigrationFiles, TLAPS

TransformSteps == {"createWhiteout", "removeWhiteout", "create", "write",
                   "createIgnored", "writeIgnored"}
ApplySteps     == {"createOutput", "writeOutput"}
Kept           == [patch : Patches, ignored : BOOLEAN]

-----------------------------------------------------------------------------
(* The inductive invariant, part by part.                                  *)

\* Which command makes which file operation, on a file or on none.
Control ==
  /\ at = "next" <=> current = Absent
  /\ at \in TransformSteps => command = "transform"
  /\ at \in ApplySteps => command = "apply"
  /\ at = "writeResult" => command = "runfn"
  /\ command = "idle" => todo = {}
  /\ applied => command = "idle"

\* The operations lead from the directories as they were found to the answer.
InWorkOK ==
  /\ at = "createWhiteout" => answers[current] = WhiteOut
  /\ at \in TransformSteps \ {"createWhiteout"} => answers[current] \in Kept
  /\ at \in {"create", "write", "createIgnored", "writeIgnored"} => current \notin whiteout
  /\ at \in {"createIgnored", "writeIgnored"} => patch[current] = answers[current].patch

\* An apply writes only what is kept, and what it has done is right.
ApplyOK ==
  /\ at \in ApplySteps => current \notin whiteout /\ patch[current] # Partial
  /\ command = "apply" => \A f \in Exported \ (todo \cup whiteout) : output[f] = Patched(f)
  /\ applied => \A f \in Exported \ whiteout : output[f] = Patched(f)

\* What is worked on has been read; without a transform directory there are no
\* results, so that a runfn which may start adds to none of an earlier one.
ReadOK ==
  /\ command \in {"transform", "apply"} => Readable
  /\ command = "runfn" => \A f \in todo : exported[f] \in Versions /\ input[f] = exported[f]
  /\ ~dirExists => at # "writeResult" /\ \A f \in Files : results[f] = Absent

Settled == TypeOK /\ Control /\ InWorkOK /\ ApplyOK /\ SettledAnswerInForce /\ DoneIsSettled

Inv == Settled /\ ReadOK /\ ResultsOfOneExport

-----------------------------------------------------------------------------
(* The invariant is inductive.                                             *)

\* The directories of the commands are empty and none is running.
LEMMA InitInv == Init => Inv
  <1> SUFFICES ASSUME Init
               PROVE  Inv
    OBVIOUS
  <1> USE FilesAssumption DEF Init
  <1>1. TypeOK
    <2>1. answers \in [Files -> Answers]
      BY DEF Answers
    <2>2. /\ patch \in [Files -> Patches \cup {Absent, Partial}]
          /\ ignored \in [Files -> Patches \cup {Absent, Partial}]
          /\ output \in [Files -> Outputs \cup {Absent, Partial}]
          /\ settled \in [Files -> Answers \cup {Absent}]
          /\ exported \in [Files -> Versions \cup {Absent, Partial}]
          /\ results \in [Files -> Versions \cup {Absent, Partial}]
          /\ input \in [Files -> Versions \cup {Absent}]
          /\ dirExists \in BOOLEAN
      OBVIOUS
    <2>3. commands \in 0..MaxCommands /\ current \in todo \cup {Absent}
      OBVIOUS
    <2> QED
      BY <2>1, <2>2, <2>3 DEF TypeOK
  <1>2. Control /\ InWorkOK /\ ApplyOK
    BY DEF Control, InWorkOK, ApplyOK, TransformSteps, ApplySteps
  <1>3. SettledAnswerInForce
    <2>1. Absent \notin [patch : Patches, ignored : {TRUE}]
      <3>1. [patch : Patches, ignored : {TRUE}] \subseteq [patch : Patches, ignored : BOOLEAN]
        OBVIOUS
      <3> QED
        BY <3>1
    <2> QED
      BY <2>1 DEF SettledAnswerInForce, InForce, Asked, InWork
  <1>4. DoneIsSettled
    BY DEF DoneIsSettled
  <1>5. ReadOK /\ ResultsOfOneExport
    BY DEF ReadOK, ResultsOfOneExport
  <1> QED
    BY <1>1, <1>2, <1>3, <1>4, <1>5 DEF Inv, Settled

\* Every file operation, every start, end and interruption preserves what is
\* said of the directories of transform and apply ...
LEMMA NextSettled == Inv /\ [Next]_vars => Settled'
  <1> SUFFICES ASSUME Inv, [Next]_vars
               PROVE  Settled'
    OBVIOUS
  <1> USE FilesAssumption
      DEF Inv, Settled, TypeOK, Control, InWorkOK, ApplyOK, SettledAnswerInForce, DoneIsSettled,
          TransformSteps, ApplySteps, Kept, Answers, Outputs, Exported, Patched, InForce,
          Asked, InWork, vars, directories, progress, history, functions
  <1>1. CASE Interrupt
    <2>1. TypeOK'
      BY <1>1 DEF Interrupt, Stop
    <2>2. Control' /\ InWorkOK' /\ ApplyOK'
      BY <1>1 DEF Interrupt, Stop
    <2>3. SettledAnswerInForce'
      <3> SUFFICES ASSUME NEW f \in Files, f \notin unsettled'
                   PROVE  /\ InForce(f)' = Asked(settled'[f])
                          /\ settled'[f] \in [patch : Patches, ignored : {TRUE}] /\ SaveIgnored =>
                               ignored'[f] = settled'[f].patch
        OBVIOUS
      <3>1. f \notin unsettled /\ ~InWork(f)
        BY <1>1 DEF Interrupt
      <3>2. UNCHANGED <<whiteout, patch, ignored, settled>>
        BY <1>1 DEF Interrupt, Stop
      <3> QED
        BY <3>1, <3>2
    <2>4. DoneIsSettled'
      BY <1>1 DEF Interrupt, Stop
    <2> QED
      BY <2>1, <2>2, <2>3, <2>4
  <1>2. CASE StartTransform
    <2>1. TypeOK'
      <3>1. current = Absent /\ todo' = Exported /\ commands' \in 0..MaxCommands
        BY <1>2 DEF StartTransform, Start, Begin, ReadFiles
      <3> QED
        BY <1>2, <3>1 DEF StartTransform, Start, Begin, ReadFiles
    <2>2. Control'
      BY <1>2 DEF StartTransform, Start, Begin, ReadFiles
    <2>3. InWorkOK'
      BY <1>2 DEF StartTransform, Start, Begin, ReadFiles
    <2>4. ApplyOK'
      BY <1>2 DEF StartTransform, Start, Begin, ReadFiles
    <2>5. SettledAnswerInForce'
      BY <1>2 DEF StartTransform, Start, Begin, ReadFiles
    <2>6. DoneIsSettled'
      BY <1>2 DEF StartTransform, Start, Begin, ReadFiles
    <2> QED
      BY <2>1, <2>2, <2>3, <2>4, <2>5, <2>6
  <1>3. CASE EndTransform
    <2>1. TypeOK'
      BY <1>3 DEF EndTransform, Stop
    <2>2. Control'
      BY <1>3 DEF EndTransform, Stop
    <2>3. InWorkOK'
      BY <1>3 DEF EndTransform, Stop
    <2>4. ApplyOK'
      BY <1>3 DEF EndTransform, Stop
    <2>5. SettledAnswerInForce'
      <3>1. \A f \in Files : ~InWork(f)
        BY <1>3 DEF EndTransform, Stop
      <3> QED
        BY <1>3, <3>1 DEF EndTransform, Stop
    <2>6. DoneIsSettled'
      BY <1>3 DEF EndTransform, Stop
    <2> QED
      BY <2>1, <2>2, <2>3, <2>4, <2>5, <2>6
  <1>4. CASE \E f \in Files : PickTransform(f)
    <2>1. TypeOK'
      BY <1>4 DEF PickTransform
    <2>2. Control'
      BY <1>4 DEF PickTransform
    <2>3. InWorkOK'
      BY <1>4 DEF PickTransform
    <2>4. ApplyOK'
      BY <1>4 DEF PickTransform
    <2>5. SettledAnswerInForce'
      <3>1. \A f \in Files : ~InWork(f)
        BY <1>4 DEF PickTransform
      <3> QED
        BY <1>4, <3>1 DEF PickTransform
    <2>6. DoneIsSettled'
      BY <1>4 DEF PickTransform
    <2> QED
      BY <2>1, <2>2, <2>3, <2>4, <2>5, <2>6
  <1>5. CASE CreateWhiteout
    <2>1. TypeOK'
      BY <1>5 DEF CreateWhiteout, NextFile, Settle
    <2>2. Control'
      BY <1>5 DEF CreateWhiteout, NextFile, Settle
    <2>3. InWorkOK'
      BY <1>5 DEF CreateWhiteout, NextFile, Settle
    <2>4. ApplyOK'
      BY <1>5 DEF CreateWhiteout, NextFile, Settle
    <2>5. SettledAnswerInForce'
      <3>1. current \in Files /\ current # Absent /\ command = "transform"
        BY <1>5 DEF CreateWhiteout, NextFile, Settle
      <3> SUFFICES ASSUME NEW f \in Files, f \notin unsettled', ~InWork(f)'
                   PROVE  /\ InForce(f)' = Asked(settled'[f])
                          /\ settled'[f] \in [patch : Patches, ignored : {TRUE}] /\ SaveIgnored =>
                               ignored'[f] = settled'[f].patch
        OBVIOUS
      <3>2. CASE f # current
        <4>1. f \notin unsettled /\ ~InWork(f)
          BY <1>5, <3>1, <3>2 DEF CreateWhiteout, NextFile, Settle
        <4>2. InForce(f)' = InForce(f) /\ settled'[f] = settled[f] /\ ignored'[f] = ignored[f]
          BY <1>5, <3>1, <3>2 DEF CreateWhiteout, NextFile, Settle
        <4> QED
          BY <4>1, <4>2
      <3>3. CASE f = current
        <4>1. settled'[f] = answers[f] /\ answers[f] \in Answers
          BY <1>5, <3>1, <3>3 DEF CreateWhiteout, NextFile, Settle
        <4>2. InForce(f)' = Asked(answers[f])
          BY <1>5, <3>1, <3>3, <4>1 DEF CreateWhiteout, NextFile, Settle
        <4>3. answers[f] \notin [patch : Patches, ignored : {TRUE}]
          <5>1. answers[f] = WhiteOut
            BY <1>5, <3>3 DEF CreateWhiteout
          <5>2. [patch : Patches, ignored : {TRUE}] \subseteq [patch : Patches, ignored : BOOLEAN]
            OBVIOUS
          <5> QED
            BY <5>1, <5>2
        <4> QED
          BY <4>1, <4>2, <4>3
      <3> QED
        BY <3>2, <3>3
    <2>6. DoneIsSettled'
      BY <1>5 DEF CreateWhiteout, NextFile, Settle
    <2> QED
      BY <2>1, <2>2, <2>3, <2>4, <2>5, <2>6
  <1>6. CASE RemoveWhiteout
    BY <1>6 DEF RemoveWhiteout, WithoutWhiteout
  <1>7. CASE CreateTransform
    BY <1>7 DEF CreateTransform
  <1>8. CASE WriteTransform
    <2>1. TypeOK'
      BY <1>8 DEF WriteTransform, NextFile, Settle, HasIgnored
    <2>2. Control'
      BY <1>8 DEF WriteTransform, NextFile, Settle, HasIgnored
    <2>3. InWorkOK'
      BY <1>8 DEF WriteTransform, NextFile, Settle, HasIgnored
    <2>4. ApplyOK'
      BY <1>8 DEF WriteTransform, NextFile, Settle, HasIgnored
    <2>5. SettledAnswerInForce'
      <3>1. current \in Files /\ current # Absent /\ command = "transform"
        BY <1>8 DEF WriteTransform, NextFile, Settle, HasIgnored
      <3> SUFFICES ASSUME NEW f \in Files, f \notin unsettled', ~InWork(f)'
                   PROVE  /\ InForce(f)' = Asked(settled'[f])
                          /\ settled'[f] \in [patch : Patches, ignored : {TRUE}] /\ SaveIgnored =>
                               ignored'[f] = settled'[f].patch
        OBVIOUS
      <3>2. CASE f # current
        <4>1. f \notin unsettled /\ ~InWork(f)
          BY <1>8, <3>1, <3>2 DEF WriteTransform, NextFile, Settle, HasIgnored
        <4>2. InForce(f)' = InForce(f) /\ settled'[f] = settled[f] /\ ignored'[f] = ignored[f]
          BY <1>8, <3>1, <3>2 DEF WriteTransform, NextFile, Settle, HasIgnored
        <4> QED
          BY <4>1, <4>2
      <3>3. CASE f = current
        <4>1. settled'[f] = answers[f] /\ answers[f] \in Answers
          BY <1>8, <3>1, <3>3 DEF WriteTransform, NextFile, Settle, HasIgnored
        <4>2. InForce(f)' = Asked(answers[f])
          BY <1>8, <3>1, <3>3, <4>1 DEF WriteTransform, NextFile, Settle, HasIgnored
        <4>3. answers[f] \in [patch : Patches, ignored : {TRUE}] /\ SaveIgnored =>
                ignored'[f] = answers[f].patch
          BY <1>8, <3>1, <3>3, <4>1 DEF WriteTransform, NextFile, Settle, HasIgnored
        <4> QED
          BY <4>1, <4>2, <4>3
      <3> QED
        BY <3>2, <3>3
    <2>6. DoneIsSettled'
      BY <1>8 DEF WriteTransform, NextFile, Settle, HasIgnored
    <2> QED
      BY <2>1, <2>2, <2>3, <2>4, <2>5, <2>6
  <1>9. CASE CreateIgnored
    BY <1>9 DEF CreateIgnored
  <1>10. CASE WriteIgnored
    <2>1. TypeOK'
      BY <1>10 DEF WriteIgnored, NextFile, Settle
    <2>2. Control'
      BY <1>10 DEF WriteIgnored, NextFile, Settle
    <2>3. InWorkOK'
      BY <1>10 DEF WriteIgnored, NextFile, Settle
    <2>4. ApplyOK'
      BY <1>10 DEF WriteIgnored, NextFile, Settle
    <2>5. SettledAnswerInForce'
      <3>1. current \in Files /\ current # Absent /\ command = "transform"
        BY <1>10 DEF WriteIgnored, NextFile, Settle
      <3> SUFFICES ASSUME NEW f \in Files, f \notin unsettled', ~InWork(f)'
                   PROVE  /\ InForce(f)' = Asked(settled'[f])
                          /\ settled'[f] \in [patch : Patches, ignored : {TRUE}] /\ SaveIgnored =>
                               ignored'[f] = settled'[f].patch
        OBVIOUS
      <3>2. CASE f # current
        <4>1. f \notin unsettled /\ ~InWork(f)
          BY <1>10, <3>1, <3>2 DEF WriteIgnored, NextFile, Settle
        <4>2. InForce(f)' = InForce(f) /\ settled'[f] = settled[f] /\ ignored'[f] = ignored[f]
          BY <1>10, <3>1, <3>2 DEF WriteIgnored, NextFile, Settle
        <4> QED
          BY <4>1, <4>2
      <3>3. CASE f = current
        <4>1. settled'[f] = answers[f] /\ answers[f] \in Answers
          BY <1>10, <3>1, <3>3 DEF WriteIgnored, NextFile, Settle
        <4>2. InForce(f)' = Asked(answers[f])
          BY <1>10, <3>1, <3>3, <4>1 DEF WriteIgnored, NextFile, Settle
        <4>3. answers[f] \in [patch : Patches, ignored : {TRUE}] /\ SaveIgnored =>
                ignored'[f] = answers[f].patch
          BY <1>10, <3>1, <3>3, <4>1 DEF WriteIgnored, NextFile, Settle
        <4> QED
          BY <4>1, <4>2, <4>3
      <3> QED
        BY <3>2, <3>3
    <2>6. DoneIsSettled'
      BY <1>10 DEF WriteIgnored, NextFile, Settle
    <2> QED
      BY <2>1, <2>2, <2>3, <2>4, <2>5, <2>6
  <1>11. CASE StartApply
    <2>1. TypeOK'
      <3>1. current = Absent /\ todo' = Exported /\ commands' \in 0..MaxCommands
        BY <1>11 DEF StartApply, Start, Begin, ReadFiles
      <3> QED
        BY <1>11, <3>1 DEF StartApply, Start, Begin, ReadFiles
    <2>2. Control'
      BY <1>11 DEF StartApply, Start, Begin, ReadFiles
    <2>3. InWorkOK'
      BY <1>11 DEF StartApply, Start, Begin, ReadFiles
    <2>4. ApplyOK'
      BY <1>11 DEF StartApply, Start, Begin, ReadFiles
    <2>5. SettledAnswerInForce'
      BY <1>11 DEF StartApply, Start, Begin, ReadFiles
    <2>6. DoneIsSettled'
      BY <1>11 DEF StartApply, Start, Begin, ReadFiles
    <2> QED
      BY <2>1, <2>2, <2>3, <2>4, <2>5, <2>6
  <1>12. CASE EndApply
    BY <1>12 DEF EndApply, Stop
  <1>13. CASE \E f \in Files : SkipFile(f)
    <2>1. TypeOK'
      BY <1>13 DEF SkipFile, Skipped
    <2>2. Control'
      BY <1>13 DEF SkipFile, Skipped
    <2>3. InWorkOK'
      BY <1>13 DEF SkipFile, Skipped
    <2>4. ApplyOK'
      BY <1>13 DEF SkipFile, Skipped
    <2>5. SettledAnswerInForce'
      BY <1>13 DEF SkipFile, Skipped
    <2>6. DoneIsSettled'
      BY <1>13 DEF SkipFile, Skipped
    <2> QED
      BY <2>1, <2>2, <2>3, <2>4, <2>5, <2>6
  <1>14. CASE \E f \in Files : PickApply(f)
    <2>1. TypeOK'
      BY <1>14 DEF PickApply, Skipped, Applicable
    <2>2. Control'
      BY <1>14 DEF PickApply, Skipped, Applicable
    <2>3. InWorkOK'
      BY <1>14 DEF PickApply, Skipped, Applicable
    <2>4. ApplyOK'
      BY <1>14 DEF PickApply, Skipped, Applicable
    <2>5. SettledAnswerInForce'
      BY <1>14 DEF PickApply, Skipped, Applicable
    <2>6. DoneIsSettled'
      BY <1>14 DEF PickApply, Skipped, Applicable
    <2> QED
      BY <2>1, <2>2, <2>3, <2>4, <2>5, <2>6
  <1>15. CASE CreateOutput
    <2>1. TypeOK'
      BY <1>15 DEF CreateOutput
    <2>2. Control'
      BY <1>15 DEF CreateOutput
    <2>3. InWorkOK'
      BY <1>15 DEF CreateOutput
    <2>4. ApplyOK'
      BY <1>15 DEF CreateOutput
    <2>5. SettledAnswerInForce'
      BY <1>15 DEF CreateOutput
    <2>6. DoneIsSettled'
      BY <1>15 DEF CreateOutput
    <2> QED
      BY <2>1, <2>2, <2>3, <2>4, <2>5, <2>6
  <1>16. CASE WriteOutput
    <2>1. TypeOK'
      <3>1. current \in Files /\ exported[current] \in Versions
        BY <1>16 DEF WriteOutput, NextFile, ReadOK, Readable
      <3>2. patch[current] \in Patches \cup {Absent}
        BY <1>16, <3>1 DEF WriteOutput, NextFile
      <3>3. Patched(current) \in Outputs
        BY <1>16, <3>1, <3>2 DEF WriteOutput, NextFile
      <3>4. todo' \in SUBSET Exported'
        BY <1>16, <3>1, <3>2, <3>3 DEF WriteOutput, NextFile
      <3> QED
        BY <1>16, <3>1, <3>2, <3>3, <3>4 DEF WriteOutput, NextFile
    <2>2. Control'
      BY <1>16 DEF WriteOutput, NextFile
    <2>3. InWorkOK'
      BY <1>16 DEF WriteOutput, NextFile
    <2>4. ApplyOK'
      BY <1>16 DEF WriteOutput, NextFile
    <2>5. SettledAnswerInForce'
      BY <1>16 DEF WriteOutput, NextFile
    <2>6. DoneIsSettled'
      BY <1>16 DEF WriteOutput, NextFile
    <2> QED
      BY <2>1, <2>2, <2>3, <2>4, <2>5, <2>6
  <1>17. CASE \E f \in Files : Export(f)
    <2>1. TypeOK'
      <3>1. todo = {} /\ current = Absent
        BY <1>17 DEF Export
      <3>2. exported' \in [Files -> Versions \cup {Absent, Partial}]
        BY <1>17, <3>1 DEF Export
      <3>3. todo' \in SUBSET Exported' /\ current' \in todo' \cup {Absent}
        BY <1>17, <3>1, <3>2 DEF Export
      <3>4. applied' \in BOOLEAN
        BY <1>17, <3>1, <3>2, <3>3 DEF Export
      <3> QED
        BY <1>17, <3>1, <3>2, <3>3, <3>4 DEF Export
    <2>2. Control'
      BY <1>17 DEF Export
    <2>3. InWorkOK'
      BY <1>17 DEF Export
    <2>4. ApplyOK'
      BY <1>17 DEF Export
    <2>5. SettledAnswerInForce'
      BY <1>17 DEF Export
    <2>6. DoneIsSettled'
      BY <1>17 DEF Export
    <2> QED
      BY <2>1, <2>2, <2>3, <2>4, <2>5, <2>6
  <1>18. CASE StartRunFn
    <2>1. TypeOK'
      <3>1. current = Absent /\ todo' \subseteq Exported /\ commands' \in 0..MaxCommands
        BY <1>18 DEF StartRunFn, Begin, Passed
      <3>2. input' \in [Files -> Versions \cup {Absent}]
        BY <1>18 DEF StartRunFn, Passed
      <3> QED
        BY <1>18, <3>1, <3>2 DEF StartRunFn, Begin
    <2>2. Control' /\ InWorkOK' /\ ApplyOK'
      BY <1>18 DEF StartRunFn, Begin
    <2>3. SettledAnswerInForce' /\ DoneIsSettled'
      BY <1>18 DEF StartRunFn, Begin
    <2> QED
      BY <2>1, <2>2, <2>3
  <1>19. CASE \E f \in Files : CreateResult(f)
    <2>1. TypeOK'
      BY <1>19 DEF CreateResult
    <2>2. Control' /\ InWorkOK' /\ ApplyOK'
      BY <1>19 DEF CreateResult
    <2>3. SettledAnswerInForce' /\ DoneIsSettled'
      BY <1>19 DEF CreateResult
    <2> QED
      BY <2>1, <2>2, <2>3
  <1>20. CASE WriteResult
    <2>1. TypeOK'
      BY <1>20 DEF WriteResult, NextFile
    <2>2. Control' /\ InWorkOK' /\ ApplyOK'
      BY <1>20 DEF WriteResult, NextFile
    <2>3. SettledAnswerInForce' /\ DoneIsSettled'
      BY <1>20 DEF WriteResult, NextFile
    <2> QED
      BY <2>1, <2>2, <2>3
  <1>21. CASE EndRunFn
    <2>1. TypeOK'
      BY <1>21 DEF EndRunFn, Stop
    <2>2. Control' /\ InWorkOK' /\ ApplyOK'
      BY <1>21 DEF EndRunFn, Stop
    <2>3. SettledAnswerInForce' /\ DoneIsSettled'
      BY <1>21 DEF EndRunFn, Stop
    <2> QED
      BY <2>1, <2>2, <2>3
  <1>22. CASE UNCHANGED vars
    BY <1>22
  <1> QED
    BY <1>1, <1>2, <1>3, <1>4, <1>5, <1>6, <1>7, <1>8, <1>9,
       <1>10, <1>11, <1>12, <1>13, <1>14, <1>15, <1>16, <1>17, <1>18,
       <1>19, <1>20, <1>21, <1>22
    DEF Next, Transform, Apply, RunFn

\* ... and what is said of the results of runfn.
LEMMA NextRead == Inv /\ [Next]_vars => ReadOK' /\ ResultsOfOneExport'
  <1> SUFFICES ASSUME Inv, [Next]_vars
               PROVE  ReadOK' /\ ResultsOfOneExport'
    OBVIOUS
  <1> USE FilesAssumption
      DEF Inv, Settled, TypeOK, Control, ReadOK, ResultsOfOneExport, Readable, Exported
  <1>1. CASE Interrupt
    BY <1>1 DEF Interrupt, Stop, functions
  <1>2. CASE StartTransform \/ StartApply
    BY <1>2 DEF StartTransform, StartApply, Start, Begin, directories
  <1>3. CASE EndTransform \/ EndApply \/ EndRunFn
    BY <1>3 DEF EndTransform, EndApply, EndRunFn, Stop, functions
  <1>4. CASE \E f \in Files : PickTransform(f) \/ PickApply(f) \/ SkipFile(f)
    BY <1>4 DEF PickTransform, PickApply, SkipFile, directories, history
  <1>5. CASE CreateWhiteout \/ RemoveWhiteout \/ CreateTransform
    BY <1>5 DEF CreateWhiteout, RemoveWhiteout, CreateTransform, NextFile, Settle,
                functions, history, TransformSteps
  <1>6. CASE WriteTransform \/ CreateIgnored \/ WriteIgnored
    BY <1>6 DEF WriteTransform, CreateIgnored, WriteIgnored, NextFile, Settle,
                functions, history, TransformSteps
  <1>7. CASE CreateOutput \/ WriteOutput
    BY <1>7 DEF CreateOutput, WriteOutput, NextFile, history, ApplySteps
  <1>8. CASE StartRunFn
    <2>1. \A f \in Files : results'[f] = Absent
      BY <1>8 DEF StartRunFn, Begin, directories
    <2>2. \A f \in Passed : exported'[f] \in Versions /\ input'[f] = exported'[f]
      BY <1>8 DEF StartRunFn, Begin, Passed, directories
    <2> QED
      BY <1>8, <2>1, <2>2 DEF StartRunFn, Begin, Passed
  <1>9. CASE \E f \in Files : CreateResult(f)
    BY <1>9 DEF CreateResult, history
  <1>10. CASE WriteResult
    <2>1. current \in todo /\ command = "runfn" /\ dirExists
      <3>1. current \in todo /\ current # Absent /\ command = "runfn"
        BY <1>10 DEF WriteResult
      <3>2. dirExists
        BY <1>10 DEF WriteResult
      <3> QED
        BY <3>1, <3>2
    <2> QED
      BY <1>10, <2>1 DEF WriteResult, NextFile, history
  <1>11. CASE \E f \in Files : Export(f)
    BY <1>11 DEF Export, functions, progress
  <1>12. CASE UNCHANGED vars
    BY <1>12 DEF vars, directories, progress, history
  <1> QED
    BY <1>1, <1>2, <1>3, <1>4, <1>5, <1>6, <1>7, <1>8, <1>9, <1>10, <1>11, <1>12
    DEF Next, Transform, Apply, RunFn

LEMMA NextInv == Inv /\ [Next]_vars => Inv'
  BY NextSettled, NextRead DEF Inv

\* The invariant holds throughout.
THEOREM Invariance == Spec => []Inv
  BY InitInv, NextInv, PTL DEF Spec

-----------------------------------------------------------------------------
(* What follows from it.                                                   *)

\* Every variable keeps its type; in particular a command only works on
\* resources that have been exported, and no output is made of other patches
\* than complete ones.
THEOREM TypeCorrect == Spec => []TypeOK
  BY Invariance, PTL DEF Inv, Settled

\* The transform directory holds the last settled answer of every resource
\* but the ones a transform was interrupted at.
THEOREM SettledInForce == Spec => []SettledAnswerInForce
  BY Invariance, PTL DEF Inv, Settled

\* A transform that comes to its end has settled every exported resource.
THEOREM TransformSettles == Spec => []DoneIsSettled
  BY Invariance, PTL DEF Inv, Settled

\* The output of a complete apply is that of the present resources and of the
\* answers last settled.
THEOREM OutputIsCurrent == Spec => []AppliedIsCurrent
  <1>1. Inv => AppliedIsCurrent
    <2> SUFFICES ASSUME Inv, applied, NEW f \in Exported \ whiteout
                 PROVE  /\ output[f] = Patched(f)
                        /\ f \notin unsettled /\ settled[f] # Absent =>
                             output[f] = <<exported[f], settled[f].patch>>
      BY DEF AppliedIsCurrent
    <2>1. output[f] = Patched(f)
      BY DEF Inv, Settled, ApplyOK
    <2>2. ASSUME f \notin unsettled, settled[f] # Absent
          PROVE  output[f] = <<exported[f], settled[f].patch>>
      <3>1. f \in Files /\ ~InWork(f)
        BY DEF Inv, Settled, Control, Exported, InWork
      <3>2. patch[f] = Asked(settled[f]) /\ patch[f] \in Patches \cup {Absent, Partial}
        BY <2>2, <3>1 DEF Inv, Settled, TypeOK, SettledAnswerInForce, InForce
      <3>3. settled[f] \in [patch : Patches, ignored : BOOLEAN]
        BY <2>2, <3>1, <3>2, FilesAssumption DEF Inv, Settled, TypeOK, Answers, Asked
      <3>4. patch[f] = settled[f].patch /\ patch[f] # Absent
        BY <2>2, <3>2, <3>3, FilesAssumption DEF Asked
      <3> QED
        BY <2>1, <3>4 DEF Patched
    <2> QED
      BY <2>1, <2>2
  <1> QED
    BY <1>1, Invariance, PTL

\* No step writes output for a resource that is whited out, or other output
\* than what the directories say.
THEOREM OutputDecided == Spec => OutputIsDecided
  <1>1. Inv /\ [Next]_vars => [\A f \in Files : output'[f] # output[f] =>
          f \notin whiteout /\ output'[f] \in {Partial, Patched(f)}]_vars
    <2> SUFFICES ASSUME Inv, Next, NEW f \in Files, output'[f] # output[f]
                 PROVE  f \notin whiteout /\ output'[f] \in {Partial, Patched(f)}
      BY DEF vars
    <2>1. CASE CreateOutput \/ WriteOutput
      BY <2>1 DEF CreateOutput, WriteOutput, Inv, Settled, TypeOK, ApplyOK, ApplySteps
    <2>2. CASE UNCHANGED output
      BY <2>2
    <2>3. CASE Interrupt \/ Transform \/ StartApply \/ EndApply
      BY <2>2, <2>3
      DEF Interrupt, Transform, StartApply, EndApply, Start, Stop, StartTransform,
          EndTransform, PickTransform, CreateWhiteout, RemoveWhiteout, CreateTransform,
          WriteTransform, CreateIgnored, WriteIgnored, Begin, directories
    <2>4. CASE \E g \in Files : SkipFile(g) \/ PickApply(g) \/ Export(g)
      BY <2>2, <2>4 DEF SkipFile, PickApply, Export, directories
    <2>5. CASE RunFn
      BY <2>2, <2>5
      DEF RunFn, StartRunFn, CreateResult, WriteResult, EndRunFn, Begin, Stop, directories
    <2> QED
      BY <2>1, <2>3, <2>4, <2>5 DEF Next, Apply
  <1> QED
    BY <1>1, Invariance, PTL DEF Spec, OutputIsDecided

\* The results of runfn are those of one reading of the export.
THEOREM ResultsUnmixed == Spec => []ResultsOfOneExport
  BY Invariance, PTL DEF Inv

\* An empty resource file stops transform and apply before they change anything.
THEOREM AllOrNothing == Spec => NothingOfAPart
  <1>1. Inv /\ [Next]_vars => [(\E f \in Files : exported[f] = Partial) =>
          UNCHANGED <<whiteout, patch, ignored, output>>]_vars
    <2> SUFFICES ASSUME Inv, Next, ~Readable
                 PROVE  UNCHANGED <<whiteout, patch, ignored, output>>
      BY DEF vars, Readable
    <2>1. command \notin {"transform", "apply"}
      BY DEF Inv, ReadOK
    <2>2. at \notin TransformSteps \cup ApplySteps
      BY <2>1 DEF Inv, Settled, Control
    <2>3. CASE Interrupt
      BY <2>3 DEF Interrupt, Stop
    <2>4. CASE Transform \/ Apply
      BY <2>1, <2>2, <2>4
      DEF Transform, Apply, StartTransform, EndTransform, StartApply, EndApply, Start,
          PickTransform, PickApply, SkipFile, CreateWhiteout, RemoveWhiteout, CreateTransform,
          WriteTransform, CreateIgnored, WriteIgnored, CreateOutput, WriteOutput,
          TransformSteps, ApplySteps
    <2>5. CASE RunFn
      BY <2>5 DEF RunFn, StartRunFn, CreateResult, WriteResult, EndRunFn, Begin, Stop,
                  directories
    <2>6. CASE \E f \in Files : Export(f)
      BY <2>6 DEF Export
    <2> QED
      BY <2>3, <2>4, <2>5, <2>6 DEF Next
  <1> QED
    BY <1>1, Invariance, PTL DEF Spec, NothingOfAPart
=============================================================================
