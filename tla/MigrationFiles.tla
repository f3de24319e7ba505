--------------------------- MODULE MigrationFiles ---------------------------
(***************************************************************************)
(* The export, transform and output directories, and the commands that     *)
(* work on them: transform asks the plugins about every exported resource  *)
(* and keeps a whiteout file or a file of patches for it, apply writes the *)
(* patched resources to the output directory, and runfn passes the         *)
(* resources through a function and writes them to a transform directory   *)
(* of its own, by default the same one.  The commands are run any number   *)
(* of times, with other plugins or flags, over what the runs before them   *)
(* have left, and may be interrupted between any two file operations.      *)
(***************************************************************************)
EXTENDS Naturals

CONSTANTS Files,       \* the paths of the exported resources
          Versions,    \* the contents a resource may be exported with
          Patches,     \* the contents of a transform file
          SaveIgnored, \* TRUE when --ignored-patches-dir is given
          MaxCommands, \* bound: the commands started
          WhiteOut,    \* the plugins' answer that drops a resource
          Absent,      \* there is no such file
          Partial,     \* the file has been truncated and not been written
          Unpatched    \* the resource is taken as it was exported

ASSUME FilesAssumption ==
  /\ Absent \notin Files \cup Versions \cup Patches \cup {Partial, WhiteOut, Unpatched}
  /\ Partial \notin Versions \cup Patches \cup {WhiteOut, Unpatched}
  /\ WhiteOut \notin Patches \cup {Unpatched}
  /\ Unpatched \notin Patches
  /\ {WhiteOut, Absent} \cap [patch : Patches, ignored : BOOLEAN] = {}
  /\ SaveIgnored \in BOOLEAN
  /\ MaxCommands \in Nat

VARIABLES exported,  \* export directory: the version of each resource, or Partial
          whiteout,  \* transform directory: the resources with a .wh. file
          patch,     \* transform directory: the transform- files
          ignored,   \* ignored patches directory: the ignored- files
          output,    \* output directory
          dirExists, \* there is a transform directory
          results,   \* transform directory: what runfn has written
          command,   \* "idle", "transform", "apply" or "runfn"
          answers,   \* what the plugins answer in this transform
          todo,      \* the files read by ReadFiles that are still to do
          current,   \* the file in work, or Absent
          at,        \* the file operation that comes next
          commands,  \* commands started
          settled,   \* history: the answer each file was last settled with
          unsettled, \* history: files a transform was interrupted at
          applied,   \* history: the output is that of a complete apply
          input      \* history: the resources the last runfn has read

functions   == <<results, input>>
directories == <<exported, whiteout, patch, ignored, output, dirExists, results>>
progress    == <<command, answers, todo, current, at, commands>>
history     == <<settled, unsettled, applied, input>>
vars        == <<directories, progress, history>>

\* A plugin run answers with a whiteout, or with patches; some patches may
\* have lost against the patches of another plugin.
Answers == {WhiteOut} \cup [patch : Patches, ignored : BOOLEAN]

\* An output file holds a version of the resource and the patches applied.
Outputs == Versions \X (Patches \cup {Unpatched})

Exported == {f \in Files : exported[f] # Absent}

Init ==
  /\ exported \in [Files -> Versions \cup {Absent}]
  /\ dirExists = FALSE
  /\ results = [f \in Files |-> Absent]
  /\ input = [f \in Files |-> Absent]
  /\ whiteout = {}
  /\ patch = [f \in Files |-> Absent]
  /\ ignored = [f \in Files |-> Absent]
  /\ output = [f \in Files |-> Absent]
  /\ command = "idle"
  /\ answers = [f \in Files |-> WhiteOut]
  /\ todo = {}
  /\ current = Absent
  /\ at = "next"
  /\ commands = 0
  /\ settled = [f \in Files |-> Absent]
  /\ unsettled = {}
  /\ applied = FALSE

\* The export command writes a resource, anew or over the one there is; one that
\* fails or is killed may leave it empty (module Export).
Export(f) ==
  /\ command = "idle"
  /\ \E v \in Versions \cup {Partial} : exported' = [exported EXCEPT ![f] = v]
  /\ applied' = FALSE
  /\ UNCHANGED <<whiteout, patch, ignored, output, dirExists, functions, progress,
                 settled, unsettled>>

-----------------------------------------------------------------------------
(* Each command: the resources are read, then one file is done after the   *)
(* other.                                                                  *)

\* Variant: a resource that is whited out is not read.
ReadFilesKept == Exported \ whiteout

\* Variant: a resource that has been applied is not read again.
ReadFilesNew == {f \in Exported : output[f] = Absent}

ReadFiles == Exported

\* Variant: a file that cannot be parsed is left out.
ReadableAlways == TRUE

\* One file that cannot be parsed, and nothing is read.
Readable == \A f \in Files : exported[f] # Partial

Begin(name, read) ==
  /\ command = "idle"
  /\ commands < MaxCommands
  /\ commands' = commands + 1
  /\ command' = name
  /\ todo' = read
  /\ applied' = FALSE
  /\ UNCHANGED <<directories, current, at, settled, unsettled>>

Start(name) == Readable /\ Begin(name, ReadFiles) /\ UNCHANGED input

\* The file in work is done.
NextFile ==
  /\ todo' = todo \ {current}
  /\ current' = Absent
  /\ at' = "next"
  /\ UNCHANGED <<command, answers, commands>>

Stop ==
  /\ command' = "idle"
  /\ todo' = {}
  /\ current' = Absent
  /\ at' = "next"
  /\ UNCHANGED <<exported, whiteout, patch, ignored, output, functions, answers, commands,
                 settled>>

\* A plugin or a file operation fails and the command returns its error, or
\* the process is killed; it may have made the directory of its next file.
Interrupt ==
  /\ command # "idle"
  /\ Stop
  /\ \/ UNCHANGED dirExists
     \/ /\ command = "runfn" \/ at \in {"createWhiteout", "create"}
        /\ dirExists' = TRUE
  /\ unsettled' = IF command = "transform" /\ current # Absent
                  THEN unsettled \cup {current} ELSE unsettled
  /\ UNCHANGED applied

-----------------------------------------------------------------------------
(* transform                                                               *)

\* The plugins are found anew in each run, and so are the answers.
StartTransform ==
  /\ Start("transform")
  /\ answers' \in [Files -> Answers]

\* The file has its whiteout file, or all of its other files.
Settle ==
  /\ settled' = [settled EXCEPT ![current] = answers[current]]
  /\ unsettled' = unsettled \ {current}
  /\ UNCHANGED <<applied, functions>>

PickTransform(f) ==
  /\ command = "transform"
  /\ at = "next"
  /\ f \in todo
  /\ current' = f
  /\ at' = IF answers[f] = WhiteOut THEN "createWhiteout" ELSE "removeWhiteout"
  /\ UNCHANGED <<directories, command, answers, todo, commands, history>>

\* A transform file of a run before stays where it is.
CreateWhiteout ==
  /\ at = "createWhiteout"
  /\ whiteout' = whiteout \cup {current}
  /\ dirExists' = TRUE
  /\ NextFile
  /\ Settle
  /\ UNCHANGED <<exported, patch, ignored, output>>

\* Variant: the whiteout file of a run before is left where it is.
WhiteoutKept == whiteout

WithoutWhiteout == whiteout \ {current}

RemoveWhiteout ==
  /\ at = "removeWhiteout"
  /\ whiteout' = WithoutWhiteout
  /\ at' = "create"
  /\ UNCHANGED <<exported, patch, ignored, output, dirExists, results, command, answers,
                 todo, current, commands, history>>

CreateTransform ==
  /\ at = "create"
  /\ patch' = [patch EXCEPT ![current] = Partial]
  /\ dirExists' = TRUE
  /\ at' = "write"
  /\ UNCHANGED <<exported, whiteout, ignored, output, results, command, answers, todo,
                 current, commands, history>>

HasIgnored == SaveIgnored /\ answers[current].ignored

WriteTransform ==
  /\ at = "write"
  /\ patch' = [patch EXCEPT ![current] = answers[current].patch]
  /\ IF HasIgnored
       THEN /\ at' = "createIgnored"
            /\ UNCHANGED <<results, command, answers, todo, current, commands, history>>
       ELSE NextFile /\ Settle
  /\ UNCHANGED <<exported, whiteout, ignored, output, dirExists>>

CreateIgnored ==
  /\ at = "createIgnored"
  /\ ignored' = [ignored EXCEPT ![current] = Partial]
  /\ at' = "writeIgnored"
  /\ UNCHANGED <<exported, whiteout, patch, output, dirExists, results, command, answers,
                 todo, current, commands, history>>

WriteIgnored ==
  /\ at = "writeIgnored"
  /\ ignored' = [ignored EXCEPT ![current] = answers[current].patch]
  /\ NextFile
  /\ Settle
  /\ UNCHANGED <<exported, whiteout, patch, output, dirExists>>

EndTransform ==
  /\ command = "transform"
  /\ at = "next" /\ todo = {}
  /\ Stop
  /\ UNCHANGED <<dirExists, unsettled, applied>>

-----------------------------------------------------------------------------
(* apply                                                                   *)

StartApply == Start("apply") /\ UNCHANGED answers

\* Variant: a whiteout file counts only when there is no transform file.
SkippedUnlessPatched(f) == f \in whiteout /\ patch[f] = Absent

Skipped(f) == f \in whiteout

\* A resource with a whiteout file is skipped; what an earlier apply wrote
\* for it stays.
SkipFile(f) ==
  /\ command = "apply"
  /\ at = "next"
  /\ f \in todo
  /\ Skipped(f)
  /\ todo' = todo \ {f}
  /\ UNCHANGED <<directories, command, answers, current, at, commands, history>>

\* Variant: whatever the transform file holds is applied.
ApplicableAlways(f) == TRUE

\* A transform file that is not a complete list of patches cannot be applied.
Applicable(f) == patch[f] # Partial

\* A resource without a transform file is taken as it is.
PickApply(f) ==
  /\ command = "apply"
  /\ at = "next"
  /\ f \in todo
  /\ ~Skipped(f)
  /\ Applicable(f)
  /\ current' = f
  /\ at' = "createOutput"
  /\ UNCHANGED <<directories, command, answers, todo, commands, history>>

\* What apply makes of the file, as the directories are.
Patched(f) == <<exported[f], IF patch[f] = Absent THEN Unpatched ELSE patch[f]>>

CreateOutput ==
  /\ at = "createOutput"
  /\ output' = [output EXCEPT ![current] = Partial]
  /\ at' = "writeOutput"
  /\ UNCHANGED <<exported, whiteout, patch, ignored, dirExists, results, command, answers,
                 todo, current, commands, history>>

WriteOutput ==
  /\ at = "writeOutput"
  /\ output' = [output EXCEPT ![current] = Patched(current)]
  /\ NextFile
  /\ UNCHANGED <<exported, whiteout, patch, ignored, dirExists, results, history>>

EndApply ==
  /\ command = "apply"
  /\ at = "next" /\ todo = {}
  /\ Stop
  /\ applied' = TRUE
  /\ UNCHANGED <<dirExists, unsettled>>

-----------------------------------------------------------------------------
(* runfn                                                                   *)

\* The reader of the function library passes over an empty file.
Passed == {f \in Files : exported[f] \in Versions}

\* preRunE refuses a transform directory that is there, and takes an export
\* directory that is; then the functions have read the resources and answered.
\* Variant: the transform directory is not looked at.
StartRunFnAnyway ==
  /\ Exported # {}
  /\ Begin("runfn", Passed)
  /\ input' = [f \in Files |-> IF f \in Passed THEN exported[f] ELSE Absent]
  /\ UNCHANGED answers
StartRunFn ==
  /\ ~dirExists
  /\ Exported # {}
  /\ Begin("runfn", Passed)
  /\ input' = [f \in Files |-> IF f \in Passed THEN exported[f] ELSE Absent]
  /\ UNCHANGED answers

\* WriteOutput: the directory is made, and the results are written into it.
CreateResult(f) ==
  /\ command = "runfn"
  /\ at = "next"
  /\ f \in todo
  /\ current' = f
  /\ at' = "writeResult"
  /\ dirExists' = TRUE
  /\ results' = [results EXCEPT ![f] = Partial]
  /\ UNCHANGED <<exported, whiteout, patch, ignored, output, command, answers, todo,
                 commands, history>>

WriteResult ==
  /\ at = "writeResult"
  /\ results' = [results EXCEPT ![current] = exported[current]]
  /\ NextFile
  /\ UNCHANGED <<exported, whiteout, patch, ignored, output, dirExists, history>>

EndRunFn ==
  /\ command = "runfn"
  /\ at = "next" /\ todo = {}
  /\ Stop
  /\ dirExists' = TRUE
  /\ UNCHANGED <<unsettled, applied>>

-----------------------------------------------------------------------------
Transform == \/ StartTransform \/ EndTransform
             \/ \E f \in Files : PickTransform(f)
             \/ CreateWhiteout \/ RemoveWhiteout
             \/ CreateTransform \/ WriteTransform
             \/ CreateIgnored \/ WriteIgnored

Apply == \/ StartApply \/ EndApply
         \/ \E f \in Files : SkipFile(f) \/ PickApply(f)
         \/ CreateOutput \/ WriteOutput

RunFn == \/ StartRunFn \/ EndRunFn
         \/ \E f \in Files : CreateResult(f)
         \/ WriteResult

Next == Interrupt \/ Transform \/ Apply \/ RunFn \/ \E f \in Files : Export(f)

Spec == Init /\ [][Next]_vars

-----------------------------------------------------------------------------
(* Properties.                                                             *)

TypeOK ==
  /\ exported \in [Files -> Versions \cup {Absent, Partial}]
  /\ dirExists \in BOOLEAN
  /\ results \in [Files -> Versions \cup {Absent, Partial}]
  /\ input \in [Files -> Versions \cup {Absent}]
  /\ whiteout \in SUBSET Files
  /\ patch \in [Files -> Patches \cup {Absent, Partial}]
  /\ ignored \in [Files -> Patches \cup {Absent, Partial}]
  /\ output \in [Files -> Outputs \cup {Absent, Partial}]
  /\ command \in {"idle", "transform", "apply", "runfn"}
  /\ answers \in [Files -> Answers]
  /\ todo \in SUBSET Exported
  /\ current \in todo \cup {Absent}
  /\ at \in {"next", "createWhiteout", "removeWhiteout", "create", "write",
             "createIgnored", "writeIgnored", "createOutput", "writeOutput",
             "writeResult"}
  /\ commands \in 0..MaxCommands
  /\ settled \in [Files -> Answers \cup {Absent}]
  /\ unsettled \in SUBSET Files
  /\ applied \in BOOLEAN

\* What the transform directory tells apply to do with a resource.
InForce(f) == IF f \in whiteout THEN WhiteOut ELSE patch[f]

\* What an answer of the plugins asks for.
Asked(answer) == IF answer \in {WhiteOut, Absent} THEN answer ELSE answer.patch

InWork(f) == command = "transform" /\ f = current

\* The transform directory holds, for every resource, the answer it was last
\* settled with, whatever other runs have left there: a whiteout hides the
\* patches of an older run, and no whiteout survives newer patches.  Only the
\* resource a transform works on, or was interrupted at, may differ.
SettledAnswerInForce ==
  \A f \in Files \ unsettled : ~InWork(f) =>
    /\ InForce(f) = Asked(settled[f])
    /\ settled[f] \in [patch : Patches, ignored : {TRUE}] /\ SaveIgnored =>
         ignored[f] = settled[f].patch

\* A transform has settled what it has done: when none is left to do, every
\* exported resource has this run's answer, the ones that an earlier run was
\* interrupted at included.
DoneIsSettled ==
  command = "transform" =>
    \A f \in Exported \ todo : f \notin unsettled /\ settled[f] = answers[f]

\* After an apply that ran to its end, and until something else is run, the
\* output of every resource that is kept is its present version with the
\* patches last settled: no run was made of half-written patches, and no
\* output of an earlier run passes for it.
AppliedIsCurrent ==
  applied => \A f \in Exported \ whiteout :
    /\ output[f] = Patched(f)
    /\ f \notin unsettled /\ settled[f] # Absent =>
         output[f] = <<exported[f], settled[f].patch>>

\* Output is never written for a resource that is whited out, and what is
\* written is what the other directories say at that moment.
OutputIsDecided ==
  [][\A f \in Files : output'[f] # output[f] =>
       f \notin whiteout /\ output'[f] \in {Partial, Patched(f)}]_vars

\* A resource file that an export has left empty stops transform and apply before
\* they have changed anything: neither ever works on a part of the export, not
\* even on the files that come before the empty one (file_helper.go:56-59).
NothingOfAPart ==
  [][(\E f \in Files : exported[f] = Partial) =>
       UNCHANGED <<whiteout, patch, ignored, output>>]_vars

\* What runfn has written is of one reading of the export, however often it was
\* run, interrupted and run again, between exports and transforms that use the
\* directory too: its results are never a mixture (runfn.go:77-79).
ResultsOfOneExport ==
  \A f \in Files : results[f] \in {Absent, Partial, input[f]}

\* "If the transform does not exist, assume that the resource file is not
\* needed and ignore for now." (cmd/apply/apply.go:144)
MissingTransformIgnored ==
  [][\A f \in Files : output'[f] # output[f] => patch[f] # Absent]_vars

=============================================================================
