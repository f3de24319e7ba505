------------------------------ MODULE LogFollow ------------------------------
(***************************************************************************)
(* What following the logs of the rsync client promises to its caller and  *)
(* to the person in front of the terminal: a screen that only ever gains   *)
(* log lines, a list of failed files that agrees with the screen, at most  *)
(* one progress file that holds what the screen shows, and one result      *)
(* after which nothing is shown or saved any more.                         *)
(***************************************************************************)
EXTENDS Naturals

CONSTANTS FailedLines,  \* numbers of the log lines that name a failed file
          SaveProgress, \* TRUE when --progress-output names a file
          NoCode,       \* the exit code that is not known
          ExitCodes,    \* the codes the rsync container may exit with
          Blank,        \* a screen nothing has been printed on
          NotTried,     \* no progress file has been asked for yet
          Unwritten     \* the progress file could not be written

VARIABLES screen, \* the progress printed last
          warned, \* the failed files printed last
          saved,  \* the progress file's content, NotTried or Unwritten
          result  \* what the caller got: "none" until the call returns

avars == <<screen, warned, saved, result>>

\* Progress as far as the promise is concerned: which log lines have been
\* merged into it and the exit code.
Progresses == [lines : SUBSET Nat, code : ExitCodes \cup {NoCode}]
NoProgress == [lines |-> {}, code |-> NoCode]

AInit ==
  /\ screen = Blank
  /\ warned = {}
  /\ saved = NotTried
  /\ result = "none"

Shown == IF screen = Blank THEN NoProgress ELSE screen

\* New progress replaces the old on the screen: no line is forgotten, and an
\* exit code is the last thing to be learnt.
Show ==
  /\ result = "none"
  /\ saved = NotTried
  /\ Shown.code = NoCode
  /\ screen' \in Progresses
  /\ Shown.lines \subseteq screen'.lines
  /\ UNCHANGED <<warned, saved, result>>

\* The failed files are listed once the exit code is on the screen.
Warn ==
  /\ result = "none"
  /\ saved = NotTried
  /\ Shown.code # NoCode
  /\ warned' = Shown.lines \cap FailedLines
  /\ UNCHANGED <<screen, saved, result>>

Save ==
  /\ result = "none"
  /\ SaveProgress
  /\ saved = NotTried
  /\ saved' \in {Shown, Unwritten}
  /\ UNCHANGED <<screen, warned, result>>

\* Following never started: the pod or its log could not be had.
Refuse ==
  /\ result = "none"
  /\ screen = Blank
  /\ saved = NotTried
  /\ result' = "error"
  /\ UNCHANGED <<screen, warned, saved>>

Return ==
  /\ result = "none"
  /\ SaveProgress => saved # NotTried
  /\ result' \in {"nil", "error"}
  /\ result' = "nil" => screen # Blank
  /\ Shown.code # NoCode => warned = Shown.lines \cap FailedLines
  /\ UNCHANGED <<screen, warned, saved>>

ANext == Show \/ Warn \/ Save \/ Refuse \/ Return

ASpec == AInit /\ [][ANext]_avars
=============================================================================
