------------------------- MODULE PluginManagerProofs -------------------------
(***************************************************************************)
(* Proofs about PluginManager: for any users, directories, files and       *)
(* repositories, commands that interleave in any way and are given up      *)
(* anywhere.                                                               *)
(***************************************************************************)
EXTENDS PluginManager, SequenceTheorems, WellFoundedInduction, TLAPS

Plugins    == {b.plugin : b \in Binaries}
ScanFields == {"op", "at", "dir", "listed", "loaded", "skip", "steady"}

IsCommand(c) ==
  \/ c = Idle
  \/ c \in AddCommands
  \/ c \in [op : {"remove"}, place : Places]
  \/ c.op = "scan" /\ DOMAIN c = ScanFields /\ ScanOK(c)

-----------------------------------------------------------------------------
(* The inductive invariant.                                                *)

Typed ==
  /\ commands \in 0..MaxCommands
  /\ index \in Indexes
  /\ DOMAIN files \subseteq Places
  /\ \A p \in DOMAIN files : files[p] \in Seq(Sources \cup {Hole})
  /\ DOMAIN history = DOMAIN files
  /\ \A p \in DOMAIN files : history[p] \in [from : SUBSET Sources, cut : BOOLEAN]
  /\ DOMAIN command = Users
  /\ \A u \in Users : IsCommand(command[u])
  /\ \A p \in Places : Writers(p) # {} => There(p)

\* What an add is about to write was not there when it began, or the manifest of
\* what it looked for calls it so.
Unseen(repo, c) ==
  c.op = "add" => /\ c.place[2] \notin c.before \/ Renames(repo, c.asked, c.place[2])
                  /\ c.at = "resolve" => c.place[2] = c.asked

\* What a writer writes is among what the file is from.  While that is one
\* source, each chunk of it is in place or some writer has it still before it.
Growing(p) ==
  /\ \A w \in Writers(p) : command[w].source \in history[p].from
  /\ \A s \in Sources : ~history[p].cut /\ history[p].from = {s} =>
       /\ Len(files[p]) <= Len(Body(s))
       /\ \A i \in 1..Len(Body(s)) :
            \/ i <= Len(files[p]) /\ files[p][i] = s
            \/ \E w \in Writers(p) : command[w].done < i

\* What a scan has got past.
Passed(c, p) ==
  \E i \in 1..c.dir : Dirs[i] = p[1] /\ (i < c.dir \/ p[2] \notin c.listed)

Holds(p, plugin) == There(p) /\ Runs(files[p]) /\ PluginIn(files[p]) = plugin

\* What it has yet to run is there as it was listed, or has changed.
Listed(c) ==
  /\ c.at # "file" => c.listed = {} \/ c.at = "failed"
  /\ c.at = "done" => c.dir = Len(Dirs)
  /\ c.at # "done" => c.skip = {}
  /\ c.at = "file" => \A n \in c.listed :
       <<Dirs[c.dir], n>> \in c.steady => There(<<Dirs[c.dir], n>>)

\* All it has got past runs.
Ran(c) ==
  c.at # "failed" =>
    \A p \in DOMAIN files \cap c.steady : Passed(c, p) => Runs(files[p])

Once(c) == \A x, y \in c.loaded : x.plugin = y.plugin => x = y

\* All it has loaded comes before all it has yet to run.
Behind(c) ==
  c.at \in {"dir", "file"} => \A e \in c.loaded \ {BuiltInEntry} :
    \E k \in 1..c.dir :
      Dirs[k] = e.place[1] /\ (k < c.dir \/ \A m \in c.listed : ~Before(m, e.place[2]))

\* Of the plugins it has got past, it has the first of each name.
FirstLoaded(c) ==
  c.at # "failed" => \A p \in c.steady : \A plugin \in Plugins \ (c.skip \cup {BuiltIn}) :
    Passed(c, p) /\ Holds(p, plugin) =>
      \E e \in c.loaded : e.plugin = plugin /\ ~IsEarlier(p, e.place)

HasReason(c) ==
  c.at = "failed" =>
    \E p \in Places : \/ p \notin c.steady
                      \/ There(p) /\ (~Runs(files[p]) \/ Writers(p) # {})

ScanInv(c) ==
  c.op = "scan" =>
    Listed(c) /\ Ran(c) /\ Once(c) /\ Behind(c) /\ FirstLoaded(c) /\ HasReason(c)

PInv ==
  /\ Typed
  /\ \A p \in DOMAIN files : Growing(p)
  /\ \A u \in Users : Unseen(index, command[u]) /\ ScanInv(command[u])

-----------------------------------------------------------------------------
(* Commands and their records.                                             *)

LEMMA AddFields ==
  ASSUME NEW c \in AddCommands
  PROVE  /\ c.op = "add" /\ c.at \in {"resolve", "open", "copy"}
         /\ c.place \in Places /\ c.asked \in Names /\ c.before \subseteq Names
         /\ c.at = "resolve" => c.version \in Versions \cup {AnyVersion}
         /\ c.at # "resolve" => c.source \in Sources
         /\ c.at = "copy" => /\ c.done \in 0..Chunks /\ c.linked \in BOOLEAN
                             /\ c \in [op : {"add"}, at : {"copy"}, place : Places,
                                       asked : Names, before : SUBSET Names, source : Sources,
                                       done : 0..Chunks, linked : BOOLEAN]
BY DEF AddCommands

LEMMA CommandKinds ==
  ASSUME NEW c, IsCommand(c)
  PROVE  /\ c.op \in {"idle", "add", "remove", "scan"}
         /\ c.op = "idle" => c = Idle
         /\ c.op = "add" => c \in AddCommands
         /\ c.op = "remove" => c \in [op : {"remove"}, place : Places] /\ c.place \in Places
         /\ c.op = "scan" => DOMAIN c = ScanFields /\ ScanOK(c)
<1>1. c = Idle => c.op = "idle"
  BY DEF Idle
<1>2. c \in AddCommands => c.op = "add"
  BY AddFields
<1>3. c \in [op : {"remove"}, place : Places] => c.op = "remove" /\ c.place \in Places
  OBVIOUS
<1> QED
  BY <1>1, <1>2, <1>3 DEF IsCommand

\* c writes to the file at p.
Writes(c, p) == c.op = "add" /\ c.at = "copy" /\ c.place = p /\ c.linked

LEMMA WritersWrite ==
  ASSUME NEW p
  PROVE  Writers(p) = {u \in Users : Writes(command[u], p)}
BY DEF Writers, Writes, IsAdd

\* What becomes of a command when another user has changed place p.
LEMMA DisturbedIs ==
  ASSUME NEW c, NEW p, IsCommand(c)
  PROVE  /\ c.op # "scan" => Disturbed(c, p) = c
         /\ c.op = "scan" =>
              /\ DOMAIN Disturbed(c, p) = ScanFields
              /\ \A f \in ScanFields \ {"steady"} : Disturbed(c, p)[f] = c[f]
              /\ Disturbed(c, p).steady = c.steady \ {p}
<1>1. c.op = "scan" => DOMAIN c = ScanFields
  BY CommandKinds
<1> QED
  BY <1>1 DEF Disturbed, ScanFields

LEMMA DisturbedScan ==
  ASSUME NEW c, NEW p, IsCommand(c), c.op = "scan", NEW d, d = Disturbed(c, p)
  PROVE  /\ d.op = "scan" /\ d.at = c.at /\ d.dir = c.dir /\ d.listed = c.listed
         /\ d.loaded = c.loaded /\ d.skip = c.skip /\ d.steady = c.steady \ {p}
         /\ IsCommand(d)
<1>1. /\ d.op = "scan" /\ d.at = c.at /\ d.dir = c.dir /\ d.listed = c.listed
      /\ d.loaded = c.loaded /\ d.skip = c.skip /\ d.steady = c.steady \ {p}
      /\ DOMAIN d = ScanFields
  BY DisturbedIs DEF ScanFields
<1>2. ScanOK(c)
  BY CommandKinds
<1> QED
  BY <1>1, <1>2 DEF IsCommand, ScanOK

LEMMA UnlinkedIs ==
  ASSUME NEW c, NEW p, IsCommand(c), NEW d, d = Unlinked(c, p)
  PROVE  /\ IsCommand(d) /\ d.op = c.op
         /\ c.op = "scan" => d = Disturbed(c, p)
         /\ c.op = "add" => /\ d.place = c.place /\ d.before = c.before
                            /\ d.at = c.at /\ d.asked = c.asked
         /\ ~Writes(d, p)
         /\ \A q : q # p => (Writes(d, q) <=> Writes(c, q))
         /\ \A q : Writes(d, q) => d = c
<1>1. CASE c.op = "add" /\ c.at = "copy" /\ c.place = p
  <2>1. c \in [op : {"add"}, at : {"copy"}, place : Places, asked : Names, before : SUBSET Names,
               source : Sources, done : 0..Chunks, linked : BOOLEAN]
    BY <1>1, CommandKinds, AddFields
  <2>2. d = [c EXCEPT !.linked = FALSE]
    BY <1>1 DEF Unlinked
  <2>3. d \in [op : {"add"}, at : {"copy"}, place : Places, asked : Names, before : SUBSET Names,
               source : Sources, done : 0..Chunks, linked : BOOLEAN]
    BY <2>1, <2>2
  <2>4. /\ d.op = c.op /\ d.place = c.place /\ d.before = c.before
        /\ d.at = c.at /\ d.asked = c.asked /\ d.linked = FALSE
    BY <2>1, <2>2
  <2>5. IsCommand(d)
    BY <2>3 DEF IsCommand, AddCommands
  <2> QED
    BY <1>1, <2>4, <2>5 DEF Writes
<1>2. CASE ~(c.op = "add" /\ c.at = "copy" /\ c.place = p)
  <2>1. d = Disturbed(c, p)
    BY <1>2 DEF Unlinked
  <2>2. CASE c.op = "scan"
    BY <2>1, <2>2, DisturbedScan DEF Writes
  <2>3. CASE c.op # "scan"
    BY <1>2, <2>1, <2>3, DisturbedIs DEF Writes
  <2> QED
    BY <2>2, <2>3
<1> QED
  BY <1>1, <1>2

-----------------------------------------------------------------------------
(* Contents.                                                               *)

LEMMA BodyIs ==
  ASSUME NEW s \in Sources
  PROVE  /\ Body(s) \in Seq(Sources \cup {Hole})
         /\ Len(Body(s)) \in 1..Chunks
         /\ DOMAIN Body(s) = 1..Len(Body(s))
         /\ \A i \in 1..Len(Body(s)) : Body(s)[i] = s
<1> DEFINE n == IF s = ErrorPage THEN 1 ELSE Chunks
<1>1. n \in 1..Chunks
  BY PluginAssumption
<1>2. Body(s) = [i \in 1..n |-> s]
  BY DEF Body
<1> HIDE DEF n
<1>3. Len(Body(s)) = n
  BY <1>1, <1>2
<1> QED
  BY <1>1, <1>2, <1>3

LEMMA WriteAtIs ==
  ASSUME NEW content \in Seq(Sources \cup {Hole}), NEW i \in Nat \ {0}, NEW s \in Sources,
         NEW w, w = WriteAt(content, i, s)
  PROVE  /\ w \in Seq(Sources \cup {Hole})
         /\ Len(w) = IF Len(content) < i THEN i ELSE Len(content)
         /\ w[i] = s
         /\ \A j \in 1..Len(content) : j # i => w[j] = content[j]
<1> DEFINE n == IF Len(content) < i THEN i ELSE Len(content)
           at(j) == IF j = i THEN s ELSE IF j <= Len(content) THEN content[j] ELSE Hole
<1>1. n \in Nat /\ i \in 1..n /\ \A j \in 1..Len(content) : j \in 1..n
  OBVIOUS
<1>2. w = [j \in 1..n |-> at(j)]
  BY DEF WriteAt
<1>3. \A j \in 1..n : at(j) \in Sources \cup {Hole}
  OBVIOUS
<1>4. w[i] = s /\ \A j \in 1..Len(content) : j # i => w[j] = content[j]
  BY <1>1, <1>2
<1> HIDE DEF n, at
<1>5. w \in Seq(Sources \cup {Hole}) /\ Len(w) = n
  BY <1>1, <1>2, <1>3
<1> QED
  BY <1>4, <1>5 DEF n

-----------------------------------------------------------------------------
(* Steps.                                                                  *)

SamePlace(q) ==
  /\ There(q)' <=> There(q)
  /\ There(q) => files'[q] = files[q]
  /\ Writers(q)' = Writers(q)

\* A scan goes on as it was, of places that have not changed.
LEMMA ScanKept ==
  ASSUME Typed, NEW c, IsCommand(c), c.op = "scan", ScanInv(c),
         NEW w, NEW d, d = command'[w], IsCommand(d), d.op = "scan",
         d.at = c.at, d.dir = c.dir, d.listed = c.listed,
         d.loaded = c.loaded, d.skip = c.skip, d.steady \subseteq c.steady,
         \A q \in d.steady : SamePlace(q)
  PROVE  ScanInv(command[w])'
<1> USE DEF SamePlace
<1>1. ScanOK(c) /\ ScanOK(d) /\ \A p : Passed(d, p) <=> Passed(c, p)
  BY CommandKinds DEF Passed
<1>2. \A p : Passed(command[w], p)' <=> Passed(c, p)
  BY <1>1 DEF Passed
<1>3. Listed(command[w])'
  BY DEF ScanInv, Listed
<1>4. Ran(command[w])'
  BY <1>2 DEF ScanInv, Ran, There
<1>5. Once(command[w])'
  BY DEF ScanInv, Once
<1>6. Behind(command[w])'
  BY DEF ScanInv, Behind
<1>7. FirstLoaded(command[w])'
  <2>1. \A q \in d.steady : \A plugin : Holds(q, plugin)' <=> Holds(q, plugin)
    BY DEF Holds
  <2> QED
    BY <1>2, <2>1 DEF ScanInv, FirstLoaded
<1>8. HasReason(command[w])'
  BY DEF ScanInv, HasReason
<1> QED
  BY <1>3, <1>4, <1>5, <1>6, <1>7, <1>8 DEF ScanInv

\* The other users' commands after u's step, and what they rely on.
Spectates(c, d) ==
  /\ IsCommand(d) /\ d.op = c.op
  /\ c.op = "add" => /\ d.place = c.place /\ d.before = c.before
                     /\ d.at = c.at /\ d.asked = c.asked
  /\ c.op = "scan" =>
       /\ d.at = c.at /\ d.dir = c.dir /\ d.listed = c.listed
       /\ d.loaded = c.loaded /\ d.skip = c.skip /\ d.steady \subseteq c.steady
       /\ \A q \in d.steady : SamePlace(q)

LEMMA OthersKept ==
  ASSUME Typed, NEW c, IsCommand(c), Unseen(index, c), ScanInv(c),
         NEW w, NEW d, d = command'[w], Spectates(c, d)
  PROVE  IsCommand(d) /\ Unseen(index, d) /\ ScanInv(command[w])'
<1>1. IsCommand(d) /\ d.op = c.op
  BY DEF Spectates
<1>2. Unseen(index, d)
  BY DEF Spectates, Unseen
<1>3. CASE c.op = "scan"
  BY <1>1, <1>2, <1>3, ScanKept DEF Spectates
<1>4. CASE c.op # "scan"
  BY <1>1, <1>2, <1>4 DEF ScanInv
<1> QED
  BY <1>3, <1>4

\* A file that nobody has touched grows on.
LEMMA GrowingKept ==
  ASSUME NEW p, Growing(p), SamePlace(p), There(p), history'[p] = history[p],
         \A w \in Writers(p) : command'[w] = command[w]
  PROVE  Growing(p)'
BY DEF Growing, SamePlace

\* A step of u that changes no file, and whose command is no writer before and
\* after it.
LEMMA QuietStep ==
  ASSUME PInv, NEW u \in Users, NEW c, IsCommand(c), Unseen(index, c), ScanInv(c),
         Become(u, c), \A p : ~Writes(command[u], p) /\ ~Writes(c, p),
         index' = index, files' = files,
         DOMAIN history' = DOMAIN history, \A p \in DOMAIN history : history'[p] = history[p],
         commands' \in 0..MaxCommands
  PROVE  PInv'
<1>1. /\ DOMAIN command' = Users /\ command'[u] = c
      /\ \A w \in Users : w # u => command'[w] = command[w]
  BY DEF PInv, Typed, Become
<1>2. \A p : Writers(p)' = Writers(p)
  <2>1. \A p : Writers(p)' = {w \in Users : Writes(command'[w], p)}
    BY DEF Writers, Writes, IsAdd
  <2> QED
    BY <1>1, <2>1, WritersWrite
<1>3. \A p : SamePlace(p)
  BY <1>2 DEF SamePlace, There
<1>4. \A w \in Users : IsCommand(command'[w]) /\ Unseen(index, command'[w]) /\ ScanInv(command[w])'
  <2> TAKE w \in Users
  <2> DEFINE old == IF w = u THEN c ELSE command[w]
  <2>1. IsCommand(old) /\ Unseen(index, old) /\ ScanInv(old) /\ Typed
    BY DEF PInv, Typed
  <2>2. command'[w] = old
    BY <1>1
  <2> HIDE DEF old
  <2>3. Spectates(old, command'[w])
    BY <1>3, <2>1, <2>2 DEF Spectates
  <2> QED
    BY <2>1, <2>3, OthersKept
<1>5. \A p : There(p)' <=> There(p)
  BY <1>3 DEF SamePlace
<1>6. Typed'
  BY <1>1, <1>2, <1>4, <1>5 DEF PInv, Typed
<1>7. ASSUME NEW p \in DOMAIN files
      PROVE  Growing(p)'
  <2>1. \A w \in Writers(p) : command'[w] = command[w]
    BY <1>1, WritersWrite
  <2>2. There(p) /\ history'[p] = history[p] /\ Growing(p)
    BY DEF There, PInv, Typed
  <2> QED
    BY <1>3, <2>1, <2>2, GrowingKept
<1>8. \A w \in Users : Unseen(index, command[w])' /\ ScanInv(command[w])'
  BY <1>4 DEF Unseen
<1> QED
  BY <1>6, <1>7, <1>8 DEF PInv

\* A step of u that changes place p only.
LEMMA TouchStep ==
  ASSUME PInv, NEW u \in Users, NEW c, IsCommand(c), Unseen(index, c), c.op # "scan",
         NEW p \in Places,
         \A q : q # p => ~Writes(command[u], q) /\ ~Writes(c, q),
         \/ Changing(u, c, p)
         \/ command' = [w \in Users |-> IF w = u THEN c ELSE Unlinked(command[w], p)],
         \A q : q # p => /\ There(q)' <=> There(q)
                         /\ There(q) => files'[q] = files[q] /\ history'[q] = history[q],
         index' = index, commands' = commands, DOMAIN history' = DOMAIN files',
         Writers(p)' # {} => There(p)',
         There(p)' => /\ files'[p] \in Seq(Sources \cup {Hole})
                      /\ history'[p] \in [from : SUBSET Sources, cut : BOOLEAN]
                      /\ Growing(p)'
  PROVE  PInv'
<1>1. DOMAIN command' = Users /\ command'[u] = c
  BY DEF Changing
<1>2. \A w \in Users : w # u =>
        command'[w] = Disturbed(command[w], p) \/ command'[w] = Unlinked(command[w], p)
  BY DEF Changing
<1>3. \A w \in Users : IsCommand(command[w]) /\ Unseen(index, command[w]) /\ ScanInv(command[w])
  BY DEF PInv, Typed
<1>4. ASSUME NEW w \in Users, NEW q, q # p
      PROVE  /\ Writes(command'[w], q) <=> Writes(command[w], q)
             /\ Writes(command[w], q) => command'[w] = command[w]
  <2>1. CASE w = u
    BY <1>1, <1>4, <2>1
  <2>2. CASE w # u /\ command'[w] = Unlinked(command[w], p)
    <3>1. /\ Writes(command'[w], q) <=> Writes(command[w], q)
          /\ Writes(command'[w], q) => command'[w] = command[w]
      BY <1>3, <1>4, <2>2, UnlinkedIs
    <3> QED
      BY <3>1
  <2>3. CASE w # u /\ command'[w] = Disturbed(command[w], p)
    BY <1>3, <2>3, DisturbedIs, DisturbedScan DEF Writes
  <2> QED
    BY <1>2, <2>1, <2>2, <2>3
<1>5. \A q : q # p => Writers(q)' = Writers(q)
  <2>1. \A q : Writers(q)' = {w \in Users : Writes(command'[w], q)}
    BY DEF Writers, Writes, IsAdd
  <2> QED
    BY <1>4, <2>1, WritersWrite
<1>6. \A q : q # p => SamePlace(q)
  BY <1>5 DEF SamePlace
<1>7. ASSUME NEW w \in Users, w # u
      PROVE  Spectates(command[w], command'[w])
  <2>1. CASE command[w].op = "scan"
    <3>1. command'[w] = Disturbed(command[w], p)
      BY <1>2, <1>3, <1>7, <2>1, UnlinkedIs
    <3> QED
      BY <1>3, <1>6, <2>1, <3>1, DisturbedScan DEF Spectates
  <2>2. CASE command[w].op # "scan" /\ command'[w] = Unlinked(command[w], p)
    BY <1>3, <2>2, UnlinkedIs DEF Spectates
  <2>3. CASE command[w].op # "scan" /\ command'[w] = Disturbed(command[w], p)
    BY <1>3, <2>3, DisturbedIs DEF Spectates
  <2> QED
    BY <1>2, <1>7, <2>1, <2>2, <2>3
<1>8. \A w \in Users : IsCommand(command'[w]) /\ Unseen(index, command'[w]) /\ ScanInv(command[w])'
  <2> TAKE w \in Users
  <2>1. CASE w = u
    BY <1>1, <2>1 DEF ScanInv
  <2>2. CASE w # u
    BY <1>3, <1>7, <2>2, OthersKept DEF PInv
  <2> QED
    BY <2>1, <2>2
<1>9. DOMAIN files' \subseteq Places
  BY DEF There, PInv, Typed
<1>10. ASSUME NEW q \in DOMAIN files', q # p
       PROVE  /\ files'[q] \in Seq(Sources \cup {Hole})
              /\ history'[q] \in [from : SUBSET Sources, cut : BOOLEAN]
              /\ Growing(q)'
  <2>1. There(q) /\ files'[q] = files[q] /\ history'[q] = history[q]
    BY <1>10 DEF There
  <2>2. \A w \in Writers(q) : command'[w] = command[w]
    BY <1>4, <1>10, WritersWrite
  <2>3. Growing(q)'
    BY <1>6, <1>10, <2>1, <2>2, GrowingKept DEF PInv, There
  <2> QED
    BY <2>1, <2>3 DEF PInv, Typed, There
<1>11. \A q \in DOMAIN files' : /\ files'[q] \in Seq(Sources \cup {Hole})
                                /\ history'[q] \in [from : SUBSET Sources, cut : BOOLEAN]
                                /\ Growing(q)'
  <2>1. p \in DOMAIN files' => There(p)'
    BY DEF There
  <2> QED
    BY <1>10, <2>1
<1>12. \A q \in Places : Writers(q)' # {} => There(q)'
  BY <1>5 DEF PInv, Typed
<1>13. Typed'
  BY <1>1, <1>8, <1>9, <1>11, <1>12 DEF PInv, Typed
<1>14. \A w \in Users : Unseen(index, command[w])' /\ ScanInv(command[w])'
  BY <1>8 DEF Unseen
<1> QED
  BY <1>11, <1>13, <1>14 DEF PInv

\* What holds of the command that takes a step.
LEMMA OwnCommand ==
  ASSUME PInv, NEW u \in Users
  PROVE  /\ IsCommand(command[u]) /\ Unseen(index, command[u]) /\ ScanInv(command[u])
         /\ DOMAIN command = Users /\ index \in Indexes
BY DEF PInv, Typed

LEMMA BeginStep ==
  ASSUME PInv, NEW u \in Users, NEW c, IsCommand(c), Unseen(index, c), ScanInv(c),
         c.op # "add" \/ c.at # "copy", Begin(u, c)
  PROVE  PInv'
<1>1. \A p : ~Writes(command[u], p) /\ ~Writes(c, p)
  BY DEF Begin, Idle, Writes
<1>2. commands' \in 0..MaxCommands
  BY PluginAssumption DEF Begin, PInv, Typed
<1> QED
  BY <1>1, <1>2, QuietStep DEF Begin

LEMMA AddStep ==
  ASSUME PInv, NEW u \in Users, Add(u)
  PROVE  PInv'
<1>1. PICK d \in AddDirs, n \in Names, v \in Versions \cup {AnyVersion} :
        /\ ~There(<<d, n>>)
        /\ Begin(u, [op |-> "add", at |-> "resolve", place |-> <<d, n>>,
                     asked |-> n, version |-> v, before |-> {m \in Names : There(<<d, m>>)}])
  BY DEF Add
<1>2. PICK c : c = [op |-> "add", at |-> "resolve", place |-> <<d, n>>,
                    asked |-> n, version |-> v, before |-> {m \in Names : There(<<d, m>>)}]
  OBVIOUS
<1>3. c.op = "add" /\ c.at = "resolve" /\ c.place[2] = n /\ c.asked = n
      /\ c.before = {m \in Names : There(<<d, m>>)}
  BY <1>2
<1>4. <<d, n>> \in Places
  BY PluginAssumption DEF Places
<1>5. IsCommand(c)
  BY <1>2, <1>4 DEF IsCommand, AddCommands
<1>6. Unseen(index, c)
  BY <1>1, <1>3 DEF Unseen
<1>7. ScanInv(c)
  BY <1>3 DEF ScanInv
<1> QED
  BY <1>1, <1>2, <1>3, <1>5, <1>6, <1>7, BeginStep

LEMMA RemoveStep ==
  ASSUME PInv, NEW u \in Users, Remove(u)
  PROVE  PInv'
<1>1. PICK p \in Places : Begin(u, [op |-> "remove", place |-> p])
  BY PluginAssumption DEF Remove, Places
<1>2. PICK c : c = [op |-> "remove", place |-> p]
  OBVIOUS
<1>3. c.op = "remove" /\ IsCommand(c)
  BY <1>2 DEF IsCommand
<1> QED
  BY <1>1, <1>2, <1>3, BeginStep DEF Unseen, ScanInv

LEMMA ScanStep ==
  ASSUME PInv, NEW u \in Users, Scan(u)
  PROVE  PInv'
<1>1. PICK c : c = [op |-> "scan", at |-> "dir", dir |-> 0, listed |-> {},
                    loaded |-> {BuiltInEntry}, skip |-> {}, steady |-> Places]
  OBVIOUS
<1>2. /\ c.op = "scan" /\ c.at = "dir" /\ c.dir = 0 /\ c.listed = {}
      /\ c.loaded = {BuiltInEntry} /\ c.skip = {} /\ c.steady = Places
      /\ DOMAIN c = ScanFields
  BY <1>1 DEF ScanFields
<1>3. ScanOK(c)
  BY <1>2, PluginAssumption DEF ScanOK, Entries
<1>4. \A p : ~Passed(c, p)
  BY <1>2 DEF Passed
<1>5. Listed(c) /\ Ran(c) /\ Once(c) /\ Behind(c) /\ FirstLoaded(c) /\ HasReason(c)
  BY <1>2, <1>4 DEF Listed, Ran, Once, Behind, FirstLoaded, HasReason
<1>6. IsCommand(c) /\ Unseen(index, c) /\ ScanInv(c)
  BY <1>2, <1>3, <1>5 DEF IsCommand, Unseen, ScanInv
<1> QED
  BY <1>1, <1>2, <1>6, BeginStep DEF Scan

\* A step of a scan.
LEMMA ScanGoesOn ==
  ASSUME PInv, NEW u \in Users, IsScan(u), NEW c, c.op = "scan", DOMAIN c = ScanFields,
         ScanOK(c), ScanInv(c), Become(u, c), UNCHANGED <<index, files, history, commands>>
  PROVE  PInv'
<1>1. \A p : ~Writes(command[u], p) /\ ~Writes(c, p)
  BY DEF IsScan, Writes
<1>2. IsCommand(c) /\ Unseen(index, c)
  BY DEF IsCommand, Unseen
<1>3. commands' \in 0..MaxCommands
  BY DEF PInv, Typed
<1> QED
  BY <1>1, <1>2, <1>3, QuietStep

\* Its record, of which a step changes some fields.
LEMMA ScanRecord ==
  ASSUME PInv, NEW u \in Users, IsScan(u), NEW o, o = command[u]
  PROVE  /\ o.op = "scan" /\ DOMAIN o = ScanFields /\ ScanOK(o)
         /\ Listed(o) /\ Ran(o) /\ Once(o) /\ Behind(o) /\ FirstLoaded(o) /\ HasReason(o)
         /\ Len(Dirs) \in Nat /\ DOMAIN Dirs = 1..Len(Dirs)
<1>1. o.op = "scan" /\ DOMAIN o = ScanFields /\ ScanOK(o) /\ ScanInv(o)
  BY OwnCommand, CommandKinds DEF IsScan
<1> QED
  BY <1>1, PluginAssumption DEF ScanInv

LEMMA ReadDirStep ==
  ASSUME PInv, NEW u \in Users, ReadDir(u)
  PROVE  PInv'
<1>1. PICK o : o = command[u]
  OBVIOUS
<1> DEFINE d == Dirs[o.dir + 1]
           here == {n \in Names : There(<<d, n>>)}
<1>2. IsScan(u) /\ o.at = "dir" /\ o.dir < Len(Dirs)
  BY <1>1 DEF ReadDir
<1>3. PICK c : c = [o EXCEPT !.at = "file", !.dir = @ + 1, !.listed = here]
  OBVIOUS
<1>4. Become(u, c) /\ UNCHANGED <<index, files, history, commands>>
  BY <1>1, <1>3 DEF ReadDir
<1>5. /\ o.op = "scan" /\ DOMAIN o = ScanFields /\ ScanOK(o)
      /\ Listed(o) /\ Ran(o) /\ Once(o) /\ Behind(o) /\ FirstLoaded(o)
      /\ Len(Dirs) \in Nat /\ DOMAIN Dirs = 1..Len(Dirs)
  BY <1>1, <1>2, ScanRecord
<1> HIDE DEF here
<1>6. /\ c.op = "scan" /\ c.at = "file" /\ c.dir = o.dir + 1 /\ c.listed = here
      /\ c.loaded = o.loaded /\ c.skip = o.skip /\ c.steady = o.steady
      /\ DOMAIN c = ScanFields
  BY <1>3, <1>5 DEF ScanFields
<1>7. ScanOK(c)
  BY <1>2, <1>5, <1>6 DEF ScanOK, here
<1>8. o.listed = {} /\ o.skip = {} /\ o.dir \in Nat
  BY <1>2, <1>5 DEF Listed, ScanOK
\* No file of the new directory that is there has been run.
<1>9. ASSUME NEW p \in Places, There(p), Passed(c, p)
      PROVE  Passed(o, p)
  <2>1. PICK i \in 1..c.dir : Dirs[i] = p[1] /\ (i < c.dir \/ p[2] \notin c.listed)
    BY <1>9 DEF Passed
  <2>2. CASE i = c.dir
    <3>1. p[1] = d /\ p[2] \in Names /\ p = <<p[1], p[2]>>
      BY <1>6, <2>1, <2>2 DEF Places
    <3>2. p[2] \in here
      BY <1>9, <3>1 DEF here
    <3> QED
      BY <1>6, <2>1, <2>2, <3>2
  <2>3. CASE i # c.dir
    <3>1. i \in 1..o.dir /\ p[2] \notin o.listed
      BY <1>6, <1>8, <2>3
    <3> QED
      BY <2>1, <3>1 DEF Passed
  <2> QED
    BY <2>2, <2>3
<1>10. DOMAIN files \subseteq Places /\ o.steady \subseteq Places
  BY <1>5 DEF PInv, Typed, ScanOK
<1>11. Listed(c)
  BY <1>2, <1>5, <1>6, <1>8 DEF Listed, here
<1>12. Ran(c)
  BY <1>2, <1>5, <1>6, <1>9, <1>10 DEF Ran, There
<1>13. Once(c)
  BY <1>5, <1>6 DEF Once
<1>14. Behind(c)
  <2> SUFFICES ASSUME NEW e \in o.loaded \ {BuiltInEntry}
               PROVE  \E k \in 1..c.dir :
                        Dirs[k] = e.place[1] /\ (k < c.dir \/ \A m \in c.listed : ~Before(m, e.place[2]))
    BY <1>6 DEF Behind
  <2>1. PICK k \in 1..o.dir : Dirs[k] = e.place[1]
    BY <1>2, <1>5 DEF Behind
  <2>2. k \in 1..c.dir /\ k < c.dir
    BY <1>6, <1>8
  <2> QED
    BY <2>1, <2>2
<1>15. FirstLoaded(c)
  BY <1>2, <1>5, <1>6, <1>9, <1>10 DEF FirstLoaded, Holds
<1>16. HasReason(c)
  BY <1>6 DEF HasReason
<1> QED
  BY <1>2, <1>4, <1>6, <1>7, <1>11, <1>12, <1>13, <1>14, <1>15, <1>16, ScanGoesOn DEF ScanInv

LEMMA EntryIs ==
  ASSUME NEW plugin, NEW version, NEW place, NEW e, e = Entry(plugin, version, place)
  PROVE  e.plugin = plugin /\ e.version = version /\ e.place = place
BY DEF Entry

LEMMA RunsIs ==
  ASSUME NEW content, Runs(content)
  PROVE  content[1] \in Binaries /\ PluginIn(content) \in Plugins
<1>1. PICK b \in Binaries : content = Body(b)
  BY DEF Runs
<1>2. content[1] = b
  BY <1>1, BodyIs, PluginAssumption DEF Sources
<1> QED
  BY <1>1, <1>2 DEF PluginIn, Plugins

\* A list has each name once, whatever joins it.
LEMMA JoinIs ==
  ASSUME NEW loaded, NEW e, \A x, y \in loaded : x.plugin = y.plugin => x = y,
         NEW new, new = Join(loaded, e)
  PROVE  /\ \A x, y \in new : x.plugin = y.plugin => x = y
         /\ loaded \subseteq new /\ new \subseteq loaded \cup {e}
         /\ (\A x \in loaded : x.plugin # e.plugin) => e \in new
BY DEF Join

LEMMA LoadPluginStep ==
  ASSUME PInv, NEW u \in Users, IsScan(u), LoadPlugin(u)
  PROVE  PInv'
<1>1. PICK o : o = command[u]
  OBVIOUS
<1>2. PICK n, p :
        /\ n \in Names /\ p = <<Dirs[o.dir], n>>
        /\ IsNext(u, n) /\ There(p) /\ Runs(files[p])
        /\ Become(u, [command[u] EXCEPT
                        !.listed = @ \ {n},
                        !.loaded = Join(@, Entry(PluginIn(files[p]), files[p][1].version, p))])
        /\ UNCHANGED <<index, files, history, commands>>
  BY <1>1 DEF LoadPlugin
<1>3. PICK entry : entry = Entry(PluginIn(files[p]), files[p][1].version, p)
  OBVIOUS
<1>4. PICK c : c = [o EXCEPT !.listed = @ \ {n}, !.loaded = Join(@, entry)]
  OBVIOUS
<1>5. Become(u, c)
  BY <1>1, <1>2, <1>3, <1>4
<1>6. o.at = "file" /\ n \in o.listed /\ \A m \in o.listed : ~Before(m, n)
  BY <1>1, <1>2 DEF IsNext
<1>7. /\ o.op = "scan" /\ DOMAIN o = ScanFields /\ ScanOK(o)
      /\ Listed(o) /\ Ran(o) /\ Once(o) /\ Behind(o) /\ FirstLoaded(o)
      /\ Len(Dirs) \in Nat /\ DOMAIN Dirs = 1..Len(Dirs)
  BY <1>1, ScanRecord
<1>8. PICK loaded : loaded = Join(o.loaded, entry)
  OBVIOUS
<1>9. c = [o EXCEPT !.listed = @ \ {n}, !.loaded = loaded]
  BY <1>4, <1>8
<1>10. /\ c.op = "scan" /\ c.at = "file" /\ c.dir = o.dir /\ c.listed = o.listed \ {n}
       /\ c.loaded = loaded /\ c.skip = o.skip /\ c.steady = o.steady
       /\ DOMAIN c = ScanFields
  BY <1>6, <1>7, <1>9 DEF ScanFields
<1>11. /\ \A x, y \in loaded : x.plugin = y.plugin => x = y
       /\ o.loaded \subseteq loaded /\ loaded \subseteq o.loaded \cup {entry}
       /\ (\A x \in o.loaded : x.plugin # entry.plugin) => entry \in loaded
  BY <1>7, <1>8, JoinIs DEF Once
<1>12. entry.plugin = PluginIn(files[p]) /\ entry.place = p
  BY <1>3, EntryIs
<1>13. p \in DOMAIN files /\ p \in Places
  BY <1>2 DEF There, PInv, Typed
<1>14. o.dir \in 1..Len(Dirs) /\ o.skip = {}
  BY <1>6, <1>7 DEF ScanOK, Listed
<1>15. entry \in Entries
  <2>1. files[p][1] \in Binaries /\ PluginIn(files[p]) \in Plugins
    BY <1>2, RunsIs
  <2> QED
    BY <1>3, <1>13, <2>1 DEF Entries, Entry, Plugins, Versions
<1>16. ScanOK(c)
  BY <1>7, <1>10, <1>11, <1>14, <1>15 DEF ScanOK
<1>17. ASSUME NEW q \in Places, Passed(c, q)
       PROVE  Passed(o, q) \/ q = p
  <2>1. PICK i \in 1..o.dir : Dirs[i] = q[1] /\ (i < o.dir \/ q[2] \notin o.listed \ {n})
    BY <1>10, <1>17 DEF Passed
  <2>2. CASE i < o.dir \/ q[2] \notin o.listed
    BY <2>1, <2>2 DEF Passed
  <2>3. CASE i = o.dir /\ q[2] = n
    BY <1>2, <2>1, <2>3 DEF Places
  <2> QED
    BY <1>14, <2>1, <2>2, <2>3
<1>18. Listed(c)
  BY <1>6, <1>7, <1>10 DEF Listed
<1>19. DOMAIN files \subseteq Places /\ o.steady \subseteq Places
  BY <1>7 DEF PInv, Typed, ScanOK
<1>20. Ran(c)
  BY <1>2, <1>6, <1>7, <1>10, <1>17, <1>19 DEF Ran
<1>21. Once(c)
  BY <1>10, <1>11 DEF Once
<1>22. Behind(c)
  <2> SUFFICES ASSUME NEW e \in loaded \ {BuiltInEntry}
               PROVE  \E k \in 1..o.dir :
                        Dirs[k] = e.place[1] /\ (k < o.dir \/ \A m \in o.listed \ {n} : ~Before(m, e.place[2]))
    BY <1>10 DEF Behind
  <2>1. CASE e \in o.loaded
    BY <1>6, <1>7, <2>1 DEF Behind
  <2>2. CASE e = entry
    <3>1. e.place[1] = Dirs[o.dir] /\ e.place[2] = n /\ o.dir \in 1..o.dir
      BY <1>2, <1>12, <1>14, <2>2
    <3> QED
      BY <1>6, <3>1
  <2> QED
    BY <1>11, <2>1, <2>2
\* The new file is the first of its name, or the list has one before it.
<1>23. ASSUME p \in o.steady, NEW plugin \in Plugins \ (o.skip \cup {BuiltIn}), Holds(p, plugin)
       PROVE  \E e \in loaded : e.plugin = plugin /\ ~IsEarlier(p, e.place)
  <2>1. plugin = entry.plugin /\ p[1] = Dirs[o.dir] /\ p[2] = n
    BY <1>2, <1>12, <1>23 DEF Holds
  <2>2. CASE Passed(o, p)
    BY <1>6, <1>7, <1>11, <1>23, <2>2 DEF FirstLoaded
  <2>3. CASE ~Passed(o, p) /\ \A x \in o.loaded : x.plugin # plugin
    <3>1. ~IsEarlier(p, p)
      BY <1>6, <1>7, <2>1 DEF IsEarlier
    <3> QED
      BY <1>11, <1>12, <2>1, <2>3, <3>1
  <2>4. ASSUME ~Passed(o, p), NEW e \in o.loaded, e.plugin = plugin
        PROVE  ~IsEarlier(p, e.place)
    <3>1. e # BuiltInEntry
      BY <1>23, <2>4, EntryIs DEF BuiltInEntry
    <3>2. PICK k \in 1..o.dir :
            Dirs[k] = e.place[1] /\ (k < o.dir \/ \A m \in o.listed : ~Before(m, e.place[2]))
      BY <1>6, <1>7, <3>1 DEF Behind
    <3>3. \A i \in 1..o.dir : Dirs[i] = p[1] => ~(i < o.dir)
      BY <2>4 DEF Passed
    <3>4. ASSUME NEW i \in DOMAIN Dirs, Dirs[i] = p[1], \A j \in 1..i : Dirs[j] # e.place[1]
          PROVE  FALSE
      <4>1. i < k
        BY <1>7, <1>14, <3>2, <3>4
      <4> QED
        BY <1>7, <1>14, <3>3, <3>4, <4>1
    <3>5. ~(p[1] = e.place[1] /\ Before(p[2], e.place[2]))
      BY <1>6, <2>1, <3>2, <3>3
    <3> QED
      BY <3>4, <3>5 DEF IsEarlier
  <2> QED
    BY <1>11, <2>2, <2>3, <2>4
<1>24. FirstLoaded(c)
  <2> SUFFICES ASSUME NEW q \in o.steady, NEW plugin \in Plugins \ (o.skip \cup {BuiltIn}),
                      Passed(c, q), Holds(q, plugin)
               PROVE  \E e \in loaded : e.plugin = plugin /\ ~IsEarlier(q, e.place)
    BY <1>10 DEF FirstLoaded
  <2>1. CASE Passed(o, q)
    BY <1>6, <1>7, <1>11, <2>1 DEF FirstLoaded
  <2> QED
    BY <1>17, <1>19, <1>23, <2>1
<1>25. HasReason(c)
  BY <1>10 DEF HasReason
<1> QED
  BY <1>2, <1>5, <1>10, <1>16, <1>18, <1>20, <1>21, <1>22, <1>24, <1>25, ScanGoesOn DEF ScanInv

LEMMA LoadFailsStep ==
  ASSUME PInv, NEW u \in Users, IsScan(u), LoadFails(u)
  PROVE  PInv'
<1>1. PICK o : o = command[u]
  OBVIOUS
<1>2. PICK n, p :
        /\ n \in Names /\ p = <<Dirs[o.dir], n>>
        /\ IsNext(u, n)
        /\ There(p) => ~Runs(files[p]) \/ Writers(p) # {}
        /\ Become(u, [command[u] EXCEPT !.at = "failed"])
        /\ UNCHANGED <<index, files, history, commands>>
  BY <1>1 DEF LoadFails
<1>3. PICK c : c = [o EXCEPT !.at = "failed"]
  OBVIOUS
<1>4. o.at = "file" /\ n \in o.listed
  BY <1>1, <1>2 DEF IsNext
<1>5. /\ o.op = "scan" /\ DOMAIN o = ScanFields /\ ScanOK(o) /\ Listed(o) /\ Once(o)
      /\ Len(Dirs) \in Nat /\ DOMAIN Dirs = 1..Len(Dirs)
  BY <1>1, ScanRecord
<1>6. /\ c.op = "scan" /\ c.at = "failed" /\ c.dir = o.dir /\ c.listed = o.listed
      /\ c.loaded = o.loaded /\ c.skip = o.skip /\ c.steady = o.steady
      /\ DOMAIN c = ScanFields
  BY <1>3, <1>5 DEF ScanFields
<1>7. ScanOK(c)
  BY <1>5, <1>6 DEF ScanOK
<1>8. p \in Places
  BY <1>2, <1>4, <1>5 DEF ScanOK, Places, DirNames
<1>9. p \notin o.steady \/ (There(p) /\ (~Runs(files[p]) \/ Writers(p) # {}))
  BY <1>2, <1>4, <1>5 DEF Listed
<1>10. Listed(c) /\ Ran(c) /\ Once(c) /\ Behind(c) /\ FirstLoaded(c) /\ HasReason(c)
  BY <1>4, <1>5, <1>6, <1>8, <1>9 DEF Listed, Ran, Once, Behind, FirstLoaded, HasReason
<1> QED
  BY <1>1, <1>2, <1>3, <1>6, <1>7, <1>10, ScanGoesOn DEF ScanInv

LEMMA DirDoneStep ==
  ASSUME PInv, NEW u \in Users, DirDone(u)
  PROVE  PInv'
<1>1. PICK o : o = command[u]
  OBVIOUS
<1>2. PICK c : c = [o EXCEPT !.at = "dir"]
  OBVIOUS
<1>3. /\ IsScan(u) /\ o.at = "file" /\ o.listed = {}
      /\ Become(u, c) /\ UNCHANGED <<index, files, history, commands>>
  BY <1>1, <1>2 DEF DirDone
<1>4. /\ o.op = "scan" /\ DOMAIN o = ScanFields /\ ScanOK(o)
      /\ Listed(o) /\ Ran(o) /\ Once(o) /\ Behind(o) /\ FirstLoaded(o)
  BY <1>1, <1>3, ScanRecord
<1>5. /\ c.op = "scan" /\ c.at = "dir" /\ c.dir = o.dir /\ c.listed = o.listed
      /\ c.loaded = o.loaded /\ c.skip = o.skip /\ c.steady = o.steady
      /\ DOMAIN c = ScanFields
  BY <1>2, <1>4 DEF ScanFields
<1>6. ScanOK(c)
  BY <1>4, <1>5 DEF ScanOK
<1>7. \A p : Passed(c, p) <=> Passed(o, p)
  BY <1>5 DEF Passed
<1>8. Listed(c) /\ Ran(c) /\ Once(c) /\ Behind(c) /\ FirstLoaded(c) /\ HasReason(c)
  BY <1>3, <1>4, <1>5, <1>7 DEF Listed, Ran, Once, Behind, FirstLoaded, HasReason
<1> QED
  BY <1>3, <1>5, <1>6, <1>8, ScanGoesOn DEF ScanInv

LEMMA ScanDoneStep ==
  ASSUME PInv, NEW u \in Users, ScanDone(u)
  PROVE  PInv'
<1>1. PICK o : o = command[u]
  OBVIOUS
<1>2. PICK skip \in Skips :
        Become(u, [command[u] EXCEPT !.at = "done",
                                     !.loaded = {e \in @ : ~Skipped(e, skip)},
                                     !.skip = skip])
  BY DEF ScanDone
<1>3. PICK kept : kept = {e \in o.loaded : ~Skipped(e, skip)}
  OBVIOUS
<1>4. PICK c : c = [o EXCEPT !.at = "done", !.loaded = kept, !.skip = skip]
  OBVIOUS
<1>5. /\ IsScan(u) /\ o.at = "dir" /\ o.dir = Len(Dirs)
      /\ Become(u, c) /\ UNCHANGED <<index, files, history, commands>>
  BY <1>1, <1>2, <1>3, <1>4 DEF ScanDone
<1>6. /\ o.op = "scan" /\ DOMAIN o = ScanFields /\ ScanOK(o)
      /\ Listed(o) /\ Ran(o) /\ Once(o) /\ Behind(o) /\ FirstLoaded(o)
  BY <1>1, <1>5, ScanRecord
<1>7. /\ c.op = "scan" /\ c.at = "done" /\ c.dir = o.dir /\ c.listed = o.listed
      /\ c.loaded = kept /\ c.skip = skip /\ c.steady = o.steady
      /\ DOMAIN c = ScanFields
  BY <1>4, <1>6 DEF ScanFields
<1>8. ScanOK(c)
  BY <1>3, <1>6, <1>7 DEF ScanOK
<1>9. \A p : Passed(c, p) <=> Passed(o, p)
  BY <1>7 DEF Passed
<1>10. o.skip = {}
  BY <1>5, <1>6 DEF Listed
<1>11. FirstLoaded(c)
  <2> SUFFICES ASSUME NEW p \in o.steady, NEW plugin \in Plugins \ (skip \cup {BuiltIn}),
                      Passed(o, p), Holds(p, plugin)
               PROVE  \E e \in kept : e.plugin = plugin /\ ~IsEarlier(p, e.place)
    BY <1>7, <1>9 DEF FirstLoaded
  <2>1. PICK e \in o.loaded : e.plugin = plugin /\ ~IsEarlier(p, e.place)
    BY <1>5, <1>6, <1>10 DEF FirstLoaded
  <2> QED
    BY <1>3, <2>1 DEF Skipped
<1>12. Listed(c) /\ Ran(c) /\ Once(c) /\ Behind(c) /\ HasReason(c)
  BY <1>3, <1>5, <1>6, <1>7, <1>9 DEF Listed, Ran, Once, Behind, HasReason
<1> QED
  BY <1>5, <1>7, <1>8, <1>11, <1>12, ScanGoesOn DEF ScanInv

-----------------------------------------------------------------------------
(* add and remove.                                                         *)

LEMMA ManifestIs ==
  ASSUME NEW repo \in Indexes, NEW n \in DOMAIN repo
  PROVE  /\ n \in Names /\ <<n, n>> \in Matches
         /\ DOMAIN repo[n] = 1..Len(repo[n]) /\ Len(repo[n]) \in Nat
         /\ \A i \in 1..Len(repo[n]) : /\ repo[n][i].name \in Names /\ repo[n][i].version \in Versions
                                       /\ repo[n][i].binaries \in Seq(Binaries)
<1> DEFINE V == [name : Names, version : Versions, binaries : Seq(Binaries)]
<1>1. repo[n] \in Seq(V)
  BY PluginAssumption
<1> HIDE DEF V
<1>2. \A i \in 1..Len(repo[n]) : repo[n][i] \in V
  BY <1>1
<1>3. \A x \in V : x.name \in Names /\ x.version \in Versions /\ x.binaries \in Seq(Binaries)
  BY DEF V
<1>4. DOMAIN repo[n] = 1..Len(repo[n]) /\ Len(repo[n]) \in Nat
  BY <1>1
<1>5. n \in Names /\ <<n, n>> \in Matches
  BY PluginAssumption
<1> QED
  BY <1>2, <1>3, <1>4, <1>5

\* What is chosen for a name is a version in the manifest of that name.
LEMMA ChosenIs ==
  ASSUME NEW repo \in Indexes, NEW n, NEW v, NEW version \in ChosenVersion(repo, n, v)
  PROVE  /\ n \in DOMAIN repo
         /\ \E i \in 1..Len(repo[n]) : version = repo[n][i]
         /\ \E i \in DOMAIN YamlToManifest(repo[n]) : version = YamlToManifest(repo[n])[i]
<1> DEFINE manifests == BuildManifestMap(repo, n)
           versions  == IF n \in DOMAIN manifests THEN manifests[n] ELSE <<>>
<1>1. PICK i \in DOMAIN versions : version = versions[i]
  BY DEF ChosenVersion
<1>2. DOMAIN <<>> = {}
  OBVIOUS
<1>3. n \in DOMAIN manifests /\ versions = manifests[n]
  BY <1>1, <1>2
<1>4. n \in DOMAIN repo /\ versions = YamlToManifest(repo[n])
  BY <1>3 DEF BuildManifestMap
<1>5. versions = repo[n]
  BY <1>1, <1>2, <1>4 DEF YamlToManifest
<1> QED
  BY <1>1, <1>4, <1>5, ManifestIs

LEMMA ResolveStep ==
  ASSUME PInv, NEW u \in Users, Resolve(u)
  PROVE  PInv'
<1>1. PICK o : o = command[u]
  OBVIOUS
<1>2. PICK version \in ChosenVersion(index, o.asked, o.version) :
        /\ version.binaries # <<>>
        /\ \E s \in {BinaryOf(version), ErrorPage} :
             Become(u, [op |-> "add", at |-> "open",
                        place |-> <<o.place[1], version.name>>,
                        asked |-> o.asked, source |-> s, before |-> o.before])
  BY <1>1 DEF Resolve
<1>3. PICK s \in {BinaryOf(version), ErrorPage} :
        Become(u, [op |-> "add", at |-> "open", place |-> <<o.place[1], version.name>>,
                   asked |-> o.asked, source |-> s, before |-> o.before])
  BY <1>2
<1>4. PICK c : c = [op |-> "add", at |-> "open", place |-> <<o.place[1], version.name>>,
                    asked |-> o.asked, source |-> s, before |-> o.before]
  OBVIOUS
<1>5. /\ o.op = "add" /\ o.at = "resolve" /\ UNCHANGED <<index, files, history, commands>>
  BY <1>1 DEF Resolve, IsAdd
<1>6. /\ o.place \in Places /\ o.asked \in Names /\ o.before \subseteq Names
      /\ Unseen(index, o)
  BY <1>1, <1>5, OwnCommand, CommandKinds, AddFields
<1>7. /\ version.name \in Names /\ version.binaries \in Seq(Binaries)
      /\ version.name = o.asked \/ Renames(index, o.asked, version.name)
  <2>1. index \in Indexes
    BY DEF PInv, Typed
  <2>2. o.asked \in DOMAIN index
    BY <2>1, ChosenIs
  <2>3. PICK i \in 1..Len(index[o.asked]) : version = index[o.asked][i]
    BY <2>1, ChosenIs
  <2>4. i \in DOMAIN index[o.asked] /\ version.name \in Names /\ version.binaries \in Seq(Binaries)
    BY <2>1, <2>2, <2>3, ManifestIs
  <2> QED
    BY <2>2, <2>3, <2>4 DEF Renames
<1>8. s \in Sources
  <2>1. version.binaries[1] \in Binaries
    BY <1>2, <1>7
  <2> QED
    BY <2>1 DEF Sources, BinaryOf
<1>9. /\ c.op = "add" /\ c.at = "open" /\ c.place[2] = version.name
      /\ c.asked = o.asked /\ c.before = o.before
  BY <1>4
<1>10. <<o.place[1], version.name>> \in Places
  BY <1>6, <1>7 DEF Places
<1>11. c \in [op : {"add"}, at : {"open"}, place : Places, asked : Names,
               before : SUBSET Names, source : Sources]
  BY <1>4, <1>6, <1>8, <1>10
<1>12. IsCommand(c)
  BY <1>11 DEF IsCommand, AddCommands
<1>13. Unseen(index, c) /\ ScanInv(c)
  <2>1. o.place[2] = o.asked /\ o.asked \notin o.before
    BY <1>5, <1>6 DEF Unseen, Renames
  <2> QED
    BY <1>7, <1>9, <2>1 DEF Unseen, ScanInv
<1>14. \A p : ~Writes(command[u], p) /\ ~Writes(c, p)
  BY <1>1, <1>5, <1>9 DEF Writes
<1>15. commands' \in 0..MaxCommands
  BY <1>5 DEF PInv, Typed
<1> QED
  BY <1>3, <1>4, <1>5, <1>12, <1>13, <1>14, <1>15, QuietStep

\* Who writes to p after a step of u that changes p.
LEMMA WritersAfter ==
  ASSUME PInv, NEW u \in Users, NEW c, NEW p, Changing(u, c, p)
  PROVE  /\ Writers(p)' = IF Writes(c, p) THEN Writers(p) \cup {u} ELSE Writers(p) \ {u}
         /\ command'[u] = c
         /\ \A w \in Writers(p) \ {u} : command'[w] = command[w]
<1>1. DOMAIN command' = Users /\ command'[u] = c
  BY DEF Changing
<1>2. \A w \in Users \ {u} : command'[w] = Disturbed(command[w], p)
  BY DEF Changing
<1>3. ASSUME NEW w \in Users \ {u}
      PROVE  /\ Writes(command'[w], p) <=> Writes(command[w], p)
             /\ Writes(command[w], p) => command'[w] = command[w]
  BY <1>2, OwnCommand, DisturbedIs, DisturbedScan DEF Writes
<1>4. Writers(p)' = {w \in Users : Writes(command'[w], p)}
  BY DEF Writers, Writes, IsAdd
<1> QED
  BY <1>1, <1>3, <1>4, WritersWrite

LEMMA OpenFileStep ==
  ASSUME PInv, NEW u \in Users, OpenFile(u)
  PROVE  PInv'
<1>1. PICK o : o = command[u]
  OBVIOUS
<1>2. PICK p, s : p = o.place /\ s = o.source
  OBVIOUS
<1>3. PICK h : h = IF There(p) THEN [history[p] EXCEPT !.from = @ \cup {s}]
                   ELSE [from |-> {s}, cut |-> FALSE]
  OBVIOUS
<1>4. PICK c : c = [op |-> "add", at |-> "copy", place |-> p, source |-> s,
                    asked |-> o.asked, before |-> o.before, done |-> 0, linked |-> TRUE]
  OBVIOUS
<1>5. /\ o.op = "add" /\ o.at = "open"
      /\ files' = Put(files, p, <<>>) /\ history' = Put(history, p, h)
      /\ Changing(u, c, p) /\ UNCHANGED <<index, commands>>
  BY <1>1, <1>2, <1>3, <1>4 DEF OpenFile, IsAdd
<1>6. /\ p \in Places /\ s \in Sources /\ o.asked \in Names /\ o.before \subseteq Names
      /\ Unseen(index, o)
  BY <1>1, <1>2, <1>5, OwnCommand, CommandKinds, AddFields
<1>7. c \in [op : {"add"}, at : {"copy"}, place : Places, asked : Names, before : SUBSET Names,
             source : Sources, done : 0..Chunks, linked : BOOLEAN]
  BY <1>4, <1>6, PluginAssumption
<1>8. IsCommand(c)
  BY <1>7 DEF IsCommand, AddCommands
<1>9. /\ c.op = "add" /\ c.at = "copy" /\ c.place = p /\ c.asked = o.asked
      /\ c.before = o.before /\ c.source = s /\ c.done = 0
  BY <1>4
<1>10. Unseen(index, c)
  BY <1>2, <1>5, <1>6, <1>9 DEF Unseen
<1>11. Writes(c, p) /\ \A q : q # p => ~Writes(command[u], q) /\ ~Writes(c, q)
  BY <1>1, <1>4, <1>5 DEF Writes
<1>12. Writers(p)' = Writers(p) \cup {u} /\ command'[u] = c
       /\ \A w \in Writers(p) \ {u} : command'[w] = command[w]
  BY <1>5, <1>11, WritersAfter
<1>13. DOMAIN files' = DOMAIN files \cup {p} /\ files'[p] = <<>>
       /\ \A q \in DOMAIN files : q # p => files'[q] = files[q]
  BY <1>5 DEF Put
<1>14. DOMAIN history' = DOMAIN history \cup {p} /\ history'[p] = h
       /\ \A q \in DOMAIN history : q # p => history'[q] = history[q]
  BY <1>5 DEF Put
<1>15. DOMAIN history = DOMAIN files
  BY DEF PInv, Typed
<1>16. /\ h \in [from : SUBSET Sources, cut : BOOLEAN] /\ s \in h.from
       /\ There(p) => history[p].from \subseteq h.from
  <2>1. CASE There(p)
    <3>1. history[p] \in [from : SUBSET Sources, cut : BOOLEAN]
      BY <2>1 DEF There, PInv, Typed
    <3>2. h = [history[p] EXCEPT !.from = @ \cup {s}]
      BY <1>3, <2>1
    <3> QED
      BY <1>6, <3>1, <3>2
  <2>2. CASE ~There(p)
    BY <1>3, <1>6, <2>2
  <2> QED
    BY <2>1, <2>2
<1>17. \A w \in Writers(p) : command[w].source \in h.from
  <2> TAKE w \in Writers(p)
  <2>1. There(p)
    BY <1>6 DEF PInv, Typed
  <2> QED
    BY <1>16, <2>1 DEF PInv, Growing, There
<1>18. Growing(p)'
  <2>1. \A w \in Writers(p)' : command'[w].source \in h.from
    BY <1>9, <1>12, <1>16, <1>17
  <2>2. ASSUME NEW t \in Sources, h.from = {t}
        PROVE  /\ Len(files'[p]) <= Len(Body(t))
               /\ \A i \in 1..Len(Body(t)) : \E w \in Writers(p)' : command'[w].done < i
    <3>1. Len(files'[p]) = 0 /\ Len(Body(t)) \in Nat
      BY <1>13, BodyIs
    <3> QED
      BY <1>9, <1>12, <3>1
  <2> QED
    BY <1>14, <2>1, <2>2 DEF Growing
<1>19. There(p)' /\ \A q : q # p =>
         /\ There(q)' <=> There(q)
         /\ There(q) => files'[q] = files[q] /\ history'[q] = history[q]
  BY <1>13, <1>14, <1>15 DEF There
<1>20. files'[p] \in Seq(Sources \cup {Hole})
  BY <1>13
<1> QED
  BY <1>5, <1>6, <1>8, <1>9, <1>10, <1>11, <1>13, <1>14, <1>15, <1>16, <1>18, <1>19, <1>20, TouchStep

LEMMA CopyStep ==
  ASSUME PInv, NEW u \in Users, Copy(u)
  PROVE  PInv'
<1>1. PICK o : o = command[u]
  OBVIOUS
<1>2. PICK p, s : p = o.place /\ s = o.source
  OBVIOUS
<1>3. PICK c : c = [o EXCEPT !.done = @ + 1]
  OBVIOUS
<1>4. /\ o.op = "add" /\ o.at = "copy" /\ c.done <= Len(Body(c.source))
      /\ IF c.linked
         THEN /\ files' = [files EXCEPT ![p] = WriteAt(@, c.done, c.source)]
              /\ Changing(u, c, p)
         ELSE Become(u, c) /\ UNCHANGED files
      /\ UNCHANGED <<index, history, commands>>
  BY <1>1, <1>2, <1>3 DEF Copy, IsAdd
<1>5. /\ o \in [op : {"add"}, at : {"copy"}, place : Places, asked : Names, before : SUBSET Names,
                source : Sources, done : 0..Chunks, linked : BOOLEAN]
      /\ p \in Places /\ s \in Sources /\ o.done \in 0..Chunks /\ Unseen(index, o)
  BY <1>1, <1>2, <1>4, OwnCommand, CommandKinds, AddFields
<1>6. /\ c.op = "add" /\ c.at = "copy" /\ c.place = p
      /\ c.asked = o.asked /\ c.before = o.before
      /\ c.source = s /\ c.done = o.done + 1 /\ c.linked = o.linked
  BY <1>2, <1>3, <1>4, <1>5
<1>7. Len(Body(s)) \in 1..Chunks /\ o.done \in Nat /\ c.done \in 1..Len(Body(s))
  BY <1>4, <1>5, <1>6, BodyIs, PluginAssumption
<1>8. IsCommand(c)
  <2>1. o.done + 1 \in 0..Chunks
    BY <1>6, <1>7, PluginAssumption
  <2>2. c \in [op : {"add"}, at : {"copy"}, place : Places, asked : Names, before : SUBSET Names,
               source : Sources, done : 0..Chunks, linked : BOOLEAN]
    BY <1>3, <1>5, <2>1
  <2> QED
    BY <2>2 DEF IsCommand, AddCommands
<1>9. Unseen(index, c) /\ ScanInv(c)
  BY <1>2, <1>4, <1>5, <1>6 DEF Unseen, ScanInv
<1>10. \A q : q # p => ~Writes(command[u], q) /\ ~Writes(c, q)
  BY <1>1, <1>2, <1>6 DEF Writes
<1>11. CASE ~o.linked
  <2>1. \A q : ~Writes(command[u], q) /\ ~Writes(c, q)
    BY <1>1, <1>6, <1>11 DEF Writes
  <2>2. commands' \in 0..MaxCommands
    BY <1>4 DEF PInv, Typed
  <2>3. Become(u, c) /\ UNCHANGED files
    BY <1>4, <1>6, <1>11
  <2> QED
    BY <1>4, <1>8, <1>9, <2>1, <2>2, <2>3, QuietStep
<1>12. CASE o.linked
  <2>1. files' = [files EXCEPT ![p] = WriteAt(files[p], c.done, s)] /\ Changing(u, c, p)
    BY <1>4, <1>6, <1>12
  <2>2. Writes(c, p) /\ u \in Writers(p)
    BY <1>1, <1>2, <1>4, <1>6, <1>12, WritersWrite DEF Writes
  <2>3. Writers(p)' = Writers(p) /\ command'[u] = c
        /\ \A w \in Writers(p) \ {u} : command'[w] = command[w]
    BY <2>1, <2>2, WritersAfter
  <2>4. p \in DOMAIN files /\ files[p] \in Seq(Sources \cup {Hole}) /\ Growing(p)
        /\ history[p] \in [from : SUBSET Sources, cut : BOOLEAN] /\ DOMAIN history = DOMAIN files
    BY <1>5, <2>2 DEF PInv, Typed, There
  <2>5. PICK x : x = WriteAt(files[p], c.done, s)
    OBVIOUS
  <2>6. DOMAIN files' = DOMAIN files /\ files'[p] = x
        /\ \A q \in DOMAIN files : q # p => files'[q] = files[q]
    BY <2>1, <2>4, <2>5
  <2>7. /\ x \in Seq(Sources \cup {Hole})
        /\ Len(x) = IF Len(files[p]) < c.done THEN c.done ELSE Len(files[p])
        /\ x[c.done] = s
        /\ \A j \in 1..Len(files[p]) : j # c.done => x[j] = files[p][j]
    <3>1. c.done \in Nat \ {0}
      BY <1>7
    <3>2. PICK content, i : content = files[p] /\ i = c.done
      OBVIOUS
    <3>3. content \in Seq(Sources \cup {Hole}) /\ i \in Nat \ {0} /\ s \in Sources
          /\ x = WriteAt(content, i, s)
      BY <1>5, <2>4, <2>5, <3>1, <3>2
    <3>4. /\ x \in Seq(Sources \cup {Hole})
          /\ Len(x) = IF Len(content) < i THEN i ELSE Len(content)
          /\ x[i] = s
          /\ \A j \in 1..Len(content) : j # i => x[j] = content[j]
      BY <3>3, WriteAtIs
    <3> QED
      BY <3>2, <3>4
  <2>8. Growing(p)'
    <3>1. \A w \in Writers(p)' : command'[w].source \in history'[p].from
      BY <1>1, <1>2, <1>4, <1>6, <2>2, <2>3, <2>4 DEF Growing
    <3>2. ASSUME NEW t \in Sources, ~history[p].cut, history[p].from = {t}
          PROVE  /\ Len(x) <= Len(Body(t))
                 /\ \A i \in 1..Len(Body(t)) :
                      \/ i <= Len(x) /\ x[i] = t
                      \/ \E w \in Writers(p)' : command'[w].done < i
      <4>1. s = t
        BY <1>1, <1>2, <2>2, <2>4, <3>2 DEF Growing
      <4>2. Len(files[p]) <= Len(Body(t)) /\ Len(files[p]) \in Nat
        BY <2>4, <3>2 DEF Growing
      <4>3. Len(x) <= Len(Body(t))
        BY <1>7, <2>7, <4>1, <4>2
      <4>4. ASSUME NEW i \in 1..Len(Body(t))
            PROVE  \/ i <= Len(x) /\ x[i] = t
                   \/ \E w \in Writers(p)' : command'[w].done < i
        <5>1. CASE i = c.done
          BY <1>7, <2>7, <4>1, <4>2, <5>1
        <5>2. CASE i # c.done /\ i <= Len(files[p]) /\ files[p][i] = t
          BY <1>7, <2>7, <4>2, <4>4, <5>2
        <5>3. CASE i # c.done /\ \E w \in Writers(p) : command[w].done < i
          <6>1. PICK w \in Writers(p) : command[w].done < i
            BY <5>3
          <6>2. CASE w = u
            BY <1>1, <1>6, <1>7, <2>2, <2>3, <4>4, <5>3, <6>1, <6>2
          <6>3. CASE w # u
            BY <2>3, <6>1, <6>3
          <6> QED
            BY <6>2, <6>3
        <5> QED
          BY <2>4, <3>2, <4>4, <5>1, <5>2, <5>3 DEF Growing
      <4> QED
        BY <4>3, <4>4
    <3> QED
      BY <1>4, <2>6, <3>1, <3>2 DEF Growing
  <2>9. There(p)' /\ \A q : q # p =>
          /\ There(q)' <=> There(q)
          /\ There(q) => files'[q] = files[q] /\ history'[q] = history[q]
    BY <1>4, <2>4, <2>6 DEF There
  <2> QED
    BY <1>4, <1>5, <1>6, <1>8, <1>9, <1>10, <2>1, <2>4, <2>6, <2>7, <2>8, <2>9, TouchStep
<1> QED
  BY <1>5, <1>11, <1>12

\* A step that ends the command of who has p open.
LEMMA CloseIs ==
  ASSUME PInv, NEW u \in Users, Close(u), IsCommand(Idle)
  PROVE  \/ \E p \in Places : Writes(command[u], p) /\ Changing(u, Idle, p)
         \/ Become(u, Idle) /\ \A p : ~Writes(command[u], p)
<1>1. CASE \E p \in Places : u \in Writers(p)
  <2>1. PICK p \in Places : Writes(command[u], p)
    BY <1>1, WritersWrite
  <2> QED
    BY <1>1, <2>1 DEF Close, Writes
<1>2. CASE ~\E p \in Places : u \in Writers(p)
  <2>1. \A p \in Places : ~Writes(command[u], p)
    BY <1>2, WritersWrite
  <2>2. ASSUME NEW p, Writes(command[u], p)
        PROVE  FALSE
    <3>1. p \in Places
      BY <2>2, OwnCommand, CommandKinds, AddFields DEF Writes
    <3> QED
      BY <2>1, <2>2, <3>1
  <2> QED
    BY <1>2, <2>2 DEF Close
<1> QED
  BY <1>1, <1>2

LEMMA IdleIs ==
  /\ IsCommand(Idle) /\ (\A repo : Unseen(repo, Idle)) /\ ScanInv(Idle) /\ Idle.op = "idle"
  /\ \A p : ~Writes(Idle, p)
BY DEF IsCommand, Unseen, ScanInv, Idle, Writes

\* A writer is done with p: all of its chunks are written, or the download is cut.
LEMMA EndStep ==
  ASSUME PInv, NEW u \in Users, NEW p \in Places, Writes(command[u], p), Changing(u, Idle, p),
         UNCHANGED <<index, files, commands>>, DOMAIN history' = DOMAIN history,
         \A q \in DOMAIN history : q # p => history'[q] = history[q],
         history'[p] \in [from : SUBSET Sources, cut : BOOLEAN],
         history'[p].from = history[p].from,
         \/ history'[p].cut
         \/ history'[p].cut = history[p].cut
              /\ command[u].done = Len(Body(command[u].source))
  PROVE  PInv'
<1>1. u \in Writers(p)
  BY WritersWrite
<1>2. Writers(p)' = Writers(p) \ {u} /\ \A w \in Writers(p) \ {u} : command'[w] = command[w]
  BY IdleIs, WritersAfter
<1>3. p \in DOMAIN files /\ files[p] \in Seq(Sources \cup {Hole}) /\ Growing(p)
      /\ DOMAIN history = DOMAIN files
  BY <1>1 DEF PInv, Typed, There
<1>4. Growing(p)'
  <2>1. \A w \in Writers(p)' : command'[w].source \in history'[p].from
    BY <1>2, <1>3 DEF Growing
  <2>2. ASSUME NEW t \in Sources, ~history'[p].cut, history'[p].from = {t}
        PROVE  /\ Len(files[p]) <= Len(Body(t))
               /\ \A i \in 1..Len(Body(t)) :
                    \/ i <= Len(files[p]) /\ files[p][i] = t
                    \/ \E w \in Writers(p)' : command'[w].done < i
    <3>1. command[u].source = t /\ command[u].done = Len(Body(t)) /\ ~history[p].cut
          /\ history[p].from = {t}
      BY <1>1, <1>3, <2>2 DEF Growing
    <3>2. Len(Body(t)) \in Nat
      BY BodyIs
    <3>3. Len(files[p]) <= Len(Body(t))
      BY <1>3, <3>1 DEF Growing
    <3>4. ASSUME NEW i \in 1..Len(Body(t)), ~(i <= Len(files[p]) /\ files[p][i] = t)
          PROVE  \E w \in Writers(p)' : command'[w].done < i
      <4>1. PICK w \in Writers(p) : command[w].done < i
        BY <1>3, <3>1, <3>4 DEF Growing
      <4>2. w # u
        BY <3>1, <3>2, <4>1
      <4> QED
        BY <1>2, <4>1, <4>2
    <3> QED
      BY <3>3, <3>4
  <2> QED
    BY <2>1, <2>2 DEF Growing
<1>5. \A q : q # p => ~Writes(command[u], q) /\ ~Writes(Idle, q)
  BY IdleIs DEF Writes
<1>6. There(p)' /\ \A q : q # p =>
        /\ There(q)' <=> There(q)
        /\ There(q) => files'[q] = files[q] /\ history'[q] = history[q]
  BY <1>3 DEF There
<1> QED
  BY <1>3, <1>4, <1>5, <1>6, IdleIs, TouchStep

LEMMA AddedStep ==
  ASSUME PInv, NEW u \in Users, Added(u)
  PROVE  PInv'
<1>1. /\ Close(u) /\ UNCHANGED <<index, files, history, commands>>
      /\ command[u].done = Len(Body(command[u].source))
  BY DEF Added
<1>2. CASE \E p \in Places : Writes(command[u], p) /\ Changing(u, Idle, p)
  <2>1. PICK p \in Places : Writes(command[u], p) /\ Changing(u, Idle, p)
    BY <1>2
  <2>2. p \in DOMAIN files
    BY <2>1, WritersWrite DEF PInv, Typed, There
  <2>3. history[p] \in [from : SUBSET Sources, cut : BOOLEAN]
    BY <2>2 DEF PInv, Typed
  <2> QED
    BY <1>1, <2>1, <2>3, EndStep
<1>3. CASE Become(u, Idle) /\ \A p : ~Writes(command[u], p)
  <2>1. commands' \in 0..MaxCommands
    BY <1>1 DEF PInv, Typed
  <2> QED
    BY <1>1, <1>3, <2>1, IdleIs, QuietStep
<1> QED
  BY <1>1, <1>2, <1>3, CloseIs, IdleIs

LEMMA StopStep ==
  ASSUME PInv, NEW u \in Users, Stop(u)
  PROVE  PInv'
<1>1. Close(u) /\ UNCHANGED <<index, files, commands>>
  BY DEF Stop
<1>2. /\ DOMAIN history' = DOMAIN history
      /\ \A q \in DOMAIN history :
           history'[q] = IF Writes(command[u], q) THEN [history[q] EXCEPT !.cut = TRUE] ELSE history[q]
  BY WritersWrite DEF Stop
<1>3. CASE \E p \in Places : Writes(command[u], p) /\ Changing(u, Idle, p)
  <2>1. PICK p \in Places : Writes(command[u], p) /\ Changing(u, Idle, p)
    BY <1>3
  <2>2. p \in DOMAIN history
    BY <2>1, WritersWrite DEF PInv, Typed, There
  <2>3. history[p] \in [from : SUBSET Sources, cut : BOOLEAN]
    BY <2>2 DEF PInv, Typed
  <2>4. history'[p] = [history[p] EXCEPT !.cut = TRUE]
    BY <1>2, <2>1, <2>2
  <2>5. /\ history'[p] \in [from : SUBSET Sources, cut : BOOLEAN]
        /\ history'[p].from = history[p].from /\ history'[p].cut
    BY <2>3, <2>4
  <2>6. \A q \in DOMAIN history : q # p => history'[q] = history[q]
    BY <1>2, <2>1 DEF Writes
  <2> QED
    BY <1>1, <1>2, <2>1, <2>5, <2>6, EndStep
<1>4. CASE Become(u, Idle) /\ \A p : ~Writes(command[u], p)
  <2>1. commands' \in 0..MaxCommands
    BY <1>1 DEF PInv, Typed
  <2> QED
    BY <1>1, <1>2, <1>4, <2>1, IdleIs, QuietStep
<1> QED
  BY <1>1, <1>3, <1>4, CloseIs, IdleIs

LEMMA UnlinkStep ==
  ASSUME PInv, NEW u \in Users, Unlink(u)
  PROVE  PInv'
<1>1. PICK p : p = command[u].place
  OBVIOUS
<1>2. command[u].op = "remove" /\ UNCHANGED <<index, commands>>
  BY DEF Unlink, IsRemove
<1>3. p \in Places /\ \A q : ~Writes(command[u], q)
  BY <1>1, <1>2, OwnCommand, CommandKinds DEF Writes
<1>4. CASE There(p)
  <2>1. /\ files' = Drop(files, p) /\ history' = Drop(history, p)
        /\ command' = [w \in Users |-> IF w = u THEN Idle ELSE Unlinked(command[w], p)]
    BY <1>1, <1>4 DEF Unlink
  <2>2. /\ DOMAIN files' = DOMAIN files \ {p} /\ \A q \in DOMAIN files : q # p => files'[q] = files[q]
        /\ DOMAIN history' = DOMAIN history \ {p}
        /\ \A q \in DOMAIN history : q # p => history'[q] = history[q]
    BY <2>1 DEF Drop
  <2>3. DOMAIN history = DOMAIN files
    BY DEF PInv, Typed
  <2>4. ~There(p)' /\ \A q : q # p =>
          /\ There(q)' <=> There(q)
          /\ There(q) => files'[q] = files[q] /\ history'[q] = history[q]
    BY <2>2, <2>3 DEF There
  <2>5. Writers(p)' = {}
    <3>1. Writers(p)' = {w \in Users : Writes(command'[w], p)}
      BY DEF Writers, Writes, IsAdd
    <3>2. \A w \in Users : w # u => ~Writes(command'[w], p)
      BY <2>1, OwnCommand, UnlinkedIs
    <3>3. ~Writes(command'[u], p)
      BY <2>1, IdleIs
    <3> QED
      BY <3>1, <3>2, <3>3
  <2> QED
    BY <1>2, <1>3, <2>1, <2>2, <2>3, <2>4, <2>5, IdleIs, TouchStep
<1>5. CASE ~There(p)
  <2>1. Become(u, Idle) /\ UNCHANGED <<files, history>>
    BY <1>1, <1>5 DEF Unlink
  <2>2. commands' \in 0..MaxCommands
    BY <1>2 DEF PInv, Typed
  <2> QED
    BY <1>2, <1>3, <2>1, <2>2, IdleIs, QuietStep
<1> QED
  BY <1>4, <1>5

-----------------------------------------------------------------------------

LEMMA InitInv == Init => PInv
<1> SUFFICES ASSUME Init PROVE PInv
  OBVIOUS
<1>1. \A u \in Users : command[u] = Idle
  BY DEF Init
<1>2. \A p : Writers(p) = {}
  BY <1>1, IdleIs, WritersWrite
<1>3. ASSUME NEW p \in DOMAIN files
      PROVE  /\ p \in Places /\ files[p] \in Seq(Sources \cup {Hole})
             /\ history[p] \in [from : SUBSET Sources, cut : BOOLEAN]
             /\ Growing(p)
  <2>1. p \in Places /\ \E s \in Sources : files[p] = Body(s)
    BY <1>3, InstalledAssumption DEF Init
  <2>2. PICK s \in Sources : files[p] = Body(s)
    BY <2>1
  <2>3. files[p] \in Seq(Sources \cup {Hole}) /\ files[p][1] = s
        /\ \A i \in 1..Len(Body(s)) : files[p][i] = s
    BY <2>2, BodyIs, PluginAssumption
  <2>4. history[p] = [from |-> {s}, cut |-> FALSE]
    BY <2>3 DEF Init
  <2>5. Len(Body(s)) \in Nat
    BY BodyIs
  <2>6. Growing(p)
    BY <1>2, <2>2, <2>3, <2>4, <2>5 DEF Growing
  <2> QED
    BY <2>1, <2>3, <2>4, <2>6
<1>4. Typed
  BY <1>1, <1>2, <1>3, IdleIs, PluginAssumption DEF Init, Typed
<1> QED
  BY <1>1, <1>3, <1>4, IdleIs DEF PInv

LEMMA NextInv == PInv /\ [Next]_vars => PInv'
<1> SUFFICES ASSUME PInv, [Next]_vars PROVE PInv'
  OBVIOUS
<1>1. ASSUME NEW u \in Users, Add(u) \/ Resolve(u) \/ OpenFile(u) \/ Copy(u) \/ Added(u)
      PROVE  PInv'
  BY <1>1, AddStep, ResolveStep, OpenFileStep, CopyStep, AddedStep
<1>2. ASSUME NEW u \in Users, Remove(u) \/ Unlink(u) \/ Stop(u)
      PROVE  PInv'
  BY <1>2, RemoveStep, UnlinkStep, StopStep
<1>3. ASSUME NEW u \in Users,
             Scan(u) \/ ReadDir(u) \/ LoadPlugin(u) \/ LoadFails(u) \/ DirDone(u) \/ ScanDone(u)
      PROVE  PInv'
  <2>1. LoadPlugin(u) \/ LoadFails(u) => IsScan(u)
    BY DEF LoadPlugin, LoadFails, IsNext
  <2> QED
    BY <1>3, <2>1, ScanStep, ReadDirStep, LoadPluginStep, LoadFailsStep, DirDoneStep, ScanDoneStep
<1>4. CASE UNCHANGED vars
  <2> USE DEF vars
  <2>1. \A p : Writers(p)' = Writers(p)
    BY <1>4 DEF Writers, IsAdd
  <2>2. Typed'
    BY <1>4, <2>1 DEF PInv, Typed, There
  <2>3. \A p : Growing(p) => Growing(p)'
    BY <1>4, <2>1 DEF Growing
  <2>4. \A u \in Users : Unseen(index, command[u])' /\ ScanInv(command[u])'
    <3> TAKE u \in Users
    <3>1. Spectates(command[u], command'[u])
      BY <1>4, <2>1, OwnCommand DEF Spectates, SamePlace, There
    <3> QED
      BY <3>1, <1>4, OwnCommand, OthersKept DEF PInv, Unseen
  <2> QED
    BY <1>4, <2>2, <2>3, <2>4 DEF PInv
<1> QED
  BY <1>1, <1>2, <1>3, <1>4 DEF Next
-----------------------------------------------------------------------------
(* What follows from the invariant.                                        *)

THEOREM Invariance == Spec => []PInv
<1>1. Init => PInv
  BY InitInv
<1>2. PInv /\ [Next]_vars => PInv'
  BY NextInv
<1> QED
  BY <1>1, <1>2, PTL DEF Spec

\* The contents, the places and the commands are of their kinds, and a file that
\* is being written is there.
THEOREM TypeCorrect == Spec => []TypeOK
<1>1. PInv => TypeOK
  BY DEF PInv, Typed, TypeOK, IsCommand, IsScan
<1> QED
  BY <1>1, Invariance, PTL

\* Overlapping downloads of one source into one file leave the whole of it once
\* all of them have finished (add.go:223-230).
THEOREM FinishedWhole == Spec => []FinishedIsWhole
<1>1. ASSUME PInv PROVE FinishedIsWhole
  <2> SUFFICES ASSUME NEW p \in DOMAIN files, NEW s \in Sources, Writers(p) = {},
                      ~history[p].cut, history[p].from = {s}
               PROVE  files[p] = Body(s)
    BY DEF FinishedIsWhole
  <2>1. files[p] \in Seq(Sources \cup {Hole})
    BY <1>1 DEF PInv, Typed
  <2>2. Body(s) \in Seq(Sources \cup {Hole}) /\ \A i \in 1..Len(Body(s)) : Body(s)[i] = s
    BY BodyIs
  <2>3. /\ Len(files[p]) <= Len(Body(s))
        /\ \A i \in 1..Len(Body(s)) : i <= Len(files[p]) /\ files[p][i] = s
    BY <1>1 DEF PInv, Growing
  <2>4. Len(files[p]) = Len(Body(s))
    BY <2>1, <2>2, <2>3, LenProperties
  <2> QED
    BY <2>1, <2>2, <2>3, <2>4, SeqEqual
<1> QED
  BY <1>1, Invariance, PTL

\* A list of plugins has each name once (plugin_helper.go:81-91).
THEOREM NamesOnce == Spec => []LoadedOnce
<1>1. PInv => LoadedOnce
  BY DEF PInv, ScanInv, Once, LoadedOnce, IsScan
<1> QED
  BY <1>1, Invariance, PTL

\* A scan that is done has got past every place.
LEMMA AllPassed ==
  ASSUME PInv, NEW u \in Users, IsScan(u), command[u].at = "done", NEW p \in Places
  PROVE  Passed(command[u], p)
<1>1. command[u].dir = Len(Dirs) /\ command[u].listed = {}
  BY ScanRecord DEF Listed
<1>2. PICK i \in 1..Len(Dirs) : Dirs[i] = p[1]
  BY ScanRecord DEF Places, DirNames
<1> QED
  BY <1>1, <1>2 DEF Passed

\* A command that goes on has run every executable file that was there all the
\* time (plugin_helper.go:53-56).
THEOREM AllRun == Spec => []NothingLeftOut
<1>1. ASSUME PInv PROVE NothingLeftOut
  <2> SUFFICES ASSUME NEW u \in Users, IsScan(u), command[u].at = "done",
                      NEW p \in DOMAIN files \cap command[u].steady
               PROVE  Runs(files[p])
    BY DEF NothingLeftOut
  <2>1. p \in Places
    BY <1>1 DEF PInv, Typed
  <2> QED
    BY <1>1, <2>1, AllPassed, ScanRecord DEF Ran
<1> QED
  BY <1>1, Invariance, PTL

\* A command goes on with the first of the plugins of a name, in the order of the
\* directories, whatever others add and remove meanwhile (plugin_helper.go:74-91).
THEOREM FirstIsLoaded == Spec => []FirstOfANameIsLoaded
<1>1. ASSUME PInv PROVE FirstOfANameIsLoaded
  <2> SUFFICES ASSUME NEW u \in Users, IsScan(u), command[u].at = "done", NEW p \in Places,
                      NEW plugin \in Plugins \ command[u].skip,
                      HeldThroughout(u, p, plugin), plugin # BuiltIn
               PROVE  \E e \in command[u].loaded : e.plugin = plugin /\ ~IsEarlier(p, e.place)
    BY DEF FirstOfANameIsLoaded, Plugins
  <2>1. p \in command[u].steady /\ Holds(p, plugin)
    BY DEF HeldThroughout, Holds
  <2>2. Passed(command[u], p)
    BY <1>1, AllPassed
  <2>3. FirstLoaded(command[u])
    BY <1>1, ScanRecord
  <2> QED
    BY <2>1, <2>2, <2>3 DEF FirstLoaded
<1> QED
  BY <1>1, Invariance, PTL

\* A scan fails only over a file that is no plugin or that somebody has changed
\* meanwhile (plugin_helper.go:25, 43-56).
THEOREM FailureHasReason == Spec => []FailsForAReason
<1>1. PInv => FailsForAReason
  BY DEF PInv, ScanInv, HasReason, FailsForAReason, IsScan
<1> QED
  BY <1>1, Invariance, PTL

-----------------------------------------------------------------------------
(* The repository.                                                         *)

LEMMA SmallestOf ==
  ASSUME NEW S, S \subseteq Nat, S # {}
  PROVE  \E j \in S : \A k \in S : j <= k
<1> DEFINE R == {x \in Nat \X Nat : x[1] < x[2]}
<1>1. OpToRel(<, Nat) = R
  BY Zenon DEF OpToRel
<1>2. IsWellFoundedOn(R, Nat)
  BY <1>1, NatLessThanWellFounded, Zenon
<1>3. \A x, y \in Nat : x < y => <<x, y>> \in R
  OBVIOUS
<1> HIDE DEF R
<1>4. PICK j \in S : \A k \in S : ~ (<<k, j>> \in R)
  BY <1>2, WFMin
<1>5. ASSUME NEW k \in S PROVE j <= k
  <2>1. k \in Nat /\ j \in Nat
    OBVIOUS
  <2>2. ~(k < j)
    BY <1>3, <1>4, <2>1, Zenon
  <2> QED
    BY <2>1, <2>2
<1> QED
  BY <1>5

LEMMA FilteredIs ==
  ASSUME NEW repo \in Indexes, NEW n \in DOMAIN repo, NEW f, f = YamlToManifest(repo[n])
  PROVE  /\ f = repo[n] \/ f = <<>>
         /\ DOMAIN f = 1..Len(f) /\ Len(f) \in Nat
         /\ \A i \in DOMAIN f : f[i].name \in Names /\ f[i].version \in Versions
<1>1. CASE f = repo[n]
  <2>1. /\ DOMAIN repo[n] = 1..Len(repo[n]) /\ Len(repo[n]) \in Nat
        /\ \A i \in 1..Len(repo[n]) : repo[n][i].name \in Names /\ repo[n][i].version \in Versions
    BY ManifestIs
  <2> QED
    BY <1>1, <2>1, Zenon
<1>2. CASE f = <<>>
  BY <1>2
<1> QED
  BY <1>1, <1>2 DEF YamlToManifest

\* add finds a version that is asked for if the manifest the index has for it
\* has one.
LEMMA FoundIs ==
  ASSUME NEW repo \in Indexes, NEW n \in DOMAIN repo, NEW v \in Versions,
         NEW i \in DOMAIN YamlToManifest(repo[n]), YamlToManifest(repo[n])[i].version = v
  PROVE  \E version \in ChosenVersion(repo, n, v) : version.version = v
<1> DEFINE manifests == BuildManifestMap(repo, n)
           versions  == IF n \in DOMAIN manifests THEN manifests[n] ELSE <<>>
           fits      == {k \in DOMAIN versions :
                           Wanted(versions, v) \in {AnyVersion, versions[k].version}}
<1>1. ChosenVersion(repo, n, v) = {versions[k] : k \in {j \in fits : \A k \in fits : j <= k}}
  BY DEF ChosenVersion
<1>2. n \in DOMAIN manifests /\ manifests[n] = YamlToManifest(repo[n])
  BY ManifestIs DEF BuildManifestMap
<1>3. PICK f : f = YamlToManifest(repo[n])
  OBVIOUS
<1>4. versions = f /\ DOMAIN f = 1..Len(f) /\ Len(f) \in Nat
  BY <1>2, <1>3, FilteredIs
<1>5. Wanted(f, v) = v /\ v # AnyVersion
  BY PluginAssumption DEF Wanted
<1>6. fits = {k \in 1..Len(f) : f[k].version = v}
  BY <1>4, <1>5
<1> HIDE DEF fits, versions
<1>7. fits \subseteq Nat /\ fits # {}
  BY <1>3, <1>4, <1>6
<1>8. PICK j \in fits : \A k \in fits : j <= k
  BY <1>7, SmallestOf
<1>9. f[j] \in ChosenVersion(repo, n, v)
  BY <1>1, <1>4, <1>8
<1> QED
  BY <1>6, <1>8, <1>9

\* Whatever add is asked for, it installs what plugin-manager list prints; and
\* what is listed can be asked for, has a binary and is saved under the name
\* listed, save where the repository is faulty (list.go:177-194, add.go:151-180).
THEOREM ListedInstalls == Spec => []ListedIsInstallable
<1>1. ASSUME PInv PROVE ListedIsInstallable
  <2>1. PICK repo \in Indexes : repo = index
    BY <1>1 DEF PInv, Typed
  <2>2. ASSUME NEW n, NEW v, NEW version \in ChosenVersion(repo, n, v)
        PROVE  <<version.name, version.version>> \in groupInformationForPlugins(repo)
    <3>1. n \in DOMAIN repo
      BY ChosenIs
    <3>2. PICK i \in DOMAIN YamlToManifest(repo[n]) : version = YamlToManifest(repo[n])[i]
      BY ChosenIs
    <3> QED
      BY <3>1, <3>2 DEF groupInformationForPlugins
  <2>3. ASSUME NEW x \in groupInformationForPlugins(repo), ~Faulty(repo, x)
        PROVE  \E version \in ChosenVersion(repo, x[1], x[2]) :
                 version.name = x[1] /\ version.version = x[2] /\ version.binaries # <<>>
    <3>1. PICK m \in DOMAIN repo : \E i \in DOMAIN YamlToManifest(repo[m]) :
            x = <<YamlToManifest(repo[m])[i].name, YamlToManifest(repo[m])[i].version>>
      BY DEF groupInformationForPlugins
    <3>2. PICK f : f = YamlToManifest(repo[m])
      OBVIOUS
    <3>3. PICK i \in DOMAIN f : x = <<f[i].name, f[i].version>>
      BY <3>1, <3>2
    <3>4. f[i].version \in Versions /\ f = repo[m]
      <4>1. DOMAIN <<>> = {}
        OBVIOUS
      <4> QED
        BY <3>2, <4>1, FilteredIs
    <3>5. m = x[1]
      BY <2>3, <3>3, <3>4 DEF Faulty
    <3>6. PICK version \in ChosenVersion(repo, x[1], x[2]) : version.version = x[2]
      BY <3>2, <3>3, <3>4, <3>5, FoundIs
    <3>7. PICK j \in 1..Len(repo[m]) : version = repo[m][j]
      BY <3>5, <3>6, ChosenIs
    <3>8. j \in DOMAIN repo[m]
      BY <3>7, ManifestIs
    <3> QED
      BY <2>3, <3>5, <3>6, <3>7, <3>8 DEF Faulty
  <2> QED
    BY <2>1, <2>2, <2>3 DEF ListedIsInstallable
<1> QED
  BY <1>1, Invariance, PTL

-----------------------------------------------------------------------------

\* An installed file goes only by a remove of it, and is written to only by an
\* add to its place that did not see it when it looked, or that looked for the
\* name of a plugin whose manifest has the name of the file: whatever the
\* repository calls its plugins (add.go:75-86, 157, 176, 223).
THEOREM InstalledKept == Spec => KeepsInstalled
<1> DEFINE By(p, u) ==
      /\ IF p \in DOMAIN files' THEN IsAdd(u) ELSE IsRemove(u)
      /\ command[u].place = p
      /\ IsAdd(u) => \/ p[2] \notin command[u].before
                     \/ Renames(index, command[u].asked, p[2])
<1>1. ASSUME PInv, [Next]_vars, NEW p \in DOMAIN files, p \notin DOMAIN files' \/ files'[p] # files[p]
      PROVE  \E u \in Users : By(p, u)
  <2>1. ASSUME NEW u \in Users, OpenFile(u) \/ Copy(u)
        PROVE  By(p, u)
    <3>1. IsAdd(u)
      BY <2>1 DEF OpenFile, Copy
    <3>2. p \in DOMAIN files' /\ command[u].place = p
      BY <1>1, <2>1 DEF OpenFile, Copy, Put
    <3> QED
      BY <1>1, <3>1, <3>2 DEF PInv, Unseen, IsAdd
  <2>2. ASSUME NEW u \in Users, Unlink(u)
        PROVE  By(p, u)
    <3>1. p \notin DOMAIN files' /\ command[u].place = p
      BY <1>1, <2>2 DEF Unlink, Drop
    <3>2. IsRemove(u) /\ ~IsAdd(u)
      BY <2>2 DEF Unlink, IsRemove, IsAdd
    <3> QED
      BY <3>1, <3>2
  <2>3. ASSUME NEW u \in Users,
               \/ Add(u) \/ Resolve(u) \/ Added(u) \/ Remove(u) \/ Scan(u) \/ ReadDir(u)
               \/ LoadPlugin(u) \/ LoadFails(u) \/ DirDone(u) \/ ScanDone(u) \/ Stop(u)
        PROVE  files' = files
    BY <2>3 DEF Add, Resolve, Added, Remove, Scan, Begin, ReadDir, LoadPlugin, LoadFails,
                DirDone, ScanDone, Stop
  <2> HIDE DEF By
  <2> QED
    BY <1>1, <2>1, <2>2, <2>3 DEF Next, vars
<1>2. PInv /\ [Next]_vars =>
        [\A p \in DOMAIN files : p \notin DOMAIN files' \/ files'[p] # files[p] =>
           \E u \in Users : By(p, u)]_vars
  BY <1>1
<1> QED
  BY <1>2, Invariance, PTL DEF Spec, KeepsInstalled

=============================================================================
