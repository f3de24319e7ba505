---------------------------- MODULE PluginManager ----------------------------
(***************************************************************************)
(* The plugin directories and the commands that meet in them: plugin-      *)
(* manager add downloads a plugin in place, remove deletes it, and every   *)
(* command that needs the plugins (transform, its list-plugins and         *)
(* optionals, plugin-manager list --installed) scans the directories and   *)
(* runs each executable file it finds for its metadata.  Nothing locks the *)
(* directories: the commands of several users interleave, fail, and are    *)
(* killed between any two file operations.                                 *)
(***************************************************************************)
EXTENDS Naturals, Sequences, FiniteSets

CONSTANTS Users,        \* those who give commands, one at a time each
          Dirs,         \* the directories in the order a scan gets to them
          NameOrder,    \* the file names in the order ReadDir gives them
          AddDirs,      \* --plugin-dir, or with --global the global directory
          RemoveDirs,   \* --plugin-dir and its subdirectory --repo
          Binaries,     \* what a manifest can offer: [plugin, version, platform]
          ErrorPage,    \* the body of an answer such as 404
          Chunks,       \* the writes io.Copy makes of a binary
          Hole,         \* zeros before a write beyond the end of a file
          Platform,     \* GOOS and GOARCH
          BuiltIn,      \* the name of the built-in Kubernetes plugin
          Skips,        \* the lists --skip-plugins may give
          Matches,      \* <<n, m>>: the name m contains the name n
          AnyVersion,   \* no --version is given
          Indexes,      \* the repositories: index name to the versions of it
          Installed,    \* what the directories may hold to begin with
          MaxCommands   \* bound: the commands begun

Names    == {NameOrder[i] : i \in DOMAIN NameOrder}
DirNames == {Dirs[i] : i \in DOMAIN Dirs}
Places   == DirNames \X Names
Sources  == Binaries \cup {ErrorPage}
Versions == {b.version : b \in Binaries}

\* A repository is any: a manifest may call a version otherwise than the index
\* calls the plugin, give one version twice, or give it no binary.  A name
\* contains itself.
ASSUME PluginAssumption ==
  /\ Dirs \in Seq(DirNames)
  /\ Chunks \in Nat \ {0}
  /\ MaxCommands \in Nat
  /\ ErrorPage \notin Binaries
  /\ Hole \notin Sources
  /\ AddDirs \cup RemoveDirs \subseteq DirNames
  /\ AnyVersion \notin Versions
  /\ \A repo \in Indexes : DOMAIN repo \subseteq Names /\
       \A n \in DOMAIN repo :
         /\ repo[n] \in Seq([name : Names, version : Versions, binaries : Seq(Binaries)])
         /\ <<n, n>> \in Matches

VARIABLES index,   \* the repository
          files,   \* the files there are: place to content
          history, \* history: of each file, the sources opened for it, and
                   \* whether one of these downloads was given up
          command, \* what each user is doing; of a scan also, as history, the
                   \* places that have not changed since it began (steady)
          commands \* commands begun

vars == <<index, files, history, command, commands>>

--------------------------------------------------------------------------
(* The repository                                                          *)

OfPlatform(version) ==
  \E i \in DOMAIN version.binaries : version.binaries[i].platform = Platform

\* Only whether one version has a binary for the platform counts: the loop
\* filters the binaries of its own copy of each version.
FilterPluginForOsArch(versions) ==
  \E i \in DOMAIN versions : OfPlatform(versions[i])

YamlToManifest(versions) ==
  IF FilterPluginForOsArch(versions) THEN versions ELSE <<>>

\* The manifests of all the plugins whose name contains the name.
BuildManifestMap(repo, n) ==
  [m \in {x \in DOMAIN repo : <<n, x>> \in Matches} |-> YamlToManifest(repo[m])]

\* The version of the plugin called n that add installs, if it finds one: the
\* only one if it is the one asked for, or the first that has the version
\* asked for or, by default, the last version in sorted order.
Wanted(versions, v) ==
  IF v # AnyVersion \/ Len(versions) = 1 THEN v
  ELSE CHOOSE w \in {versions[i].version : i \in DOMAIN versions} :
         \A i \in DOMAIN versions : versions[i].version <= w

ChosenVersion(repo, n, v) ==
  LET manifests == BuildManifestMap(repo, n)
      versions  == IF n \in DOMAIN manifests THEN manifests[n] ELSE <<>>
      fits      == {i \in DOMAIN versions :
                      Wanted(versions, v) \in {AnyVersion, versions[i].version}}
  IN  {versions[i] : i \in {j \in fits : \A k \in fits : j <= k}}

\* The binary add downloads of a version.  Variant: that of the platform.
PlatformBinary(version) ==
  CHOOSE b \in {version.binaries[i] : i \in DOMAIN version.binaries} :
    b.platform = Platform \/ ~OfPlatform(version)
BinaryOf(version) == version.binaries[1]

\* Variant: the versions are kept under the name the index has for the plugin,
\* and only the last one is.
GroupLastOnly(repo) ==
  {<<n, YamlToManifest(repo[n])[Len(repo[n])].version>> :
     n \in {m \in DOMAIN repo : FilterPluginForOsArch(repo[m])}}

\* What plugin-manager list prints of the repository: the names and versions.
groupInformationForPlugins(repo) ==
  UNION {{<<YamlToManifest(repo[m])[i].name, YamlToManifest(repo[m])[i].version>> :
            i \in DOMAIN YamlToManifest(repo[m])} : m \in DOMAIN repo}

--------------------------------------------------------------------------
(* Files                                                                   *)

\* What a download of a source consists of.
Body(s) == [i \in 1..(IF s = ErrorPage THEN 1 ELSE Chunks) |-> s]

\* What has been put into the directories before is there as a whole.
ASSUME InstalledAssumption ==
  \A f \in Installed : DOMAIN f \subseteq Places /\
    \A p \in DOMAIN f : \E s \in Sources : f[p] = Body(s)

\* A file is a plugin if it is a whole binary for the platform; its metadata
\* are those of the binary.
Runs(content) ==
  \E b \in Binaries : b.platform = Platform /\ content = Body(b)
PluginIn(content) == content[1].plugin

There(p) == p \in DOMAIN files

\* A write of chunk i at the writer's own offset.
WriteAt(content, i, s) ==
  [j \in 1..(IF Len(content) < i THEN i ELSE Len(content)) |->
     IF j = i THEN s ELSE IF j <= Len(content) THEN content[j] ELSE Hole]

Put(f, p, x) == [q \in DOMAIN f \cup {p} |-> IF q = p THEN x ELSE f[q]]
Drop(f, p)   == [q \in DOMAIN f \ {p} |-> f[q]]

--------------------------------------------------------------------------
(* Commands                                                                *)

Idle == [op |-> "idle"]

IsAdd(u)    == command[u].op = "add"
IsScan(u)   == command[u].op = "scan"
IsRemove(u) == command[u].op = "remove"

\* The users who have the file at p open for writing.
Writers(p) ==
  {u \in Users : IsAdd(u) /\ command[u].at = "copy" /\ command[u].place = p
                 /\ command[u].linked}

Become(u, c) == command' = [command EXCEPT ![u] = c]

\* A command of another user after place p has changed, or has been removed.
Disturbed(c, p) ==
  IF c.op = "scan" THEN [c EXCEPT !.steady = @ \ {p}] ELSE c
Unlinked(c, p) ==
  IF c.op = "add" /\ c.at = "copy" /\ c.place = p
  THEN [c EXCEPT !.linked = FALSE] ELSE Disturbed(c, p)

\* User u goes on with c, and has changed place p.
Changing(u, c, p) ==
  command' = [w \in Users |-> IF w = u THEN c ELSE Disturbed(command[w], p)]

Init ==
  /\ index \in Indexes
  /\ files \in Installed
  /\ history = [p \in DOMAIN files |-> [from |-> {files[p][1]}, cut |-> FALSE]]
  /\ command = [u \in Users |-> Idle]
  /\ commands = 0

\* A command begins.
Begin(u, c) ==
  /\ command[u] = Idle
  /\ commands < MaxCommands
  /\ commands' = commands + 1
  /\ Become(u, c)
  /\ UNCHANGED <<index, files, history>>

--------------------------------------------------------------------------
(* plugin-manager add                                                      *)

\* Validate finds no executable file of that name; otherwise the command
\* prints where it is and changes nothing.  Variant: Validate does not look.
AddUnchecked(u) ==
  \E d \in AddDirs, n \in Names, v \in Versions \cup {AnyVersion} :
    Begin(u, [op |-> "add", at |-> "resolve", place |-> <<d, n>>,
              asked |-> n, version |-> v, before |-> {m \in Names : There(<<d, m>>)}])
Add(u) ==
  \E d \in AddDirs, n \in Names, v \in Versions \cup {AnyVersion} :
    /\ ~There(<<d, n>>)
    /\ Begin(u, [op |-> "add", at |-> "resolve", place |-> <<d, n>>,
                 asked |-> n, version |-> v, before |-> {m \in Names : There(<<d, m>>)}])

\* The index and the manifests have been read, a version is found, and the
\* server has answered with its first binary or, whatever the status, with a
\* page.  The file gets the name the manifest has for the plugin, which is not
\* looked for again.  Over a version without binaries the command panics (Stop).
Resolve(u) ==
  /\ IsAdd(u)
  /\ command[u].at = "resolve"
  /\ \E version \in ChosenVersion(index, command[u].asked, command[u].version) :
       /\ version.binaries # <<>>
       /\ \E s \in {BinaryOf(version), ErrorPage} :
            Become(u, [op |-> "add", at |-> "open",
                       place |-> <<command[u].place[1], version.name>>,
                       asked |-> command[u].asked,
                       source |-> s, before |-> command[u].before])
  /\ UNCHANGED <<index, files, history, commands>>

\* O_CREAT and O_TRUNC.
OpenFile(u) ==
  /\ IsAdd(u)
  /\ command[u].at = "open"
  /\ LET p == command[u].place
         s == command[u].source
     IN  /\ files' = Put(files, p, <<>>)
         /\ history' = Put(history, p,
              IF There(p) THEN [history[p] EXCEPT !.from = @ \cup {s}]
              ELSE [from |-> {s}, cut |-> FALSE])
         /\ Changing(u, [op |-> "add", at |-> "copy", place |-> p, source |-> s,
                         asked |-> command[u].asked,
                         before |-> command[u].before, done |-> 0,
                         linked |-> TRUE], p)
  /\ UNCHANGED <<index, commands>>

\* io.Copy writes the next chunk.  A file that has been removed meanwhile gets
\* it all the same, where nobody sees it.  Variants: the file is opened for
\* appending, and every write goes to its end; the last chunk is written twice.
CopyAppends(u) ==
  /\ IsAdd(u)
  /\ command[u].at = "copy"
  /\ LET p == command[u].place
         c == [command[u] EXCEPT !.done = @ + 1]
     IN  /\ c.done <= Len(Body(c.source))
         /\ IF c.linked
            THEN /\ files' = [files EXCEPT ![p] = Append(@, c.source)]
                 /\ Changing(u, c, p)
            ELSE Become(u, c) /\ UNCHANGED files
  /\ UNCHANGED <<index, history, commands>>
CopyLastTwice(u) ==
  /\ IsAdd(u)
  /\ command[u].at = "copy"
  /\ LET p == command[u].place
         c == [command[u] EXCEPT !.done = @ + 1]
     IN  /\ command[u].done <= Len(Body(c.source))
         /\ IF c.linked
            THEN /\ files' = [files EXCEPT ![p] = WriteAt(@, c.done, c.source)]
                 /\ Changing(u, c, p)
            ELSE Become(u, c) /\ UNCHANGED files
  /\ UNCHANGED <<index, history, commands>>
Copy(u) ==
  /\ IsAdd(u)
  /\ command[u].at = "copy"
  /\ LET p == command[u].place
         c == [command[u] EXCEPT !.done = @ + 1]
     IN  /\ c.done <= Len(Body(c.source))
         /\ IF c.linked
            THEN /\ files' = [files EXCEPT ![p] = WriteAt(@, c.done, c.source)]
                 /\ Changing(u, c, p)
            ELSE Become(u, c) /\ UNCHANGED files
  /\ UNCHANGED <<index, history, commands>>

\* The command ends and its file, if it has one open, can be run again.
Close(u) ==
  IF \E p \in Places : u \in Writers(p)
  THEN Changing(u, Idle, command[u].place)
  ELSE Become(u, Idle)

\* Everything is copied: add reports that the plugin has been added.
Added(u) ==
  /\ IsAdd(u)
  /\ command[u].at = "copy"
  /\ command[u].done = Len(Body(command[u].source))
  /\ Close(u)
  /\ UNCHANGED <<index, files, history, commands>>

--------------------------------------------------------------------------
(* plugin-manager remove                                                   *)

\* The file is there; otherwise the command says so and changes nothing.
Remove(u) ==
  \E d \in RemoveDirs, n \in Names :
    /\ There(<<d, n>>)
    /\ Begin(u, [op |-> "remove", place |-> <<d, n>>])

\* os.Remove, which fails if the file has gone.  Who has it open keeps it.
Unlink(u) ==
  /\ IsRemove(u)
  /\ LET p == command[u].place
     IN  IF There(p)
         THEN /\ files' = Drop(files, p)
              /\ history' = Drop(history, p)
              /\ command' = [w \in Users |->
                   IF w = u THEN Idle ELSE Unlinked(command[w], p)]
         ELSE Become(u, Idle) /\ UNCHANGED <<files, history>>
  /\ UNCHANGED <<index, commands>>

--------------------------------------------------------------------------
(* GetFilteredPlugins                                                      *)

\* One entry of the list of plugins; the built-in one is in no directory.
Entry(plugin, version, place) ==
  [plugin |-> plugin, version |-> version, place |-> place]
BuiltInEntry == Entry(BuiltIn, 0, <<>>)

Scan(u) ==
  Begin(u, [op |-> "scan", at |-> "dir", dir |-> 0, listed |-> {},
            loaded |-> {BuiltInEntry}, skip |-> {}, steady |-> Places])

\* The next directory is read; a missing one counts as empty.
ReadDir(u) ==
  /\ IsScan(u)
  /\ command[u].at = "dir"
  /\ command[u].dir < Len(Dirs)
  /\ LET d == Dirs[command[u].dir + 1]
     IN  Become(u, [command[u] EXCEPT
                      !.at = "file",
                      !.dir = @ + 1,
                      !.listed = {n \in Names : There(<<d, n>>)}])
  /\ UNCHANGED <<index, files, history, commands>>

Before(m, n) == \E j \in DOMAIN NameOrder : \E i \in 1..(j - 1) :
                  NameOrder[i] = m /\ NameOrder[j] = n

\* The file that is run next is n of directory dir.
IsNext(u, n) ==
  /\ IsScan(u)
  /\ command[u].at = "file"
  /\ n \in command[u].listed
  /\ \A m \in command[u].listed : ~Before(m, n)

\* A plugin that answers with a name that is not in the list yet joins it.
\* Variants: every plugin joins it; a plugin replaces the one of its name.
JoinAll(loaded, entry) == loaded \cup {entry}
JoinLast(loaded, entry) == {e \in loaded : e.plugin # entry.plugin} \cup {entry}
Join(loaded, entry) ==
  IF \E e \in loaded : e.plugin = entry.plugin THEN loaded
  ELSE loaded \cup {entry}

\* NewBinaryPlugin runs the file, and it answers.
LoadPlugin(u) ==
  \E n \in Names :
    LET p == <<Dirs[command[u].dir], n>>
    IN  /\ IsNext(u, n)
        /\ There(p)
        /\ Runs(files[p])
        /\ Become(u, [command[u] EXCEPT
                        !.listed = @ \ {n},
                        !.loaded = Join(@, Entry(PluginIn(files[p]),
                                                 files[p][1].version, p))])
        /\ UNCHANGED <<index, files, history, commands>>

\* The file is no plugin, not for this platform, being written or not there
\* any more: the scan fails, and with it the command.  Variants: such a file is
\* left out; a second plugin of one name is refused as well.
SkipBroken(u) ==
  \E n \in Names :
    LET p == <<Dirs[command[u].dir], n>>
    IN  /\ IsNext(u, n)
        /\ There(p) => ~Runs(files[p]) \/ Writers(p) # {}
        /\ Become(u, [command[u] EXCEPT !.listed = @ \ {n}])
        /\ UNCHANGED <<index, files, history, commands>>
RefusesCopies(u) ==
  \E n \in Names :
    LET p == <<Dirs[command[u].dir], n>>
    IN  /\ IsNext(u, n)
        /\ There(p) /\ Runs(files[p]) /\ Writers(p) = {} =>
             \E e \in command[u].loaded : e.plugin = PluginIn(files[p])
        /\ Become(u, [command[u] EXCEPT !.at = "failed"])
        /\ UNCHANGED <<index, files, history, commands>>
LoadFails(u) ==
  \E n \in Names :
    LET p == <<Dirs[command[u].dir], n>>
    IN  /\ IsNext(u, n)
        /\ There(p) => ~Runs(files[p]) \/ Writers(p) # {}
        /\ Become(u, [command[u] EXCEPT !.at = "failed"])
        /\ UNCHANGED <<index, files, history, commands>>

DirDone(u) ==
  /\ IsScan(u)
  /\ command[u].at = "file"
  /\ command[u].listed = {}
  /\ Become(u, [command[u] EXCEPT !.at = "dir"])
  /\ UNCHANGED <<index, files, history, commands>>

\* isPluginInList
Skipped(entry, skip) == entry.plugin \in skip

\* The list is filtered by --skip-plugins, which has not been looked at before;
\* the command goes on with it.
ScanDone(u) ==
  /\ IsScan(u)
  /\ command[u].at = "dir"
  /\ command[u].dir = Len(Dirs)
  /\ \E skip \in Skips :
       Become(u, [command[u] EXCEPT
                    !.at = "done",
                    !.loaded = {e \in @ : ~Skipped(e, skip)},
                    !.skip = skip])
  /\ UNCHANGED <<index, files, history, commands>>

--------------------------------------------------------------------------
(* The end of a command by a failed request or write, a kill, or because   *)
(* a scan has delivered its plugins.  A download that is given up leaves   *)
(* what it has written.                                                    *)
Stop(u) ==
  /\ command[u] # Idle
  /\ history' = [p \in DOMAIN history |->
       IF u \in Writers(p) THEN [history[p] EXCEPT !.cut = TRUE] ELSE history[p]]
  /\ Close(u)
  /\ UNCHANGED <<index, files, commands>>

Next == \E u \in Users :
  \/ Add(u)
  \/ Resolve(u)
  \/ OpenFile(u)
  \/ Copy(u)
  \/ Added(u)
  \/ Remove(u)
  \/ Unlink(u)
  \/ Scan(u)
  \/ ReadDir(u)
  \/ LoadPlugin(u)
  \/ LoadFails(u)
  \/ DirDone(u)
  \/ ScanDone(u)
  \/ Stop(u)

Spec == Init /\ [][Next]_vars

--------------------------------------------------------------------------
(* Properties                                                              *)

\* The contents, the places and the commands are of their kinds.
AddCommands ==
  [op : {"add"}, at : {"resolve"}, place : Places, asked : Names, before : SUBSET Names,
   version : Versions \cup {AnyVersion}]
  \cup [op : {"add"}, at : {"open"}, place : Places, asked : Names, before : SUBSET Names,
        source : Sources]
  \cup [op : {"add"}, at : {"copy"}, place : Places, asked : Names, before : SUBSET Names,
        source : Sources, done : 0..Chunks, linked : BOOLEAN]
Entries == [plugin : {b.plugin : b \in Binaries}, version : Versions, place : Places]
           \cup {BuiltInEntry}
ScanOK(c) ==
  /\ c.at \in {"dir", "file", "done", "failed"}
  /\ c.dir \in 0..Len(Dirs)
  /\ c.at = "file" => c.dir > 0
  /\ c.listed \subseteq Names
  /\ c.loaded \subseteq Entries
  /\ c.skip \in Skips \cup {{}}
  /\ c.steady \subseteq Places
TypeOK ==
  /\ commands \in 0..MaxCommands
  /\ index \in Indexes
  /\ DOMAIN files \subseteq Places
  /\ \A p \in DOMAIN files : files[p] \in Seq(Sources \cup {Hole})
  /\ DOMAIN history = DOMAIN files
  /\ \A p \in DOMAIN files : history[p] \in [from : SUBSET Sources, cut : BOOLEAN]
  /\ \A u \in Users : \/ command[u] = Idle
                      \/ command[u] \in AddCommands
                      \/ command[u] \in [op : {"remove"}, place : Places]
                      \/ IsScan(u) /\ ScanOK(command[u])
  /\ \A p \in Places : Writers(p) # {} => There(p)

\* Downloads of one source into one file, however many and however they
\* overlap, leave the whole of it once all of them have finished: a second add
\* that truncates the file under the first does no lasting harm (add.go:223-230).
FinishedIsWhole ==
  \A p \in DOMAIN files : \A s \in Sources :
    /\ Writers(p) = {}
    /\ ~history[p].cut
    /\ history[p].from = {s}
    => files[p] = Body(s)

\* The repository has a version called m in the manifest of the plugin n.
Renames(repo, n, m) ==
  n # m /\ n \in DOMAIN repo /\ \E i \in DOMAIN repo[n] : repo[n][i].name = m

\* An installed file goes only by a remove of it, and is written to only by an
\* add to its place that did not see it when it looked, long before it opens the
\* file, or that looked for another: the one by the name asked for, where the
\* manifest of that plugin calls the version by the name of the installed file.
\* So a plugin that was there all the time is overwritten only at the hands of
\* such a manifest, over which nothing guards it (add.go:75-86, 157, 176, 223).
KeepsInstalled ==
  [][\A p \in DOMAIN files : p \notin DOMAIN files' \/ files'[p] # files[p] =>
       \E u \in Users :
         /\ IF p \in DOMAIN files' THEN IsAdd(u) ELSE IsRemove(u)
         /\ command[u].place = p
         /\ IsAdd(u) => \/ p[2] \notin command[u].before
                        \/ Renames(index, command[u].asked, p[2])]_vars

\* A list of plugins has each name once: that of the plugin itself, not of its
\* file (plugin_helper.go:81-91).
LoadedOnce ==
  \A u \in Users : IsScan(u) =>
    \A x, y \in command[u].loaded : x.plugin = y.plugin => x = y

\* A scan gets to place p before place q, if to q at all.
IsEarlier(p, q) ==
  \/ \E i \in DOMAIN Dirs : Dirs[i] = p[1] /\ \A j \in 1..i : Dirs[j] # q[1]
  \/ p[1] = q[1] /\ Before(p[2], q[2])

\* The place held the plugin all through the scan of u.
HeldThroughout(u, p, plugin) ==
  /\ p \in command[u].steady
  /\ There(p)
  /\ Runs(files[p])
  /\ PluginIn(files[p]) = plugin

\* A command goes on with the first of the plugins of a name, in the order of
\* the directories, whatever was added and removed while it looked: a later one
\* only if nobody left an earlier one in place, and the one that stayed in place
\* unless an earlier one may have taken its name (plugin_helper.go:74-91).
FirstOfANameIsLoaded ==
  \A u \in Users : IsScan(u) /\ command[u].at = "done" =>
    \A p \in Places : \A plugin \in {b.plugin : b \in Binaries} \ command[u].skip :
      HeldThroughout(u, p, plugin) /\ plugin # BuiltIn =>
        \E e \in command[u].loaded : e.plugin = plugin /\ ~IsEarlier(p, e.place)

\* A command that goes on has run every executable file that was there all the
\* time: no transform silently does without an installed plugin because its
\* file is broken (plugin_helper.go:53-56).
NothingLeftOut ==
  \A u \in Users : IsScan(u) /\ command[u].at = "done" =>
    \A p \in DOMAIN files \cap command[u].steady : Runs(files[p])

\* A scan fails only over a file that is no plugin or that somebody has changed
\* meanwhile; copies of one plugin in several directories, a name of its own or
\* a missing directory are no reason (plugin_helper.go:25, 43-56, 83-91).
FailsForAReason ==
  \A u \in Users : IsScan(u) /\ command[u].at = "failed" =>
    \E p \in Places : \/ p \notin command[u].steady
                      \/ There(p) /\ (~Runs(files[p]) \/ Writers(p) # {})

\* A version that list shows by the name and version x, or that add finds by
\* them, is called otherwise in the index, or has no binary.
Faulty(repo, x) ==
  \E m \in DOMAIN repo : \E i \in DOMAIN repo[m] :
    /\ repo[m][i].version = x[2]
    /\ x[1] \in {m, repo[m][i].name}
    /\ repo[m][i].name # m \/ repo[m][i].binaries = <<>>

\* What plugin-manager list prints is what add installs.  Whatever add is asked
\* for, by any name and version or by none, it installs what is listed; and what
\* is listed can be asked for, has a binary and is saved under the name listed,
\* save where the repository is faulty: list shows the manifest's name, add finds
\* by the one in the index, and takes the first binary for granted
\* (list.go:177-194, add.go:151-180).
ListedIsInstallable ==
  /\ \A n \in Names, v \in Versions \cup {AnyVersion} :
       \A version \in ChosenVersion(index, n, v) :
         <<version.name, version.version>> \in groupInformationForPlugins(index)
  /\ \A x \in groupInformationForPlugins(index) :
       \/ Faulty(index, x)
       \/ \E version \in ChosenVersion(index, x[1], x[2]) :
            version.name = x[1] /\ version.version = x[2] /\ version.binaries # <<>>

\* The comment of FilterPluginForOsArch (plugin_manager_helper.go:103), "takes
\* manifest as input and filters manifest for current os/arch": what add
\* downloads whole, from a manifest that has a binary of the version for this
\* platform, is for this platform.
InstallsForThisPlatform ==
  \A u \in Users : IsAdd(u) /\ command[u].at = "open" /\ command[u].source # ErrorPage =>
    \A k \in DOMAIN index[command[u].asked] :
      LET version == index[command[u].asked][k]
      IN  OfPlatform(version) /\ version.version = command[u].source.version
            => command[u].source.platform = Platform
=============================================================================
