# A TLA+ verification of kubectl-migrate

kubectl-migrate moves applications between Kubernetes clusters.  It is a set of
commands of one binary: the user runs them one after the other, or side by
side, and they meet in directories on disk and in objects on two clusters.
Nothing is kept in memory between commands, so the hard questions are about
what a command finds that an earlier, failed, killed or concurrent one has left
there, and, inside `transfer-pvc`, about one goroutine and its consumer.

Line numbers are those of the sources under `src/`.

## The system

| Component | State it keeps | Operations | Meets |
|---|---|---|---|
| `export` (`cmd/export`) | the export directory: `resources/`, `failures/`, `_cluster/` | discover the API resources, list them, filter cluster-scoped RBAC, write | `transform` and `apply` read what it writes |
| `transform` (`cmd/transform`) | the transform directory: `.wh.` and `transform-` files; the ignored patches | ask the plugins about each resource, whiteout or patches | plugins; `apply` reads what it writes |
| `apply` (`cmd/apply`) | the output directory | skip, patch, write each resource | reads both directories |
| `transfer-pvc`, the command (`transfer-pvc.go`) | objects on the source and destination clusters | create PVC, endpoint, stunnel, certificates, rsync server and client; follow; garbage collect | other invocations in the same namespaces |
| `transfer-pvc`, the log (`progress.go`, `followClientLogs`) | three channels, a context, a wait group, `Progress`, the progress file | wait for the pod, read, parse, merge, send, receive, print, close | the rsync client pod and the kubelet |
| plugin manager (`cmd/plugin-manager`, `internal/plugin`) | the plugin directories; the index is read anew each time | add, remove, list, load and filter | `transform` runs the plugins it finds |
| `runfn` (`cmd/runfn`) | the transform directory | run kustomize functions in containers, write the results | `export`'s files; by default the directory of `transform` |
| `convert`, `skopeo-sync-gen`, `tunnel-api`, `version` | none | conversions and calls of crane-lib | |

What makes each part correct, and what is hard about it:

* **The log stream.** A goroutine sends on *unbuffered* channels and does not
  look at its context while it does; the consumer cancels, then waits.  It must
  not deadlock, not lose the last error to a channel closed too early, not
  return before the progress file is written, and end whatever the kubelet does
  (a stream that never ends, one that ends without EOF, a status that is late).
* **Progress.** Log chunks break lines anywhere, retries restart rsync's
  counting, and the end of the log is parsed twice.  The numbers on the screen
  must not go back, must not exceed 100 %, must not be counted twice.
* **The transfer.** Some thirty objects are created in some ten steps, any of
  which may fail; nothing is rolled back.  A second attempt works among the
  remains of the first, and a neighbour's garbage collection goes by one label.
* **Transform and apply.** The directories of earlier runs are reused.  A
  whiteout hides patches, so a stale one silently drops a resource; a stale
  transform file silently changes one; a run killed between two file operations
  leaves a half-written file.
* **Export.** A resource that cannot be listed must leave a failure file and not
  stop the others; RBAC objects refer to each other across three kinds, each of
  which is listed at another moment of a cluster that goes on changing.
* **runfn.** It must write its results to a directory that nothing else is in, and
  not mix those of two exports, although a failed run leaves the directory behind.
* **Plugin manager.** A plugin is downloaded in place, with its execute bit set,
  into a directory without a lock that every other command scans and runs file by
  file.  What is cut short, half written, an error page or for another system must
  not pass for a plugin; two adds must not ruin each other's file; a plugin of an
  earlier directory must come before its namesakes whatever changes meanwhile.

## Modules

| Module | Models | Kind |
|---|---|---|
| `LogFollow` | the promise of following a log | abstract specification |
| `RsyncLogStream` | `rsyncLogStream`, `getFinalPodStatus`, `followClientLogs`, pod and stream | detailed, implements `LogFollow` |
| `MCRsyncLogStream` | a small log | model for TLC |
| `RsyncLogStreamProofs` | inductive invariant, six properties, the refinement | proofs |
| `RsyncProgress` | what that goroutine makes of the log: `parseRsyncLogs`, `Merge`, `Status` | detailed |
| `MCRsyncProgress` | logs of up to five lines | model for TLC |
| `RsyncProgressProofs` | inductive invariant, four properties | proofs |
| `MigrationFiles` | `transform`, `apply` and `runfn` over the directories of repeated runs | detailed |
| `MCMigrationFiles` | two resources, versions and patches | model for TLC |
| `MigrationFilesProofs` | inductive invariant, seven properties | proofs |
| `ClusterRbac` | `filterRbacResources` and what it accepts by | pure definitions |
| `Export` | `export`: lists, filter, resource files, failure files, over repeated runs | detailed, extends `ClusterRbac` |
| `MCExport` | five kinds, six objects; and two kinds of routes | model for TLC |
| `ExportProofs` | inductive invariant, four properties | proofs |
| `TransferPVC` | `transfer-pvc` invocations side by side | detailed |
| `MCTransferPVC` | three claims going to one namespace, two of them of one name | model for TLC |
| `TransferPVCProofs` | inductive invariant, seven properties | proofs |
| `PluginManager` | `plugin-manager` and `GetFilteredPlugins`, several users over one set of directories | detailed |
| `MCPluginManager` | two users, two directories, two names | model for TLC |
| `PluginManagerProofs` | inductive invariant, eight properties | proofs |

A definition named `Variant: ...` in its comment is a plausible mistake in the
definition below it.  Nothing uses it in a specification; putting it in the
place of the right one makes one named property fail, which shows that the
property depends on that piece of code.

### RsyncLogStream

State and code: `rd` is the goroutine's program counter (`progress.go:85-158`):
`loop` is the look at the context, `read` the `Read`, `status` and `finalLogs`
`getFinalPodStatus`, `stdout`, `stderr` and `err` the three sends, `file` the
progress file and `closeErr` ... `streamClose` the deferred calls in the order
they run.  `cn` is where `followClientLogs` stands (`transfer-pvc.go:684-724`).
`err` is the goroutine's captured `err` (it survives the round), `progress` is
`r.progress`.  A send and its receive are one step (`Receive`), as the channels
have no buffer; a receive from a closed channel is possible, and returns at once.

A log line is a number; `progress.lines` is the set of lines that have been
parsed.  All that is kept of a line's content is whether it names a failed file
(`FailedLines`).  Parsing itself is left to `RsyncProgress`.

Three details of the code that the model keeps and a reader might not expect.
At EOF, what was read last is thrown away for the final logs (`:125`).  A
failure of `getFinalPodStatus` replaces the EOF by an error (`:122`).  And
reads of nothing set `err` without leaving the round (`:112`).

The environment: the pod may be missing, ambiguous, without container statuses,
not ready, running, exited (rsync is gone, the status does not say so yet) or
terminated; the stream may end with EOF, with an error, or fall silent, at any
moment; each request may fail.

*Fairness.* The goroutine and the caller are scheduled (weak fairness of their
steps), except that reading nothing from an *open* stream is no progress; and
the log stream of a container that has exited ends.  Nothing is assumed of a
running container, so a follow need not end while rsync runs, nor of the
kubelet's status updates: the polls give up after six looks instead.

### RsyncProgress

The same goroutine seen from the text it reads: a round of it, from the `Read` to
the rest that is kept for the next one, is one step here (`ReadLines`,
`ReadNothing`, `ReadEOF`, `ReadFails`), as nothing else touches what it works on:
`progress` is `r.progress`, `past` and `seen` are the globals `pastAttempts` and
`failedFiles`.  How the rounds follow on each other and end is checked in
`RsyncLogStream`.

A line is its kind, one for each regular expression of `parseRsyncLogs`, and the
value the expression finds in it.  A chunk ends anywhere: `pos` complete lines
have been parsed, and of the next one `cut` of the texts that its beginnings can
be read as (`Beginnings`: a number that lacks digits, a message that lacks its
end, and the whole line without its newline).  That beginning is parsed, kept, and
parsed again with what comes next; `ReadNothing` parses it again as well.  At EOF
the final logs take its place, as many of their lines as can be had.

The log is rsync's: percentages that do not go down within an attempt, failed
files, the three lines of the statistics together, and a line for every retry.
Which number a line shows is left open within these limits.  An amount of data is
counted in tenths of its unit, and sums are cut to that; rates, elapsed time,
`@ERROR` lines and the layout are left out.

No fairness: all properties are about what a step may do.

### MigrationFiles

State and code: `whiteout`, `patch` and `ignored` are the `.wh.`, `transform-`
and `ignored-` files of the transform directories, `output` the output
directory.  `at` is the next file operation.  A file that is opened with
`O_TRUNC` is `Partial` until it is written, so that a run which is killed, or
whose write fails (`Interrupt`), leaves it so.  `Start` is `ReadFiles`, then the
files are done one by one in any order (the real order is that of the directory
walk).  The plugins' answers are chosen anew in each transform; resources are
exported anew between commands, and one that an export has failed at or was killed
at is `Partial`, an empty file: `ReadFiles` parses every file before it returns any,
so that no transform and no apply starts (`Readable`).  A file that is cut at the end
of a line may still parse; that is left out, as the library decides it.  crane-lib decodes the patch file before it
applies it, so an empty or cut file is an error of the apply run
(`Applicable`): that is assumed of the library.

`runfn` is one more command over the same directories (`runfn.go:59-109`,
`util.go:14-28`).  `preRunE` refuses a transform directory that exists
(`dirExists`), which transform and apply do not care about, so that the two kinds of
command meet in either order.  The functions run in memory; what the command does to
the disk is `WriteOutput`, which makes the directory and then writes file by file, and
leaves both behind if it fails.  That the library passes over an empty file
(`Passed`), and writes the resources in their own files, is assumed of it; a function
that changes nothing stands for all of them.

`settled`, `unsettled`, `applied` and `input` are history variables; no action reads
them.

### Export and ClusterRbac

State and code: `at` is the phase of `Run` (`export.go:78-170`), `next` the API
resource `resourceToExtract` lists next (`discover.go:131-206`) or the failure
`writeErrors` writes next, `resources` what has been listed and then what is still
to be written, `errors` the failed lists, `errs` whether `Run` will return an
error, `files` and `failures` the files on disk, of this run and of earlier ones.
A list, with the gets that follow it for image stream tags, is one step, and may
fail; between two lists the cluster may change (`Change`).  `live` are the
objects that match the label selector.  A version that is not preferred is listed
and its objects are dropped (`ListResource`); that is how the code makes each
object's file once.  The order of the files is that of the lists, with the three
cluster-scoped kinds last (`Position`).

An API resource or an object is known by its kind: groups are left out, but for
the name of a failure file, which has no group and which two resources may
therefore share.  `ClusterRbac` is `cluster.go`, with `ClusterScopeKinds` for
`isClusterScopedResource`; a user of security context constraints is given as the
service account its name is split into (`cluster.go:233-237`), and users of another
form are not given at all, as nothing is made of them.

Taken as given: what discovery returns (`APIs`, in its order; with the feature flag
that `Run` sets, all served versions), and that a client gets whole lists.
`ExportAssumption` says that an object has a namespace if and only if its kind has
one, that the three cluster-scoped kinds have none, and that events are not looked
at.

`listed`, `exported` and `stable` are history variables; no action reads them.
No fairness: the properties are about what a run has done if it ends.

### TransferPVC

State and code: `objects` is what there is on both clusters, each with the
label `app.konveyor.io/created-for-pvc` (`transfer-pvc.go:323-327`); `pc` is the
step of `run` (`:284-496`) an invocation is at, `toCopy` the listed secrets it
has not copied yet, `gcAt` the call of `garbageCollect` it makes next.
`Fail` is `log.Fatal`, an error of a request or a kill, at any step; it leaves
everything where it is.  `Start` after a failure is the user's retry.

`password` is the attempt whose password, drawn anew in each (`:403`), the rsync
server knows.  `host` is the host of each endpoint: for a route the first 62
characters of its name and namespace (`:784-798`), so that two endpoints may have one;
the router serves one of them (`admitted`, `Admit`).

Assumed of the pvc-transfer library, of which the sources are not here: it
creates its objects or updates those of the same name (`Reconcile`), with the
labels it is given; the client pod alone gets a new name each time; the
stunnel server's certificates are the secrets that are copied.  Whether a server pod
that is running learns of a new password is left open.

*Fairness.* A command that is running goes on, and a poll with a deadline meets
it (`TimeOut`).  `waitForEndpoint` (`:727-736`) has no deadline: the model takes
an endpoint that exists for one that becomes healthy as long as no other is served
under its host (weak fairness of `Admit`), and without this `TransferEnds` does not
hold of the code.

*Alike and Apart.* The one label that tells transfers apart is the source claim's
*name*, without its namespace (`:326`), the names of most objects are those of the
claims, and the code compares the claims of one invocation with those of no other.  So
two transfers may be `Alike`: claims called `data` from two namespaces go into one, one
claim goes to two places, or two claims to one.  The model lets them be, and such
transfers do find, copy, overwrite and collect each other's objects; `Withdraw` takes
from the router an endpoint that is gone or has become another's.  A transfer is `Apart`
if none of the others is like it.  What it can count on is stated for it alone, and holds
beside any others, alike among themselves or not; what becomes of the objects of
transfers that are alike is what `CollectsOnlyOwn` says and no more.

`TransferAssumption` says that a stunnel server has at least one certificate secret,
which is not called as the others are: were there none, nothing would stop a second
attempt at the copy, and two clients could run.  The rest of it is what the kinds of the
constants are.  The services that carry the label are listed and deleted one by one
(`:638-662`), which `Collect` does in one step: a transfer told apart has one service.

### PluginManager

State and code: `files` are the executable files of the plugin directories, each a
sequence of the chunks that `io.Copy` has written; `index` is the repository;
`command` is what each user is doing.  Nothing is locked, so the users' commands
interleave at every file operation.

`Add` is `Validate` (`add.go:47-88`), which looks for a file of the name; `Resolve`
is `run` up to the answer to the download (`:131-213`): `ChosenVersion` follows the
switch over the manifests (`:144-192`), a manifest being taken as
`FilterPluginForOsArch` leaves it, that is, unfiltered
(`plugin_manager_helper.go:104-119`), and the answer may be a page of a 404, as the
status is not looked at; `OpenFile` truncates, `Copy` writes a chunk at the writer's
own offset, `Added` reports.  `Remove` and `Unlink` are `remove.go:77-113`; who has
the removed file open writes on where nobody sees it (`linked`).

`Scan` ... `ScanDone` are `GetFilteredPlugins` (`plugin_helper.go:21-114`): each
directory is read once and then its files are run one by one (`LoadPlugin`,
`LoadFails`), in the order of their names; a plugin whose name is in the list already
is passed over (`Join`).  A file that is whole and still open for writing may or may
not run, which depends on the system.  `Stop` is every error return and kill, and the
end of the command that wanted the plugins.

Nothing compares the name of a plugin in the index, by which add finds it and looks for
an installed file (`add.go:75`, `:153`), with the name in its manifest, by which the
file is saved (`:157`, `:176`, `:223`) and list prints it; so in the model the two are
any names, and a version may be without binaries, where add panics (`Stop`).
`PluginAssumption` is what the kinds of the constants are (a repository is versions
with their names and binaries, a name contains itself).  A directory may
be listed twice, as nothing keeps a user from naming it on the command line
(`plugin_helper.go:74`); a scan then gets to its files where it is listed first,
which is what `IsEarlier` says.  `InstalledAssumption` lets the files that are there to
begin with be whole downloads, so that `history` knows what they are from; those that
are cut short come from commands of the model.  `history`, `before`, `steady` and `skip` are history.  No
fairness: the properties are about what a command has done if it ends.

## What the runs check

| Run | Bounds | Distinct states | Shows |
|---|---|---|---|
| `log_stream` | the code's limits (4 empty reads, 6 looks), 3 lines, 1 tail line, 2 exit codes | 187,316 | see below |
| `rsync_progress` | logs of 5 lines, 2 percentages with 900K and 2M, 1 file, counts 0 and 12, 2 tail lines, 1 empty read | 680,362 | see below |
| `unprocessed`, `percentage`, `transferred_data` | the same, 4 lines | counterexamples | comments that are not true of the code |
| `migration_files` | 2 resources, 2 versions, 2 patches, 3 commands | 3,166,596 | see below |
| `missing_transform` | the same, 1 command | counterexample | a comment that is not true of the code |
| `export` | 6 objects of 4 kinds, 6 API resources, 1 change, 2 failures or kills | 1,345,873 | see below |
| `all_resources` | 2 routes, no changes, no failures | counterexample | a sentence of the README that is not true of the code |
| `transfer_pvc` | 2 transfers told apart, 2 attempts each, a host each or one; 2 that are alike; these 3 together with one host; 2 certificates | 153,574 | see below |
| `plugin_manager` | 2 users, 4 commands, 2 directories, 2 names, 2 chunks, 4 repositories, 3 sets of installed files | 432,967 | see below |
| `plugin_platform` | the same | counterexample | a comment that is not true of the code |

**log_stream.** `SendHasReceiver`: whenever the goroutine has something to send,
the caller is in its select loop, so `Close` cannot wait for ever.
`LoopSeesNoClosedChannel`: the `!ok` branches are never taken, so no error is
lost to a closed channel.  `ReturnedMeansSaved`: cancelling does not make the
goroutine skip the progress file, although the code that sees a cancelled
context returns past it.  `NilResultShowsAll`: after success the screen, the
failed files and the progress file agree.  `NilResultIsExplained`: success means
that the exit code is known and the log's end parsed, *except* when the stream
fell silent or the status came too late, in which case the code reports success
all the same, and `run` collects the pod.  `FollowSpec`: the refinement of
`LogFollow`.  `FollowEnds`: once rsync has ended, the follow ends.
Three lines are enough for a line that is shown and one that only the final logs
have; one tail line against three makes the final logs incomplete.

**rsync_progress.** `NeverBack`: nothing that has been shown is taken back, although
rsync counts from 0 again after every retry and the end of the log is parsed
twice; except the number of retries, which the final logs do set back to the first
retry line they hold (`progress.go:495`).  `FailedFilesOnce`: a failed file is
listed, and once, although its line is parsed in part, again when complete, in the
final logs and in every attempt; what its message is then is left open, as a
message that was cut is kept.  The list is kept as a set of records with their messages:
two entries that differ in nothing would count as one.  `FailedMeansNothingMoved`: "Failed" and
"Partially failed" are told apart by the file counts and the data of the merged
progress (`:331-341`), and this agrees with what the lines of all attempts have
said.  Five lines hold a whole attempt with its statistics and a retry, or two
retries with progress between them; two tail lines against five make final logs
that overlap what was read and final logs that do not; a count of 12 can be read
as 1.

Three comments of `progress.go` are not true of the code; each has a run with the
one property that says what the comment says.
* **unprocessed** (`:430`, "returns data that was not processed"): the rest of a chunk
  that is returned as unprocessed has been parsed, and merged.  TLC reads
  "Number of regular files transferred: 1", adds 1, then reads the rest, "2", and
  adds 12 to it.
* **percentage** (`:365`, "aggregate percentage of all retries"): when a retry line and
  the next attempt's first progress come in one chunk, that progress is made a
  part of the past (`:402`) and added to the attempt it belongs to.
* **transferred_data** (`:383`, "aggregate transferred data of all retries"): 2M does not
  take the place of 900K, as only 2 and 900 are compared (`:397`).

**migration_files.** `SettledAnswerInForce`: what is on disk for a resource is
the last answer that was completely written for it, whatever older runs left
beside it.  `DoneIsSettled`: a complete transform repairs what an interrupted one
left.  `AppliedIsCurrent`: after a complete apply no output of an earlier run
passes for a current one.  `OutputIsDecided`: nothing is written for a resource
that is whited out.  `NothingOfAPart`: as long as one exported file is empty, neither
transform nor apply changes anything.  `ResultsOfOneExport`: whatever order exports,
transforms, failed runs and retries come in, the results of `runfn` that are on disk
are all of one reading of the export; that is what its refusal of an existing
directory is good for, and the reason why a user must remove the directory by hand
after a failure.  Three commands are enough for a complete run, an interrupted
one over it and a third that works on the remains, in any mix of transform and
apply; two resources tell the one in work from the others.  Resources, versions
and patches are interchangeable (symmetry).  Deadlock is checked: one may always
export again.

**missing_transform** checks what the comment at `cmd/apply/apply.go:144` says, that
a resource without a transform file is not needed and ignored.  TLC finds the
apply that writes it: the code goes on to write the resource as it was exported.

**export.** `ExportIsClosed`: no binding is exported without a service account it is
for, no role without a binding to it, no constraints that nobody of the export may
use, although an account may have gone, or a binding come, between two lists, and
although any list may have failed.  `OkIsAccounted`: `Run` returns no error for a
list that failed, so the failure file must be there; and what an interrupted export
left half-written must have been written over.  `QuietIsComplete`: if nothing
interferes, the filter's three passes over references choose what a reader of the
RBAC rules would choose: the definition `InUse` is written from the references
alone, without the order and the tables of `cluster.go`.  The objects are chosen so
that a subject, a role, the role `system:openshift:scc:...` and a user are each what
some object is accepted by, in some of the 64 sets of objects to begin with, and
missing in others; a binding to the constraints themselves is left to the proofs;
two failures are enough for a kill, or a failed write, and a failed list after it;
one change is enough for an object to be seen by one list and not by another.
Deadlock is checked: one may always export again.

**all_resources** checks the sentence of `README.md:126`, "Export discovers and exports
all resources from a specified namespace."  Only the objects of a group's preferred
version are kept (`discover.go:184-192`), and a kind need not be served in it: the
`TCPRoute` of `gateway.networking.k8s.io/v1alpha2` is listed and dropped, without an
error and without a failure file.  `QuietIsComplete` is therefore about the kinds
that the preferred versions serve (`Served`).

**transfer_pvc.** `CollectsOnlyOwn`: no claim ever goes, and what else goes is taken by
its own transfer or one that is alike, by garbage collection or by setting up the same;
never by a transfer the label tells apart.  All others are about a transfer told apart.
`DoneLeavesOnlyClaim`: a transfer that ends well leaves the
PVC alone, of earlier attempts as well.  `PeersInPlace`: while the client runs,
endpoint, server and certificates are there.  `OneClientPod`: the poll for
exactly one client pod can succeed.  `CopiedOnce`: until a client has been
followed to its end, only one attempt gets past copying the secrets; that is a
limitation of the code (the copy is a `Create`, `:375`, while everything else
is taken over), stated as it is.  `PasswordsAgree`: the server knows the password its
client gives.  TLC showed that this does not hold without its exception: when
`garbageCollect` has stopped after the source cluster, the next attempt finds no copied
secrets, is not refused, and meets the server of the attempt before.
`TransferEnds`: under the fairness above, and but for one exception that is the code's:
if a failed transfer has left an endpoint under the same host, a second one waits for
ever (without the exception TLC finds just that).  A transfer that goes on, and so
collects its endpoint in the end, only delays the other.
Two attempts are the least with remains; two transfers the least with a
neighbour, here in the worst place, both namespaces shared.  The two that are alike are
claims of one name from two namespaces; the third beside them is the one that must not
notice, in the place where it could most, with the same destination and the same host.
Not every transfer is started in every case (`Cases`), which keeps the run small.

**plugin_manager.** `FinishedIsWhole`: when all who download one source into one file
have finished, it is whole, although the second one has truncated it under the first:
each writes every chunk at its own offset.  `KeepsInstalled`: what was there when an
add looked is not written to by it, unless the manifest of the plugin it was asked for
calls a version by the name of that file: then, and only then, an installed plugin is
overwritten, which TLC shows to happen.  `LoadedOnce` and `FirstOfANameIsLoaded`: the list
that a command works with has each name once, and it is that of the first directory,
or first file, that held it all the time.  `NothingLeftOut` and `FailsForAReason` are
the two sides of a broken file: a scan that ends well has run every file that stayed
where it was, and one that fails does so over a file that is no plugin or has changed.
`ListedIsInstallable`: `add` chooses nothing that `list` does not print, and what `list`
prints `add` finds and installs under that name, unless the repository is `Faulty` there:
its index has another name for the plugin, or the version has no binary.  Two users are the least for a race; four commands allow a download that
is given up, a removal, a new download and a scan over them; two chunks are the least
for a file that is cut or mixed; the four repositories have a plugin of two versions
in either order, one whose first binary is for another platform, one that is not for
this platform at all, and one whose manifest calls a version by the name of another
plugin and has a second one without a binary; the installed files have a copy under another name and a
plugin in the global directory.  Users are interchangeable (symmetry).  A command
ends by itself or by `Stop`; when no more may begin the system stops, so deadlock is
not checked.

**plugin_platform** checks the comment at `plugin_manager_helper.go:103`, "filters
manifest for current os/arch".  The loop filters the copies that `range` makes, so add
takes the first binary of the version (`add.go:158`, `:176`).

## What is proved

For every value of the constants that satisfies the module's `ASSUME`, checked by
TLAPS:

* `RsyncLogStreamProofs`: `TypeCorrect`, `SendsAreReceived`, `NoClosedChannel`,
  `SavedOnReturn`, `AllShown`, `NilExplained` and `ImplementsLogFollow`.  None of
  these invariants is inductive as it stands: that a send has a receiver follows
  from *where each process can be while the other is in its loop*.  The invariant
  `Inv` says this: it ties `closed`, `wg` and `cancelled` to the program counters,
  says what `err` may be at each of the goroutine's steps, that screen and
  progress agree after the send to stdout, and why the exit code is not known if
  it is not.  `ImplementsLogFollow` takes each step to a step of `LogFollow` or a
  stutter.
* `RsyncProgressProofs`: `TypeCorrect`, `NeverTakenBack`, `FailedOnce` and
  `FailedIsComplete`, for logs of any length and any cut of them into chunks.
  `ParseGrows` says what parsing and merging *any* text does to a well-formed
  progress; that is all the final logs need, which may be anything.  The
  invariant `IInv` adds how the log is built (`LogInv`: a count comes after the
  statistics' first line, retries are numbered upwards), what the progress knows
  of the lines up to `pos` (`ParsedInv`), and, while the goroutine reads, that data
  of 0 bytes is known from the statistics only and that no retry before the one it
  knows of is still to come (`ReadingInv`).  `RoundStep` is its heart: a line of a
  chunk is a line of the log, but for a beginning.
* `MigrationFilesProofs`: `TypeCorrect`, `SettledInForce`, `TransformSettles`,
  `OutputIsCurrent`, `OutputDecided`, `ResultsUnmixed`, `AllOrNothing`.  The invariant adds what is already on disk
  at each file operation of the file in work (its whiteout gone before its
  patches, its patches before its ignored patches), and what is current in the
  output of the files an apply has done; that a command other than runfn is under way
only if every file is readable; and that there are no results as long as there is no
directory, and none but of `input` after.  It holds for any number of resources
  and commands: the proofs do not use the bounds.

* `ExportProofs`: `TypeCorrect`, `Closed`, `Accounted` and `Complete`, for any API
  resources, any objects, changes and failures.  The invariant says what the first
  lists have given while the cluster stood still (`Expected`), that what is exported
  is what the filter leaves of that (`ListsInv`), and which files and failures have
  been written by the time the run has reached each step (`WrittenInv`).
  `FilteredClosed` shows the filter's result closed for *any* set of objects, which is
  why the moments of the lists do not matter.

* `TransferPVCProofs`: `TypeCorrect`, `OnlyClaimLeft`, `PeersStayInPlace`,
  `OneClientPodFound`, `SecretsCopiedOnce`, `SamePassword` and `NothingOfOthersGoes`,
  for any number of transfers, of claims of any names in any namespaces, and any number
  of attempts.  The invariant `IInv` has two parts.  `Types` is of all transfers: each
  object is one that its transfer creates, or a copy it makes of a secret of one that is
  alike.  From this, every step takes only what it may and leaves those told apart as
  they are (`StepOrderly`): an object of the same key, or with the label asked for, is of
  one that is alike (`Distinct`, `Finds`).  `OfOne` is said of each transfer told apart,
  by itself and of the objects it has created; the steps of others do not touch it
  (`Frame`), not even a garbage collection or a name that is taken.  Why only one
  attempt gets past the secrets, and so meets no pods but its own, takes several
  attempts: as long as there are pods of an earlier attempt, or one has got past and
  was not followed to its end (`Past`), all certificates are on the source cluster and
  none of what has been listed has been copied (`Barred`), so the first `Create`
  fails; and `garbageCollect` deletes the pods of a cluster before its secrets
  (`Cleaned`), so that no collection that stops half-way opens the way for a second
  client.
* `PluginManagerProofs`: `TypeCorrect`, `FinishedWhole`, `InstalledKept`, `NamesOnce`,
  `FirstIsLoaded`, `AllRun`, `FailureHasReason` and `ListedInstalls`, for any number of
  users, commands, directories and files, downloads of any length, and any repository,
  whatever its manifests call the plugins.  The invariant `PInv` says of a file from one source that each chunk is in place or
  some writer has it still before it (`Growing`), which a truncation by a second writer
  keeps although it breaks what the first has done; of a scan, that what it has loaded
  comes before what it has yet to run (`Behind`), that it has run all that it has got
  past and that stayed the same (`Ran`), and has the first of each name among it
  (`FirstLoaded`).  A file counts only while its place is `steady`, which is why the
  steps of the others take nothing from this (`OthersKept`, `TouchStep`).
  `FoundIs` says which versions the search of add finds, in any repository.

Every invariant and action property of the passing runs is proved.  Only
model-checked are the two liveness properties, `FollowEnds` and `TransferEnds`: they
rest on fairness, that is on `ENABLED`, which the proof system does not do.  TLC has checked
`IInv` of `TransferPVCProofs` and `PInv` on the instances of the runs as well, before they
were proved.

## What is not modelled

Rates, elapsed time and `@ERROR` lines of the progress (`progress.go:290` never shows
the latter: the variable they are collected in shadows the one that is returned);
the terminal's layout, in particular the number of
lines erased; security contexts, rsync's options and the flags of `transfer-pvc`, and
that its two clusters are told apart by their names in the kubeconfig; the plugins and
the patches' content; API discovery, the label selector, impersonation and RBAC objects
that cannot be converted in `export`; paths: `ReadFiles` skips every directory called
`failures`, and plugins may be in subdirectories; how texts are sorted as versions
(`add.go:171`); the exit code of an add or list that cannot read the repository
(`add.go:136`); the functions that `runfn` runs, and the parsing of its arguments.

`convert`, `skopeo-sync-gen`, `tunnel-api` and `version` keep no state: they check
flags and call a library once, so there is nothing for a model checker to find in them.

## Plan

All components with state are modelled, and their safety is proved.  Next:

1. Which chunks make the comments of `progress.go:365` and `:383` true: a lemma that the
   percentage and the data are those of all attempts if no chunk holds a retry line and
   what follows it, and all data has one unit.
2. An abstract specification of a plugin directory, in which a plugin is absent, being
   installed or installed, that `PluginManager` implements while nobody gives up a
   download; checked by TLC, then proved from `PInv`.
3. What of `TransferEnds` is safety: in which states nothing but the router can keep a
   transfer from its next step.
