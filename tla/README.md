# Verification of the Archil SDK

TLA+ models of the client-side logic of the Archil SDK, checked with TLC and, for
what matters most, proved with TLAPS. Paths below are relative to `src/`.

## The system

The SDK is a client. The servers it talks to (control plane, S3 gateway, sandbox
runtime) are not in the repository: the models contain the part of them the
client is written against, and `PROJECT.json` marks those definitions external.

| Component | Source | State it keeps | Operations | Interacts with |
|---|---|---|---|---|
| Sandbox processes | `packages/disk/src/sandbox-process.ts`, `run`, `attach`, `_control` of `sandbox.ts` | id, cursor, status, collected text, two streaming decoders, the socket, result, connection error | `run`, `attach`, `wait`, `disconnect`, `kill`, `resize`, `sendInput`, `closeStdin` | runtime, over one WebSocket per handle and one per control request |
| Sandbox lifecycle | `packages/disk/src/sandbox.ts`, `sandboxes.ts` | the last snapshot of the sandbox | `start`, `stop`, `pause`, `resume`, `fork`, `refresh` | control plane, requests and polling |
| Request retries | `packages/disk/src/retry.ts` | attempt counter | `retryApiRequest` in modes none, connect, transient | every control-plane call |
| Object writes | `packages/disk/src/disk.ts` (`putObject`, `appendObject`, `DiskMultipart`, `_s3Request`) | next part index, part tags, upload id | single put, multipart put, append | S3 gateway |
| Object reads and listing | `disk.ts`, `s3xml.ts` | continuation tokens | get, head, list, bulk delete | S3 gateway |
| Disk control-plane calls | `disk.ts`, `disks.ts`, `tokens.ts` | none | branches, tokens, allowed IPs, exec | control plane |
| File transfer | `packages/disk/src/sandbox-files.ts` | buffered output, its own cursor | `uploadFile`, `downloadFile` | a sandbox process running a shell script |
| Image builds | `packages/disk/src/images.ts` | deadline, retries, poll interval | `build` | control plane |
| HTTP client | `packages/disk/src/client.ts`, `api-fetch.ts` | map of shared transports | one request | all of the above |
| Workspace | `packages/disk/src/workspace.ts`, `internal/tools.ts` | mount table | routed and fanned-out disk calls | several disks |
| Command line | `packages/disk/src/cli/` | profile file, credential store, terminal | profiles, sandbox commands, shell | sandboxes, files |
| SQLite adapter | `packages/sqlite/src/adapter.ts` | a memoised promise per operation | query, transaction | a disk's exec |
| Eve backend | `packages/eve/src/sandbox.ts` | memoised promises, directories on a disk | `prewarm`, `create` | exec and objects of a disk |
| just-bash file system | `packages/just-bash/src/ArchilFs.ts` | root inode | POSIX-like calls | native client |
| Python SDK | `src/python/archil/` | mirror of the above, plus a reference-counted client pool | mirror | mirror |
| Adapters, mock | `ai-sdk`, `mastra`, `langchain`, `archil`, `mock` | none that matters | re-exports and tool wrappers | disk |

What is hard in it:

* **Interleaving.** Socket events arrive between the awaits of `run`, `wait` and
  `disconnect`; several callers act on one sandbox, some through the same
  `Sandbox` object; upload workers go on after the call has failed; file
  operations of just-bash are sequences of calls that others come between.
* **Lost replies and retries.** A request may have been executed when its reply
  is lost, or be executed after the client gave up on it. Which requests may be
  repeated is decided call by call.
* **Crashes.** Containers of the SQLite adapter and of the Eve backend die
  between two lines of their scripts; a command is killed between two files.
* **Replay.** A process's output is replayed from an offset, may overlap what
  was delivered and may have been trimmed.
* **Waiting.** `wait`, the polling loops and `Promise.all` must end.

Correct means, per component: output reaches a handle in order, once, without
unexplained gaps, and its result is final; lifecycle calls repeat nothing that
is not idempotent, end when their operation has ended and give back what they
borrowed (a paused source); an object is never published in part and failed
uploads are cleaned up; a repeated request does no more, and reports no other
outcome, than one that was sent once; a SQL operation runs once and a transaction
wholly or not at all; a template is published complete and a session's work is
not lost to a second `create`; a file is replaced whole; answers merged from
several disks say what they leave out; a shared client is open as long as
somebody has it; the terminal and the remote shell are left as they were found.
The hazards behind these, with their lines and the properties that watch them,
are in `PROJECT.json`.

## Modules

| Module | Models | Extends / uses |
|---|---|---|
| `SandboxProcess` | process handles, their sockets and the runtime's end of them | instance of `OutputFeed` |
| `OutputFeed` | abstract: what a handle promises about output | |
| `SandboxLifecycle` | lifecycle calls, retries and polling | |
| `ObjectWrite` | single, multipart and append writes with retries | |
| `SandboxFiles` | uploads and downloads, with their two shell scripts | |
| `SqliteOperation` | SQL operations, transactions, and the script that runs them | |
| `ApiRequest` | control-plane requests that change something, and their repetition | |
| `HttpPool` | the counted HTTP clients of the Python SDK | |
| `ImageBuild` | `images.build` | |
| `SandboxShell` | the interactive shell of the command line | |
| `Profiles` | profile commands over the configuration and credential files | |
| `ArchilPaths` | path resolution of just-bash over a tree of inodes | |
| `ArchilFs` | the file operations of just-bash, interleaved | `ArchilPaths` |
| `EveBackend` | `prewarm` and `create` with their scripts | |
| `Workspace` | mounts, routing, listings, globs and searches | |
| `ClientCalls` | composes the six small components of client calls | `SqliteOperation`, `ApiRequest`, `HttpPool`, `ImageBuild`, `SandboxShell`, `Profiles` |
| `Adapters` | composes the three components that show a tree | `ArchilFs`, `EveBackend`, `Workspace` |
| `MC*` | constants for TLC; in `MCClientCalls` the fairness of the composition, too | the module of that name; `MCAdapters` also `MCArchilFs`, `MCWorkspace` |
| `*_proofs` | theorems; those about `HttpPool`, `ImageBuild`, `SandboxShell`, `Profiles` and `ClientCalls` are in `ClientCalls_proofs`, those about `ArchilFs`, `EveBackend`, `Workspace` and `Adapters` in `Adapters_proofs` | the module of that name, TLAPS |

In all of them one action is one JavaScript task (a socket listener, or the code
between two awaits), one line of a script in a container, or one step of the
server or the network. `PROJECT.json`
gives the lines of every definition; a definition whose name has a suffix, such
as `FirstNew_NoSkip`, is a wrong variant of the one after it. Nothing uses it
unless it is substituted, to see that the property meant to notice it does.

### SandboxProcess

A process output is a sequence of bytes, each of one stream (`Log`). A handle has
its `cursor`, its calls of `onOutput` (`chunks`), the input its two decoders hold
since they were last flushed (`fed`, as sets of offsets), its `result`, the
state of its socket (`sock`, `held`, `ready`, `connErr`) and the caller's
`wait()`. `On*` are the bodies of the listeners installed by `_connect`, with
`_handleMessage`, `_handleOutput` and `_finish` in them. `sock = "closing"` is a
socket the client has closed: it delivers no more messages, by the WebSocket
standard, and `Disconnect` relies on that for a resume at its cursor to be exact.

External: the runtime sends frames of one stream with absolute offsets, may
replay from before the offset asked for (`AcceptAttach`), retains the output from
`base` on (`Trim`), closes the previous owner on a take-over (codes of
`CLOSE_REASONS`, `sandbox-process.ts:71-77`) and its watchers with it, and
sends the exit after the output. Kill and resize use a socket of their own; a
resize changes nothing that is modelled.

A step of `OutputFeed` is a call of `onOutput` that brings something new, the
exit, or an `attach` that chooses where to begin; everything else a handle, the
runtime or the network does is invisible there (`ImplementsFeed`, `RefinesFeed`).

### SandboxFiles

One call is one process running `UPLOAD_COMMAND` or `DOWNLOAD_COMMAND`, both
modelled line by line where a line changes something. Files are sequences of
blocks that carry the upload they came from, so a mixture shows. `queue` is the
reader's `_chunks` and `_buffer` together, at the granularity of a size line or
a block; an `Error` pushed into it is a `Failure`. The handle below is the one
`SandboxProcess` models, reduced to what it guarantees: ordered output with
offsets, and a `wait()` that settles with the exit or the end of the connection.
A connection that ends leaves the script without end of input
(`packages/disk/README.md:378`: disconnecting leaves the process running); a
kill that is acknowledged stops the script.

### SandboxLifecycle

Each caller makes one call through a `Sandbox` object, possibly shared. `at` is
the await the call is in, `net` and `reply` its current request. `view` is what
`_apply` wrote last and `kid` the child's status. A request fails in two ways:
`"connect"` (never sent) and `"lost"` (executed or not), the two `retryApiRequest`
tells apart; `RetryMode` is the mode each method passes. A request whose server
side holds the reply for the `wait` budget is an immediate reply followed by the
polls the client makes anyway. External: the control plane, with the statuses
of `SANDBOX_ACTIONS`, a checkpoint that is named when a sandbox goes inactive
and committed when it has settled.

### ObjectWrite

Each writer makes one call. `req` and `tries` are the current request of
`_s3Request` and its loop; `part` and `ptries` the same for each part of the
worker pool. A request the client gave up on stays in `late` and may still be
executed, in any order. The sizes and limits (`MIN_PART_SIZE`,
`MAX_PARTS_PER_UPLOAD`, the rounding of `effectiveUploadPartSize`) are constants,
so that the arithmetic is the code's and the numbers are small. A body is the
set of its byte positions and a part the `Slice` the code cuts from it, so that a
byte that is lost or in two parts shows. External: the
gateway, as the four S3 requests the client sends.

### SqliteOperation

An operation is the object `get`, `all` or `run` returns; its `promise` is made by
the first await or by the transaction that claims it, and never again. A job is
one exec, named after the call that sent it: it mounts, takes the delegation of
the database's directory (`lease`), runs the statements between `BEGIN` and
`COMMIT`, prints and ends, and may die at any step. The database is the sequence
of its commits (`log`), each with its job and the statements it wrote. Calls are named in the order they begin, which
only renames them.

### ApiRequest

`Operations` lists every request that changes something, and those that read a
setting, with the mode its method passes to the retry loop and what it does at
the control plane. An attempt is lost before it arrives, executed
with its answer lost, or executed after the client gave up on it. Operations on
different things do not meet, so a behaviour is about one thing and two calls.
Two edits of the allowed addresses that overlap, or an edit and a late attempt of
another, lose a change by design of an endpoint that takes the whole list; `alone`
keeps the property to calls that do not. `told` is the setting the last answer gave
the program, which an edit and a read return. `Disks.create` reads the disk back: if
that fails the token, which is shown once, is lost with it. External: what a
request does at the control plane, and that it honours an idempotency key.

### HttpPool, ImageBuild

`HttpPool` has the table, the counts and, separately, what each transport holds:
`aclose()` awaits the client after the lock is released, and in between the
transport may be closed again or used by another request. A request during the
second of two overlapping closes can leave a reference that nobody gives back;
the client then stays open, which the property allows. In `ImageBuild` a tick is
one poll; other callers' requests may join or restart the same build.

### SandboxShell, Profiles

`SandboxShell` follows raw mode, listeners, the race of exit, kill and failure, and
the `finally` block. A signal that meets no listener ends the program at any await
(`SignalKills`). While `run()` is still being opened the program knows of no remote
shell, which may then outlive it; the property leaves that case out.

In `Profiles` a command reads and replaces the configuration and one credential
file, in the order of the code, with a probe of the key in between, and may fail
or be killed at each step; a file that is written in place may be torn. Commands
that overlap can pair the key of one with the entry of the other (there is no
lock, and nothing promises one); that part of the property is about commands that
do not. Permissions and the locations of the files are left out.

### ArchilPaths, ArchilFs

The tree maps inode numbers to files, directories and links. `Resolve`, `ResolveFollow`
and `RealPath` are the three resolutions of the code, lexical `..` included;
`PathsAreReal` compares the first and the last with what the system calls do, written
as a reference definition beside them (`LStat`, `Stat`); the second is a finding. In `ArchilFs` a caller has a list of steps,
each one call of the native client; between two of them the others run. A write is two
blocks and a client read returns one, so a read is always several calls. `ReadsAreWhole`
says that what it returns is one write; `NothingElseIsLost` that overwriting is atomic
(`OverwritesAreAtomic`) and that `rm -r`, `cp` and `mv` touch nothing they were not
asked about (`RemovalStaysBelow`).
Noticed, and as the code means it: `resolveParent` does not follow a linked parent;
`rm -r` lists a directory by its path again, so it follows a link somebody put there in
between (no request of the run does, so `NothingElseIsLost` does not watch it); the target
`link/..` is read lexically, where lstat(2), which the comment of `resolve` names for the
last component (`ArchilFs.ts:190`), goes up from where `link` leads (no link of the run's
tree has such a target); a copy of a directory includes another write's temporary file, and a copy of a
directory into itself does not end (not among the requests); two `mkdir -p` of one
path may fail with EEXIST; overlapping appends, and an append to an inode an
overwrite has replaced, are lost. `chmod`, `utimes` and `readlink` are left out.

### EveBackend

One template and one session. A directory is the set of its files; scripts run
line by line in containers that may die, or run on after their caller has given
up. The publish script has no `set -e`, so it goes on after a failed line and
only its last line decides. Prewarms overlap as they like, also with the containers of
those that were given up, and all of them share one temporary directory. `wiped` is a
history variable: a prewarm has run its `rm` while another was `Filling` the directory,
by its `bootstrap`, its puts or a publish script still to run. `PublishedIsWhole` holds
as long as that has not happened, and not beyond: the script that was to publish the
directory publishes what it finds there. No seed file has the name of a marker, or of what
`bootstrap` or a user writes (`SeedsAssumption`). `run` and `spawn` of a session pass a command on.

### Workspace

Keys are sequences of segments. A listing is a walk per disk, page by page, while
objects come and go and mounts are replaced; the answers are merged at the end,
cut to the limit and marked. `RouteGlob` and `RootGlobs` hand a list of globs to the mounts;
`GlobsMeanTheSame` compares that with reading the list against the whole tree. There
the mount's name is matched literally (`workspace.ts:180-182`), and a leading `**` is
written once: `rootGlobs` takes one away, so `!**/**/logs` does not leave out `logs`.
A grep's answer per disk is a sequence of match and context lines. A page token that is repeated or missing ends a listing
without a mark. `toSegments` trims blanks, so a key that ends in a blank is listed
and cannot be addressed. `deleteObjects` and `exec` are not here.

## Runs

| Run | Question | Bounds | Why they are enough |
|---|---|---|---|
| `process_delivery` | is output delivered in order, once, completely and finally, and does the handle implement `OutputFeed`? | two handles, three bytes of two streams, one connection that may fail, one message in flight when output is sent | replay, overlap, gap, take-over and resume each need one other handle and one frame boundary; two bytes of one stream and one of the other make a frame that is cut in the middle and a decoder with input |
| `process_settling` | do `run`, `attach` and `wait` settle; does a result win; is a command started once? | a runner and a shared watcher, one byte of output, one retry | one retry makes both outcomes of the retry loop; a watcher is closed with its owner |
| `lifecycle` | do retries, polls and forks keep their promises between two callers? | two callers on one `Sandbox` object, one of them with `wait` and an unreliable network, all seven calls, one retry, three sessions | a stale snapshot needs two callers, a duplicated request one retry; three sessions allow each caller to start one |
| `fork_lost_reply` | does `fork` resume the source it paused? (violated) | one caller | |
| `object_write` | are bodies whole, completions and appends not repeated, uploads cleaned up? | two writers: a body of 5 in three parts of 2, or of 7 in two parts grown to 4, and a body of 1, two workers, one retry | two workers make a failing and a surviving one; a body over `MaxParts` parts exercises the growth |
| `object_write_orphan` | does one call start one upload? (violated) | one writer | |
| `files_contents` | is the path always whole, a download exact, nothing left running? | uploads of two chunks and one, a download in chunks of two blocks, an old file of three | a truncated upload needs two chunks; three blocks are a full chunk and a short one, the two-block upload a full chunk and an empty one |
| `files_settling` | does every transfer settle? | an upload and a download | the two calls do not wait for each other |
| `client_calls` | do operations run once, transactions wholly, repeated requests harmlessly; are clients open, gone builds found, the terminal and the profiles left usable; do calls end? | two SQL operations of which one writes, two batches, three calls; two requests on one thing, one retry, three ticks of patience; three transports, two keys, three clients; a build of five ticks, asked for again every two, two retries; one shell; two terminals, three names | a claim, its loss and a third claimant make three calls; a late attempt needs one retry and another call after it; a client that closes, its successor and a latecomer make three transports; five ticks hold two intervals; a name, its first and its second suffix |
| `adapters` | are files read and replaced whole and `rm -r` kept below its path, paths resolved as they should be, templates and sessions whole, workspace answers honest? | two operations of seventeen on a tree of seven inodes (at most twelve), two links in a path's way; two prewarms, two creates, two seeds, three calls; two disks, two mounts and a third, pages of one key, two changes | two operations make every pair of interleaved calls; a caller that gave up, or goes on, and a later one are two calls, and a third finds what they left; a page boundary needs two keys and a change between |
| `archil_fs_follow` | does `resolveFollow` find what `stat(2)` does? (violated) | the same tree and one more path | |
| `sandbox_delete` | does a delete report its own success? (violated) | one request, one retry | |

`client_calls` and `adapters` put components side by side that share no state: `subject`
picks one in the initial state and the others rest, so the states are those of the
components alone (about 200,000 and 520,000). Nothing of a resting component is
enabled, hence fairness asks nothing of it. `adapters` uses symmetry between prewarms,
between creates and between seeds; it checks no liveness.

No run uses a state constraint; what is bounded is bounded in a guard or by a
constant. `CHECK_DEADLOCK FALSE` everywhere: a program that has made all its
calls stops.

Fairness. The client's steps are weakly fair because they are tasks of an event
loop: a listener whose event has arrived, or an await whose promise has settled,
runs. The server's answers and the delivery of events are weakly fair too, which
the code takes for granted: it has no timeout on a WebSocket handshake's answer,
so without it nothing would settle (listed as a hazard). Callers, exits of
processes, failures and retention are under no obligation. In `object_write` the
gateway answers or the request fails; in `lifecycle` the control plane finishes
its transitions; a SQL container runs on or dies; time passes for a build.

What the runs show beyond the properties: a `wait()` on a handle whose owner
left settles with an error rather than for ever; the growth of the part size
keeps every body within `MaxParts` parts; an abort leaves nothing of a known upload
unless the abort itself is lost; the budget of a throttled creation is counted over
all its attempts.

## Findings

* `fork_lost_reply`: `fork` infers from the pause reply whether the source is its
  to resume (`packages/disk/src/sandbox.ts:551-563`). The pause is retried; when
  the first reply is lost, the second says `"paused"` and the source stays
  paused although the fork was what paused it.
* `object_write_orphan`: `DiskMultipart.create` is sent with retries
  (`packages/disk/src/disk.ts:1315`) although it is not idempotent. The upload of
  the lost reply is never aborted.
* `archil_fs_follow`: `resolveFollow` takes a relative link from the directory of
  the path as it was given (`packages/just-bash/src/ArchilFs.ts:244`). When that
  directory was reached through a link, `stat(2)`, which its comment names, takes
  it from another.
* `sandbox_delete`: `Sandbox.delete` is repeated after a lost answer
  (`packages/disk/src/sandbox.ts:769`, `python/archil/_sandbox.py:472`) and then
  reports its own success as not found, which `retry.ts:1` says deletes avoid.

Noticed, and not contradicting anything the repository says: an upload that
rejects because its connection ended after the end of input was sent may still
replace the file, and later than an upload made after it, if the kill failed too;
a part sent late by a surviving worker of a failed `putObject` is refused by the
gateway; a `putObject` whose completion's reply is lost rejects although the
object is published; a `fork` claims a pause that somebody else's `pause()` has
begun and not finished, by design (`packages/disk/CHANGELOG.md:74`).

One more deserves attention in the Eve backend: a prewarm that is repeated after its
publish answer was lost clears the temporary directory (`sandbox.ts:84-85`) that the lost
script, if it is still queued, publishes afterwards. That script has no `set -e`: it marks the
empty directory ready, and every `create` copies it from then on. The repository promises
nothing of two prewarms at once, and no caller can see that a lost container is over.

## Proofs

Forty theorems, for every value of the constants; each module's only assumptions
are the ones it names about its constants. Those that are more than types: in `Workspace`
a mount is named neither `*` nor `**`, a search asks for something (its cap is positive),
and the globs have a leading `**` once; in `ArchilFs` the entries of the initial tree
lead to its inodes, its files are empty or the content of one write (`FsAssumption`), and
what `mkdir` and `symlink` make is an empty directory or a link (`RequestsAssumption`).

| Module | Theorem | Says | Rests on |
|---|---|---|---|
| `SandboxProcess_proofs` | `TypeCorrect` | `TypeOK` | one lemma per group of actions |
| | `ExitWins` | `ExitBeatsConnectionError` | `ConnInv` |
| | `OneStart` | `StartedAtMostOnce` | `ConnInv`, `PeerInv` |
| | `InOrder` | `DeliveredInOrder` | `OrderInv` |
| | `ResumeIsExact` | `ResumeRepeatsNothing` | `ConnInv`, `OrderInv`, `ResumeInv` |
| | `RefinesFeed` | `ImplementsFeed`: the handles refine `OutputFeed` | all of these, `FeedInv` |
| | `NoByteIsLost` | `NothingIsLost` | `PeerInv`, `OrderInv`, `FeedInv`, `LossInv` |
| `SandboxFiles_proofs` | `NothingLeftRunning` | `SettledIsOver` | `LinkInv`, `ExitInv`, `DoneInv` |
| | `ResolvedUploadsArePublished` | `UploadIsPublished` | `ExitInv`, `DoneInv` |
| | `TransferTypes` | `TypeOK` | `FilesInv` |
| | `TransfersAreExact` | `FilesAreExact` | the above, `FilesInv` |
| `SandboxLifecycle_proofs` | `LifecycleTypes` | `TypeOK` | `LifecycleInv` |
| | `NothingIsDoneTwice` | `RetriesAreHarmless` | `LifecycleInv` |
| | `SourceIsRestored` | `ForkRestoresItsSource` | `LifecycleInv` |
| | `WaitsAreLongEnough` | `WaitsUntilItIsOver` | `LifecycleInv`, `WaitsInv` |
| `ObjectWrite_proofs` | `NothingIsLeftBehind` | `KnownUploadIsGone` | `WritesInv` |
| | `ObjectTypes` | `TypeOK` | `WritesInv`, `ContentInv` |
| | `ObjectsAreExact` | `BodiesAreExact` | `WritesInv`, `ContentInv` |
| | `CompletionsAreGranted` | `CompletionsSucceed` | `WritesInv`, `ContentInv` |
| `SqliteOperation_proofs` | `SqlTypes` | `SqlTypeOK` | `SqlInv`, `CommitInv` |
| | `RunsOnce` | `OperationRunsOnce` | `SqlInv` |
| | `JobsAreWhole` | `TransactionsAreWhole` | `SqlInv`, `CommitInv` |
| `ApiRequest_proofs` | `ApiTypes` | `ApiTypeOK` | `ApiInv` |
| | `RequestsAreHarmless` | `RepeatsAreHarmless` | `ApiInv` |
| `ClientCalls_proofs` | `HoldersAreOpen` | `OpenForItsHolders` | `PoolInv` |
| | `GoneBuildsAreFound` | `GoneBuildsAreRestarted` | `BuildInv` |
| | `ShellLeavesNothing` | `LeavesNothingBehind` | `ShellInv` |
| | `ProfilesStayUsable` | `ProfilesAreUsable` | `ProfilesInv` |
| | `CallsAreIndependent` | the composition implements each of its six parts | |
| | `CallsTypes` | `CallsTypeOK` | the above, `SqlTypes`, `ApiTypes`, the other invariants |
| `Adapters_proofs` | `EveTypes` | `EveTypeOK` | `EveInv` |
| | `PublishedTreesAreWhole` | `PublishedIsWhole` | `EveInv` |
| | `SessionsKeepTheirWork` | `SessionKeepsWork` | `EveInv` |
| | `WorkspaceTypes` | `WsTypeOK` | `WsInv` |
| | `AnswersStayHonest` | `AnswersAreHonest` | `WsInv` |
| | `GlobsKeepTheirMeaning` | `GlobsMeanTheSame` | `MountsInv` |
| | `FsTypes` | `FsTypeOK` | `FsInv` |
| | `ReadsStayWhole` | `ReadsAreWhole` | `FsInv` |
| | `AdaptersAreIndependent` | the composition implements each of its three parts | |
| | `AdaptersTypes` | `AdaptersTypeOK` | the above, `FsTypes`, `EveTypes`, `WorkspaceTypes` |

None of the safety properties is inductive by itself.

* `ConnInv`: a handle that is not connected has received nothing, an open socket
  is held, and a `wait()` that rejected did so over a closed socket without a
  result. A closed socket receives nothing, so a rejection stays right.
* `PeerInv`: the runtime has no end of a connection that is not open, and before
  it serves the runner it has started nothing. The retry loop of
  `openProcessSocket` ends when the socket opens, so the request is sent once.
* `OrderInv`: `begin <= cursor`, and each call of `onOutput` begins at or after
  the end of the previous one. The step that matters is `OutputOrderInv`:
  whatever frame arrives, what it adds begins at or after the cursor.
* `ResumeInv`: the handle another one resumed from is closing or closed, and its
  cursor is where the other began. A closing socket delivers no message, hence
  the cursor stays; with `OrderInv` the two deliver disjoint offsets.
* `FeedInv`: no output follows an exit on a wire, once the exit is sent the
  runtime serves that connection no more, and once it is received no output is on
  its way. So a frame that brings something new meets a reader that is not done
  (`OutputReads`); with `OrderInv` the reader was not given those bytes before.
* `LossInv`: whatever lies before the cursor, before a frame on its way, or before
  what the runtime sends next was delivered or trimmed (`SeamInv`): the three seams
  where a byte could fall through. The decoders hold an unbroken end of what the
  handle was given, which a gap flushes, and nothing once there is a result
  (`DecodedInv`). A handle whose socket is open but not yet served has read nothing,
  so the replay it is then sent begins where it stands.
* `LinkInv`: a `wait()` settles once, after which the connection is never up again.
  `ExitInv`: the exit the client knows is the script's, scripts that have exited
  stay so, and an upload's script that succeeded has moved its file. `DoneInv`: a
  call that resolved has seen a successful exit.
* `FilesInv`: for an upload, what its script has taken in and what is still on its
  way is the source from the first block, and the end of input is behind the last
  (`StreamInv`), so a script that sees the end has the whole source. For a download,
  the reader's queue is a run of the script's output up to the cursor and then only
  errors (`QueueInv`), and call and script take turns: a chunk is asked for when the
  one before is written, and the size line says how many blocks follow (`TurnInv`).
  A gap puts an error behind what is queued, so nothing after it is taken for the
  missing part.
* `LifecycleInv`: per caller, a fork or a start with mounts that was executed is
  answered or was lost for good, since its request is not sent again (`ForkInv`,
  `RemountInv`, `RefusedInv`); a fork knows of a child only when there is one
  (`ChildInv`); and a source that is the fork's to resume is being waited for,
  forked or already asked to be resumed (`MineInv`).
* `WaitsInv`: the checkpoint a fork names is one whose session is past, and what a
  call has seen of its operation was there to be seen, however late the reply
  (`CheckpointInv`, `SeenInv`, `KidInv`, `EndedInv`); a session that has become
  inactive is never live again.
* `WritesInv`: an upload is known only after `create()` has returned (`StageInv`);
  no creation still on its way is of the upload that is known (`FreshInv`), so
  nothing brings it back once it was aborted or completed (`GoneInv`).
* `ContentInv`: a request that may still be executed late is one its writer is
  entitled to, and its writer has failed, unless it is a part (`LateInv`); an upload
  is there until its own writer completes or aborts it (`AliveInv`), parts are taken
  in order and those answered are stored (`PartsInv`). The arithmetic of the slices
  (they are disjoint, cover the body and are at most `MaxParts`, all but the last at
  least `MinPart`) is proved apart, for every size and limit.
* `SqlInv`: every operation of a job that was sent has its promise
  (`JobsAreClaimed`), and a promise is taken only when there is none.
* `CommitInv`: what is in the log was committed by a job that is over, once, and is
  everything it was given; an exit of "ok" over a write has its commit there.
* `ApiInv`: all calls are on one thing (`OneThing`). A call outside the transient mode
  has at most one attempt of its first request on its way, and none once one was
  executed (`OnceInv`): a connect error is the only one it repeats on, and says that
  the attempt did not arrive. What a call was told of others is so (`HonestInv`).
  While calls neither overlap nor fail one of them acts; until it writes, the setting
  is the one agreed, then that or what it promises, and all that is on its way makes
  it so (`AloneInv`): a repeated transient write is harmless because it is the same
  value.
* `BuildInv`: a host that is gone was there at the last request, and a build that
  is looked at was requested less than an interval ago (`LooksRecently`).
* `PoolInv`: a client has at least as many references as holders, those find it in
  the table under their key, and it leaves the table before it is closed.
* `ShellInv`: before `run()` has resolved and from the `finally` block on the terminal
  is not in raw mode and nothing listens (`Restoring`); a kill was asked for by the
  user or by the block unless the shell ended by itself (`Accounted`); and what won
  the race did happen (`Raced`).
* `ProfilesInv`: each entry of a profile, in the file and in whatever a command has
  read, was made by the `create` of that name or was there before (`IsOwned`). So there
  are never more profiles than commands, and the first free name exists: of more
  different names than terminals one is free, and a set of numbers has a least
  element. A command that is alone has read what the file holds, but for the profile it
  is about (`IsCurrent`), and has written its key before it writes the entry.
* `EveInv`: until a prewarm has removed the temporary directory under another, at most
  one of them is filling it (`FillsAlone`): the next has to pass the `rm`, while it holds
  the templates, and from there on is the one. As long as it fills, the template is not
  ready, each seed file is in the temporary directory or on its way there, and once the
  publish script is queued everything is (`FillingInv`), so its lines may fail one by
  one. Others may run their tests, their `rm` when nobody fills, and the puts of a
  prewarm that failed, which only add seed files. A running script of a `create` holds the directory of the sessions
  alone; past its test the session is not ready, and from the copy on the temporary
  directory is whole if the template was (`CreateInv`). Work is kept only in a session that is ready, which
  each of these scripts finds at its first line.
* `WsInv`: what a walk has taken was on its disk at some time (`TakesWhatIsThere`), it
  asks at most once for each token (`AsksOnce`), and every key up to its token that was
  there all the while it has taken, itself or by its directory (`MissesNothing`). A page
  is an initial part of the keys behind the token, so the next token leaves none out,
  whatever was written in between. What is returned is what the walks took (`FoundInv`).
  A cut of merged groups ends where the cap-th match does: some line is that match, since
  the count goes up one by one from line to line.
* Globs need no invariant but the mounts'. A glob fits a path when its segments can be
  read off; read below a mount from any places it does what it does on the disk
  (`BelowTheMount`), a name consumes the mount's (`NamesItsMount`), and a leading `**`
  begins at the root or inside (`BeginsAnywhere`). So what a mount is sent of one glob says
  of a file what the glob says (`VerdictSent`), and by induction what it is sent of all of
  them (`RoutedMeansTheSame`).

* `FsInv`: an inode has one writer. Whoever made a file, or its temporary double, fills it
  once, from its first block, and until then nothing but appended blocks is in it
  (`NowInv`, `OneWriter`): a write that fails, or a rename whose answer is lost, leaves
  the step undone for ever. So the blocks of an inode that were not appended are
  those of one write at its beginning (`Good`), which appended blocks may cover, and a
  reader that has seen one of them has nothing to fear of a writer, since the only one
  is past (`Reading`). A reader keeps to the inode it has opened, which never shrinks,
  whatever happens to the path: an overwrite puts another inode there, and unlinking,
  renaming and creating change entries only (`OnlyEntries`, `CreatedIs`). The paths
  are not looked into: the proof holds for any inode a resolution may answer.

The recursive functions of `Workspace` (`toSegments`, the routing, the places of a glob)
are shown to exist by `Recursion`, and what they compute by `Upwards`: both take the least
element of a set of natural numbers instead of an induction schema.

Only model-checked: `NothingElseIsLost` and `PathsAreReal`, which are about the tree, the
paths and the requests of the instance. They do not hold of every tree: a directory into
which a temporary file is copied keeps it, an empty file that is copied leaves an empty one, and a
link that goes up behind another link is where `Resolve` and `lstat` part. Over a tree like the
one checked they would need an induction over the walks of a path, which visit inodes
more than once. Liveness under fairness (`EveryPromiseSettles`, `EveryCallSettles`,
`EveryWriteSettles`, `EveryTransferSettles`, `EveryCallEnds`) is out of the prover's reach.

## Not modelled

* `client.ts`: one transport per base URL in a map, with an identity test when its
  initialisation fails; the requests over it are what `ApiRequest` models.
* The lists and gets that read something else than a setting. `deleteObjects` has no state but its result.
* `bin/shell.ts` of just-bash, a command loop over the file system that is modelled.
* The parts of the Python SDK that mirror the TypeScript one; where they differ
  (the client pool, the wait for capacity, the mode of a delete) they are modelled.
* Argument parsing, printing and prompts of the command line, XML and JSON
  conversion, authentication and TLS, the type adapters of the framework packages
  and the mock.
* `resize` and the rejection of `kill` change no state of a process handle.
* Timing is abstract: back-off delays, poll intervals and the `wait` budget only
  decide how often a step is taken, except where a deadline is what is checked
  (`ImageBuild`, the wait for capacity).
