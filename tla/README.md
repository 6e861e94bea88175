# Verification of cm, the configuration manager

TLA+ modules of the `cm` daemon, TLC configurations that check them on small
instances, and TLAPS proofs for every value of the constants. All paths below are
relative to the repository; lines are those of the commit the modules were written
from. `PROJECT.json` is the index: components, runs, mutants, the map from
definitions to source lines, findings, hazards and theorems.

## 1. The system

`cm` is one daemon and a command line. The daemon watches registered configuration
files, collects their changes for one minute after the first, and commits snapshots of
them to a Git repository.

| component | state | operations |
|---|---|---|
| batching daemon, `internal/daemon/daemon.go` | the map `monitored`, `batchTimer`, `batchActive`, the queue `work`, the event loop, `stopNotify` | `Start`/`loadRegistry`, `handleFileEvent`, `reconcile`, `reconcileAll`, `startBatchLocked`, `commitBatch`, `commit`, `clearPending`, `resetBatch`, `Close` |
| record of a file, `internal/model` | `LastContent`, `Exists`, `Pending`, `SaveCount` | written by the daemon |
| snapshot repository, `internal/repository/repository.go` | work tree, Git index, commits under `files/` | `WriteSnapshot`, `RemoveSnapshot`, `Stage`, `Commit` |
| queries of the repository, `history.go` | none | `AffectedFiles`, `FileStatement`, `History`, `DiffStats`, `DiffBody` |
| pending message, `internal/state` | text in memory and in a file | `SetMessage`, `Message`, `TakeAndClear`, `load` |
| watcher, `internal/watcher` | watched paths and directories, an unbuffered channel of events | `Add`, `Remove`, `run`, `Close` |
| registry, `internal/registry` | symlinks under `links/` | `Add`, `Remove`, `List`, `InternallyChecks` |
| requests, `internal/daemon/ops.go` | the locals of each call | `Add`, `Remove`, `PreviewRestore`, `Restore`, `ForcedCommit`, `SetMessage`; queries `List`, `History`, `Diff` |
| API, `internal/api` | a socket, a goroutine per connection, a WaitGroup | one JSON request and answer per connection; `Start`, `Close` |
| process, `cli/daemon_run.go`, `internal/service` | daemon and server | start and stop both |
| command line, service installation, config | none that lasts | parse, ask, print; install and control the service |

How they interact:

- The watcher's goroutine passes inotify events to **the loop**, one goroutine that
  handles events and, when the window's timer has queued it in `work`, runs
  `commitBatch`. The loop holds `d.mu` while it touches records, but not while it
  calls Git or takes the message.
- **Requests** run on the goroutines of their connections. They take `d.mu` only for
  the map and the records. The registry, the snapshots and the Git index are shared with
  the loop and with each other without any lock.
- **cm message** meets the loop in `State`, whose mutex makes each operation atomic,
  but not the sequence take, commit, give back.
- **cm restore** is two requests with a question to the user between them.
- Disk (snapshots, index, history, message, registry) outlives the process; all
  the rest is rebuilt by `New` and `Start`.
- At its end the process closes the server, which waits for its goroutines, and then the
  daemon, which waits for its loop.

What is hard here: edits at any moment of a batch; failures in the middle of one, after
which a retry has to make everything good; the bookkeeping of windows by a boolean
and a timer that is never nil while it has fired; kills between or inside the write of a
snapshot and its commit; inotify events dropped and watches that could not be set;
requests that interleave with batches on one index; `Close` in the middle of all
of it. `PROJECT.json` lists these hazards at their lines with the properties that watch
them.

What makes each component correct:

- *Daemon*: no change is forgotten; whatever is pending has a window; windows do not
  overlap; a clean file is committed; a message line tells the truth.
- *Repository*: history only grows, one commit per window at most.
- *Message*: the text goes into one commit, and is not lost.
- *Registry and requests*: what is monitored is registered; half-done requests leave
  nothing inconsistent; the monitored files belong to their users.
- *Restore*: nothing uncommitted is overwritten; the files afterwards are the
  committed ones; the daemon's records stay in step with them.
- *Queries*: what `cm ls` calls clean is committed; a preview shows what will be restored.
- *Server and Close*: every goroutine is waited for, nothing runs afterwards, and
  everybody ends.

## 2. The modules

| module | models | lines it stands for |
|---|---|---|
| `Repository` | work tree, index, history and what `git add`, `git commit` do to them | `repository.go` |
| `MonitoredPath` | the record and `reconcile` as pure operators | `model.go`, `daemon.go:189-240` |
| `PendingMessage` | the message in memory and on disk, writes that fail | `state.go` |
| `CmDaemon` | the loop, the timer, kills and restarts, users who edit; composes the three above | `daemon.go`, `watcher.go` |
| `BatchWindow` | abstract: what the batching promises | |
| `Operations` | `cm add` and `cm remove` on goroutines of their own, beside all of `CmDaemon` | `ops.go:25-148`, `registry.go`, `server.go` |
| `Queries` | what `cm ls` shows, and which files Git names for a commit | `ops.go:150-190`, `cli.go:192-216`, `history.go:99-147` |
| `Restore` | `cm restore` from its preview on, with `ForcedCommit`, beside all of `Operations` | `ops.go:275-496`, `daemon.go:332-416` as called from there, `cli.go:427-485` |
| `ApiServer` | the server, its WaitGroup, and calls of clients that may leave | `server.go`, `client.go` |
| `DaemonClose` | `Daemon.Close` beside the loop and the timer | `daemon.go:94-124, 438-456` |
| `Process` | daemon and server started and stopped as one process | `daemon_run.go`, `service.go:35-63` |
| `Provenance` | `CmDaemon` with a memory of what the files have been, which the program does not have | |
| `MCDaemon`, `MCProvenance`, `MCOperations`, `MCRestore`, `MCProcess` | instances for TLC | |
| `CmDaemonProofs`, `MessageProofs`, `ProvenanceProofs`, `OperationsProofs`, `RestoreProofs`, `RestoreMessageProofs`, `ProcessProofs` | the theorems | |

`Process` composes the server with the daemon alone, and not with `Operations` and
`Restore`: what a request does is there `cm message` or nothing, since the questions of that
module are about who still runs, and not about what they do.

### State and steps of CmDaemon

`fs` is what stands at the monitored paths: a content, `Absent`, or `Unreadable` (any
error of `os.ReadFile` but "not exist"). `links` is the registry. `mp[f]` is the record of `f`,
and `monitored` the keys of the map; a record outlives its key, because
`commitBatch` holds pointers to records. `worktree`, `index` and `history` are the
repository; a commit keeps its tree, its line for each file, and the user's text.

A message line is a number: `n >= 1` for `<file>: n saves`, 0 for `<file>: deleted`,
-1 for none. `events` is the set of files with an event under way: in the kernel's queue,
in the watcher, or ready for the loop. Several events of one file are one, because
handling an event only reads the file.

`batchTimer` is `"nil"`, `"running"` or `"fired"`: `d.batchTimer` keeps a timer that
has fired, and `startBatchLocked` tests it for nil. `timers` counts running timers and
`work` queued commits, so that a second one would be seen rather than excluded.

`pc` is where the loop stands. A section under `d.mu` is one step; between two Git calls,
and around `TakeAndClear`, everything else may happen. `Snap` is the whole locked
section of `commit`; `SnapFails` its error returns, which leave the files before the bad
one (in any order: names are not ordered here) with new snapshots, and the bad one with its old
snapshot or a half-written one. A record that exists does not stop existing when its file is
found gone, and one that does not begins to exist only when it was pending as deleted
(`Snapped`, `daemon.go:355-357` against `379`). `StageFails` covers both
a `git add` that refuses a path it does not know and one that fails for any other
reason. `CommitFails` covers "nothing to commit", a failing `git commit`, and a
`rev-parse` that fails after the commit was made.

A write of a snapshot that fails leaves the old one or a part of the new one (`HalfWritten`:
`os.WriteFile` truncates first; a part is some member of `Contents`, since contents are only
compared); a removal that fails leaves the old one.

`Crash` may happen anywhere. It drops the memory. Where a snapshot is being written, it
leaves the old one, the new one or a part of it (`MayHold`), any of the batch's files
independently. `Start` and
`FinishStart` are `New` and `Daemon.Start`: watches are set and snapshots are read, either of
which may fail for one file with an error that nobody looks at (a snapshot that cannot be read
counts as one that is not there, `daemon.go:136`), and the files compared with them
afterwards, with edits possible in between.

A batch holds pointers to records, and `cm add` after `cm remove` replaces the record in the map.
`detached[f]` is the `SaveCount` of the old record of `f` that the running batch still
holds, `NoLine` when it holds the one in the map. An old record is pending for good and seen
by nobody else (but for a remove that asks it for `Exists`, see below), so its `SaveCount`,
which goes into the message, is all that matters of it (`StillPendingIn`, `Recorded`, `LineOf`).

`lost` is an observation, not a state of the program: the files with a change that no event
told the daemon of since it last looked at them. A file gets into it by an event that inotify
dropped, by an edit of a file without a watch, by an edit in the gap between the probe and the
watch of `cm add`, and by an edit that a restore overtakes; it leaves it when the daemon
probes it. `sent` and `newest` (texts given to cm message) are observations too, and so is
`seen` of `Provenance`: what has stood at each path since the beginning.

### State and steps of Operations

`requests[c]` is the step at which the goroutine of connection `c` is. Add takes link,
snapshot, monitor, watch, stage, commit; Remove takes (drop the record,) unlink,
unsnap, stage, commit. Each is one step that the loop and other requests may come
between. `RequestFails` returns the error where it stands.

- `AddLinks` has what `os.Symlink` followed by `os.WriteFile` does when the link exists: the
  path is written into the monitored file. `OwnPath` is that content.
- `RemoveUnsnaps` answers at once when the record says that the file did not exist. This is the
  record that the remove took from the map at its beginning. Until an add of the same file
  replaces it, this is the record of `mp` (`held` is `"mapped"`), which a batch that has collected
  the file may still change; from then on its `Exists` no longer changes, and `held` keeps that.
- The directory of a file stays watched after a remove, so `watched` keeps it.
- The event of a file that is not monitored is thrown away, which an add may come too late for.
- Two adds of one file may pass the check together; the second puts a record made from its
  own, earlier probe in place of the first one's.
- A kill may leave the snapshots that adds are writing half-written.

- A remove that cannot delete the snapshot calls `git add` without looking at its error, which
  may fail too (`RemoveUnsnapFails`).
- A file that is removed and added again between `collectPending` and `commit` of one batch has
  two records, the batch holding the old one (`AddMonitors` sets `detached`). Such a batch writes a
  snapshot that the new record does not know of; if the batch then fails, which it does without
  any fault when `git add` refuses another path of it, the snapshot stays
  uncommitted while the file counts as clean.
- Two observations keep track of what the code leaves open: `raced` has the files of which two
  requests were under way at one time, `renewed` those that were added while a batch held an
  older record. The properties exempt a file by them and not by the number of connections.

### State and steps of Restore

`restore` is one `cm restore`. It is `asked` while the user looks at the preview, over kills
and restarts of the daemon. `RestoreBegins` looks the files up again, so it may find others than
the preview. Then the goroutine commits what is pending: `snap`, `stage forced`, `take`
(`reread` when the file of the message cannot be written), `commit forced` are the steps of
`commit()` again, with the differences that an error is returned and answered, and that no
record is cleared. Then for each selected file, in any order, `write`, `verify` or `unexist`,
`snapshot`; at last `stage`, `commit`, `settle`. The loop, adds, removes and edits come between
any two.

- `restore.detached` is for the batch of the forced commit what `detached` is for the loop's.
- Commits are named by their place in `history`. `made` keeps the restore's own, as
  `settle` reads that one even if others have been made since.
- `RestorePanics`: `settle` reads `d.monitored` again and uses the record unchecked. A file
  that was removed meanwhile has none; the process dies, and this uses up a kill.
- `calm` is an observation for `RestoredAsAsked`: nobody else has written a selected file or its
  snapshot since the restore began, and the loop was not inside `commit`'s locked section.
  The latter since Restore writes snapshots without `d.mu`: the loop may write
  an older content after it, which the model, where `Snap` is one step, does not show.
- `git show --numstat` prints a deletion and a creation of equal (or, as Git sees fit, similar)
  contents as one row `old => new`; `RenamesIn` is the set of pairings it may choose.

### State and steps of ApiServer, DaemonClose and Process

`call[c]` is `Client.Call` as the client sees it, `handler[c]` the goroutine of `serveConn`. `wg`
is a number of its own, so that the WaitGroup could be wrong. A caller may be killed before
(`left`) or after (`abandoned`) it has sent its request; in the second case the server still runs
it. Closing the listener resets the connections that nobody has accepted.

`Daemon.Close` stops the timer and closes `stopNotify` under `d.mu` (`CloseBegins`), closes the
watcher, and waits for the loop. The loop passes `stopNotify` over as long as `select` finds
something else to do, and sets timers after `Close` has stopped the one it saw: the error branch
of `commitBatch` is the only place that looks at `stopNotify` again (`GiveUp`). The function of
a timer may drop its commit (`TimerDropped`) or queue it. The watcher's goroutine may hold one
event more.

`Process` orders the two: the server is closed first, or has failed to listen. This is the order
of `runDaemon`'s deferred calls. In the program as shipped the way from there
to `Close` is short: the service unit runs `cm -d`, whose `runDaemon` waits on a channel that
nobody closes and is killed by the signal; its deferred `Close` runs when the server cannot
listen. `Program.Stop` closes the server only.

### Bounds

`MaxEdits`, `MaxFaults`, `MaxCrashes`, `MaxRequests`, `MaxRestores` bound the environment:
edits, failures (a write, a watch, a Git call or an inotify event each), kills, requests,
restores. The code has no bound of its own that they hide. `CHECK_DEADLOCK FALSE` in every
configuration: a daemon with nothing to do rests, once the edits are used up.

Two files and two contents are enough for what the properties tell apart: files meet only in
one batch, one commit and one `git add` (one that spoils it for another), and contents are
compared for equality (with the record, with the newest commit). Where absence counts as one
of the two states that differ, as for a restore, one content is enough; `Contents` is then
the path that a wrong link writes. Three edits are enough to change, delete and recreate a
file, or to change one and have two changes of another fall into a batch. One injected fault is
enough beside the failures that need none, which have no bound: `git add` refuses a
path, `git commit` has nothing to commit, a file cannot be read; so retries fail as well. One
kill, one fault and three edits are few where a theorem speaks of any number, as for every safety
property. Liveness has no theorem: `daemon_liveness` has three edits too, to one of the two
contents (the other is the one the files start with), to absent and to unreadable. Three are
what it takes to delete a file, have it unreadable when its deletion is committed and
gone again, which leaves it pending without a window; `PendingIsTried` is false in that run
without its condition on the window of a deletion. To keep the run short it has a fault or a
kill, and not both (`OneTrouble`). Leaving such behaviours out takes nothing from the others: no
fair action needs a fault or a kill to be enabled. `restores` has one request, so that no file is both
removed and added beside a restore; what `restore.detached` is for is left to the theorems of
section 4, which have any number. Two callers make one wait for the other's goroutine and one
come in while the server closes.

### Fairness

`FairSpec` asks for weak fairness of the timer (`time.AfterFunc` does fire), of each
step of the loop (a goroutine that can run does run; Git calls return) and strong fairness of
handling a file's event: Go's `select` picks among its ready cases at random, so that a case
that is ready again and again is taken. Nothing is asked of users, faults, kills
and starts.

`ProcessFairness` asks for weak fairness of each `Close`, of the loop as a whole (some step,
which may be to take an event instead of the end), and of the requests as a whole; a `cm`
command sends its request as soon as it has connected. Nothing is asked of timers,
users, faults and kills, and `select` owes nothing to `stopNotify`.

## 3. What is checked

| run | specification, bounds | shows |
|---|---|---|
| `daemon_faults` | `ProvenanceSpec`, which is `Spec` with `seen`; 2 files, 2 contents, 1 message; 3 edits (also to absent and unreadable), 1 fault, 1 kill | `TypeOK`; `AtMostOneWindow`; `PendingHasWindow`; `NoMissedChange`; `SnapshotOfCleanIsCommitted`; `LinesExplainTree`; `MessageAtMostOnce`; `NothingInvented`: what a commit changes at a path has stood there, no half-written snapshot gets into the history; `ImplementsBatchWindow`: the window discipline, the records, the history and the message through failing batches and restarts |
| `daemon_liveness` | `FairSpec`; 2 files, 3 edits (to a second content, absent and unreadable), 1 fault or 1 kill, no symmetry | `PendingIsTried`: a file pending for a change, also one that the scan of a restart finds, and one pending for its deletion while a window is open, gets into a batch again and again; `Converges` |
| `requests` | `OpsSpec`; 2 connections, 2 files, 2 requests, 1 edit, 1 kill | `OpsTypeOK`; `QuietCleanIsCommitted`: whichever of loop, adds and removes commits what the others staged, nothing staged stays behind, and the snapshot of a clean file is the committed one, or missing if it is in `raced`, unless it is in `renewed`; `NoMissedChange` for files that come and go; `MonitoredAreRegistered`: what is monitored is registered, unless it is in `raced` |
| `restores` | `RestoreSpec`; 2 files, 1 connection with 1 request, 1 restore, 1 edit, 1 fault, 1 kill or panic | `RestoreTypeOK`; `RestoredAsAsked`: a restore that succeeds undisturbed has what was asked for in the files and in the newest commit; `NoMissedChange`: the records it settles are in step but for the edits it overtakes; `MonitoredAreRegistered` after any half-done request |
| `shutdown` | `ProcessSpec`; 1 file, 1 message, 2 callers, 1 edit, 1 fault, 1 kill | `ProcessTypeOK`; `NothingServedAfterClose`; `RequestsMeetTheDaemon`; `NothingCommittedAfterClose`; `CallsReturn`; `ClosingEnds` |

Each property has a mutant of a mapped definition in `PROJECT.json`, a plausible slip
in that code, that makes its run fail.

`Converges` is conditional on purpose: it speaks of behaviours in which no event is dropped,
no registered file is removed and the process is not killed. Without the second condition the
code does not converge (`deletion_wedges`), nor without the third (`clean_after_restart`).
The files must also end up readable: one that never can be read fails every batch.
`PendingIsTried` lets a kill end the obligation, and has it anew after the restart. Of a pending
deletion it speaks while a window is open; that deletions have one where no file can be
unreadable is `PendingHasWindow`, and why not elsewhere is below.

### Findings

Runs that are expected to fail; each checks one sentence of the repository's own text.

| run | text | what the code does |
|---|---|---|
| `deletion_wedges` | README.md:65, all pending changes are committed | the deletion of a file is committed; the recheck marks it deleted again (`daemon.go:198-206`); `git add` refuses the path, now and at every retry; no other change is committed any more. `cm remove` of the file cannot help, as `cmRemove` validates that the path exists (`cli.go:150`) |
| `clean_after_restart` | model.go:14, clean means committed | a kill between `WriteSnapshot` and `Commit`: after the restart the uncommitted snapshot passes for the committed one |
| `clean_after_deletion` | model.go:14, clean means committed | a changed file that is gone when the batch looks at it is committed as deleted, but its record keeps `Exists` and `LastContent` (`daemon.go:383-388`): when it is back with that content before the recheck, `cm ls` shows it clean while the newest commit does not have it |
| `message_after_restart` | state.go:21-22, a restart does not lose the message | the message is taken before the commit; a kill in between loses it |
| `add_overwrites` | registry.go:56-57, when a marker file is written | when the symlink exists, the marker is written through it: `cm add` after a remove that failed replaces the content of the user's file |
| `removed_has_snapshot` | ops.go:96-97, what Remove does | a batch that has collected the file before the remove writes its snapshot again, and it stays |
| `restore_loses` | README.md:182-183, uncommitted changes are committed first so that nothing is lost | `PendingExists` knows changes whose event has been handled; an edit right before the restore is replaced and is in no commit |

Seen while modelling and not in a run:

*Adds and removes*

- An edit between the probe and the watch of an add goes unnoticed until the next
  change (`ops.go:51-79`); it is one of the ways into `lost`. So is an edit between the probes of
  two adds of one file, the later of which overwrites the record (`ops.go:65`).
- A remove of a file that is deleted at the moment leaves it in the newest commit
  (`ops.go:129-133`).
- With two connections, an add beside a remove of the same file leaves it monitored and
  unregistered (`ops.go:44`): `MonitoredAreRegistered` exempts the files in `raced`.
- For the same reason the file may lose its snapshot: the remove deletes the one that the add has
  made, and if its own, older record says that the file did not exist, it does not stage that
  (`ops.go:123-133`). The file counts as clean without a
  snapshot until it changes or the daemon is restarted.
- A remove that cannot delete a snapshot stages it as it is (`ops.go:125`), a half-written one
  too, and the next commit takes it along. `git add` of one goroutine may also read a snapshot
  that another is writing. `NothingInvented` is therefore a property of the loop alone.

- A remove and an add of a file while a batch holds its record, and a `git add` that then refuses
  the batch: the snapshot that the batch has written by the old record stays uncommitted
  and the file is clean (`daemon.go:340`). `QuietCleanIsCommitted` exempts the files in `renewed`.

*Batches*

- A file whose deletion is committed, which exists and cannot be read at the recheck and is
  gone again at its next event, is marked deleted without a window: its record says already that
  it does not exist, and `reconcile` reports no transition (`daemon.go:205`). `hasPending` at
  the end of another batch gives it one; nothing else does. The same after a start that finds it
  unreadable. `PendingHasWindow` exempts deletions where files can be unreadable,
  `PendingIsTried` while no window is open.
- A text that `commit` gives back replaces one that was sent meanwhile (`daemon.go:408`). The
  runs have one text and do not show it.
- `SaveCount` counts changes of `Pending`, not of content (`daemon.go:201,213,221`), where
  model.go:52-53 speaks of saves.
- A `rev-parse` that fails has the message attached to two commits. A content that returns to
  the committed one makes the batch fail with "nothing to commit" each minute until
  something else changes; `ForcedCommit` fails for the same reason, and every restore with it.

*Restores and queries*

- A restore settles its records whatever has happened since: an edit whose event the loop
  handled in between is forgotten until the next change (`ops.go:438`); another way into `lost`.
- The restore of a deletion sets `Exists` and leaves `Pending` (`ops.go:457`); its event marks
  the file deleted without a window, and the next batch stages a path Git does not know:
  `PendingHasWindow` is false of `RestoreSpec` unless files are never deleted. With a second
  restore the same happens to a changed file: the record marked deleted without a window becomes
  a changed one, without a window, when the forced commit finds the file recreated.
- A restore beside a remove of the same file panics (`ops.go:432-438`).
- Restore looks the monitored files up again after the user has agreed: an add or remove
  meanwhile makes it restore other files than it showed (`cli.go:444-453`).
- The rename rows of `git show --numstat` name no file: a commit that moves a content from one
  path to another has neither in its preview nor in its restore (`history.go:130`).
- `History` of one file with a limit puts `-n` after `--`, where Git takes it for a path
  (`history.go:20-25`). `DiffBody` of the first commit fails, as it has no parent
  (`history.go:116`).

*Close*

- `Program.Stop`, of which the comment says that it shuts the daemon and the server down, closes
  only the server, and in the unit as installed nobody calls it (section 2).
- `Server.Close` waits for a connection that never sends anything: it is read without a deadline
  (`server.go:212`). `ClosingEnds` assumes that commands send at once.
- A timer that is set after `Close` stopped the one it saw keeps running; it finds
  `stopNotify` closed or queues a commit that nobody runs.
- The loop takes a closed channel of the watcher's errors for an error that is nil, again and
  again until it returns; a closed channel of events ends it (`daemon.go:116-122`).
- A second daemon removes the socket of the first and takes its calls over (`server.go:72`).

## 4. What is proved

For every set of files, contents, messages, connections and callers, every set of outcomes and
all bounds, from the assumptions that the modules state about their constants
(`DistinctValues`: absent, unreadable and contents are different things;
`OutcomesAssumption`, `BoundsAssumption`, `RequestsAssumption`, `RestoresAssumption`: what is
possible and that bounds are numbers; `CallersAssumption`: finitely many callers):

| theorem | module | property |
|---|---|---|
| `TypeCorrect` | `CmDaemonProofs` | `TypeOK` |
| `OneWindow` | `CmDaemonProofs` | `AtMostOneWindow` |
| `PendingWindow` | `CmDaemonProofs` | `PendingHasWindow` |
| `MissedChange` | `CmDaemonProofs` | `NoMissedChange` of `Spec` |
| `CleanSnapshots` | `CmDaemonProofs` | `SnapshotOfCleanIsCommitted` |
| `MessagesExplain` | `CmDaemonProofs` | `LinesExplainTree` |
| `BatchWindowImplemented` | `CmDaemonProofs` | `ImplementsBatchWindow` |
| `MessageOnce` | `MessageProofs` | `MessageAtMostOnce` of `Spec` |
| `CommitsAreTrue` | `ProvenanceProofs` | `NothingInvented` |
| `RequestsRegister` | `OperationsProofs` | `MonitoredAreRegistered` of `OpsSpec` |
| `OpsTypes`, `RequestsMissNothing` | `OperationsProofs` | `OpsTypeOK`, `NoMissedChange` of `OpsSpec` |
| `RequestsOneWindow`, `RequestsPendingWindow` | `OperationsProofs` | `AtMostOneWindow`, `PendingHasWindow` of `OpsSpec` |
| `QuietCommits` | `OperationsProofs` | `QuietCleanIsCommitted` |
| `RestoreTypes`, `RestoresMissNothing` | `RestoreProofs` | `RestoreTypeOK`, `NoMissedChange` of `RestoreSpec` |
| `RestoresOneWindow` | `RestoreProofs` | `AtMostOneWindow` of `RestoreSpec` |
| `RestoresAsAsked` | `RestoreProofs` | `RestoredAsAsked` |
| `RestoresMessageOnce` | `RestoreMessageProofs` | `MessageAtMostOnce` of `RestoreSpec` |
| `ForcedMessageAlone` | `RestoreMessageProofs` | what a forced commit has taken is nowhere else |
| `Registered` | `RestoreProofs` | `MonitoredAreRegistered` of `RestoreSpec` |
| `ProcessTypes` | `ProcessProofs` | `ProcessTypeOK` |
| `NothingServed` | `ProcessProofs` | `NothingServedAfterClose` |
| `DaemonClosedLast` | `ProcessProofs` | `RequestsMeetTheDaemon` |
| `ClosedForGood` | `ProcessProofs` | `NothingCommittedAfterClose` |

The argument is a chain of inductive invariants, each using the ones before:

1. `TypeOK` is inductive together with `RunningInv`: a timer that may be stopped runs. Its
   lemmas are one per group of variables.
2. `WindowInv` ties `timers`, `work`, `pc` and the two window variables together: a
   running timer is the one in `batchTimer`; an open window has exactly one of timer,
   queued commit and running batch; a closed one has none and a nil timer.
   `AtMostOneWindow` alone is not inductive: the error branch adds a timer
   whatever the variables say, which is harmless only because a batch is running. `RunningInv`
   is what is left of it when the daemon is closed, as `Close` forgets a fired timer.
3. `PendingInv` adds that a record that is not clean has a window also while a batch
   runs, and relates `exists` and `pending` of every record. It is needed since
   `startBatchLocked` is called only on a transition.
4. `SyncInv` says, at every location where the daemon serves and not only when it
   is idle, that a difference between file and record has an event. That a file without a watch
   gives none is covered by `lost`.
5. `CleanInv` follows the snapshot, the index and the newest commit through the steps of a
   batch: which of them may differ for which files at `snap`, `stage`, `take`, `commit`
   and `clear`, and that a file whose batch failed is still pending.
6. `LinesInv` adds that the lines of the running batch agree with the work tree, and that what is
   pending has been counted, so that no line is empty.
7. `MessageInv` (in `MessageProofs`) says where a text that was sent may be: in memory, in the
   file, taken by the loop, or in the history, and in which of them at the same time.
   `ForcedMessageInv` (in `RestoreMessageProofs`) says the same of the second committer: the text
   that a forced commit holds is `Free`, neither in the file nor about to be committed by the
   loop nor in the history, so that giving it back or committing it cannot double it.
   That a free text stays free is the lemma the proof turns on.
8. `ProvenanceInv` says what `NothingInvented` needs between commits: what is staged and not
   committed has stood at its path, and so have, while a batch is about to stage, the snapshots of
   that batch. All other snapshots may be half-written.
9. `OpsInv` and `RequestsInv`, `RestoreInv` repeat types and `SyncInv` for the composed
   specifications: the steps of `CmDaemon` keep them by the lemmas above, the steps of the
   requests are new. `RegisteredInv` relates each request under way to `monitored` and `links`, file
   by file: of a file that is not in `raced` at most one request is under way, so that none comes
   between the steps of another. It holds for any number of connections, and
   `RestoreProofs` shows that restores keep it. `PendingInv` holds with adds and removes as
   it stands: a record is replaced by a clean one.
10. `QuietInv` is `CleanInv` with the requests as further owners: what differs between index and
   newest commit is about to be committed by someone (`StagedInv`); what differs between work
   tree and index of a monitored file is about to be staged by a request or pending with the loop
   (`UnstagedInv`), or it is missing and the file is in `raced`: that no other remove deletes the
   snapshot of a monitored file is `RegisteredInv`. `BatchInv` keeps the loop's batch in step with
   the records while requests change them, and `RenewedInv` says that a batch holds a replaced
   record only of a file in `renewed`.
11. `AskedInv` follows a restore from file to file: what is written has the content asked for in
   file and snapshot, what is staged has it in the index, what is committed in the newest commit.
   The rest is that nobody else undoes it while `calm` is true: others may stage and
   commit, but what they stage of a selected file is the restored snapshot.
12. `ApiInv` counts: `wg` is the number of handlers, plus one for the accept loop. With it a closed
   server has neither. `DaemonInv` adds that a closing daemon has a closed or failed server, and
   that the loop has returned when `Close` has.

`BatchWindowImplemented` maps the initial state to the initial state and, with
`WindowInv`, each step to a step of `BatchWindow` or to a stutter. `up` is there whether there is
a process: only a kill of it may close a window that is neither committed nor opened again, and
nothing opens one before the restart. That a retry attaches the same message once more is
allowed by `BatchWindow`, which does not look into the commits.

Every safety property of the runs that pass is a theorem. Only model-checked are the liveness
properties (`PendingIsTried`, `Converges`, `CallsReturn`, `ClosingEnds`), as fairness is out of
the prover's reach, and the counterexamples of the runs that are expected to fail.

## 5. Not modelled

- `History`, `DiffStats` and `DiffBody`: they pass Git's text on and decide nothing. `status` and
  the other output of the command line, argument parsing, `config` (constant paths), and the
  installation and control of the service, which is a library's.
- The path mapping between files, registry names and snapshots: two paths are two members of
  `Files`. Registration of paths inside `.git`, or of `.gitignore`, which change what Git does.
- Two Git processes at once are calls that may fail, a fault, not a lock file; an
  `index.lock` that stays after a kill is not there.
- Watched directories that are removed, or that two files share. The watcher's channel of errors.
- The snapshot a restore writes while the loop is inside `commit`'s locked section (`Snap` is one
  step), and two restores at once: `ops.go:401` writes without `d.mu`.
- `Repository.Init`, which runs before the first state; `HasChanges`, `SnapshotExists` and
  `lastCommit`, which nobody reads; `InternallyChecks`, which only logs.

## 6. Plan

Done: all modules of section 2. What is left, most important first:

1. `Snap` in two steps, probe and write, with the restore's unlocked write in between.
2. An abstract specification of the whole history, "every commit is explained by a window or a
   request", implemented by `Restore`.
3. What of `NothingInvented` and `LinesExplainTree` is left with requests and restores, when no
   write fails.
4. Shared parent directories and their watches.
