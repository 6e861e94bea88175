----------------------------- MODULE Operations -----------------------------
(***************************************************************************)
(* cm add and cm remove beside the daemon's loop.  Every connection of the *)
(* API server has a goroutine of its own, which runs Daemon.Add or         *)
(* Daemon.Remove.  They take d.mu only for the monitored map: the registry,*)
(* the snapshots and the index are shared with the loop's commitBatch and  *)
(* with each other without a lock.  Two adds of one file may run at a time: *)
(* the second then overwrites the record of the first.  A batch or a       *)
(* Remove that holds the record which an add replaces keeps the old one.   *)
(***************************************************************************)
EXTENDS CmDaemon

CONSTANTS
  Clients,      \* the connections
  OwnPath,      \* the content that is the path of the file it stands in
  MaxRequests   \* bound: requests

ASSUME RequestsAssumption == OwnPath \in Contents /\ MaxRequests \in Nat

VARIABLES
  requests,     \* what each connection's goroutine is doing
  begun,        \* the requests so far
  \* Observations, since the daemon was started.
  raced,        \* the files of which two requests were under way at a time
  renewed       \* the files added while a batch held an older record of them

observations == <<raced, renewed>>
opsVars == <<vars, requests, begun, observations>>

\* at: the step that comes next; content: the local of Add; held: the record that
\* Remove points to, the one in the map or, after an add has replaced that, an
\* older one whose Exists was TRUE ("there") or FALSE ("gone").
NoRequest == [at |-> "none", file |-> Absent, content |-> Absent, held |-> "mapped"]

AddSteps == {"link", "snapshot", "monitor", "watch", "stage", "commit"}
RemoveSteps == {"unlink", "unsnap", "stage", "commit"}

Request ==
  [at : AddSteps \union RemoveSteps, file : Files, content : Contents \union {Absent},
   held : {"mapped", "there", "gone"}] \union {NoRequest}

OpsInit ==
  /\ Init
  /\ requests = [c \in Clients |-> NoRequest] /\ begun = 0
  /\ raced = {} /\ renewed = {}

\* The goroutine of c is at step, for file f.
At(c, step, f) == requests[c].at = step /\ requests[c].file = f

Begin(c, step, f) ==
  /\ Serving
  /\ requests[c] = NoRequest
  /\ begun < MaxRequests
  /\ begun' = begun + 1
  /\ requests' = [requests EXCEPT ![c] = [NoRequest EXCEPT !.at = step, !.file = f]]
  /\ raced' = IF \E d \in Clients : requests[d].file = f THEN raced \union {f} ELSE raced
  /\ UNCHANGED renewed

Goto(c, step) == requests' = [requests EXCEPT ![c].at = step]

\* The goroutine answers: whether with success or an error, nothing else is kept.
Return(c) == requests' = [requests EXCEPT ![c] = NoRequest]
-----------------------------------------------------------------------------
(* Add *)

\* The file is not monitored and os.Stat finds it.
AddBegins(c, f) ==
  /\ f \notin monitored
  /\ fs[f] # Absent
  /\ Begin(c, "link", f)
  /\ UNCHANGED vars

\* registry.Add makes the symlink.  When it exists already os.Symlink fails, and
\* os.WriteFile follows it: the path is written into the monitored file.
AddLinks(c, f) ==
  /\ At(c, "link", f)
  /\ Goto(c, "snapshot")
  /\ links' = links \union {f}
  /\ IF f \in links
     THEN fs' = [fs EXCEPT ![f] = OwnPath] /\ Noticed(f)
     ELSE UNCHANGED <<fs, events, lost>>
  /\ UNCHANGED <<edits, faults, crashes, sent, newest, watchVars, mp,
                 windowVars, messageVars, pc, batchVars, gitVars>>

\* Mutant of AddSnapshots: it does not ask whether the file is still there.
AddSnapshotsUnguarded(c, f) ==
  /\ At(c, "snapshot", f)
  /\ worktree' = [worktree EXCEPT ![f] = fs[f]]
  /\ requests' = [requests EXCEPT ![c].at = "monitor", ![c].content = fs[f]]
  /\ UNCHANGED <<outsideVars, events, watchVars, mp, windowVars, messageVars, pc,
                 batchVars, index, history>>

\* probe and WriteSnapshot.
AddSnapshots(c, f) ==
  /\ At(c, "snapshot", f)
  /\ fs[f] \in Contents
  /\ worktree' = [worktree EXCEPT ![f] = fs[f]]
  /\ requests' = [requests EXCEPT ![c].at = "monitor", ![c].content = fs[f]]
  /\ UNCHANGED <<outsideVars, events, watchVars, mp, windowVars, messageVars, pc,
                 batchVars, index, history>>

\* The goroutine of c is a Remove that will look at the record of f in the map.
Holds(c, f) ==
  (At(c, "unlink", f) \/ At(c, "unsnap", f)) /\ requests[c].held = "mapped"

\* Exists of the record of f, once it is no longer in the map.  A batch that still
\* holds it finds a deleted file that is back, or it does not.
ExistsOutside(f) ==
  IF mp[f].exists THEN {"there"}
  ELSE IF mp[f].pending = "deleted" THEN {"there", "gone"} ELSE {"gone"}

\* A batch of the records of F, which has still to look at them, holds the one of f
\* that is in the map.
InBatch(f, F, old) == f \in F /\ old[f] = NoLine /\ mp[f].pending # "clean"

\* The record starts from the content probed earlier, current or not.  It replaces
\* the record in the map, and a Remove under way or a batch keeps the old one.
AddMonitors(c, f) ==
  /\ At(c, "monitor", f)
  /\ \E exists \in ExistsOutside(f) :
       requests' =
         [d \in Clients |->
            IF d = c THEN [requests[d] EXCEPT !.at = "watch"]
            ELSE IF Holds(d, f) THEN [requests[d] EXCEPT !.held = exists] ELSE requests[d]]
  /\ monitored' = monitored \union {f}
  /\ mp' = [mp EXCEPT ![f] = FromSnapshot(requests[c].content)]
  /\ lost' = IF requests[c].content = fs[f] THEN lost \ {f} ELSE lost \union {f}
  /\ IF pc = "snap" /\ InBatch(f, batch, detached)
     THEN detached' = [detached EXCEPT ![f] = mp[f].saves] /\ renewed' = renewed \union {f}
     ELSE UNCHANGED <<detached, renewed>>
  /\ UNCHANGED <<fs, links, edits, faults, crashes, sent, newest, events, watched,
                 windowVars, messageVars, pc, batch, lines, taken, gitVars>>

\* The error of the watch is not looked at.
AddWatches(c, f) ==
  /\ At(c, "watch", f)
  /\ Goto(c, "stage")
  /\ \/ watched' = watched \union {f} /\ NoFault
     \/ UNCHANGED watched /\ Fault
  /\ UNCHANGED <<fs, links, edits, crashes, sent, newest, lost, events, monitored, mp,
                 windowVars, messageVars, pc, batchVars, gitVars>>
-----------------------------------------------------------------------------
(* Remove *)

\* Mutant of RemoveBegins: the record stays in the map.
RemoveBeginsMonitored(c, f) ==
  /\ f \in monitored
  /\ UNCHANGED monitored
  /\ Begin(c, "unlink", f)
  /\ UNCHANGED <<outsideVars, events, watched, mp, windowVars, messageVars, pc,
                 batchVars, gitVars>>

\* The record leaves the map; the watch of the file goes and that of its
\* directory stays.
RemoveBegins(c, f) ==
  /\ f \in monitored
  /\ monitored' = monitored \ {f}
  /\ Begin(c, "unlink", f)
  /\ UNCHANGED <<outsideVars, events, watched, mp, windowVars, messageVars, pc,
                 batchVars, gitVars>>

RemoveUnlinks(c, f) ==
  /\ At(c, "unlink", f)
  /\ Goto(c, "unsnap")
  /\ links' = links \ {f}
  /\ UNCHANGED <<fs, edits, faults, crashes, sent, newest, lost, events, watchVars,
                 mp, windowVars, messageVars, pc, batchVars, gitVars>>

\* Exists of the record that the Remove of c took from the map.
Existed(c, f) == IF Holds(c, f) THEN mp[f].exists ELSE requests[c].held = "there"

\* The snapshot goes.  If the file did not exist at the last probe, that is all.
RemoveUnsnaps(c, f) ==
  /\ At(c, "unsnap", f)
  /\ worktree' = [worktree EXCEPT ![f] = Absent]
  /\ IF Existed(c, f) THEN Goto(c, "stage") ELSE Return(c)
  /\ UNCHANGED <<outsideVars, events, watchVars, mp, windowVars, messageVars, pc,
                 batchVars, index, history>>

\* The snapshot cannot be removed: it is staged as it is, unless git add fails as
\* well, and the call fails.
RemoveUnsnapFails(c, f) ==
  /\ At(c, "unsnap", f)
  /\ Fault
  /\ Return(c)
  /\ (Existed(c, f) /\ Stage({f})) \/ UNCHANGED gitVars
  /\ UNCHANGED <<fs, links, edits, crashes, sent, newest, lost, events, watchVars,
                 mp, windowVars, messageVars, pc, batchVars>>
-----------------------------------------------------------------------------
(* Both *)

RequestStages(c, f) ==
  /\ At(c, "stage", f)
  /\ Stage({f})
  /\ Goto(c, "commit")
  /\ UNCHANGED <<outsideVars, events, watchVars, mp, windowVars, messageVars, pc,
                 batchVars>>

\* Mutant of RequestCommits: the commit is left to the next batch.
RequestLeavesCommit(c, f) ==
  /\ At(c, "commit", f)
  /\ Return(c)
  /\ UNCHANGED vars

\* The commit takes the whole index, what others have staged included.  Its message
\* is generated.  A rev-parse that fails afterwards changes only the answer.
RequestCommits(c, f) ==
  /\ At(c, "commit", f)
  /\ CommitIndex(NoLines, NoMessage)
  /\ Return(c)
  /\ UNCHANGED <<outsideVars, events, watchVars, mp, windowVars, messageVars, pc,
                 batchVars>>

\* The call returns an error where it stands and takes nothing back.
RequestFails(c, f) ==
  /\ \/ /\ \/ At(c, "snapshot", f) /\ fs[f] \notin Contents /\ NoFault
           \/ At(c, "stage", f) /\ ~Stageable({f}) /\ NoFault
           \/ At(c, "commit", f) /\ ~SomethingStaged /\ NoFault
           \/ \E step \in {"link", "unlink", "stage", "commit"} : At(c, step, f) /\ Fault
        /\ UNCHANGED worktree
     \/ At(c, "snapshot", f) /\ fs[f] \in Contents /\ SnapshotFails(f, fs[f])
  /\ Return(c)
  /\ UNCHANGED <<fs, links, edits, crashes, sent, newest, lost, events, watchVars,
                 mp, windowVars, messageVars, pc, batchVars, index, history>>

RequestStep(c) ==
  \E f \in Files :
    \/ AddMonitors(c, f)
    \/ /\ \/ AddLinks(c, f) \/ AddSnapshots(c, f) \/ AddWatches(c, f)
          \/ RemoveUnlinks(c, f) \/ RemoveUnsnaps(c, f) \/ RemoveUnsnapFails(c, f)
          \/ RequestStages(c, f) \/ RequestCommits(c, f) \/ RequestFails(c, f)
       /\ UNCHANGED renewed

\* What the adds are writing.
AddedSnapshots == Readable({f \in Files : \E c \in Clients : At(c, "snapshot", f)})

\* The goroutines go with the process.
KilledServing(F, probe) ==
  /\ KilledWriting(BatchSnapshots \union AddedSnapshots \union F, probe)
  /\ requests' = [c \in Clients |-> NoRequest]
  /\ raced' = {} /\ renewed' = {}
  /\ UNCHANGED begun

Killed == KilledServing({}, fs)

OpsRunning ==
  \/ Running /\ UNCHANGED <<requests, begun, observations>>
  \/ \E c \in Clients, f \in Files : AddBegins(c, f) \/ RemoveBegins(c, f)
  \/ \E c \in Clients : RequestStep(c) /\ UNCHANGED <<begun, raced>>

OpsNext == OpsRunning \/ Killed

OpsSpec == OpsInit /\ [][OpsNext]_opsVars

-----------------------------------------------------------------------------
(* Properties *)

Quiet == pc = "idle" /\ \A c \in Clients : requests[c] = NoRequest

\* The daemon and the requests stay within their domains, and a request that is
\* about to record a file holds a content, never the outcome of a failed probe.
OpsTypeOK ==
  /\ TypeOK
  /\ requests \in [Clients -> Request]
  /\ begun \in 0 .. MaxRequests
  /\ raced \subseteq Files /\ renewed \subseteq Files
  /\ \A c \in Clients : requests[c].at = "monitor" => requests[c].content \in Contents

\* Adds, removes and batches share one index without a lock.  Nevertheless, when
\* all of them have ended and no fault was injected, everything staged is committed,
\* whoever committed it, and the snapshot of a clean file is the committed one, with
\* two exceptions.  It may be missing when two requests for the file overlapped: a
\* Remove that keeps an old record deletes the snapshot that an add has made.  It may
\* be written and not committed when the file was removed and added again while a
\* batch held the old record, and git add then refused the batch.
QuietCleanIsCommitted ==
  Quiet /\ crashes = 0 /\ faults = 0 =>
    /\ index = HeadTree
    /\ \A f \in monitored \ renewed :
         mp[f].pending = "clean" =>
           worktree[f] = HeadTree[f] \/ (worktree[f] = Absent /\ f \in raced)

\* A monitored file is registered, so that it stays monitored after a restart, wherever
\* an add or a remove failed and wherever the daemon was killed, whatever batches and
\* restores run beside them: unless two requests for the file overlapped, when a Remove
\* may unlink what an add has linked.
MonitoredAreRegistered == monitored \subseteq links \union raced
-----------------------------------------------------------------------------
(* What the documentation says and the code does not do *)

\* registry.go, "If the platform cannot create symlinks, a marker file is written
\* instead": a marker file belongs to the registry, so that no step of the daemon
\* writes the monitored file; the contents are changed by edits alone.
AddKeepsTheFile == [][fs' # fs => edits' > edits]_opsVars

\* ops.go, "drop registry entry, remove its snapshot, and commit the deletion":
\* without failures and kills, a file that is not registered has no snapshot once
\* the daemon is quiet.
RemovedHasNoSnapshot ==
  Quiet /\ crashes = 0 /\ faults = 0 => \A f \in Files \ links : worktree[f] = Absent
=============================================================================
