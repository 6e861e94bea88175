------------------------------ MODULE CmDaemon ------------------------------
(***************************************************************************)
(* The cm daemon: users edit the monitored files, the watcher queues an    *)
(* event for every edit, and one goroutine, the loop, handles the events   *)
(* and commits a batch when the window timer has fired.  The process may   *)
(* be killed between any two steps and started again.  The requests that   *)
(* run on other goroutines are not here, but for cm message.               *)
(***************************************************************************)
EXTENDS Repository, FiniteSets

CONSTANTS
  Unreadable,   \* a path that exists and cannot be read
  Outcomes,     \* what an edit may leave at a path
  MaxEdits,     \* bound: edits of the monitored files
  MaxFaults,    \* bound: failed writes, git calls and watches, dropped events
  MaxCrashes    \* bound: kills of the daemon

ASSUME DistinctValues ==
  /\ Absent \notin Contents
  /\ Unreadable \notin Contents \union {Absent}
  /\ NoMessage \notin Messages

ASSUME OutcomesAssumption == Outcomes \subseteq Contents \union {Absent, Unreadable}

ASSUME BoundsAssumption == MaxEdits \in Nat /\ MaxFaults \in Nat /\ MaxCrashes \in Nat

VARIABLES
  \* Outside the daemon.
  fs,           \* the monitored files themselves
  links,        \* the files registered under links/
  edits, faults, crashes,
  sent,         \* the texts given to cm message so far
  newest,       \* the last of them
  lost,         \* the files with a change that no event told the daemon of
                \* since it last looked at them
  \* The daemon's memory.
  watched,      \* the files whose directory the watcher watches
  events,       \* the files with a watcher event that the loop has not taken
  monitored,    \* the keys of d.monitored
  mp,           \* its records
  batchActive,
  batchTimer,   \* d.batchTimer: nil, running, or fired
  timers,       \* the running timers
  work,         \* the commits queued in d.work
  message, messageFile,
  \* Where the loop is, and the locals of commitBatch and commit.
  pc, batch, lines, taken,
  detached      \* the SaveCount of the records that the batch holds and that an
                \* add has replaced in the map since (module Operations)

INSTANCE MonitoredPath
INSTANCE PendingMessage

outsideVars == <<fs, links, edits, faults, crashes, sent, newest, lost>>
watchVars == <<watched, monitored>>
windowVars == <<batchActive, batchTimer, timers, work>>
messageVars == <<message, messageFile>>
batchVars == <<batch, lines, taken, detached>>
vars == <<fs, links, edits, faults, crashes, sent, newest, lost, watched,
          events, monitored, mp, batchActive, batchTimer, timers, work, message,
          messageFile, pc, batch, lines, taken, detached, worktree, index, history>>

(***************************************************************************)
(* "down" no process, "scan" in Start, "idle" in the select of loop(), the *)
(* others inside commitBatch, named for the step that comes next.          *)
(***************************************************************************)
Committing == {"snap", "stage", "take", "reread", "commit", "clear"}
Locations == {"down", "scan", "idle", "recheck"} \union Committing
Serving == pc \notin {"down", "scan"}

Pending == {f \in monitored : mp[f].pending # "clean"}

FromTree(tree) == [f \in Files |-> FromSnapshot(tree[f])]

(***************************************************************************)
(* The program starts with its memory in step with the files, as after the *)
(* cm add of the last registered file; history holds the newest commit.    *)
(***************************************************************************)
Init ==
  /\ links \in SUBSET Files \ {{}}
  /\ fs \in [Files -> Contents]
  /\ worktree = [f \in Files |-> IF f \in links THEN fs[f] ELSE Absent]
  /\ index = worktree
  /\ history = <<[tree |-> index, lines |-> NoLines, message |-> NoMessage]>>
  /\ monitored = links
  /\ mp = FromTree(worktree)
  /\ watched = links /\ events = {} /\ lost = {}
  /\ edits = 0 /\ faults = 0 /\ crashes = 0
  /\ sent = {} /\ newest = NoMessage
  /\ message = NoMessage /\ messageFile = NoMessage
  /\ batchActive = FALSE /\ batchTimer = "nil" /\ timers = 0 /\ work = 0
  /\ pc = "idle" /\ batch = {} /\ lines = NoLines /\ taken = NoMessage /\ detached = NoLines
-----------------------------------------------------------------------------
(* The surroundings *)

Fault == faults < MaxFaults /\ faults' = faults + 1
NoFault == UNCHANGED faults

\* The watcher sees a write when it watches the directory of the file, which is
\* the file's own here.
Noticed(f) ==
  IF f \in watched
  THEN events' = events \union {f} /\ UNCHANGED lost
  ELSE lost' = lost \union {f} /\ UNCHANGED events

\* A program saves, removes, recreates or touches a file; inotify may drop the event.
Edit(f, s) ==
  /\ edits < MaxEdits
  /\ edits' = edits + 1
  /\ fs' = [fs EXCEPT ![f] = s]
  /\ \/ Noticed(f) /\ NoFault
     \/ /\ f \in watched
        /\ Fault
        /\ lost' = lost \union {f}
        /\ UNCHANGED events
  /\ UNCHANGED <<links, crashes, sent, newest, watchVars, mp,
                 windowVars, messageVars, pc, batchVars, gitVars>>

\* cm message, on the goroutine of its connection.
UserMessage(text) ==
  /\ Serving
  /\ text \notin sent
  /\ sent' = sent \union {text}
  /\ newest' = text
  /\ \/ SetMessage(text) /\ NoFault
     \/ SetMessageFails(text) /\ Fault
  /\ UNCHANGED <<fs, links, edits, crashes, lost, events, watchVars, mp,
                 windowVars, pc, batchVars, gitVars>>
-----------------------------------------------------------------------------
(* The batch window *)

\* Mutant of StartBatch: it does not look for a window that is open.
StartBatchAnyway ==
  /\ batchActive' = TRUE
  /\ batchTimer' = "running"
  /\ timers' = timers + 1
  /\ UNCHANGED work

\* startBatchLocked: nothing happens when a window is open or a timer is set.
StartBatch ==
  IF batchActive \/ batchTimer # "nil"
  THEN UNCHANGED windowVars
  ELSE /\ batchActive' = TRUE
       /\ batchTimer' = "running"
       /\ timers' = timers + 1
       /\ UNCHANGED work

\* Mutants of ResetBatch: a timer that fired counts as stopped; d.batchTimer
\* keeps the fired timer.
ResetBatchStopsFired ==
  /\ batchActive' = FALSE
  /\ batchTimer' = "nil"
  /\ timers' = timers - 1

ResetBatchKeepsTimer ==
  /\ batchActive' = FALSE
  /\ UNCHANGED batchTimer
  /\ timers' = IF batchTimer = "running" THEN timers - 1 ELSE timers

\* resetBatch, for which Stop matters only while the timer runs.
ResetBatch ==
  /\ batchActive' = FALSE
  /\ batchTimer' = "nil"
  /\ timers' = IF batchTimer = "running" THEN timers - 1 ELSE timers

\* commitBatch returns to the select after an error.
LeaveBatch ==
  /\ pc' = "idle"
  /\ batch' = {} /\ lines' = NoLines /\ taken' = NoMessage /\ detached' = NoLines

\* Mutant of RetryLater: no new timer.
RetryNever == LeaveBatch /\ UNCHANGED windowVars

\* The error branch of commitBatch, which sets a new timer and keeps the rest.
RetryLater ==
  /\ LeaveBatch
  /\ batchTimer' = "running"
  /\ timers' = timers + 1
  /\ UNCHANGED <<batchActive, work>>

\* Mutant of TimerFires: a ticker, which goes on after it fired.
TickerFires ==
  /\ timers > 0
  /\ UNCHANGED timers
  /\ work' = work + 1
  /\ batchTimer' = IF batchTimer = "running" THEN "fired" ELSE batchTimer
  /\ UNCHANGED <<outsideVars, events, watchVars, mp, batchActive, messageVars,
                 pc, batchVars, gitVars>>

\* The function of time.AfterFunc queues the commit for the loop.
TimerFires ==
  /\ timers > 0
  /\ timers' = timers - 1
  /\ work' = work + 1
  /\ batchTimer' = IF batchTimer = "running" THEN "fired" ELSE batchTimer
  /\ UNCHANGED <<outsideVars, events, watchVars, mp, batchActive, messageVars,
                 pc, batchVars, gitVars>>
-----------------------------------------------------------------------------
(* The loop *)

\* handleFileEvent.  Queued events of one file are one member of events: each
\* of them has the file read again.  The event of any other file is thrown away.
HandleFileEvent(f) ==
  /\ pc = "idle"
  /\ f \in events
  /\ events' = events \ {f}
  /\ IF f \in monitored
     THEN /\ mp' = [mp EXCEPT ![f] = Reconcile(@, fs[f])]
          /\ IF Transition(mp[f], fs[f]) THEN StartBatch ELSE UNCHANGED windowVars
          /\ lost' = lost \ {f}
     ELSE lost' = lost \union {f} /\ UNCHANGED <<mp, windowVars>>
  /\ UNCHANGED <<fs, links, edits, faults, crashes, sent, newest, watchVars,
                 messageVars, pc, batchVars, gitVars>>

\* commitBatch runs collectPending.
BeginBatch ==
  /\ pc = "idle"
  /\ work > 0
  /\ work' = work - 1
  /\ IF Pending = {}
     THEN ResetBatch /\ UNCHANGED <<pc, batch>>
     ELSE /\ pc' = "snap"
          /\ batch' = Pending
          /\ UNCHANGED <<batchActive, batchTimer, timers>>
  /\ UNCHANGED <<outsideVars, events, watchVars, mp, messageVars, lines, taken, detached,
                 gitVars>>

\* A commit that holds the records of the files of F, of which those of old are no
\* longer in the map, passes over a record that has become clean.
StillPendingIn(F, old) == {f \in F : old[f] # NoLine \/ mp[f].pending # "clean"}

\* The records of the files of done once their snapshots are written; what is
\* written to a record of old is seen by nobody.
Recorded(done, old) ==
  [f \in Files |-> IF f \in done /\ old[f] = NoLine THEN Snapped(mp[f], fs[f]) ELSE mp[f]]

\* The snapshots and records of the files of done, all of them readable.
WriteSnapshots(done, old) ==
  /\ worktree' = Snapshots(done, fs)
  /\ mp' = Recorded(done, old)
  /\ UNCHANGED <<index, history>>

\* os.WriteFile truncates the snapshot of f and writes s in parts; os.Remove does not.
HalfWritten(f, s) == {worktree[f]} \union (IF s = Absent THEN {} ELSE Contents)

\* The snapshot of f cannot be made s; another goroutine than the loop writes it.
SnapshotFails(f, s) ==
  /\ Fault
  /\ \E part \in HalfWritten(f, s) : worktree' = [worktree EXCEPT ![f] = part]

Readable(F) == {f \in F : fs[f] # Unreadable}

Saves(f, old) == IF old[f] = NoLine THEN mp[f].saves ELSE old[f]

\* Mutant of LineOf: the line is for the state that was pending.
LineOfPending(f, old) ==
  IF mp[f].pending = "deleted" THEN DeletedLine ELSE Saves(f, old)

LineOf(f, old) == IF fs[f] = Absent THEN DeletedLine ELSE Saves(f, old)

LinesOf(F, old) == [f \in Files |-> IF f \in F THEN LineOf(f, old) ELSE NoLine]

StillPending == StillPendingIn(batch, detached)

\* commit under d.mu: every file is probed and its snapshot written or removed.
Snap ==
  /\ pc = "snap"
  /\ Readable(StillPending) = StillPending
  /\ WriteSnapshots(StillPending, detached)
  /\ lines' = LinesOf(StillPending, detached)
  /\ batch' = StillPending
  /\ detached' = NoLines
  /\ pc' = "stage"
  /\ UNCHANGED <<outsideVars, events, watchVars, windowVars, messageVars, taken>>

\* One file of F cannot be read, or its snapshot not be written or removed; the
\* files before it in the order of their names have been dealt with.
SnapshotsFail(F, old) ==
  \E bad \in F, done \in SUBSET Readable(F), s \in Snapshot :
    /\ bad \notin done
    /\ IF fs[bad] = Unreadable THEN s = worktree[bad] /\ NoFault
                               ELSE s \in HalfWritten(bad, fs[bad]) /\ Fault
    /\ worktree' = [Snapshots(done, fs) EXCEPT ![bad] = s]
    /\ mp' = Recorded(done, old)
    /\ UNCHANGED <<index, history>>

SnapError ==
  /\ pc = "snap"
  /\ SnapshotsFail(StillPending, detached)
  /\ UNCHANGED <<fs, links, edits, crashes, sent, newest, lost, events,
                 watchVars, messageVars>>

\* Mutant of SnapFails: its error does not end the batch, which goes on to git add.
SnapErrorIgnored == SnapError /\ pc' = "stage" /\ UNCHANGED <<windowVars, batchVars>>

SnapFails == SnapError /\ RetryLater

StageBatch ==
  /\ pc = "stage"
  /\ Stage(batch)
  /\ pc' = "take"
  /\ UNCHANGED <<outsideVars, events, watchVars, mp, windowVars, messageVars,
                 batchVars>>

\* Mutant of StageFails: its error does not end the batch.
StageErrorIgnored ==
  /\ pc = "stage"
  /\ \/ ~Stageable(batch) /\ NoFault
     \/ Stageable(batch) /\ Fault
  /\ pc' = "clear"
  /\ UNCHANGED <<fs, links, edits, crashes, sent, newest, lost, events,
                 watchVars, mp, windowVars, messageVars, batchVars, gitVars>>

StageError ==
  /\ pc = "stage"
  /\ \/ ~Stageable(batch) /\ NoFault
     \/ Stageable(batch) /\ Fault
  /\ UNCHANGED <<fs, links, edits, crashes, sent, newest, lost, events,
                 watchVars, mp, messageVars, gitVars>>

StageFails == StageError /\ RetryLater

Take ==
  /\ pc = "take"
  /\ \/ TakeAndClear /\ taken' = message /\ pc' = "commit" /\ NoFault
     \/ TakeAndClearFails /\ UNCHANGED taken /\ pc' = "reread" /\ Fault
  /\ UNCHANGED <<fs, links, edits, crashes, sent, newest, lost, events,
                 watchVars, mp, windowVars, batch, lines, detached, gitVars>>

\* After a failed TakeAndClear commit asks for the message again.
Reread ==
  /\ pc = "reread"
  /\ taken' = message
  /\ pc' = "commit"
  /\ UNCHANGED <<outsideVars, events, watchVars, mp, windowVars, messageVars,
                 batch, lines, detached, gitVars>>

\* git refuses an empty message as well.
Committable == SomethingStaged /\ (lines # NoLines \/ taken # NoMessage)

CommitBatch ==
  /\ pc = "commit"
  /\ Committable
  /\ CommitIndex(lines, taken)
  /\ pc' = "clear"
  /\ UNCHANGED <<outsideVars, events, watchVars, mp, windowVars, messageVars,
                 batchVars>>

\* The error branch after Commit gives the text back.
PutBack(text) == IF text = NoMessage THEN UNCHANGED messageVars ELSE SetMessage(text)

\* Commit returns an error: git refused, git failed, or git committed and the
\* rev-parse after it failed.
CommitError ==
  /\ pc = "commit"
  /\ \/ ~Committable /\ NoFault /\ UNCHANGED gitVars
     \/ Committable /\ Fault /\ (UNCHANGED gitVars \/ CommitIndex(lines, taken))
  /\ PutBack(taken)
  /\ UNCHANGED <<fs, links, edits, crashes, sent, newest, lost, events,
                 watchVars, mp>>

CommitFails == CommitError /\ RetryLater

\* clearPending and resetBatch, which together touch nothing but the loop's.
ClearBatch ==
  /\ pc = "clear"
  /\ mp' = [f \in Files |-> IF f \in monitored THEN Cleared(mp[f]) ELSE mp[f]]
  /\ ResetBatch
  /\ pc' = "recheck"
  /\ batch' = {} /\ lines' = NoLines /\ taken' = NoMessage
  /\ UNCHANGED <<outsideVars, events, watchVars, work, messageVars, detached, gitVars>>

\* Mutant of ReconcileAll: no file is probed.
ReconcileNone ==
  /\ lost' = lost \ monitored
  /\ pc' = "idle"
  /\ UNCHANGED <<fs, links, edits, faults, crashes, sent, newest, events,
                 watchVars, mp, windowVars, messageVars, batchVars, gitVars>>

\* reconcileAll, and a new window if it leaves anything pending.
ReconcileAll ==
  /\ mp' = [f \in Files |-> IF f \in monitored THEN Reconcile(mp[f], fs[f]) ELSE mp[f]]
  /\ IF \E f \in monitored : mp'[f].pending # "clean"
     THEN StartBatch ELSE UNCHANGED windowVars
  /\ lost' = lost \ monitored
  /\ pc' = "idle"
  /\ UNCHANGED <<fs, links, edits, faults, crashes, sent, newest, events,
                 watchVars, messageVars, batchVars, gitVars>>

Recheck == pc = "recheck" /\ ReconcileAll
-----------------------------------------------------------------------------
(* The process *)

\* What a write of s that may have ended leaves as the snapshot of f.
MayHold(f, s) == {s} \union HalfWritten(f, s)

\* The process is killed while the snapshots of the files of F are being written
\* from what probe found: service stop, power loss.  No code runs on the way.
KilledWriting(F, probe) ==
  /\ pc # "down"
  /\ crashes < MaxCrashes
  /\ crashes' = crashes + 1
  /\ pc' = "down"
  /\ events' = {} /\ lost' = {}
  /\ watched' = {} /\ monitored' = {}
  /\ mp' = FromTree([f \in Files |-> Absent])
  /\ batchActive' = FALSE /\ batchTimer' = "nil" /\ timers' = 0 /\ work' = 0
  /\ message' = NoMessage
  /\ batch' = {} /\ lines' = NoLines /\ taken' = NoMessage /\ detached' = NoLines
  /\ \E s \in [F -> Snapshot] :
       /\ \A f \in F : s[f] \in MayHold(f, probe[f])
       /\ worktree' = Snapshots(F, s)
  /\ UNCHANGED <<fs, links, edits, faults, sent, newest, messageFile, index, history>>

\* What the loop is writing.
BatchSnapshots == IF pc = "snap" THEN Readable(StillPending) ELSE {}

Crash == KilledWriting(BatchSnapshots, fs)

\* The records that loadRegistry makes when it can read the snapshots of known.
Loaded(known) ==
  [f \in Files |-> FromSnapshot(IF f \in known THEN worktree[f] ELSE Absent)]

\* New loads the message; loadRegistry reads the snapshots and sets the watches.  A
\* watch that fails is not looked at, and a snapshot that cannot be read counts as
\* one that is not there.
Start ==
  /\ pc = "down"
  /\ Load
  /\ monitored' = links
  /\ \/ watched' = links /\ mp' = Loaded(links) /\ NoFault
     \/ \E f \in links :
          /\ \/ watched' = links \ {f} /\ mp' = Loaded(links)
             \/ worktree[f] # Absent /\ watched' = links /\ mp' = Loaded(links \ {f})
          /\ Fault
  /\ pc' = "scan"
  /\ UNCHANGED <<fs, links, edits, crashes, sent, newest, lost, events, windowVars,
                 batchVars, gitVars>>

\* The rest of loadRegistry; then the loop and the server start.
FinishStart == pc = "scan" /\ ReconcileAll
-----------------------------------------------------------------------------
Loop ==
  \/ \E f \in Files : HandleFileEvent(f)
  \/ BeginBatch \/ Snap \/ SnapFails \/ StageBatch \/ StageFails
  \/ Take \/ Reread \/ CommitBatch \/ CommitFails \/ ClearBatch \/ Recheck

\* Everything but a kill.
Running ==
  \/ \E f \in Files, s \in Outcomes : Edit(f, s)
  \/ \E text \in Messages : UserMessage(text)
  \/ TimerFires
  \/ Loop
  \/ Start \/ FinishStart

Next == Running \/ Crash

Spec == Init /\ [][Next]_vars

(***************************************************************************)
(* The timer fires, and the loop goes on.  Go's select chooses among its   *)
(* ready cases at random, so an event that is ready again and again is     *)
(* taken in the end even when the commit queue is ready as well: strong    *)
(* fairness.  Users, faults, kills and restarts owe nothing.               *)
(***************************************************************************)
Fairness ==
  /\ WF_vars(TimerFires)
  /\ WF_vars(BeginBatch)
  /\ WF_vars(Snap \/ SnapFails)
  /\ WF_vars(StageBatch \/ StageFails)
  /\ WF_vars(Take) /\ WF_vars(Reread)
  /\ WF_vars(CommitBatch \/ CommitFails)
  /\ WF_vars(ClearBatch) /\ WF_vars(Recheck) /\ WF_vars(FinishStart)
  /\ \A f \in Files : SF_vars(HandleFileEvent(f))

FairSpec == Spec /\ Fairness
-----------------------------------------------------------------------------
(* Safety *)

OutsideTypeOK ==
  /\ fs \in [Files -> Found]
  /\ links \subseteq Files
  /\ edits \in 0 .. MaxEdits /\ faults \in 0 .. MaxFaults /\ crashes \in 0 .. MaxCrashes
  /\ sent \subseteq Messages /\ newest \in Messages \union {NoMessage}
  /\ lost \subseteq Files

MonitorTypeOK ==
  /\ watched \subseteq Files /\ events \subseteq Files
  /\ monitored \subseteq Files
  /\ mp \in [Files -> Record]

WindowTypeOK ==
  /\ batchActive \in BOOLEAN
  /\ batchTimer \in {"nil", "running", "fired"}
  /\ timers \in Nat /\ work \in Nat

BatchTypeOK ==
  /\ pc \in Locations
  /\ batch \subseteq Files
  /\ lines \in Lines /\ detached \in Lines
  /\ taken \in Messages \union {NoMessage}

\* Every variable stays within its domain.
TypeOK ==
  /\ RepositoryTypeOK /\ MessageTypeOK /\ OutsideTypeOK
  /\ MonitorTypeOK /\ WindowTypeOK /\ BatchTypeOK

\* At any time there is at most one running timer, queued commit or commit in
\* progress: startBatchLocked and the retry never arm a second timer.
AtMostOneWindow == timers + work + (IF pc \in Committing THEN 1 ELSE 0) <= 1

\* While the loop waits for events, a changed file has a timer or a queued
\* commit ahead of it, so that its change is not forgotten.  A deleted file has
\* one too, unless a file can be unreadable when it is looked at.
PendingHasWindow ==
  pc = "idle" =>
    \A f \in monitored :
      \/ mp[f].pending = "changed"
      \/ mp[f].pending = "deleted" /\ Unreadable \notin Outcomes
      => batchActive /\ timers + work = 1

\* While the loop waits, a monitored file that differs from the daemon's record
\* of it has an event queued, unless the watcher could not or did not report it.
NoMissedChange ==
  pc = "idle" =>
    \A f \in monitored \ lost : Transition(mp[f], fs[f]) => f \in events

\* Without a restart, the snapshot of a clean file is the committed one: it is
\* neither half-way through a batch nor left over from a batch that failed.
SnapshotOfCleanIsCommitted ==
  pc = "idle" /\ crashes = 0 =>
    \A f \in monitored :
      mp[f].pending = "clean" => worktree[f] = HeadTree[f] /\ index[f] = HeadTree[f]

\* Without a restart, the message of a batch commit explains its tree, also
\* after failed attempts: a path that changed has a line, and a line says
\* "deleted" exactly when the path is gone.
LinesExplainTree ==
  crashes = 0 =>
    \A i \in 2 .. Len(history) : \A f \in Files :
      LET line == history[i].lines[f] IN
      /\ history[i].tree[f] # history[i - 1].tree[f] => line # NoLine
      /\ line # NoLine => (line = DeletedLine <=> history[i].tree[f] = Absent)

\* Without failed writes, a text given to cm message is in one place only, so
\* that it goes into one commit, whatever kills and failing commits come along.
MessageAtMostOnce ==
  faults = 0 =>
    \A text \in Messages :
      LET Uses == {i \in 1 .. Len(history) : history[i].message = text}
          Held == {p \in {"message", "taken"} :
                     \/ p = "message" /\ message = text
                     \/ p = "taken" /\ taken = text /\ pc # "clear"}
      IN  Cardinality(Uses) + Cardinality(Held) <= 1
-----------------------------------------------------------------------------
(* The batching implements BatchWindow. *)

Phase ==
  CASE pc \in Committing \ {"clear"} -> "committing"
    [] pc = "clear" -> "recorded"
    [] OTHER -> IF work > 0 THEN "due" ELSE IF timers > 0 THEN "open" ELSE "closed"

Window == INSTANCE BatchWindow WITH phase <- Phase, log <- history, up <- pc # "down"

\* Windows follow each other and every commit belongs to one of them.
ImplementsBatchWindow == Window!Spec
-----------------------------------------------------------------------------
(* Liveness *)

\* A file pending for a change gets into a batch, again and again if the batches
\* keep failing, after a restart as well, unless the process is killed; so does one
\* pending for its deletion while a window is open.  Not every deletion has one, by
\* PendingHasWindow: when a record says that its file does not exist, the file is
\* unreadable at the recheck or at the start, and then it is gone again, it is
\* pending and waits until a window opens for another reason.
PendingIsTried ==
  \A f \in Files :
    f \in monitored /\ (\/ mp[f].pending = "changed"
                        \/ mp[f].pending = "deleted" /\ batchActive)
      ~> f \in batch \/ pc = "down"

\* Edits and faults being bounded, they end.  If the process is not killed, no edit
\* removes a file, every change has an event and the files end up readable, the
\* newest commit then comes to hold every monitored file as it is, and keeps doing so.
Converges ==
  [](crashes = 0 /\ \A f \in links : f \notin lost /\ fs[f] # Absent)
    => (<>[](\A f \in links : fs[f] # Unreadable)
          => <>[](\A f \in links : HeadTree[f] = fs[f]))
-----------------------------------------------------------------------------
(* What the documentation says and the code does not do *)

\* README, "Batch all pending changes into one Git commit": a file pending for
\* a change is as its newest content in the newest commit sooner or later.
ChangesAreCommitted ==
  \A f \in Files :
    f \in monitored /\ mp[f].pending = "changed" ~> HeadTree[f] = fs[f]

\* model.go, "Clean means the current filesystem content equals the latest
\* committed snapshot", for a file without events under way.
CleanMeansCommitted ==
  pc = "idle" =>
    \A f \in monitored \ (events \union lost) :
      mp[f].pending = "clean" => fs[f] = HeadTree[f]

\* state.go, "so a daemon restart does not silently lose it": the last text given
\* to cm message is waiting for a commit or in one, when no commit is under way.
NewestMessageKept ==
  pc = "idle" /\ newest # NoMessage =>
    message = newest \/ \E i \in 1 .. Len(history) : history[i].message = newest
=============================================================================
