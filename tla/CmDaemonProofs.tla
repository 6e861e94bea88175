--------------------------- MODULE CmDaemonProofs ---------------------------
(***************************************************************************)
(* Theorems about CmDaemon for every choice of its constants.              *)
(***************************************************************************)
EXTENDS CmDaemon, TLAPS

USE DEF outsideVars, watchVars, windowVars, messageVars, batchVars, gitVars

(***************************************************************************)
(* Records                                                                 *)
(***************************************************************************)

\* What reconcile and the batch commit leave is a record again.
LEMMA RecordTypes ==
  ASSUME NEW m \in Record, NEW s \in Found
  PROVE  /\ Reconcile(m, s) \in Record
         /\ s # Unreadable => Snapped(m, s) \in Record
<1>1. \A state \in {"clean", "changed", "deleted"} : Mark(m, state) \in Record
  <2> TAKE state \in {"clean", "changed", "deleted"}
  <2>1. (IF m.pending = state THEN m.saves ELSE m.saves + 1) \in Nat
    BY DEF Record
  <2> QED
    BY <2>1 DEF Record, Mark
<1>2. Reconcile(m, s) \in Record
  <2>1. [Mark(m, "deleted") EXCEPT !.exists = FALSE] \in Record
    BY <1>1 DEF Record
  <2>2. s \in Contents =>
          [Mark(m, "changed") EXCEPT !.exists = TRUE, !.last = s] \in Record
    BY <1>1 DEF Record
  <2> QED
    BY <2>1, <2>2 DEF Reconcile, Found
<1>3. s # Unreadable => Snapped(m, s) \in Record
  BY DEF Record, Snapped, Found
<1> QED
  BY <1>2, <1>3

LEMMA ClearedTypes ==
  ASSUME NEW m \in Record
  PROVE  Cleared(m) \in Record
BY DEF Record, Cleared

LEMMA SnapshotRecord ==
  ASSUME NEW s \in Snapshot
  PROVE  FromSnapshot(s) \in Record
BY DEF Record, Snapshot, FromSnapshot

\* A record that has been reconciled with a readable file is in step with it: the
\* next probe finds no transition.  A batch takes no record out of step.
LEMMA InStep ==
  ASSUME NEW m \in Record, NEW s \in Found
  PROVE  /\ ~Transition(Reconcile(m, s), s)
         /\ Transition(Snapped(m, s), s) => Transition(m, s)
         /\ \A t \in Found : Transition(Cleared(m), t) <=> Transition(m, t)
<1>1. ~Transition(Reconcile(m, s), s)
  BY DEF Record, Reconcile, Mark, Transition
<1>2. Transition(Snapped(m, s), s) => Transition(m, s)
  BY DEF Record, Snapped, Transition
<1>3. \A t \in Found : Transition(Cleared(m), t) <=> Transition(m, t)
  BY DEF Record, Cleared, Transition
<1> QED
  BY <1>1, <1>2, <1>3

(***************************************************************************)
(* The inductive invariant                                                 *)
(***************************************************************************)

\* d.batchTimer tells where the one window is: nowhere, waiting for its timer,
\* or fired and on its way through the queue and commitBatch.
WindowInv ==
  /\ batchTimer = "nil" <=> ~batchActive
  /\ batchTimer = "nil" => timers = 0 /\ work = 0 /\ pc \notin Committing
  /\ batchTimer = "running" => timers = 1 /\ work = 0 /\ pc \notin Committing
  /\ batchTimer = "fired" =>
       /\ timers = 0
       /\ pc \in Committing => work = 0
       /\ pc \notin Committing => work = 1
  /\ pc \in {"down", "scan", "recheck"} => batchTimer = "nil"

\* Without adds, a batch holds the records that are in the map.
NothingDetached == detached = NoLines

\* All that the types need to know of it: a timer that may be stopped runs.
RunningInv == batchTimer = "running" => timers > 0

LEMMA WindowRuns == WindowInv => RunningInv
BY DEF WindowInv, RunningInv

\* What is pending while no batch is being committed has a window.  A file known
\* to be gone is pending for it, where every file is readable.
PendingInv ==
  /\ Unreadable \notin Outcomes => \A f \in Files : fs[f] # Unreadable
  /\ Unreadable \notin Outcomes /\ pc \notin {"down", "scan", "recheck"} =>
       \A f \in monitored : ~mp[f].exists => mp[f].pending = "deleted"
  /\ pc = "idle" =>
       \A f \in monitored :
         \/ mp[f].pending = "changed"
         \/ mp[f].pending = "deleted" /\ Unreadable \notin Outcomes
         => batchTimer # "nil"

\* From the end of the start on, a file out of step has an event queued.
SyncInv ==
  Serving =>
    \A f \in monitored \ lost : Transition(mp[f], fs[f]) => f \in events

\* In a program that has not been killed, work tree, index and newest commit
\* agree on every file outside the batch that is not pending, and the index
\* holds the batch's snapshots once they are staged.
CleanInv ==
  crashes = 0 =>
    /\ pc \notin {"down", "scan"}
    /\ \A f \in monitored :
         /\ mp[f].pending = "clean" \/ pc \in {"clear", "recheck"} =>
              worktree[f] = HeadTree[f] /\ index[f] = HeadTree[f]
         /\ pc \in Committing \ {"clear"} => (f \in batch <=> mp[f].pending # "clean")
         /\ pc \in {"take", "reread", "commit"} /\ f \in batch => index[f] = worktree[f]

\* In such a program, what is pending has been counted, what is not monitored is as
\* committed, and from the snapshots on the lines of the batch are about its files.
LinesInv ==
  crashes = 0 =>
    /\ \A f \in monitored : mp[f].pending # "clean" => mp[f].saves > 0
    /\ \A f \in Files \ monitored : index[f] = HeadTree[f]
    /\ batch \subseteq monitored
    /\ pc \in {"stage", "take", "reread", "commit"} =>
         \A f \in Files :
           /\ lines[f] # NoLine <=> f \in batch
           /\ f \in batch => (lines[f] = DeletedLine <=> worktree[f] = Absent)
    /\ LinesExplainTree

(***************************************************************************)
(* Type correctness                                                        *)
(***************************************************************************)

\* The sets the types are built from.
LEMMA Basics ==
  /\ NoLines \in Lines
  /\ [f \in Files |-> FromSnapshot(Absent)] \in [Files -> Record]
  /\ \A tree \in Tree, ls \in Lines, text \in Messages \union {NoMessage} :
       [tree |-> tree, lines |-> ls, message |-> text] \in Commit
  /\ "idle" \in Locations /\ "down" \in Locations /\ Committing \subseteq Locations
<1>1. NoLines \in Lines
  BY DEF NoLines, Lines, NoLine
<1>2. [f \in Files |-> FromSnapshot(Absent)] \in [Files -> Record]
  <2>1. FromSnapshot(Absent) \in Record
    BY SnapshotRecord DEF Snapshot
  <2> QED
    BY <2>1
<1>3. \A tree \in Tree, ls \in Lines, text \in Messages \union {NoMessage} :
        [tree |-> tree, lines |-> ls, message |-> text] \in Commit
  BY DEF Commit
<1> QED
  BY <1>1, <1>2, <1>3 DEF Locations, Committing

LEMMA TypeInit == Init => TypeOK
<1> SUFFICES ASSUME Init PROVE TypeOK
  OBVIOUS
<1>1. worktree \in Tree /\ index \in Tree
  BY DEF Init, Tree, Snapshot
<1>2. history \in Seq(Commit)
  BY <1>1, Basics DEF Init
<1>3. \A f \in Files : FromSnapshot(worktree[f]) \in Record
  BY <1>1, SnapshotRecord DEF Tree
<1>4. MonitorTypeOK
  BY <1>3 DEF Init, FromTree, MonitorTypeOK
<1>5. OutsideTypeOK
  <2>1. fs \in [Files -> Found]
    BY DEF Init, Found
  <2> QED
    BY <2>1, BoundsAssumption DEF Init, OutsideTypeOK
<1>6. MessageTypeOK
  BY DEF Init, MessageTypeOK
<1>7. WindowTypeOK
  BY DEF Init, WindowTypeOK
<1>8. BatchTypeOK
  BY Basics DEF Init, BatchTypeOK
<1> QED
  BY <1>1, <1>2, <1>4, <1>5, <1>6, <1>7, <1>8 DEF TypeOK, RepositoryTypeOK

\* Only these operations write the repository.
LEMMA GitTypes ==
  ASSUME RepositoryTypeOK
  PROVE  /\ UNCHANGED gitVars => RepositoryTypeOK'
         /\ \A F \in SUBSET Files : Stage(F) => RepositoryTypeOK'
         /\ \A ls \in Lines, text \in Messages \union {NoMessage} :
              CommitIndex(ls, text) => RepositoryTypeOK'
<1>1. UNCHANGED gitVars => RepositoryTypeOK'
  BY DEF RepositoryTypeOK
<1>2. ASSUME NEW F \in SUBSET Files, Stage(F) PROVE RepositoryTypeOK'
  BY <1>2 DEF RepositoryTypeOK, Stage, Tree
<1>3. ASSUME NEW ls \in Lines, NEW text \in Messages \union {NoMessage},
             CommitIndex(ls, text)
      PROVE  RepositoryTypeOK'
  BY <1>3, Basics DEF RepositoryTypeOK, CommitIndex
<1> QED
  BY <1>1, <1>2, <1>3

LEMMA MessageTypes ==
  ASSUME MessageTypeOK, NEW text \in Messages \union {NoMessage}
  PROVE  /\ UNCHANGED messageVars => MessageTypeOK'
         /\ SetMessage(text) \/ SetMessageFails(text) => MessageTypeOK'
         /\ TakeAndClear \/ TakeAndClearFails \/ Load => MessageTypeOK'
         /\ PutBack(text) => MessageTypeOK'
BY DEF MessageTypeOK, SetMessage, SetMessageFails, TakeAndClear, TakeAndClearFails,
       Load, Persisted, NotPersisted, PutBack

\* The steps that write the window keep its types.
LEMMA WindowTypes ==
  ASSUME WindowTypeOK, RunningInv
  PROVE  /\ UNCHANGED windowVars => WindowTypeOK'
         /\ StartBatch => WindowTypeOK'
         /\ ResetBatch /\ work' \in Nat => WindowTypeOK'
         /\ RetryLater => WindowTypeOK'
<1>1. UNCHANGED windowVars => WindowTypeOK'
  BY DEF WindowTypeOK
<1>2. StartBatch => WindowTypeOK'
  <2>1. CASE UNCHANGED windowVars
    BY <1>1, <2>1
  <2>2. CASE batchActive' = TRUE /\ batchTimer' = "running" /\ timers' = timers + 1 /\ UNCHANGED work
    BY <2>2 DEF WindowTypeOK
  <2> QED
    BY <2>1, <2>2 DEF StartBatch
<1>3. ResetBatch /\ work' \in Nat => WindowTypeOK'
  <2>1. batchTimer = "running" => timers > 0
    BY DEF RunningInv
  <2>2. ResetBatch => timers' \in Nat
    BY <2>1 DEF ResetBatch, WindowTypeOK
  <2> QED
    BY <2>2 DEF ResetBatch, WindowTypeOK
<1>4. RetryLater => WindowTypeOK'
  BY DEF WindowTypeOK, RetryLater, LeaveBatch
<1> QED
  BY <1>1, <1>2, <1>3, <1>4

\* What the loop writes outside the daemon are the ghost lost and the faults.
LEMMA OutsideTypes ==
  ASSUME OutsideTypeOK
  PROVE  /\ UNCHANGED outsideVars => OutsideTypeOK'
         /\ /\ Fault \/ NoFault
            /\ UNCHANGED <<fs, links, edits, crashes, sent, newest, lost>>
            => OutsideTypeOK'
         /\ /\ lost' \subseteq Files
            /\ UNCHANGED <<fs, links, edits, faults, crashes, sent, newest>>
            => OutsideTypeOK'
BY BoundsAssumption DEF OutsideTypeOK, Fault, NoFault

\* The snapshots that are written are those of readable files.
LEMMA SnapshotTypes ==
  ASSUME TypeOK, NEW F \in SUBSET Files, NEW old, Readable(F) = F, WriteSnapshots(F, old)
  PROVE  /\ RepositoryTypeOK' /\ mp' \in [Files -> Record]
         /\ \E done \in SUBSET F :
              mp' = [f \in Files |-> IF f \in done THEN Snapped(mp[f], fs[f]) ELSE mp[f]]
<1>1. \A f \in F : fs[f] \in Snapshot /\ fs[f] # Unreadable /\ fs[f] \in Found
  BY DEF TypeOK, OutsideTypeOK, Readable, Found, Snapshot
<1>2. worktree' \in Tree
  BY <1>1 DEF TypeOK, RepositoryTypeOK, WriteSnapshots, Snapshots, Tree
<1>3. mp' \in [Files -> Record]
  <2>1. \A f \in F : Snapped(mp[f], fs[f]) \in Record
    BY <1>1, RecordTypes DEF TypeOK, MonitorTypeOK
  <2> QED
    BY <2>1 DEF TypeOK, MonitorTypeOK, WriteSnapshots, Recorded
<1>4. mp' = [f \in Files |-> IF f \in {g \in F : old[g] = NoLine}
                            THEN Snapped(mp[f], fs[f]) ELSE mp[f]]
  BY DEF WriteSnapshots, Recorded
<1> QED
  BY <1>2, <1>3, <1>4 DEF TypeOK, RepositoryTypeOK, WriteSnapshots

\* What another goroutine leaves of a snapshot that it cannot write.
LEMMA SnapshotPartly ==
  ASSUME TypeOK, NEW f \in Files, NEW s, SnapshotFails(f, s), UNCHANGED <<index, history>>
  PROVE  RepositoryTypeOK' /\ Fault
<1>1. PICK part \in Snapshot : worktree' = [worktree EXCEPT ![f] = part]
  BY DEF SnapshotFails, HalfWritten, TypeOK, RepositoryTypeOK, Tree, Snapshot
<1>2. Fault
  BY DEF SnapshotFails
<1> QED
  BY <1>1, <1>2 DEF TypeOK, RepositoryTypeOK, Tree

\* What a batch that fails at a snapshot leaves: some of its records and snapshots
\* as they would be, and the snapshot of the bad file in whatever state.
LEMMA SnapshotsPartly ==
  ASSUME TypeOK, NEW F \in SUBSET Files, NEW old, SnapshotsFail(F, old)
  PROVE  /\ RepositoryTypeOK' /\ mp' \in [Files -> Record]
         /\ UNCHANGED <<index, history>>
         /\ \A f \in Files \ F : worktree'[f] = worktree[f]
         /\ \E done \in SUBSET F :
              mp' = [f \in Files |-> IF f \in done THEN Snapped(mp[f], fs[f]) ELSE mp[f]]
<1>t. /\ mp \in [Files -> Record] /\ fs \in [Files -> Found] /\ worktree \in Tree
      /\ RepositoryTypeOK
  BY DEF TypeOK, MonitorTypeOK, OutsideTypeOK, RepositoryTypeOK
<1>1. PICK bad \in F, done \in SUBSET Readable(F), s \in Snapshot :
        /\ worktree' = [Snapshots(done, fs) EXCEPT ![bad] = s]
        /\ mp' = Recorded(done, old)
        /\ UNCHANGED <<index, history>>
  BY DEF SnapshotsFail
<1>2. done \in SUBSET F /\ \A f \in done : fs[f] \in Snapshot
  BY <1>t DEF Readable, Found, Snapshot
<1>3. Snapshots(done, fs) \in Tree
  BY <1>t, <1>2 DEF Snapshots, Tree
<1>4. worktree' \in Tree /\ \A f \in Files \ F : worktree'[f] = worktree[f]
  BY <1>1, <1>2, <1>3 DEF Snapshots, Tree
<1>5. \A f \in done : Snapped(mp[f], fs[f]) \in Record
  BY <1>t, <1>2, RecordTypes, DistinctValues DEF Snapshot
<1>6. mp' \in [Files -> Record]
  BY <1>t, <1>1, <1>5 DEF Recorded
<1>7. mp' = [f \in Files |-> IF f \in {g \in done : old[g] = NoLine}
                            THEN Snapped(mp[f], fs[f]) ELSE mp[f]]
  BY <1>1 DEF Recorded
<1> QED
  BY <1>t, <1>1, <1>2, <1>4, <1>6, <1>7 DEF RepositoryTypeOK

\* The files of a batch, and the lines about them.
LEMMA BatchLines ==
  ASSUME TypeOK, NEW F \in SUBSET Files, NEW old \in Lines
  PROVE  StillPendingIn(F, old) \in SUBSET Files /\ LinesOf(StillPendingIn(F, old), old) \in Lines
<1>1. \A f \in Files : Saves(f, old) \in Nat
  BY DEF TypeOK, MonitorTypeOK, Record, Saves, Lines
<1> QED
  BY <1>1 DEF StillPendingIn, LinesOf, LineOf, Lines, DeletedLine

\* Every step keeps the types.
LEMMA TypeStep == TypeOK /\ RunningInv /\ [Next]_vars => TypeOK'
<1> SUFFICES ASSUME TypeOK, RunningInv, [Next]_vars PROVE TypeOK'
  OBVIOUS
<1> USE DEF TypeOK
<1>1. ASSUME NEW f \in Files, NEW s \in Outcomes, Edit(f, s) PROVE TypeOK'
  <2>1. RepositoryTypeOK'
    BY <1>1, GitTypes DEF Edit
  <2>2. MessageTypeOK'
    BY <1>1, MessageTypes DEF Edit
  <2>3. OutsideTypeOK'
    BY <1>1, OutcomesAssumption, BoundsAssumption
    DEF Edit, Noticed, OutsideTypeOK, Found, Fault, NoFault
  <2>4. MonitorTypeOK'
    BY <1>1 DEF Edit, Noticed, MonitorTypeOK
  <2>5. WindowTypeOK'
    BY <1>1, WindowTypes DEF Edit
  <2>6. BatchTypeOK'
    BY <1>1, Basics DEF Edit, BatchTypeOK
  <2> QED
    BY <2>1, <2>2, <2>3, <2>4, <2>5, <2>6
<1>2. ASSUME NEW text \in Messages, UserMessage(text) PROVE TypeOK'
  <2>1. RepositoryTypeOK'
    BY <1>2, GitTypes DEF UserMessage
  <2>2. MessageTypeOK'
    BY <1>2, MessageTypes DEF UserMessage
  <2>3. OutsideTypeOK'
    BY <1>2, BoundsAssumption DEF UserMessage, OutsideTypeOK, Fault, NoFault
  <2>4. MonitorTypeOK'
    BY <1>2 DEF UserMessage, MonitorTypeOK
  <2>5. WindowTypeOK'
    BY <1>2, WindowTypes DEF UserMessage
  <2>6. BatchTypeOK'
    BY <1>2, Basics DEF UserMessage, BatchTypeOK
  <2> QED
    BY <2>1, <2>2, <2>3, <2>4, <2>5, <2>6
<1>3. CASE TimerFires
  <2>1. RepositoryTypeOK'
    BY <1>3, GitTypes DEF TimerFires
  <2>2. MessageTypeOK'
    BY <1>3, MessageTypes DEF TimerFires
  <2>3. OutsideTypeOK'
    BY <1>3, OutsideTypes DEF TimerFires
  <2>4. MonitorTypeOK'
    BY <1>3 DEF TimerFires, MonitorTypeOK
  <2>5. WindowTypeOK'
    BY <1>3 DEF TimerFires, WindowTypeOK
  <2>6. BatchTypeOK'
    BY <1>3, Basics DEF TimerFires, BatchTypeOK
  <2> QED
    BY <2>1, <2>2, <2>3, <2>4, <2>5, <2>6
<1>4. ASSUME NEW f \in Files, HandleFileEvent(f) PROVE TypeOK'
  <2>1. RepositoryTypeOK'
    BY <1>4, GitTypes DEF HandleFileEvent
  <2>2. MessageTypeOK'
    BY <1>4, MessageTypes DEF HandleFileEvent
  <2>3. OutsideTypeOK'
    <3>1. lost' \subseteq Files
      BY <1>4 DEF HandleFileEvent, OutsideTypeOK
    <3> QED
      BY <1>4, <3>1, OutsideTypes DEF HandleFileEvent
  <2>4. MonitorTypeOK'
    BY <1>4, RecordTypes DEF HandleFileEvent, MonitorTypeOK, OutsideTypeOK
  <2>5. WindowTypeOK'
    BY <1>4, WindowTypes DEF HandleFileEvent
  <2>6. BatchTypeOK'
    BY <1>4, Basics DEF HandleFileEvent, BatchTypeOK
  <2> QED
    BY <2>1, <2>2, <2>3, <2>4, <2>5, <2>6
<1>5. CASE BeginBatch
  <2>1. RepositoryTypeOK'
    BY <1>5, GitTypes DEF BeginBatch
  <2>2. MessageTypeOK'
    BY <1>5, MessageTypes DEF BeginBatch
  <2>3. OutsideTypeOK'
    BY <1>5, OutsideTypes DEF BeginBatch
  <2>4. MonitorTypeOK'
    BY <1>5 DEF BeginBatch, MonitorTypeOK
  <2>5. WindowTypeOK'
    BY <1>5, WindowTypes DEF BeginBatch, WindowTypeOK
  <2>6. BatchTypeOK'
    BY <1>5, Basics DEF BeginBatch, BatchTypeOK, Pending, MonitorTypeOK, OutsideTypeOK, Committing
  <2> QED
    BY <2>1, <2>2, <2>3, <2>4, <2>5, <2>6
<1>6. CASE Snap
  <2>0. StillPending \in SUBSET Files /\ LinesOf(StillPending, detached) \in Lines
    BY BatchLines DEF StillPending, BatchTypeOK
  <2>1. RepositoryTypeOK'
    BY <1>6, <2>0, SnapshotTypes DEF Snap
  <2>2. MessageTypeOK'
    BY <1>6, MessageTypes DEF Snap
  <2>3. OutsideTypeOK'
    BY <1>6, OutsideTypes DEF Snap
  <2>4. MonitorTypeOK'
    BY <1>6, <2>0, SnapshotTypes DEF Snap, MonitorTypeOK
  <2>5. WindowTypeOK'
    BY <1>6, WindowTypes DEF Snap
  <2>6. BatchTypeOK'
    BY <1>6, <2>0, Basics DEF Snap, Locations, Committing, BatchTypeOK
  <2> QED
    BY <2>1, <2>2, <2>3, <2>4, <2>5, <2>6
<1>7. CASE SnapFails
  <2>0. RepositoryTypeOK' /\ mp' \in [Files -> Record]
    <3>1. SnapshotsFail(StillPending, detached)
      BY <1>7 DEF SnapFails, SnapError
    <3>2. StillPending \in SUBSET Files
      BY BatchLines DEF StillPending, BatchTypeOK
    <3> QED
      BY <3>1, <3>2, SnapshotsPartly
  <2>1. RepositoryTypeOK'
    BY <1>7, <2>0 DEF SnapFails, SnapError
  <2>2. MessageTypeOK'
    BY <1>7, MessageTypes DEF SnapFails, SnapError
  <2>3. OutsideTypeOK'
    BY <1>7, OutsideTypes DEF SnapFails, SnapError, SnapshotsFail
  <2>4. MonitorTypeOK'
    BY <1>7, <2>0 DEF SnapFails, SnapError, MonitorTypeOK
  <2>5. WindowTypeOK'
    BY <1>7, WindowTypes DEF SnapFails, SnapError
  <2>6. BatchTypeOK'
    BY <1>7, Basics DEF SnapFails, SnapError, BatchTypeOK, RetryLater, LeaveBatch
  <2> QED
    BY <2>1, <2>2, <2>3, <2>4, <2>5, <2>6
<1>8. CASE StageBatch
  <2>1. RepositoryTypeOK'
    BY <1>8, GitTypes DEF StageBatch, BatchTypeOK
  <2>2. MessageTypeOK'
    BY <1>8, MessageTypes DEF StageBatch
  <2>3. OutsideTypeOK'
    BY <1>8, OutsideTypes DEF StageBatch
  <2>4. MonitorTypeOK'
    BY <1>8 DEF StageBatch, MonitorTypeOK
  <2>5. WindowTypeOK'
    BY <1>8, WindowTypes DEF StageBatch
  <2>6. BatchTypeOK'
    BY <1>8 DEF StageBatch, BatchTypeOK, Locations, Committing
  <2> QED
    BY <2>1, <2>2, <2>3, <2>4, <2>5, <2>6
<1>9. CASE StageFails
  <2>1. RepositoryTypeOK'
    BY <1>9, GitTypes DEF StageFails, StageError
  <2>2. MessageTypeOK'
    BY <1>9, MessageTypes DEF StageFails, StageError
  <2>3. OutsideTypeOK'
    BY <1>9, OutsideTypes DEF StageFails, StageError
  <2>4. MonitorTypeOK'
    BY <1>9 DEF StageFails, StageError, MonitorTypeOK
  <2>5. WindowTypeOK'
    BY <1>9, WindowTypes DEF StageFails, StageError
  <2>6. BatchTypeOK'
    BY <1>9, Basics DEF StageFails, StageError, BatchTypeOK, RetryLater, LeaveBatch
  <2> QED
    BY <2>1, <2>2, <2>3, <2>4, <2>5, <2>6
<1>10. CASE Take
  <2>1. RepositoryTypeOK'
    BY <1>10, GitTypes DEF Take
  <2>2. MessageTypeOK'
    BY <1>10, MessageTypes DEF Take
  <2>3. OutsideTypeOK'
    BY <1>10, OutsideTypes DEF Take
  <2>4. MonitorTypeOK'
    BY <1>10 DEF Take, MonitorTypeOK
  <2>5. WindowTypeOK'
    BY <1>10, WindowTypes DEF Take
  <2>6. BatchTypeOK'
    BY <1>10 DEF Take, BatchTypeOK, MessageTypeOK, Locations, Committing
  <2> QED
    BY <2>1, <2>2, <2>3, <2>4, <2>5, <2>6
<1>11. CASE Reread
  <2>1. RepositoryTypeOK'
    BY <1>11, GitTypes DEF Reread
  <2>2. MessageTypeOK'
    BY <1>11, MessageTypes DEF Reread
  <2>3. OutsideTypeOK'
    BY <1>11, OutsideTypes DEF Reread
  <2>4. MonitorTypeOK'
    BY <1>11 DEF Reread, MonitorTypeOK
  <2>5. WindowTypeOK'
    BY <1>11, WindowTypes DEF Reread
  <2>6. BatchTypeOK'
    BY <1>11 DEF Reread, BatchTypeOK, MessageTypeOK, Locations, Committing
  <2> QED
    BY <2>1, <2>2, <2>3, <2>4, <2>5, <2>6
<1>12. CASE CommitBatch
  <2>1. RepositoryTypeOK'
    BY <1>12, GitTypes DEF CommitBatch, BatchTypeOK
  <2>2. MessageTypeOK'
    BY <1>12, MessageTypes DEF CommitBatch
  <2>3. OutsideTypeOK'
    BY <1>12, OutsideTypes DEF CommitBatch
  <2>4. MonitorTypeOK'
    BY <1>12 DEF CommitBatch, MonitorTypeOK
  <2>5. WindowTypeOK'
    BY <1>12, WindowTypes DEF CommitBatch
  <2>6. BatchTypeOK'
    BY <1>12 DEF CommitBatch, BatchTypeOK, Locations, Committing
  <2> QED
    BY <2>1, <2>2, <2>3, <2>4, <2>5, <2>6
<1>13. CASE CommitFails
  <2>1. RepositoryTypeOK'
    BY <1>13, GitTypes DEF CommitFails, CommitError, BatchTypeOK
  <2>2. MessageTypeOK'
    BY <1>13, MessageTypes DEF CommitFails, CommitError, BatchTypeOK
  <2>3. OutsideTypeOK'
    BY <1>13, OutsideTypes DEF CommitFails, CommitError
  <2>4. MonitorTypeOK'
    BY <1>13 DEF CommitFails, CommitError, MonitorTypeOK
  <2>5. WindowTypeOK'
    BY <1>13, WindowTypes DEF CommitFails, CommitError
  <2>6. BatchTypeOK'
    BY <1>13, Basics DEF CommitFails, CommitError, BatchTypeOK, RetryLater, LeaveBatch
  <2> QED
    BY <2>1, <2>2, <2>3, <2>4, <2>5, <2>6
<1>14. CASE ClearBatch
  <2>1. RepositoryTypeOK'
    BY <1>14, GitTypes DEF ClearBatch
  <2>2. MessageTypeOK'
    BY <1>14, MessageTypes DEF ClearBatch
  <2>3. OutsideTypeOK'
    BY <1>14, OutsideTypes DEF ClearBatch
  <2>4. MonitorTypeOK'
    BY <1>14, ClearedTypes DEF ClearBatch, MonitorTypeOK
  <2>5. WindowTypeOK'
    BY <1>14, WindowTypes DEF ClearBatch, WindowTypeOK
  <2>6. BatchTypeOK'
    BY <1>14, Basics DEF ClearBatch, BatchTypeOK, Locations
  <2> QED
    BY <2>1, <2>2, <2>3, <2>4, <2>5, <2>6
<1>15. CASE Recheck \/ FinishStart
  <2>1. RepositoryTypeOK'
    BY <1>15, GitTypes DEF Recheck, FinishStart, ReconcileAll
  <2>2. MessageTypeOK'
    BY <1>15, MessageTypes DEF Recheck, FinishStart, ReconcileAll
  <2>3. OutsideTypeOK'
    <3>1. lost' \subseteq Files
      BY <1>15 DEF Recheck, FinishStart, ReconcileAll, OutsideTypeOK
    <3> QED
      BY <1>15, <3>1, OutsideTypes DEF Recheck, FinishStart, ReconcileAll
  <2>4. MonitorTypeOK'
    BY <1>15, RecordTypes DEF Recheck, FinishStart, ReconcileAll, MonitorTypeOK, OutsideTypeOK
  <2>5. WindowTypeOK'
    BY <1>15, WindowTypes DEF Recheck, FinishStart, ReconcileAll
  <2>6. BatchTypeOK'
    BY <1>15, Basics DEF Recheck, FinishStart, ReconcileAll, BatchTypeOK
  <2> QED
    BY <2>1, <2>2, <2>3, <2>4, <2>5, <2>6
<1>16. CASE Crash
  <2>k. /\ pc' = "down" /\ crashes < MaxCrashes /\ crashes' = crashes + 1
        /\ events' = {} /\ lost' = {} /\ watched' = {} /\ monitored' = {}
        /\ mp' = FromTree([f \in Files |-> Absent])
        /\ batchActive' = FALSE /\ batchTimer' = "nil" /\ timers' = 0 /\ work' = 0
        /\ message' = NoMessage /\ batch' = {} /\ lines' = NoLines /\ taken' = NoMessage
        /\ detached' = NoLines
        /\ UNCHANGED <<fs, links, edits, faults, sent, newest, messageFile>>
    BY <1>16 DEF Crash, KilledWriting
  <2>1. RepositoryTypeOK'
    <3>1. PICK s \in [BatchSnapshots -> Snapshot] : worktree' = Snapshots(BatchSnapshots, s)
      BY <1>16 DEF Crash, KilledWriting
    <3>2. worktree' \in Tree
      BY <3>1 DEF Snapshots, RepositoryTypeOK, Tree
    <3> QED
      BY <1>16, <3>2 DEF Crash, KilledWriting, RepositoryTypeOK
  <2>2. MessageTypeOK'
    BY <2>k DEF MessageTypeOK
  <2>3. OutsideTypeOK'
    BY <2>k, BoundsAssumption DEF OutsideTypeOK
  <2>4. MonitorTypeOK'
    BY <2>k, Basics DEF MonitorTypeOK, FromTree
  <2>5. WindowTypeOK'
    BY <2>k DEF WindowTypeOK
  <2>6. BatchTypeOK'
    BY <2>k, Basics DEF BatchTypeOK
  <2> QED
    BY <2>1, <2>2, <2>3, <2>4, <2>5, <2>6
<1>17. CASE Start
  <2>1. RepositoryTypeOK'
    BY <1>17, GitTypes DEF Start
  <2>2. MessageTypeOK'
    BY <1>17, MessageTypes DEF Start
  <2>3. OutsideTypeOK'
    BY <1>17, OutsideTypes DEF Start
  <2>4. MonitorTypeOK'
    <3>1. \A F : Loaded(F) \in [Files -> Record]
      BY SnapshotRecord DEF Loaded, RepositoryTypeOK, Tree, Snapshot
    <3> QED
      BY <1>17, <3>1 DEF Start, MonitorTypeOK, OutsideTypeOK
  <2>5. WindowTypeOK'
    BY <1>17, WindowTypes DEF Start
  <2>6. BatchTypeOK'
    BY <1>17 DEF Start, BatchTypeOK, Locations
  <2> QED
    BY <2>1, <2>2, <2>3, <2>4, <2>5, <2>6
<1>18. CASE UNCHANGED vars
  BY <1>18 DEF vars, RepositoryTypeOK, MessageTypeOK, OutsideTypeOK,
     MonitorTypeOK, WindowTypeOK, BatchTypeOK
<1> QED
  BY <1>1, <1>2, <1>3, <1>4, <1>5, <1>6, <1>7, <1>8, <1>9, <1>10, <1>11, <1>12, <1>13, <1>14, <1>15, <1>16, <1>17, <1>18 DEF Next, Running, Loop

(***************************************************************************)
(* The batch window                                                        *)
(***************************************************************************)

\* What each way of writing the window does to it.
LEMMA WindowMoves ==
  ASSUME TypeOK, WindowInv
  PROVE  /\ pc \notin Committing /\ pc' = "idle" /\ (StartBatch \/ UNCHANGED windowVars)
              => WindowInv'
         /\ pc \in Committing /\ RetryLater => WindowInv'
         /\ pc' = pc /\ UNCHANGED windowVars => WindowInv'
         /\ pc \in Committing /\ pc' \in Committing /\ UNCHANGED windowVars => WindowInv'
<1>1. pc \notin Committing /\ pc' = "idle" /\ UNCHANGED windowVars => WindowInv'
  BY DEF WindowInv, Committing
<1>2. pc \notin Committing /\ pc' = "idle" /\ StartBatch => WindowInv'
  <2>1. CASE batchActive \/ batchTimer # "nil"
    BY <2>1, <1>1 DEF StartBatch
  <2>2. CASE ~(batchActive \/ batchTimer # "nil")
    BY <2>2 DEF StartBatch, WindowInv, Committing
  <2> QED
    BY <2>1, <2>2
<1>3. pc \in Committing /\ RetryLater => WindowInv'
  BY DEF TypeOK, WindowTypeOK, WindowInv, RetryLater, LeaveBatch, Committing
<1>4. pc' = pc /\ UNCHANGED windowVars => WindowInv'
  BY DEF WindowInv
<1>5. pc \in Committing /\ pc' \in Committing /\ UNCHANGED windowVars => WindowInv'
  BY DEF WindowInv, Committing
<1> QED
  BY <1>1, <1>2, <1>3, <1>4, <1>5

\* Every step keeps the window in one of its places.
LEMMA WindowStep == TypeOK /\ WindowInv /\ [Next]_vars => WindowInv'
<1> SUFFICES ASSUME TypeOK, WindowInv, [Next]_vars PROVE WindowInv'
  OBVIOUS
<1>1. ASSUME NEW f \in Files, NEW s \in Outcomes, Edit(f, s) PROVE WindowInv'
  BY <1>1, WindowMoves DEF Edit
<1>2. ASSUME NEW text \in Messages, UserMessage(text) PROVE WindowInv'
  BY <1>2, WindowMoves DEF UserMessage
<1>3. CASE TimerFires
  BY <1>3 DEF TimerFires, WindowInv, TypeOK, WindowTypeOK
<1>4. ASSUME NEW f \in Files, HandleFileEvent(f) PROVE WindowInv'
  BY <1>4, WindowMoves DEF HandleFileEvent, Committing
<1>5. CASE BeginBatch
  BY <1>5 DEF BeginBatch, ResetBatch, WindowInv, TypeOK, WindowTypeOK, Committing
<1>6. CASE Snap \/ StageBatch \/ Take \/ Reread \/ CommitBatch
  BY <1>6, WindowMoves DEF Snap, StageBatch, Take, Reread, CommitBatch, Committing
<1>7. CASE SnapFails \/ StageFails \/ CommitFails
  BY <1>7, WindowMoves DEF SnapFails, SnapError, StageFails, StageError, CommitFails, CommitError, Committing
<1>8. CASE ClearBatch
  BY <1>8 DEF ClearBatch, ResetBatch, WindowInv, TypeOK, WindowTypeOK, Committing
<1>9. CASE Recheck \/ FinishStart
  BY <1>9, WindowMoves DEF Recheck, FinishStart, ReconcileAll, Committing
<1>10. CASE Crash
  BY <1>10 DEF Crash, KilledWriting, WindowInv, Committing
<1>11. CASE Start
  BY <1>11 DEF Start, WindowInv, Committing
<1>12. CASE UNCHANGED vars
  BY <1>12, WindowMoves DEF vars
<1> QED
  BY <1>1, <1>2, <1>3, <1>4, <1>5, <1>6, <1>7, <1>8, <1>9, <1>10, <1>11, <1>12
  DEF Next, Running, Loop

LEMMA WindowInit == Init => WindowInv
BY DEF Init, WindowInv, Committing

LEMMA TypesAndWindow == Spec => [](TypeOK /\ WindowInv)
<1>1. Init => TypeOK /\ WindowInv
  BY TypeInit, WindowInit
<1>2. TypeOK /\ WindowInv /\ [Next]_vars => (TypeOK /\ WindowInv)'
  BY TypeStep, WindowRuns, WindowStep
<1> QED
  BY <1>1, <1>2, PTL DEF Spec

\* The daemon's variables, its files and its repository keep their types.  A
\* timer that is stopped has to be running, which only WindowInv knows.
THEOREM TypeCorrect == Spec => []TypeOK
BY TypesAndWindow, PTL

\* However events, timers, failing commits and restarts interleave, there is at
\* most one running timer, queued commit or commit in progress.
THEOREM OneWindow == Spec => []AtMostOneWindow
<1>1. TypeOK /\ WindowInv => AtMostOneWindow
  BY DEF TypeOK, WindowTypeOK, WindowInv, AtMostOneWindow
<1> QED
  BY <1>1, TypesAndWindow, PTL

(***************************************************************************)
(* Nothing pending is left without a window                                *)
(***************************************************************************)

\* What reconcile makes of existence, and what is pending without a transition.
LEMMA Reconciled ==
  ASSUME NEW m \in Record, NEW s \in Found, s # Unreadable
  PROVE  /\ Reconcile(m, s).exists <=> s # Absent
         /\ s = Absent => Reconcile(m, s).pending = "deleted"
         /\ ~Transition(m, s) /\ s # Absent => Reconcile(m, s) = m
BY DistinctValues DEF Record, Found, Reconcile, Mark, Transition

LEMMA PendingInit == Init => PendingInv
<1> SUFFICES ASSUME Init PROVE PendingInv
  OBVIOUS
<1>1. \A f \in monitored : mp[f].exists /\ mp[f].pending = "clean"
  BY DistinctValues DEF Init, FromTree, FromSnapshot
<1>2. \A f \in Files : fs[f] # Unreadable
  BY DistinctValues DEF Init
<1> QED
  BY <1>1, <1>2 DEF PendingInv

LEMMA PendingStep == TypeOK /\ WindowInv /\ PendingInv /\ [Next]_vars => PendingInv'
<1> SUFFICES ASSUME TypeOK, WindowInv, PendingInv, [Next]_vars PROVE PendingInv'
  OBVIOUS
<1>t. /\ mp \in [Files -> Record] /\ fs \in [Files -> Found]
      /\ monitored \subseteq Files /\ batch \subseteq Files
  BY DEF TypeOK, MonitorTypeOK, OutsideTypeOK, BatchTypeOK
<1>1. ASSUME NEW f \in Files, NEW s \in Outcomes, Edit(f, s) PROVE PendingInv'
  BY <1>1, <1>t DEF Edit, PendingInv
<1>2. CASE \E text \in Messages : UserMessage(text)
  BY <1>2 DEF UserMessage, PendingInv
<1>3. CASE TimerFires
  BY <1>3 DEF TimerFires, PendingInv
<1>4. ASSUME NEW f \in Files, HandleFileEvent(f) PROVE PendingInv'
  <2>1. CASE f \notin monitored
    BY <1>4, <2>1 DEF HandleFileEvent, PendingInv
  <2>2. CASE f \in monitored
    <3>1. /\ pc = "idle" /\ pc' = "idle" /\ UNCHANGED <<fs, monitored>>
          /\ mp' = [mp EXCEPT ![f] = Reconcile(@, fs[f])]
      BY <1>4, <2>2 DEF HandleFileEvent
    <3>2. CASE Transition(mp[f], fs[f])
      <4>1. batchTimer' # "nil"
        BY <1>4, <2>2, <3>2 DEF HandleFileEvent, StartBatch, WindowInv
      <4>2. Unreadable \notin Outcomes /\ ~Reconcile(mp[f], fs[f]).exists
              => Reconcile(mp[f], fs[f]).pending = "deleted"
        BY <1>t, Reconciled DEF PendingInv
      <4> QED
        BY <1>t, <3>1, <4>1, <4>2 DEF PendingInv
    <3>3. CASE ~Transition(mp[f], fs[f])
      <4>1. UNCHANGED windowVars
        BY <1>4, <2>2, <3>3 DEF HandleFileEvent
      <4>2. CASE fs[f] = Unreadable
        BY <1>t, <3>1, <4>1, <4>2 DEF PendingInv, Reconcile
      <4>3. CASE fs[f] # Unreadable /\ fs[f] # Absent
        <5>1. Reconcile(mp[f], fs[f]) = mp[f]
          BY <1>t, <3>3, <4>3, Reconciled
        <5> QED
          BY <1>t, <3>1, <4>1, <5>1 DEF PendingInv
      <4>4. CASE fs[f] = Absent
        <5>1. ~mp[f].exists
          BY <3>3, <4>4, DistinctValues DEF Transition
        <5>2. ~Reconcile(mp[f], fs[f]).exists /\ Reconcile(mp[f], fs[f]).pending = "deleted"
          BY <1>t, <4>4, Reconciled, DistinctValues
        <5> QED
          BY <1>t, <2>2, <3>1, <4>1, <5>1, <5>2 DEF PendingInv
      <4> QED
        BY <4>2, <4>3, <4>4
    <3> QED
      BY <3>2, <3>3
  <2> QED
    BY <2>1, <2>2
<1>5. CASE BeginBatch
  BY <1>5 DEF BeginBatch, ResetBatch, Pending, PendingInv
<1>6. CASE StageBatch \/ Take \/ Reread \/ CommitBatch
  BY <1>6 DEF StageBatch, Take, Reread, CommitBatch, PendingInv
<1>7. CASE Snap \/ SnapFails
  <2>1. PICK done \in SUBSET Files :
          mp' = [f \in Files |-> IF f \in done THEN Snapped(mp[f], fs[f]) ELSE mp[f]]
    <3>1. StillPending \in SUBSET Files
      BY BatchLines DEF StillPending, TypeOK, BatchTypeOK
    <3>2. CASE Snap
      BY <3>1, <3>2, SnapshotTypes DEF Snap
    <3>3. CASE SnapFails
      BY <3>1, <3>3, SnapshotsPartly DEF SnapFails, SnapError
    <3> QED
      BY <1>7, <3>2, <3>3
  <2>2. /\ pc' # "idle" \/ batchTimer' = "running"
        /\ pc \notin {"down", "scan", "recheck"} /\ UNCHANGED <<fs, monitored>>
    BY <1>7 DEF Snap, SnapFails, SnapError, RetryLater, LeaveBatch
  <2>3. \A f \in monitored :
          ~mp'[f].exists => ~mp[f].exists /\ (mp[f].pending = "deleted" => mp'[f] = mp[f])
    BY <1>t, <2>1 DEF Snapped, Record
  <2> QED
    BY <2>2, <2>3 DEF PendingInv
<1>8. CASE StageFails \/ CommitFails
  BY <1>8 DEF StageFails, StageError, CommitFails, CommitError, RetryLater, LeaveBatch, PendingInv
<1>9. CASE ClearBatch
  BY <1>9 DEF ClearBatch, PendingInv
<1>10. CASE Recheck \/ FinishStart
  <2>1. /\ mp' = [f \in Files |-> IF f \in monitored THEN Reconcile(mp[f], fs[f]) ELSE mp[f]]
        /\ IF \E f \in monitored : mp'[f].pending # "clean"
           THEN StartBatch ELSE UNCHANGED windowVars
        /\ pc' = "idle" /\ UNCHANGED <<fs, monitored>>
    BY <1>10 DEF Recheck, FinishStart, ReconcileAll
  <2>2. (\E f \in monitored : mp'[f].pending # "clean") => batchTimer' # "nil"
    BY <2>1 DEF StartBatch, WindowInv
  <2>3. Unreadable \notin Outcomes =>
          \A f \in monitored : ~mp'[f].exists => mp'[f].pending = "deleted"
    BY <1>t, <2>1, Reconciled DEF PendingInv
  <2> QED
    BY <2>1, <2>2, <2>3 DEF PendingInv
<1>11. CASE Crash \/ Start
  BY <1>11 DEF Crash, KilledWriting, Start, PendingInv
<1>12. CASE UNCHANGED vars
  BY <1>12 DEF vars, PendingInv
<1> QED
  BY <1>1, <1>2, <1>3, <1>4, <1>5, <1>6, <1>7, <1>8, <1>9, <1>10, <1>11, <1>12
  DEF Next, Running, Loop

\* A change the daemon knows of is never left without a timer or a queued commit.
THEOREM PendingWindow == Spec => []PendingHasWindow
<1>1. TypeOK /\ WindowInv /\ PendingInv => PendingHasWindow
  BY DEF TypeOK, WindowTypeOK, WindowInv, PendingInv, PendingHasWindow, Committing
<1>2. Init => PendingInv
  BY PendingInit
<1>3. TypeOK /\ WindowInv /\ PendingInv /\ [Next]_vars => PendingInv'
  BY PendingStep
<1> QED
  BY <1>1, <1>2, <1>3, TypesAndWindow, PTL DEF Spec

(***************************************************************************)
(* No change is missed                                                     *)
(***************************************************************************)

LEMMA SyncInit == Init => SyncInv
<1> SUFFICES ASSUME Init PROVE SyncInv
  OBVIOUS
<1>1. \A f \in monitored : mp[f].exists /\ mp[f].last = fs[f] /\ fs[f] # Absent
  BY DistinctValues DEF Init, FromTree, FromSnapshot
<1> QED
  BY <1>1 DEF Init, SyncInv, Transition

LEMMA SyncStep == TypeOK /\ SyncInv /\ [Next]_vars => SyncInv'
<1> SUFFICES ASSUME TypeOK, SyncInv, [Next]_vars PROVE SyncInv'
  OBVIOUS
<1>t. /\ mp \in [Files -> Record] /\ fs \in [Files -> Found]
      /\ monitored \subseteq Files /\ batch \subseteq Files
  BY DEF TypeOK, MonitorTypeOK, OutsideTypeOK, BatchTypeOK
<1>1. ASSUME NEW f \in Files, NEW s \in Outcomes, Edit(f, s) PROVE SyncInv'
  BY <1>1, <1>t DEF Edit, Noticed, SyncInv, Serving
<1>2. CASE \E text \in Messages : UserMessage(text)
  BY <1>2 DEF UserMessage, SyncInv, Serving
<1>3. CASE TimerFires
  BY <1>3 DEF TimerFires, SyncInv, Serving
<1>4. ASSUME NEW f \in Files, HandleFileEvent(f) PROVE SyncInv'
  <2>1. CASE f \notin monitored
    BY <1>4, <2>1 DEF HandleFileEvent, SyncInv, Serving
  <2>2. CASE f \in monitored
    <3>1. /\ mp' = [mp EXCEPT ![f] = Reconcile(@, fs[f])]
          /\ events' = events \ {f} /\ lost' = lost \ {f}
          /\ UNCHANGED <<fs, watched, monitored, pc>>
      BY <1>4, <2>2 DEF HandleFileEvent
    <3>2. ~Transition(mp'[f], fs'[f])
      BY <1>t, <3>1, InStep
    <3>3. \A g \in monitored \ {f} : mp'[g] = mp[g]
      BY <1>t, <3>1
    <3> QED
      BY <3>1, <3>2, <3>3 DEF SyncInv, Serving
  <2> QED
    BY <2>1, <2>2
<1>5. CASE BeginBatch \/ StageBatch \/ StageFails \/ Take \/ Reread \/ CommitBatch \/ CommitFails
  BY <1>5 DEF BeginBatch, StageBatch, StageFails, StageError, Take, Reread, CommitBatch, CommitFails, CommitError,
              RetryLater, LeaveBatch, SyncInv, Serving
<1>6. CASE Snap \/ SnapFails
  <2>1. PICK done \in SUBSET Files :
          mp' = [f \in Files |-> IF f \in done THEN Snapped(mp[f], fs[f]) ELSE mp[f]]
    <3>1. StillPending \in SUBSET Files
      BY BatchLines DEF StillPending, TypeOK, BatchTypeOK
    <3>2. CASE Snap
      BY <3>1, <3>2, SnapshotTypes DEF Snap
    <3>3. CASE SnapFails
      BY <3>1, <3>3, SnapshotsPartly DEF SnapFails, SnapError
    <3> QED
      BY <1>6, <3>2, <3>3
  <2>2. Serving /\ UNCHANGED <<fs, watched, monitored, lost, events>>
    BY <1>6 DEF Snap, SnapFails, SnapError, Serving
  <2>3. \A f \in monitored : Transition(mp'[f], fs[f]) => Transition(mp[f], fs[f])
    <3> SUFFICES ASSUME NEW f \in monitored, Transition(mp'[f], fs[f])
                 PROVE  Transition(mp[f], fs[f])
      OBVIOUS
    <3> QED
      BY <1>t, <2>1, InStep
  <2> QED
    BY <2>2, <2>3 DEF SyncInv
<1>7. CASE ClearBatch
  <2>1. /\ mp' = [f \in Files |-> IF f \in monitored THEN Cleared(mp[f]) ELSE mp[f]]
        /\ Serving /\ UNCHANGED <<fs, watched, monitored, lost, events>>
    BY <1>7 DEF ClearBatch, Serving
  <2>2. \A f \in monitored : Transition(mp'[f], fs[f]) => Transition(mp[f], fs[f])
    BY <1>t, <2>1, InStep
  <2> QED
    BY <2>1, <2>2 DEF SyncInv
<1>8. CASE Recheck \/ FinishStart
  <2>1. /\ mp' = [f \in Files |-> IF f \in monitored THEN Reconcile(mp[f], fs[f]) ELSE mp[f]]
        /\ UNCHANGED <<fs, watched, monitored>>
    BY <1>8 DEF Recheck, FinishStart, ReconcileAll
  <2>2. \A f \in monitored : ~Transition(mp'[f], fs'[f])
    BY <1>t, <2>1, InStep
  <2> QED
    BY <2>1, <2>2 DEF SyncInv
<1>9. CASE Crash \/ Start
  BY <1>9 DEF Crash, KilledWriting, Start, SyncInv, Serving
<1>10. CASE UNCHANGED vars
  BY <1>10 DEF vars, SyncInv, Serving
<1> QED
  BY <1>1, <1>2, <1>3, <1>4, <1>5, <1>6, <1>7, <1>8, <1>9, <1>10 DEF Next, Running, Loop

\* A monitored file that differs from its record has an event on the way, unless
\* inotify dropped it: no step of the loop or of a start loses one.
THEOREM MissedChange == Spec => []NoMissedChange
<1>1. TypeOK /\ SyncInv => NoMissedChange
  BY DEF SyncInv, Serving, NoMissedChange
<1>2. Init => SyncInv
  BY SyncInit
<1>3. TypeOK /\ SyncInv /\ [Next]_vars => SyncInv'
  BY SyncStep
<1> QED
  BY <1>1, <1>2, <1>3, TypeCorrect, PTL DEF Spec

(***************************************************************************)
(* Work tree, index and newest commit                                      *)
(***************************************************************************)

\* The newest tree after a commit is the index; otherwise it stays.
LEMMA HeadMoves ==
  ASSUME RepositoryTypeOK
  PROVE  /\ UNCHANGED history => HeadTree' = HeadTree
         /\ \A ls \in Lines, text \in Messages \union {NoMessage} :
              CommitIndex(ls, text) => HeadTree' = index
<1>1. UNCHANGED history => HeadTree' = HeadTree
  BY DEF HeadTree
<1>2. ASSUME NEW ls \in Lines, NEW text \in Messages \union {NoMessage},
             CommitIndex(ls, text)
      PROVE  HeadTree' = index
  <2> DEFINE c == [tree |-> index, lines |-> ls, message |-> text]
  <2>1. c \in Commit /\ history \in Seq(Commit) /\ history' = Append(history, c)
    BY <1>2, Basics DEF RepositoryTypeOK, CommitIndex
  <2> HIDE DEF c
  <2>2. history' # << >> /\ history'[Len(history')] = c
    BY <2>1
  <2> QED
    BY <2>2 DEF HeadTree, c
<1> QED
  BY <1>1, <1>2

\* Nothing in the daemon alone replaces a record.
LEMMA DetachedStep == NothingDetached /\ [Next]_vars => NothingDetached'
<1> SUFFICES ASSUME NothingDetached, [Next]_vars PROVE NothingDetached'
  OBVIOUS
<1> USE DEF NothingDetached
<1>1. CASE SnapFails \/ StageFails \/ CommitFails
  BY <1>1 DEF SnapFails, StageFails, CommitFails, RetryLater, LeaveBatch
<1>2. CASE Snap \/ Crash
  BY <1>2 DEF Snap, Crash, KilledWriting
<1>3. CASE \/ \E f \in Files, s \in Outcomes : Edit(f, s)
           \/ \E text \in Messages : UserMessage(text)
           \/ \E f \in Files : HandleFileEvent(f)
           \/ UNCHANGED vars
  BY <1>3 DEF Edit, UserMessage, HandleFileEvent, vars
<1>4. CASE TimerFires \/ BeginBatch \/ StageBatch \/ Take \/ Reread \/ CommitBatch \/ ClearBatch
  BY <1>4 DEF TimerFires, BeginBatch, StageBatch, Take, Reread, CommitBatch, ClearBatch
<1>5. CASE Recheck \/ Start \/ FinishStart
  BY <1>5 DEF Recheck, Start, FinishStart, ReconcileAll
<1> QED
  BY <1>1, <1>2, <1>3, <1>4, <1>5 DEF Next, Running, Loop

LEMMA DetachedAlways == Spec => []NothingDetached
<1>1. Init => NothingDetached
  BY DEF Init, NothingDetached
<1> QED
  BY <1>1, DetachedStep, PTL DEF Spec

\* What a batch writes of the records that are in the map, which are all of it.
LEMMA WholeBatch ==
  ASSUME NothingDetached, batch \subseteq Files
  PROVE  /\ StillPending = {f \in batch : mp[f].pending # "clean"}
         /\ \A F \in SUBSET Files :
              Recorded(F, detached)
                = [f \in Files |-> IF f \in F THEN Snapped(mp[f], fs[f]) ELSE mp[f]]
         /\ \A f \in Files :
              LineOf(f, detached) = IF fs[f] = Absent THEN DeletedLine ELSE mp[f].saves
<1>1. \A f \in Files : detached[f] = NoLine
  BY DEF NothingDetached, NoLines
<1> QED
  BY <1>1 DEF StillPending, StillPendingIn, Recorded, LineOf, Saves

LEMMA CleanInit == Init => CleanInv
<1> SUFFICES ASSUME Init PROVE CleanInv
  OBVIOUS
<1>1. HeadTree = worktree /\ index = worktree
  BY DEF Init, HeadTree
<1> QED
  BY <1>1 DEF Init, CleanInv, Committing

LEMMA CleanStep == TypeOK /\ NothingDetached /\ CleanInv /\ [Next]_vars => CleanInv'
<1> SUFFICES ASSUME TypeOK, NothingDetached, CleanInv, [Next]_vars, crashes' = 0 PROVE CleanInv'
  BY DEF CleanInv
<1>t. /\ mp \in [Files -> Record] /\ fs \in [Files -> Found]
      /\ monitored \subseteq Files /\ batch \subseteq Files
      /\ crashes \in Nat /\ RepositoryTypeOK
      /\ worktree \in [Files -> Snapshot] /\ index \in [Files -> Snapshot]
      /\ lines \in Lines /\ taken \in Messages \union {NoMessage}
  BY DEF TypeOK, MonitorTypeOK, OutsideTypeOK, BatchTypeOK, RepositoryTypeOK, Tree
<1>h. /\ UNCHANGED history => HeadTree' = HeadTree
      /\ CommitIndex(lines, taken) => HeadTree' = index
  BY <1>t, HeadMoves
<1>w. StillPending = {f \in batch : mp[f].pending # "clean"}
  BY <1>t, WholeBatch
<1>1. ASSUME NEW f \in Files, NEW s \in Outcomes, Edit(f, s) PROVE CleanInv'
  BY <1>1, <1>h DEF Edit, CleanInv
<1>2. CASE \E text \in Messages : UserMessage(text)
  BY <1>2, <1>h DEF UserMessage, CleanInv
<1>3. CASE TimerFires
  BY <1>3, <1>h DEF TimerFires, CleanInv
<1>4. ASSUME NEW f \in Files, HandleFileEvent(f) PROVE CleanInv'
  <2>1. CASE f \notin monitored
    BY <1>4, <2>1, <1>h DEF HandleFileEvent, CleanInv
  <2>2. CASE f \in monitored
    <3>1. /\ mp' = [mp EXCEPT ![f] = Reconcile(@, fs[f])]
          /\ pc = "idle" /\ UNCHANGED <<monitored, pc, batch, crashes, worktree, index, history>>
      BY <1>4, <2>2 DEF HandleFileEvent
    <3>2. \A g \in monitored : mp'[g].pending = "clean" => mp[g].pending = "clean"
      BY <1>t, <3>1 DEF Reconcile, Mark, Record
    <3> QED
      BY <1>h, <3>1, <3>2 DEF CleanInv, Committing
  <2> QED
    BY <2>1, <2>2
<1>5. CASE BeginBatch
  BY <1>5, <1>h DEF BeginBatch, Pending, CleanInv, Committing
<1>6. CASE Snap
  <2>1. /\ pc = "snap" /\ pc' = "stage" /\ batch' = StillPending
        /\ UNCHANGED <<monitored, crashes, index, history>>
        /\ worktree' = Snapshots(StillPending, fs)
        /\ mp' = [f \in Files |-> IF f \in StillPending THEN Snapped(mp[f], fs[f]) ELSE mp[f]]
    BY <1>6, <1>t, <1>w, WholeBatch DEF Snap, WriteSnapshots
  <2>2. \A f \in monitored : f \in StillPending <=> mp[f].pending # "clean"
    BY <1>w, <2>1 DEF CleanInv, Committing
  <2>3. \A f \in monitored : mp'[f].pending = "clean" <=> mp[f].pending = "clean"
    BY <1>t, <1>w, <2>1 DEF Snapped, Record
  <2>4. \A f \in monitored : mp[f].pending = "clean" => worktree'[f] = worktree[f]
    BY <1>t, <2>1, <2>2 DEF Snapshots
  <2> QED
    BY <1>h, <2>1, <2>2, <2>3, <2>4 DEF CleanInv, Committing
<1>7. CASE SnapFails
  <2>0. StillPending \in SUBSET Files /\ SnapshotsFail(StillPending, detached)
    BY <1>7, <1>t, <1>w DEF SnapFails, SnapError
  <2>1. PICK done \in SUBSET StillPending :
          mp' = [f \in Files |-> IF f \in done THEN Snapped(mp[f], fs[f]) ELSE mp[f]]
    BY <2>0, SnapshotsPartly
  <2>2. /\ pc = "snap" /\ pc' = "idle"
        /\ UNCHANGED <<monitored, crashes, index, history>>
    BY <1>7, <2>0, SnapshotsPartly DEF SnapFails, SnapError, RetryLater, LeaveBatch
  <2>3. \A f \in monitored : mp'[f].pending = "clean" =>
          mp[f].pending = "clean" /\ worktree'[f] = worktree[f]
    <3>1. \A f \in monitored : mp'[f].pending = "clean" =>
            mp[f].pending = "clean" /\ f \notin StillPending
      BY <1>t, <1>w, <2>1 DEF Snapped, Record
    <3>2. \A f \in Files \ StillPending : worktree'[f] = worktree[f]
      BY <2>0, SnapshotsPartly
    <3> QED
      BY <1>t, <3>1, <3>2
  <2> QED
    BY <1>h, <2>1, <2>2, <2>3 DEF CleanInv, Committing
<1>8. CASE StageBatch
  <2>1. /\ pc = "stage" /\ pc' = "take"
        /\ UNCHANGED <<mp, monitored, batch, crashes, worktree, history>>
        /\ index' = [f \in Files |-> IF f \in batch THEN worktree[f] ELSE index[f]]
    BY <1>8 DEF StageBatch, Stage
  <2> QED
    BY <1>t, <1>h, <2>1 DEF CleanInv, Committing
<1>9. CASE StageFails
  BY <1>9, <1>h DEF StageFails, StageError, RetryLater, LeaveBatch, CleanInv, Committing
<1>10. CASE Take \/ Reread
  BY <1>10, <1>h DEF Take, Reread, CleanInv, Committing
<1>11. CASE CommitBatch
  <2>1. /\ pc = "commit" /\ pc' = "clear" /\ HeadTree' = index
        /\ UNCHANGED <<mp, monitored, batch, crashes, worktree, index>>
    BY <1>11, <1>h DEF CommitBatch, CommitIndex
  <2> QED
    BY <2>1 DEF CleanInv, Committing
<1>12. CASE CommitFails
  <2>1. /\ pc = "commit" /\ pc' = "idle" /\ HeadTree' \in {HeadTree, index}
        /\ UNCHANGED <<mp, monitored, crashes, worktree, index>>
    BY <1>12, <1>h DEF CommitFails, CommitError, CommitIndex, RetryLater, LeaveBatch
  <2> QED
    BY <2>1 DEF CleanInv, Committing
<1>13. CASE ClearBatch
  BY <1>13, <1>h DEF ClearBatch, CleanInv, Committing
<1>14. CASE Recheck
  <2>1. /\ mp' = [f \in Files |-> IF f \in monitored THEN Reconcile(mp[f], fs[f]) ELSE mp[f]]
        /\ pc = "recheck" /\ pc' = "idle"
        /\ UNCHANGED <<monitored, crashes, worktree, index, history>>
    BY <1>14 DEF Recheck, ReconcileAll
  <2> QED
    BY <1>h, <2>1 DEF CleanInv, Committing
<1>15. CASE Crash
  BY <1>15, <1>t DEF Crash, KilledWriting
<1>16. CASE Start \/ FinishStart
  BY <1>16 DEF Start, FinishStart, ReconcileAll, CleanInv
<1>17. CASE UNCHANGED vars
  BY <1>17, <1>h DEF vars, CleanInv
<1> QED
  BY <1>1, <1>2, <1>3, <1>4, <1>5, <1>6, <1>7, <1>8, <1>9, <1>10, <1>11, <1>12,
     <1>13, <1>14, <1>15, <1>16, <1>17 DEF Next, Running, Loop

LEMMA CleanAlways == Spec => []CleanInv
<1>1. Init => CleanInv
  BY CleanInit
<1>2. TypeOK /\ NothingDetached /\ CleanInv /\ [Next]_vars => CleanInv'
  BY CleanStep
<1> QED
  BY <1>1, <1>2, TypeCorrect, DetachedAlways, PTL DEF Spec

\* In a daemon that has not been killed, a clean file's snapshot is staged and
\* committed, whatever batches failed half-way before.
THEOREM CleanSnapshots == Spec => []SnapshotOfCleanIsCommitted
<1>1. CleanInv => SnapshotOfCleanIsCommitted
  BY DEF CleanInv, SnapshotOfCleanIsCommitted
<1> QED
  BY <1>1, CleanAlways, PTL

(***************************************************************************)
(* The messages of the commits                                             *)
(***************************************************************************)

LEMMA LinesInit == Init => LinesInv
<1> SUFFICES ASSUME Init PROVE LinesInv
  OBVIOUS
<1>1. /\ HeadTree = index /\ Len(history) = 1
  BY DEF Init, HeadTree
<1>2. \A f \in Files : mp[f].pending = "clean"
  BY DEF Init, FromTree, FromSnapshot
<1>3. LinesExplainTree
  BY <1>1 DEF LinesExplainTree
<1>4. monitored \subseteq Files /\ batch = {} /\ pc = "idle"
  BY DEF Init
<1> QED
  BY <1>1, <1>2, <1>3, <1>4 DEF LinesInv

\* The commit of a batch has a line for what it changes, and the right one.
LEMMA CommitExplained ==
  ASSUME TypeOK, CleanInv, LinesInv, crashes = 0,
         pc = "commit", CommitIndex(lines, taken)
  PROVE  LinesExplainTree'
<1> DEFINE c == [tree |-> index, lines |-> lines, message |-> taken]
<1>t. /\ history \in Seq(Commit) /\ c \in Commit
      /\ monitored \subseteq Files
  BY Basics DEF TypeOK, RepositoryTypeOK, BatchTypeOK, MonitorTypeOK
<1>1. \A f \in Files :
        /\ index[f] # HeadTree[f] => lines[f] # NoLine
        /\ lines[f] # NoLine => (lines[f] = DeletedLine <=> index[f] = Absent)
  <2> TAKE f \in Files
  <2>1. index[f] # HeadTree[f] => f \in monitored /\ mp[f].pending # "clean"
    BY DEF CleanInv, LinesInv
  <2>2. f \in monitored /\ mp[f].pending # "clean" => f \in batch
    BY DEF CleanInv, Committing
  <2>3. f \in batch => index[f] = worktree[f]
    BY DEF CleanInv, LinesInv
  <2> QED
    BY <2>1, <2>2, <2>3 DEF LinesInv
<1>2. history' = Append(history, c)
  BY DEF CommitIndex
<1>3. /\ Len(history') = Len(history) + 1 /\ Len(history) \in Nat
      /\ \A i \in 1 .. Len(history) : history'[i] = history[i]
      /\ history'[Len(history) + 1] = c
  BY <1>t, <1>2
<1>4. ASSUME NEW i \in 2 .. Len(history'), NEW f \in Files
      PROVE  LET line == history'[i].lines[f] IN
             /\ history'[i].tree[f] # history'[i - 1].tree[f] => line # NoLine
             /\ line # NoLine => (line = DeletedLine <=> history'[i].tree[f] = Absent)
  <2>1. CASE i = Len(history) + 1
    <3>1. history # << >> /\ history'[i - 1].tree = HeadTree
      BY <1>3, <2>1 DEF HeadTree
    <3>2. history'[i] = c
      BY <1>3, <2>1
    <3> QED
      BY <1>1, <3>1, <3>2
  <2>2. CASE i \in 2 .. Len(history)
    <3>1. history'[i] = history[i] /\ history'[i - 1] = history[i - 1]
      BY <1>3, <2>2
    <3> QED
      BY <2>2, <3>1 DEF LinesInv, LinesExplainTree
  <2> QED
    BY <1>3, <2>1, <2>2
<1> HIDE DEF c
<1> QED
  BY <1>4 DEF LinesExplainTree

LEMMA LinesStep ==
  TypeOK /\ NothingDetached /\ CleanInv /\ LinesInv /\ [Next]_vars => LinesInv'
<1> SUFFICES ASSUME TypeOK, NothingDetached, CleanInv, LinesInv, [Next]_vars, crashes' = 0 PROVE LinesInv'
  BY DEF LinesInv
<1>t. /\ mp \in [Files -> Record] /\ fs \in [Files -> Found]
      /\ monitored \subseteq Files /\ batch \subseteq Files
      /\ crashes \in Nat /\ RepositoryTypeOK
      /\ worktree \in [Files -> Snapshot] /\ index \in [Files -> Snapshot]
      /\ lines \in Lines /\ taken \in Messages \union {NoMessage}
  BY DEF TypeOK, MonitorTypeOK, OutsideTypeOK, BatchTypeOK, RepositoryTypeOK, Tree
<1>h. /\ UNCHANGED history => HeadTree' = HeadTree
      /\ CommitIndex(lines, taken) => HeadTree' = index
  BY <1>t, HeadMoves
<1>l. UNCHANGED <<history, crashes>> /\ crashes = 0 => LinesExplainTree'
  BY DEF LinesInv, LinesExplainTree
<1>r. ASSUME NEW f \in monitored, mp[f].pending # "clean" => mp[f].saves > 0
      PROVE  LET m == Reconcile(mp[f], fs[f]) IN m.pending # "clean" => m.saves > 0
  <2>1. mp[f] \in Record
    BY <1>t
  <2> QED
    BY <1>r, <2>1 DEF Reconcile, Mark, Record
<1>s. \A f \in Files : Snapped(mp[f], fs[f]).saves = mp[f].saves
  <2> TAKE f \in Files
  <2>1. mp[f] \in Record
    BY <1>t
  <2> QED
    BY <2>1 DEF Snapped, Record
<1>w. StillPending = {f \in batch : mp[f].pending # "clean"}
  BY <1>t, WholeBatch
<1>1. ASSUME NEW f \in Files, NEW s \in Outcomes, Edit(f, s) PROVE LinesInv'
  BY <1>1, <1>h, <1>l DEF Edit, LinesInv
<1>2. CASE \E text \in Messages : UserMessage(text)
  BY <1>2, <1>h, <1>l DEF UserMessage, LinesInv
<1>3. CASE TimerFires
  BY <1>3, <1>h, <1>l DEF TimerFires, LinesInv
<1>4. ASSUME NEW f \in Files, HandleFileEvent(f) PROVE LinesInv'
  <2>1. CASE f \notin monitored
    BY <1>4, <2>1, <1>h, <1>l DEF HandleFileEvent, LinesInv
  <2>2. CASE f \in monitored
    <3>1. /\ mp' = [mp EXCEPT ![f] = Reconcile(@, fs[f])]
          /\ pc = "idle" /\ UNCHANGED <<monitored, pc, batch, crashes, index, history>>
      BY <1>4, <2>2 DEF HandleFileEvent
    <3>2. \A g \in monitored : mp'[g].pending # "clean" => mp'[g].saves > 0
      BY <1>t, <1>r, <3>1 DEF LinesInv
    <3> QED
      BY <1>h, <1>l, <3>1, <3>2 DEF LinesInv
  <2> QED
    BY <2>1, <2>2
<1>5. CASE BeginBatch
  BY <1>5, <1>h, <1>l DEF BeginBatch, Pending, LinesInv
<1>6. CASE Snap
  <2>1. /\ pc = "snap" /\ pc' = "stage" /\ batch' = StillPending
        /\ UNCHANGED <<monitored, crashes, index, history>>
        /\ worktree' = Snapshots(StillPending, fs)
        /\ mp' = [f \in Files |-> IF f \in StillPending THEN Snapped(mp[f], fs[f]) ELSE mp[f]]
        /\ lines' = [f \in Files |-> IF f \in StillPending THEN LineOf(f, detached) ELSE NoLine]
    BY <1>6, <1>t, <1>w, WholeBatch DEF Snap, WriteSnapshots, LinesOf
  <2>2. StillPending \subseteq monitored /\ \A f \in StillPending : mp[f].saves > 0
    BY <1>t, <1>w, <2>1 DEF LinesInv, Record
  <2>3. \A f \in monitored : mp'[f].pending # "clean" => mp'[f].saves > 0
    BY <1>t, <1>s, <1>w, <2>1, <2>2 DEF LinesInv
  <2>4. ASSUME NEW f \in Files
        PROVE  /\ lines'[f] # NoLine <=> f \in batch'
               /\ f \in batch' => (lines'[f] = DeletedLine <=> worktree'[f] = Absent)
    <3>1. CASE f \in StillPending
      <4>1. mp[f].saves \in Nat /\ mp[f].saves > 0
        BY <1>t, <2>2, <3>1 DEF Record
      <4>2. lines'[f] = (IF fs[f] = Absent THEN 0 ELSE mp[f].saves) /\ worktree'[f] = fs[f]
        BY <1>t, <2>1, <3>1, WholeBatch DEF DeletedLine, Snapshots
      <4> QED
        BY <2>1, <3>1, <4>1, <4>2 DEF NoLine, DeletedLine
    <3>2. CASE f \notin StillPending
      BY <2>1, <3>2
    <3> QED
      BY <3>1, <3>2
  <2> QED
    BY <1>h, <1>l, <2>1, <2>2, <2>3, <2>4 DEF LinesInv
<1>7. CASE SnapFails
  <2>0. StillPending \in SUBSET Files /\ SnapshotsFail(StillPending, detached)
    BY <1>7, <1>t, <1>w DEF SnapFails, SnapError
  <2>1. PICK done \in SUBSET StillPending :
          mp' = [f \in Files |-> IF f \in done THEN Snapped(mp[f], fs[f]) ELSE mp[f]]
    BY <2>0, SnapshotsPartly
  <2>2. /\ pc' = "idle" /\ batch' = {}
        /\ UNCHANGED <<monitored, crashes, index, history>>
    BY <1>7, <2>0, SnapshotsPartly DEF SnapFails, SnapError, RetryLater, LeaveBatch
  <2>3. \A f \in monitored : mp'[f].pending # "clean" => mp'[f].saves > 0
    BY <1>t, <1>s, <1>w, <2>1, <2>2 DEF LinesInv
  <2> QED
    BY <1>h, <1>l, <2>2, <2>3 DEF LinesInv
<1>8. CASE StageBatch
  <2>1. /\ pc = "stage" /\ pc' = "take"
        /\ UNCHANGED <<mp, monitored, batch, lines, crashes, worktree, history>>
        /\ index' = [f \in Files |-> IF f \in batch THEN worktree[f] ELSE index[f]]
    BY <1>8 DEF StageBatch, Stage
  <2> QED
    BY <1>t, <1>h, <1>l, <2>1 DEF LinesInv
<1>9. CASE StageFails
  BY <1>9, <1>h, <1>l DEF StageFails, StageError, RetryLater, LeaveBatch, LinesInv
<1>10. CASE Take \/ Reread
  BY <1>10, <1>h, <1>l DEF Take, Reread, LinesInv
<1>11. CASE CommitBatch
  <2>1. /\ pc = "commit" /\ pc' = "clear" /\ HeadTree' = index /\ CommitIndex(lines, taken)
        /\ UNCHANGED <<mp, monitored, batch, crashes, index>>
    BY <1>11, <1>h DEF CommitBatch, CommitIndex
  <2>2. LinesExplainTree'
    BY <2>1, CommitExplained
  <2> QED
    BY <2>1, <2>2 DEF LinesInv
<1>12. CASE CommitFails
  <2>1. /\ pc = "commit" /\ pc' = "idle" /\ batch' = {}
        /\ UNCHANGED history \/ CommitIndex(lines, taken)
        /\ UNCHANGED <<mp, monitored, crashes, index>>
    BY <1>12 DEF CommitFails, CommitError, CommitIndex, RetryLater, LeaveBatch
  <2>2. LinesExplainTree'
    BY <1>l, <2>1, CommitExplained
  <2> QED
    BY <1>h, <2>1, <2>2 DEF LinesInv
<1>13. CASE ClearBatch
  <2>1. /\ mp' = [f \in Files |-> IF f \in monitored THEN Cleared(mp[f]) ELSE mp[f]]
        /\ pc' = "recheck" /\ batch' = {}
        /\ UNCHANGED <<monitored, crashes, index, history>>
    BY <1>13 DEF ClearBatch
  <2>2. \A f \in monitored : mp'[f].pending = "clean"
    BY <1>t, <2>1 DEF Cleared, Record
  <2> QED
    BY <1>h, <1>l, <2>1, <2>2 DEF LinesInv
<1>14. CASE Recheck
  <2>1. /\ mp' = [f \in Files |-> IF f \in monitored THEN Reconcile(mp[f], fs[f]) ELSE mp[f]]
        /\ pc' = "idle"
        /\ UNCHANGED <<monitored, batch, crashes, index, history>>
    BY <1>14 DEF Recheck, ReconcileAll
  <2>2. \A f \in monitored : mp'[f].pending # "clean" => mp'[f].saves > 0
    BY <1>t, <1>r, <2>1 DEF LinesInv
  <2> QED
    BY <1>h, <1>l, <2>1, <2>2 DEF LinesInv
<1>15. CASE Crash
  BY <1>15, <1>t DEF Crash, KilledWriting
<1>16. CASE Start \/ FinishStart
  BY <1>16 DEF Start, FinishStart, ReconcileAll, CleanInv
<1>17. CASE UNCHANGED vars
  BY <1>17, <1>h, <1>l DEF vars, LinesInv
<1> QED
  BY <1>1, <1>2, <1>3, <1>4, <1>5, <1>6, <1>7, <1>8, <1>9, <1>10, <1>11, <1>12,
     <1>13, <1>14, <1>15, <1>16, <1>17 DEF Next, Running, Loop

\* In a daemon that has not been killed, the message of every commit explains its
\* tree, whatever was edited during the batch and whatever attempts failed before.
THEOREM MessagesExplain == Spec => []LinesExplainTree
<1>1. LinesInv => LinesExplainTree
  BY DEF LinesInv, LinesExplainTree
<1>2. Init => LinesInv
  BY LinesInit
<1>3. TypeOK /\ NothingDetached /\ CleanInv /\ LinesInv /\ [Next]_vars => LinesInv'
  BY LinesStep
<1> QED
  BY <1>1, <1>2, <1>3, CleanAlways, DetachedAlways, TypeCorrect, PTL DEF Spec

(***************************************************************************)
(* The daemon implements BatchWindow                                       *)
(***************************************************************************)

\* The phase that the place of the window stands for.
LEMMA Phases ==
  ASSUME TypeOK, WindowInv
  PROVE  /\ Phase = "committing" <=> pc \in Committing \ {"clear"}
         /\ Phase = "recorded" <=> pc = "clear"
         /\ Phase = "due" <=> pc \notin Committing /\ batchTimer = "fired"
         /\ Phase = "open" <=> batchTimer = "running"
         /\ Phase = "closed" <=> batchTimer = "nil"
BY DEF TypeOK, WindowTypeOK, WindowInv, Phase, Committing

LEMMA CommitExtends ==
  ASSUME RepositoryTypeOK, NEW ls \in Lines, NEW text \in Messages \union {NoMessage},
         CommitIndex(ls, text)
  PROVE  Window!Extended
<1> DEFINE c == [tree |-> index, lines |-> ls, message |-> text]
<1>1. c \in Commit /\ history \in Seq(Commit) /\ history' = Append(history, c)
  BY Basics DEF RepositoryTypeOK, CommitIndex
<1> HIDE DEF c
<1> QED
  BY <1>1 DEF Window!Extended

LEMMA WindowRefined ==
  TypeOK /\ WindowInv /\ TypeOK' /\ WindowInv' /\ [Next]_vars
    => [Window!Next]_<<Phase, history, pc # "down">>
<1> SUFFICES ASSUME TypeOK, WindowInv, TypeOK', WindowInv', [Next]_vars
             PROVE  Window!Next \/ UNCHANGED <<Phase, history, pc # "down">>
  OBVIOUS
<1>p. /\ Phase = "committing" <=> pc \in Committing \ {"clear"}
      /\ Phase = "recorded" <=> pc = "clear"
      /\ Phase = "due" <=> pc \notin Committing /\ batchTimer = "fired"
      /\ Phase = "open" <=> batchTimer = "running"
      /\ Phase = "closed" <=> batchTimer = "nil"
  BY Phases
<1>q. /\ Phase' = "committing" <=> pc' \in Committing \ {"clear"}
      /\ Phase' = "recorded" <=> pc' = "clear"
      /\ Phase' = "due" <=> pc' \notin Committing /\ batchTimer' = "fired"
      /\ Phase' = "open" <=> batchTimer' = "running"
      /\ Phase' = "closed" <=> batchTimer' = "nil"
  BY DEF TypeOK, WindowTypeOK, WindowInv, Phase, Committing
<1>t. timers \in Nat /\ work \in Nat
  BY DEF TypeOK, WindowTypeOK
<1>u. RepositoryTypeOK /\ lines \in Lines /\ taken \in Messages \union {NoMessage}
  BY DEF TypeOK, BatchTypeOK
<1>v. UNCHANGED <<batchTimer, pc, history>> => UNCHANGED <<Phase, history, pc # "down">>
  BY <1>p, <1>q DEF TypeOK, WindowTypeOK
<1>d. /\ pc \in Committing \/ batchTimer # "nil" => pc # "down"
      /\ pc' \in Committing \/ batchTimer' # "nil" => pc' # "down"
      /\ pc # "down" /\ pc' # "down" => UNCHANGED (pc # "down")
  BY DEF WindowInv, Committing
<1> USE DEF Window!Next, Window!Move
<1>1. CASE \/ \E f \in Files, s \in Outcomes : Edit(f, s)
           \/ \E text \in Messages : UserMessage(text)
           \/ UNCHANGED vars
  BY <1>1, <1>v DEF Edit, UserMessage, vars
<1>2. CASE TimerFires
  <2>1. batchTimer = "running" /\ pc \notin Committing
    BY <1>2, <1>t DEF TimerFires, WindowInv, TypeOK, WindowTypeOK
  <2>2. batchTimer' = "fired" /\ pc' = pc /\ UNCHANGED history
    BY <1>2, <2>1 DEF TimerFires
  <2> QED
    BY <1>p, <1>q, <1>d, <2>1, <2>2 DEF Window!Expire
<1>3. CASE \E f \in Files : HandleFileEvent(f)
  <2>1. /\ pc = "idle" /\ pc' = "idle" /\ UNCHANGED history
        /\ batchTimer' = batchTimer \/ (batchTimer = "nil" /\ batchTimer' = "running")
    <3>1. StartBatch =>
            UNCHANGED windowVars \/ (batchTimer = "nil" /\ batchTimer' = "running")
      <4>1. CASE batchActive \/ batchTimer # "nil"
        BY <4>1 DEF StartBatch
      <4>2. CASE ~(batchActive \/ batchTimer # "nil")
        BY <4>2 DEF StartBatch
      <4> QED
        BY <4>1, <4>2
    <3>2. StartBatch \/ UNCHANGED windowVars
      BY <1>3 DEF HandleFileEvent
    <3>3. pc = "idle" /\ pc' = "idle" /\ UNCHANGED history
      BY <1>3 DEF HandleFileEvent
    <3> QED
      BY <3>1, <3>2, <3>3
  <2> QED
    BY <1>p, <1>q, <1>v, <1>d, <2>1 DEF Window!Open
<1>4. CASE BeginBatch
  <2>1. batchTimer = "fired" /\ pc \notin Committing /\ UNCHANGED history
    BY <1>4, <1>t DEF BeginBatch, WindowInv, TypeOK, WindowTypeOK, Committing
  <2>2. CASE Pending = {}
    <3>1. batchTimer' = "nil" /\ pc = "idle" /\ pc' = "idle"
      BY <1>4, <2>2 DEF BeginBatch, ResetBatch
    <3> QED
      BY <1>p, <1>q, <1>d, <2>1, <3>1 DEF Window!Skip
  <2>3. CASE Pending # {}
    <3>1. pc' = "snap"
      BY <1>4, <2>3 DEF BeginBatch
    <3> QED
      BY <1>p, <1>q, <1>d, <2>1, <3>1 DEF Window!Begin, Committing
  <2> QED
    BY <2>2, <2>3
<1>5. CASE Snap \/ StageBatch \/ Take \/ Reread
  <2>1. /\ pc \in Committing \ {"clear"} /\ pc' \in Committing \ {"clear"}
        /\ UNCHANGED history
    BY <1>5 DEF Snap, WriteSnapshots, StageBatch, Stage, Take, Reread, Committing
  <2> QED
    BY <1>p, <1>q, <1>d, <2>1
<1>6. CASE SnapFails \/ StageFails \/ CommitFails
  <2>1. /\ pc \in Committing \ {"clear"} /\ batchTimer' = "running"
        /\ UNCHANGED history \/ Window!Extended
    BY <1>6, <1>u, CommitExtends
    DEF SnapFails, SnapError, SnapshotsFail, StageFails, StageError, CommitFails, CommitError,
        RetryLater, LeaveBatch, Committing
  <2> QED
    BY <1>p, <1>q, <1>d, <2>1 DEF Window!Retry
<1>7. CASE CommitBatch
  <2>1. pc = "commit" /\ pc' = "clear" /\ Window!Extended
    BY <1>7, <1>u, CommitExtends DEF CommitBatch
  <2> QED
    BY <1>p, <1>q, <2>1 DEF Window!Record, Committing
<1>8. CASE ClearBatch
  BY <1>8, <1>p, <1>q DEF ClearBatch, ResetBatch, Committing, Window!Close
<1>9. CASE Recheck \/ FinishStart
  <2>1. /\ batchTimer = "nil" /\ UNCHANGED history
        /\ pc # "down" /\ pc' # "down"
        /\ batchTimer' = "nil" \/ batchTimer' = "running"
    BY <1>9 DEF Recheck, FinishStart, ReconcileAll, StartBatch, WindowInv
  <2> QED
    BY <1>p, <1>q, <1>d, <2>1 DEF Window!Open
<1>10. CASE Crash
  <2>1. batchTimer' = "nil" /\ UNCHANGED history /\ pc # "down" /\ pc' = "down"
    BY <1>10 DEF Crash, KilledWriting
  <2> QED
    BY <1>q, <2>1 DEF Window!Kill
<1>11. CASE Start
  <2>1. /\ batchTimer = "nil" /\ batchTimer' = "nil" /\ UNCHANGED history
        /\ pc = "down" /\ pc' = "scan"
    BY <1>11 DEF Start, WindowInv
  <2> QED
    BY <1>p, <1>q, <2>1 DEF Window!Restart
<1> QED
  BY <1>1, <1>2, <1>3, <1>4, <1>5, <1>6, <1>7, <1>8, <1>9, <1>10, <1>11
  DEF Next, Running, Loop

\* Windows follow each other without overlap, a failed commit opens one again, and
\* the history grows by at most one commit per window and never changes otherwise.
THEOREM BatchWindowImplemented == Spec => ImplementsBatchWindow
<1>1. Init => Window!Init
  BY DEF Init, Window!Init, Phase, Committing
<1>2. TypeOK /\ WindowInv /\ TypeOK' /\ WindowInv' /\ [Next]_vars
        => [Window!Next]_<<Phase, history, pc # "down">>
  BY WindowRefined
<1> QED
  BY <1>1, <1>2, TypesAndWindow, PTL DEF Spec, ImplementsBatchWindow, Window!Spec
=============================================================================
