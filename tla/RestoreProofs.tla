--------------------------- MODULE RestoreProofs ---------------------------
(***************************************************************************)
(* Theorems about Restore for every choice of its constants: the registry, *)
(* the types, and the changes that a restore lets pass unnoticed.          *)
(***************************************************************************)
EXTENDS Restore, OperationsProofs

USE DEF outsideVars, watchVars, windowVars, messageVars, batchVars, gitVars, observations

(***************************************************************************)
(* The registry                                                            *)
(***************************************************************************)

LEMMA RestoreLeaves ==
  ASSUME RestoreStep
  PROVE  UNCHANGED <<links, monitored, pc>>
<1>1. CASE ForceBegins \/ ForceSnaps \/ ForceSnapFails \/ ForceStages \/ ForceTakes
  BY <1>1 DEF ForceBegins, ForceSnaps, ForceSnapFails, ForceStages, ForceTakes, vars
<1>2. CASE ForceCommits \/ ForceFails
  BY <1>2 DEF ForceCommits, ForceFails
<1>3. ASSUME NEW f \in Files, RestoreWrites(f) PROVE UNCHANGED <<links, monitored, pc>>
  BY <1>3 DEF RestoreWrites
<1>4. CASE RestoreVerifies \/ RestoreUnexists \/ RestoreSnapshots \/ RestoreStages
  BY <1>4 DEF RestoreVerifies, RestoreUnexists, RestoreSnapshots, RestoreStages, vars
<1>5. CASE RestoreCommits \/ RestoreUnconfirmed \/ RestoreFails
  BY <1>5 DEF RestoreCommits, RestoreUnconfirmed, RestoreFails
<1>6. CASE RestoreSettles
  BY <1>6 DEF RestoreSettles
<1> QED
  BY <1>1, <1>2, <1>3, <1>4, <1>5, <1>6 DEF RestoreStep

LEMMA RestoreRegisteredStep ==
  OpsInv /\ RegisteredInv /\ [RestoreNext]_restoreVars => RegisteredInv'
<1> SUFFICES ASSUME OpsInv, RegisteredInv, [RestoreNext]_restoreVars PROVE RegisteredInv'
  OBVIOUS
<1>1. CASE OpsRunning \/ UNCHANGED restoreVars
  BY <1>1, RegisteredStep DEF OpsNext, restoreVars
<1>2. CASE RestoreKilled \/ RestorePanics
  BY <1>2, RegisteredKilled DEF RestoreKilled, RestorePanics, Killed
<1>3. CASE \/ \E i \in 1 .. Len(history) : \E renames \in RenamesIn(i) :
                RestorePreviews(i, renames)
           \/ RestoreDeclined \/ RestoreBegins
  <2>1. UNCHANGED opsVars
    BY <1>3 DEF RestorePreviews, RestoreDeclined, RestoreBegins
  <2> QED
    BY <2>1, RegisteredStep
<1>4. CASE RestoreStep /\ UNCHANGED <<requests, begun, observations, restored>>
  BY <1>4, RestoreLeaves, Untouched DEF Serving
<1> QED
  BY <1>1, <1>2, <1>3, <1>4 DEF RestoreNext

(***************************************************************************)
(* Type correctness                                                        *)
(***************************************************************************)

\* The restore is about a commit that exists and, while it writes, about a file.
RestoreInv ==
  /\ restore \in Restores
  /\ restored \in 0 .. MaxRestores
  /\ Len(history) \in Nat \ {0}
  /\ ~Restoring("none") => restore.commit \in 1 .. Len(history)
  /\ Restoring("verify") \/ Restoring("unexist") \/ Restoring("snapshot")
       => restore.file \in Files
  /\ Restoring("settle") => restore.made \in 2 .. Len(history)

LEMMA RestoreInitial == RestoreInit => OpsInv /\ SyncInv /\ RestoreInv
<1> SUFFICES ASSUME RestoreInit PROVE OpsInv /\ SyncInv /\ RestoreInv
  OBVIOUS
<1>1. OpsInv /\ SyncInv
  BY OpsInitial DEF RestoreInit
<1>2. NoRestore \in Restores
  BY Basics DEF NoRestore, Restores
<1>3. Len(history) = 1
  BY DEF RestoreInit, OpsInit, Init
<1> QED
  BY <1>1, <1>2, <1>3, RestoresAssumption DEF RestoreInit, RestoreInv, Restoring, NoRestore

\* Whoever commits, the history only grows.
Grown == UNCHANGED history
           \/ \E ls \in Lines, text \in Messages \union {NoMessage} : CommitIndex(ls, text)

LEMMA HistoryGrows ==
  ASSUME RepositoryTypeOK, Len(history) \in Nat \ {0}, Grown
  PROVE  /\ Len(history') \in Nat \ {0} /\ Len(history) <= Len(history')
         /\ ~(UNCHANGED history) => Len(history') = Len(history) + 1
<1>1. CASE UNCHANGED history
  BY <1>1
<1>2. ASSUME NEW ls \in Lines, NEW text \in Messages \union {NoMessage},
             CommitIndex(ls, text)
      PROVE  Len(history') = Len(history) + 1
  <2> DEFINE c == [tree |-> index, lines |-> ls, message |-> text]
  <2>1. c \in Commit /\ history \in Seq(Commit) /\ history' = Append(history, c)
    BY <1>2, Basics DEF RepositoryTypeOK, CommitIndex
  <2> HIDE DEF c
  <2> QED
    BY <2>1
<1> QED
  BY <1>1, <1>2 DEF Grown

LEMMA DaemonGrows == TypeOK /\ [Next]_vars => Grown
<1> SUFFICES ASSUME TypeOK, [Next]_vars PROVE Grown
  OBVIOUS
<1>1. ASSUME NEW f \in Files, NEW s \in Outcomes, Edit(f, s) PROVE Grown
  BY <1>1 DEF Edit, Grown
<1>2. ASSUME NEW text \in Messages, UserMessage(text) PROVE Grown
  BY <1>2 DEF UserMessage, Grown
<1>3. ASSUME NEW f \in Files, HandleFileEvent(f) PROVE Grown
  BY <1>3 DEF HandleFileEvent, Grown
<1>4. CASE TimerFires \/ BeginBatch \/ Take \/ Reread \/ ClearBatch
  BY <1>4 DEF TimerFires, BeginBatch, Take, Reread, ClearBatch, Grown
<1>5. CASE Snap \/ SnapFails \/ StageBatch \/ StageFails
  BY <1>5 DEF Snap, SnapFails, SnapError, SnapshotsFail, WriteSnapshots, StageBatch, Stage,
              StageFails, StageError, Grown
<1>6. CASE CommitBatch \/ CommitFails
  BY <1>6 DEF CommitBatch, CommitFails, CommitError, Grown, TypeOK, BatchTypeOK
<1>7. CASE Recheck \/ Start \/ FinishStart \/ Crash
  BY <1>7 DEF Recheck, Start, FinishStart, ReconcileAll, Crash, KilledWriting, Grown
<1>8. CASE UNCHANGED vars
  BY <1>8 DEF vars, Grown
<1> QED
  BY <1>1, <1>2, <1>3, <1>4, <1>5, <1>6, <1>7, <1>8 DEF Next, Running, Loop

LEMMA RequestsGrow ==
  ASSUME NEW c \in Clients, NEW f \in Files,
         RequestStep(c) \/ AddBegins(c, f) \/ RemoveBegins(c, f)
  PROVE  Grown
<1>1. CASE AddBegins(c, f) \/ RemoveBegins(c, f)
  BY <1>1 DEF AddBegins, RemoveBegins, vars, Grown
<1>2. ASSUME NEW g \in Files,
             \/ AddLinks(c, g) \/ AddSnapshots(c, g) \/ AddMonitors(c, g)
             \/ AddWatches(c, g) \/ RemoveUnlinks(c, g) \/ RemoveUnsnaps(c, g)
             \/ RequestFails(c, g)
      PROVE  Grown
  BY <1>2 DEF AddLinks, AddSnapshots, AddMonitors, AddWatches, RemoveUnlinks,
              RemoveUnsnaps, RequestFails, Grown
<1>3. ASSUME NEW g \in Files, RemoveUnsnapFails(c, g) \/ RequestStages(c, g) PROVE Grown
  BY <1>3 DEF RemoveUnsnapFails, RequestStages, Stage, Grown
<1>4. ASSUME NEW g \in Files, RequestCommits(c, g) PROVE Grown
  BY <1>4, Basics DEF RequestCommits, Grown
<1> QED
  BY <1>1, <1>2, <1>3, <1>4 DEF RequestStep

\* The steps of others change what the restore holds of replaced records, and disturb it
\* when they write a selected file or its snapshot.
LEMMA Observes ==
  ASSUME TypeOK, restore \in Restores, Observed
  PROVE  /\ restore.selected = {} => UNCHANGED restore
         /\ restore.selected # {} =>
              \E b \in BOOLEAN, old \in Lines :
                /\ restore' = [restore EXCEPT !.detached = old, !.calm = b]
                /\ b => restore.calm /\ \A f \in restore.selected :
                                          fs'[f] = fs[f] /\ worktree'[f] = worktree[f]
<1> DEFINE old == [f \in Files |-> DetachedFrom(f)]
           b == /\ restore.calm
                /\ pc # "snap"
                /\ \A f \in restore.selected : fs'[f] = fs[f] /\ worktree'[f] = worktree[f]
<1>1. old \in Lines
  BY DEF DetachedFrom, TypeOK, MonitorTypeOK, Record, Restores, Lines
<1>2. b \in BOOLEAN
  BY DEF Restores
<1>3. restore.selected # {} => restore' = [restore EXCEPT !.detached = old, !.calm = b]
  BY DEF Observed, Restores
<1> HIDE DEF old
<1> QED
  BY <1>1, <1>2, <1>3 DEF Observed

\* How the steps of others, and those that only move on, leave the restore.
LEMMA RestoreMoves ==
  ASSUME TypeOK, RestoreInv, Grown
  PROVE  /\ UNCHANGED <<restore, restored>> => RestoreInv'
         /\ Observed /\ UNCHANGED restored => RestoreInv'
         /\ Answer /\ UNCHANGED restored => RestoreInv'
<1>1. /\ Len(history') \in Nat \ {0} /\ Len(history) <= Len(history')
      /\ \A n : n \in 1 .. Len(history) => n \in 1 .. Len(history')
      /\ \A n : n \in 2 .. Len(history) => n \in 2 .. Len(history')
  BY HistoryGrows DEF TypeOK, RestoreInv
<1>2. UNCHANGED <<restore, restored>> => RestoreInv'
  BY <1>1 DEF RestoreInv, Restoring
<1>3. ASSUME Observed, UNCHANGED restored PROVE RestoreInv'
  <2>1. CASE UNCHANGED restore
    BY <1>2, <1>3, <2>1
  <2>2. CASE \E b \in BOOLEAN, old \in Lines :
               restore' = [restore EXCEPT !.detached = old, !.calm = b]
    <3>1. /\ restore' \in Restores /\ restore'.at = restore.at
          /\ restore'.commit = restore.commit /\ restore'.file = restore.file
          /\ restore'.made = restore.made
      BY <2>2 DEF RestoreInv, Restores
    <3> QED
      BY <1>1, <1>3, <3>1 DEF RestoreInv, Restoring
  <2>3. restore \in Restores
    BY DEF RestoreInv
  <2> QED
    BY <1>3, <2>1, <2>2, <2>3, Observes
<1>4. NoRestore \in Restores
  BY Basics DEF NoRestore, Restores
<1>5. Answer /\ UNCHANGED restored => RestoreInv'
  BY <1>1, <1>4 DEF RestoreInv, Answer, NoRestore, Restoring
<1> QED
  BY <1>2, <1>3, <1>5

\* What a restore writes into files and snapshots is a content, or the lack of one.
LEMMA TargetTypes ==
  ASSUME RepositoryTypeOK, RestoreInv, ~Restoring("none"), NEW f \in Files
  PROVE  Target(f) \in Snapshot
<1>1. history[restore.commit] \in Commit
  BY DEF RepositoryTypeOK, RestoreInv
<1> QED
  BY <1>1 DEF Target, FileStatement, Commit, Tree

\* The steps before the files: the dialogue and the forced commit.
LEMMA ForceRecords ==
  ASSUME OpsInv, RestoreInv,
         \/ ForceBegins \/ ForceSnaps \/ ForceStages \/ ForceTakes \/ ForceCommits
  PROVE  /\ restore' \in Restores
         /\ restore'.at \in ForceSteps \union {"write"}
         /\ restore'.commit = restore.commit /\ ~Restoring("none")
<1> USE DEF Restoring, RestoreInv, Restores, ForceSteps, WriteSteps, ProceedTo
<1>1. CASE ForceBegins
  BY <1>1 DEF ForceBegins, Pending, OpsInv, TypeOK, MonitorTypeOK
<1>2. CASE ForceSnaps
  <2>1. /\ ForcedFiles \subseteq Files
        /\ LinesOf(ForcedFiles, restore.detached) \in Lines /\ NoLines \in Lines
    BY BatchLines, Basics DEF ForcedFiles, OpsInv
  <2> DEFINE ls == LinesOf(ForcedFiles, restore.detached)
  <2>2. /\ restore' = [restore EXCEPT !.at = "stage forced", !.batch = ForcedFiles, !.lines = ls,
                                      !.detached = NoLines]
        /\ Restoring("snap")
    BY <1>2 DEF ForceSnaps
  <2>3. ls \in Lines
    BY <2>1
  <2> HIDE DEF ls
  <2> QED
    BY <2>1, <2>2, <2>3
<1>3. CASE ForceStages \/ ForceCommits
  <2>1. CASE ForceStages
    BY <2>1 DEF ForceStages
  <2>2. CASE ForceCommits
    <3> DEFINE none == NoLines
    <3>1. /\ restore' = [restore EXCEPT !.at = "write", !.batch = {}, !.lines = none,
                                        !.taken = NoMessage]
          /\ restore.at = "commit forced" /\ none \in Lines
      BY <2>2, Basics DEF ForceCommits
    <3> HIDE DEF none
    <3> QED
      BY <3>1
  <2> QED
    BY <1>3, <2>1, <2>2
<1>4. CASE ForceTakes
  <2>1. message \in Messages \union {NoMessage}
    BY DEF OpsInv, TypeOK, MessageTypeOK
  <2>2. Restoring("take") \/ Restoring("reread")
    BY <1>4 DEF ForceTakes
  <2>3. \/ restore' = [restore EXCEPT !.at = "commit forced", !.taken = message]
        \/ restore' = [restore EXCEPT !.at = "reread"]
    BY <1>4 DEF ForceTakes
  <2>4. CASE restore' = [restore EXCEPT !.at = "commit forced", !.taken = message]
    BY <2>1, <2>2, <2>4
  <2>5. CASE restore' = [restore EXCEPT !.at = "reread"]
    BY <2>2, <2>5
  <2> QED
    BY <2>3, <2>4, <2>5
<1> QED
  BY <1>1, <1>2, <1>3, <1>4

\* The steps that write the files, their snapshots and the commit.
LEMMA WriteRecords ==
  ASSUME OpsInv, RestoreInv,
         \/ \E f \in Files : RestoreWrites(f)
         \/ RestoreVerifies \/ RestoreUnexists \/ RestoreSnapshots \/ RestoreStages
         \/ RestoreCommits
  PROVE  /\ restore' \in Restores
         /\ restore'.at \in WriteSteps
         /\ restore'.commit = restore.commit /\ ~Restoring("none")
         /\ restore'.at \in {"verify", "unexist", "snapshot"} => restore'.file \in Files
         /\ restore'.at = "settle" => restore'.made = Len(history) + 1
<1> USE DEF Restoring, RestoreInv, Restores, WriteSteps, ProceedTo
<1>1. ASSUME NEW f \in Files, RestoreWrites(f)
      PROVE  /\ restore' \in Restores /\ restore'.at \in {"verify", "unexist"}
             /\ restore'.commit = restore.commit /\ ~Restoring("none")
             /\ restore'.file \in Files
  BY <1>1 DEF RestoreWrites
<1>2. CASE RestoreVerifies \/ RestoreUnexists \/ RestoreStages
  BY <1>2 DEF RestoreVerifies, RestoreUnexists, RestoreStages
<1>3. CASE RestoreSnapshots
  BY <1>3 DEF RestoreSnapshots
<1>4. CASE RestoreCommits
  <2> DEFINE n == Len(history) + 1
  <2>1. restore' = [restore EXCEPT !.at = "settle", !.made = n] /\ Restoring("commit")
    BY <1>4 DEF RestoreCommits
  <2>2. n \in Nat
    OBVIOUS
  <2> HIDE DEF n
  <2>3. /\ restore' \in Restores /\ restore'.at = "settle" /\ restore'.made = n
        /\ restore'.commit = restore.commit
    BY <2>1, <2>2
  <2> QED
    BY <2>1, <2>3 DEF n
<1> QED
  BY <1>1, <1>2, <1>3, <1>4

LEMMA RestoreGrows ==
  ASSUME OpsInv, RestoreInv, RestoreStep
  PROVE  Grown
<1>1. CASE ForceBegins \/ ForceTakes \/ RestoreVerifies \/ RestoreUnexists \/ RestoreSettles
           \/ RestoreFails \/ RestoreSnapshots
  BY <1>1 DEF ForceBegins, ForceTakes, RestoreVerifies, RestoreUnexists, RestoreSettles,
              RestoreFails, RestoreSnapshots, vars, Grown
<1>2. CASE ForceSnaps \/ ForceSnapFails \/ ForceStages \/ RestoreStages
  BY <1>2 DEF ForceSnaps, ForceSnapFails, SnapshotsFail, WriteSnapshots, ForceStages,
              RestoreStages, Stage, Grown
<1>3. CASE ForceCommits \/ ForceFails
  BY <1>3 DEF ForceCommits, ForceFails, RestoreInv, Restores, Grown
<1>4. CASE RestoreCommits \/ RestoreUnconfirmed
  BY <1>4, Basics DEF RestoreCommits, RestoreUnconfirmed, Grown
<1>5. ASSUME NEW f \in Files, RestoreWrites(f) PROVE Grown
  BY <1>5 DEF RestoreWrites, Grown
<1> QED
  BY <1>1, <1>2, <1>3, <1>4, <1>5 DEF RestoreStep

LEMMA RestoreInvStep ==
  ASSUME OpsInv, RestoreInv, RestoreStep, UNCHANGED restored
  PROVE  RestoreInv'
<1>t. TypeOK /\ RepositoryTypeOK
  BY DEF OpsInv, TypeOK
<1>g. Grown
  BY RestoreGrows
<1>h. /\ Len(history') \in Nat \ {0} /\ Len(history) <= Len(history')
      /\ ~(UNCHANGED history) => Len(history') = Len(history) + 1
      /\ \A n : n \in 1 .. Len(history) => n \in 1 .. Len(history')
  BY <1>t, <1>g, HistoryGrows DEF RestoreInv
<1>1. CASE \/ ForceBegins \/ ForceSnaps \/ ForceStages \/ ForceTakes \/ ForceCommits
  BY <1>1, <1>h, ForceRecords DEF RestoreInv, Restoring, ForceSteps
<1>2. CASE \/ \E f \in Files : RestoreWrites(f)
           \/ RestoreVerifies \/ RestoreUnexists \/ RestoreSnapshots \/ RestoreStages
  <2>1. restore'.at # "settle"
    BY <1>2 DEF RestoreWrites, RestoreVerifies, RestoreUnexists, RestoreSnapshots,
                RestoreStages, ProceedTo, RestoreInv, Restores
  <2> QED
    BY <1>2, <1>h, <2>1, WriteRecords DEF RestoreInv, Restoring, WriteSteps
<1>3. CASE RestoreCommits
  <2>1. Len(history') = Len(history) + 1
    <3>1. \E ls \in Lines, text \in Messages \union {NoMessage} : CommitIndex(ls, text)
      BY <1>3, Basics DEF RestoreCommits
    <3>2. PICK c \in Commit : history' = Append(history, c)
      BY <1>t, <3>1, Basics DEF CommitIndex, RepositoryTypeOK
    <3> QED
      BY <1>t, <3>2 DEF RepositoryTypeOK
  <2>2. restore'.at = "settle" /\ restore'.made = Len(history) + 1
    BY <1>3 DEF RestoreCommits, RestoreInv, Restores
  <2> QED
    BY <1>3, <1>h, <2>1, <2>2, WriteRecords DEF RestoreInv, Restoring
<1>4. CASE ForceSnapFails \/ ForceFails \/ RestoreUnconfirmed \/ RestoreSettles \/ RestoreFails
  <2>1. Answer
    BY <1>4 DEF ForceSnapFails, ForceFails, RestoreUnconfirmed, RestoreSettles, RestoreFails
  <2> QED
    BY <1>t, <1>g, <2>1, RestoreMoves
<1> QED
  BY <1>1, <1>2, <1>3, <1>4 DEF RestoreStep

\* The steps of a restore leave the window, the loop and the requests alone.
LEMMA RestoreAside ==
  ASSUME OpsInv, UNCHANGED <<windowVars, pc, batchVars, requests, begun, observations>>
  PROVE  /\ WindowTypeOK' /\ BatchTypeOK' /\ WindowInv' /\ RequestsInv'
         /\ UNCHANGED messageVars => MessageTypeOK'
<1>1. WindowTypeOK' /\ WindowInv'
  BY WindowMoves, WindowRuns, WindowTypes DEF OpsInv, TypeOK
<1>2. BatchTypeOK' /\ RequestsInv' /\ (UNCHANGED messageVars => MessageTypeOK')
  BY DEF OpsInv, TypeOK, MessageTypeOK, BatchTypeOK, RequestsInv
<1> QED
  BY <1>1, <1>2

\* A forced commit keeps the types.
LEMMA ForceTypes ==
  ASSUME OpsInv, RestoreInv, UNCHANGED <<requests, begun, observations>>,
         \/ ForceBegins \/ ForceSnaps \/ ForceSnapFails \/ ForceStages \/ ForceTakes
         \/ ForceCommits \/ ForceFails
  PROVE  OpsInv'
<1> USE DEF OpsInv, TypeOK
<1>r. /\ restore.batch \subseteq Files /\ restore.lines \in Lines
      /\ restore.detached \in Lines /\ restore.taken \in Messages \union {NoMessage}
  BY DEF RestoreInv, Restores
<1>0. WindowTypeOK' /\ BatchTypeOK' /\ WindowInv' /\ RequestsInv'
  BY RestoreAside DEF ForceBegins, ForceSnaps, ForceSnapFails, ForceStages, ForceTakes,
                      ForceCommits, ForceFails, vars
<1>1. CASE ForceBegins
  BY <1>0, <1>1, RestoreAside
  DEF ForceBegins, vars, RepositoryTypeOK, OutsideTypeOK, MonitorTypeOK
<1>2. CASE ForceSnaps \/ ForceSnapFails
  <2>1. ForcedFiles \in SUBSET Files
    BY <1>r, BatchLines DEF ForcedFiles
  <2>2. RepositoryTypeOK' /\ mp' \in [Files -> Record]
    BY <1>2, <2>1, SnapshotTypes, SnapshotsPartly DEF ForceSnaps, ForceSnapFails
  <2>3. /\ UNCHANGED <<fs, links, edits, crashes, sent, newest, lost, events, watchVars,
                       messageVars>>
        /\ Fault \/ NoFault
    BY <1>2 DEF ForceSnaps, ForceSnapFails, SnapshotsFail, NoFault
  <2>4. OutsideTypeOK' /\ MonitorTypeOK' /\ MessageTypeOK'
    BY <2>2, <2>3, OutsideTypes DEF MonitorTypeOK, MessageTypeOK
  <2> QED
    BY <1>0, <2>2, <2>4
<1>3. CASE ForceStages \/ ForceCommits
  <2>1. RepositoryTypeOK'
    BY <1>3, <1>r, GitTypes, Basics DEF ForceStages, ForceCommits
  <2>2. OutsideTypeOK' /\ MonitorTypeOK' /\ MessageTypeOK'
    BY <1>3, OutsideTypes DEF ForceStages, ForceCommits, MonitorTypeOK, MessageTypeOK
  <2> QED
    BY <1>0, <2>1, <2>2
<1>4. CASE ForceTakes
  <2>1. RepositoryTypeOK' /\ MonitorTypeOK'
    BY <1>4, GitTypes DEF ForceTakes, MonitorTypeOK
  <2>2. OutsideTypeOK'
    BY <1>4, OutsideTypes DEF ForceTakes
  <2>3. MessageTypeOK'
    BY <1>4, MessageTypes DEF ForceTakes
  <2> QED
    BY <1>0, <2>1, <2>2, <2>3
<1>5. CASE ForceFails
  <2>1. RepositoryTypeOK'
    BY <1>5, <1>r, GitTypes DEF ForceFails
  <2>2. MonitorTypeOK' /\ OutsideTypeOK'
    BY <1>5, OutsideTypes DEF ForceFails, MonitorTypeOK
  <2>3. MessageTypeOK'
    BY <1>5, <1>r, MessageTypes DEF ForceFails
  <2> QED
    BY <1>0, <2>1, <2>2, <2>3
<1> QED
  BY <1>1, <1>2, <1>3, <1>4, <1>5

\* And so do the steps that write the files and their commit.
LEMMA WriteTypes ==
  ASSUME OpsInv, RestoreInv, UNCHANGED <<requests, begun, observations>>,
         \/ \E f \in Files : RestoreWrites(f)
         \/ RestoreVerifies \/ RestoreUnexists \/ RestoreSnapshots \/ RestoreStages
         \/ RestoreCommits \/ RestoreUnconfirmed \/ RestoreSettles \/ RestoreFails
  PROVE  OpsInv'
<1> USE DEF OpsInv, TypeOK
<1>r. /\ restore.selected \subseteq Files
      /\ \A tree \in Tree, f \in Files : tree[f] \in Snapshot
  BY DEF RestoreInv, Restores, Tree
<1>0. /\ WindowTypeOK' /\ BatchTypeOK' /\ WindowInv' /\ RequestsInv' /\ MessageTypeOK'
  BY RestoreAside
  DEF RestoreWrites, RestoreVerifies, RestoreUnexists, RestoreSnapshots, RestoreStages,
      RestoreCommits, RestoreUnconfirmed, RestoreSettles, RestoreFails, vars
<1>1. ASSUME NEW f \in Files, RestoreWrites(f) PROVE OpsInv'
  <2>1. Target(f) \in Snapshot
    BY <1>1, TargetTypes DEF RestoreWrites, Restoring
  <2>2. RepositoryTypeOK'
    BY <1>1, GitTypes DEF RestoreWrites
  <2>3. OutsideTypeOK' /\ MonitorTypeOK'
    BY <1>1, <2>1
    DEF RestoreWrites, Noticed, OutsideTypeOK, MonitorTypeOK, Snapshot, Found
  <2> QED
    BY <1>0, <2>2, <2>3
<1>2. CASE RestoreVerifies
  BY <1>0, <1>2 DEF RestoreVerifies, vars, RepositoryTypeOK, OutsideTypeOK, MonitorTypeOK
<1>3. CASE RestoreUnexists
  <2>1. restore.file \in Files
    BY <1>3 DEF RestoreInv, RestoreUnexists
  <2>2. RepositoryTypeOK' /\ OutsideTypeOK'
    BY <1>3, <2>1, GitTypes, OutsideTypes DEF RestoreUnexists, OutsideTypeOK
  <2>3. \A f \in Files : [mp[f] EXCEPT !.exists = FALSE] \in Record
    BY DEF MonitorTypeOK, Record
  <2>4. MonitorTypeOK'
    BY <1>3, <2>3 DEF RestoreUnexists, MonitorTypeOK
  <2> QED
    BY <1>0, <2>2, <2>4
<1>4. CASE RestoreSnapshots
  <2>1. restore.file \in Files /\ Target(restore.file) \in Snapshot
    BY <1>4, TargetTypes DEF RestoreInv, RestoreSnapshots, Restoring
  <2>2. RepositoryTypeOK'
    BY <1>4, <2>1 DEF RestoreSnapshots, RepositoryTypeOK, Tree
  <2>3. OutsideTypeOK' /\ MonitorTypeOK'
    BY <1>4, OutsideTypes DEF RestoreSnapshots, MonitorTypeOK
  <2> QED
    BY <1>0, <2>2, <2>3
<1>5. CASE RestoreStages \/ RestoreCommits
  <2>1. RepositoryTypeOK'
    BY <1>5, <1>r, GitTypes, Basics DEF RestoreStages, RestoreCommits
  <2>2. OutsideTypeOK' /\ MonitorTypeOK'
    BY <1>5, OutsideTypes DEF RestoreStages, RestoreCommits, MonitorTypeOK
  <2> QED
    BY <1>0, <2>1, <2>2
<1>6. CASE RestoreUnconfirmed \/ RestoreFails
  <2>1. RepositoryTypeOK'
    <3>1. CASE RestoreUnconfirmed
      BY <3>1, GitTypes, Basics DEF RestoreUnconfirmed
    <3>2. CASE RestoreFails /\ UNCHANGED worktree
      BY <3>2, GitTypes DEF RestoreFails
    <3>3. CASE RestoreFails /\ Restoring("snapshot")
                /\ SnapshotFails(restore.file, Target(restore.file))
      BY <3>3, SnapshotPartly DEF RestoreFails, RestoreInv, Restoring
    <3> QED
      BY <1>6, <3>1, <3>2, <3>3 DEF RestoreFails
  <2>2. Fault \/ NoFault
    BY <1>6 DEF RestoreUnconfirmed, RestoreFails, SnapshotFails
  <2>3. OutsideTypeOK' /\ MonitorTypeOK'
    BY <1>6, <2>2, OutsideTypes DEF RestoreUnconfirmed, RestoreFails, MonitorTypeOK
  <2> QED
    BY <1>0, <2>1, <2>3
<1>7. CASE RestoreSettles
  <2>1. history[restore.made].tree \in Tree
    <3>1. history[restore.made] \in Commit
      BY <1>7 DEF RestoreInv, RestoreSettles, RepositoryTypeOK
    <3> QED
      BY <3>1 DEF Commit
  <2>2. \A f \in Files : /\ Cleared(mp[f]) \in Record
                         /\ Settled(mp[f], history[restore.made].tree[f]) \in Record
    <3> TAKE f \in Files
    <3>1. Cleared(mp[f]) \in Record
      BY ClearedTypes DEF MonitorTypeOK
    <3>2. history[restore.made].tree[f] \in Contents \union {Absent}
      BY <1>r, <2>1 DEF Snapshot
    <3> DEFINE s == history[restore.made].tree[f]
               m == Cleared(mp[f])
    <3> HIDE DEF s, m
    <3>3. (IF s = Absent THEN m.last ELSE s) \in Contents \union {Absent}
      BY <3>1, <3>2 DEF s, m, Record
    <3>4. [m EXCEPT !.last = IF s = Absent THEN @ ELSE s] \in Record
      BY <3>1, <3>3 DEF m, Record
    <3> QED
      BY <3>1, <3>4 DEF s, m, Settled
  <2>3. MonitorTypeOK'
    <3>1. PICK unread \in SUBSET restore.selected :
            mp' = [f \in Files |->
                     IF f \notin restore.selected THEN mp[f]
                     ELSE IF f \in unread THEN Cleared(mp[f])
                     ELSE Settled(mp[f], history[restore.made].tree[f])]
      BY <1>7 DEF RestoreSettles
    <3>2. mp' \in [Files -> Record]
      BY <2>2, <3>1 DEF MonitorTypeOK
    <3>3. UNCHANGED <<watched, events, monitored>>
      BY <1>7 DEF RestoreSettles
    <3> QED
      BY <3>2, <3>3 DEF MonitorTypeOK
  <2>4. RepositoryTypeOK'
    BY <1>7, GitTypes DEF RestoreSettles
  <2>5. OutsideTypeOK'
    <3>1. lost' \subseteq Files /\ (Fault \/ NoFault)
      BY <1>7, <1>r DEF RestoreSettles, OutsideTypeOK
    <3>2. UNCHANGED <<fs, links, edits, crashes, sent, newest>>
      BY <1>7 DEF RestoreSettles
    <3> QED
      BY <3>1, <3>2, BoundsAssumption DEF OutsideTypeOK, Fault, NoFault
  <2> QED
    BY <1>0, <2>3, <2>4, <2>5
<1> QED
  BY <1>1, <1>2, <1>3, <1>4, <1>5, <1>6, <1>7

\* The dialogue of the command.
LEMMA DialogueStep ==
  ASSUME OpsInv, RestoreInv,
         \/ \E i \in 1 .. Len(history) : \E renames \in RenamesIn(i) :
              RestorePreviews(i, renames)
         \/ (RestoreDeclined \/ RestoreBegins) /\ UNCHANGED restored
  PROVE  OpsInv' /\ RestoreInv'
<1>0. UNCHANGED opsVars
  BY DEF RestorePreviews, RestoreDeclined, RestoreBegins
<1>1. OpsInv' /\ Grown
  BY <1>0, OpsStep DEF opsVars, vars, Grown
<1>t. TypeOK /\ RepositoryTypeOK /\ UNCHANGED history
  BY <1>0 DEF OpsInv, TypeOK, opsVars, vars
<1>2. CASE RestoreDeclined /\ UNCHANGED restored
  BY <1>1, <1>2, <1>t, RestoreMoves DEF RestoreDeclined
<1>3. CASE RestoreBegins /\ UNCHANGED restored
  <2>1. restore' \in Restores
    BY <1>3 DEF RestoreBegins, RestoreInv, Restores, ForceSteps
  <2>2. restore'.at = "force" /\ restore'.commit = restore.commit /\ Restoring("asked")
    BY <1>3 DEF RestoreBegins, RestoreInv, Restores
  <2>3. Len(history') = Len(history)
    BY <1>t
  <2>4. /\ restore.commit \in 1 .. Len(history) /\ Len(history) \in Nat \ {0}
        /\ restored \in 0 .. MaxRestores /\ restored' = restored
    BY <1>3, <2>2 DEF RestoreInv, Restoring
  <2> QED
    BY <1>1, <2>1, <2>2, <2>3, <2>4 DEF RestoreInv, Restoring
<1>4. ASSUME NEW i \in 1 .. Len(history), NEW renames \in RenamesIn(i),
             RestorePreviews(i, renames)
      PROVE  RestoreInv'
  <2>1. AffectedFiles(i, renames) \subseteq Files
    BY DEF AffectedFiles, ChangedBy
  <2>2. NoRestore \in Restores
    BY Basics DEF NoRestore, Restores
  <2>3. restore' = [NoRestore EXCEPT !.at = "asked", !.commit = i,
                                     !.affected = AffectedFiles(i, renames)]
    BY <1>4 DEF RestorePreviews
  <2> DEFINE affected == AffectedFiles(i, renames)
  <2>n. i \in Nat
    BY DEF RestoreInv
  <2> HIDE DEF affected
  <2>4. restore' \in Restores /\ restore'.at = "asked" /\ restore'.commit = i
    <3>1. restore' = [NoRestore EXCEPT !.at = "asked", !.commit = i, !.affected = affected]
      BY <2>3 DEF affected
    <3>2. affected \subseteq Files
      BY <2>1 DEF affected
    <3> QED
      BY <2>n, <2>2, <3>1, <3>2 DEF Restores
  <2>5. restored' \in 0 .. MaxRestores
    <3>1. restored' = restored + 1 /\ restored < MaxRestores
      BY <1>4 DEF RestorePreviews
    <3>2. restored \in 0 .. MaxRestores
      BY DEF RestoreInv
    <3> QED
      BY <3>1, <3>2, RestoresAssumption
  <2>6. Len(history') = Len(history)
    BY <1>t
  <2> QED
    BY <2>4, <2>5, <2>6 DEF RestoreInv, Restoring
<1> QED
  BY <1>1, <1>2, <1>3, <1>4

\* Every step keeps types, window, requests and restore.
LEMMA RestoreNextStep ==
  OpsInv /\ RestoreInv /\ [RestoreNext]_restoreVars => OpsInv' /\ RestoreInv'
<1> SUFFICES ASSUME OpsInv, RestoreInv, [RestoreNext]_restoreVars
             PROVE  OpsInv' /\ RestoreInv'
  OBVIOUS
<1>t. RepositoryTypeOK /\ TypeOK
  BY DEF OpsInv, TypeOK
<1>1. CASE OpsRunning /\ Observed /\ UNCHANGED restored
  <2>1. OpsInv'
    BY <1>1, OpsStep DEF OpsNext
  <2>2. Grown
    <3>1. CASE Running
      BY <1>t, <3>1, DaemonGrows DEF Next
    <3>2. ASSUME NEW c \in Clients, NEW f \in Files, AddBegins(c, f) \/ RemoveBegins(c, f)
          PROVE  Grown
      BY <3>2, RequestsGrow
    <3>3. ASSUME NEW c \in Clients, RequestStep(c) PROVE Grown
      BY <3>3, RequestsGrow DEF RequestStep
    <3> QED
      BY <1>1, <3>1, <3>2, <3>3 DEF OpsRunning
  <2> QED
    BY <1>1, <1>t, <2>1, <2>2, RestoreMoves
<1>2. CASE (RestoreKilled \/ RestorePanics) /\ UNCHANGED restored
  <2>1. PICK F, probe : KilledServing(F, probe)
    BY <1>2 DEF RestoreKilled, RestorePanics, Killed
  <2>2. OpsInv'
    BY <2>1, KillTypes
  <2>3. Grown
    BY <2>1 DEF KilledServing, KilledWriting, Grown
  <2>4. UNCHANGED restore \/ Answer
    BY <1>2 DEF RestoreKilled, RestorePanics
  <2> QED
    BY <1>2, <1>t, <2>2, <2>3, <2>4, RestoreMoves
<1>3. CASE \/ \E i \in 1 .. Len(history) : \E renames \in RenamesIn(i) :
                RestorePreviews(i, renames)
           \/ (RestoreDeclined \/ RestoreBegins) /\ UNCHANGED restored
  BY <1>3, DialogueStep
<1>4. CASE RestoreStep /\ UNCHANGED <<requests, begun, observations, restored>>
  <2>1. OpsInv'
    BY <1>4, ForceTypes, WriteTypes DEF RestoreStep
  <2> QED
    BY <1>4, <2>1, RestoreInvStep
<1>5. CASE UNCHANGED restoreVars
  <2>1. OpsInv'
    BY <1>5, OpsStep DEF restoreVars
  <2>2. UNCHANGED <<restore, restored>> /\ Grown
    BY <1>5 DEF restoreVars, opsVars, vars, Grown
  <2> QED
    BY <1>t, <2>1, <2>2, RestoreMoves
<1> QED
  BY <1>1, <1>2, <1>3, <1>4, <1>5 DEF RestoreNext

LEMMA RestoreAlways == RestoreSpec => [](OpsInv /\ RestoreInv)
<1>1. RestoreInit => OpsInv /\ RestoreInv
  BY RestoreInitial
<1> QED
  BY <1>1, RestoreNextStep, PTL DEF RestoreSpec

\* Every variable stays within its domain, and a restore that is about to confirm
\* has a commit that exists, whoever else commits meanwhile.
THEOREM RestoreTypes == RestoreSpec => []RestoreTypeOK
<1>1. OpsInv /\ RestoreInv => RestoreTypeOK
  BY DEF OpsInv, RequestsInv, OpsTypeOK, RestoreInv, RestoreTypeOK
<1> QED
  BY <1>1, RestoreAlways, PTL

\* With any number of connections, what is monitored is registered, unless requests for
\* the file overlapped, wherever adds, removes and restores fail, panic or are killed.
THEOREM Registered == RestoreSpec => []MonitoredAreRegistered
<1>1. RegisteredInv => MonitoredAreRegistered
  BY DEF RegisteredInv, MonitoredAreRegistered
<1>2. RestoreInit => RegisteredInv
  BY RegisteredInit DEF RestoreInit
<1> QED
  BY <1>1, <1>2, RestoreRegisteredStep, RestoreAlways, PTL DEF RestoreSpec

\* A forced commit and a restore open no window and close none, beside the loop's.
THEOREM RestoresOneWindow == RestoreSpec => []AtMostOneWindow
<1>1. OpsInv => AtMostOneWindow
  BY DEF OpsInv, TypeOK, WindowTypeOK, WindowInv, AtMostOneWindow
<1> QED
  BY <1>1, RestoreAlways, PTL

(***************************************************************************)
(* No change is missed                                                     *)
(***************************************************************************)

\* Writing the files is an edit like any other, and settling a record agrees with
\* the file unless the file is not what was committed.
LEMMA RestoreSync ==
  ASSUME OpsInv, RestoreInv, SyncInv, RestoreStep
  PROVE  SyncInv'
<1> USE DEF SyncInv, Serving
<1>t. mp \in [Files -> Record] /\ fs \in [Files -> Found] /\ monitored \subseteq Files
  BY DEF OpsInv, TypeOK, MonitorTypeOK, OutsideTypeOK
<1>1. CASE \/ ForceBegins \/ ForceStages \/ ForceTakes \/ ForceCommits \/ ForceFails
           \/ RestoreVerifies \/ RestoreSnapshots \/ RestoreStages \/ RestoreCommits
           \/ RestoreUnconfirmed \/ RestoreFails
  BY <1>1 DEF ForceBegins, ForceStages, ForceTakes, ForceCommits, ForceFails,
              RestoreVerifies, RestoreSnapshots, RestoreStages, RestoreCommits,
              RestoreUnconfirmed, RestoreFails, vars
<1>2. CASE ForceSnaps \/ ForceSnapFails
  <2>1. PICK done \in SUBSET Files :
          mp' = [f \in Files |-> IF f \in done THEN Snapped(mp[f], fs[f]) ELSE mp[f]]
    <3>1. ForcedFiles \in SUBSET Files
      BY DEF ForcedFiles, StillPendingIn, RestoreInv, Restores
    <3>2. CASE ForceSnaps
      BY <3>1, <3>2, SnapshotTypes DEF OpsInv, ForceSnaps
    <3>3. CASE ForceSnapFails
      BY <3>1, <3>3, SnapshotsPartly DEF OpsInv, ForceSnapFails
    <3> QED
      BY <1>2, <3>2, <3>3
  <2>2. UNCHANGED <<fs, monitored, lost, events, pc>>
    BY <1>2 DEF ForceSnaps, ForceSnapFails
  <2>3. \A f \in monitored : Transition(mp'[f], fs[f]) => Transition(mp[f], fs[f])
    <3> SUFFICES ASSUME NEW f \in monitored, Transition(mp'[f], fs[f])
                 PROVE  Transition(mp[f], fs[f])
      OBVIOUS
    <3> QED
      BY <1>t, <2>1, InStep
  <2> QED
    BY <2>2, <2>3
<1>3. ASSUME NEW f \in Files, RestoreWrites(f) PROVE SyncInv'
  <2>1. /\ fs' = [fs EXCEPT ![f] = Target(f)]
        /\ IF fs[f] = Absent /\ Target(f) = Absent THEN UNCHANGED <<events, lost>>
                                                   ELSE Noticed(f)
        /\ UNCHANGED <<mp, monitored, pc>>
    BY <1>3 DEF RestoreWrites
  <2>2. CASE fs[f] = Absent /\ Target(f) = Absent
    <3>1. fs' = fs
      BY <1>t, <2>1, <2>2
    <3> QED
      BY <2>1, <2>2, <3>1
  <2>3. CASE Noticed(f)
    BY <1>t, <2>1, <2>3 DEF Noticed
  <2> QED
    BY <2>1, <2>2, <2>3
<1>4. CASE RestoreUnexists
  <2>1. /\ mp' = [f \in Files |-> IF f = restore.file /\ f \in monitored
                                  THEN [mp[f] EXCEPT !.exists = FALSE] ELSE mp[f]]
        /\ lost' = IF fs[restore.file] = Absent THEN lost ELSE lost \union {restore.file}
        /\ UNCHANGED <<fs, events, monitored, pc>>
    BY <1>4 DEF RestoreUnexists
  <2>2. \A f \in monitored \ lost' : Transition(mp'[f], fs[f]) => Transition(mp[f], fs[f])
    <3> SUFFICES ASSUME NEW f \in monitored \ lost', Transition(mp'[f], fs[f])
                 PROVE  Transition(mp[f], fs[f])
      OBVIOUS
    <3>1. CASE f = restore.file
      BY <1>t, <2>1, <3>1 DEF Transition, Record
    <3>2. CASE f # restore.file
      BY <1>t, <2>1, <3>2
    <3> QED
      BY <3>1, <3>2
  <2> QED
    BY <2>1, <2>2
<1>5. CASE RestoreSettles
  <2>1. PICK unread \in SUBSET restore.selected :
          mp' = [f \in Files |->
                   IF f \notin restore.selected THEN mp[f]
                   ELSE IF f \in unread THEN Cleared(mp[f])
                   ELSE Settled(mp[f], history[restore.made].tree[f])]
    BY <1>5 DEF RestoreSettles
  <2>2. /\ lost' = lost \union {f \in restore.selected : fs[f] # history[restore.made].tree[f]}
        /\ UNCHANGED <<fs, events, monitored, pc>>
    BY <1>5 DEF RestoreSettles
  <2>3. \A f \in monitored \ lost' : Transition(mp'[f], fs[f]) => Transition(mp[f], fs[f])
    <3> SUFFICES ASSUME NEW f \in monitored \ lost', Transition(mp'[f], fs[f])
                 PROVE  Transition(mp[f], fs[f])
      OBVIOUS
    <3>1. CASE f \notin restore.selected
      BY <1>t, <2>1, <3>1
    <3>2. CASE f \in unread
      <4>1. mp'[f] = Cleared(mp[f])
        BY <1>t, <2>1, <3>2
      <4> QED
        BY <1>t, <4>1, InStep
    <3>3. CASE f \in restore.selected \ unread
      <4>1. mp'[f] = Settled(mp[f], fs[f])
        BY <1>t, <2>1, <2>2, <3>3
      <4> QED
        BY <1>t, <4>1 DEF Settled, Cleared, Transition, Record
    <3> QED
      BY <3>1, <3>2, <3>3
  <2> QED
    BY <2>2, <2>3
<1> QED
  BY <1>1, <1>2, <1>3, <1>4, <1>5 DEF RestoreStep

LEMMA RestoreSyncStep ==
  OpsInv /\ RestoreInv /\ SyncInv /\ [RestoreNext]_restoreVars => SyncInv'
<1> SUFFICES ASSUME OpsInv, RestoreInv, SyncInv, [RestoreNext]_restoreVars PROVE SyncInv'
  OBVIOUS
<1>1. CASE OpsRunning \/ UNCHANGED restoreVars
  BY <1>1, OpsSyncStep DEF OpsNext, restoreVars
<1>2. CASE RestoreKilled \/ RestorePanics
  BY <1>2 DEF RestoreKilled, RestorePanics, Killed, KilledServing, KilledWriting, SyncInv,
              Serving
<1>3. CASE \/ \E i \in 1 .. Len(history) : \E renames \in RenamesIn(i) :
                RestorePreviews(i, renames)
           \/ RestoreDeclined \/ RestoreBegins
  <2>1. UNCHANGED opsVars
    BY <1>3 DEF RestorePreviews, RestoreDeclined, RestoreBegins
  <2> QED
    BY <2>1, OpsSyncStep
<1>4. CASE RestoreStep
  BY <1>4, RestoreSync
<1> QED
  BY <1>1, <1>2, <1>3, <1>4 DEF RestoreNext

\* Beside restores, adds and removes, a monitored file that differs from its record
\* has an event on the way, but for edits that a restore has overtaken and those
\* that nobody could or did report.
THEOREM RestoresMissNothing == RestoreSpec => []NoMissedChange
<1>1. SyncInv => NoMissedChange
  BY DEF SyncInv, Serving, NoMissedChange
<1>2. RestoreInit => SyncInv
  BY RestoreInitial
<1> QED
  BY <1>1, <1>2, RestoreSyncStep, RestoreAlways, PTL DEF RestoreSpec
(***************************************************************************)
(* A restore restores                                                      *)
(***************************************************************************)

\* What a restore that nobody disturbs has done when it is at a step: the selected
\* files that are not left have the state asked for, with their snapshots; so has
\* the file in hand; at the end the index has it, and then the newest commit.
AskedInv ==
  /\ restore.at \in {"none", "asked"} <=> restore.selected = {}
  /\ restore.left \subseteq restore.selected
  /\ restore.calm =>
       /\ restore.at \in ForceSteps => restore.left = restore.selected
       /\ restore.at \in WriteSteps =>
            \A f \in restore.selected \ restore.left :
              fs[f] = Target(f) /\ worktree[f] = Target(f)
       /\ restore.at \in {"verify", "unexist", "snapshot"} =>
            restore.file \in restore.left /\ fs[restore.file] = Target(restore.file)
       /\ restore.at \in {"stage", "commit", "settle"} => restore.left = {}
       /\ restore.at \in {"commit", "settle"} =>
            \A f \in restore.selected : index[f] = Target(f)
       /\ restore.at = "settle" => \A f \in restore.selected : HeadTree[f] = Target(f)

LEMMA AskedInit == RestoreInit => AskedInv
BY DEF RestoreInit, AskedInv, NoRestore, ForceSteps, WriteSteps

LEMMA AskedNone == Answer => AskedInv'
BY DEF Answer, AskedInv, NoRestore, ForceSteps, WriteSteps

\* The commit asked for stays what it was.
LEMMA TargetKeeps ==
  ASSUME RepositoryTypeOK, RestoreInv, Grown, ~Restoring("none"),
         restore'.commit = restore.commit
  PROVE  \A f \in Files : Target(f)' = Target(f)
<1>1. restore.commit \in 1 .. Len(history)
  BY DEF RestoreInv
<1>2. CASE UNCHANGED history
  BY <1>2 DEF Target, FileStatement
<1>3. ASSUME NEW ls \in Lines, NEW text \in Messages \union {NoMessage},
             CommitIndex(ls, text)
      PROVE  history'[restore.commit] = history[restore.commit]
  <2> DEFINE c == [tree |-> index, lines |-> ls, message |-> text]
  <2>1. c \in Commit /\ history \in Seq(Commit) /\ history' = Append(history, c)
    BY <1>3, Basics DEF RepositoryTypeOK, CommitIndex
  <2> HIDE DEF c
  <2> QED
    BY <1>1, <2>1
<1> QED
  BY <1>2, <1>3 DEF Grown, Target, FileStatement

\* Only staging writes the index, and it copies snapshots; only a commit moves the
\* newest tree, and that to the index.
Restaged == UNCHANGED index \/ \E F \in SUBSET Files : Stage(F)

LEMMA DaemonRestages == TypeOK /\ (Running \/ UNCHANGED vars) => Restaged
<1> SUFFICES ASSUME TypeOK, Running \/ UNCHANGED vars PROVE Restaged
  OBVIOUS
<1>1. ASSUME NEW f \in Files, NEW s \in Outcomes, Edit(f, s) PROVE Restaged
  BY <1>1 DEF Edit, Restaged
<1>2. ASSUME NEW text \in Messages, UserMessage(text) PROVE Restaged
  BY <1>2 DEF UserMessage, Restaged
<1>3. ASSUME NEW f \in Files, HandleFileEvent(f) PROVE Restaged
  BY <1>3 DEF HandleFileEvent, Restaged
<1>4. CASE TimerFires \/ BeginBatch \/ Take \/ Reread \/ ClearBatch
  BY <1>4 DEF TimerFires, BeginBatch, Take, Reread, ClearBatch, Restaged
<1>5. CASE Snap \/ SnapFails \/ StageFails
  BY <1>5 DEF Snap, SnapFails, SnapError, SnapshotsFail, WriteSnapshots, StageFails,
              StageError, Restaged
<1>6. CASE StageBatch
  BY <1>6 DEF StageBatch, TypeOK, BatchTypeOK, Restaged
<1>7. CASE CommitBatch \/ CommitFails
  BY <1>7 DEF CommitBatch, CommitFails, CommitError, CommitIndex, Restaged
<1>8. CASE Recheck \/ Start \/ FinishStart
  BY <1>8 DEF Recheck, Start, FinishStart, ReconcileAll, Restaged
<1>9. CASE UNCHANGED vars
  BY <1>9 DEF vars, Restaged
<1> QED
  BY <1>1, <1>2, <1>3, <1>4, <1>5, <1>6, <1>7, <1>8, <1>9 DEF Running, Loop

LEMMA RequestsRestage ==
  ASSUME NEW c \in Clients, NEW f \in Files,
         RequestStep(c) \/ AddBegins(c, f) \/ RemoveBegins(c, f)
  PROVE  Restaged
<1>1. CASE AddBegins(c, f) \/ RemoveBegins(c, f)
  BY <1>1 DEF AddBegins, RemoveBegins, vars, Restaged
<1>2. ASSUME NEW g \in Files,
             \/ AddLinks(c, g) \/ AddSnapshots(c, g) \/ AddMonitors(c, g)
             \/ AddWatches(c, g) \/ RemoveUnlinks(c, g) \/ RemoveUnsnaps(c, g)
             \/ RequestFails(c, g)
      PROVE  Restaged
  BY <1>2 DEF AddLinks, AddSnapshots, AddMonitors, AddWatches, RemoveUnlinks,
              RemoveUnsnaps, RequestFails, Restaged
<1>3. ASSUME NEW g \in Files, RemoveUnsnapFails(c, g) \/ RequestStages(c, g) PROVE Restaged
  <2>1. UNCHANGED gitVars \/ Stage({g})
    BY <1>3 DEF RemoveUnsnapFails, RequestStages
  <2> QED
    BY <2>1 DEF Restaged
<1>4. ASSUME NEW g \in Files, RequestCommits(c, g) PROVE Restaged
  BY <1>4 DEF RequestCommits, CommitIndex, Restaged
<1> QED
  BY <1>1, <1>2, <1>3, <1>4 DEF RequestStep

LEMMA IndexMoves ==
  ASSUME RepositoryTypeOK, Grown, Restaged
  PROVE  /\ \A f \in Files : index'[f] \in {index[f], worktree[f]}
         /\ HeadTree' = HeadTree \/ (HeadTree' = index /\ UNCHANGED index)
<1>1. \A f \in Files : index'[f] \in {index[f], worktree[f]}
  BY DEF Restaged, Stage
<1>2. CASE UNCHANGED history
  BY <1>1, <1>2, HeadMoves
<1>3. ASSUME NEW ls \in Lines, NEW text \in Messages \union {NoMessage},
             CommitIndex(ls, text)
      PROVE  HeadTree' = index /\ UNCHANGED index
  BY <1>3, HeadMoves DEF CommitIndex
<1> QED
  BY <1>1, <1>2, <1>3 DEF Grown

\* What the daemon and the requests do beside a restore either disturbs it, or
\* leaves the files and the snapshots, which is all that can be staged.
LEMMA AskedBeside ==
  ASSUME OpsInv, RestoreInv, AskedInv, Grown, Restaged, Observed
  PROVE  AskedInv'
<1>t. /\ RepositoryTypeOK /\ restore \in Restores /\ restore.selected \subseteq Files
      /\ restore.calm \in BOOLEAN
  BY DEF OpsInv, TypeOK, RestoreInv, Restores
<1>m. TypeOK
  BY DEF OpsInv
<1>1. CASE restore.selected = {}
  <2>1. restore' = restore
    BY <1>1 DEF Observed
  <2> QED
    BY <1>1, <2>1 DEF AskedInv, ForceSteps, WriteSteps
<1>2. CASE restore.selected # {}
  <2>1. PICK b \in BOOLEAN, old \in Lines :
          /\ restore' = [restore EXCEPT !.detached = old, !.calm = b]
          /\ b => restore.calm /\ \A f \in restore.selected :
                                    fs'[f] = fs[f] /\ worktree'[f] = worktree[f]
    BY <1>t, <1>m, <1>2, Observes
  <2>2. /\ restore'.at = restore.at /\ restore'.selected = restore.selected
        /\ restore'.left = restore.left /\ restore'.file = restore.file
        /\ restore'.commit = restore.commit /\ restore'.calm = b
    BY <1>t, <2>1 DEF Restores
  <2>3. \A f \in Files : Target(f)' = Target(f)
    BY <1>t, <1>2, <2>2, TargetKeeps DEF AskedInv, Restoring
  <2>4. /\ \A f \in Files : index'[f] \in {index[f], worktree[f]}
        /\ HeadTree' = HeadTree \/ (HeadTree' = index /\ UNCHANGED index)
    BY <1>t, IndexMoves
  <2>5. CASE ~b
    BY <2>2, <2>5 DEF AskedInv
  <2>6. CASE b
    <3>1. restore.left \subseteq restore.selected /\ restore.calm
      BY <2>1, <2>6 DEF AskedInv
    <3>2. restore.at \in {"commit", "settle"} =>
            \A f \in restore.selected : worktree[f] = Target(f) /\ index[f] = Target(f)
      BY <3>1 DEF AskedInv, WriteSteps
    <3>3. restore.at \in {"commit", "settle"} =>
            \A f \in restore.selected : index'[f] = Target(f)'
      BY <1>t, <2>3, <2>4, <3>2
    <3>4. restore.at = "settle" => \A f \in restore.selected : HeadTree'[f] = Target(f)'
      BY <1>t, <2>3, <2>4, <3>1, <3>2 DEF AskedInv
    <3>5. restore.at \in WriteSteps =>
            \A f \in restore.selected \ restore.left :
              fs'[f] = Target(f)' /\ worktree'[f] = Target(f)'
      BY <1>t, <2>1, <2>3, <2>6, <3>1 DEF AskedInv
    <3>6. restore.at \in {"verify", "unexist", "snapshot"} =>
            restore.file \in restore.left /\ fs'[restore.file] = Target(restore.file)'
      BY <1>t, <2>1, <2>3, <2>6, <3>1 DEF AskedInv
    <3> QED
      BY <2>2, <3>1, <3>3, <3>4, <3>5, <3>6 DEF AskedInv
  <2> QED
    BY <2>5, <2>6
<1> QED
  BY <1>1, <1>2

\* The forced commit comes before any file is written.
LEMMA AskedForce ==
  ASSUME OpsInv, RestoreInv, AskedInv,
         \/ ForceBegins \/ ForceSnaps \/ ForceStages \/ ForceTakes \/ ForceCommits
  PROVE  AskedInv'
<1>1. restore \in Restores
  BY DEF RestoreInv
<1>2. /\ restore.at \in ForceSteps
      /\ restore'.at \in ForceSteps \union {"write"}
      /\ restore'.selected = restore.selected /\ restore'.left = restore.left
      /\ restore'.calm = restore.calm
  <2> USE DEF Restoring, Restores, ForceSteps, ProceedTo
  <2>1. CASE ForceBegins
    BY <1>1, <2>1 DEF ForceBegins
  <2>2. CASE ForceSnaps
    <3> DEFINE ls == LinesOf(ForcedFiles, restore.detached)
    <3>1. /\ Restoring("snap")
          /\ restore' = [restore EXCEPT !.at = "stage forced", !.batch = ForcedFiles,
                                        !.lines = ls, !.detached = NoLines]
      BY <2>2 DEF ForceSnaps
    <3> HIDE DEF ls
    <3> QED
      BY <1>1, <3>1
  <2>3. CASE ForceStages \/ ForceCommits
    BY <1>1, <2>3 DEF ForceStages, ForceCommits
  <2>4. CASE ForceTakes
    BY <1>1, <2>4 DEF ForceTakes
  <2> QED
    BY <2>1, <2>2, <2>3, <2>4
<1> QED
  BY <1>2 DEF AskedInv, ForceSteps, WriteSteps

\* The steps that write the files, their snapshots, the index and the commit.
LEMMA AskedWrite ==
  ASSUME OpsInv, RestoreInv, AskedInv,
         \/ \E f \in Files : RestoreWrites(f)
         \/ RestoreVerifies \/ RestoreUnexists \/ RestoreSnapshots \/ RestoreStages
         \/ RestoreCommits
  PROVE  AskedInv'
<1>t. /\ RepositoryTypeOK /\ restore \in Restores /\ restore.selected \subseteq Files
      /\ fs \in [Files -> Found] /\ worktree \in [Files -> Snapshot]
      /\ index \in [Files -> Snapshot]
  BY DEF OpsInv, TypeOK, RestoreInv, Restores, OutsideTypeOK, RepositoryTypeOK, Tree
<1>g. Grown
  BY RestoreGrows DEF RestoreStep
<1>w. /\ restore'.commit = restore.commit /\ ~Restoring("none")
      /\ restore'.at \in WriteSteps
  BY WriteRecords
<1>T. \A f \in Files : Target(f)' = Target(f)
  BY <1>t, <1>g, <1>w, TargetKeeps
<1>s. restore'.selected = restore.selected /\ restore'.calm = restore.calm
  BY <1>t DEF RestoreWrites, RestoreVerifies, RestoreUnexists, RestoreSnapshots,
              RestoreStages, RestoreCommits, ProceedTo, Restores
<1> USE DEF Restoring, ForceSteps, WriteSteps
<1>1. ASSUME NEW f \in Files, RestoreWrites(f) PROVE AskedInv'
  <2>1. /\ restore.at = "write" /\ f \in restore.left /\ fs' = [fs EXCEPT ![f] = Target(f)]
        /\ restore'.at \in {"verify", "unexist"} /\ restore'.file = f
        /\ restore'.left = restore.left /\ UNCHANGED worktree
    BY <1>t, <1>1 DEF RestoreWrites, Restores
  <2> QED
    BY <1>t, <1>T, <1>s, <2>1 DEF AskedInv
<1>2. CASE RestoreVerifies \/ RestoreUnexists
  <2>1. /\ restore.at \in {"verify", "unexist"} /\ restore'.at = "snapshot"
        /\ restore'.file = restore.file /\ restore'.left = restore.left
        /\ UNCHANGED <<fs, worktree>>
    BY <1>t, <1>2 DEF RestoreVerifies, RestoreUnexists, ProceedTo, Restores, vars
  <2> QED
    BY <1>t, <1>T, <1>s, <2>1 DEF AskedInv
<1>3. CASE RestoreSnapshots
  <2>1. /\ restore.at = "snapshot"
        /\ worktree' = [worktree EXCEPT ![restore.file] = Target(restore.file)]
        /\ restore'.left = restore.left \ {restore.file}
        /\ restore'.at = IF restore'.left = {} THEN "stage" ELSE "write"
        /\ UNCHANGED fs
    BY <1>t, <1>3 DEF RestoreSnapshots, Restores
  <2> QED
    BY <1>t, <1>T, <1>s, <2>1 DEF AskedInv
<1>4. CASE RestoreStages
  <2>1. /\ restore.at = "stage" /\ restore'.at = "commit" /\ restore'.left = restore.left
        /\ index' = [f \in Files |-> IF f \in restore.selected THEN worktree[f] ELSE index[f]]
        /\ UNCHANGED <<fs, worktree>>
    BY <1>t, <1>4 DEF RestoreStages, Stage, ProceedTo, Restores
  <2> QED
    BY <1>t, <1>T, <1>s, <2>1 DEF AskedInv
<1>5. CASE RestoreCommits
  <2>1. /\ restore.at = "commit" /\ restore'.at = "settle" /\ restore'.left = restore.left
        /\ UNCHANGED <<fs, worktree, index>>
    BY <1>t, <1>5 DEF RestoreCommits, CommitIndex, Restores
  <2>2. HeadTree' = index
    BY <1>t, <1>5, HeadMoves, Basics DEF RestoreCommits
  <2> QED
    BY <1>t, <1>T, <1>s, <2>1, <2>2 DEF AskedInv
<1> QED
  BY <1>1, <1>2, <1>3, <1>4, <1>5

LEMMA AskedStep ==
  OpsInv /\ RestoreInv /\ AskedInv /\ [RestoreNext]_restoreVars => AskedInv'
<1> SUFFICES ASSUME OpsInv, RestoreInv, AskedInv, [RestoreNext]_restoreVars
             PROVE  AskedInv'
  OBVIOUS
<1>t. TypeOK /\ restore \in Restores
  BY DEF OpsInv, RestoreInv
<1>1. CASE OpsRunning /\ Observed
  <2>1. CASE Running
    BY <1>t, <1>1, <2>1, DaemonGrows, DaemonRestages, AskedBeside DEF Next
  <2>2. ASSUME NEW c \in Clients, NEW f \in Files, AddBegins(c, f) \/ RemoveBegins(c, f)
        PROVE  AskedInv'
    BY <1>1, <2>2, RequestsGrow, RequestsRestage, AskedBeside
  <2>3. ASSUME NEW c \in Clients, RequestStep(c) PROVE AskedInv'
    <3>1. PICK f \in Files : TRUE
      BY <2>3 DEF RequestStep
    <3> QED
      BY <1>1, <2>3, <3>1, RequestsGrow, RequestsRestage, AskedBeside
  <2> QED
    BY <1>1, <2>1, <2>2, <2>3 DEF OpsRunning
<1>2. CASE RestoreKilled
  <2>1. CASE Restoring("asked") /\ UNCHANGED restore
    BY <2>1 DEF AskedInv, Restoring, ForceSteps, WriteSteps
  <2> QED
    BY <1>2, <2>1, AskedNone DEF RestoreKilled
<1>3. ASSUME NEW i \in 1 .. Len(history), NEW renames \in RenamesIn(i),
             RestorePreviews(i, renames)
      PROVE  AskedInv'
  <2> DEFINE affected == AffectedFiles(i, renames)
  <2>1. restore' = [NoRestore EXCEPT !.at = "asked", !.commit = i, !.affected = affected]
    BY <1>3 DEF RestorePreviews
  <2> HIDE DEF affected
  <2> QED
    BY <2>1 DEF AskedInv, NoRestore, ForceSteps, WriteSteps
<1>4. CASE RestoreBegins
  <2>1. /\ restore'.at = "force" /\ restore'.selected # {}
        /\ restore'.left = restore'.selected
    BY <1>t, <1>4 DEF RestoreBegins, Restores
  <2> QED
    BY <2>1 DEF AskedInv, ForceSteps, WriteSteps
<1>5. CASE RestoreDeclined \/ RestorePanics
  BY <1>5, AskedNone DEF RestoreDeclined, RestorePanics
<1>6. CASE RestoreStep
  <2>1. CASE ForceSnapFails \/ ForceFails \/ RestoreUnconfirmed \/ RestoreSettles
             \/ RestoreFails
    BY <2>1, AskedNone DEF ForceSnapFails, ForceFails, RestoreUnconfirmed, RestoreSettles,
                           RestoreFails
  <2> QED
    BY <1>6, <2>1, AskedForce, AskedWrite DEF RestoreStep
<1>7. CASE UNCHANGED restoreVars
  <2>1. UNCHANGED <<fs, worktree, index, history, restore>>
    BY <1>7 DEF restoreVars, opsVars, vars
  <2>2. HeadTree' = HeadTree
    BY <1>t, <2>1, HeadMoves DEF TypeOK
  <2>3. \A f \in Files : Target(f)' = Target(f)
    BY <2>1 DEF Target, FileStatement
  <2>4. restore.selected \subseteq Files
    BY <1>t DEF Restores
  <2> QED
    BY <2>1, <2>2, <2>3, <2>4 DEF AskedInv
<1> QED
  BY <1>1, <1>2, <1>3, <1>4, <1>5, <1>6, <1>7 DEF RestoreNext

\* A restore that nobody disturbs ends with every selected file, and the newest
\* commit, as in the commit asked for, whoever else stages and commits meanwhile.
THEOREM RestoresAsAsked == RestoreSpec => []RestoredAsAsked
<1>1. ASSUME RestoreInv, AskedInv PROVE RestoredAsAsked
  BY <1>1 DEF RestoredAsAsked, AskedInv, Restoring, WriteSteps, Target, FileStatement
<1>2. RestoreInv /\ AskedInv => RestoredAsAsked
  BY <1>1
<1> QED
  BY <1>2, AskedInit, AskedStep, RestoreAlways, PTL DEF RestoreSpec
=============================================================================
