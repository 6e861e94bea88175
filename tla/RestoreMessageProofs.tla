------------------------ MODULE RestoreMessageProofs ------------------------
(***************************************************************************)
(* The user's message with two committers: the loop and a forced commit    *)
(* may take it, fail and give it back beside each other.  Without failed   *)
(* writes it still goes into one commit at most, for every choice of the   *)
(* constants.                                                              *)
(***************************************************************************)
EXTENDS RestoreProofs, MessageProofs

USE DEF outsideVars, watchVars, windowVars, messageVars, batchVars, gitVars

\* A text that was given to cm message and that the loop, the file and the history
\* have no longer or not yet.
Free(text) ==
  /\ text \in sent
  /\ text # messageFile
  /\ pc = "commit" => taken # text
  /\ ~InHistory(text)

\* The text that a forced commit has taken is with nobody else.
ForcedMessageInv ==
  faults = 0 =>
    /\ restore.at # "reread"
    /\ restore.at = "commit forced" /\ restore.taken # NoMessage => Free(restore.taken)

\* What nobody else has, no step of the daemon takes up.
LEMMA FreeStays ==
  ASSUME TypeOK, MessageInv, Running \/ UNCHANGED vars, faults' = 0,
         NEW text \in Messages, Free(text)
  PROVE  Free(text)'
<1>t. /\ faults \in Nat /\ lines \in Lines /\ RepositoryTypeOK
      /\ taken \in Messages \union {NoMessage}
  BY DEF TypeOK, OutsideTypeOK, BatchTypeOK
<1>f. ~Fault /\ text # NoMessage
  BY <1>t, DistinctValues DEF Fault
<1>h. UNCHANGED history => (InHistory(text)' <=> InHistory(text))
  BY DEF InHistory
<1> USE DEF Free
<1>1. ASSUME UNCHANGED <<sent, messageFile, history>>, pc' # "commit" \/ UNCHANGED <<pc, taken>>
      PROVE  Free(text)'
  BY <1>h, <1>1
<1>2. ASSUME NEW other \in Messages, UserMessage(other) PROVE Free(text)'
  BY <1>2, <1>h, <1>f DEF UserMessage, NoFault, SetMessage, Persisted
<1>3. ASSUME NEW f \in Files, NEW s \in Outcomes, Edit(f, s) PROVE Free(text)'
  BY <1>1, <1>3 DEF Edit
<1>4. CASE TimerFires \/ \E f \in Files : HandleFileEvent(f)
  BY <1>1, <1>4 DEF TimerFires, HandleFileEvent
<1>5. CASE BeginBatch \/ ClearBatch
  BY <1>1, <1>5 DEF BeginBatch, ClearBatch
<1>6. CASE Snap \/ StageBatch
  BY <1>1, <1>6 DEF Snap, WriteSnapshots, StageBatch, Stage
<1>7. CASE SnapFails \/ StageFails
  BY <1>1, <1>7 DEF SnapFails, SnapError, SnapshotsFail, StageFails, StageError, RetryLater,
                    LeaveBatch
<1>8. CASE Take
  <2>1. /\ pc = "take" /\ taken' = message /\ messageFile' = NoMessage
        /\ UNCHANGED <<faults, sent, history>>
    BY <1>8, <1>f DEF Take, NoFault, TakeAndClear, Persisted
  <2>2. message = messageFile
    BY <2>1 DEF MessageInv
  <2> QED
    BY <1>h, <1>f, <2>1, <2>2
<1>9. CASE Reread
  BY <1>9 DEF Reread, MessageInv
<1>10. CASE CommitBatch
  <2>1. /\ pc = "commit" /\ pc' = "clear" /\ CommitIndex(lines, taken)
        /\ UNCHANGED <<sent, messageFile>>
    BY <1>10 DEF CommitBatch
  <2> QED
    BY <1>t, <2>1, HistoryMoves
<1>11. CASE CommitFails
  <2>1. /\ pc = "commit" /\ pc' = "idle" /\ PutBack(taken)
        /\ UNCHANGED <<sent, history>>
    BY <1>11, <1>f DEF CommitFails, CommitError, NoFault, RetryLater, LeaveBatch
  <2>2. messageFile' \in {messageFile, taken}
    BY <2>1 DEF PutBack, SetMessage, Persisted
  <2> QED
    BY <1>h, <2>1, <2>2
<1>12. CASE Recheck \/ FinishStart
  BY <1>1, <1>12 DEF Recheck, FinishStart, ReconcileAll
<1>13. CASE Start
  BY <1>1, <1>13 DEF Start, Load
<1>14. CASE UNCHANGED vars
  BY <1>1, <1>14 DEF vars
<1> QED
  BY <1>2, <1>3, <1>4, <1>5, <1>6, <1>7, <1>8, <1>9, <1>10, <1>11, <1>12, <1>13, <1>14
  DEF Running, Loop

\* Faults do not go away.
LEMMA DaemonFaults == TypeOK /\ Running /\ faults' = 0 => faults = 0
<1> SUFFICES ASSUME TypeOK, Running, faults' = 0 PROVE faults = 0
  OBVIOUS
<1>t. faults \in Nat
  BY DEF TypeOK, OutsideTypeOK
<1> USE DEF Fault, NoFault
<1>1. ASSUME NEW f \in Files, NEW s \in Outcomes, Edit(f, s) PROVE faults = 0
  BY <1>t, <1>1 DEF Edit
<1>2. ASSUME NEW text \in Messages, UserMessage(text) PROVE faults = 0
  BY <1>t, <1>2 DEF UserMessage
<1>3. ASSUME NEW f \in Files, HandleFileEvent(f) PROVE faults = 0
  BY <1>3 DEF HandleFileEvent
<1>4. CASE TimerFires \/ BeginBatch \/ Snap \/ StageBatch \/ Reread \/ CommitBatch
           \/ ClearBatch \/ Recheck \/ FinishStart
  BY <1>4 DEF TimerFires, BeginBatch, Snap, StageBatch, Reread, CommitBatch, ClearBatch,
              Recheck, FinishStart, ReconcileAll
<1>5. CASE SnapFails \/ StageFails \/ CommitFails
  BY <1>t, <1>5
  DEF SnapFails, SnapError, SnapshotsFail, StageFails, StageError, CommitFails, CommitError
<1>6. CASE Take
  BY <1>t, <1>6 DEF Take
<1>7. CASE Start
  <2>1. NoFault \/ Fault
    BY <1>7 DEF Start
  <2> QED
    BY <1>t, <2>1
<1> QED
  BY <1>1, <1>2, <1>3, <1>4, <1>5, <1>6, <1>7 DEF Running, Loop

\* Whatever commits without a text, the texts stay where they are.
LEMMA MessageAside ==
  ASSUME RepositoryTypeOK, MessageInv, UNCHANGED <<sent, messageVars, pc, taken>>,
         faults' = 0 => faults = 0,
         UNCHANGED history \/ CommitIndex(NoLines, NoMessage)
  PROVE  MessageInv' /\ \A text \in Messages : Free(text) => Free(text)'
<1>1. \A text \in Messages : text # NoMessage
  BY DistinctValues
<1>2. \A text : text # NoMessage => (InHistory(text)' <=> InHistory(text))
  BY HistoryMoves, Basics DEF InHistory
<1>3. (\A i, j \in 1 .. Len(history) : history[i].message = history[j].message
         => i = j \/ history[i].message = NoMessage)
      => \A i, j \in 1 .. Len(history') : history'[i].message = history'[j].message
           => i = j \/ history'[i].message = NoMessage
  BY HistoryMoves, Basics
<1>4. MessageInv'
  BY <1>1, <1>2, <1>3 DEF MessageInv
<1> QED
  BY <1>1, <1>2, <1>4 DEF Free

LEMMA RequestsAside ==
  ASSUME OpsInv, NEW c \in Clients, NEW f \in Files,
         RequestStep(c) \/ AddBegins(c, f) \/ RemoveBegins(c, f)
  PROVE  /\ UNCHANGED <<sent, messageVars, pc, taken>>
         /\ faults' = 0 => faults = 0
         /\ UNCHANGED history \/ CommitIndex(NoLines, NoMessage)
<1>t. faults \in Nat
  BY DEF OpsInv, TypeOK, OutsideTypeOK
<1>1. CASE AddBegins(c, f) \/ RemoveBegins(c, f)
  BY <1>1 DEF AddBegins, RemoveBegins, vars
<1>2. ASSUME NEW g \in Files,
             \/ AddLinks(c, g) \/ AddSnapshots(c, g) \/ AddMonitors(c, g)
             \/ AddWatches(c, g) \/ RemoveUnlinks(c, g) \/ RemoveUnsnaps(c, g)
             \/ RequestFails(c, g)
      PROVE  /\ UNCHANGED <<sent, messageVars, pc, taken, history>>
             /\ faults' = 0 => faults = 0
  BY <1>2, <1>t DEF AddLinks, AddSnapshots, AddMonitors, AddWatches, RemoveUnlinks,
              RemoveUnsnaps, RequestFails, SnapshotFails, Fault, NoFault
<1>3. ASSUME NEW g \in Files, RemoveUnsnapFails(c, g) \/ RequestStages(c, g)
      PROVE  /\ UNCHANGED <<sent, messageVars, pc, taken, history>>
             /\ faults' = 0 => faults = 0
  BY <1>3, <1>t DEF RemoveUnsnapFails, RequestStages, Stage, Fault
<1>4. ASSUME NEW g \in Files, RequestCommits(c, g)
      PROVE  /\ UNCHANGED <<sent, messageVars, pc, taken, faults>>
             /\ CommitIndex(NoLines, NoMessage)
  BY <1>4 DEF RequestCommits
<1> QED
  BY <1>1, <1>2, <1>3, <1>4 DEF RequestStep

\* A kill drops what the loop and the restore hold.
LEMMA MessageKilled ==
  ASSUME OpsInv, MessageInv, NEW F, NEW probe, KilledServing(F, probe)
  PROVE  MessageInv'
<1>1. /\ pc' = "down" /\ taken' = NoMessage /\ message' = NoMessage
      /\ UNCHANGED <<faults, sent, messageFile, history>>
  BY DEF KilledServing, KilledWriting
<1>2. \A text : InHistory(text)' <=> InHistory(text)
  BY <1>1 DEF InHistory
<1> QED
  BY <1>1, <1>2, DistinctValues DEF MessageInv

\* The forced commit takes the text, commits it or gives it back.
LEMMA MessageForced ==
  ASSUME OpsInv, RestoreInv, MessageInv, ForcedMessageInv, faults' = 0,
         ForceTakes \/ ForceCommits \/ ForceFails
  PROVE  MessageInv' /\ ForcedMessageInv'
<1>t. /\ faults \in Nat /\ sent \subseteq Messages /\ RepositoryTypeOK
      /\ message \in Messages \union {NoMessage}
      /\ messageFile \in Messages \union {NoMessage}
      /\ taken \in Messages \union {NoMessage}
      /\ restore \in Restores
      /\ restore.taken \in Messages \union {NoMessage} /\ restore.lines \in Lines
  BY DEF OpsInv, TypeOK, OutsideTypeOK, MessageTypeOK, BatchTypeOK, RestoreInv, Restores
<1>f. ~Fault
  BY <1>t DEF Fault
<1>h. UNCHANGED history => \A text : InHistory(text)' <=> InHistory(text)
  BY DEF InHistory
<1>1. CASE ForceTakes
  <2>1. /\ message' = NoMessage /\ messageFile' = NoMessage
        /\ restore' = [restore EXCEPT !.at = "commit forced", !.taken = message]
        /\ UNCHANGED <<faults, sent, pc, taken, history>>
    BY <1>1, <1>f DEF ForceTakes, NoFault, TakeAndClear, Persisted, Restoring,
                      ForcedMessageInv
  <2>2. restore'.at = "commit forced" /\ restore'.taken = message
    BY <1>t, <2>1 DEF Restores
  <2>3. message # NoMessage =>
          /\ message = messageFile /\ message \in sent /\ ~InHistory(message)
          /\ pc = "commit" => taken # message
    BY <1>t, <2>1, DistinctValues DEF MessageInv
  <2>4. MessageInv'
    BY <1>t, <1>h, <2>1, DistinctValues DEF MessageInv
  <2>5. ASSUME NEW text, text = message, text # NoMessage PROVE Free(text)'
    <3>1. /\ text \in sent' /\ text # messageFile'
          /\ pc' = "commit" => taken' # text
      BY <2>1, <2>3, <2>5
    <3>2. ~InHistory(text)'
      BY <1>h, <2>1, <2>3, <2>5
    <3> QED
      BY <3>1, <3>2 DEF Free
  <2> QED
    BY <2>2, <2>4, <2>5 DEF ForcedMessageInv, Free
<1>2. CASE ForceCommits
  <2>1. /\ Restoring("commit forced") /\ CommitIndex(restore.lines, restore.taken)
        /\ restore' = [restore EXCEPT !.at = "write", !.batch = {}, !.lines = NoLines,
                                      !.taken = NoMessage]
        /\ UNCHANGED <<faults, sent, message, messageFile, pc, taken>>
    BY <1>2 DEF ForceCommits
  <2>2. restore.taken # NoMessage => Free(restore.taken)
    BY <2>1 DEF ForcedMessageInv, Restoring
  <2>3. /\ \A text : InHistory(text)' <=> InHistory(text) \/ text = restore.taken
        /\ (\A i, j \in 1 .. Len(history) : history[i].message = history[j].message
              => i = j \/ history[i].message = NoMessage)
           => \A i, j \in 1 .. Len(history') : history'[i].message = history'[j].message
                => i = j \/ history'[i].message = NoMessage
    BY <1>t, <2>1, <2>2, HistoryMoves DEF Free
  <2>4. MessageInv'
    BY <1>t, <2>1, <2>2, <2>3, DistinctValues DEF MessageInv, Free
  <2>5. restore'.at = "write"
    BY <1>t, <2>1 DEF Restores
  <2> QED
    BY <2>4, <2>5 DEF ForcedMessageInv
<1>3. CASE ForceFails
  <2>1. /\ restore'.at = "none" /\ UNCHANGED <<faults, sent, pc, taken, history>>
        /\ \/ UNCHANGED messageVars
           \/ Restoring("commit forced") /\ PutBack(restore.taken)
    BY <1>3, <1>f DEF ForceFails, Answer, NoRestore, NoFault
  <2>2. CASE UNCHANGED messageVars
    BY <1>t, <1>h, <2>1, <2>2 DEF MessageInv, ForcedMessageInv
  <2>3. CASE /\ Restoring("commit forced") /\ restore.taken # NoMessage
             /\ message' = restore.taken /\ messageFile' = restore.taken
    <3>1. Free(restore.taken)
      BY <2>1, <2>3 DEF ForcedMessageInv, Restoring
    <3> QED
      BY <1>t, <1>h, <2>1, <2>3, <3>1, DistinctValues DEF MessageInv, ForcedMessageInv, Free
  <2> QED
    BY <2>1, <2>2, <2>3 DEF PutBack, SetMessage, Persisted
<1> QED
  BY <1>1, <1>2, <1>3

\* The other steps of a restore.
LEMMA RestoreMessageAside ==
  ASSUME OpsInv, RestoreInv,
         \/ ForceBegins \/ ForceSnaps \/ ForceSnapFails \/ ForceStages
         \/ \E f \in Files : RestoreWrites(f)
         \/ RestoreVerifies \/ RestoreUnexists \/ RestoreSnapshots \/ RestoreStages
         \/ RestoreCommits \/ RestoreUnconfirmed \/ RestoreSettles \/ RestoreFails
  PROVE  /\ UNCHANGED <<sent, messageVars, pc, taken>>
         /\ faults' = 0 => faults = 0
         /\ UNCHANGED history \/ CommitIndex(NoLines, NoMessage)
         /\ restore'.at \notin {"reread", "commit forced"}
<1>t. faults \in Nat /\ restore \in Restores
  BY DEF OpsInv, TypeOK, OutsideTypeOK, RestoreInv
<1> USE DEF Fault, NoFault
<1>1. CASE ForceBegins \/ ForceStages
  BY <1>t, <1>1 DEF ForceBegins, ForceStages, Stage, ProceedTo, vars, Restores
<1>2. CASE ForceSnaps
  <2> DEFINE ls == LinesOf(ForcedFiles, restore.detached)
  <2>1. restore' = [restore EXCEPT !.at = "stage forced", !.batch = ForcedFiles, !.lines = ls,
                                   !.detached = NoLines]
    BY <1>2 DEF ForceSnaps
  <2> HIDE DEF ls
  <2>2. restore'.at = "stage forced"
    BY <1>t, <2>1 DEF Restores
  <2> QED
    BY <1>2, <2>2 DEF ForceSnaps, WriteSnapshots
<1>3. CASE ForceSnapFails
  BY <1>t, <1>3 DEF ForceSnapFails, SnapshotsFail, Answer, NoRestore
<1>4. ASSUME NEW f \in Files, RestoreWrites(f)
      PROVE  /\ UNCHANGED <<sent, messageVars, pc, taken, faults, history>>
             /\ restore'.at \in {"unexist", "verify"}
  BY <1>t, <1>4 DEF RestoreWrites, Restores
<1>5. CASE RestoreVerifies \/ RestoreUnexists \/ RestoreStages
  BY <1>t, <1>5 DEF RestoreVerifies, RestoreUnexists, RestoreStages, Stage, ProceedTo, vars,
                    Restores
<1>6. CASE RestoreSnapshots
  BY <1>t, <1>6 DEF RestoreSnapshots, Restores
<1>7. CASE RestoreCommits
  BY <1>t, <1>7 DEF RestoreCommits, Restores
<1>8. CASE RestoreUnconfirmed \/ RestoreFails
  <2>1. restore'.at = "none" /\ UNCHANGED <<sent, messageVars, pc, taken>>
    BY <1>8 DEF RestoreUnconfirmed, RestoreFails, Answer, NoRestore
  <2>2. UNCHANGED history \/ CommitIndex(NoLines, NoMessage)
    BY <1>8 DEF RestoreUnconfirmed, RestoreFails, SnapshotFails
  <2>3. UNCHANGED faults \/ faults' = faults + 1
    BY <1>8 DEF RestoreUnconfirmed, RestoreFails, SnapshotFails
  <2> QED
    BY <1>t, <2>1, <2>2, <2>3
<1>9. CASE RestoreSettles
  BY <1>t, <1>9 DEF RestoreSettles, Answer, NoRestore
<1> QED
  BY <1>1, <1>2, <1>3, <1>4, <1>5, <1>6, <1>7, <1>8, <1>9

LEMMA ForcedMessageStep ==
  OpsInv /\ RestoreInv /\ MessageInv /\ ForcedMessageInv /\ [RestoreNext]_restoreVars
    => MessageInv' /\ ForcedMessageInv'
<1> SUFFICES ASSUME OpsInv, RestoreInv, MessageInv, ForcedMessageInv,
                    [RestoreNext]_restoreVars, faults' = 0
             PROVE  MessageInv' /\ ForcedMessageInv'
  BY DEF MessageInv, ForcedMessageInv
<1>t. /\ TypeOK /\ RepositoryTypeOK /\ restore \in Restores
      /\ restore.taken \in Messages \union {NoMessage}
  BY DEF OpsInv, TypeOK, RestoreInv, Restores
\* When the restore keeps its step and its text, which nobody takes up.
<1>k. ASSUME restore'.at = restore.at, restore'.taken = restore.taken,
             faults = 0, \A text \in Messages : Free(text) => Free(text)'
      PROVE  ForcedMessageInv'
  BY <1>t, <1>k DEF ForcedMessageInv
<1>1. CASE OpsRunning /\ Observed
  <2>1. restore'.at = restore.at /\ restore'.taken = restore.taken
    BY <1>t, <1>1 DEF Observed, Restores
  <2>2. CASE Running
    <3>1. MessageInv'
      BY <1>t, <2>2, MessageStep DEF Next
    <3>2. faults = 0
      BY <1>t, <2>2, DaemonFaults
    <3> QED
      BY <1>t, <1>k, <2>1, <2>2, <3>1, <3>2, FreeStays
  <2>3. ASSUME NEW c \in Clients, NEW f \in Files, AddBegins(c, f) \/ RemoveBegins(c, f)
        PROVE  MessageInv' /\ ForcedMessageInv'
    BY <1>t, <1>k, <2>1, <2>3, RequestsAside, MessageAside
  <2>4. ASSUME NEW c \in Clients, RequestStep(c) PROVE MessageInv' /\ ForcedMessageInv'
    <3>1. PICK f \in Files : TRUE
      BY <2>4 DEF RequestStep
    <3> QED
      BY <1>t, <1>k, <2>1, <2>4, <3>1, RequestsAside, MessageAside
  <2> QED
    BY <1>1, <2>2, <2>3, <2>4 DEF OpsRunning
<1>2. CASE RestoreKilled \/ RestorePanics
  <2>1. MessageInv'
    BY <1>2, MessageKilled DEF RestoreKilled, RestorePanics, Killed
  <2>2. restore'.at \in {"none", "asked"}
    BY <1>2 DEF RestoreKilled, RestorePanics, Answer, NoRestore, Restoring
  <2> QED
    BY <2>1, <2>2 DEF ForcedMessageInv
<1>3. CASE \/ \E i \in 1 .. Len(history) : \E renames \in RenamesIn(i) :
                RestorePreviews(i, renames)
           \/ RestoreDeclined \/ RestoreBegins
  <2>1. UNCHANGED <<sent, messageVars, pc, taken, faults, history>>
    BY <1>3 DEF RestorePreviews, RestoreDeclined, RestoreBegins, opsVars, vars
  <2>2. restore'.at \in {"none", "asked", "force"}
    <3>1. ASSUME NEW i, NEW renames, RestorePreviews(i, renames) PROVE restore'.at = "asked"
      BY <3>1 DEF RestorePreviews, NoRestore
    <3>2. CASE RestoreDeclined
      BY <3>2 DEF RestoreDeclined, Answer, NoRestore
    <3>3. CASE RestoreBegins
      BY <1>t, <3>3 DEF RestoreBegins, ProceedTo, Restores
    <3> QED
      BY <1>3, <3>1, <3>2, <3>3
  <2> QED
    BY <1>t, <2>1, <2>2, MessageAside DEF ForcedMessageInv
<1>4. CASE RestoreStep
  <2>1. CASE ForceTakes \/ ForceCommits \/ ForceFails
    BY <2>1, MessageForced
  <2>2. CASE ~(ForceTakes \/ ForceCommits \/ ForceFails)
    BY <1>t, <1>4, <2>2, RestoreMessageAside, MessageAside DEF RestoreStep, ForcedMessageInv
  <2> QED
    BY <2>1, <2>2
<1>5. CASE UNCHANGED restoreVars
  <2>1. UNCHANGED <<sent, messageVars, pc, taken, faults, history, restore>>
    BY <1>5 DEF restoreVars, opsVars, vars
  <2> QED
    BY <1>t, <1>k, <2>1, MessageAside DEF ForcedMessageInv
<1> QED
  BY <1>1, <1>2, <1>3, <1>4, <1>5 DEF RestoreNext

LEMMA MessagesShared == RestoreSpec => [](OpsInv /\ RestoreInv /\ MessageInv /\ ForcedMessageInv)
<1>1. RestoreInit => MessageInv /\ ForcedMessageInv
  BY MessageInit DEF RestoreInit, OpsInit, ForcedMessageInv, NoRestore
<1> QED
  BY <1>1, ForcedMessageStep, RestoreAlways, PTL DEF RestoreSpec

\* With a forced commit beside the loop and any number of adds and removes too, a
\* text given to cm message is waiting, with one batch, or in one commit.
THEOREM RestoresMessageOnce == RestoreSpec => []MessageAtMostOnce
<1>1. OpsInv /\ MessageInv => MessageAtMostOnce
  BY MessageInOnePlace DEF OpsInv
<1> QED
  BY <1>1, MessagesShared, PTL

\* And the text that a forced commit holds is nowhere else: not waiting, not with
\* the loop's batch, in no commit.
THEOREM ForcedMessageAlone ==
  RestoreSpec =>
    [](faults = 0 /\ restore.at = "commit forced" /\ restore.taken # NoMessage =>
         /\ message # restore.taken
         /\ pc # "clear" => taken # restore.taken
         /\ ~InHistory(restore.taken))
<1> DEFINE Alone ==
      faults = 0 /\ restore.at = "commit forced" /\ restore.taken # NoMessage =>
        /\ message # restore.taken
        /\ pc # "clear" => taken # restore.taken
        /\ ~InHistory(restore.taken)
<1>1. MessageInv /\ ForcedMessageInv => Alone
  BY DEF MessageInv, ForcedMessageInv, Free
<1> QED
  BY <1>1, MessagesShared, PTL
=============================================================================
