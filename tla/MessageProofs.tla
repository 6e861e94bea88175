--------------------------- MODULE MessageProofs ---------------------------
(***************************************************************************)
(* The user's message in CmDaemon: without failed writes, a text given to  *)
(* cm message goes into one commit at most, through failing batches, kills *)
(* and restarts, for every choice of the constants.                        *)
(***************************************************************************)
EXTENDS CmDaemonProofs, FiniteSetTheorems

USE DEF outsideVars, watchVars, windowVars, messageVars, batchVars, gitVars

InHistory(text) == \E i \in 1 .. Len(history) : history[i].message = text

\* The text is in the file until the batch takes it, with the batch until git has it
\* or the batch gives it back, and then in one commit.
MessageInv ==
  faults = 0 =>
    /\ pc # "reread"
    /\ message = messageFile \/ (pc = "down" /\ message = NoMessage)
    /\ pc \notin {"commit", "clear"} => taken = NoMessage
    /\ pc = "commit" /\ taken # NoMessage => taken # messageFile /\ ~InHistory(taken)
    /\ messageFile # NoMessage => ~InHistory(messageFile)
    /\ \A text \in Messages :
         text = messageFile \/ text = taken \/ InHistory(text) => text \in sent
    /\ \A i, j \in 1 .. Len(history) :
         history[i].message = history[j].message => i = j \/ history[i].message = NoMessage

LEMMA MessageInit == Init => MessageInv
<1> SUFFICES ASSUME Init PROVE MessageInv
  OBVIOUS
<1>1. /\ Len(history) = 1 /\ history[1].message = NoMessage
      /\ message = NoMessage /\ messageFile = NoMessage /\ taken = NoMessage /\ pc = "idle"
  BY DEF Init
<1>2. \A text : InHistory(text) => text = NoMessage
  BY <1>1 DEF InHistory
<1>3. \A i, j \in 1 .. Len(history) : i = j
  BY <1>1
<1> QED
  BY <1>1, <1>2, <1>3, DistinctValues DEF MessageInv

\* A commit adds the text it was given to those in the history.
LEMMA HistoryMoves ==
  ASSUME RepositoryTypeOK, NEW ls \in Lines, NEW given \in Messages \union {NoMessage},
         CommitIndex(ls, given)
  PROVE  /\ \A text : InHistory(text)' <=> InHistory(text) \/ text = given
         /\ (given = NoMessage \/ ~InHistory(given))
            /\ (\A i, j \in 1 .. Len(history) : history[i].message = history[j].message
                  => i = j \/ history[i].message = NoMessage)
            => \A i, j \in 1 .. Len(history') : history'[i].message = history'[j].message
                  => i = j \/ history'[i].message = NoMessage
<1> DEFINE c == [tree |-> index, lines |-> ls, message |-> given]
<1>1. history \in Seq(Commit) /\ c \in Commit /\ history' = Append(history, c)
  BY Basics DEF RepositoryTypeOK, CommitIndex
<1>2. c.message = given
  OBVIOUS
<1> HIDE DEF c
<1>3. /\ Len(history) \in Nat /\ Len(history') = Len(history) + 1
      /\ \A i \in 1 .. Len(history) : history'[i] = history[i]
      /\ history'[Len(history) + 1] = c
  BY <1>1
<1>4. /\ \A i \in 1 .. Len(history) : history'[i].message = history[i].message
      /\ history'[Len(history) + 1].message = given
      /\ 1 .. Len(history') = (1 .. Len(history)) \cup {Len(history) + 1}
  BY <1>2, <1>3
<1>5. \A text : InHistory(text)' <=> InHistory(text) \/ text = given
  BY <1>3, <1>4 DEF InHistory
<1>6. ASSUME given = NoMessage \/ ~InHistory(given),
             \A i, j \in 1 .. Len(history) : history[i].message = history[j].message
               => i = j \/ history[i].message = NoMessage,
             NEW i \in 1 .. Len(history'), NEW j \in 1 .. Len(history'),
             history'[i].message = history'[j].message
      PROVE  i = j \/ history'[i].message = NoMessage
  <2>1. CASE i \in 1 .. Len(history) /\ j \in 1 .. Len(history)
    BY <1>4, <1>6, <2>1
  <2>2. CASE i = Len(history) + 1 \/ j = Len(history) + 1
    BY <1>4, <1>6, <2>2 DEF InHistory
  <2> QED
    BY <1>4, <2>1, <2>2
<1> QED
  BY <1>5, <1>6

LEMMA MessageStep == TypeOK /\ MessageInv /\ [Next]_vars => MessageInv'
<1> SUFFICES ASSUME TypeOK, MessageInv, [Next]_vars, faults' = 0 PROVE MessageInv'
  BY DEF MessageInv
<1>t. /\ faults \in Nat /\ sent \subseteq Messages
      /\ message \in Messages \union {NoMessage}
      /\ messageFile \in Messages \union {NoMessage}
      /\ taken \in Messages \union {NoMessage} /\ lines \in Lines /\ RepositoryTypeOK
  BY DEF TypeOK, OutsideTypeOK, MessageTypeOK, BatchTypeOK
<1>f. ~Fault
  BY <1>t DEF Fault
<1>h. UNCHANGED history => \A text : InHistory(text)' <=> InHistory(text)
  BY DEF InHistory
<1> DEFINE Elsewhere ==
             /\ UNCHANGED <<faults, message, messageFile, sent, history>>
             /\ \/ pc' = pc /\ taken' = taken
                \/ /\ pc' \notin {"commit", "clear", "reread"} /\ pc # "down"
                   /\ taken' = NoMessage \/ (pc \notin {"commit", "clear"} /\ taken' = taken)
<1>1. Elsewhere => MessageInv'
  <2> SUFFICES ASSUME Elsewhere PROVE MessageInv'
    OBVIOUS
  <2>1. \A text : InHistory(text)' <=> InHistory(text)
    BY <1>h
  <2>2. taken' \in {taken, NoMessage}
    OBVIOUS
  <2> QED
    BY <1>t, <2>1, <2>2, DistinctValues DEF MessageInv
<1>2. ASSUME NEW text \in Messages, UserMessage(text) PROVE MessageInv'
  <2>1. /\ text \notin sent /\ sent' = sent \union {text} /\ pc # "down"
        /\ message' = text /\ messageFile' = text
        /\ UNCHANGED <<faults, pc, taken, history>>
    BY <1>2, <1>f DEF UserMessage, NoFault, Serving, SetMessage, Persisted
  <2>2. /\ text # messageFile /\ text # taken /\ ~InHistory(text)
        /\ \A t : InHistory(t)' <=> InHistory(t)
    BY <1>h, <2>1 DEF MessageInv
  <2> QED
    BY <1>t, <2>1, <2>2, DistinctValues DEF MessageInv
<1>3. ASSUME NEW f \in Files, NEW s \in Outcomes, Edit(f, s) PROVE MessageInv'
  BY <1>1, <1>3, <1>f DEF Edit, NoFault
<1>4. CASE TimerFires \/ \E f \in Files : HandleFileEvent(f)
  BY <1>1, <1>4 DEF TimerFires, HandleFileEvent
<1>5. CASE BeginBatch
  BY <1>1, <1>5 DEF BeginBatch
<1>6. CASE Snap \/ StageBatch
  BY <1>1, <1>6 DEF Snap, WriteSnapshots, StageBatch, Stage
<1>7. CASE SnapFails \/ StageFails
  <2>1. /\ pc \in {"snap", "stage"} /\ pc' = "idle" /\ taken' = NoMessage
        /\ UNCHANGED <<sent, message, messageFile, history>>
    BY <1>7 DEF SnapFails, SnapError, SnapshotsFail, StageFails, StageError, RetryLater,
                LeaveBatch
  <2>2. UNCHANGED faults
    BY <1>7, <1>f DEF SnapFails, SnapError, SnapshotsFail, NoFault, StageFails, StageError
  <2> QED
    BY <1>1, <2>1, <2>2
<1>8. CASE Take
  <2>1. /\ pc = "take" /\ pc' = "commit" /\ taken' = message
        /\ message' = NoMessage /\ messageFile' = NoMessage
        /\ UNCHANGED <<faults, sent, history>>
    BY <1>8, <1>f DEF Take, NoFault, TakeAndClear, Persisted
  <2> QED
    BY <1>h, <2>1, DistinctValues DEF MessageInv
<1>9. CASE Reread
  BY <1>9 DEF Reread, MessageInv
<1>10. CASE CommitBatch
  <2>1. /\ pc = "commit" /\ pc' = "clear" /\ CommitIndex(lines, taken)
        /\ UNCHANGED <<faults, sent, messageVars, taken>>
    BY <1>10 DEF CommitBatch
  <2> QED
    BY <2>1, <1>t, HistoryMoves DEF MessageInv
<1>11. CASE CommitFails
  <2>1. /\ pc = "commit" /\ pc' = "idle" /\ taken' = NoMessage
        /\ PutBack(taken)
        /\ UNCHANGED <<faults, sent, history>>
    BY <1>11, <1>f DEF CommitFails, CommitError, NoFault, RetryLater, LeaveBatch
  <2>2. CASE taken = NoMessage
    BY <1>1, <2>1, <2>2 DEF PutBack
  <2>3. CASE taken # NoMessage
    <3>1. message' = taken /\ messageFile' = taken
      BY <2>1, <2>3 DEF PutBack, SetMessage, Persisted
    <3>2. ~InHistory(taken) /\ \A text : InHistory(text)' <=> InHistory(text)
      BY <1>h, <2>1, <2>3 DEF MessageInv
    <3> QED
      BY <1>t, <2>1, <2>3, <3>1, <3>2, DistinctValues DEF MessageInv
  <2> QED
    BY <2>2, <2>3
<1>12. CASE ClearBatch
  <2>1. /\ pc = "clear" /\ pc' = "recheck" /\ taken' = NoMessage
        /\ UNCHANGED <<faults, sent, message, messageFile, history>>
    BY <1>12 DEF ClearBatch
  <2> QED
    BY <1>1, <2>1
<1>13. CASE Recheck \/ FinishStart
  BY <1>1, <1>13 DEF Recheck, FinishStart, ReconcileAll
<1>14. CASE Crash
  <2>1. /\ pc' = "down" /\ taken' = NoMessage /\ message' = NoMessage
        /\ UNCHANGED <<faults, sent, messageFile, history>>
    BY <1>14 DEF Crash, KilledWriting
  <2> QED
    BY <1>h, <2>1, DistinctValues DEF MessageInv
<1>15. CASE Start
  <2>1. /\ pc = "down" /\ pc' = "scan" /\ message' = messageFile
        /\ UNCHANGED <<faults, sent, messageFile, taken, history>>
    BY <1>15, <1>f DEF Start, Load, NoFault
  <2>2. taken = NoMessage /\ \A text : InHistory(text)' <=> InHistory(text)
    BY <1>h, <2>1 DEF MessageInv
  <2> QED
    BY <1>t, <2>1, <2>2, DistinctValues DEF MessageInv
<1>16. CASE UNCHANGED vars
  BY <1>1, <1>16 DEF vars
<1> QED
  BY <1>2, <1>3, <1>4, <1>5, <1>6, <1>7, <1>8, <1>9, <1>10, <1>11, <1>12, <1>13,
     <1>14, <1>15, <1>16 DEF Next, Running, Loop

LEMMA MessageInOnePlace ==
  ASSUME TypeOK, MessageInv
  PROVE  MessageAtMostOnce
<1> SUFFICES ASSUME faults = 0, NEW text \in Messages
             PROVE  LET Uses == {i \in 1 .. Len(history) : history[i].message = text}
                        Held == {p \in {"message", "taken"} :
                                   \/ p = "message" /\ message = text
                                   \/ p = "taken" /\ taken = text /\ pc # "clear"}
                    IN  Cardinality(Uses) + Cardinality(Held) <= 1
  BY DEF MessageAtMostOnce
<1> DEFINE Uses == {i \in 1 .. Len(history) : history[i].message = text}
           Held == {p \in {"message", "taken"} :
                      \/ p = "message" /\ message = text
                      \/ p = "taken" /\ taken = text /\ pc # "clear"}
<1>1. text # NoMessage
  BY DistinctValues
<1>2. /\ message = text => messageFile = text
      /\ taken = text /\ pc # "clear" => pc = "commit" /\ messageFile # text
  BY <1>1 DEF MessageInv
<1>3. CASE InHistory(text)
  <2>1. PICK i \in 1 .. Len(history) : history[i].message = text
    BY <1>3 DEF InHistory
  <2>2. Uses = {i}
    BY <1>1, <2>1 DEF MessageInv
  <2>3. Held = {}
    BY <1>1, <1>2, <1>3 DEF MessageInv
  <2>4. Cardinality(Uses) = 1 /\ Cardinality(Held) = 0
    BY <2>2, <2>3, FS_Singleton, FS_EmptySet
  <2> QED
    BY <2>4
<1>4. CASE ~InHistory(text)
  <2>1. Uses = {}
    BY <1>4 DEF InHistory
  <2>2. Held \in {{}, {"message"}, {"taken"}}
    BY <1>2
  <2>3. Cardinality(Uses) = 0 /\ Cardinality(Held) \in {0, 1}
    BY <2>1, <2>2, FS_Singleton, FS_EmptySet
  <2> QED
    BY <2>3
<1> QED
  BY <1>3, <1>4

\* Without failed writes, a text given to cm message is in one place only: waiting,
\* with a batch, or in a commit.
THEOREM MessageOnce == Spec => []MessageAtMostOnce
<1>1. Init => MessageInv
  BY MessageInit
<1>2. TypeOK /\ MessageInv /\ [Next]_vars => MessageInv'
  BY MessageStep
<1>3. TypeOK /\ MessageInv => MessageAtMostOnce
  BY MessageInOnePlace
<1> QED
  BY <1>1, <1>2, <1>3, TypeCorrect, PTL DEF Spec
=============================================================================
