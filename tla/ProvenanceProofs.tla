-------------------------- MODULE ProvenanceProofs --------------------------
(***************************************************************************)
(* Commits record what the files have been, for every choice of the        *)
(* constants: any number of kills, failed writes and unreadable files.     *)
(***************************************************************************)
EXTENDS Provenance, CmDaemonProofs

USE DEF outsideVars, watchVars, windowVars, messageVars, batchVars, gitVars

\* What is staged is committed already or has stood at the path; and so has what is
\* about to be staged, while other snapshots may be half-written.
ProvenanceInv ==
  /\ seen \in [Files -> SUBSET Found]
  /\ \A f \in Files : fs[f] \in seen[f]
  /\ \A f \in Files : index[f] # HeadTree[f] => index[f] \in seen[f]
  /\ pc = "stage" => \A f \in batch : worktree[f] \in seen[f]
  /\ NothingInvented

LEMMA ProvenanceInitial == ProvenanceInit => ProvenanceInv
<1> SUFFICES ASSUME ProvenanceInit PROVE ProvenanceInv
  OBVIOUS
<1>t. /\ fs \in [Files -> Found] /\ history \in Seq(Commit)
      /\ seen = [f \in Files |-> {fs[f]}]
  BY TypeInit DEF ProvenanceInit, TypeOK, OutsideTypeOK, RepositoryTypeOK
<1>1. Len(history) = 1 /\ history[1].tree = index
  BY DEF ProvenanceInit, Init
<1>2. HeadTree = index
  BY <1>1 DEF HeadTree
<1> QED
  BY <1>t, <1>1, <1>2 DEF ProvenanceInit, Init, ProvenanceInv, NothingInvented

\* The files are remembered; nothing is forgotten.
LEMMA SeenGrows ==
  ASSUME TypeOK, TypeOK', ProvenanceInv, seen' = [f \in Files |-> seen[f] \union {fs'[f]}]
  PROVE  /\ seen' \in [Files -> SUBSET Found]
         /\ \A f \in Files : seen[f] \subseteq seen'[f] /\ fs'[f] \in seen'[f]
<1>1. \A f \in Files : fs'[f] \in Found
  BY DEF TypeOK, OutsideTypeOK
<1> QED
  BY <1>1 DEF ProvenanceInv

\* Most steps touch neither the index nor the history.
LEMMA ProvenanceKept ==
  ASSUME TypeOK, TypeOK', ProvenanceInv, seen' = [f \in Files |-> seen[f] \union {fs'[f]}],
         UNCHANGED <<index, history>>,
         pc' = "stage" => \A f \in batch' : worktree'[f] \in seen'[f]
  PROVE  ProvenanceInv'
<1>1. /\ seen' \in [Files -> SUBSET Found]
      /\ \A f \in Files : seen[f] \subseteq seen'[f] /\ fs'[f] \in seen'[f]
  BY SeenGrows
<1>2. HeadTree' = HeadTree
  BY DEF HeadTree
<1>3. NothingInvented'
  BY <1>1 DEF ProvenanceInv, NothingInvented
<1> QED
  BY <1>1, <1>2, <1>3 DEF ProvenanceInv

\* A commit records what is staged.
LEMMA ProvenanceCommits ==
  ASSUME TypeOK, TypeOK', ProvenanceInv, seen' = [f \in Files |-> seen[f] \union {fs'[f]}],
         CommitIndex(lines, taken), pc' # "stage"
  PROVE  ProvenanceInv'
<1>t. history \in Seq(Commit) /\ Len(history) \in Nat
  BY DEF TypeOK, RepositoryTypeOK
<1>1. /\ seen' \in [Files -> SUBSET Found]
      /\ \A f \in Files : seen[f] \subseteq seen'[f] /\ fs'[f] \in seen'[f]
  BY SeenGrows
<1>2. /\ index' = index
      /\ history' = Append(history, [tree |-> index, lines |-> lines, message |-> taken])
  BY DEF CommitIndex
<1>3. /\ Len(history') = Len(history) + 1
      /\ \A i \in 1 .. Len(history) : history'[i] = history[i]
      /\ history'[Len(history) + 1].tree = index
  BY <1>t, <1>2
<1>4. HeadTree' = index
  BY <1>t, <1>2, <1>3 DEF HeadTree
<1>5. NothingInvented'
  <2> SUFFICES ASSUME NEW i \in 2 .. Len(history) + 1, NEW f \in Files,
                      history'[i].tree[f] # history'[i - 1].tree[f]
               PROVE  history'[i].tree[f] \in seen'[f]
    BY <1>3 DEF NothingInvented
  <2>1. CASE i \in 2 .. Len(history)
    <3>1. history'[i] = history[i] /\ history'[i - 1] = history[i - 1]
      BY <1>t, <1>3, <2>1
    <3> QED
      BY <1>1, <2>1, <3>1 DEF ProvenanceInv, NothingInvented
  <2>2. CASE i = Len(history) + 1
    <3>1. history'[i].tree = index /\ history'[i - 1].tree = HeadTree
      BY <1>t, <1>3, <2>2 DEF HeadTree
    <3> QED
      BY <1>1, <3>1 DEF ProvenanceInv
  <2> QED
    BY <1>t, <2>1, <2>2
<1> QED
  BY <1>1, <1>2, <1>4, <1>5 DEF ProvenanceInv

LEMMA ProvenanceStep ==
  TypeOK /\ TypeOK' /\ ProvenanceInv /\ [ProvenanceNext]_<<vars, seen>> => ProvenanceInv'
<1> SUFFICES ASSUME TypeOK, TypeOK', ProvenanceInv, [ProvenanceNext]_<<vars, seen>>
             PROVE  ProvenanceInv'
  OBVIOUS
<1>t. /\ RepositoryTypeOK /\ batch \subseteq Files /\ fs \in [Files -> Found]
      /\ \A f \in Files : fs[f] \in seen[f]
  BY DEF TypeOK, BatchTypeOK, OutsideTypeOK, ProvenanceInv
<1>s. ProvenanceNext => seen' = [f \in Files |-> seen[f] \union {fs'[f]}]
  BY DEF ProvenanceNext
\* Where nothing comes to be staged, the index and the history decide.
<1>k. ASSUME ProvenanceNext, UNCHANGED <<index, history>>, pc' # "stage"
      PROVE  ProvenanceInv'
  BY <1>k, <1>s, ProvenanceKept
\* The goroutines beside the loop leave a batch that is about to be staged alone.
<1>b. ASSUME ProvenanceNext, UNCHANGED <<index, history, worktree, pc, batch>>
      PROVE  ProvenanceInv'
  <2>1. pc' = "stage" => \A f \in batch' : worktree'[f] \in seen'[f]
    BY <1>b, <1>s, <1>t, SeenGrows DEF ProvenanceInv
  <2> QED
    BY <1>b, <1>s, <2>1, ProvenanceKept
<1>1. ASSUME ProvenanceNext, NEW f \in Files, NEW s \in Outcomes, Edit(f, s)
      PROVE  ProvenanceInv'
  BY <1>b, <1>1 DEF Edit
<1>2. ASSUME ProvenanceNext, NEW text \in Messages, UserMessage(text) PROVE ProvenanceInv'
  BY <1>b, <1>2 DEF UserMessage
<1>3. ASSUME ProvenanceNext, TimerFires \/ \E f \in Files : HandleFileEvent(f)
      PROVE  ProvenanceInv'
  BY <1>b, <1>3 DEF TimerFires, HandleFileEvent
<1>4. ASSUME ProvenanceNext, BeginBatch \/ Take \/ Reread \/ ClearBatch PROVE ProvenanceInv'
  BY <1>k, <1>4 DEF BeginBatch, Take, Reread, ClearBatch
<1>5. ASSUME ProvenanceNext, Snap PROVE ProvenanceInv'
  <2>1. /\ batch' = StillPending /\ UNCHANGED <<index, history, fs>>
        /\ worktree' = Snapshots(StillPending, fs) /\ StillPending \subseteq Files
    BY <1>5, <1>t DEF Snap, WriteSnapshots, StillPending, StillPendingIn
  <2>2. \A f \in batch' : worktree'[f] = fs[f]
    BY <2>1 DEF Snapshots
  <2>3. \A f \in batch' : worktree'[f] \in seen'[f]
    BY <1>5, <1>s, <1>t, <2>1, <2>2, SeenGrows
  <2> QED
    BY <1>5, <1>s, <2>1, <2>3, ProvenanceKept
<1>6. ASSUME ProvenanceNext, SnapFails PROVE ProvenanceInv'
  <2>1. UNCHANGED <<index, history>> /\ pc' = "idle"
    BY <1>6 DEF SnapFails, SnapError, SnapshotsFail, RetryLater, LeaveBatch
  <2> QED
    BY <1>6, <1>k, <2>1
<1>7. ASSUME ProvenanceNext, StageBatch PROVE ProvenanceInv'
  <2>1. /\ pc = "stage" /\ pc' = "take" /\ UNCHANGED history
        /\ index' = [f \in Files |-> IF f \in batch THEN worktree[f] ELSE index[f]]
    BY <1>7 DEF StageBatch, Stage
  <2>2. HeadTree' = HeadTree
    BY <2>1 DEF HeadTree
  <2>3. \A f \in Files : seen[f] \subseteq seen'[f] /\ fs'[f] \in seen'[f]
    BY <1>7, <1>s, SeenGrows
  <2>4. \A f \in Files : index'[f] # HeadTree'[f] => index'[f] \in seen'[f]
    BY <2>1, <2>2, <2>3 DEF ProvenanceInv
  <2>5. NothingInvented'
    BY <2>1, <2>3 DEF ProvenanceInv, NothingInvented
  <2> QED
    BY <1>7, <1>s, <2>1, <2>3, <2>4, <2>5, SeenGrows DEF ProvenanceInv
<1>8. ASSUME ProvenanceNext, StageFails PROVE ProvenanceInv'
  BY <1>k, <1>8 DEF StageFails, StageError, RetryLater, LeaveBatch
<1>9. ASSUME ProvenanceNext, CommitBatch PROVE ProvenanceInv'
  BY <1>s, <1>9, ProvenanceCommits DEF CommitBatch
<1>10. ASSUME ProvenanceNext, CommitFails PROVE ProvenanceInv'
  <2>1. pc' = "idle" /\ (UNCHANGED gitVars \/ CommitIndex(lines, taken))
    BY <1>10 DEF CommitFails, CommitError, RetryLater, LeaveBatch
  <2> QED
    BY <1>10, <1>s, <1>k, <2>1, ProvenanceCommits
<1>11. ASSUME ProvenanceNext, Recheck \/ FinishStart \/ Start PROVE ProvenanceInv'
  BY <1>k, <1>11 DEF Recheck, FinishStart, ReconcileAll, Start
<1>12. ASSUME ProvenanceNext, Crash PROVE ProvenanceInv'
  <2>1. UNCHANGED <<index, history>> /\ pc' = "down"
    BY <1>12 DEF Crash, KilledWriting
  <2> QED
    BY <1>12, <1>k, <2>1
<1>13. CASE UNCHANGED <<vars, seen>>
  BY <1>13 DEF vars, ProvenanceInv, NothingInvented, HeadTree
<1> QED
  BY <1>1, <1>2, <1>3, <1>4, <1>5, <1>6, <1>7, <1>8, <1>9, <1>10, <1>11, <1>12, <1>13
  DEF ProvenanceNext, Next, Running, Loop

\* Whatever is killed, fails or cannot be read, and whatever is left half-written: a
\* commit records contents that the files have held and deletions that have been.
THEOREM CommitsAreTrue == ProvenanceSpec => []NothingInvented
<1>1. ProvenanceSpec => Spec
  <2>1. ProvenanceInit => Init
    BY DEF ProvenanceInit
  <2>2. [ProvenanceNext]_<<vars, seen>> => [Next]_vars
    BY DEF ProvenanceNext
  <2> QED
    BY <2>1, <2>2, PTL DEF ProvenanceSpec, Spec
<1>2. ProvenanceInv => NothingInvented
  BY DEF ProvenanceInv
<1> QED
  BY <1>1, <1>2, ProvenanceInitial, ProvenanceStep, TypeCorrect, PTL DEF ProvenanceSpec
=============================================================================
