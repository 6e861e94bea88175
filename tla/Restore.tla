------------------------------ MODULE Restore ------------------------------
(***************************************************************************)
(* cm restore: the command asks for a preview, shows it, and when the user *)
(* agrees calls Daemon.Restore, which on the goroutine of its connection   *)
(* commits what is pending, writes the files as they were in a commit, and *)
(* commits them.  commit() runs here as it does in the loop, perhaps at    *)
(* the same time, but its errors end the restore and its success clears no *)
(* record.                                                                 *)
(***************************************************************************)
EXTENDS Operations, Queries

CONSTANT MaxRestores   \* bound: restores

ASSUME RestoresAssumption == MaxRestores \in Nat

VARIABLES
  restore,     \* what the command or the goroutine of its call is doing
  restored     \* the restores so far

restoreVars == <<opsVars, restore, restored>>

ForceSteps == {"force", "snap", "stage forced", "take", "reread", "commit forced"}
WriteSteps == {"write", "verify", "unexist", "snapshot", "stage", "commit", "settle"}

\* "asked": the command waits for the user's answer.  commit is the number of the
\* commit asked for, affected what AffectedFiles finds in it, made the new commit.
\* calm is an observation: so far nobody else has written a selected file or its
\* snapshot, and the loop has not been in the locked section of commit.
NoRestore ==
  [at |-> "none", commit |-> 0, affected |-> {}, selected |-> {}, left |-> {},
   file |-> Absent, batch |-> {}, detached |-> NoLines, lines |-> NoLines,
   taken |-> NoMessage, made |-> 0, calm |-> TRUE]

Restores ==
  [at : ForceSteps \union WriteSteps \union {"none", "asked"}, commit : Nat,
   affected : SUBSET Files, selected : SUBSET Files, left : SUBSET Files,
   file : Files \union {Absent}, batch : SUBSET Files, detached : Lines, lines : Lines,
   taken : Messages \union {NoMessage}, made : Nat, calm : BOOLEAN]

RestoreInit == OpsInit /\ restore = NoRestore /\ restored = 0

Restoring(step) == restore.at = step
ProceedTo(step) == restore' = [restore EXCEPT !.at = step]
Answer == restore' = NoRestore

\* Mutant of Target: the state that the commit replaced.
TargetBefore(f) ==
  TreeBefore(restore.commit)[f]

Target(f) == FileStatement(restore.commit, f)

\* PreviewRestore lists monitored files, and the command shows them.
RestorePreviews(i, renames) ==
  LET affected == AffectedFiles(i, renames) IN
  /\ Serving
  /\ Restoring("none")
  /\ restored < MaxRestores
  /\ restored' = restored + 1
  /\ affected \intersect monitored # {}
  /\ restore' = [NoRestore EXCEPT !.at = "asked", !.commit = i, !.affected = affected]
  /\ UNCHANGED opsVars

\* The user says no, or the daemon is down or finds no monitored file any more.
RestoreDeclined ==
  /\ Restoring("asked")
  /\ Answer
  /\ UNCHANGED opsVars

\* The files are looked up again; the user has seen those of the preview.
RestoreBegins ==
  LET selected == restore.affected \intersect monitored IN
  /\ Serving
  /\ Restoring("asked")
  /\ selected # {}
  /\ restore' = [restore EXCEPT !.at = "force", !.selected = selected, !.left = selected]
  /\ UNCHANGED opsVars
-----------------------------------------------------------------------------
(* ForcedCommit *)

\* PendingExists and collectPending.
ForceBegins ==
  /\ Restoring("force")
  /\ restore' = IF Pending = {}
                THEN [restore EXCEPT !.at = "write"]
                ELSE [restore EXCEPT !.at = "snap", !.batch = Pending]
  /\ UNCHANGED vars

ForcedFiles == StillPendingIn(restore.batch, restore.detached)

ForceSnaps ==
  /\ Restoring("snap")
  /\ Readable(ForcedFiles) = ForcedFiles
  /\ WriteSnapshots(ForcedFiles, restore.detached)
  /\ restore' = [restore EXCEPT !.at = "stage forced", !.batch = ForcedFiles,
                                !.lines = LinesOf(ForcedFiles, restore.detached),
                                !.detached = NoLines]
  /\ UNCHANGED <<outsideVars, events, watchVars, windowVars, messageVars, pc, batchVars>>

ForceSnapFails ==
  /\ Restoring("snap")
  /\ SnapshotsFail(ForcedFiles, restore.detached)
  /\ Answer
  /\ UNCHANGED <<fs, links, edits, crashes, sent, newest, lost, events, watchVars,
                 windowVars, messageVars, pc, batchVars>>

ForceStages ==
  /\ Restoring("stage forced")
  /\ Stage(restore.batch)
  /\ ProceedTo("take")
  /\ UNCHANGED <<outsideVars, events, watchVars, mp, windowVars, messageVars, pc,
                 batchVars>>

ForceTakes ==
  /\ \/ /\ Restoring("take")
        /\ \/ /\ TakeAndClear /\ NoFault
              /\ restore' = [restore EXCEPT !.at = "commit forced", !.taken = message]
           \/ TakeAndClearFails /\ Fault /\ ProceedTo("reread")
     \/ /\ Restoring("reread")
        /\ restore' = [restore EXCEPT !.at = "commit forced", !.taken = message]
        /\ NoFault
        /\ UNCHANGED messageVars
  /\ UNCHANGED <<fs, links, edits, crashes, sent, newest, lost, events, watchVars,
                 mp, windowVars, pc, batchVars, gitVars>>

ForceCommittable ==
  SomethingStaged /\ (restore.lines # NoLines \/ restore.taken # NoMessage)

ForceCommits ==
  /\ Restoring("commit forced")
  /\ ForceCommittable
  /\ CommitIndex(restore.lines, restore.taken)
  /\ restore' = [restore EXCEPT !.at = "write", !.batch = {}, !.lines = NoLines,
                                !.taken = NoMessage]
  /\ UNCHANGED <<outsideVars, events, watchVars, mp, windowVars, messageVars, pc,
                 batchVars>>

\* commit returns an error, and Restore with it.
ForceFails ==
  /\ \/ /\ Restoring("stage forced")
        /\ \/ ~Stageable(restore.batch) /\ NoFault
           \/ Stageable(restore.batch) /\ Fault
        /\ UNCHANGED <<messageVars, gitVars>>
     \/ /\ Restoring("commit forced")
        /\ \/ ~ForceCommittable /\ NoFault /\ UNCHANGED gitVars
           \/ /\ ForceCommittable /\ Fault
              /\ UNCHANGED gitVars \/ CommitIndex(restore.lines, restore.taken)
        /\ PutBack(restore.taken)
  /\ Answer
  /\ UNCHANGED <<fs, links, edits, crashes, sent, newest, lost, events, watchVars,
                 mp, windowVars, pc, batchVars>>
-----------------------------------------------------------------------------
(* The files *)

\* restoreOne renames a new file onto the path, or removes the path, as it is
\* now; the watcher sees it.
RestoreWrites(f) ==
  /\ Restoring("write")
  /\ f \in restore.left
  /\ fs' = [fs EXCEPT ![f] = Target(f)]
  /\ IF fs[f] = Absent /\ Target(f) = Absent THEN UNCHANGED <<events, lost>> ELSE Noticed(f)
  /\ restore' = [restore EXCEPT !.at = IF Target(f) = Absent THEN "unexist" ELSE "verify",
                                !.file = f]
  /\ UNCHANGED <<links, edits, faults, crashes, sent, newest, watchVars, mp,
                 windowVars, messageVars, pc, batchVars, gitVars>>

RestoreVerifies ==
  /\ Restoring("verify")
  /\ fs[restore.file] = Target(restore.file)
  /\ ProceedTo("snapshot")
  /\ UNCHANGED vars

\* A file that has been written again has its record spoilt.
RestoreUnexists ==
  /\ Restoring("unexist")
  /\ mp' = [f \in Files |-> IF f = restore.file /\ f \in monitored
                            THEN [mp[f] EXCEPT !.exists = FALSE] ELSE mp[f]]
  /\ ProceedTo("snapshot")
  /\ lost' = IF fs[restore.file] = Absent THEN lost ELSE lost \union {restore.file}
  /\ UNCHANGED <<fs, links, edits, faults, crashes, sent, newest, events, watchVars,
                 windowVars, messageVars, pc, batchVars, gitVars>>

RestoreSnapshots ==
  LET f == restore.file
      left == restore.left \ {f}
  IN
  /\ Restoring("snapshot")
  /\ worktree' = [worktree EXCEPT ![f] = Target(f)]
  /\ restore' = [restore EXCEPT !.at = IF left = {} THEN "stage" ELSE "write",
                                !.left = left, !.file = Absent]
  /\ UNCHANGED <<outsideVars, events, watchVars, mp, windowVars, messageVars, pc,
                 batchVars, index, history>>

RestoreStages ==
  /\ Restoring("stage")
  /\ Stage(restore.selected)
  /\ ProceedTo("commit")
  /\ UNCHANGED <<outsideVars, events, watchVars, mp, windowVars, messageVars, pc,
                 batchVars>>

\* Mutant of RestoreCommits: git refused, which is ignored.
RestoreCommitIgnored ==
  /\ Restoring("commit")
  /\ restore' = [restore EXCEPT !.at = "settle", !.made = Len(history) + 1]
  /\ UNCHANGED vars

RestoreCommits ==
  /\ Restoring("commit")
  /\ CommitIndex(NoLines, NoMessage)
  /\ restore' = [restore EXCEPT !.at = "settle", !.made = Len(history) + 1]
  /\ UNCHANGED <<outsideVars, events, watchVars, mp, windowVars, messageVars, pc,
                 batchVars>>

\* The commit is made and its rev-parse fails: the restore fails.
RestoreUnconfirmed ==
  /\ Restoring("commit")
  /\ CommitIndex(NoLines, NoMessage)
  /\ Fault
  /\ Answer
  /\ UNCHANGED <<fs, links, edits, crashes, sent, newest, lost, events, watchVars,
                 mp, windowVars, messageVars, pc, batchVars>>

\* Mutant of Settled: a restored file exists.
SettledExisting(m, s) ==
  [Cleared(m) EXCEPT !.exists = TRUE, !.last = IF s = Absent THEN @ ELSE s]

\* The record of a file whose content in the new commit is s.
Settled(m, s) == [Cleared(m) EXCEPT !.last = IF s = Absent THEN @ ELSE s]

\* The records of the restored files become clean; Exists stays what it is. A
\* content that git show fails to read leaves LastContent as it is.  An edit since the
\* commit is forgotten, if the loop has handled its event.
RestoreSettles ==
  /\ Restoring("settle")
  /\ restore.selected \subseteq monitored
  /\ \E unread \in SUBSET restore.selected :
       /\ IF unread = {} THEN NoFault ELSE Fault
       /\ mp' = [f \in Files |->
                   IF f \notin restore.selected THEN mp[f]
                   ELSE IF f \in unread THEN Cleared(mp[f])
                   ELSE Settled(mp[f], history[restore.made].tree[f])]
  /\ lost' = lost \union {f \in restore.selected : fs[f] # history[restore.made].tree[f]}
  /\ Answer
  /\ UNCHANGED <<fs, links, edits, crashes, sent, newest, events, watchVars,
                 windowVars, messageVars, pc, batchVars, gitVars>>

\* The record of a file that was removed meanwhile is nil: the process panics,
\* which counts as a kill.
RestorePanics ==
  /\ Restoring("settle")
  /\ ~(restore.selected \subseteq monitored)
  /\ Killed
  /\ Answer

\* What the restore is writing, and from what: the forced commit from the files,
\* the rest from the commit.
RestoredSnapshots ==
  CASE Restoring("snap") -> Readable(ForcedFiles)
    [] Restoring("snapshot") -> {restore.file}
    [] OTHER -> {}

RestoredProbe ==
  IF Restoring("snapshot") THEN [fs EXCEPT ![restore.file] = Target(restore.file)] ELSE fs

\* The command waits on while the daemon is killed and started again.
RestoreKilled ==
  /\ KilledServing(RestoredSnapshots, RestoredProbe)
  /\ IF Restoring("asked") THEN UNCHANGED restore ELSE Answer

RestoreFails ==
  /\ \/ /\ \/ Restoring("verify") /\ fs[restore.file] # Target(restore.file) /\ NoFault
           \/ Restoring("stage") /\ ~Stageable(restore.selected) /\ NoFault
           \/ Restoring("commit") /\ ~SomethingStaged /\ NoFault
           \/ \E step \in {"write", "verify", "stage", "commit"} : Restoring(step) /\ Fault
        /\ UNCHANGED worktree
     \/ /\ Restoring("snapshot")
        /\ SnapshotFails(restore.file, Target(restore.file))
  /\ Answer
  /\ UNCHANGED <<fs, links, edits, crashes, sent, newest, lost, events, watchVars,
                 mp, windowVars, messageVars, pc, batchVars, index, history>>
-----------------------------------------------------------------------------
RestoreStep ==
  \/ ForceBegins \/ ForceSnaps \/ ForceSnapFails \/ ForceStages \/ ForceTakes
  \/ ForceCommits \/ ForceFails
  \/ \E f \in Files : RestoreWrites(f)
  \/ RestoreVerifies \/ RestoreUnexists \/ RestoreSnapshots \/ RestoreStages
  \/ RestoreCommits \/ RestoreUnconfirmed \/ RestoreSettles \/ RestoreFails

\* An add replaces the record of f, and the forced commit keeps the one it holds.
Replaces(f) == \E c \in Clients : At(c, "monitor", f) /\ requests'[c].at = "watch"

DetachedFrom(f) ==
  IF Restoring("snap") /\ Replaces(f) /\ InBatch(f, restore.batch, restore.detached)
  THEN mp[f].saves ELSE restore.detached[f]

Observed ==
  restore' =
    IF restore.selected = {} THEN restore
    ELSE [restore EXCEPT
            !.detached = [f \in Files |-> DetachedFrom(f)],
            !.calm = /\ @
                     /\ pc # "snap"
                     /\ \A f \in restore.selected : fs'[f] = fs[f] /\ worktree'[f] = worktree[f]]

RestoreNext ==
  \/ OpsRunning /\ Observed /\ UNCHANGED restored
  \/ RestoreKilled /\ UNCHANGED restored
  \/ \E i \in 1 .. Len(history) : \E renames \in RenamesIn(i) : RestorePreviews(i, renames)
  \/ (RestoreDeclined \/ RestoreBegins) /\ UNCHANGED restored
  \/ RestoreStep /\ UNCHANGED <<requests, begun, observations, restored>>
  \/ RestorePanics /\ UNCHANGED restored

RestoreSpec == RestoreInit /\ [][RestoreNext]_restoreVars
-----------------------------------------------------------------------------
(* Properties *)

\* Every variable stays within its domain, and a restore that is about to confirm
\* has a commit that exists.
RestoreTypeOK ==
  /\ OpsTypeOK
  /\ restore \in Restores
  /\ restored \in 0 .. MaxRestores
  /\ Restoring("settle") => restore.made \in 2 .. Len(history)

\* Batches, adds and removes stage and commit on the same index at the same time.
\* Nevertheless, when a restore succeeds and nobody has written the files or their
\* snapshots meanwhile, each selected file is what it was in the commit asked for,
\* and so it is in the newest commit, whoever made that.
RestoredAsAsked ==
  Restoring("settle") /\ restore.calm =>
    \A f \in restore.selected :
      LET asked == history[restore.commit].tree[f] IN
      fs[f] = asked /\ HeadTree[f] = asked
-----------------------------------------------------------------------------
(* What the documentation says and the code does not do *)

\* README, "Current uncommitted changes are committed first (forced immediately) so
\* nothing is lost": a step that is not an edit replaces or removes a content only
\* when that content of the file is in a commit.
NothingIsLost ==
  [][\A f \in Files :
       fs'[f] # fs[f] /\ edits' = edits /\ fs[f] \in Contents
         => \E i \in 1 .. Len(history) : history[i].tree[f] = fs[f]]_restoreVars
=============================================================================
