---------------------------- MODULE DaemonClose ----------------------------
(***************************************************************************)
(* Daemon.Close beside the loop: it stops the timer, closes stopNotify and *)
(* the watcher, and waits for the loop.  The loop looks at stopNotify when *)
(* it selects and after a failed commit, not when it starts a window.      *)
(***************************************************************************)
EXTENDS CmDaemon

VARIABLES
  closing,    \* where Close is: "no", "watcher", "wait", "closed"
  stopping,   \* stopNotify is closed
  looping     \* the goroutine of loop runs

closeVars == <<closing, stopping, looping>>

CloseInit == closing = "no" /\ stopping = FALSE /\ looping = TRUE
-----------------------------------------------------------------------------
(* Close *)

\* Mutant of CloseBegins: stopNotify stays open.
CloseBeginsSilently ==
  /\ Serving /\ closing = "no"
  /\ closing' = "watcher"
  /\ batchTimer' = "nil"
  /\ timers' = IF batchTimer = "running" THEN timers - 1 ELSE timers
  /\ UNCHANGED <<outsideVars, events, watchVars, mp, batchActive, work, messageVars, pc,
                 batchVars, gitVars, stopping, looping>>

\* The locked section: the timer is stopped, if it has not fired.  A window that is
\* open stays marked as open.
CloseBegins ==
  /\ Serving /\ closing = "no"
  /\ closing' = "watcher"
  /\ batchTimer' = "nil"
  /\ timers' = IF batchTimer = "running" THEN timers - 1 ELSE timers
  /\ stopping' = TRUE
  /\ UNCHANGED <<outsideVars, events, watchVars, mp, batchActive, work, messageVars, pc,
                 batchVars, gitVars, looping>>

\* fsnotify drops what it has queued; the goroutine of the watcher may hold one
\* event that it tries to hand to the loop.
CloseWatcher ==
  /\ closing = "watcher"
  /\ closing' = "wait"
  /\ watched' = {}
  /\ \E kept \in {{}} \union {{f} : f \in events} :
       /\ events' = kept
       /\ lost' = lost \union (events \ kept)
  /\ UNCHANGED <<fs, links, edits, faults, crashes, sent, newest, monitored, mp,
                 windowVars, messageVars, pc, batchVars, gitVars, stopping, looping>>

\* Mutant of CloseReturns: it does not wait for the loop.
CloseReturnsAtOnce ==
  /\ closing = "wait"
  /\ closing' = "closed"
  /\ UNCHANGED <<vars, stopping, looping>>

CloseReturns ==
  /\ closing = "wait" /\ ~looping
  /\ closing' = "closed"
  /\ UNCHANGED <<vars, stopping, looping>>
-----------------------------------------------------------------------------
(* The loop and the timer *)

\* The function of a timer, once stopNotify is closed, need not queue anything.
TimerDropped ==
  /\ stopping
  /\ timers > 0
  /\ timers' = timers - 1
  /\ batchTimer' = IF batchTimer = "running" THEN "fired" ELSE batchTimer
  /\ UNCHANGED <<outsideVars, events, watchVars, mp, batchActive, work, messageVars,
                 pc, batchVars, gitVars, closeVars>>

\* The error branch of commitBatch once stopNotify is closed.
GiveUp ==
  /\ LeaveBatch
  /\ batchActive' = FALSE
  /\ UNCHANGED <<batchTimer, timers, work>>

\* select chooses among what is ready: stopNotify too is passed over at times.
LoopStep ==
  /\ looping
  /\ IF stopping
     THEN \/ \E f \in Files : HandleFileEvent(f)
          \/ BeginBatch \/ Snap \/ StageBatch \/ Take \/ Reread
          \/ CommitBatch \/ ClearBatch \/ Recheck
          \/ (SnapError \/ StageError \/ CommitError) /\ GiveUp
     ELSE Loop
  /\ UNCHANGED closeVars

LoopReturns ==
  /\ looping /\ stopping
  /\ pc = "idle"
  /\ looping' = FALSE
  /\ UNCHANGED <<vars, closing, stopping>>

CloseStep == CloseWatcher \/ CloseReturns \/ TimerDropped \/ LoopStep \/ LoopReturns

CloseTypeOK ==
  /\ closing \in {"no", "watcher", "wait", "closed"}
  /\ stopping \in BOOLEAN /\ looping \in BOOLEAN
=============================================================================
