------------------------------ MODULE Process ------------------------------
(***************************************************************************)
(* The process: runDaemon and the service's Program start the daemon, then *)
(* the API server.  Program.Stop closes the server, the deferred calls of  *)
(* runDaemon the server and then the daemon, or the daemon alone when the  *)
(* server cannot listen.  Requests run on the goroutines of the server; cm *)
(* message stands for those that write.                                    *)
(***************************************************************************)
EXTENDS DaemonClose, ApiServer

processVars == <<vars, closeVars, apiVars>>

ProcessInit == Init /\ CloseInit /\ ApiInit

\* What goes on outside the loop and the server.
Surroundings ==
  /\ \/ \E f \in Files, s \in Outcomes : Edit(f, s)
     \/ TimerFires
     \/ Start \/ FinishStart
  /\ UNCHANGED <<closeVars, apiVars>>

DaemonStep == CloseStep /\ UNCHANGED apiVars

ServerStep == ApiStep /\ UNCHANGED <<vars, closeVars>>

ServerStarts ==
  /\ Serving
  /\ \/ Listen /\ NoFault
     \/ ListenFails /\ Fault
  /\ UNCHANGED <<fs, links, edits, crashes, sent, newest, lost, events, watchVars, mp,
                 windowVars, messageVars, pc, batchVars, gitVars, closeVars>>

\* dispatch runs SetMessage, or a query or an error, which change nothing.
RequestRuns(c) ==
  /\ Reply(c)
  /\ (\E text \in Messages : UserMessage(text)) \/ UNCHANGED vars
  /\ UNCHANGED closeVars

Stops == CloseApi /\ UNCHANGED <<vars, closeVars>>

\* Mutant of DaemonCloses: the daemon is closed before the server.
DaemonClosesFirst ==
  /\ server \in {"serving", "failed", "closed"}
  /\ CloseBegins
  /\ UNCHANGED apiVars

DaemonCloses ==
  /\ server \in {"failed", "closed"}
  /\ CloseBegins
  /\ UNCHANGED apiVars

\* The process is killed or comes to its end.
ProcessEnds ==
  /\ Crash
  /\ ApiKilled
  /\ closing' = "no" /\ stopping' = FALSE /\ looping' = TRUE

ProcessNext ==
  \/ Surroundings \/ DaemonStep \/ ServerStep \/ ServerStarts
  \/ \E c \in Callers : RequestRuns(c)
  \/ Stops \/ DaemonCloses \/ ProcessEnds

\* Close goes on, in the server and in the daemon.
ClosingStep ==
  \/ (CloseListener \/ AcceptEnds \/ ApiClosed) /\ UNCHANGED <<vars, closeVars>>
  \/ (CloseWatcher \/ CloseReturns) /\ UNCHANGED apiVars

LoopGoesOn == (LoopStep \/ LoopReturns) /\ UNCHANGED apiVars

CallsGoOn ==
  \E c \in Callers :
    \/ (Send(c) \/ Accept(c) \/ Read(c) \/ ReadEnds(c)) /\ UNCHANGED <<vars, closeVars>>
    \/ RequestRuns(c)

(***************************************************************************)
(* The goroutines go on, and a cm command sends its request as soon as it  *)
(* has connected.  Timers, users, faults and kills owe nothing, nor does   *)
(* select: it may pass stopNotify over as long as anything else is ready.  *)
(***************************************************************************)
ProcessFairness ==
  /\ WF_processVars(ClosingStep)
  /\ WF_processVars(LoopGoesOn)
  /\ WF_processVars(CallsGoOn)

ProcessSpec == ProcessInit /\ [][ProcessNext]_processVars /\ ProcessFairness
-----------------------------------------------------------------------------
(* Properties *)

\* The server and Close stay within their domains, and so does the daemon.
ProcessTypeOK == TypeOK /\ CloseTypeOK /\ ApiTypeOK

\* The server's WaitGroup covers every goroutine: when Close has returned, nothing
\* is accepted and no request runs.
NothingServedAfterClose ==
  server = "closed" =>
    ~accepting /\ \A c \in Callers : handler[c] = "none"

\* No request runs on a daemon that is closing.
RequestsMeetTheDaemon ==
  closing # "no" => \A c \in Callers : handler[c] # "running"

\* When Daemon.Close has returned, the loop does nothing more to the repository and
\* to the records, whatever timers it armed after Close had stopped the one it saw.
NothingCommittedAfterClose ==
  [][closing = "closed" /\ closing' = "closed"
       => UNCHANGED <<gitVars, mp, messageFile>>]_processVars

\* Whatever Close interrupts, a call comes to its end.
CallsReturn ==
  \A c \in Callers : call[c] \in Underway ~> call[c] \notin Underway

\* The end of the service comes to its own end: no goroutine that one of the two
\* Close waits for is left waiting itself.
ClosingEnds ==
  server = "closing" \/ closing \in {"watcher", "wait"}
    ~> server # "closing" /\ closing \in {"no", "closed"}
=============================================================================
