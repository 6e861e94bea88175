--------------------------- MODULE ProcessProofs ---------------------------
(***************************************************************************)
(* Theorems about Process for every number of callers, files, messages,    *)
(* edits, faults and kills: the types, and what Close of the server and    *)
(* of the daemon promise once they have returned.                          *)
(***************************************************************************)
EXTENDS Process, CmDaemonProofs, FiniteSetTheorems

USE DEF outsideVars, watchVars, windowVars, messageVars, batchVars, gitVars

(***************************************************************************)
(* The counter of s.wg                                                     *)
(***************************************************************************)

Handlers(h) == {c \in Callers : h[c] # "none"}

WgCounts == wg = Cardinality(Handlers(handler)) + (IF accepting THEN 1 ELSE 0)

\* Nothing is accepted without a listener, and no listener without the accept loop;
\* a server that is new, failed or closed has neither.
ServerInv ==
  /\ listening => accepting
  /\ server \in {"new", "failed"} => ~accepting /\ Handlers(handler) = {}
  /\ server = "closed" => wg = 0 /\ ~listening

ApiInv == ApiTypeOK /\ WgCounts /\ ServerInv

LEMMA HandlerBegins ==
  ASSUME NEW h \in [Callers -> {"none", "reading", "running"}],
         NEW c \in Callers, h[c] = "none",
         NEW s \in {"reading", "running"}
  PROVE  Cardinality(Handlers([h EXCEPT ![c] = s])) = Cardinality(Handlers(h)) + 1
<1>1. IsFiniteSet(Handlers(h))
  BY CallersAssumption, FS_Subset DEF Handlers
<1>2. Handlers([h EXCEPT ![c] = s]) = Handlers(h) \cup {c}
  BY DEF Handlers
<1>3. c \notin Handlers(h)
  BY DEF Handlers
<1> QED
  BY <1>1, <1>2, <1>3, FS_AddElement

LEMMA HandlerEnds ==
  ASSUME NEW h \in [Callers -> {"none", "reading", "running"}],
         NEW c \in Callers, h[c] # "none"
  PROVE  Cardinality(Handlers([h EXCEPT ![c] = "none"])) = Cardinality(Handlers(h)) - 1
<1>1. IsFiniteSet(Handlers(h))
  BY CallersAssumption, FS_Subset DEF Handlers
<1>2. Handlers([h EXCEPT ![c] = "none"]) = Handlers(h) \ {c}
  BY DEF Handlers
<1>3. c \in Handlers(h)
  BY DEF Handlers
<1> QED
  BY <1>1, <1>2, <1>3, FS_RemoveElement

LEMMA HandlerGoesOn ==
  ASSUME NEW h \in [Callers -> {"none", "reading", "running"}],
         NEW c \in Callers, h[c] # "none",
         NEW s \in {"reading", "running"}
  PROVE  Handlers([h EXCEPT ![c] = s]) = Handlers(h)
BY DEF Handlers

LEMMA HandlersCounted ==
  ASSUME NEW h \in [Callers -> {"none", "reading", "running"}]
  PROVE  /\ Cardinality(Handlers(h)) \in Nat
         /\ Cardinality(Handlers(h)) = 0 <=> Handlers(h) = {}
<1>1. IsFiniteSet(Handlers(h))
  BY CallersAssumption, FS_Subset DEF Handlers
<1> QED
  BY <1>1, FS_EmptySet, FS_CardinalityType

LEMMA ApiInitial == ApiInit => ApiInv
<1> SUFFICES ASSUME ApiInit PROVE ApiInv
  OBVIOUS
<1>1. ApiTypeOK
  BY DEF ApiInit, ApiTypeOK, Calls
<1>2. Handlers(handler) = {}
  BY DEF ApiInit, Handlers
<1> QED
  BY <1>1, <1>2, FS_EmptySet DEF ApiInit, ApiInv, WgCounts, ServerInv

\* What can happen to the server and to the calls.
ApiNext ==
  \/ ApiStep
  \/ Listen \/ ListenFails \/ CloseApi \/ ApiKilled
  \/ \E c \in Callers : Reply(c)

LEMMA ApiInductive == ApiInv /\ [ApiNext]_apiVars => ApiInv'
<1> SUFFICES ASSUME ApiInv, [ApiNext]_apiVars
             PROVE  ApiInv'
  OBVIOUS
<1> USE DEF ApiInv, ApiTypeOK, WgCounts, ServerInv, Calls, apiVars
<1>0. /\ Cardinality(Handlers(handler)) \in Nat
      /\ Cardinality(Handlers(handler)) = 0 <=> Handlers(handler) = {}
  BY HandlersCounted
<1>1. ASSUME NEW c \in Callers, Dial(c) \/ Send(c) \/ Interrupt(c)
      PROVE  ApiInv'
  BY <1>1 DEF Dial, Send, Interrupt
<1>2. ASSUME NEW c \in Callers, Accept(c)
      PROVE  ApiInv'
  <2>1. Cardinality(Handlers(handler')) = Cardinality(Handlers(handler)) + 1
    BY <1>2, HandlerBegins DEF Accept, Waiting
  <2>2. ApiTypeOK'
    BY <1>2 DEF Accept
  <2> QED
    BY <1>0, <1>2, <2>1, <2>2 DEF Accept
<1>3. ASSUME NEW c \in Callers, Read(c)
      PROVE  ApiInv'
  <2>1. Handlers(handler') = Handlers(handler)
    BY <1>3, HandlerGoesOn DEF Read
  <2> QED
    BY <1>3, <2>1 DEF Read
<1>4. ASSUME NEW c \in Callers, ReadEnds(c) \/ Reply(c)
      PROVE  ApiInv'
  <2>1. handler[c] # "none" /\ handler' = [handler EXCEPT ![c] = "none"]
    BY <1>4 DEF ReadEnds, Reply
  <2>2. Cardinality(Handlers(handler')) = Cardinality(Handlers(handler)) - 1
    BY <2>1, HandlerEnds
  <2>3. c \in Handlers(handler)
    BY <2>1 DEF Handlers
  <2>4. /\ Cardinality(Handlers(handler)) # 0
        /\ server \notin {"new", "failed", "closed"}
    BY <1>0, <2>3
  <2>5. ApiTypeOK'
    BY <1>0, <1>4, <2>4 DEF ReadEnds, Reply
  <2> QED
    BY <1>0, <1>4, <2>2, <2>4, <2>5 DEF ReadEnds, Reply
<1>5. CASE CloseListener
  BY <1>5 DEF CloseListener
<1>6. CASE AcceptEnds
  <2>1. wg = Cardinality(Handlers(handler)) + 1 /\ wg' = Cardinality(Handlers(handler))
    BY <1>0, <1>6 DEF AcceptEnds
  <2>2. accepting' = FALSE /\ ~listening /\ UNCHANGED <<server, listening, handler, call>>
    BY <1>6 DEF AcceptEnds
  <2>3. server \notin {"new", "failed", "closed"}
    BY <1>0, <1>6, <2>1 DEF AcceptEnds
  <2>4. Cardinality(Handlers(handler')) = Cardinality(Handlers(handler))
    BY <2>2
  <2>5. ApiTypeOK'
    BY <1>0, <2>1, <2>2
  <2>6. WgCounts'
    BY <1>0, <2>1, <2>2, <2>4
  <2> QED
    BY <2>2, <2>3, <2>5, <2>6
<1>7. CASE ApiClosed
  BY <1>7 DEF ApiClosed
<1>8. CASE Listen
  BY <1>0, <1>8 DEF Listen
<1>9. CASE ListenFails
  BY <1>9 DEF ListenFails
<1>10. CASE CloseApi
  BY <1>10 DEF CloseApi
<1>11. CASE ApiKilled
  <2>1. Handlers(handler') = {}
    BY <1>11 DEF ApiKilled, ApiReset, Handlers
  <2>2. Cardinality(Handlers(handler')) = 0
    BY <2>1, FS_EmptySet
  <2>3. ApiTypeOK'
    BY <1>11 DEF ApiKilled, ApiReset
  <2> QED
    BY <1>11, <2>1, <2>2, <2>3 DEF ApiKilled, ApiReset
<1>12. CASE UNCHANGED apiVars
  BY <1>12
<1> QED
  BY <1>1, <1>2, <1>3, <1>4, <1>5, <1>6, <1>7, <1>8, <1>9, <1>10, <1>11, <1>12
     DEF ApiNext, ApiStep

\* No step of the process does anything else to the server.
LEMMA ProcessServes == [ProcessNext]_processVars => [ApiNext]_apiVars
BY DEF ProcessNext, processVars, apiVars, Surroundings, DaemonStep, ServerStep,
       ServerStarts, RequestRuns, Stops, DaemonCloses, ProcessEnds, ApiNext

LEMMA ServerAtRest ==
  ASSUME ApiInv, server \in {"failed", "closed"}
  PROVE  ~accepting /\ \A c \in Callers : handler[c] = "none"
<1>1. /\ Cardinality(Handlers(handler)) \in Nat
      /\ Cardinality(Handlers(handler)) = 0 <=> Handlers(handler) = {}
  BY HandlersCounted DEF ApiInv, ApiTypeOK
<1>2. ~accepting /\ Handlers(handler) = {}
  BY <1>1 DEF ApiInv, WgCounts, ServerInv
<1> QED
  BY <1>2 DEF Handlers

LEMMA ServerSound == ProcessSpec => []ApiInv
<1>1. ProcessInit => ApiInv
  BY ApiInitial DEF ProcessInit
<1>2. ApiInv /\ [ProcessNext]_processVars => ApiInv'
  BY ApiInductive, ProcessServes
<1> QED
  BY <1>1, <1>2, PTL DEF ProcessSpec

\* When Server.Close has returned, no connection is accepted and none is served.
THEOREM NothingServed == ProcessSpec => []NothingServedAfterClose
<1>1. ApiInv => NothingServedAfterClose
  BY ServerAtRest DEF NothingServedAfterClose
<1> QED
  BY <1>1, ServerSound, PTL

(***************************************************************************)
(* Daemon.Close                                                            *)
(***************************************************************************)

\* The daemon is closed after the server, and while it runs; Close waits for the loop.
DaemonInv ==
  /\ closing # "no" => server \in {"failed", "closed"} /\ Serving
  /\ closing = "closed" => ~looping

LEMMA DaemonInitial == ProcessInit => DaemonInv
BY DEF ProcessInit, CloseInit, DaemonInv

\* A step of the loop stays inside the loop.
LEMMA LoopServes ==
  ASSUME LoopStep, Serving
  PROVE  Serving' /\ UNCHANGED closeVars
<1> USE DEF Serving
<1>1. ASSUME NEW f \in Files, HandleFileEvent(f) PROVE Serving'
  BY <1>1 DEF HandleFileEvent
<1>2. BeginBatch => Serving'
  BY DEF BeginBatch
<1>3. Snap \/ StageBatch \/ Take \/ Reread \/ CommitBatch \/ ClearBatch => Serving'
  BY DEF Snap, StageBatch, Take, Reread, CommitBatch, ClearBatch
<1>4. LeaveBatch => Serving'
  BY DEF LeaveBatch
<1>5. SnapFails \/ StageFails \/ CommitFails => LeaveBatch
  BY DEF SnapFails, StageFails, CommitFails, RetryLater
<1>6. GiveUp => LeaveBatch
  BY DEF GiveUp
<1>7. Recheck => Serving'
  BY DEF Recheck, ReconcileAll
<1> QED
  BY <1>1, <1>2, <1>3, <1>4, <1>5, <1>6, <1>7 DEF LoopStep, Loop

LEMMA DaemonInductive ==
  ApiInv /\ DaemonInv /\ [ProcessNext]_processVars => DaemonInv'
<1> SUFFICES ASSUME ApiInv, DaemonInv, [ProcessNext]_processVars
             PROVE  DaemonInv'
  OBVIOUS
<1> USE DEF DaemonInv, closeVars, apiVars
<1>1. CASE Surroundings
  <2>1. ASSUME NEW f \in Files, NEW s \in Outcomes, Edit(f, s) PROVE DaemonInv'
    BY <1>1, <2>1 DEF Surroundings, Edit, Serving
  <2>2. CASE TimerFires
    BY <1>1, <2>2 DEF Surroundings, TimerFires, Serving
  <2>3. CASE Start \/ FinishStart
    BY <1>1, <2>3 DEF Surroundings, Start, FinishStart, Serving
  <2> QED
    BY <1>1, <2>1, <2>2, <2>3 DEF Surroundings
<1>2. CASE DaemonStep
  <2>1. CASE CloseWatcher
    BY <1>2, <2>1 DEF DaemonStep, CloseWatcher, Serving
  <2>2. CASE CloseReturns
    BY <1>2, <2>2 DEF DaemonStep, CloseReturns, Serving, vars
  <2>3. CASE TimerDropped
    BY <1>2, <2>3 DEF DaemonStep, TimerDropped, Serving
  <2>4. CASE LoopStep
    BY <1>2, <2>4, LoopServes DEF DaemonStep, LoopStep
  <2>5. CASE LoopReturns
    BY <1>2, <2>5 DEF DaemonStep, LoopReturns, Serving, vars
  <2> QED
    BY <1>2, <2>1, <2>2, <2>3, <2>4, <2>5 DEF DaemonStep, CloseStep
<1>3. CASE ServerStep
  <2>1. server \in {"failed", "closed"} => server' = server
    BY <1>3 DEF ServerStep, ApiStep, Dial, Send, Interrupt, Accept, Read, ReadEnds,
                CloseListener, AcceptEnds, ApiClosed
  <2> QED
    BY <1>3, <2>1 DEF ServerStep, Serving, vars
<1>4. CASE ServerStarts
  BY <1>4 DEF ServerStarts, Listen, ListenFails
<1>5. ASSUME NEW c \in Callers, RequestRuns(c) PROVE DaemonInv'
  BY <1>5 DEF RequestRuns, Reply, UserMessage, Serving, vars
<1>6. CASE Stops
  BY <1>6 DEF Stops, CloseApi, Serving, vars
<1>7. CASE DaemonCloses
  BY <1>7 DEF DaemonCloses, CloseBegins, Serving
<1>8. CASE ProcessEnds
  BY <1>8 DEF ProcessEnds
<1>9. CASE UNCHANGED processVars
  BY <1>9 DEF processVars, vars, Serving
<1> QED
  BY <1>1, <1>2, <1>3, <1>4, <1>5, <1>6, <1>7, <1>8, <1>9 DEF ProcessNext

LEMMA ProcessSound == ProcessSpec => [](ApiInv /\ DaemonInv)
<1>1. ProcessInit => DaemonInv
  BY DaemonInitial
<1>2. ApiInv /\ DaemonInv /\ [ProcessNext]_processVars => DaemonInv'
  BY DaemonInductive
<1> QED
  BY <1>1, <1>2, ServerSound, PTL DEF ProcessSpec

\* No request runs on a daemon that is closing, since the server has been closed, or
\* has never listened, when Daemon.Close begins.
THEOREM DaemonClosedLast == ProcessSpec => []RequestsMeetTheDaemon
<1>1. ApiInv /\ DaemonInv => RequestsMeetTheDaemon
  BY ServerAtRest DEF DaemonInv, RequestsMeetTheDaemon
<1> QED
  BY <1>1, ProcessSound, PTL

LEMMA ClosedIsIdle ==
  ASSUME ApiInv, DaemonInv, [ProcessNext]_processVars,
         closing = "closed", closing' = "closed"
  PROVE  UNCHANGED <<gitVars, mp, messageFile>>
<1>1. server \in {"failed", "closed"} /\ Serving /\ ~looping
  BY DEF DaemonInv
<1>2. CASE Surroundings
  <2>1. ~Start /\ ~FinishStart
    BY <1>1 DEF Serving, Start, FinishStart
  <2> QED
    BY <1>2, <2>1 DEF Surroundings, Edit, TimerFires
<1>3. CASE DaemonStep
  BY <1>1, <1>3 DEF DaemonStep, CloseStep, CloseWatcher, CloseReturns, TimerDropped,
                    LoopStep, LoopReturns
<1>4. CASE ServerStep \/ Stops
  BY <1>4 DEF ServerStep, Stops, vars
<1>5. CASE ServerStarts
  BY <1>5 DEF ServerStarts
<1>6. ASSUME NEW c \in Callers, RequestRuns(c) PROVE FALSE
  BY <1>1, <1>6, ServerAtRest DEF RequestRuns, Reply
<1>7. CASE DaemonCloses
  BY <1>7 DEF DaemonCloses, CloseBegins
<1>8. CASE ProcessEnds
  BY <1>8 DEF ProcessEnds
<1>9. CASE UNCHANGED processVars
  BY <1>9 DEF processVars, vars
<1> QED
  BY <1>2, <1>3, <1>4, <1>5, <1>6, <1>7, <1>8, <1>9 DEF ProcessNext

\* When Daemon.Close has returned, repository, records and message file stay as they
\* are until the process ends.
THEOREM ClosedForGood == ProcessSpec => NothingCommittedAfterClose
<1>1. ApiInv /\ DaemonInv /\ [ProcessNext]_processVars =>
        (closing = "closed" /\ closing' = "closed"
           => UNCHANGED <<gitVars, mp, messageFile>>)
  BY ClosedIsIdle
<1> QED
  BY <1>1, ProcessSound, PTL DEF ProcessSpec, NothingCommittedAfterClose
(***************************************************************************)
(* Types                                                                   *)
(***************************************************************************)

\* Whatever the process does, Close included, stops no timer but a running one.
LEMMA TimersRun == TypeOK /\ RunningInv /\ [ProcessNext]_processVars => RunningInv'
<1> SUFFICES ASSUME TypeOK, RunningInv, [ProcessNext]_processVars
             PROVE  RunningInv'
  OBVIOUS
<1> USE DEF RunningInv, TypeOK, WindowTypeOK
<1>1. StartBatch \/ ResetBatch \/ RetryLater \/ GiveUp \/ UNCHANGED windowVars
        => RunningInv'
  BY DEF StartBatch, ResetBatch, RetryLater, GiveUp, LeaveBatch
<1>2. CASE LoopStep
  <2>1. ASSUME NEW f \in Files, HandleFileEvent(f) PROVE RunningInv'
    BY <1>1, <2>1 DEF HandleFileEvent
  <2>2. BeginBatch => RunningInv'
    BY <1>1 DEF BeginBatch
  <2>3. Snap \/ StageBatch \/ Take \/ Reread \/ CommitBatch => RunningInv'
    BY <1>1 DEF Snap, StageBatch, Take, Reread, CommitBatch
  <2>4. ClearBatch => RunningInv'
    BY <1>1 DEF ClearBatch
  <2>5. SnapFails \/ StageFails \/ CommitFails => RunningInv'
    BY <1>1 DEF SnapFails, StageFails, CommitFails
  <2>6. Recheck => RunningInv'
    BY <1>1 DEF Recheck, ReconcileAll
  <2> QED
    BY <1>1, <1>2, <2>1, <2>2, <2>3, <2>4, <2>5, <2>6 DEF LoopStep, Loop
<1>3. CASE Surroundings
  <2>1. ASSUME NEW f \in Files, NEW s \in Outcomes, Edit(f, s) PROVE RunningInv'
    BY <1>1, <2>1 DEF Edit
  <2>2. CASE TimerFires
    BY <2>2 DEF TimerFires
  <2>3. CASE Start \/ FinishStart
    BY <1>1, <2>3 DEF Start, FinishStart, ReconcileAll
  <2> QED
    BY <1>3, <2>1, <2>2, <2>3 DEF Surroundings
<1>4. CASE CloseWatcher \/ CloseReturns \/ LoopReturns
  BY <1>1, <1>4 DEF CloseWatcher, CloseReturns, LoopReturns, vars
<1>5. CASE TimerDropped
  BY <1>5 DEF TimerDropped
<1>6. CASE CloseBegins
  BY <1>6 DEF CloseBegins
<1>7. CASE ServerStep \/ ServerStarts \/ Stops
  BY <1>1, <1>7 DEF ServerStep, ServerStarts, Stops, vars
<1>8. ASSUME NEW c \in Callers, RequestRuns(c) PROVE RunningInv'
  BY <1>1, <1>8 DEF RequestRuns, UserMessage, vars
<1>9. CASE ProcessEnds
  BY <1>9 DEF ProcessEnds, Crash, KilledWriting
<1>10. CASE UNCHANGED processVars
  BY <1>1, <1>10 DEF processVars, vars
<1> QED
  BY <1>2, <1>3, <1>4, <1>5, <1>6, <1>7, <1>8, <1>9, <1>10
     DEF ProcessNext, DaemonStep, CloseStep, DaemonCloses

\* A batch that is given up leaves what one that is tried again leaves, but no timer.
LEMMA GivenUpTypes ==
  ASSUME TypeOK, SnapError \/ StageError \/ CommitError, GiveUp
  PROVE  TypeOK'
<1> USE DEF TypeOK
<1>1. RepositoryTypeOK' /\ mp' \in [Files -> Record]
  <2>1. CASE SnapError
    <3>1. SnapshotsFail(StillPending, detached)
      BY <2>1 DEF SnapError
    <3>2. StillPending \in SUBSET Files
      BY DEF StillPending, StillPendingIn, BatchTypeOK
    <3> QED
      BY <3>1, <3>2, SnapshotsPartly
  <2>2. CASE StageError
    BY <2>2, GitTypes DEF StageError, MonitorTypeOK
  <2>3. CASE CommitError
    BY <2>3, GitTypes DEF CommitError, MonitorTypeOK, BatchTypeOK
  <2> QED
    BY <2>1, <2>2, <2>3
<1>2. MessageTypeOK'
  <2>1. \A text \in Messages \union {NoMessage} : PutBack(text) => MessageTypeOK'
    BY MessageTypes
  <2> QED
    BY <2>1, MessageTypes DEF SnapError, StageError, CommitError, BatchTypeOK
<1>3. OutsideTypeOK'
  BY OutsideTypes DEF SnapError, SnapshotsFail, StageError, CommitError
<1>4. MonitorTypeOK'
  BY <1>1 DEF MonitorTypeOK, SnapError, StageError, CommitError
<1>5. WindowTypeOK'
  BY DEF GiveUp, WindowTypeOK
<1>6. BatchTypeOK'
  BY Basics DEF GiveUp, LeaveBatch, BatchTypeOK
<1> QED
  BY <1>1, <1>2, <1>3, <1>4, <1>5, <1>6

\* The steps of Close keep the types of the daemon.
LEMMA ClosingTypes ==
  ASSUME TypeOK, RunningInv, CloseBegins \/ CloseWatcher \/ TimerDropped
  PROVE  TypeOK'
<1> USE DEF TypeOK
<1>1. RepositoryTypeOK' /\ MessageTypeOK'
  BY GitTypes, MessageTypes DEF CloseBegins, CloseWatcher, TimerDropped
<1>2. OutsideTypeOK' /\ MonitorTypeOK'
  BY DEF CloseBegins, CloseWatcher, TimerDropped, OutsideTypeOK, MonitorTypeOK
<1>3. WindowTypeOK'
  BY DEF CloseBegins, CloseWatcher, TimerDropped, WindowTypeOK, RunningInv
<1>4. BatchTypeOK'
  BY DEF CloseBegins, CloseWatcher, TimerDropped, BatchTypeOK
<1> QED
  BY <1>1, <1>2, <1>3, <1>4

LEMMA CloseTypes == CloseTypeOK /\ [ProcessNext]_processVars => CloseTypeOK'
BY DEF CloseTypeOK, closeVars, ProcessNext, processVars, Surroundings, DaemonStep,
       CloseStep, CloseWatcher, CloseReturns, TimerDropped, LoopStep, LoopReturns,
       ServerStep, ServerStarts, RequestRuns, Stops, DaemonCloses, CloseBegins,
       ProcessEnds

LEMMA ProcessTypeStep == TypeOK /\ RunningInv /\ [ProcessNext]_processVars => TypeOK'
<1> SUFFICES ASSUME TypeOK, RunningInv, [ProcessNext]_processVars
             PROVE  TypeOK'
  OBVIOUS
<1>1. [Next]_vars => TypeOK'
  BY TypeStep
<1>2. CASE Surroundings
  BY <1>1, <1>2 DEF Surroundings, Next, Running
<1>3. CASE DaemonStep
  <2>1. CASE CloseWatcher \/ TimerDropped
    BY <2>1, ClosingTypes
  <2>2. CASE CloseReturns \/ LoopReturns
    BY <1>1, <2>2 DEF CloseReturns, LoopReturns
  <2>3. CASE LoopStep
    <3>1. CASE (SnapError \/ StageError \/ CommitError) /\ GiveUp
      BY <3>1, GivenUpTypes
    <3>2. CASE Loop
      BY <1>1, <3>2 DEF Next, Running
    <3> QED
      BY <2>3, <3>1, <3>2 DEF LoopStep, Loop
  <2> QED
    BY <1>3, <2>1, <2>2, <2>3 DEF DaemonStep, CloseStep
<1>4. CASE ServerStep \/ Stops
  BY <1>1, <1>4 DEF ServerStep, Stops
<1>5. CASE ServerStarts
  <2>1. RepositoryTypeOK' /\ MessageTypeOK' /\ OutsideTypeOK'
    BY <1>5, GitTypes, MessageTypes, OutsideTypes DEF TypeOK, ServerStarts
  <2>2. MonitorTypeOK' /\ WindowTypeOK' /\ BatchTypeOK'
    BY <1>5 DEF TypeOK, ServerStarts, MonitorTypeOK, WindowTypeOK, BatchTypeOK
  <2> QED
    BY <2>1, <2>2 DEF TypeOK
<1>6. ASSUME NEW c \in Callers, RequestRuns(c) PROVE TypeOK'
  BY <1>1, <1>6 DEF RequestRuns, Next, Running
<1>7. CASE DaemonCloses
  BY <1>7, ClosingTypes DEF DaemonCloses
<1>8. CASE ProcessEnds
  BY <1>1, <1>8 DEF ProcessEnds, Next
<1>9. CASE UNCHANGED processVars
  BY <1>1, <1>9 DEF processVars
<1> QED
  BY <1>2, <1>3, <1>4, <1>5, <1>6, <1>7, <1>8, <1>9 DEF ProcessNext

\* Close, the server and the daemon stay in their domains: no counter of timers or of
\* goroutines goes below zero, at whatever moment the two are closed.
THEOREM ProcessTypes == ProcessSpec => []ProcessTypeOK
<1>1. ProcessInit => TypeOK /\ RunningInv /\ CloseTypeOK
  BY TypeInit, WindowInit, WindowRuns DEF ProcessInit, CloseInit, CloseTypeOK
<1>2. TypeOK /\ RunningInv /\ CloseTypeOK /\ [ProcessNext]_processVars
        => (TypeOK /\ RunningInv /\ CloseTypeOK)'
  BY ProcessTypeStep, CloseTypes, TimersRun
<1>3. TypeOK /\ CloseTypeOK /\ ApiInv => ProcessTypeOK
  BY DEF ProcessTypeOK, ApiInv
<1> QED
  BY <1>1, <1>2, <1>3, ServerSound, PTL DEF ProcessSpec
=============================================================================
