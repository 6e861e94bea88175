-------------------------- MODULE OperationsProofs --------------------------
(***************************************************************************)
(* Theorems about Operations for every choice of its constants, any number *)
(* of connections included: the lemmas of CmDaemonProofs cover the steps   *)
(* of the daemon, those below the steps of adds and removes.               *)
(***************************************************************************)
EXTENDS Operations, CmDaemonProofs

USE DEF outsideVars, watchVars, windowVars, messageVars, batchVars, gitVars, observations

\* The requests, and what is observed of them, stay within their domains.
RequestsInv ==
  /\ requests \in [Clients -> Request]
  /\ begun \in 0 .. MaxRequests
  /\ raced \subseteq Files /\ renewed \subseteq Files
  /\ \A c \in Clients : requests[c].at = "monitor" => requests[c].content \in Contents

OpsInv == TypeOK /\ WindowInv /\ RequestsInv

LEMMA OpsInitial == OpsInit => OpsInv /\ SyncInv
<1> SUFFICES ASSUME OpsInit PROVE OpsInv /\ SyncInv
  OBVIOUS
<1>1. TypeOK /\ WindowInv /\ SyncInv
  BY TypeInit, WindowInit, SyncInit DEF OpsInit
<1>2. RequestsInv
  BY RequestsAssumption DEF OpsInit, RequestsInv, Request, NoRequest
<1> QED
  BY <1>1, <1>2 DEF OpsInv

(***************************************************************************)
(* The goroutines of the requests                                          *)
(***************************************************************************)

\* How a step of one connection moves the requests.
LEMMA RequestsMove ==
  ASSUME RequestsInv, NEW c \in Clients, NEW f \in Files
  PROVE  /\ \A step \in AddSteps \union RemoveSteps :
              /\ requests[c] # NoRequest /\ step # "monitor" /\ Goto(c, step)
                 /\ UNCHANGED <<begun, observations>> => RequestsInv'
              /\ step # "monitor" /\ Begin(c, step, f) => RequestsInv'
         /\ Return(c) /\ UNCHANGED <<begun, observations>> => RequestsInv'
         /\ UNCHANGED <<requests, begun, observations>> => RequestsInv'
<1> USE DEF RequestsInv, Request
<1>1. ASSUME NEW step \in AddSteps \union RemoveSteps, requests[c] # NoRequest,
             step # "monitor", Goto(c, step), UNCHANGED <<begun, observations>>
      PROVE  RequestsInv'
  <2>1. [requests[c] EXCEPT !.at = step] \in Request
    BY <1>1
  <2>2. requests' = [requests EXCEPT ![c] = [requests[c] EXCEPT !.at = step]]
    BY <1>1 DEF Goto
  <2> QED
    BY <1>1, <2>1, <2>2
<1>2. ASSUME NEW step \in AddSteps \union RemoveSteps, step # "monitor", Begin(c, step, f)
      PROVE  RequestsInv'
  <2>1. begun' \in 0 .. MaxRequests
    BY <1>2, RequestsAssumption DEF Begin
  <2>2. [NoRequest EXCEPT !.at = step, !.file = f] \in Request
    BY DEF NoRequest
  <2> QED
    BY <1>2, <2>1, <2>2 DEF Begin
<1>3. Return(c) /\ UNCHANGED <<begun, observations>> => RequestsInv'
  BY DEF Return, NoRequest
<1> QED
  BY <1>1, <1>2, <1>3

\* An add that records its file moves no other connection.
LEMMA MonitorsMove ==
  ASSUME RequestsInv, NEW c \in Clients, NEW f \in Files, AddMonitors(c, f)
  PROVE  /\ requests' \in [Clients -> Request]
         /\ \A d \in Clients :
              /\ requests'[d].at = IF d = c THEN "watch" ELSE requests[d].at
              /\ requests'[d].file = requests[d].file
              /\ requests'[d].content = requests[d].content
<1>1. requests[c].at = "monitor" /\ requests[c] # NoRequest
  BY DEF AddMonitors, At, NoRequest
<1>2. \A d \in Clients : Holds(d, f) => requests[d] # NoRequest
  BY DEF Holds, At, NoRequest
<1>3. PICK exists \in {"there", "gone"} :
        requests' =
          [d \in Clients |->
             IF d = c THEN [requests[d] EXCEPT !.at = "watch"]
             ELSE IF Holds(d, f) THEN [requests[d] EXCEPT !.held = exists] ELSE requests[d]]
  BY DEF AddMonitors, ExistsOutside
<1>4. \A d \in Clients : requests[d] \in Request
  BY DEF RequestsInv
<1>5. [requests[c] EXCEPT !.at = "watch"] \in Request
  BY <1>1, <1>4 DEF Request, AddSteps
<1>6. ASSUME NEW d \in Clients, Holds(d, f), NEW h \in {"there", "gone"}
      PROVE  [requests[d] EXCEPT !.held = h] \in Request
  BY <1>2, <1>4, <1>6 DEF Request
<1>7. \A d \in Clients : requests'[d] \in Request
  BY <1>3, <1>4, <1>5, <1>6
<1>8. \A d \in Clients :
        /\ requests'[d].at = IF d = c THEN "watch" ELSE requests[d].at
        /\ requests'[d].file = requests[d].file
        /\ requests'[d].content = requests[d].content
  BY <1>3, <1>4 DEF Request, NoRequest
<1> QED
  BY <1>3, <1>7, <1>8

\* A goroutine that is at a step serves a request.
LEMMA AtRequest ==
  ASSUME NEW c \in Clients, NEW f \in Files,
         NEW step \in AddSteps \union RemoveSteps, At(c, step, f)
  PROVE  requests[c] # NoRequest
BY DEF At, NoRequest, AddSteps, RemoveSteps

\* The steps of the requests leave the window, the message and the loop alone, but for
\* the records that the loop holds.
LEMMA LoopAside ==
  ASSUME TypeOK, WindowInv, UNCHANGED <<windowVars, messageVars, pc, batch, lines, taken>>
  PROVE  /\ WindowTypeOK' /\ MessageTypeOK' /\ WindowInv'
         /\ UNCHANGED detached \/ detached' \in Lines => BatchTypeOK'
<1>1. WindowTypeOK' /\ WindowInv'
  BY WindowMoves, WindowRuns, WindowTypes DEF TypeOK
<1>2. MessageTypeOK'
  BY DEF TypeOK, MessageTypeOK
<1>3. UNCHANGED detached \/ detached' \in Lines => BatchTypeOK'
  BY DEF TypeOK, BatchTypeOK
<1> QED
  BY <1>1, <1>2, <1>3

\* The first steps of both requests.
LEMMA BeginTypes ==
  ASSUME OpsInv, NEW c \in Clients, NEW f \in Files, AddBegins(c, f) \/ RemoveBegins(c, f)
  PROVE  OpsInv'
<1>1. CASE AddBegins(c, f)
  <2>1. RequestsInv'
    BY <1>1, RequestsMove DEF OpsInv, AddBegins, AddSteps
  <2>2. TypeOK' /\ WindowInv'
    BY <1>1, TypeStep, WindowRuns, WindowStep DEF OpsInv, AddBegins
  <2> QED
    BY <2>1, <2>2 DEF OpsInv
<1>2. CASE RemoveBegins(c, f)
  <2>1. RequestsInv'
    BY <1>2, RequestsMove DEF OpsInv, RemoveBegins, RemoveSteps
  <2>2. WindowTypeOK' /\ MessageTypeOK' /\ BatchTypeOK' /\ WindowInv'
    BY <1>2, LoopAside DEF OpsInv, RemoveBegins
  <2>3. RepositoryTypeOK' /\ OutsideTypeOK'
    BY <1>2, GitTypes, OutsideTypes DEF OpsInv, TypeOK, RemoveBegins
  <2>4. MonitorTypeOK'
    BY <1>2 DEF OpsInv, TypeOK, RemoveBegins, MonitorTypeOK
  <2> QED
    BY <2>1, <2>2, <2>3, <2>4 DEF OpsInv, TypeOK
<1> QED
  BY <1>1, <1>2

\* The later steps of an add.
LEMMA AddTypes ==
  ASSUME OpsInv, NEW c \in Clients, NEW f \in Files, UNCHANGED <<begun, raced>>,
         \/ AddMonitors(c, f)
         \/ /\ AddLinks(c, f) \/ AddSnapshots(c, f) \/ AddWatches(c, f)
            /\ UNCHANGED renewed
  PROVE  OpsInv'
<1> USE DEF OpsInv, TypeOK
<1>1. CASE AddLinks(c, f) /\ UNCHANGED renewed
  <2>1. RequestsInv'
    BY <1>1, AtRequest, RequestsMove DEF AddLinks, AddSteps
  <2>2. WindowTypeOK' /\ MessageTypeOK' /\ BatchTypeOK' /\ WindowInv'
    BY <1>1, LoopAside DEF AddLinks
  <2>3. RepositoryTypeOK'
    BY <1>1, GitTypes DEF AddLinks
  <2>4. OutsideTypeOK' /\ MonitorTypeOK'
    BY <1>1, RequestsAssumption
    DEF AddLinks, Noticed, OutsideTypeOK, MonitorTypeOK, Found
  <2> QED
    BY <2>1, <2>2, <2>3, <2>4
<1>2. CASE AddSnapshots(c, f) /\ UNCHANGED renewed
  <2>1. RequestsInv'
    <3>1. [requests[c] EXCEPT !.at = "monitor", !.content = fs[f]] \in Request
      BY <1>2, AtRequest DEF AddSnapshots, RequestsInv, Request, AddSteps
    <3>2. requests' = [requests EXCEPT ![c] =
                         [requests[c] EXCEPT !.at = "monitor", !.content = fs[f]]]
      BY <1>2 DEF AddSnapshots
    <3>3. requests[c] # NoRequest
      BY <1>2, AtRequest DEF AddSnapshots, AddSteps
    <3>4. requests'[c].content = fs[f] /\ fs[f] \in Contents
      BY <1>2, <3>2, <3>3 DEF AddSnapshots, RequestsInv, Request
    <3> QED
      BY <1>2, <3>1, <3>2, <3>4 DEF RequestsInv, AddSnapshots
  <2>2. WindowTypeOK' /\ MessageTypeOK' /\ BatchTypeOK' /\ WindowInv'
    BY <1>2, LoopAside DEF AddSnapshots
  <2>3. RepositoryTypeOK'
    BY <1>2 DEF AddSnapshots, RepositoryTypeOK, Tree, Snapshot
  <2>4. OutsideTypeOK' /\ MonitorTypeOK'
    BY <1>2, OutsideTypes DEF AddSnapshots, MonitorTypeOK
  <2> QED
    BY <2>1, <2>2, <2>3, <2>4
<1>3. CASE AddMonitors(c, f)
  <2>1. RequestsInv'
    <3>1. renewed' \subseteq Files
      BY <1>3 DEF AddMonitors, RequestsInv
    <3> QED
      BY <1>3, <3>1, MonitorsMove DEF RequestsInv
  <2>2. WindowTypeOK' /\ MessageTypeOK' /\ BatchTypeOK' /\ WindowInv'
    <3>1. detached' \in Lines
      BY <1>3 DEF AddMonitors, BatchTypeOK, MonitorTypeOK, Record, Lines
    <3> QED
      BY <1>3, <3>1, LoopAside DEF AddMonitors
  <2>3. RepositoryTypeOK'
    BY <1>3, GitTypes DEF AddMonitors
  <2>4. OutsideTypeOK'
    BY <1>3, OutsideTypes DEF AddMonitors, OutsideTypeOK
  <2>5. MonitorTypeOK'
    <3>1. FromSnapshot(requests[c].content) \in Record
      BY <1>3, SnapshotRecord DEF AddMonitors, At, RequestsInv, Snapshot
    <3> QED
      BY <1>3, <3>1 DEF AddMonitors, MonitorTypeOK
  <2> QED
    BY <2>1, <2>2, <2>3, <2>4, <2>5
<1>4. CASE AddWatches(c, f) /\ UNCHANGED renewed
  <2>1. RequestsInv'
    BY <1>4, AtRequest, RequestsMove DEF AddWatches, AddSteps
  <2>2. WindowTypeOK' /\ MessageTypeOK' /\ BatchTypeOK' /\ WindowInv'
    BY <1>4, LoopAside DEF AddWatches
  <2>3. RepositoryTypeOK'
    BY <1>4, GitTypes DEF AddWatches
  <2>4. OutsideTypeOK' /\ MonitorTypeOK'
    BY <1>4, OutsideTypes DEF AddWatches, MonitorTypeOK
  <2> QED
    BY <2>1, <2>2, <2>3, <2>4
<1> QED
  BY <1>1, <1>2, <1>3, <1>4

\* The later steps of a remove, and what both requests end with.
LEMMA RemoveTypes ==
  ASSUME OpsInv, NEW c \in Clients, NEW f \in Files, UNCHANGED <<begun, observations>>,
         \/ RemoveUnlinks(c, f) \/ RemoveUnsnaps(c, f) \/ RemoveUnsnapFails(c, f)
         \/ RequestStages(c, f) \/ RequestCommits(c, f) \/ RequestFails(c, f)
  PROVE  OpsInv'
<1> USE DEF OpsInv, TypeOK
<1>1. WindowTypeOK' /\ MessageTypeOK' /\ BatchTypeOK' /\ WindowInv'
  BY LoopAside DEF RemoveUnlinks, RemoveUnsnaps, RemoveUnsnapFails, RequestStages,
                   RequestCommits, RequestFails
<1>2. MonitorTypeOK'
  BY DEF RemoveUnlinks, RemoveUnsnaps, RemoveUnsnapFails, RequestStages,
         RequestCommits, RequestFails, MonitorTypeOK
<1>3. OutsideTypeOK'
  <2>1. CASE RemoveUnlinks(c, f)
    BY <2>1 DEF RemoveUnlinks, OutsideTypeOK
  <2>2. CASE RemoveUnsnaps(c, f) \/ RequestStages(c, f) \/ RequestCommits(c, f)
    BY <2>2, OutsideTypes DEF RemoveUnsnaps, RequestStages, RequestCommits
  <2>3. CASE RemoveUnsnapFails(c, f) \/ RequestFails(c, f)
    BY <2>3, OutsideTypes DEF RemoveUnsnapFails, RequestFails, SnapshotFails
  <2> QED
    BY <2>1, <2>2, <2>3
<1>4. RepositoryTypeOK'
  <2>1. CASE RemoveUnlinks(c, f)
    BY <2>1, GitTypes DEF RemoveUnlinks
  <2>2. CASE RemoveUnsnaps(c, f)
    BY <2>2 DEF RemoveUnsnaps, RepositoryTypeOK, Tree, Snapshot
  <2>3. CASE RemoveUnsnapFails(c, f)
    <3>1. Stage({f}) \/ UNCHANGED gitVars
      BY <2>3 DEF RemoveUnsnapFails
    <3> QED
      BY <3>1, GitTypes
  <2>4. CASE RequestStages(c, f)
    BY <2>4, GitTypes DEF RequestStages
  <2>5. CASE RequestCommits(c, f)
    BY <2>5, GitTypes, Basics DEF RequestCommits
  <2>6. CASE RequestFails(c, f)
    <3>1. UNCHANGED gitVars \/ (SnapshotFails(f, fs[f]) /\ UNCHANGED <<index, history>>)
      BY <2>6 DEF RequestFails
    <3> QED
      BY <3>1, GitTypes, SnapshotPartly
  <2> QED
    BY <2>1, <2>2, <2>3, <2>4, <2>5, <2>6
<1>5. RequestsInv'
  <2>1. CASE RemoveUnlinks(c, f)
    BY <2>1, AtRequest, RequestsMove DEF RemoveUnlinks, RemoveSteps
  <2>2. CASE RemoveUnsnaps(c, f)
    BY <2>2, AtRequest, RequestsMove DEF RemoveUnsnaps, RemoveSteps
  <2>3. CASE RequestStages(c, f)
    BY <2>3, AtRequest, RequestsMove DEF RequestStages, RemoveSteps
  <2>4. CASE RemoveUnsnapFails(c, f) \/ RequestCommits(c, f) \/ RequestFails(c, f)
    BY <2>4, RequestsMove DEF RemoveUnsnapFails, RequestCommits, RequestFails
  <2> QED
    BY <2>1, <2>2, <2>3, <2>4
<1> QED
  BY <1>1, <1>2, <1>3, <1>4, <1>5

\* A kill, whatever is being written.
LEMMA KillTypes ==
  ASSUME OpsInv, NEW F, NEW probe, KilledServing(F, probe)
  PROVE  OpsInv'
<1> DEFINE G == BatchSnapshots \union AddedSnapshots \union F
<1>k. /\ pc' = "down" /\ crashes < MaxCrashes /\ crashes' = crashes + 1
      /\ events' = {} /\ lost' = {} /\ watched' = {} /\ monitored' = {}
      /\ mp' = FromTree([f \in Files |-> Absent])
      /\ batchActive' = FALSE /\ batchTimer' = "nil" /\ timers' = 0 /\ work' = 0
      /\ message' = NoMessage
      /\ batch' = {} /\ lines' = NoLines /\ taken' = NoMessage /\ detached' = NoLines
      /\ UNCHANGED <<fs, links, edits, faults, sent, newest, messageFile, index, history>>
  BY DEF KilledServing, KilledWriting
<1>1. RequestsInv'
  BY DEF OpsInv, KilledServing, RequestsInv, Request, NoRequest
<1>2. RepositoryTypeOK'
  <2>1. PICK s \in [G -> Snapshot] : worktree' = Snapshots(G, s)
    BY DEF KilledServing, KilledWriting
  <2>2. worktree' \in Tree
    BY <2>1 DEF OpsInv, TypeOK, Snapshots, RepositoryTypeOK, Tree
  <2> QED
    BY <1>k, <2>2 DEF OpsInv, TypeOK, RepositoryTypeOK
<1>3. MessageTypeOK' /\ WindowTypeOK' /\ WindowInv'
  BY <1>k DEF OpsInv, TypeOK, MessageTypeOK, WindowTypeOK, WindowInv, Committing
<1>4. OutsideTypeOK'
  BY <1>k, BoundsAssumption DEF OpsInv, TypeOK, OutsideTypeOK
<1>5. MonitorTypeOK' /\ BatchTypeOK'
  BY <1>k, Basics DEF MonitorTypeOK, BatchTypeOK, FromTree
<1> QED
  BY <1>1, <1>2, <1>3, <1>4, <1>5 DEF OpsInv, TypeOK

LEMMA OpsStep == OpsInv /\ [OpsNext]_opsVars => OpsInv'
<1> SUFFICES ASSUME OpsInv, [OpsNext]_opsVars PROVE OpsInv'
  OBVIOUS
<1>1. CASE (Running \/ UNCHANGED vars) /\ UNCHANGED <<requests, begun, observations>>
  <2>1. TypeOK' /\ WindowInv'
    BY <1>1, TypeStep, WindowRuns, WindowStep DEF OpsInv, Next
  <2>2. RequestsInv'
    BY <1>1 DEF OpsInv, RequestsInv
  <2> QED
    BY <2>1, <2>2 DEF OpsInv
<1>2. ASSUME NEW c \in Clients, NEW f \in Files, AddBegins(c, f) \/ RemoveBegins(c, f)
      PROVE  OpsInv'
  BY <1>2, BeginTypes
<1>3. ASSUME NEW c \in Clients, RequestStep(c), UNCHANGED <<begun, raced>> PROVE OpsInv'
  BY <1>3, AddTypes, RemoveTypes DEF RequestStep
<1>4. CASE Killed
  BY <1>4, KillTypes DEF Killed
<1> QED
  BY <1>1, <1>2, <1>3, <1>4 DEF OpsNext, OpsRunning, opsVars

LEMMA OpsAlways == OpsSpec => []OpsInv
<1>1. OpsInit => OpsInv
  BY OpsInitial
<1> QED
  BY <1>1, OpsStep, PTL DEF OpsSpec

\* With any number of connections, every variable stays within its domain, and a
\* request that is about to record a file holds a content, never the outcome of a
\* probe that failed.
THEOREM OpsTypes == OpsSpec => []OpsTypeOK
<1>1. OpsInv => OpsTypeOK
  BY DEF OpsInv, RequestsInv, OpsTypeOK
<1> QED
  BY <1>1, OpsAlways, PTL

(***************************************************************************)
(* No change is missed                                                     *)
(***************************************************************************)

\* What the requests write does not hide a change: a file that AddLinks writes has
\* an event or cannot have one, and a record that AddMonitors makes is in step
\* with the file, or the edit in between is lost.
LEMMA RequestSync ==
  ASSUME OpsInv, SyncInv, NEW c \in Clients, RequestStep(c)
  PROVE  SyncInv'
<1> USE DEF SyncInv, Serving
<1>t. mp \in [Files -> Record] /\ fs \in [Files -> Found] /\ monitored \subseteq Files
  BY DEF OpsInv, TypeOK, MonitorTypeOK, OutsideTypeOK
<1>1. ASSUME NEW f \in Files, AddLinks(c, f) PROVE SyncInv'
  <2>1. CASE f \in links
    BY <1>1, <1>t, <2>1 DEF AddLinks, Noticed
  <2>2. CASE f \notin links
    BY <1>1, <2>2 DEF AddLinks
  <2> QED
    BY <2>1, <2>2
<1>2. ASSUME NEW f \in Files, AddMonitors(c, f) PROVE SyncInv'
  <2>1. requests[c].content \in Contents
    BY <1>2 DEF OpsInv, RequestsInv, AddMonitors, At
  <2>2. /\ mp' = [mp EXCEPT ![f] = FromSnapshot(requests[c].content)]
        /\ monitored' = monitored \union {f}
        /\ lost' = IF requests[c].content = fs[f] THEN lost \ {f} ELSE lost \union {f}
        /\ UNCHANGED <<fs, events, pc>>
    BY <1>2 DEF AddMonitors
  <2>3. requests[c].content = fs[f] => ~Transition(mp'[f], fs[f])
    BY <1>t, <2>1, <2>2, DistinctValues DEF FromSnapshot, Transition
  <2>4. \A g \in Files \ {f} : mp'[g] = mp[g]
    BY <1>t, <2>2
  <2> QED
    BY <1>t, <2>2, <2>3, <2>4
<1>3. ASSUME NEW f \in Files,
             \/ AddSnapshots(c, f) \/ AddWatches(c, f) \/ RemoveUnlinks(c, f)
             \/ RemoveUnsnaps(c, f) \/ RemoveUnsnapFails(c, f)
             \/ RequestStages(c, f) \/ RequestCommits(c, f) \/ RequestFails(c, f)
      PROVE  SyncInv'
  BY <1>3 DEF AddSnapshots, AddWatches, RemoveUnlinks, RemoveUnsnaps,
              RemoveUnsnapFails, RequestStages, RequestCommits, RequestFails
<1> QED
  BY <1>1, <1>2, <1>3 DEF RequestStep

LEMMA OpsSyncStep == OpsInv /\ SyncInv /\ [OpsNext]_opsVars => SyncInv'
<1> SUFFICES ASSUME OpsInv, SyncInv, [OpsNext]_opsVars PROVE SyncInv'
  OBVIOUS
<1>1. CASE Running \/ UNCHANGED vars
  BY <1>1, SyncStep DEF OpsInv, Next
<1>2. ASSUME NEW c \in Clients, NEW f \in Files, AddBegins(c, f) \/ RemoveBegins(c, f)
      PROVE  SyncInv'
  BY <1>2 DEF AddBegins, RemoveBegins, vars, SyncInv, Serving
<1>3. ASSUME NEW c \in Clients, RequestStep(c) PROVE SyncInv'
  BY <1>3, RequestSync
<1>4. CASE Killed
  BY <1>4 DEF Killed, KilledServing, KilledWriting, SyncInv, Serving
<1> QED
  BY <1>1, <1>2, <1>3, <1>4 DEF OpsNext, OpsRunning, opsVars

\* Beside any number of adds and removes too, a monitored file that differs from
\* its record has an event on the way, unless nobody could or did report the edit.
THEOREM RequestsMissNothing == OpsSpec => []NoMissedChange
<1>1. OpsInv /\ SyncInv => NoMissedChange
  BY DEF SyncInv, Serving, NoMissedChange
<1>2. OpsInit => SyncInv
  BY OpsInitial
<1> QED
  BY <1>1, <1>2, OpsSyncStep, OpsAlways, PTL DEF OpsSpec

(***************************************************************************)
(* The window                                                              *)
(***************************************************************************)

\* Adds and removes come between any two steps of the loop and set no timer.
THEOREM RequestsOneWindow == OpsSpec => []AtMostOneWindow
<1>1. OpsInv => AtMostOneWindow
  BY DEF OpsInv, TypeOK, WindowTypeOK, WindowInv, AtMostOneWindow
<1> QED
  BY <1>1, OpsAlways, PTL

\* A record that comes with an add is clean and of a file that exists; one that
\* goes with a remove is no longer asked for.
LEMMA RequestPending ==
  ASSUME OpsInv, PendingInv, NEW c \in Clients, RequestStep(c)
  PROVE  PendingInv'
<1>t. mp \in [Files -> Record] /\ fs \in [Files -> Found] /\ monitored \subseteq Files
  BY DEF OpsInv, TypeOK, MonitorTypeOK, OutsideTypeOK
<1>1. ASSUME NEW f \in Files, AddLinks(c, f) PROVE PendingInv'
  <2>1. /\ fs' = fs \/ fs' = [fs EXCEPT ![f] = OwnPath]
        /\ UNCHANGED <<mp, monitored, pc, batchTimer>>
    BY <1>1 DEF AddLinks
  <2>2. OwnPath # Unreadable
    BY RequestsAssumption, DistinctValues
  <2>3. \A g \in Files : fs'[g] \in {fs[g], OwnPath}
    BY <1>t, <2>1
  <2> QED
    BY <2>1, <2>2, <2>3 DEF PendingInv
<1>2. ASSUME NEW f \in Files, AddMonitors(c, f) PROVE PendingInv'
  <2>1. requests[c].content \in Contents
    BY <1>2 DEF OpsInv, RequestsInv, AddMonitors, At
  <2>2. /\ mp' = [mp EXCEPT ![f] = FromSnapshot(requests[c].content)]
        /\ monitored' = monitored \union {f}
        /\ UNCHANGED <<fs, pc, batchTimer>>
    BY <1>2 DEF AddMonitors
  <2>3. mp'[f].exists /\ mp'[f].pending = "clean"
    BY <1>t, <2>1, <2>2, DistinctValues DEF FromSnapshot
  <2>4. \A g \in Files \ {f} : mp'[g] = mp[g]
    BY <1>t, <2>2
  <2> QED
    BY <1>t, <2>2, <2>3, <2>4 DEF PendingInv
<1>3. ASSUME NEW f \in Files,
             \/ AddSnapshots(c, f) \/ AddWatches(c, f) \/ RemoveUnlinks(c, f)
             \/ RemoveUnsnaps(c, f) \/ RemoveUnsnapFails(c, f)
             \/ RequestStages(c, f) \/ RequestCommits(c, f) \/ RequestFails(c, f)
      PROVE  PendingInv'
  <2>1. UNCHANGED <<fs, mp, monitored, pc, batchTimer>>
    BY <1>3 DEF AddSnapshots, AddWatches, RemoveUnlinks, RemoveUnsnaps,
                RemoveUnsnapFails, RequestStages, RequestCommits, RequestFails
  <2> QED
    BY <2>1 DEF PendingInv
<1> QED
  BY <1>1, <1>2, <1>3 DEF RequestStep

LEMMA OpsPendingStep == OpsInv /\ PendingInv /\ [OpsNext]_opsVars => PendingInv'
<1> SUFFICES ASSUME OpsInv, PendingInv, [OpsNext]_opsVars PROVE PendingInv'
  OBVIOUS
<1>1. CASE Running \/ UNCHANGED vars
  BY <1>1, PendingStep DEF OpsInv, Next
<1>2. ASSUME NEW c \in Clients, NEW f \in Files, AddBegins(c, f) \/ RemoveBegins(c, f)
      PROVE  PendingInv'
  <2>1. monitored' \subseteq monitored /\ UNCHANGED <<fs, mp, pc, batchTimer>>
    BY <1>2 DEF AddBegins, RemoveBegins, vars
  <2> QED
    BY <2>1 DEF PendingInv
<1>3. ASSUME NEW c \in Clients, RequestStep(c) PROVE PendingInv'
  BY <1>3, RequestPending
<1>4. CASE Killed
  BY <1>4 DEF Killed, KilledServing, KilledWriting, PendingInv
<1> QED
  BY <1>1, <1>2, <1>3, <1>4 DEF OpsNext, OpsRunning, opsVars

\* Files that come and go take no window with them: what is pending while the loop
\* waits has a timer or a queued commit.
THEOREM RequestsPendingWindow == OpsSpec => []PendingHasWindow
<1>1. OpsInv /\ PendingInv => PendingHasWindow
  BY DEF OpsInv, TypeOK, WindowTypeOK, WindowInv, PendingInv, PendingHasWindow, Committing
<1>2. OpsInit => PendingInv
  BY PendingInit DEF OpsInit
<1> QED
  BY <1>1, <1>2, OpsPendingStep, OpsAlways, PTL DEF OpsSpec

(***************************************************************************)
(* The registry                                                            *)
(***************************************************************************)

\* Registry entry and record are made and dropped in opposite orders: an add that
\* has made the entry will make the record, a remove that will drop the entry has
\* dropped the record.  It takes a second request for the same file to come between,
\* and no request outlives the process.
RegisteredInv ==
  /\ \A f \in monitored \ raced : f \in links
  /\ ~Serving => \A c \in Clients : requests[c] = NoRequest
  /\ \A c, d \in Clients :
       /\ c # d /\ requests[c].file = requests[d].file
       /\ requests[c] # NoRequest /\ requests[d] # NoRequest
       => requests[c].file \in raced
  /\ \A c \in Clients, f \in Files \ raced :
       /\ At(c, "snapshot", f) \/ At(c, "monitor", f) => f \in links
       /\ At(c, "unlink", f) \/ At(c, "unsnap", f) => f \notin monitored

LEMMA RegisteredInit == OpsInit => RegisteredInv
BY DEF OpsInit, Init, RegisteredInv, NoRequest, At, Serving

\* What the loop, the surroundings and the restores do to registry and records.
LEMMA Untouched ==
  ASSUME RegisteredInv, UNCHANGED <<links, monitored, requests, raced>>, Serving => Serving'
  PROVE  RegisteredInv'
BY DEF RegisteredInv, At, Serving

LEMMA LoopLeaves ==
  ASSUME Loop
  PROVE  UNCHANGED <<links, monitored>> /\ (Serving => Serving')
<1> USE DEF Serving
<1>1. ASSUME NEW f \in Files, HandleFileEvent(f)
      PROVE  UNCHANGED <<links, monitored>> /\ (Serving => Serving')
  BY <1>1 DEF HandleFileEvent
<1>2. CASE BeginBatch
  BY <1>2 DEF BeginBatch
<1>3. CASE Snap \/ StageBatch \/ Take \/ Reread \/ CommitBatch \/ ClearBatch
  BY <1>3 DEF Snap, StageBatch, Take, Reread, CommitBatch, ClearBatch
<1>4. CASE SnapFails \/ StageFails \/ CommitFails
  BY <1>4 DEF SnapFails, SnapError, StageFails, StageError, CommitFails, CommitError,
              RetryLater, LeaveBatch
<1>5. CASE Recheck
  BY <1>5 DEF Recheck, ReconcileAll
<1> QED
  BY <1>1, <1>2, <1>3, <1>4, <1>5 DEF Loop

LEMMA RegisteredRunning ==
  ASSUME RegisteredInv, Running, UNCHANGED <<requests, raced>>
  PROVE  RegisteredInv'
<1>1. ASSUME NEW f \in Files, NEW s \in Outcomes, Edit(f, s) PROVE RegisteredInv'
  BY <1>1, Untouched DEF Edit, Serving
<1>2. CASE (\E text \in Messages : UserMessage(text)) \/ TimerFires
  BY <1>2, Untouched DEF UserMessage, TimerFires, Serving
<1>3. CASE Loop
  BY <1>3, LoopLeaves, Untouched
<1>4. CASE Start
  <2>1. ~Serving /\ ~Serving' /\ monitored' = links /\ UNCHANGED links
    BY <1>4 DEF Start, Serving
  <2> QED
    BY <2>1 DEF RegisteredInv, At, NoRequest
<1>5. CASE FinishStart
  <2>1. ~Serving /\ UNCHANGED <<links, monitored>>
    BY <1>5 DEF FinishStart, ReconcileAll, Serving
  <2> QED
    BY <2>1, Untouched
<1> QED
  BY <1>1, <1>2, <1>3, <1>4, <1>5 DEF Running

LEMMA RegisteredKilled ==
  ASSUME NEW F, NEW probe, KilledServing(F, probe)
  PROVE  RegisteredInv'
<1>1. monitored' = {} /\ requests' = [c \in Clients |-> NoRequest]
  BY DEF KilledServing, KilledWriting
<1> QED
  BY <1>1 DEF RegisteredInv, NoRequest, At

\* The goroutine of c goes on with its request, or returns, and makes or drops neither
\* record nor entry: what the invariant says of it and of the others stays.
LEMMA RegisteredGoesOn ==
  ASSUME RegisteredInv, RequestsInv, NEW c \in Clients, requests[c] # NoRequest,
         requests'[c].file = requests[c].file \/ requests'[c] = NoRequest,
         \A d \in Clients \ {c} : /\ requests'[d].file = requests[d].file
                                  /\ requests'[d].at = requests[d].at
                                  /\ requests'[d] # NoRequest => requests[d] # NoRequest,
         UNCHANGED <<pc, raced>>
  PROVE  /\ ~Serving' => \A d \in Clients : requests'[d] = NoRequest
         /\ \A d, e \in Clients :
              /\ d # e /\ requests'[d].file = requests'[e].file
              /\ requests'[d] # NoRequest /\ requests'[e] # NoRequest
              => requests'[d].file \in raced'
         /\ \A d \in Clients, f \in Files \ raced :
              d # c => \A step \in AddSteps \union RemoveSteps : At(d, step, f)' => At(d, step, f)
BY DEF RegisteredInv, Serving, At

\* With f not raced, the request of c is the only one for it.
LEMMA OnlyRequest ==
  ASSUME RegisteredInv, NEW c \in Clients, NEW d \in Clients, NEW f \in Files \ raced,
         NEW step \in AddSteps \union RemoveSteps, At(c, step, f),
         NEW other \in AddSteps \union RemoveSteps, At(d, other, f)
  PROVE  d = c
<1>1. requests[c] # NoRequest /\ requests[d] # NoRequest
  BY AtRequest
<1> QED
  BY <1>1 DEF RegisteredInv, At

LEMMA RegisteredRequests ==
  ASSUME RegisteredInv, RequestsInv, NEW c \in Clients, RequestStep(c), UNCHANGED raced
  PROVE  RegisteredInv'
<1>t. requests \in [Clients -> Request]
  BY DEF RequestsInv
<1>a. \A step \in AddSteps \union RemoveSteps, f \in Files : At(c, step, f) => requests[c] # NoRequest
  BY AtRequest
<1>g. \A step \in AddSteps \union RemoveSteps :
        Goto(c, step) /\ requests[c] # NoRequest =>
          /\ requests'[c].at = step /\ requests'[c].file = requests[c].file
          /\ \A d \in Clients \ {c} : requests'[d] = requests[d]
  BY <1>t DEF Goto, Request
<1>r. Return(c) => /\ requests'[c] = NoRequest
                   /\ \A d \in Clients \ {c} : requests'[d] = requests[d]
  BY <1>t DEF Return
<1>n. NoRequest.at = "none"
  BY DEF NoRequest
<1> USE DEF AddSteps, RemoveSteps
\* A step that leaves registry and records.
<1>s. ASSUME requests[c] # NoRequest, UNCHANGED <<links, monitored, pc>>,
             requests'[c].file = requests[c].file \/ requests'[c] = NoRequest,
             \A d \in Clients \ {c} : requests'[d] = requests[d],
             \A f \in Files \ raced :
               /\ At(c, "snapshot", f)' \/ At(c, "monitor", f)' => f \in links
               /\ At(c, "unlink", f)' \/ At(c, "unsnap", f)' => f \notin monitored
      PROVE  RegisteredInv'
  BY <1>s, RegisteredGoesOn DEF RegisteredInv, At
<1>1. ASSUME NEW f \in Files, AddLinks(c, f) PROVE RegisteredInv'
  <2>1. /\ At(c, "link", f) /\ Goto(c, "snapshot")
        /\ links' = links \union {f} /\ UNCHANGED <<monitored, pc>>
    BY <1>1 DEF AddLinks
  <2>2. /\ requests'[c].at = "snapshot" /\ requests'[c].file = f /\ requests[c] # NoRequest
        /\ requests[c].file = f /\ \A d \in Clients \ {c} : requests'[d] = requests[d]
    BY <1>a, <1>g, <2>1 DEF At
  <2> QED
    BY <2>1, <2>2, RegisteredGoesOn DEF RegisteredInv, At
<1>2. ASSUME NEW f \in Files, AddSnapshots(c, f) PROVE RegisteredInv'
  <2>1. /\ At(c, "snapshot", f) /\ UNCHANGED <<links, monitored, pc>>
        /\ requests' = [requests EXCEPT ![c].at = "monitor", ![c].content = fs[f]]
    BY <1>2 DEF AddSnapshots
  <2>2. requests[c] # NoRequest /\ requests[c].file = f
    BY <1>a, <2>1 DEF At
  <2>3. /\ requests'[c].at = "monitor" /\ requests'[c].file = f
        /\ \A d \in Clients \ {c} : requests'[d] = requests[d]
    BY <1>t, <2>1, <2>2 DEF Request
  <2> QED
    BY <1>s, <2>1, <2>2, <2>3 DEF RegisteredInv, At
<1>3. ASSUME NEW f \in Files, AddMonitors(c, f) PROVE RegisteredInv'
  <2>1. /\ At(c, "monitor", f) /\ monitored' = monitored \union {f}
        /\ UNCHANGED <<links, pc>>
    BY <1>3 DEF AddMonitors
  <2>2. \A d \in Clients : /\ requests'[d].at = IF d = c THEN "watch" ELSE requests[d].at
                           /\ requests'[d].file = requests[d].file
    BY <1>3, MonitorsMove
  <2>3. \A d \in Clients : requests'[d] # NoRequest => requests[d] # NoRequest
    <3>1. ASSUME NEW d \in Clients, requests[d] = NoRequest PROVE requests'[d] = NoRequest
      <4>1. d # c /\ ~Holds(d, f)
        BY <2>1, <3>1, <1>a, <1>n DEF Holds, At
      <4> QED
        BY <1>3, <3>1, <4>1 DEF AddMonitors
    <3> QED
      BY <3>1
  <2>4. requests[c] # NoRequest /\ requests[c].file = f
    BY <1>a, <2>1 DEF At
  <2>5. f \notin raced => f \in links
    BY <2>1 DEF RegisteredInv
  <2>6. ASSUME f \notin raced, NEW d \in Clients, At(d, "unlink", f) \/ At(d, "unsnap", f)
        PROVE  FALSE
    <3>1. d = c
      BY <2>1, <2>6, OnlyRequest
    <3> QED
      BY <2>1, <2>6, <3>1 DEF At
  <2>7. /\ ~Serving' => \A d \in Clients : requests'[d] = NoRequest
        /\ \A d, e \in Clients :
             /\ d # e /\ requests'[d].file = requests'[e].file
             /\ requests'[d] # NoRequest /\ requests'[e] # NoRequest
             => requests'[d].file \in raced'
    BY <2>1, <2>2, <2>3, <2>4 DEF RegisteredInv, Serving
  <2> QED
    BY <2>1, <2>2, <2>5, <2>6, <2>7 DEF RegisteredInv, At
<1>4. ASSUME NEW f \in Files, AddWatches(c, f) \/ RequestStages(c, f) PROVE RegisteredInv'
  <2>1. /\ \E step \in {"watch", "stage"} : At(c, step, f)
        /\ \E step \in {"stage", "commit"} : Goto(c, step)
        /\ UNCHANGED <<links, monitored, pc>>
    BY <1>4 DEF AddWatches, RequestStages
  <2>2. /\ requests[c] # NoRequest /\ requests'[c].at \in {"stage", "commit"}
        /\ requests'[c].file = requests[c].file
        /\ \A d \in Clients \ {c} : requests'[d] = requests[d]
    BY <1>a, <1>g, <2>1
  <2> QED
    BY <1>s, <2>1, <2>2 DEF At
<1>5. ASSUME NEW f \in Files, RemoveUnlinks(c, f) PROVE RegisteredInv'
  <2>1. /\ At(c, "unlink", f) /\ Goto(c, "unsnap")
        /\ links' = links \ {f} /\ UNCHANGED <<monitored, pc>>
    BY <1>5 DEF RemoveUnlinks
  <2>2. /\ requests'[c].at = "unsnap" /\ requests'[c].file = f /\ requests[c] # NoRequest
        /\ requests[c].file = f /\ \A d \in Clients \ {c} : requests'[d] = requests[d]
    BY <1>a, <1>g, <2>1 DEF At
  <2>3. f \notin raced => f \notin monitored
    BY <2>1 DEF RegisteredInv
  <2>4. \A d \in Clients \ {c}, step \in AddSteps \union RemoveSteps :
          f \notin raced => ~At(d, step, f)
    BY <2>1, OnlyRequest
  <2> QED
    BY <2>1, <2>2, <2>3, <2>4, RegisteredGoesOn DEF RegisteredInv, At
<1>6. ASSUME NEW f \in Files,
             \/ RemoveUnsnaps(c, f) \/ RemoveUnsnapFails(c, f)
             \/ RequestCommits(c, f) \/ RequestFails(c, f)
      PROVE  RegisteredInv'
  <2>1. /\ requests[c] # NoRequest
        /\ Goto(c, "stage") \/ Return(c)
        /\ UNCHANGED <<links, monitored, pc>>
    BY <1>a, <1>6 DEF RemoveUnsnaps, RemoveUnsnapFails, RequestCommits, RequestFails
  <2>2. /\ requests'[c].at \in {"stage", "none"}
        /\ requests'[c].file = requests[c].file \/ requests'[c] = NoRequest
        /\ \A d \in Clients \ {c} : requests'[d] = requests[d]
    BY <1>g, <1>r, <1>n, <2>1
  <2> QED
    BY <1>s, <2>1, <2>2 DEF At
<1> QED
  BY <1>1, <1>2, <1>3, <1>4, <1>5, <1>6 DEF RequestStep

LEMMA RegisteredBegins ==
  ASSUME RegisteredInv, RequestsInv, NEW c \in Clients, NEW f \in Files,
         AddBegins(c, f) \/ RemoveBegins(c, f)
  PROVE  RegisteredInv'
<1>1. PICK step \in {"link", "unlink"} :
        /\ Begin(c, step, f)
        /\ step = "unlink" => f \notin monitored'
        /\ monitored' \subseteq monitored
        /\ UNCHANGED <<links, pc>>
  BY DEF AddBegins, RemoveBegins, vars
<1>2. /\ Serving /\ requests[c] = NoRequest
      /\ requests' = [requests EXCEPT ![c] = [NoRequest EXCEPT !.at = step, !.file = f]]
      /\ raced' = IF \E d \in Clients : requests[d].file = f THEN raced \union {f} ELSE raced
  BY <1>1 DEF Begin
<1>3. /\ requests'[c].at = step /\ requests'[c].file = f
      /\ \A d \in Clients \ {c} : requests'[d] = requests[d]
  BY <1>2 DEF RequestsInv, NoRequest
<1>4. raced \subseteq raced' /\ \A d \in Clients : requests[d].file = f => f \in raced'
  BY <1>2
<1> QED
  BY <1>1, <1>2, <1>3, <1>4 DEF RegisteredInv, At, Serving

LEMMA RegisteredStep == OpsInv /\ RegisteredInv /\ [OpsNext]_opsVars => RegisteredInv'
<1> SUFFICES ASSUME OpsInv, RegisteredInv, [OpsNext]_opsVars PROVE RegisteredInv'
  OBVIOUS
<1>t. RequestsInv
  BY DEF OpsInv
<1>1. CASE Running /\ UNCHANGED <<requests, begun, observations>>
  BY <1>1, RegisteredRunning
<1>2. ASSUME NEW c \in Clients, NEW f \in Files, AddBegins(c, f) \/ RemoveBegins(c, f)
      PROVE  RegisteredInv'
  BY <1>t, <1>2, RegisteredBegins
<1>3. ASSUME NEW c \in Clients, RequestStep(c), UNCHANGED <<begun, raced>>
      PROVE  RegisteredInv'
  BY <1>t, <1>3, RegisteredRequests
<1>4. CASE Killed
  BY <1>4, RegisteredKilled DEF Killed
<1>5. CASE UNCHANGED opsVars
  BY <1>5, Untouched DEF opsVars, vars, Serving
<1> QED
  BY <1>1, <1>2, <1>3, <1>4, <1>5 DEF OpsNext, OpsRunning

LEMMA RegisteredAlways == OpsSpec => []RegisteredInv
BY RegisteredInit, RegisteredStep, OpsAlways, PTL DEF OpsSpec

\* With any number of connections, wherever adds and removes fail and the daemon is
\* killed, what is monitored is registered, unless requests for the file overlapped.
THEOREM RequestsRegister == OpsSpec => []MonitoredAreRegistered
<1>1. RegisteredInv => MonitoredAreRegistered
  BY DEF RegisteredInv, MonitoredAreRegistered
<1> QED
  BY <1>1, RegisteredAlways, PTL

(***************************************************************************)
(* Nothing is left behind                                                  *)
(***************************************************************************)

\* A goroutine is about to stage the snapshot of f.
Staging(f) ==
  \E c \in Clients : At(c, "monitor", f) \/ At(c, "watch", f) \/ At(c, "stage", f)

\* What is staged and not committed has somebody to commit it: a request on its
\* last step, or the loop with the file in its batch.
StagedInv ==
  \A f \in Files :
    index[f] # HeadTree[f] =>
      \/ \E c \in Clients : requests[c].at = "commit"
      \/ pc \in {"take", "reread", "commit"} /\ f \in batch

\* A snapshot that is not staged has somebody to stage it: a request, or the loop
\* before its next staging, for the file is pending.
UnstagedInv ==
  \A f \in monitored \ renewed :
    worktree[f] # index[f] =>
      \/ Staging(f)
      \/ pc \in {"idle", "snap", "stage"} /\ mp[f].pending # "clean"
      \/ worktree[f] = Absent /\ f \in raced

\* The batch has every file that is pending, and from the snapshots on a line for
\* each of its files, so that git never refuses it for an empty message.
BatchInv ==
  /\ pc \in Committing => \A f \in monitored : mp[f].pending # "clean" => f \in batch
  /\ pc \in {"stage", "take", "reread", "commit"} => \A f \in batch : lines[f] # NoLine

\* Only an add replaces a record that a batch holds.
RenewedInv == \A f \in Files : detached[f] # NoLine => f \in renewed

\* Where nothing has failed.
QuietInv ==
  crashes = 0 /\ faults = 0 =>
    Serving /\ RenewedInv /\ BatchInv /\ StagedInv /\ UnstagedInv

LEMMA QuietInit == OpsInit => QuietInv
<1> SUFFICES ASSUME OpsInit PROVE QuietInv
  OBVIOUS
<1>1. HeadTree = index /\ worktree = index /\ pc = "idle"
  BY DEF OpsInit, Init, HeadTree
<1>2. \A c \in Clients : requests[c] = NoRequest
  BY DEF OpsInit
<1> QED
  BY <1>1, <1>2 DEF OpsInit, Init, NoLines, QuietInv, Serving, RenewedInv, BatchInv,
                    StagedInv, UnstagedInv, Committing, At, NoRequest

\* What the proofs below need of the types.
LEMMA QuietTypes ==
  ASSUME OpsInv
  PROVE  /\ mp \in [Files -> Record] /\ fs \in [Files -> Found]
         /\ monitored \subseteq Files /\ batch \subseteq Files
         /\ crashes \in Nat /\ faults \in Nat /\ RepositoryTypeOK
         /\ worktree \in [Files -> Snapshot] /\ index \in [Files -> Snapshot]
         /\ HeadTree \in [Files -> Snapshot]
         /\ lines \in Lines /\ detached \in Lines /\ taken \in Messages \union {NoMessage}
         /\ requests \in [Clients -> Request]
<1>1. HeadTree \in [Files -> Snapshot]
  <2>1. history \in Seq(Commit) /\ [f \in Files |-> Absent] \in Tree
    BY DEF OpsInv, TypeOK, RepositoryTypeOK, Tree, Snapshot
  <2>2. history # << >> => history[Len(history)] \in Commit
    BY <2>1
  <2> QED
    BY <2>1, <2>2 DEF HeadTree, Commit, Tree
<1> QED
  BY <1>1 DEF OpsInv, TypeOK, MonitorTypeOK, OutsideTypeOK, BatchTypeOK,
              RepositoryTypeOK, Tree, RequestsInv

\* The steps of the loop, of the timer and outside the daemon.
LEMMA QuietRunning ==
  ASSUME OpsInv, QuietInv, Running \/ UNCHANGED vars,
         UNCHANGED <<requests, begun, observations>>
  PROVE  QuietInv'
<1> SUFFICES ASSUME crashes' = 0, faults' = 0
             PROVE  (Serving /\ RenewedInv /\ BatchInv /\ StagedInv /\ UnstagedInv)'
  BY DEF QuietInv
<1> USE DEF QuietInv, Serving, RenewedInv, BatchInv, StagedInv, UnstagedInv, Staging, At
<1>t. /\ mp \in [Files -> Record] /\ fs \in [Files -> Found]
      /\ monitored \subseteq Files /\ batch \subseteq Files
      /\ crashes \in Nat /\ faults \in Nat /\ RepositoryTypeOK
      /\ worktree \in [Files -> Snapshot] /\ index \in [Files -> Snapshot]
      /\ HeadTree \in [Files -> Snapshot]
      /\ lines \in Lines /\ detached \in Lines /\ taken \in Messages \union {NoMessage}
  BY QuietTypes
<1>h. /\ UNCHANGED history => HeadTree' = HeadTree
      /\ CommitIndex(lines, taken) => HeadTree' = index
  BY <1>t, HeadMoves
<1>f. Fault => FALSE
  BY <1>t DEF Fault
<1>1. ASSUME NEW f \in Files, NEW s \in Outcomes, Edit(f, s)
      PROVE  (Serving /\ RenewedInv /\ BatchInv /\ StagedInv /\ UnstagedInv)'
  BY <1>1, <1>f, <1>h DEF Edit, NoFault
<1>2. CASE \E text \in Messages : UserMessage(text)
  BY <1>2, <1>f, <1>h DEF UserMessage, NoFault
<1>3. CASE TimerFires
  BY <1>3, <1>h DEF TimerFires
<1>4. ASSUME NEW f \in Files, HandleFileEvent(f)
      PROVE  (Serving /\ RenewedInv /\ BatchInv /\ StagedInv /\ UnstagedInv)'
  <2>1. CASE f \notin monitored
    BY <1>4, <2>1, <1>h DEF HandleFileEvent
  <2>2. CASE f \in monitored
    <3>1. /\ mp' = [mp EXCEPT ![f] = Reconcile(@, fs[f])] /\ pc = "idle"
          /\ UNCHANGED <<monitored, pc, batch, lines, detached, crashes, faults, worktree, index,
                       history>>
      BY <1>4, <2>2 DEF HandleFileEvent
    <3>2. \A g \in monitored : mp'[g].pending = "clean" => mp[g].pending = "clean"
      BY <1>t, <3>1 DEF Reconcile, Mark, Record
    <3> QED
      BY <1>h, <3>1, <3>2 DEF Committing
  <2> QED
    BY <2>1, <2>2
<1>5. CASE BeginBatch
  BY <1>5, <1>h DEF BeginBatch, Pending, Committing
<1>6. CASE Snap
  <2>1. /\ pc = "snap" /\ pc' = "stage" /\ batch' = StillPending /\ detached' = NoLines
        /\ UNCHANGED <<monitored, crashes, faults, index, history>>
        /\ worktree' = Snapshots(StillPending, fs)
        /\ mp' = Recorded(StillPending, detached)
        /\ lines' = LinesOf(StillPending, detached)
    BY <1>6 DEF Snap, WriteSnapshots
  <2>2. StillPending \subseteq Files /\ \A f \in StillPending : lines'[f] # NoLine
    <3>1. StillPending \subseteq Files
      BY <1>t DEF StillPending, StillPendingIn
    <3>2. \A f \in Files : Saves(f, detached) \in Nat
      BY <1>t DEF Record, Saves, Lines
    <3>3. \A f \in Files : LineOf(f, detached) # NoLine
      BY <3>2 DEF LineOf, NoLine, DeletedLine
    <3> QED
      BY <2>1, <3>1, <3>3 DEF LinesOf
  <2>3. \A f \in monitored : mp'[f].pending # "clean" <=> mp[f].pending # "clean"
    <3>1. \A f \in Files : Snapped(mp[f], fs[f]) = mp[f]
                            \/ Snapped(mp[f], fs[f]).pending = "changed"
      BY <1>t DEF Snapped, Record
    <3> QED
      BY <1>t, <2>1, <3>1 DEF StillPending, StillPendingIn, Recorded
  <2>4. \A f \in monitored \ renewed : f \in StillPending <=> mp[f].pending # "clean"
    BY <1>t, <2>1 DEF StillPending, StillPendingIn, Committing
  <2>5. \A f \in monitored \ renewed : mp[f].pending = "clean" => worktree'[f] = worktree[f]
    BY <1>t, <2>1, <2>4 DEF Snapshots
  <2>6. BatchInv'
    <3>1. \A f \in monitored : mp[f].pending # "clean" => f \in StillPending
      BY <2>1 DEF StillPending, StillPendingIn, Committing
    <3> QED
      BY <2>1, <2>2, <2>3, <3>1
  <2>7. UnstagedInv'
    BY <2>1, <2>3, <2>5
  <2>8. RenewedInv'
    BY <2>1 DEF NoLines
  <2> QED
    BY <1>h, <2>1, <2>6, <2>7, <2>8
<1>7. CASE SnapFails
  <2>0. StillPending \in SUBSET Files /\ SnapshotsFail(StillPending, detached)
    BY <1>7, <1>t DEF SnapFails, SnapError, StillPending, StillPendingIn
  <2>1. PICK done \in SUBSET StillPending :
          mp' = [f \in Files |-> IF f \in done THEN Snapped(mp[f], fs[f]) ELSE mp[f]]
    BY <2>0, SnapshotsPartly DEF OpsInv
  <2>2. /\ pc = "snap" /\ pc' = "idle" /\ detached' = NoLines
        /\ UNCHANGED <<monitored, crashes, faults, index, history>>
    <3>1. UNCHANGED faults
      BY <2>0, <1>f DEF SnapshotsFail, NoFault
    <3> QED
      BY <1>7, <2>0, <3>1, SnapshotsPartly DEF OpsInv, SnapFails, SnapError, RetryLater, LeaveBatch
  <2>3. \A f \in monitored \ renewed : mp'[f].pending = "clean" =>
          mp[f].pending = "clean" /\ worktree'[f] = worktree[f]
    <3>1. \A f \in StillPending \ renewed : mp[f].pending # "clean"
      BY <1>t, <2>0, <2>2 DEF StillPending, StillPendingIn
    <3>2. \A f \in monitored \ renewed : mp'[f].pending = "clean" =>
            mp[f].pending = "clean" /\ f \notin StillPending
      BY <1>t, <2>1, <3>1 DEF Snapped, Record
    <3>3. \A f \in Files \ StillPending : worktree'[f] = worktree[f]
      BY <2>0, SnapshotsPartly DEF OpsInv
    <3> QED
      BY <1>t, <3>2, <3>3
  <2>4. UnstagedInv'
    BY <2>1, <2>2, <2>3
  <2> QED
    BY <1>h, <2>1, <2>2, <2>4 DEF Committing, NoLines
<1>8. CASE StageBatch
  <2>1. /\ pc = "stage" /\ pc' = "take"
        /\ UNCHANGED <<mp, monitored, batch, lines, detached, crashes, faults, worktree, history>>
        /\ index' = [f \in Files |-> IF f \in batch THEN worktree[f] ELSE index[f]]
    BY <1>8 DEF StageBatch, Stage
  <2>2. BatchInv'
    BY <2>1 DEF Committing
  <2>3. StagedInv'
    BY <1>t, <1>h, <2>1
  <2>4. UnstagedInv'
    BY <1>t, <2>1 DEF Committing
  <2> QED
    BY <2>1, <2>2, <2>3, <2>4
<1>9. CASE StageFails
  BY <1>9, <1>h, <1>f DEF StageFails, StageError, RetryLater, LeaveBatch, Committing, NoFault,
                          NoLines
<1>10. CASE Take \/ Reread
  BY <1>10, <1>h, <1>f DEF Take, Reread, Committing, NoFault
<1>11. CASE CommitBatch
  <2>1. /\ pc = "commit" /\ pc' = "clear" /\ HeadTree' = index
        /\ UNCHANGED <<mp, monitored, batch, lines, detached, crashes, faults, worktree, index>>
    BY <1>11, <1>h DEF CommitBatch, CommitIndex
  <2> QED
    BY <2>1 DEF Committing
<1>12. CASE CommitFails
  <2>1. /\ pc = "commit" /\ pc' = "idle" /\ ~Committable /\ detached' = NoLines
        /\ UNCHANGED <<mp, monitored, crashes, faults, worktree, index, history>>
    BY <1>12, <1>f DEF CommitFails, CommitError, RetryLater, LeaveBatch, NoFault
  <2>2. SomethingStaged => batch = {}
    BY <1>t, <2>1 DEF Committable, NoLines
  <2>3. StagedInv'
    BY <1>h, <2>1, <2>2 DEF SomethingStaged
  <2> QED
    BY <2>1, <2>3 DEF Committing, NoLines
<1>13. CASE ClearBatch
  <2>1. /\ pc = "clear" /\ pc' = "recheck"
        /\ UNCHANGED <<monitored, detached, crashes, faults, worktree, index, history>>
    BY <1>13 DEF ClearBatch
  <2> QED
    BY <1>h, <2>1 DEF Committing
<1>14. CASE Recheck
  <2>1. /\ mp' = [f \in Files |-> IF f \in monitored THEN Reconcile(mp[f], fs[f]) ELSE mp[f]]
        /\ pc = "recheck" /\ pc' = "idle"
        /\ UNCHANGED <<monitored, detached, crashes, faults, worktree, index, history>>
    BY <1>14 DEF Recheck, ReconcileAll
  <2> QED
    BY <1>h, <2>1 DEF Committing
<1>15. CASE Start \/ FinishStart
  BY <1>15, <1>f DEF Start, FinishStart, ReconcileAll, NoFault
<1>16. CASE UNCHANGED vars
  BY <1>16, <1>h DEF vars
<1> QED
  BY <1>1, <1>2, <1>3, <1>4, <1>5, <1>6, <1>7, <1>8, <1>9, <1>10, <1>11, <1>12,
     <1>13, <1>14, <1>15, <1>16 DEF Running, Loop
\* The steps of the requests.
LEMMA QuietRequests ==
  ASSUME OpsInv, RegisteredInv, QuietInv, NEW c \in Clients, NEW f \in Files,
         \/ AddBegins(c, f) \/ RemoveBegins(c, f)
         \/ AddMonitors(c, f) /\ UNCHANGED raced
         \/ /\ \/ AddLinks(c, f) \/ AddSnapshots(c, f) \/ AddWatches(c, f)
               \/ RemoveUnlinks(c, f) \/ RemoveUnsnaps(c, f) \/ RemoveUnsnapFails(c, f)
               \/ RequestStages(c, f) \/ RequestCommits(c, f) \/ RequestFails(c, f)
            /\ UNCHANGED observations
  PROVE  QuietInv'
<1> SUFFICES ASSUME crashes' = 0, faults' = 0
             PROVE  (Serving /\ RenewedInv /\ BatchInv /\ StagedInv /\ UnstagedInv)'
  BY DEF QuietInv
<1>t. /\ monitored \subseteq Files /\ batch \subseteq Files
      /\ crashes \in Nat /\ faults \in Nat /\ RepositoryTypeOK
      /\ worktree \in [Files -> Snapshot] /\ index \in [Files -> Snapshot]
      /\ HeadTree \in [Files -> Snapshot]
      /\ mp \in [Files -> Record] /\ requests \in [Clients -> Request] /\ detached \in Lines
  BY QuietTypes
<1>h. /\ UNCHANGED history => HeadTree' = HeadTree
      /\ CommitIndex(NoLines, NoMessage) => HeadTree' = index
  BY <1>t, HeadMoves, Basics
<1>f. Fault => FALSE
  BY <1>t DEF Fault
<1>e. \A step \in {"monitor", "watch", "stage", "commit", "unlink", "unsnap"} :
        requests[c].at = step => requests[c] # NoRequest
  BY DEF NoRequest
<1>g. \A step \in AddSteps \union RemoveSteps :
        Goto(c, step) /\ requests[c] # NoRequest =>
          \A d \in Clients :
            /\ requests'[d].at = IF d = c THEN step ELSE requests[d].at
            /\ requests'[d].file = requests[d].file
  BY <1>t DEF Goto, Request
<1>r. Return(c) =>
        \A d \in Clients :
          requests'[d] = IF d = c THEN NoRequest ELSE requests[d]
  BY <1>t DEF Return
<1>o. raced \subseteq raced' /\ renewed \subseteq renewed'
  BY DEF AddBegins, RemoveBegins, Begin, AddMonitors
<1>q. crashes = 0 /\ faults = 0 =>
        Serving /\ RenewedInv /\ BatchInv /\ StagedInv /\ UnstagedInv
  BY DEF QuietInv
<1> USE DEF Serving, RenewedInv, BatchInv, StagedInv, UnstagedInv, Staging, At
\* The requests that stay on their steps and those that go back to none.
<1>1. CASE AddBegins(c, f)
  <2>1. UNCHANGED vars /\ requests[c] = NoRequest
        /\ requests' = [requests EXCEPT ![c] = [NoRequest EXCEPT !.at = "link", !.file = f]]
    BY <1>1 DEF AddBegins, Begin
  <2>2. \A d \in Clients : d # c => requests'[d] = requests[d]
    BY <1>t, <2>1
  <2>3. requests'[c].at = "link" /\ requests[c].at = "none"
    BY <1>t, <2>1 DEF NoRequest
  <2> QED
    BY <1>o, <1>q, <1>h, <2>1, <2>2, <2>3 DEF vars
<1>2. CASE RemoveBegins(c, f)
  <2>1. /\ UNCHANGED <<crashes, faults, mp, pc, batch, lines, detached, worktree, index, history>>
        /\ monitored' = monitored \ {f} /\ requests[c] = NoRequest
        /\ requests' = [requests EXCEPT ![c] = [NoRequest EXCEPT !.at = "unlink", !.file = f]]
    BY <1>2 DEF RemoveBegins, Begin
  <2>2. \A d \in Clients : d # c => requests'[d] = requests[d]
    BY <1>t, <2>1
  <2>3. requests'[c].at = "unlink" /\ requests'[c].file = f /\ requests[c].at = "none"
    BY <1>t, <2>1 DEF NoRequest
  <2> QED
    BY <1>o, <1>q, <1>h, <2>1, <2>2, <2>3
<1>3. CASE AddLinks(c, f)
  <2>1. /\ UNCHANGED <<crashes, faults, mp, monitored, pc, batch, lines, detached,
                       worktree, index, history>>
        /\ requests[c].at = "link" /\ Goto(c, "snapshot")
    BY <1>3 DEF AddLinks
  <2>2. \A d \in Clients : /\ requests'[d].at = IF d = c THEN "snapshot" ELSE requests[d].at
                           /\ requests'[d].file = requests[d].file
    BY <1>g, <2>1 DEF AddSteps, NoRequest
  <2> QED
    BY <1>o, <1>q, <1>h, <2>1, <2>2
<1>4. CASE AddSnapshots(c, f)
  <2>1. /\ UNCHANGED <<crashes, faults, mp, monitored, pc, batch, lines, detached, index, history>>
        /\ worktree' = [worktree EXCEPT ![f] = fs[f]]
        /\ requests[c].at = "snapshot" /\ requests[c].file = f
        /\ requests' = [requests EXCEPT ![c].at = "monitor", ![c].content = fs[f]]
    BY <1>4 DEF AddSnapshots
  <2>2. requests[c] # NoRequest
    BY <2>1 DEF NoRequest
  <2>3. \A d \in Clients : /\ requests'[d].at = IF d = c THEN "monitor" ELSE requests[d].at
                           /\ requests'[d].file = requests[d].file
    BY <1>t, <2>1, <2>2 DEF Request
  <2> QED
    BY <1>t, <1>o, <1>q, <1>h, <2>1, <2>3
<1>5. CASE AddMonitors(c, f)
  <2>1. /\ UNCHANGED <<crashes, faults, pc, batch, lines, worktree, index, history>>
        /\ requests[c].at = "monitor" /\ requests[c].file = f
        /\ monitored' = monitored \union {f}
        /\ mp' = [mp EXCEPT ![f] = FromSnapshot(requests[c].content)]
        /\ \/ UNCHANGED <<detached, renewed>>
           \/ \E n : detached' = [detached EXCEPT ![f] = n] /\ renewed' = renewed \union {f}
    BY <1>5 DEF AddMonitors
  <2>2. \A d \in Clients : /\ requests'[d].at = IF d = c THEN "watch" ELSE requests[d].at
                           /\ requests'[d].file = requests[d].file
    BY <1>5, MonitorsMove DEF OpsInv
  <2>3. mp'[f].pending = "clean" /\ \A g \in Files \ {f} : mp'[g] = mp[g]
    BY <1>t, <2>1 DEF FromSnapshot
  <2>4. RenewedInv'
    BY <1>t, <1>q, <2>1 DEF Lines
  <2> QED
    BY <1>t, <1>o, <1>q, <1>h, <2>1, <2>2, <2>3, <2>4
<1>6. CASE AddWatches(c, f)
  <2>1. /\ UNCHANGED <<crashes, faults, mp, monitored, pc, batch, lines, detached,
                       worktree, index, history>>
        /\ requests[c].at = "watch" /\ Goto(c, "stage")
    BY <1>6, <1>f DEF AddWatches, NoFault
  <2>2. \A d \in Clients : /\ requests'[d].at = IF d = c THEN "stage" ELSE requests[d].at
                           /\ requests'[d].file = requests[d].file
    BY <1>e, <1>g, <2>1 DEF AddSteps
  <2> QED
    BY <1>o, <1>q, <1>h, <2>1, <2>2
<1>7. CASE RemoveUnlinks(c, f)
  <2>1. /\ UNCHANGED <<crashes, faults, mp, monitored, pc, batch, lines, detached,
                       worktree, index, history>>
        /\ requests[c].at = "unlink" /\ requests[c].file = f /\ Goto(c, "unsnap")
    BY <1>7 DEF RemoveUnlinks
  <2>2. \A d \in Clients : /\ requests'[d].at = IF d = c THEN "unsnap" ELSE requests[d].at
                           /\ requests'[d].file = requests[d].file
    BY <1>e, <1>g, <2>1 DEF RemoveSteps
  <2> QED
    BY <1>o, <1>q, <1>h, <2>1, <2>2
<1>8. CASE RemoveUnsnaps(c, f)
  <2>1. /\ UNCHANGED <<crashes, faults, mp, monitored, pc, batch, lines, detached, index, history>>
        /\ requests[c].at = "unsnap" /\ requests[c].file = f
        /\ worktree' = [worktree EXCEPT ![f] = Absent]
        /\ Goto(c, "stage") \/ Return(c)
    BY <1>8 DEF RemoveUnsnaps
  <2>2. CASE Goto(c, "stage")
    <3>1. \A d \in Clients : /\ requests'[d].at = IF d = c THEN "stage" ELSE requests[d].at
                             /\ requests'[d].file = requests[d].file
      BY <1>e, <1>g, <2>1, <2>2 DEF RemoveSteps
    <3> QED
      BY <1>t, <1>o, <1>q, <1>h, <2>1, <3>1
  <2>3. CASE Return(c)
    <3>1. \A d \in Clients : requests'[d] = IF d = c THEN NoRequest ELSE requests[d]
      BY <1>r, <2>3
    <3>2. f \in monitored => f \in raced
      BY <2>1 DEF RegisteredInv
    <3> QED
      BY <1>t, <1>o, <1>q, <1>h, <2>1, <3>1, <3>2 DEF NoRequest
  <2> QED
    BY <2>1, <2>2, <2>3
<1>9. CASE RemoveUnsnapFails(c, f)
  BY <1>9, <1>f DEF RemoveUnsnapFails
<1>10. CASE RequestStages(c, f)
  <2>1. /\ UNCHANGED <<crashes, faults, mp, monitored, pc, batch, lines, detached, worktree, history>>
        /\ index' = [g \in Files |-> IF g \in {f} THEN worktree[g] ELSE index[g]]
        /\ requests[c].at = "stage" /\ requests[c].file = f /\ Goto(c, "commit")
    BY <1>10 DEF RequestStages, Stage
  <2>2. \A d \in Clients : /\ requests'[d].at = IF d = c THEN "commit" ELSE requests[d].at
                           /\ requests'[d].file = requests[d].file
    BY <1>e, <1>g, <2>1 DEF RemoveSteps
  <2> QED
    BY <1>t, <1>o, <1>q, <1>h, <2>1, <2>2
<1>11. CASE RequestCommits(c, f)
  <2>1. /\ UNCHANGED <<crashes, faults, mp, monitored, pc, batch, lines, detached, worktree, index>>
        /\ HeadTree' = index
        /\ requests[c].at = "commit" /\ Return(c)
    BY <1>11, <1>h DEF RequestCommits, CommitIndex
  <2>2. \A d \in Clients : requests'[d] = IF d = c THEN NoRequest ELSE requests[d]
    BY <1>r, <2>1
  <2> QED
    BY <1>o, <1>q, <2>1, <2>2 DEF NoRequest
<1>12. CASE RequestFails(c, f)
  <2>1. /\ UNCHANGED <<crashes, faults, mp, monitored, pc, batch, lines, detached,
                       worktree, index, history>>
        /\ Return(c)
        /\ \/ requests[c].at = "snapshot"
           \/ requests[c].at = "stage" /\ requests[c].file = f /\ ~Stageable({f})
           \/ requests[c].at = "commit" /\ ~SomethingStaged
    BY <1>12, <1>f DEF RequestFails, SnapshotFails, NoFault
  <2>2. \A d \in Clients : requests'[d] = IF d = c THEN NoRequest ELSE requests[d]
    BY <1>r, <2>1
  <2>3. requests[c].at = "stage" => worktree[f] = index[f]
    BY <2>1 DEF Stageable
  <2> QED
    BY <1>o, <1>q, <1>h, <2>1, <2>2, <2>3 DEF NoRequest, SomethingStaged
<1> QED
  BY <1>1, <1>2, <1>3, <1>4, <1>5, <1>6, <1>7, <1>8, <1>9, <1>10, <1>11, <1>12

LEMMA QuietStep == OpsInv /\ RegisteredInv /\ QuietInv /\ [OpsNext]_opsVars => QuietInv'
<1> SUFFICES ASSUME OpsInv, RegisteredInv, QuietInv, [OpsNext]_opsVars PROVE QuietInv'
  OBVIOUS
<1>1. CASE (Running \/ UNCHANGED vars) /\ UNCHANGED <<requests, begun, observations>>
  BY <1>1, QuietRunning
<1>2. ASSUME NEW c \in Clients, NEW f \in Files, AddBegins(c, f) \/ RemoveBegins(c, f)
      PROVE  QuietInv'
  BY <1>2, QuietRequests
<1>3. ASSUME NEW c \in Clients, RequestStep(c), UNCHANGED <<begun, raced>> PROVE QuietInv'
  BY <1>3, QuietRequests DEF RequestStep
<1>4. CASE Killed
  <2>1. crashes \in Nat
    BY QuietTypes
  <2> QED
    BY <1>4, <2>1 DEF Killed, KilledServing, KilledWriting, QuietInv
<1> QED
  BY <1>1, <1>2, <1>3, <1>4 DEF OpsNext, OpsRunning, opsVars

\* Whatever order adds, removes and batches take on the one index, once all have
\* ended, no fault having been injected, nothing staged is left uncommitted, and the
\* snapshot of a clean file is the committed one, unless requests for the file
\* overlapped and it is missing, or a batch held an older record of the file.
THEOREM QuietCommits == OpsSpec => []QuietCleanIsCommitted
<1>1. ASSUME OpsInv, QuietInv PROVE QuietCleanIsCommitted
  <2> SUFFICES ASSUME Quiet, crashes = 0, faults = 0
               PROVE  /\ index = HeadTree
                      /\ \A f \in monitored \ renewed :
                           mp[f].pending = "clean" =>
                             \/ worktree[f] = HeadTree[f]
                             \/ worktree[f] = Absent /\ f \in raced
    BY DEF QuietCleanIsCommitted
  <2>1. pc = "idle" /\ \A c \in Clients : requests[c].at = "none"
    BY DEF Quiet, NoRequest
  <2>2. StagedInv /\ UnstagedInv
    BY <1>1 DEF QuietInv
  <2>3. \A f \in Files : index[f] = HeadTree[f]
    BY <2>1, <2>2 DEF StagedInv
  <2>4. index = HeadTree
    BY <1>1, <2>3, QuietTypes
  <2> QED
    BY <2>1, <2>2, <2>4 DEF UnstagedInv, Staging, At
<1>2. OpsInv /\ QuietInv => QuietCleanIsCommitted
  BY <1>1
<1> QED
  BY <1>2, QuietInit, QuietStep, OpsAlways, RegisteredAlways, PTL DEF OpsSpec
=============================================================================
