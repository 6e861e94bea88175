----------------------------- MODULE BatchWindow -----------------------------
(***************************************************************************)
(* What the batching promises: windows do not overlap, a window that has   *)
(* expired is committed or, when the commit fails, opened again, and the   *)
(* history gains at most one commit per expired window and never changes   *)
(* otherwise.  Only a kill of the process closes a window without that.    *)
(***************************************************************************)
EXTENDS Integers, Sequences

VARIABLES
  phase,   \* of the window
  log,     \* the commits
  up       \* there is a process

Phases == {"closed", "open", "due", "committing", "recorded"}

Extended ==
  /\ Len(log') = Len(log) + 1
  /\ \A i \in 1 .. Len(log) : log'[i] = log[i]

Move(from, to) == up /\ phase = from /\ phase' = to /\ UNCHANGED up

Init == phase = "closed" /\ up = TRUE

Open   == Move("closed", "open") /\ UNCHANGED log
Expire == Move("open", "due") /\ UNCHANGED log
Begin  == Move("due", "committing") /\ UNCHANGED log
Record == Move("committing", "recorded") /\ Extended
Close  == Move("recorded", "closed") /\ UNCHANGED log

\* Nothing is pending any more when the window expires.
Skip == Move("due", "closed") /\ UNCHANGED log

\* The commit failed, or it was made and could not be confirmed.
Retry == Move("committing", "open") /\ (UNCHANGED log \/ Extended)

Kill == up /\ ~up' /\ phase' = "closed" /\ UNCHANGED log

Restart == ~up /\ up' /\ UNCHANGED <<phase, log>>

Next == Open \/ Expire \/ Begin \/ Record \/ Close \/ Skip \/ Retry \/ Kill \/ Restart

Spec == Init /\ [][Next]_<<phase, log, up>>
=============================================================================
