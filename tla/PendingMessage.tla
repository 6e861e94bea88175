--------------------------- MODULE PendingMessage ---------------------------
(***************************************************************************)
(* internal/state: the user's text for the next commit, in memory and in   *)
(* the file that carries it over a restart.  Every operation holds the     *)
(* mutex of the State, so each is one step.                                *)
(***************************************************************************)
CONSTANTS Messages, NoMessage

VARIABLES
  message,      \* State.pendingMessage
  messageFile   \* the contents of statePath; empty or missing is NoMessage

\* persist() wrote the file.
Persisted(text) == messageFile' = text

\* os.WriteFile failed: before opening the file, or after truncating it.
NotPersisted == messageFile' \in {messageFile, NoMessage}

SetMessage(text) == message' = text /\ Persisted(text)

SetMessageFails(text) == message' = text /\ NotPersisted

\* Mutant of TakeAndClear: the file keeps the text.
TakeOnly == message' = NoMessage /\ UNCHANGED messageFile

\* The caller reads message in the same step.
TakeAndClear == message' = NoMessage /\ Persisted(NoMessage)

TakeAndClearFails == message' = NoMessage /\ NotPersisted

Load == message' = messageFile /\ UNCHANGED messageFile

MessageTypeOK ==
  /\ message \in Messages \union {NoMessage}
  /\ messageFile \in Messages \union {NoMessage}
=============================================================================
