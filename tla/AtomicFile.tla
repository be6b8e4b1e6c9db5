----------------------------- MODULE AtomicFile -----------------------------
(***************************************************************************)
(* What a file written with atomic-write.ts promises its readers: at any   *)
(* moment it holds one complete value, the value of a write that was asked *)
(* for, and a power loss leaves one of the values that could still be lost *)
(* or kept.  Temporary files, handles and directory entries do not appear. *)
(***************************************************************************)
CONSTANTS Writer,   \* the calls that may be under way at a time
          Value,    \* what can be written
          NoValue   \* no write is asked for, not in Value

VARIABLES value,    \* what a reader finds in the file
          atRisk,   \* what a reader may find after a power loss
          request   \* the value each writer is about to put in place

fileVars == <<value, atRisk, request>>

NoRequests == [w \in Writer |-> NoValue]

Init ==
  /\ value \in Value
  /\ atRisk = {value}
  /\ request = NoRequests

Request(w) ==
  /\ request[w] = NoValue
  /\ \E v \in Value : request' = [request EXCEPT ![w] = v]
  /\ UNCHANGED <<value, atRisk>>

\* The write takes effect.  Whether the old value can still come back depends
\* on the file system.
Replace(w) ==
  /\ request[w] # NoValue
  /\ value' = request[w]
  /\ atRisk' \in {atRisk \cup {request[w]}, {request[w]}}
  /\ request' = [request EXCEPT ![w] = NoValue]

\* The write fails or its process dies, and the file is as it was.
GiveUp(w) ==
  /\ request[w] # NoValue
  /\ request' = [request EXCEPT ![w] = NoValue]
  /\ UNCHANGED <<value, atRisk>>

Settle ==
  /\ atRisk' = {value}
  /\ UNCHANGED <<value, request>>

PowerLoss ==
  /\ value' \in atRisk
  /\ atRisk' = {value'}
  /\ request' = NoRequests

Next ==
  \/ \E w \in Writer : Request(w) \/ Replace(w) \/ GiveUp(w)
  \/ Settle
  \/ PowerLoss

Spec == Init /\ [][Next]_fileVars
=============================================================================
