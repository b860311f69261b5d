------------------------------- MODULE KefLine -------------------------------
(***************************************************************************)
(* What the client promises to the runtime: operations use the line to the *)
(* speaker one at a time, each sends its request at most once, whoever is  *)
(* told that the request was or was not sent is told the truth, and a      *)
(* closed client sends nothing any more.                                   *)
(***************************************************************************)
CONSTANTS Ops,    \* operations
          None    \* no operation, no outcome

VARIABLES user,      \* the operation that has the line
          received,  \* the operations whose request the speaker was sent
          outcome,   \* per operation: None, or how it ended
          shut       \* the client is closed

lineVars == <<user, received, outcome, shut>>

\* A caller that gives up learns nothing about its request.
Truthful(end, sent) ==
    \/ end.kind = "cancelled"
    \/ end.kind \in {"answered", "accepted", "rejected", "failed"} /\ end.sent = sent
Ends == [kind : {"answered", "accepted", "rejected", "failed", "cancelled"}, sent : BOOLEAN]

LineInit ==
    /\ user = None
    /\ received = {}
    /\ outcome = [o \in Ops |-> None]
    /\ shut = FALSE

TakeLine(o) ==
    /\ user = None /\ outcome[o] = None /\ ~shut
    /\ user' = o
    /\ UNCHANGED <<received, outcome, shut>>

SendRequest(o) ==
    /\ user = o /\ o \notin received
    /\ received' = received \cup {o}
    /\ UNCHANGED <<user, outcome, shut>>

GiveBack(o) ==
    /\ user = o
    /\ user' = None
    /\ \E end \in Ends : Truthful(end, o \in received) /\ outcome' = [outcome EXCEPT ![o] = end]
    /\ UNCHANGED <<received, shut>>

\* Without the line: given up while waiting for it, or refused after closing.
EndWithoutLine(o) ==
    /\ user # o /\ outcome[o] = None
    /\ \E end \in Ends :
         /\ end.kind = "cancelled" \/ (shut /\ end = [kind |-> "failed", sent |-> FALSE])
         /\ outcome' = [outcome EXCEPT ![o] = end]
    /\ UNCHANGED <<user, received, shut>>

Shut ==
    /\ user = None
    /\ shut' = TRUE
    /\ UNCHANGED <<user, received, outcome>>

LineNext ==
    \/ \E o \in Ops : TakeLine(o) \/ SendRequest(o) \/ GiveBack(o) \/ EndWithoutLine(o)
    \/ Shut

LineSpec == LineInit /\ [][LineNext]_lineVars
=============================================================================
