------------------------------ MODULE KefCalls ------------------------------
(***************************************************************************)
(* What the runtime promises to those who call its control methods: calls  *)
(* are answered one group after the other in the order they came, callers  *)
(* share a command only if it is a volume nobody executes yet, a result    *)
(* means that the speaker acknowledged the command and, if it keeps its    *)
(* word, obeyed, nothing is executed that nobody waits for, and shutdown   *)
(* gives up what waits.  Verification, polls, attempts and deadlines are   *)
(* not seen from here.                                                     *)
(***************************************************************************)
EXTENDS Integers, Sequences

CONSTANTS Calls, None,
          Commands, Values,  \* what a call can ask: a command and the value it names
          Capacity,          \* how many commands may wait
          Devices,           \* states the speaker is found in, or set to by hand
          SetByHand,         \* whether somebody uses the speaker's own buttons
          AcksObeyed         \* whether the speaker does what it acknowledges

VARIABLES backlog,  \* the commands that were accepted and are not over, oldest first
          busy,     \* the first of them is being executed
          outcome,  \* per call: how it ended, "none" or "pending"
          shut,     \* "open", "closing" or "closed"
          device    \* the speaker

callsVars == <<backlog, busy, outcome, shut, device>>

InHand == IF busy THEN 1 ELSE 0
NumWaiting == Len(backlog) - InHand
First == Head(backlog)
Youngest == backlog[Len(backlog)]

Settle(waiters, end) ==
    outcome' = [c \in Calls |-> IF c \in waiters /\ outcome[c] = "pending" THEN end
                                                                        ELSE outcome[c]]

\* The speaker does what the command says, and nothing else.
Obeys(command, value, before, after) ==
    IF command \in {"turn_on", "turn_off", "select_source"}
    THEN /\ after.power = (command # "turn_off")
         /\ command = "select_source" => after.source = value
         /\ after.volume = before.volume /\ after.muted = before.muted
    ELSE /\ command = "set_volume" => after.volume = value
         /\ command \in {"mute", "unmute"} => after.muted = (command = "mute")
         /\ after.power = before.power /\ after.source = before.source

SpeakerObeys == Obeys(First.command, First.value, device, device')

CallsInit ==
    /\ backlog = <<>> /\ busy = FALSE
    /\ outcome = [c \in Calls |-> "none"]
    /\ shut = "open"
    /\ device \in Devices

\* The youngest command can be shared: a volume that is not being executed.
Joinable == NumWaiting > 0 /\ Youngest.command = "set_volume"

\* A caller comes and waits, and brings a command ...
Arrive(c) ==
    /\ shut = "open" /\ outcome[c] = "none"
    /\ outcome' = [outcome EXCEPT ![c] = "pending"]

Ask(c, command, value) ==
    /\ NumWaiting < Capacity /\ ~(command = "set_volume" /\ Joinable)
    /\ backlog' = Append(backlog, [command |-> command, value |-> value, waiters |-> {c}])
    /\ UNCHANGED <<busy, shut, device>>

\* ... or shares the youngest: the volume asked for last counts for all who do.
Join(c, value) ==
    /\ Joinable
    /\ backlog' = [backlog EXCEPT ![Len(backlog)] =
        [command |-> "set_volume", value |-> value, waiters |-> Youngest.waiters \cup {c}]]
    /\ UNCHANGED <<busy, shut, device>>

Refuse(c) ==
    /\ outcome[c] = "none"
    /\ outcome' = [outcome EXCEPT ![c] = "refused"]
    /\ shut # "open" \/ NumWaiting >= Capacity
    /\ UNCHANGED <<backlog, busy, shut, device>>

GiveUp(c) ==
    /\ outcome[c] = "pending"
    /\ outcome' = [outcome EXCEPT ![c] = "cancelled"]
    /\ UNCHANGED <<backlog, busy, shut, device>>

\* The oldest command is taken in hand if somebody waits for it ...
Take ==
    /\ ~busy /\ busy' = TRUE
    /\ shut = "open" /\ backlog # <<>>
    /\ \E c \in First.waiters : outcome[c] = "pending"
    /\ UNCHANGED <<backlog, outcome, shut, device>>

\* ... or fails untried: it is too late, or nobody waits.
Skip ==
    /\ ~busy /\ shut = "open" /\ backlog # <<>>
    /\ Settle(First.waiters, "error")
    /\ backlog' = Tail(backlog)
    /\ UNCHANGED <<busy, shut, device>>

\* It is put back where it was, to be taken again.
PutBack ==
    /\ busy /\ busy' = FALSE
    /\ UNCHANGED <<backlog, outcome, shut, device>>

\* An attempt that got no answer may have been obeyed.
Unanswered ==
    /\ busy /\ SpeakerObeys
    /\ UNCHANGED <<backlog, busy, outcome, shut>>

\* All who share the command get the same answer.
Answer(end) ==
    /\ busy /\ busy' = FALSE
    /\ SpeakerObeys \/ (device' = device /\ (end = "error" \/ ~AcksObeyed))
    /\ Settle(First.waiters, end)
    /\ backlog' = Tail(backlog)
    /\ UNCHANGED shut

\* Shutdown gives up what waits, and waits itself for what is in hand ...
Shut ==
    /\ shut = "open" /\ shut' = "closing"
    /\ Settle(UNION {backlog[i].waiters : i \in (InHand + 1)..Len(backlog)}, "cancelled")
    /\ backlog' = SubSeq(backlog, 1, InHand)
    /\ UNCHANGED <<busy, device>>

\* ... but not for ever: then its callers are not told.
Forget ==
    /\ shut = "closing" /\ busy /\ busy' = FALSE
    /\ SpeakerObeys \/ device' = device
    /\ backlog' = Tail(backlog)
    /\ UNCHANGED <<outcome, shut>>

Closed ==
    /\ shut = "closing" /\ ~busy
    /\ shut' = "closed"
    /\ UNCHANGED <<backlog, busy, outcome, device>>

ByHand ==
    /\ SetByHand /\ device' \in Devices
    /\ UNCHANGED <<backlog, busy, outcome, shut>>

CallsNext ==
    \/ \E c \in Calls :
          \/ /\ Arrive(c)
             /\ \E value \in Values :
                   Join(c, value) \/ \E command \in Commands : Ask(c, command, value)
          \/ Refuse(c) \/ GiveUp(c)
    \/ Take \/ Skip \/ PutBack \/ Unanswered \/ Answer("result") \/ Answer("error")
    \/ Shut \/ Forget \/ Closed \/ ByHand

CallsSpec == CallsInit /\ [][CallsNext]_callsVars
=============================================================================
