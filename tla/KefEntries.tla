----------------------------- MODULE KefEntries -----------------------------
(***************************************************************************)
(* The integration as Home Assistant sees it: config entries, one for each *)
(* speaker, the flows that create and change them, and the worker each     *)
(* entry owns while it is set up.                                          *)
(*                                                                         *)
(* Setting up, reloading and removing an entry are tasks that hold the     *)
(* entry's setup lock from their first step to their last; changing an     *)
(* entry takes no lock.  A step is what the event loop runs between two    *)
(* awaits.  The worker is KefRuntime, of which only this remains here: it  *)
(* runs until it is closed, and closing it comes to an end.  What Home     *)
(* Assistant does is taken from how the code uses it.                      *)
(***************************************************************************)
EXTENDS Naturals, Sequences, FiniteSets, FiniteSetsExt

CONSTANTS None,        \* absence
          Entries,     \* bound: the entries there may be at once
          Flows,       \* bound: config flows in all
          Endpoints,   \* where speakers can be reached
          Options, DefaultOptions, \* settings of an entry; those of a new one
          Names,       \* names users ask for
          MayCancel,   \* whether setup is cancelled
          MayRefuse    \* whether the entities refuse to be unloaded

VARIABLES
    entry,    \* the entries, None where there is none
    lock,     \* what the task that holds the setup lock of an entry does
    phase,    \* how far it is, or what it left
    reload,   \* a reload of the entry waits for the lock
    worker,   \* the worker of each entry, None if it has none
    flow,     \* what each config flow is probing, None while its form is shown
    ended     \* the config flows that are over

flowVars == <<flow, ended>>
vars == <<entry, lock, phase, reload, worker, flowVars>>
lifecycleVars == <<lock, phase, worker>>

\* A host as it was typed: the speaker it names, if it names any, and whether
\* it is spelled canonically.
Typed == [names : Endpoints \cup {None}, canonical : BOOLEAN]
Endpoint == [names : Endpoints, canonical : {TRUE}]

Entry == [endpoint : Endpoint, title : Seq(Nat), options : Options]
Worker == [endpoint : Endpoint, options : Options]
Flow == [entry : Entries \cup {None}, endpoint : Endpoint, name : Seq(Nat)]

\* A name is what was asked for and the suffixes after it: "LSX_2" is <<2>> if
\* "LSX" is <<>>.  Names that differ in case only are the same.
ASSUME EntriesAssumption ==
    /\ IsFiniteSet(Entries) /\ DefaultOptions \in Options
    /\ Names \subseteq Seq(Nat)
    /\ None \notin Entries \cup Endpoints \cup Entry \cup Worker \cup Flow
    /\ MayCancel \in BOOLEAN /\ MayRefuse \in BOOLEAN

Locked == {"poll", "forward", "rollback", "unload", "close"}
Working == Locked \cup {"loaded", "failed_unload"}
Phases == Locked \cup {"not_loaded", "setup_error", "loaded", "failed_unload"}

TypeOK ==
    /\ entry \in [Entries -> Entry \cup {None}]
    /\ lock \in [Entries -> {"free", "setup", "reload", "remove"}]
    /\ phase \in [Entries -> Phases]
    /\ reload \in [Entries -> BOOLEAN]
    /\ worker \in [Entries -> Worker \cup {None}]
    /\ flow \in [Flows -> Flow \cup {None}] /\ ended \subseteq Flows

Existing == {e \in Entries : entry[e] # None}

\* Titles stay apart, also when flows overlap: the suffix is chosen in the step
\* that stores the title, not in the one that read the others.
TitlesDiffer ==
    \A d, e \in Existing : d # e => entry[d].title # entry[e].title

\* "Duplicate endpoints are rejected."
EndpointsDiffer ==
    \A d, e \in Existing : d # e => entry[d].endpoint # entry[e].endpoint

\* Home Assistant starts, and is about to set up the entries it has stored.
Init ==
    /\ entry \in [Entries -> [endpoint : Endpoint, title : Names, options : {DefaultOptions}]
                                \cup {None}]
    /\ TitlesDiffer /\ EndpointsDiffer
    /\ lock = [e \in Entries |-> "free"] /\ phase = [e \in Entries |-> "not_loaded"]
    /\ reload = [e \in Entries |-> e \in Existing]
    /\ worker = [e \in Entries |-> None]
    /\ flow = [f \in Flows |-> None] /\ ended = {}

-----------------------------------------------------------------------------
(* Config flows *)

\* Mutant of NormalizeHost: the host is stored as it was typed.
HostAsTyped(typed) == typed

\* The canonical spelling; a text that names no host is refused.
NormalizeHost(typed) == [typed EXCEPT !.canonical = TRUE]

\* Mutant of Used: only titles of entries that are loaded count.
UsedByLoaded(current) == {entry[e].title : e \in {d \in Existing \ {current} : phase[d] = "loaded"}}

Used(current) == {entry[e].title : e \in Existing \ {current}}

UniqueTitle(requested, current) ==
    LET Suffixed(n) == Append(requested, n)
        free == {n \in 2..Cardinality(Entries) + 2 : Suffixed(n) \notin Used(current)}
    IN  IF requested \notin Used(current) THEN requested ELSE Suffixed(Min(free))

Probing == {f \in Flows : flow[f] # None}

\* Entries have unique ids: a flow never finds another entry under the id of a
\* removed one.
Unused(e) == entry[e] = None /\ \A f \in Probing : flow[f].entry # e

\* The new entry is set up by the flow that creates it.
Create(e, endpoint, name) ==
    /\ Unused(e)
    /\ entry' = [entry EXCEPT ![e] = [endpoint |-> endpoint, options |-> DefaultOptions,
                                      title |-> UniqueTitle(name, None)]]
    /\ reload' = [reload EXCEPT ![e] = TRUE]

\* Listeners are registered at the end of setup, for as long as the entry is
\* not unloaded.
Listening(e) == phase[e] \in {"loaded", "unload", "close", "failed_unload"}

\* Mutant of Reconfigured: the reload is left to the update listener.
ReconfiguredQuietly(e) == Listening(e)

\* A changed entry is reloaded, whatever it is doing.
Reconfigured(e) == TRUE

Reconfigure(e, endpoint, name) ==
    LET changed == [entry[e] EXCEPT !.endpoint = endpoint, !.title = UniqueTitle(name, e)]
    IN  /\ entry' = [entry EXCEPT ![e] = changed]
        /\ reload' = [reload EXCEPT ![e] = @ \/ (changed # entry[e] /\ Reconfigured(e))]

\* What a flow does once its endpoint has answered or need not be asked.  The entry
\* may have been removed meanwhile: then there is nothing to change.
Store(e, endpoint, name) ==
    \/ e = None /\ \E new \in Entries : Create(new, endpoint, name)
    \/ e \in Existing /\ Reconfigure(e, endpoint, name)
    \/ e \in Entries \ Existing /\ UNCHANGED <<entry, reload>>

Duplicate(e, endpoint) == \E d \in Existing \ {e} : entry[d].endpoint = endpoint
Unchanged(e, endpoint) == e # None /\ entry[e].endpoint = endpoint

Ends(f) == flow' = [flow EXCEPT ![f] = None] /\ ended' = ended \cup {f}

\* The form of an entry that is reconfigured begins with its title.
Suggested(e) == IF e = None THEN {} ELSE {entry[e].title}

\* The form is filled in, for a new entry (None) or for one that is reconfigured.
\* A host that is none shows the form again; a duplicate ends the flow.
Submit(f) ==
    \E e \in Existing \cup {None}, typed \in Typed :
    \E name \in Suggested(e) \cup Names :
        LET endpoint == NormalizeHost(typed)
        IN  /\ f \notin Probing \cup ended /\ typed.names # None
            /\ \/ Duplicate(e, endpoint) /\ Ends(f) /\ UNCHANGED <<entry, reload>>
               \/ /\ ~Duplicate(e, endpoint) /\ Unchanged(e, endpoint)
                  /\ Store(e, endpoint, name) /\ Ends(f)
               \/ /\ ~Duplicate(e, endpoint) /\ ~Unchanged(e, endpoint)
                  /\ flow' = [flow EXCEPT ![f] = [entry |-> e, endpoint |-> endpoint,
                                                  name |-> name]]
                  /\ UNCHANGED <<entry, reload, ended>>
            /\ UNCHANGED lifecycleVars

\* The endpoint answered one query of the source.
ProbeOk(f) ==
    /\ f \in Probing
    /\ Store(flow[f].entry, flow[f].endpoint, flow[f].name)
    /\ Ends(f)
    /\ UNCHANGED lifecycleVars

\* The form is shown again.
ProbeFails(f) ==
    /\ f \in Probing
    /\ flow' = [flow EXCEPT ![f] = None]
    /\ UNCHANGED <<entry, reload, ended, lifecycleVars>>

\* The listener asks for a reload, if it is registered.
ChangeOptions(e) ==
    /\ e \in Existing
    /\ \E options \in Options \ {entry[e].options} :
           entry' = [entry EXCEPT ![e].options = options]
    /\ reload' = [reload EXCEPT ![e] = @ \/ Listening(e)]
    /\ UNCHANGED <<lifecycleVars, flowVars>>

-----------------------------------------------------------------------------
(* Setup *)

Goes(e, place) == phase' = [phase EXCEPT ![e] = place]
Holds(e, task) == lock' = [lock EXCEPT ![e] = task]

\* The task ends, and leaves the entry in a phase of rest.
Rests(e, place) == Goes(e, place) /\ Holds(e, "free")

\* Mutant of CreateRuntime: a reload starts the runtime it has once more.
RestartRuntime(e) ==
    /\ worker' = [worker EXCEPT ![e] = IF @ # None THEN @ ELSE
                      [endpoint |-> entry[e].endpoint, options |-> entry[e].options]]
    /\ Goes(e, "poll")

\* The worker is built from the entry as it is now, and polls the speaker.
CreateRuntime(e) ==
    /\ worker' = [worker EXCEPT ![e] = [endpoint |-> entry[e].endpoint,
                                        options |-> entry[e].options]]
    /\ Goes(e, "poll")

Idle(e) == e \in Existing /\ lock[e] = "free"

Setup(e) ==
    /\ Idle(e) /\ reload[e] /\ phase[e] \in {"not_loaded", "setup_error"}
    /\ reload' = [reload EXCEPT ![e] = FALSE]
    /\ Holds(e, "setup")
    /\ CreateRuntime(e)
    /\ UNCHANGED <<entry, flowVars>>

\* The first poll ends, whether the speaker answered or not.
FirstPoll(e) ==
    /\ phase[e] = "poll"
    /\ Goes(e, "forward")
    /\ UNCHANGED <<entry, lock, reload, worker, flowVars>>

Loses(e) == worker' = [worker EXCEPT ![e] = None]

\* Nothing closes the worker when setup is cancelled while it waits for the
\* first poll: it goes on, but no entry knows of it any more.
CancelFirstPoll(e) ==
    /\ MayCancel /\ phase[e] = "poll"
    /\ Rests(e, "setup_error")
    /\ Loses(e)
    /\ UNCHANGED <<entry, reload, flowVars>>

ForwardOk(e) ==
    /\ phase[e] = "forward"
    /\ Rests(e, "loaded")
    /\ UNCHANGED <<entry, reload, worker, flowVars>>

\* Mutant of ForwardFails: a partial setup is left as it is.
ForwardAborts(e) ==
    /\ phase[e] = "forward"
    /\ Rests(e, "setup_error")
    /\ UNCHANGED <<entry, reload, worker, flowVars>>

\* An exception of the platforms or a cancellation: the worker is closed.
ForwardFails(e) ==
    /\ phase[e] = "forward"
    /\ Goes(e, "rollback")
    /\ UNCHANGED <<entry, lock, reload, worker, flowVars>>

RollbackEnds(e) ==
    /\ phase[e] = "rollback"
    /\ Rests(e, "setup_error") /\ Loses(e)
    /\ UNCHANGED <<entry, reload, flowVars>>

\* Setup is cancelled again, but closing is a task of its own and goes on.
CancelRollback(e) ==
    /\ MayCancel /\ phase[e] = "rollback"
    /\ Rests(e, "setup_error")
    /\ Loses(e)
    /\ UNCHANGED <<entry, reload, flowVars>>

-----------------------------------------------------------------------------
(* Unloading, to set up anew or to remove *)

\* Somebody asks for a reload, of a setup that failed for instance.
AskReload(e) ==
    /\ e \in Existing
    /\ reload' = [reload EXCEPT ![e] = TRUE]
    /\ UNCHANGED <<entry, lifecycleVars, flowVars>>

Reload(e) ==
    /\ Idle(e) /\ reload[e] /\ phase[e] = "loaded"
    /\ reload' = [reload EXCEPT ![e] = FALSE]
    /\ Holds(e, "reload") /\ Goes(e, "unload")
    /\ UNCHANGED <<entry, worker, flowVars>>

\* Only a restart helps an entry that could not be unloaded.
ReloadRefused(e) ==
    /\ Idle(e) /\ reload[e] /\ phase[e] = "failed_unload"
    /\ reload' = [reload EXCEPT ![e] = FALSE]
    /\ UNCHANGED <<entry, lifecycleVars, flowVars>>

\* The entry is forgotten, and tasks that still wait for it with it.
Forget(e) ==
    /\ entry' = [entry EXCEPT ![e] = None]
    /\ reload' = [reload EXCEPT ![e] = FALSE]
    /\ Rests(e, "not_loaded") /\ Loses(e)

Remove(e) ==
    /\ Idle(e) /\ phase[e] = "loaded"
    /\ Holds(e, "remove") /\ Goes(e, "unload")
    /\ UNCHANGED <<entry, reload, worker, flowVars>>

\* There is nothing to unload, or nothing that could still be: then the worker
\* goes on without its entry.
RemoveNow(e) ==
    /\ Idle(e) /\ phase[e] # "loaded"
    /\ Forget(e)
    /\ UNCHANGED flowVars

\* The entities are gone: now the worker is closed.
UnloadOk(e) ==
    /\ phase[e] = "unload"
    /\ Goes(e, "close")
    /\ UNCHANGED <<entry, lock, reload, worker, flowVars>>

\* The entities stay, and so does their worker; a removal goes on all the same.
UnloadRefused(e) ==
    /\ MayRefuse /\ phase[e] = "unload"
    /\ IF lock[e] = "remove"
       THEN Forget(e)
       ELSE Rests(e, "failed_unload") /\ UNCHANGED <<entry, reload, worker>>
    /\ UNCHANGED flowVars

\* The worker is gone.  A reload keeps the lock and sets the entry up again.
CloseEnds(e) ==
    /\ phase[e] = "close"
    /\ IF lock[e] = "remove"
       THEN Forget(e)
       ELSE CreateRuntime(e) /\ Holds(e, "setup") /\ UNCHANGED <<entry, reload>>
    /\ UNCHANGED flowVars

-----------------------------------------------------------------------------

ConfigFlow == \E f \in Flows : Submit(f) \/ ProbeOk(f) \/ ProbeFails(f)

\* What the event loop does without being asked.
Task(e) ==
    \/ Setup(e) \/ FirstPoll(e) \/ ForwardOk(e) \/ ForwardFails(e) \/ RollbackEnds(e)
    \/ Reload(e) \/ ReloadRefused(e) \/ UnloadOk(e) \/ UnloadRefused(e) \/ CloseEnds(e)

User(e) == ChangeOptions(e) \/ AskReload(e) \/ Remove(e) \/ RemoveNow(e)

Cancellation(e) == CancelFirstPoll(e) \/ CancelRollback(e)

Next ==
    \/ ConfigFlow
    \/ \E e \in Entries : Task(e) \/ User(e) \/ Cancellation(e)

Spec == Init /\ [][Next]_vars

\* The first poll and shutdown are bounded, and the event loop runs ready tasks.
Fairness == \A e \in Entries : WF_vars(Task(e))

FairSpec == Spec /\ Fairness

-----------------------------------------------------------------------------
(* Safety *)

\* An entry owns a worker exactly while it is being set up, is loaded, could not
\* be unloaded or is shutting the worker down: a setup that failed leaves none,
\* and a reload is done with the old one before there is a new one.
Owned == \A e \in Entries : worker[e] # None <=> phase[e] \in Working

\* Once no reload waits, a loaded entry talks to the speaker it is configured
\* for, however its setup and the flows that changed it were interleaved.
EndpointInUse ==
    \A e \in Entries :
        phase[e] = "loaded" /\ ~reload[e] => worker[e].endpoint = entry[e].endpoint

(* Liveness *)

\* A loaded entry whose endpoint was changed does not stay with its old speaker.
ReconfigureTakesEffect ==
    \A e \in Entries :
        (phase[e] = "loaded" /\ worker[e].endpoint # entry[e].endpoint) ~> phase[e] # "loaded"

(* Claims of the documentation *)

\* "Reload the entry after options change."
OptionsInUse ==
    \A e \in Entries :
        phase[e] = "loaded" /\ ~reload[e] => worker[e].options = entry[e].options
=============================================================================
