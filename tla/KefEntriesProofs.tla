-------------------------- MODULE KefEntriesProofs --------------------------
(***************************************************************************)
(* Theorems about KefEntries, for any number of entries, flows, endpoints, *)
(* settings and names.                                                     *)
(***************************************************************************)
EXTENDS KefEntries, FiniteSetTheorems, WellFoundedInduction, TLAPS

-----------------------------------------------------------------------------
(* Titles *)

\* A nonempty set of numbers has a minimum, which is what Min returns.
LEMMA MinIsMember ==
    ASSUME NEW S, S \subseteq Nat, S # {}
    PROVE  Min(S) \in S
<1> DEFINE Below(n) == 0..(n - 1)
           T == {Below(n) : n \in S}
<1>1. T \subseteq FiniteSubsetsOf(Nat) /\ T # {}
  <2>1. ASSUME NEW n \in S PROVE Below(n) \in SUBSET Nat /\ IsFiniteSet(Below(n))
    <3>1. n - 1 \in Int /\ n \in Nat
      OBVIOUS
    <3> QED
      BY <3>1, FS_Interval
  <2> QED
    BY <2>1 DEF FiniteSubsetsOf
<1>2. PICK t \in T : \A u \in T : ~(<<u, t>> \in StrictSubsetOrdering(Nat))
  BY <1>1, FS_StrictSubsetOrderingWellFounded, WFMin
<1>3. PICK x \in S : t = Below(x)
  OBVIOUS
<1>4. ASSUME NEW y \in S PROVE x <= y
  <2>1. SUFFICES ASSUME y < x PROVE FALSE
    OBVIOUS
  <2>2. Below(y) \subseteq Below(x) /\ Below(y) # Below(x)
    BY <2>1
  <2>3. Below(x) \in SUBSET Nat /\ Below(y) \in SUBSET Nat /\ Below(y) \in T
    OBVIOUS
  <2> HIDE DEF Below, T
  <2>4. <<Below(y), Below(x)>> \in StrictSubsetOrdering(Nat)
    BY <2>2, <2>3 DEF StrictSubsetOrdering
  <2> QED
    BY <1>2, <1>3, <2>3, <2>4
<1> QED
  BY <1>4 DEF Min

\* Suffixes make different titles of one name.
LEMMA SuffixesDiffer ==
    ASSUME NEW name \in Seq(Nat), NEW m \in Nat, NEW n \in Nat,
           Append(name, m) = Append(name, n)
    PROVE  m = n
<1>1. Append(name, m)[Len(name) + 1] = m /\ Append(name, n)[Len(name) + 1] = n
  OBVIOUS
<1> QED
  BY <1>1

\* Whatever titles are in use there is a suffix left among those that are
\* tried, so the chosen title is one that no other entry has.
LEMMA TitleIsUnused ==
    ASSUME NEW name \in Seq(Nat), NEW current
    PROVE  /\ UniqueTitle(name, current) \in Seq(Nat)
           /\ UniqueTitle(name, current) \notin Used(current)
<1> DEFINE Tried == 2..Cardinality(Entries) + 2
           free == {n \in Tried : Append(name, n) \notin Used(current)}
           Others == Existing \ {current}
<1>1. Cardinality(Entries) \in Nat /\ IsFiniteSet(Entries)
  BY EntriesAssumption, FS_CardinalityType
<1>2. IsFiniteSet(Tried) /\ Cardinality(Tried) = Cardinality(Entries) + 1
  <2> DEFINE last == Cardinality(Entries) + 2
  <2>1. last \in Int /\ ~(2 > last) /\ last - 2 + 1 = Cardinality(Entries) + 1
    BY <1>1
  <2> HIDE DEF last
  <2>2. IsFiniteSet(2..last) /\ Cardinality(2..last) = last - 2 + 1
    BY <2>1, FS_Interval
  <2> QED
    BY <2>1, <2>2 DEF last
<1>3. IsFiniteSet(Others) /\ Cardinality(Others) <= Cardinality(Entries)
  BY <1>1, FS_Subset DEF Existing
<1>4. free # {}
  <2>1. SUFFICES ASSUME free = {} PROVE FALSE
    OBVIOUS
  <2>2. \A n \in Tried : \E e \in Others : entry[e].title = Append(name, n)
    BY <2>1 DEF Used
  <2> DEFINE bearer == [n \in Tried |-> CHOOSE e \in Others : entry[e].title = Append(name, n)]
  <2>3. \A n \in Tried : bearer[n] \in Others /\ entry[bearer[n]].title = Append(name, n)
    BY <2>2
  <2>4. bearer \in [Tried -> Others]
    BY <2>3
  <2> HIDE DEF bearer, Others, Tried
  <2>5. Cardinality(Others) \in Nat /\ Cardinality(Others) < Cardinality(Tried)
    BY <1>1, <1>2, <1>3, FS_CardinalityType
  <2>6. PICK m \in Tried, n \in Tried : m # n /\ bearer[m] = bearer[n]
    BY <1>2, <1>3, <2>4, <2>5, FS_PigeonHole
  <2>7. Append(name, m) = Append(name, n)
    BY <2>3, <2>6
  <2> QED
    BY <1>1, <2>6, <2>7, SuffixesDiffer DEF Tried
<1>5. free \subseteq Nat
  BY <1>1
<1>6. Min(free) \in free
  BY <1>4, <1>5, MinIsMember
<1>7. CASE name \notin Used(current)
  BY <1>7 DEF UniqueTitle
<1>8. CASE name \in Used(current)
  <2>1. UniqueTitle(name, current) = Append(name, Min(free))
    BY <1>8 DEF UniqueTitle
  <2> QED
    BY <1>5, <1>6, <2>1
<1> QED
  BY <1>7, <1>8

-----------------------------------------------------------------------------
(* The inductive invariant *)

\* An entry that does not exist is not being set up, and nothing is left of it.
Vacant == \A e \in Entries : entry[e] = None => phase[e] = "not_loaded"

\* From the moment setup reads the entry, its worker has the endpoint of the
\* entry or a reload waits to give it that.
UpToDate ==
    \A e \in Entries :
        phase[e] \in {"poll", "forward", "loaded"} /\ ~reload[e] =>
            worker[e].endpoint = entry[e].endpoint

Inductive == TypeOK /\ Owned /\ Vacant /\ UpToDate /\ TitlesDiffer

\* Stored entries are not set up when Home Assistant starts, and have no worker.
LEMMA InitInductive == Init => Inductive
<1> SUFFICES ASSUME Init PROVE Inductive
  OBVIOUS
<1>1. TypeOK
  BY EntriesAssumption DEF Init, TypeOK, Entry, Existing, Phases, Locked
<1> QED
  BY <1>1 DEF Init, Inductive, Owned, Vacant, UpToDate, Working, Locked

\* What a form yields: a canonical endpoint and a name.
LEMMA FormValues ==
    ASSUME TypeOK, NEW e \in Existing \cup {None}, NEW typed \in Typed, typed.names # None,
           NEW name \in Suggested(e) \cup Names
    PROVE  NormalizeHost(typed) \in Endpoint /\ name \in Seq(Nat)
<1>1. NormalizeHost(typed) \in Endpoint
  BY DEF NormalizeHost, Typed, Endpoint
<1>2. name \in Seq(Nat)
  BY EntriesAssumption DEF TypeOK, Suggested, Existing, Entry
<1> QED
  BY <1>1, <1>2

\* A flow that stores its result keeps the invariant, whatever the entry, its
\* setup and the other entries did while the endpoint was probed.
LEMMA StoreStep ==
    ASSUME Inductive, UNCHANGED lifecycleVars,
           NEW e \in Entries \cup {None}, NEW endpoint \in Endpoint, NEW name \in Seq(Nat),
           Store(e, endpoint, name)
    PROVE  /\ entry' \in [Entries -> Entry \cup {None}] /\ reload' \in [Entries -> BOOLEAN]
           /\ Owned' /\ Vacant' /\ UpToDate' /\ TitlesDiffer'
<1> USE DEF Inductive, lifecycleVars
<1>1. Owned'
  BY DEF Owned
<1>2. ASSUME NEW new \in Entries, Create(new, endpoint, name)
      PROVE  /\ entry' \in [Entries -> Entry \cup {None}] /\ reload' \in [Entries -> BOOLEAN]
             /\ Vacant' /\ UpToDate' /\ TitlesDiffer'
  <2> DEFINE title == UniqueTitle(name, None)
  <2>1. title \in Seq(Nat) /\ title \notin Used(None)
    BY TitleIsUnused
  <2> HIDE DEF title
  <2>2. entry[new] = None
    BY <1>2 DEF Create, Unused
  <2>3. /\ entry' = [entry EXCEPT ![new] = [endpoint |-> endpoint, options |-> DefaultOptions,
                                            title |-> title]]
        /\ reload' = [reload EXCEPT ![new] = TRUE]
    BY <1>2 DEF Create, title
  <2>4. entry' \in [Entries -> Entry \cup {None}] /\ reload' \in [Entries -> BOOLEAN]
    BY <2>1, <2>3, EntriesAssumption DEF TypeOK, Entry
  <2>5. Vacant' /\ UpToDate'
    BY <2>2, <2>3 DEF TypeOK, Vacant, UpToDate
  <2>6. \A d \in Existing : d # new /\ entry[d].title # title
    BY <2>1, <2>2, EntriesAssumption DEF Used, Existing
  <2>7. TitlesDiffer'
    BY <2>3, <2>6 DEF TypeOK, TitlesDiffer, Existing
  <2> QED
    BY <2>4, <2>5, <2>7
<1>3. ASSUME e \in Existing, Reconfigure(e, endpoint, name)
      PROVE  /\ entry' \in [Entries -> Entry \cup {None}] /\ reload' \in [Entries -> BOOLEAN]
             /\ Vacant' /\ UpToDate' /\ TitlesDiffer'
  <2> DEFINE title == UniqueTitle(name, e)
             changed == [entry[e] EXCEPT !.endpoint = endpoint, !.title = title]
  <2>1. title \in Seq(Nat) /\ title \notin Used(e)
    BY TitleIsUnused
  <2> HIDE DEF title
  <2>2. entry[e] \in Entry /\ e \in Entries
    BY <1>3 DEF TypeOK, Existing
  <2>3. /\ entry' = [entry EXCEPT ![e] = changed]
        /\ reload' = [reload EXCEPT ![e] = reload[e] \/ changed # entry[e]]
    BY <1>3, <2>2 DEF Reconfigure, Reconfigured, title, TypeOK
  <2>4. changed \in Entry /\ changed.title = title
    BY <2>1, <2>2 DEF Entry
  <2> HIDE DEF changed
  <2>5. entry' \in [Entries -> Entry \cup {None}] /\ reload' \in [Entries -> BOOLEAN]
    BY <2>2, <2>3, <2>4 DEF TypeOK
  <2>6. Vacant' /\ UpToDate'
    <3>1. CASE changed = entry[e]
      <4>1. entry' = entry /\ reload' = reload
        BY <2>2, <2>3, <3>1 DEF TypeOK
      <4> QED
        BY <4>1 DEF Vacant, UpToDate
    <3>2. CASE changed # entry[e]
      <4>1. reload' = [reload EXCEPT ![e] = TRUE]
        BY <2>3, <3>2
      <4>2. entry'[e] # None /\ reload'[e]
        BY <2>2, <2>3, <2>4, <4>1, EntriesAssumption DEF TypeOK
      <4>3. \A d \in Entries \ {e} : entry'[d] = entry[d] /\ reload'[d] = reload[d]
        BY <2>3, <4>1 DEF TypeOK
      <4> HIDE DEF Inductive
      <4>4. phase' = phase /\ worker' = worker /\ Vacant /\ UpToDate
        BY DEF Inductive
      <4> QED
        BY <4>2, <4>3, <4>4 DEF Vacant, UpToDate
    <3> QED
      BY <3>1, <3>2
  <2>7. \A d \in Existing \ {e} : entry[d].title # title
    BY <2>1 DEF Used
  <2>8. TitlesDiffer'
    BY <1>3, <2>2, <2>3, <2>4, <2>7 DEF TypeOK, TitlesDiffer, Existing
  <2> QED
    BY <2>5, <2>6, <2>8
<1>4. CASE UNCHANGED <<entry, reload>>
  BY <1>1, <1>4 DEF TypeOK, Vacant, UpToDate, TitlesDiffer, Existing
<1> QED
  BY <1>1, <1>2, <1>3, <1>4 DEF Store

\* A form that is submitted, a probe that answers and one that fails.
LEMMA FlowStep ==
    ASSUME Inductive, NEW f \in Flows, Submit(f) \/ ProbeOk(f) \/ ProbeFails(f)
    PROVE  Inductive'
<1> DEFINE Kept == /\ entry' \in [Entries -> Entry \cup {None}]
                   /\ reload' \in [Entries -> BOOLEAN]
                   /\ Owned' /\ Vacant' /\ UpToDate' /\ TitlesDiffer'
           FlowTyped == flow' \in [Flows -> Flow \cup {None}] /\ ended' \subseteq Flows
<1>1. UNCHANGED lifecycleVars
  BY DEF Submit, ProbeOk, ProbeFails, lifecycleVars
<1>2. ASSUME UNCHANGED <<entry, reload>> PROVE Kept
  BY <1>1, <1>2 DEF Inductive, TypeOK, lifecycleVars, Owned, Vacant, UpToDate, TitlesDiffer,
                    Existing
<1>3. TypeOK
  BY DEF Inductive
<1>4. Ends(f) => FlowTyped
  BY <1>3 DEF Ends, TypeOK
<1>5. CASE Submit(f)
  <2> DEFINE Outcome(e, typed, name) ==
             /\ typed.names # None
             /\ \/ Ends(f) /\ UNCHANGED <<entry, reload>>
                \/ Store(e, NormalizeHost(typed), name) /\ Ends(f)
                \/ /\ flow' = [flow EXCEPT ![f] = [entry |-> e, name |-> name,
                                                   endpoint |-> NormalizeHost(typed)]]
                   /\ UNCHANGED <<entry, reload, ended>>
  <2>0. PICK e \in Existing \cup {None}, typed \in Typed :
             \E name \in Suggested(e) \cup Names : Outcome(e, typed, name)
    BY <1>5 DEF Submit
  <2>1. PICK name \in Suggested(e) \cup Names : Outcome(e, typed, name)
    BY <2>0
  <2>2. NormalizeHost(typed) \in Endpoint /\ name \in Seq(Nat)
    BY <1>3, <2>1, FormValues
  <2>3. e \in Entries \cup {None}
    BY DEF Existing
  <2>4. ASSUME Ends(f), UNCHANGED <<entry, reload>> PROVE Kept /\ FlowTyped
    BY <1>2, <1>4, <2>4
  <2>5. ASSUME Store(e, NormalizeHost(typed), name), Ends(f) PROVE Kept /\ FlowTyped
    BY <1>1, <1>4, <2>2, <2>3, <2>5, StoreStep
  <2>6. ASSUME flow' = [flow EXCEPT ![f] = [entry |-> e, name |-> name,
                                            endpoint |-> NormalizeHost(typed)]],
               UNCHANGED <<entry, reload, ended>>
        PROVE  Kept /\ FlowTyped
    BY <1>2, <1>3, <2>2, <2>3, <2>6 DEF TypeOK, Flow
  <2>7. Kept /\ FlowTyped
    BY <2>1, <2>4, <2>5, <2>6
  <2> QED
    BY <1>1, <1>3, <2>7 DEF Inductive, TypeOK, lifecycleVars
<1>6. CASE ProbeOk(f)
  <2>1. flow[f] \in Flow /\ Store(flow[f].entry, flow[f].endpoint, flow[f].name) /\ Ends(f)
    BY <1>3, <1>6 DEF ProbeOk, Probing, TypeOK
  <2>2. /\ flow[f].entry \in Entries \cup {None} /\ flow[f].endpoint \in Endpoint
        /\ flow[f].name \in Seq(Nat)
    BY <2>1 DEF Flow
  <2>3. Kept
    BY <1>1, <2>1, <2>2, StoreStep
  <2> QED
    BY <1>1, <1>3, <1>4, <2>1, <2>3 DEF Inductive, TypeOK, lifecycleVars
<1>7. CASE ProbeFails(f)
  <2>1. Kept /\ FlowTyped
    BY <1>2, <1>3, <1>7 DEF ProbeFails, TypeOK
  <2> QED
    BY <1>1, <1>3, <2>1 DEF Inductive, TypeOK, lifecycleVars
<1> QED
  BY <1>5, <1>6, <1>7

-----------------------------------------------------------------------------
(* Steps of one entry *)

\* Steps that change the setup of one entry leave the others as they are, and
\* keep the invariant if it holds of that entry afterwards.
LEMMA LocalStep ==
    ASSUME Inductive, NEW e \in Entries, UNCHANGED flowVars,
           NEW changed \in Entry \cup {None},
           NEW holder \in {"free", "setup", "reload", "remove"},
           NEW place \in Phases, NEW wanted \in BOOLEAN, NEW runs \in Worker \cup {None},
           entry' = [entry EXCEPT ![e] = changed], lock' = [lock EXCEPT ![e] = holder],
           phase' = [phase EXCEPT ![e] = place], reload' = [reload EXCEPT ![e] = wanted],
           worker' = [worker EXCEPT ![e] = runs],
           changed = None \/ (entry[e] # None /\ changed.title = entry[e].title),
           runs # None <=> place \in Working,
           changed = None => place = "not_loaded",
           place \in {"poll", "forward", "loaded"} /\ ~wanted =>
               runs.endpoint = changed.endpoint
    PROVE  Inductive'
<1>1. TypeOK
  BY DEF Inductive
<1>2. TypeOK'
  BY <1>1 DEF TypeOK, flowVars
<1>3. /\ entry'[e] = changed /\ phase'[e] = place /\ reload'[e] = wanted /\ worker'[e] = runs
      /\ \A d \in Entries \ {e} : /\ entry'[d] = entry[d] /\ phase'[d] = phase[d]
                                  /\ reload'[d] = reload[d] /\ worker'[d] = worker[d]
  BY <1>1 DEF TypeOK
<1>4. Owned'
  BY <1>3 DEF Inductive, Owned
<1>5. Vacant'
  BY <1>3 DEF Inductive, Vacant
<1>6. UpToDate'
  BY <1>3 DEF Inductive, UpToDate
<1>7. TitlesDiffer'
  BY <1>3 DEF Inductive, TitlesDiffer, Existing
<1> QED
  BY <1>2, <1>4, <1>5, <1>6, <1>7 DEF Inductive

\* Every step of an entry's setup and every request for it keeps the invariant.
LEMMA EntryStep ==
    ASSUME Inductive, NEW e \in Entries, Task(e) \/ User(e) \/ Cancellation(e)
    PROVE  Inductive'
<1> DEFINE Becomes(changed, holder, place, wanted, runs) ==
               /\ entry' = [entry EXCEPT ![e] = changed]
               /\ lock' = [lock EXCEPT ![e] = holder]
               /\ phase' = [phase EXCEPT ![e] = place]
               /\ reload' = [reload EXCEPT ![e] = wanted]
               /\ worker' = [worker EXCEPT ![e] = runs]
               /\ UNCHANGED flowVars
           built == [endpoint |-> entry[e].endpoint, options |-> entry[e].options]
<1>1. /\ entry[e] \in Entry \cup {None} /\ lock[e] \in {"free", "setup", "reload", "remove"}
      /\ phase[e] \in Phases /\ reload[e] \in BOOLEAN /\ worker[e] \in Worker \cup {None}
      /\ entry = [entry EXCEPT ![e] = entry[e]] /\ lock = [lock EXCEPT ![e] = lock[e]]
      /\ phase = [phase EXCEPT ![e] = phase[e]] /\ reload = [reload EXCEPT ![e] = reload[e]]
      /\ worker = [worker EXCEPT ![e] = worker[e]]
  BY DEF Inductive, TypeOK
<1>2. /\ worker[e] # None <=> phase[e] \in Working
      /\ entry[e] = None => phase[e] = "not_loaded"
      /\ phase[e] \in {"poll", "forward", "loaded"} /\ ~reload[e] =>
             worker[e].endpoint = entry[e].endpoint
  BY DEF Inductive, Owned, Vacant, UpToDate
<1>3. entry[e] # None => built \in Worker /\ built # None
  BY <1>1, EntriesAssumption DEF Entry, Worker
<1>4. e \in Existing <=> entry[e] # None
  BY DEF Existing
<1>5. None \notin Entry /\ None \notin Worker
  BY EntriesAssumption
<1> USE DEF Goes, Holds, Rests, Loses, CreateRuntime, Idle, Forget, lifecycleVars,
            Working, Phases, Locked
<1>6. CASE Setup(e)
  <2>1. Becomes(entry[e], "setup", "poll", FALSE, built)
    BY <1>1, <1>6 DEF Setup
  <2>2. entry[e] # None /\ built \in Worker /\ built # None
    BY <1>3, <1>4, <1>6 DEF Setup
  <2> QED
    BY <1>1, <2>1, <2>2, LocalStep
<1>7. CASE FirstPoll(e)
  <2>1. Becomes(entry[e], lock[e], "forward", reload[e], worker[e])
    BY <1>1, <1>7 DEF FirstPoll
  <2>2. /\ entry[e] # None /\ worker[e] # None
        /\ (~reload[e] => worker[e].endpoint = entry[e].endpoint)
    BY <1>2, <1>7 DEF FirstPoll
  <2> QED
    BY <1>1, <2>1, <2>2, LocalStep
<1>8. CASE CancelFirstPoll(e) \/ CancelRollback(e) \/ RollbackEnds(e)
  <2>1. Becomes(entry[e], "free", "setup_error", reload[e], None)
    BY <1>1, <1>8 DEF CancelFirstPoll, CancelRollback, RollbackEnds
  <2>2. entry[e] # None
    BY <1>2, <1>8 DEF CancelFirstPoll, CancelRollback, RollbackEnds
  <2> QED
    BY <1>1, <2>1, <2>2, LocalStep
<1>9. CASE ForwardOk(e)
  <2>1. Becomes(entry[e], "free", "loaded", reload[e], worker[e])
    BY <1>1, <1>9 DEF ForwardOk
  <2>2. /\ entry[e] # None /\ worker[e] # None
        /\ (~reload[e] => worker[e].endpoint = entry[e].endpoint)
    BY <1>2, <1>9 DEF ForwardOk
  <2> QED
    BY <1>1, <2>1, <2>2, LocalStep
<1>10. CASE ForwardFails(e)
  <2>1. Becomes(entry[e], lock[e], "rollback", reload[e], worker[e])
    BY <1>1, <1>10 DEF ForwardFails
  <2>2. entry[e] # None /\ worker[e] # None
    BY <1>2, <1>10 DEF ForwardFails
  <2> QED
    BY <1>1, <2>1, <2>2, LocalStep
<1>11. CASE Reload(e)
  <2>1. Becomes(entry[e], "reload", "unload", FALSE, worker[e])
    BY <1>1, <1>11 DEF Reload
  <2>2. entry[e] # None /\ worker[e] # None
    BY <1>2, <1>4, <1>11 DEF Reload
  <2> QED
    BY <1>1, <2>1, <2>2, LocalStep
<1>12. CASE ReloadRefused(e)
  <2>1. Becomes(entry[e], lock[e], phase[e], FALSE, worker[e])
    BY <1>1, <1>12 DEF ReloadRefused
  <2>2. entry[e] # None /\ worker[e] # None /\ phase[e] = "failed_unload"
    BY <1>2, <1>4, <1>12 DEF ReloadRefused
  <2> QED
    BY <1>1, <2>1, <2>2, LocalStep
<1>13. ASSUME Forget(e), UNCHANGED flowVars PROVE Inductive'
  <2>1. Becomes(None, "free", "not_loaded", FALSE, None)
    BY <1>13
  <2> QED
    BY <2>1, LocalStep
<1>14. CASE RemoveNow(e)
  BY <1>13, <1>14 DEF RemoveNow
<1>15. CASE Remove(e)
  <2>1. Becomes(entry[e], "remove", "unload", reload[e], worker[e])
    BY <1>1, <1>15 DEF Remove
  <2>2. entry[e] # None /\ worker[e] # None
    BY <1>2, <1>4, <1>15 DEF Remove
  <2> QED
    BY <1>1, <2>1, <2>2, LocalStep
<1>16. CASE UnloadOk(e)
  <2>1. Becomes(entry[e], lock[e], "close", reload[e], worker[e])
    BY <1>1, <1>16 DEF UnloadOk
  <2>2. entry[e] # None /\ worker[e] # None
    BY <1>2, <1>16 DEF UnloadOk
  <2> QED
    BY <1>1, <2>1, <2>2, LocalStep
<1>17. CASE UnloadRefused(e)
  <2>1. CASE lock[e] = "remove"
    BY <1>13, <1>17, <2>1 DEF UnloadRefused
  <2>2. CASE lock[e] # "remove"
    <3>1. Becomes(entry[e], "free", "failed_unload", reload[e], worker[e])
      BY <1>1, <1>17, <2>2 DEF UnloadRefused
    <3> QED
      BY <1>1, <1>2, <1>17, <3>1, LocalStep DEF UnloadRefused
  <2> QED
    BY <2>1, <2>2
<1>18. CASE CloseEnds(e)
  <2>1. CASE lock[e] = "remove"
    BY <1>13, <1>18, <2>1 DEF CloseEnds
  <2>2. CASE lock[e] # "remove"
    <3>1. Becomes(entry[e], "setup", "poll", reload[e], built)
      BY <1>1, <1>18, <2>2 DEF CloseEnds
    <3>2. entry[e] # None
      BY <1>2, <1>18 DEF CloseEnds
    <3> QED
      BY <1>1, <1>3, <3>1, <3>2, LocalStep
  <2> QED
    BY <2>1, <2>2
<1>19. CASE AskReload(e)
  <2>1. Becomes(entry[e], lock[e], phase[e], TRUE, worker[e])
    BY <1>1, <1>19 DEF AskReload
  <2> QED
    BY <1>1, <1>2, <2>1, LocalStep
<1>20. CASE ChangeOptions(e)
  <2>1. PICK options \in Options : entry' = [entry EXCEPT ![e].options = options]
    BY <1>20 DEF ChangeOptions
  <2> DEFINE changed == [entry[e] EXCEPT !.options = options]
  <2>2. entry[e] \in Entry
    BY <1>1, <1>4, <1>20 DEF ChangeOptions
  <2>3. /\ changed \in Entry /\ changed.title = entry[e].title
        /\ changed.endpoint = entry[e].endpoint
    BY <2>2 DEF Entry
  <2>4. Becomes(changed, lock[e], phase[e], reload[e] \/ Listening(e), worker[e])
    BY <1>1, <1>20, <2>1 DEF ChangeOptions
  <2>5. reload[e] \/ Listening(e) \in BOOLEAN
    BY DEF Listening
  <2> HIDE DEF changed
  <2> QED
    BY <1>1, <1>2, <1>5, <2>2, <2>3, <2>4, <2>5, LocalStep DEF Listening
<1> QED
  BY <1>6, <1>7, <1>8, <1>9, <1>10, <1>11, <1>12, <1>14, <1>15, <1>16, <1>17, <1>18, <1>19,
     <1>20 DEF Task, User, Cancellation

\* Every step keeps the invariant.
LEMMA NextStep == Inductive /\ [Next]_vars => Inductive'
<1> SUFFICES ASSUME Inductive, [Next]_vars PROVE Inductive'
  OBVIOUS
<1>1. CASE ConfigFlow
  BY <1>1, FlowStep DEF ConfigFlow
<1>2. CASE \E e \in Entries : Task(e) \/ User(e) \/ Cancellation(e)
  BY <1>2, EntryStep
<1>3. CASE UNCHANGED vars
  BY <1>3 DEF vars, flowVars, Inductive, TypeOK, Owned, Vacant, UpToDate, TitlesDiffer, Existing
<1> QED
  BY <1>1, <1>2, <1>3 DEF Next

-----------------------------------------------------------------------------
(* Theorems *)

\* Types, ownership, and what is known of endpoints and titles are kept by every step.
LEMMA EntriesInductive == Spec => []Inductive
BY InitInductive, NextStep, PTL DEF Spec

\* Entries, workers and flows hold canonical endpoints, settings and names, however
\* hosts were typed.
THEOREM EntriesTyped == Spec => []TypeOK
<1>1. Inductive => TypeOK
  BY DEF Inductive
<1> QED
  BY <1>1, EntriesInductive, PTL

\* A worker exists exactly while an entry is set up, loaded, could not be unloaded
\* or is shutting it down, whatever was cancelled, refused or removed.
THEOREM WorkersOwned == Spec => []Owned
<1>1. Inductive => Owned
  BY DEF Inductive
<1> QED
  BY <1>1, EntriesInductive, PTL

\* No two entries bear one title, for any number of overlapping flows.
THEOREM TitlesAlwaysDiffer == Spec => []TitlesDiffer
<1>1. Inductive => TitlesDiffer
  BY DEF Inductive
<1> QED
  BY <1>1, EntriesInductive, PTL

\* A loaded entry for which no reload waits talks to the speaker it is configured
\* for, however reconfigurations and setup were interleaved.
THEOREM LoadedUsesItsEndpoint == Spec => []EndpointInUse
<1>1. Inductive => EndpointInUse
  BY DEF Inductive, UpToDate, EndpointInUse
<1> QED
  BY <1>1, EntriesInductive, PTL
=============================================================================
