------------------------ MODULE SingleInstanceProofs ------------------------
(***************************************************************************)
(* Proofs about SingleInstance: a second scimtest is only ever shown the   *)
(* process that runs on its own state file, for any number of processes    *)
(* and ports, however processes end and ports change hands.                *)
(***************************************************************************)
EXTENDS SingleInstance, TLAPS

\* Nobody is a process or a port that the model has no room for.
Distinct == NoProc \notin Procs /\ NoPort \notin Ports

\* Whoever runs on the shared state file holds its lock, and no other does.
RunnerHoldsLock ==
    \A p \in Procs :
        /\ at[p] \in Running /\ p \notin Others => lock = p
        /\ p \in Others => lock # p

\* Only processes of the shared state file wait and are handed over.
WaitersShare ==
    \A p \in Procs : at[p] \in {"waiting", "read", "handed"} => p \notin Others

\* Metadata, in the file or as it was read, names a process of the shared state
\* file and that process's own mode, whether or not it still runs.
Truthful(m) ==
    m # NoMeta => m.token \in Procs \ Others /\ (m.desktop => m.token \in Desktop)
MetadataIsTruthful == Truthful(meta) /\ \A p \in Procs : Truthful(seen[p])

\* A process asks at the address it has read, never without one.
ReadersHaveRead == \A p \in Procs : at[p] = "read" => seen[p] # NoMeta

\* Whoever was handed over was shown a process of the shared state file in a mode
\* it can use.
ShownRightly ==
    \A p \in Procs : at[p] = "handed" =>
        to[p] \in Procs \ Others /\ (p \in Desktop => to[p] \in Desktop)

IInv ==
    /\ TypeOK /\ RunnerHoldsLock /\ WaitersShare
    /\ MetadataIsTruthful /\ ReadersHaveRead /\ ShownRightly

\* The invariant is strong enough: it implies that hand-offs are right and that
\* no two processes run on one state file.
LEMMA InvImplies == ASSUME Distinct, IInv PROVE HandoffIsRight
<1>1. ASSUME NEW p \in Procs, at[p] = "handed"
      PROVE  SameFile(p, to[p]) /\ (p \in Desktop => to[p] \in Desktop)
  BY <1>1 DEF IInv, ShownRightly, WaitersShare, SameFile
<1>2. ASSUME NEW p \in Procs, NEW q \in Procs, {at[p], at[q]} \subseteq Running, SameFile(p, q)
      PROVE  p = q
  <2>1. CASE p \in Others
    BY <1>2, <2>1 DEF SameFile
  <2>2. CASE q \in Others
    BY <1>2, <2>2 DEF SameFile
  <2>3. CASE p \notin Others /\ q \notin Others
    BY <1>2, <2>3 DEF IInv, RunnerHoldsLock
  <2> QED BY <2>1, <2>2, <2>3
<1> QED BY <1>1, <1>2 DEF HandoffIsRight

\* The invariant holds when nothing has been started.
LEMMA InvInit == ASSUME Distinct, Init PROVE IInv
  BY DEF Init, IInv, TypeOK, RunnerHoldsLock, WaitersShare, MetadataIsTruthful, Truthful,
         ReadersHaveRead, ShownRightly, Distinct, Metas, Running

\* Every step of a process keeps the invariant.
LEMMA InvStep == ASSUME Distinct, IInv, [Next]_vars PROVE IInv'
<1> USE DEF IInv, Running, vars
<1>1. CASE UNCHANGED vars
  BY <1>1 DEF TypeOK, RunnerHoldsLock, WaitersShare, MetadataIsTruthful, Truthful,
              ReadersHaveRead, ShownRightly
<1>2. ASSUME NEW p \in Procs, TryAcquire(p) PROVE IInv'
  <2>1. TypeOK'
    BY <1>2 DEF TryAcquire, TypeOK
  <2>2. RunnerHoldsLock' /\ WaitersShare'
    BY <1>2 DEF TryAcquire, TypeOK, RunnerHoldsLock, WaitersShare, Distinct
  <2>3. MetadataIsTruthful' /\ ReadersHaveRead' /\ ShownRightly'
    BY <1>2 DEF TryAcquire, TypeOK, MetadataIsTruthful, Truthful, ReadersHaveRead, ShownRightly
  <2> QED BY <2>1, <2>2, <2>3
<1>3. ASSUME NEW p \in Procs, MustWait(p) PROVE IInv'
  BY <1>3 DEF MustWait, TypeOK, RunnerHoldsLock, WaitersShare, MetadataIsTruthful, Truthful,
              ReadersHaveRead, ShownRightly
<1>4. ASSUME NEW p \in Procs, Truncate(p) PROVE IInv'
  <2>1. meta' \in Metas /\ Truthful(meta')
    BY <1>4 DEF Truncate, TypeOK, MetadataIsTruthful, Truthful, Metas
  <2>2. TypeOK'
    BY <1>4, <2>1 DEF Truncate, TypeOK
  <2>3. MetadataIsTruthful'
    BY <1>4, <2>1 DEF Truncate, MetadataIsTruthful, Truthful
  <2>4. RunnerHoldsLock' /\ WaitersShare' /\ ReadersHaveRead' /\ ShownRightly'
    BY <1>4 DEF Truncate, TypeOK, RunnerHoldsLock, WaitersShare, ReadersHaveRead, ShownRightly
  <2> QED BY <2>2, <2>3, <2>4
<1>5. ASSUME NEW p \in Procs, NEW r \in Ports, Listen(p, r) PROVE IInv'
  BY <1>5 DEF Listen, TypeOK, RunnerHoldsLock, WaitersShare, MetadataIsTruthful, Truthful,
              ReadersHaveRead, ShownRightly
<1>6. ASSUME NEW p \in Procs, Publish(p) PROVE IInv'
  <2>1. meta' \in Metas /\ Truthful(meta')
    <3>1. CASE p \in Others
      BY <1>6, <3>1 DEF Publish, TypeOK, MetadataIsTruthful, Truthful
    <3>2. CASE p \notin Others
      <4>1. PICK r \in Ports : meta' = [url |-> r, token |-> p, desktop |-> p \in Desktop]
        BY <1>6, <3>2 DEF Publish
      <4>2. (p \in Desktop) \in BOOLEAN
        OBVIOUS
      <4>3. meta' \in Metas
        BY <4>1, <4>2 DEF Metas
      <4>4. meta'.token = p /\ meta'.desktop = (p \in Desktop)
        BY <4>1
      <4> QED BY <3>2, <4>3, <4>4 DEF Truthful
    <3> QED BY <3>1, <3>2
  <2>2. TypeOK'
    BY <1>6, <2>1 DEF Publish, TypeOK
  <2>3. MetadataIsTruthful'
    BY <1>6, <2>1 DEF Publish, MetadataIsTruthful, Truthful
  <2>4. RunnerHoldsLock' /\ WaitersShare' /\ ReadersHaveRead' /\ ShownRightly'
    BY <1>6 DEF Publish, TypeOK, RunnerHoldsLock, WaitersShare, ReadersHaveRead, ShownRightly
  <2> QED BY <2>2, <2>3, <2>4
<1>7. ASSUME NEW p \in Procs, Shutdown(p) PROVE IInv'
  <2>1. TypeOK'
    BY <1>7 DEF Shutdown, TypeOK
  <2>2. RunnerHoldsLock' /\ WaitersShare'
    BY <1>7 DEF Shutdown, TypeOK, RunnerHoldsLock, WaitersShare
  <2>3. MetadataIsTruthful' /\ ReadersHaveRead' /\ ShownRightly'
    BY <1>7 DEF Shutdown, TypeOK, MetadataIsTruthful, Truthful, ReadersHaveRead, ShownRightly
  <2> QED BY <2>1, <2>2, <2>3
<1>8. ASSUME NEW p \in Procs, End(p) PROVE IInv'
  <2>1. TypeOK'
    BY <1>8 DEF End, TypeOK
  <2>2. RunnerHoldsLock' /\ WaitersShare'
    BY <1>8 DEF End, TypeOK, RunnerHoldsLock, WaitersShare, Distinct
  <2>3. MetadataIsTruthful' /\ ReadersHaveRead' /\ ShownRightly'
    BY <1>8 DEF End, TypeOK, MetadataIsTruthful, Truthful, ReadersHaveRead, ShownRightly
  <2> QED BY <2>1, <2>2, <2>3
<1>9. ASSUME NEW p \in Procs, ReadMetadata(p) PROVE IInv'
  BY <1>9 DEF ReadMetadata, TypeOK, RunnerHoldsLock, WaitersShare, MetadataIsTruthful, Truthful,
              ReadersHaveRead, ShownRightly
<1>10. ASSUME NEW p \in Procs, CheckRunning(p) PROVE IInv'
  BY <1>10 DEF CheckRunning, Answers, TypeOK, RunnerHoldsLock, WaitersShare, MetadataIsTruthful,
              Truthful, ReadersHaveRead, ShownRightly
<1> QED BY <1>1, <1>2, <1>3, <1>4, <1>5, <1>6, <1>7, <1>8, <1>9, <1>10 DEF Next

\* The invariant holds throughout.
LEMMA InvAlways == ASSUME Distinct PROVE Spec => []IInv
<1>1. Init => IInv
  BY InvInit
<1>2. IInv /\ [Next]_vars => IInv'
  BY InvStep
<1> QED BY <1>1, <1>2, PTL DEF Spec

\* The state of the start-up code stays well-formed (instance.go).
THEOREM TypeCorrect == ASSUME Distinct PROVE Spec => []TypeOK
<1>1. IInv => TypeOK
  BY DEF IInv
<1> QED BY <1>1, InvAlways, PTL

\* A second scimtest hands over to the process of its own state file only, and
\* only one process runs on a state file (instance.go, startup.go).
THEOREM HandoffsAreRight == ASSUME Distinct PROVE Spec => []HandoffIsRight
<1>1. IInv => HandoffIsRight
  BY InvImplies
<1> QED BY <1>1, InvAlways, PTL
=============================================================================
