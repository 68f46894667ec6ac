------------------------ MODULE FaultScenariosProofs ------------------------
(***************************************************************************)
(* Proofs about FaultScenarios for every value of its constants.           *)
(***************************************************************************)
EXTENDS FaultScenarios, FiniteSetTheorems, TLAPS

\* Reservations name scenarios that were armed already.
ReservedBefore ==
    \A r \in Requests : request[r].phase = "reserved" => request[r].run <= run.id

\* A scenario that is not active owes nothing to the requests under way.
EndedOwesNothing == ~Active => run.inFlight = 0

\* A scenario for the next flow has one injection, which is never reserved.
FlowIsOneInjection ==
    Active /\ run.action.phase = "flow" =>
        run.total = 1 /\ run.remaining = 1 /\ run.inFlight = 0

NotArmedYet ==
    /\ run.id = 0 => ~Active
    /\ \A i \in RunIds : i > run.id => injected[i] = 0

IInv ==
    /\ TypeOK
    /\ ReservedBefore
    /\ CountersAgree
    /\ EndedOwesNothing
    /\ FlowIsOneInjection
    /\ NotArmedYet
    /\ InjectedAsShown

-----------------------------------------------------------------------------

RequestState == {Idle, Flow} \union Reserved

LEMMA Phases ==
    /\ Idle.phase = "idle" /\ Flow.phase = "flow"
    /\ \A q \in RequestState : q.phase = "reserved" => q \in Reserved
    /\ \A q \in Reserved : q.phase = "reserved" /\ q.run \in RunIds /\ q.action \in Actions
BY DEF RequestState, Idle, Flow, Reserved

LEMMA TypeInit == Init => TypeOK
BY NumbersAssumption DEF Init, TypeOK, Run, Actions, RunIds, RequestState

\* A reservation of an active run: what Reserve stores.
LEMMA ReservationType ==
    ASSUME run \in Run, run.id # 0
    PROVE  [phase |-> "reserved", run |-> run.id, action |-> run.action] \in Reserved
BY DEF Run, Reserved

\* The steps that settle a run write three of its fields.
LEMMA RunUpdate ==
    ASSUME NEW x \in Run, NEW state \in {"armed", "running", "completed", "disarmed", "expired"},
           NEW remaining \in Nat, NEW inFlight \in Nat
    PROVE  /\ [x EXCEPT !.state = state] \in Run
           /\ [x EXCEPT !.state = state, !.remaining = remaining] \in Run
           /\ [x EXCEPT !.state = state, !.inFlight = inFlight] \in Run
           /\ [x EXCEPT !.inFlight = inFlight, !.state = state] \in Run
           /\ [x EXCEPT !.inFlight = inFlight, !.remaining = remaining, !.state = state] \in Run
BY DEF Run

LEMMA TypeStep == IInv /\ [Next]_vars => TypeOK'
<1> SUFFICES ASSUME IInv, [Next]_vars PROVE TypeOK'
    OBVIOUS
<1> USE NumbersAssumption DEF IInv
<1>0. /\ now \in Nat /\ run \in Run /\ armed \subseteq Kinds /\ arming \subseteq RunIds
      /\ request \in [Requests -> {Idle, Flow} \union Reserved]
      /\ injected \in [RunIds -> Nat]
    BY DEF TypeOK
<1>1. CASE ArmRun
  <2>1. PICK a \in Actions, n \in 1 .. MaxCount :
           run' = [id |-> run.id + 1, action |-> a, state |-> "armed", total |-> n,
                   remaining |-> n, inFlight |-> 0, expiresAt |-> now + Lifetime]
      BY <1>1 DEF ArmRun
  <2>2. run.id + 1 \in RunIds
      BY <1>0, <1>1 DEF ArmRun, Run, RunIds
  <2>3. run' \in Run
      BY <1>0, <2>1, <2>2 DEF Run
  <2> QED BY <1>0, <1>1, <2>2, <2>3 DEF ArmRun, TypeOK
<1>2. CASE DisarmAfterArming
    BY <1>0, <1>2 DEF DisarmAfterArming, TypeOK
<1>3. CASE DisarmRun
    BY <1>0, <1>3 DEF DisarmRun, TypeOK, Run
<1>4. CASE ExpireRun
    BY <1>0, <1>4 DEF ExpireRun, TypeOK, Run
<1>5. CASE ArmFaults \/ DisarmFaults \/ TakeLogoutFaults
    BY <1>0, <1>5 DEF ArmFaults, DisarmFaults, TakeLogoutFaults, TypeOK
<1>6. ASSUME NEW r \in Requests, TakeArmedFaults(r) PROVE TypeOK'
    BY <1>0, <1>6 DEF TakeArmedFaults, TypeOK
<1>7. ASSUME NEW r \in Requests, TakeFlowFaults(r) PROVE TypeOK'
  <2>1. request' \in [Requests -> {Idle, Flow} \union Reserved]
      BY <1>0, <1>7 DEF TakeFlowFaults
  <2>2. run' \in Run
    <3>1. [run EXCEPT !.state = "completed", !.remaining = 0] \in Run
        BY <1>0, RunUpdate
    <3> QED BY <1>0, <1>7, <3>1 DEF TakeFlowFaults
  <2>3. injected' \in [RunIds -> Nat]
      BY <1>0, <1>7 DEF TakeFlowFaults
  <2> QED BY <1>0, <1>7, <2>1, <2>2, <2>3 DEF TakeFlowFaults, TypeOK
<1>8. ASSUME NEW r \in Requests, Reserve(r) PROVE TypeOK'
  <2>1. run.id # 0
      BY <1>8 DEF Reserve, NotArmedYet
  <2>2. request' \in [Requests -> {Idle, Flow} \union Reserved]
      BY <1>0, <1>8, <2>1, ReservationType DEF Reserve
  <2>3. run' \in Run
    <3>1. run.inFlight + 1 \in Nat
        BY <1>0 DEF Run
    <3> QED BY <1>0, <1>8, <3>1, RunUpdate DEF Reserve
  <2> QED BY <1>0, <1>8, <2>2, <2>3 DEF Reserve, TypeOK
<1>9. ASSUME NEW r \in Requests, Complete(r) PROVE TypeOK'
  <2>1. request' \in [Requests -> {Idle, Flow} \union Reserved]
      BY <1>0, <1>9 DEF Complete, Settle
  <2>2. run' \in Run
    <3>1. /\ run.state \in {"armed", "running", "completed", "disarmed", "expired"}
          /\ run.inFlight >= 1 => run.inFlight - 1 \in Nat
          /\ run.remaining >= 1 => run.remaining - 1 \in Nat
        BY <1>0 DEF Run
    <3> DEFINE state == IF run.remaining = 1 /\ run.inFlight = 1 THEN "completed" ELSE run.state
    <3>2. state \in {"armed", "running", "completed", "disarmed", "expired"}
        BY <3>1
    <3> DEFINE inFlight == run.inFlight - 1
               remaining == run.remaining - 1
    <3>3. \/ /\ run' = [run EXCEPT !.inFlight = inFlight, !.remaining = remaining,
                            !.state = state]
             /\ inFlight \in Nat /\ remaining \in Nat
          \/ run' = run
        BY <1>9, <3>1 DEF Complete
    <3> HIDE DEF state, inFlight, remaining
    <3>4. inFlight \in Nat /\ remaining \in Nat =>
              [run EXCEPT !.inFlight = inFlight, !.remaining = remaining, !.state = state] \in Run
        BY <1>0, <3>2, RunUpdate
    <3> QED BY <1>0, <3>3, <3>4
  <2>3. injected' \in [RunIds -> Nat]
      BY <1>0, <1>9 DEF Complete
  <2> QED BY <1>0, <1>9, <2>1, <2>2, <2>3 DEF Complete, Settle, TypeOK
<1>10. ASSUME NEW r \in Requests, Cancel(r) PROVE TypeOK'
  <2>1. request' \in [Requests -> {Idle, Flow} \union Reserved]
      BY <1>0, <1>10 DEF Cancel, Settle
  <2>2. run' \in Run
    <3>1. /\ run.state \in {"armed", "running", "completed", "disarmed", "expired"}
          /\ run.inFlight >= 1 => run.inFlight - 1 \in Nat
        BY <1>0 DEF Run
    <3> DEFINE state == IF run.remaining = run.total /\ run.inFlight = 1 THEN "armed" ELSE run.state
    <3>2. state \in {"armed", "running", "completed", "disarmed", "expired"}
        BY <3>1
    <3> DEFINE inFlight == run.inFlight - 1
    <3>3. \/ run' = [run EXCEPT !.inFlight = inFlight, !.state = state] /\ inFlight \in Nat
          \/ run' = run
        BY <1>10, <3>1 DEF Cancel
    <3> HIDE DEF state, inFlight
    <3>4. inFlight \in Nat => [run EXCEPT !.inFlight = inFlight, !.state = state] \in Run
        BY <1>0, <3>2, RunUpdate
    <3> QED BY <1>0, <3>3, <3>4
  <2> QED BY <1>0, <1>10, <2>1, <2>2 DEF Cancel, Settle, TypeOK
<1>11. CASE Tick
    BY <1>0, <1>11 DEF Tick, TypeOK
<1>12. CASE UNCHANGED vars
    BY <1>0, <1>12 DEF vars, TypeOK
<1> QED
    BY <1>1, <1>2, <1>3, <1>4, <1>5, <1>6, <1>7, <1>8, <1>9, <1>10, <1>11, <1>12 DEF Next

-----------------------------------------------------------------------------
(* Reservations are counted by the requests that hold them. *)

HoldersIn(requests, id) ==
    {r \in Requests : requests[r].phase = "reserved" /\ requests[r].run = id}

LEMMA HoldersFinite ==
    ASSUME NEW requests, NEW id
    PROVE  /\ IsFiniteSet(HoldersIn(requests, id))
           /\ Cardinality(HoldersIn(requests, id)) \in Nat
<1>1. HoldersIn(requests, id) \in SUBSET Requests
    BY DEF HoldersIn
<1>2. IsFiniteSet(HoldersIn(requests, id))
    BY <1>1, RequestsAssumption, FS_Subset
<1> QED BY <1>2, FS_CardinalityType

-----------------------------------------------------------------------------
(* The invariant. *)

LEMMA InvInit == Init => IInv
<1> SUFFICES ASSUME Init PROVE IInv
    OBVIOUS
<1>1. TypeOK
    BY TypeInit
<1>2. ~Active /\ run.inFlight = 0 /\ run.id = 0 /\ run.id \notin RunIds
    BY DEF Init, Active, RunIds
<1>3. ReservedBefore /\ NotArmedYet
    BY <1>2, Phases DEF Init, ReservedBefore, NotArmedYet, Active
<1> QED
    BY <1>1, <1>2, <1>3
    DEF IInv, CountersAgree, EndedOwesNothing, FlowIsOneInjection, InjectedAsShown

\* What the fields of the run, its holders and the history have to agree on.
LEMMA InvFacts ==
    IInv <=>
        /\ TypeOK
        /\ ReservedBefore
        /\ Active =>
              /\ run.inFlight = Cardinality(HoldersIn(request, run.id))
              /\ run.inFlight <= run.remaining /\ run.remaining <= run.total
              /\ run.state = "armed" <=> run.inFlight = 0 /\ run.remaining = run.total
        /\ EndedOwesNothing
        /\ FlowIsOneInjection
        /\ NotArmedYet
        /\ InjectedAsShown
BY DEF IInv, CountersAgree, HoldersIn, Holders

LEMMA InvStep == IInv /\ [Next]_vars => IInv'
<1> SUFFICES ASSUME IInv, [Next]_vars PROVE IInv'
    OBVIOUS
<1>t. TypeOK'
    BY TypeStep
<1>0. /\ TypeOK
      /\ now \in Nat /\ run \in Run /\ request \in [Requests -> RequestState]
      /\ injected \in [RunIds -> Nat]
    BY DEF IInv, TypeOK, RequestState
<1>a. /\ run.id \in Nat /\ (run.id # 0 => run.id \in RunIds)
      /\ run.total \in Nat /\ run.remaining \in Nat /\ run.inFlight \in Nat
    BY <1>0 DEF Run, RunIds
<1>i. /\ ReservedBefore /\ EndedOwesNothing /\ FlowIsOneInjection /\ NotArmedYet
      /\ InjectedAsShown
    BY DEF IInv
<1>c. Active =>
          /\ run.inFlight = Cardinality(HoldersIn(request, run.id))
          /\ run.inFlight <= run.remaining /\ run.remaining <= run.total
          /\ run.state = "armed" <=> run.inFlight = 0 /\ run.remaining = run.total
    BY InvFacts
<1>f. IInv' <=>
        /\ TypeOK'
        /\ ReservedBefore'
        /\ Active' =>
              /\ run'.inFlight = Cardinality(HoldersIn(request', run'.id))
              /\ run'.inFlight <= run'.remaining /\ run'.remaining <= run'.total
              /\ run'.state = "armed" <=> run'.inFlight = 0 /\ run'.remaining = run'.total
        /\ EndedOwesNothing'
        /\ FlowIsOneInjection'
        /\ NotArmedYet'
        /\ InjectedAsShown'
    BY DEF IInv, CountersAgree, HoldersIn, Holders
<1> DEFINE Counted ==
        Active =>
            /\ run.inFlight = Cardinality(HoldersIn(request, run.id))
            /\ run.inFlight <= run.remaining /\ run.remaining <= run.total
            /\ run.state = "armed" <=> run.inFlight = 0 /\ run.remaining = run.total
<1>1. CASE ArmRun
  <2>1. PICK a \in Actions, n \in 1 .. MaxCount :
           /\ a.phase = "flow" => n = 1
           /\ run' = [id |-> run.id + 1, action |-> a, state |-> "armed", total |-> n,
                      remaining |-> n, inFlight |-> 0, expiresAt |-> now + Lifetime]
      BY <1>1 DEF ArmRun
  <2>2. /\ run'.id = run.id + 1 /\ run'.state = "armed" /\ run'.action = a
        /\ run'.total = n /\ run'.remaining = n /\ run'.inFlight = 0
        /\ request' = request /\ injected' = injected /\ Active'
      BY <1>1, <2>1 DEF ArmRun, Active
  <2>3. n \in Nat
      BY NumbersAssumption
  <2>4. run.id + 1 \in RunIds
      BY <1>a, <1>1, NumbersAssumption DEF ArmRun, RunIds
  <2>5. \A r \in Requests :
            request[r].phase = "reserved" => request[r].run \in Nat /\ request[r].run <= run.id
      BY <1>0, <1>i, Phases DEF ReservedBefore, RunIds
  <2>6. ReservedBefore'
      BY <1>a, <2>2, <2>5 DEF ReservedBefore
  <2>7. HoldersIn(request', run'.id) = {}
      BY <1>a, <2>2, <2>5 DEF HoldersIn
  <2>8. Counted'
      BY <2>2, <2>3, <2>7, FS_EmptySet
  <2>9. EndedOwesNothing' /\ FlowIsOneInjection'
      BY <2>1, <2>2 DEF EndedOwesNothing, FlowIsOneInjection
  <2>10. NotArmedYet'
      BY <1>a, <1>i, <2>2 DEF NotArmedYet, RunIds
  <2>11. InjectedAsShown'
      BY <1>a, <1>i, <2>2, <2>3, <2>4 DEF NotArmedYet, InjectedAsShown
  <2> QED BY <1>t, <1>f, <2>6, <2>8, <2>9, <2>10, <2>11
<1>2. CASE DisarmRun \/ ExpireRun
  <2>1. /\ run'.id = run.id /\ run'.total = run.total /\ run'.remaining = run.remaining
        /\ run'.inFlight = 0 /\ run'.state \in {"disarmed", "expired"}
        /\ request' = request /\ injected' = injected
      BY <1>0, <1>2 DEF DisarmRun, ExpireRun, Run
  <2>2. ~Active'
      BY <2>1 DEF Active
  <2> QED
      BY <1>t, <1>f, <1>i, <2>1, <2>2
      DEF ReservedBefore, EndedOwesNothing, FlowIsOneInjection, NotArmedYet, InjectedAsShown
<1>3. CASE UNCHANGED <<run, request, injected>>
    BY <1>t, <1>f, <1>i, <1>c, <1>3
    DEF Active, ReservedBefore, EndedOwesNothing, FlowIsOneInjection, NotArmedYet, InjectedAsShown
<1>4. ASSUME NEW r \in Requests, TakeArmedFaults(r) \/ TakeFlowFaults(r), UNCHANGED <<run, injected>>
      PROVE  IInv'
  <2>1. PICK q \in {Idle, Flow} : request' = [request EXCEPT ![r] = q]
      BY <1>4 DEF TakeArmedFaults, TakeFlowFaults
  <2>2. request[r].phase # "reserved" /\ q.phase # "reserved"
      BY <1>4, Phases DEF TakeArmedFaults, TakeFlowFaults
  <2>3. HoldersIn(request', run.id) = HoldersIn(request, run.id)
      BY <1>0, <2>1, <2>2 DEF HoldersIn
  <2>4. ReservedBefore'
      BY <1>0, <1>4, <1>i, <2>1, <2>2 DEF ReservedBefore
  <2>5. Counted'
      BY <1>4, <1>c, <2>3 DEF Active
  <2> QED
      BY <1>t, <1>f, <1>i, <1>4, <2>4, <2>5
      DEF Active, EndedOwesNothing, FlowIsOneInjection, NotArmedYet, InjectedAsShown
<1>5. ASSUME NEW r \in Requests, TakeFlowFaults(r), Active, run.action.phase = "flow", Unexpired
      PROVE  IInv'
  <2>1. /\ run' = [run EXCEPT !.state = "completed", !.remaining = 0]
        /\ injected' = [injected EXCEPT ![run.id] = @ + 1]
        /\ request' = [request EXCEPT ![r] = Idle]
        /\ request[r] = Flow
      BY <1>5 DEF TakeFlowFaults
  <2>2. /\ run'.id = run.id /\ run'.total = run.total /\ run'.remaining = 0
        /\ run'.inFlight = run.inFlight /\ run'.state = "completed"
      BY <1>0, <2>1 DEF Run
  <2>3. ~Active'
      BY <2>2 DEF Active
  <2>4. run.total = 1 /\ run.remaining = 1 /\ run.inFlight = 0
      BY <1>5, <1>i DEF FlowIsOneInjection
  <2>5. run.id \in RunIds
      BY <1>5, <1>a, <1>i DEF NotArmedYet
  <2>6. ReservedBefore'
      BY <1>0, <1>i, <2>1, <2>2, Phases DEF ReservedBefore
  <2>7. InjectedAsShown'
      BY <1>0, <1>i, <2>1, <2>2, <2>4, <2>5 DEF InjectedAsShown
  <2>8. NotArmedYet'
      BY <1>0, <1>a, <1>i, <2>1, <2>2, <2>3 DEF NotArmedYet
  <2> QED
      BY <1>t, <1>f, <2>2, <2>3, <2>4, <2>6, <2>7, <2>8 DEF EndedOwesNothing, FlowIsOneInjection
<1>6. ASSUME NEW r \in Requests, Reserve(r) PROVE IInv'
  <2> DEFINE q == [phase |-> "reserved", run |-> run.id, action |-> run.action]
  <2>1. /\ Active /\ run.action.phase # "flow" /\ run.remaining - run.inFlight >= 1
        /\ run' = [run EXCEPT !.state = "running", !.inFlight = @ + 1]
        /\ request' = [request EXCEPT ![r] = q]
        /\ request[r] = Idle /\ injected' = injected
      BY <1>6 DEF Reserve
  <2>2. /\ run'.id = run.id /\ run'.total = run.total /\ run'.remaining = run.remaining
        /\ run'.inFlight = run.inFlight + 1 /\ run'.state = "running"
        /\ run'.action = run.action
      BY <1>0, <2>1 DEF Run
  <2>3. Active'
      BY <2>2 DEF Active
  <2>4. q.phase = "reserved" /\ q.run = run.id /\ request[r].phase # "reserved"
      BY <2>1, Phases
  <2> HIDE DEF q
  <2>5. Cardinality(HoldersIn(request', run.id)) = Cardinality(HoldersIn(request, run.id)) + 1
    <3>1. /\ HoldersIn(request', run.id) = HoldersIn(request, run.id) \cup {r}
          /\ r \notin HoldersIn(request, run.id)
        BY <1>0, <2>1, <2>4 DEF HoldersIn
    <3> QED BY <3>1, HoldersFinite, FS_AddElement
  <2>6. Counted'
      BY <1>a, <1>c, <2>1, <2>2, <2>5
  <2>7. ReservedBefore'
      BY <1>0, <1>a, <1>i, <2>1, <2>2, <2>4 DEF ReservedBefore
  <2>8. NotArmedYet' /\ InjectedAsShown'
      BY <1>i, <2>1, <2>2, <2>3 DEF NotArmedYet, InjectedAsShown
  <2> QED
      BY <1>t, <1>f, <2>1, <2>2, <2>3, <2>6, <2>7, <2>8 DEF EndedOwesNothing, FlowIsOneInjection
<1>7. ASSUME NEW r \in Requests, Settle(r), run.id # request[r].run \/ ~Active,
             UNCHANGED <<run, injected>>
      PROVE  IInv'
  <2>1. request' = [request EXCEPT ![r] = Idle] /\ Idle.phase # "reserved"
      BY <1>7, Phases DEF Settle
  <2>2. ReservedBefore'
      BY <1>0, <1>7, <1>i, <2>1 DEF ReservedBefore
  <2>3. Counted'
    <3>1. CASE Active
      <4>1. HoldersIn(request', run.id) = HoldersIn(request, run.id)
          BY <1>0, <1>7, <3>1, <2>1 DEF HoldersIn
      <4> QED BY <1>7, <1>c, <4>1 DEF Active
    <3>2. CASE ~Active
        BY <1>7, <3>2 DEF Active
    <3> QED BY <3>1, <3>2
  <2> QED
      BY <1>t, <1>f, <1>i, <1>7, <2>2, <2>3
      DEF Active, EndedOwesNothing, FlowIsOneInjection, NotArmedYet, InjectedAsShown
\* An active run counts the reservation that is given back, so it has one.
<1>8. ASSUME NEW r \in Requests, Settle(r), run.id = request[r].run, Active
      PROVE  /\ run.inFlight >= 1 /\ run.remaining >= 1 /\ run.id \in RunIds
             /\ run.action.phase # "flow"
             /\ Cardinality(HoldersIn(request', run.id)) = run.inFlight - 1
             /\ ReservedBefore' \/ run'.id # run.id
  <2>1. request' = [request EXCEPT ![r] = Idle] /\ Idle.phase # "reserved"
        /\ request[r].phase = "reserved"
      BY <1>8, Phases DEF Settle
  <2>2. Cardinality(HoldersIn(request', run.id)) = run.inFlight - 1
    <3>1. /\ HoldersIn(request', run.id) = HoldersIn(request, run.id) \ {r}
          /\ r \in HoldersIn(request, run.id)
        BY <1>0, <1>8, <2>1 DEF HoldersIn
    <3>2. IsFiniteSet(HoldersIn(request, run.id))
        BY HoldersFinite
    <3>3. Cardinality(HoldersIn(request', run.id)) = Cardinality(HoldersIn(request, run.id)) - 1
        BY <3>1, <3>2, FS_RemoveElement
    <3> QED BY <1>8, <1>c, <3>3
  <2>3. Cardinality(HoldersIn(request', run.id)) \in Nat
      BY HoldersFinite
  <2>4. run.inFlight >= 1 /\ run.remaining >= 1
      BY <1>a, <1>c, <1>8, <2>2, <2>3
  <2>5. run.id \in RunIds
      BY <1>8, <1>a, <1>i DEF NotArmedYet
  <2>6. run.action.phase # "flow"
      BY <1>8, <1>i, <2>4 DEF FlowIsOneInjection
  <2>7. ReservedBefore' \/ run'.id # run.id
      BY <1>0, <1>i, <2>1 DEF ReservedBefore
  <2> QED BY <2>2, <2>4, <2>5, <2>6, <2>7
<1>9. ASSUME NEW r \in Requests, Complete(r), run.id = request[r].run, Active PROVE IInv'
  <2>1. Settle(r)
      BY <1>9 DEF Complete
  <2>2. /\ run.inFlight >= 1 /\ run.remaining >= 1 /\ run.id \in RunIds
        /\ run.action.phase # "flow"
        /\ Cardinality(HoldersIn(request', run.id)) = run.inFlight - 1
        /\ ReservedBefore' \/ run'.id # run.id
      BY <1>8, <1>9, <2>1
  <2>3. /\ run' = [run EXCEPT !.inFlight = @ - 1, !.remaining = @ - 1,
                       !.state = IF run.remaining = 1 /\ run.inFlight = 1
                                    THEN "completed" ELSE @]
        /\ injected' = [injected EXCEPT ![run.id] = @ + 1]
      BY <1>9, <2>2 DEF Complete
  <2>4. /\ run'.id = run.id /\ run'.total = run.total /\ run'.action = run.action
        /\ run'.remaining = run.remaining - 1 /\ run'.inFlight = run.inFlight - 1
        /\ run'.state = IF run.remaining = 1 /\ run.inFlight = 1 THEN "completed" ELSE run.state
      BY <1>0, <2>3 DEF Run
  <2>5. run.state = "running" /\ run.remaining <= run.total /\ run.inFlight <= run.remaining
      BY <1>9, <1>c, <2>2 DEF Active
  <2>6. Counted'
      BY <1>a, <2>2, <2>4, <2>5 DEF Active
  <2>7. EndedOwesNothing' /\ FlowIsOneInjection'
      BY <2>2, <2>4, <2>5 DEF EndedOwesNothing, FlowIsOneInjection, Active
  <2>8. NotArmedYet'
      BY <1>0, <1>a, <1>i, <2>2, <2>3, <2>4 DEF NotArmedYet, RunIds
  <2>9. InjectedAsShown'
      BY <1>0, <1>a, <1>i, <2>2, <2>3, <2>4 DEF InjectedAsShown
  <2> QED BY <1>t, <1>f, <2>2, <2>4, <2>6, <2>7, <2>8, <2>9
<1>10. ASSUME NEW r \in Requests, Cancel(r), run.id = request[r].run, Active PROVE IInv'
  <2>1. Settle(r) /\ injected' = injected
      BY <1>10 DEF Cancel
  <2>2. /\ run.inFlight >= 1 /\ run.remaining >= 1 /\ run.id \in RunIds
        /\ run.action.phase # "flow"
        /\ Cardinality(HoldersIn(request', run.id)) = run.inFlight - 1
        /\ ReservedBefore' \/ run'.id # run.id
      BY <1>8, <1>10, <2>1
  <2>3. run' = [run EXCEPT !.inFlight = @ - 1,
                   !.state = IF run.remaining = run.total /\ run.inFlight = 1
                                THEN "armed" ELSE @]
      BY <1>10, <2>2 DEF Cancel
  <2>4. /\ run'.id = run.id /\ run'.total = run.total /\ run'.action = run.action
        /\ run'.remaining = run.remaining /\ run'.inFlight = run.inFlight - 1
        /\ run'.state = IF run.remaining = run.total /\ run.inFlight = 1 THEN "armed" ELSE run.state
      BY <1>0, <2>3 DEF Run
  <2>5. run.state = "running" /\ run.remaining <= run.total /\ run.inFlight <= run.remaining
      BY <1>10, <1>c, <2>2 DEF Active
  <2>6. Counted' /\ Active'
      BY <1>a, <2>2, <2>4, <2>5 DEF Active
  <2>7. NotArmedYet' /\ InjectedAsShown'
      BY <1>i, <2>1, <2>2, <2>4, <2>6 DEF NotArmedYet, InjectedAsShown, RunIds
  <2> QED
      BY <1>t, <1>f, <2>2, <2>4, <2>6, <2>7 DEF EndedOwesNothing, FlowIsOneInjection
\* No other step settles a run: one that is not active owes nothing.
<1>11. ASSUME NEW r \in Requests, Complete(r) \/ Cancel(r), run.id # request[r].run \/ ~Active
       PROVE  Settle(r) /\ UNCHANGED <<run, injected>>
    BY <1>11, <1>i DEF Complete, Cancel, EndedOwesNothing
<1>12. ASSUME NEW r \in Requests, TakeArmedFaults(r) PROVE UNCHANGED <<run, injected>>
    BY <1>12 DEF TakeArmedFaults
<1>13. ASSUME NEW r \in Requests, TakeFlowFaults(r),
              ~(Active /\ run.action.phase = "flow" /\ Unexpired)
       PROVE  UNCHANGED <<run, injected>>
    BY <1>13 DEF TakeFlowFaults
<1>14. ASSUME \/ DisarmAfterArming \/ ArmFaults \/ DisarmFaults \/ TakeLogoutFaults \/ Tick
              \/ UNCHANGED vars
       PROVE  UNCHANGED <<run, request, injected>>
    BY <1>14 DEF DisarmAfterArming, ArmFaults, DisarmFaults, TakeLogoutFaults, Tick, vars
<1> QED
    BY <1>1, <1>2, <1>3, <1>4, <1>5, <1>6, <1>7, <1>9, <1>10, <1>11, <1>12, <1>13, <1>14 DEF Next

-----------------------------------------------------------------------------
(* The theorems. *)

\* The invariant holds of every reachable state.
THEOREM Invariant == Spec => []IInv
<1>1. IInv /\ [Next]_vars => IInv'
    BY InvStep
<1> QED BY InvInit, <1>1, PTL DEF Spec

\* The state stays well typed: no counter of a scenario ever drops below zero.
THEOREM TypeCorrect == Spec => []TypeOK
<1>1. IInv => TypeOK
    BY DEF IInv
<1> QED BY Invariant, <1>1, PTL

\* The counters of an active scenario tell what is under way, for any number of
\* requests and scenarios.
THEOREM CountersTellTheTruth == Spec => []CountersAgree
<1>1. IInv => CountersAgree
    BY DEF IInv
<1> QED BY Invariant, <1>1, PTL

\* The progress a scenario shows is what it delivered.
THEOREM ProgressIsDelivery == Spec => []InjectedAsShown
<1>1. IInv => InjectedAsShown
    BY DEF IInv
<1> QED BY Invariant, <1>1, PTL

\* Neither a late completion nor a late cancellation revives an ended run.
THEOREM EndIsFinal == Spec => EndedRunStaysEnded
<1>1. ASSUME IInv, [Next]_vars, ~Active, run'.id = run.id PROVE run' = run
  <2>1. run.inFlight = 0 /\ run.id \in Nat
      BY <1>1 DEF IInv, EndedOwesNothing, TypeOK, Run, RunIds
  <2>2. CASE ArmRun
    <3>1. run'.id = run.id + 1
        BY <2>2 DEF ArmRun
    <3> QED BY <1>1, <2>1, <3>1
  <2>3. CASE DisarmAfterArming \/ DisarmRun \/ ExpireRun \/ ArmFaults \/ DisarmFaults
             \/ TakeLogoutFaults \/ Tick \/ UNCHANGED vars
      BY <1>1, <2>3 DEF DisarmAfterArming, DisarmRun, ExpireRun, ArmFaults, DisarmFaults,
                        TakeLogoutFaults, Tick, vars
  <2>4. ASSUME NEW r \in Requests, TakeArmedFaults(r) \/ TakeFlowFaults(r) \/ Reserve(r)
        PROVE  run' = run
      BY <1>1, <2>4 DEF TakeArmedFaults, TakeFlowFaults, Reserve
  <2>5. ASSUME NEW r \in Requests, Complete(r) \/ Cancel(r) PROVE run' = run
      BY <1>1, <2>1, <2>5 DEF Complete, Cancel
  <2> QED BY <1>1, <2>2, <2>3, <2>4, <2>5 DEF Next
<1>2. IInv /\ [Next]_vars => [~Active /\ run'.id = run.id => run' = run]_vars
    BY <1>1
<1> QED BY Invariant, <1>2, PTL DEF Spec, EndedRunStaysEnded

\* An injection counts for the active scenario that reserved it.
THEOREM InjectionsAreCurrent == Spec => OnlyActiveRunInjects
<1>1. ASSUME IInv, [Next]_vars
      PROVE  \A i \in RunIds : injected'[i] # injected[i] => i = run.id /\ Active
  <2>0. injected \in [RunIds -> Nat]
      BY <1>1 DEF IInv, TypeOK
  <2>1. CASE \/ ArmRun \/ DisarmAfterArming \/ DisarmRun \/ ExpireRun \/ ArmFaults
             \/ DisarmFaults \/ TakeLogoutFaults \/ Tick \/ UNCHANGED vars
      BY <2>1 DEF ArmRun, DisarmAfterArming, DisarmRun, ExpireRun, ArmFaults, DisarmFaults,
                  TakeLogoutFaults, Tick, vars
  <2>2. ASSUME NEW r \in Requests, TakeArmedFaults(r) \/ Reserve(r) \/ Cancel(r)
        PROVE  injected' = injected
      BY <2>2 DEF TakeArmedFaults, Reserve, Cancel
  <2>3. ASSUME NEW r \in Requests, TakeFlowFaults(r) \/ Complete(r)
        PROVE  \/ injected' = injected
               \/ Active /\ injected' = [injected EXCEPT ![run.id] = @ + 1]
      BY <2>3 DEF TakeFlowFaults, Complete
  <2> QED BY <1>1, <2>0, <2>1, <2>2, <2>3 DEF Next
<1>2. IInv /\ [Next]_vars =>
        [\A i \in RunIds : injected'[i] # injected[i] => i = run.id /\ Active]_vars
    BY <1>1
<1> QED BY Invariant, <1>2, PTL DEF Spec, OnlyActiveRunInjects
=============================================================================
