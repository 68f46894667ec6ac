--------------------------- MODULE FaultScenarios ---------------------------
(***************************************************************************)
(* Fault injection for one environment (internal/web/resilience.go and     *)
(* fault.go): the scenario that fails a number of requests and disarms     *)
(* itself, the quick faults armed for the next flow, and the requests that *)
(* reserve an injection, deliver it and then settle the counters.          *)
(*                                                                         *)
(* resilienceMu guards the scenario and faultMu the quick faults, each for *)
(* one call; the calls of one request are separate actions.                *)
(***************************************************************************)
EXTENDS Integers, FiniteSets

CONSTANTS Requests,
          Lifetime,   \* resilienceRunLifetime, in ticks
          MaxCount,   \* the largest failure count, 20
          MaxTime,    \* bound: the clock stops here
          MaxRuns     \* bound: so many scenarios are armed

ASSUME RequestsAssumption == IsFiniteSet(Requests)
ASSUME NumbersAssumption ==
    Lifetime \in Nat /\ MaxCount \in Nat /\ MaxTime \in Nat /\ MaxRuns \in Nat

VARIABLES
    now,        \* time.Now
    run,        \* resilienceRuns[slug]
    armed,      \* armedFaults[slug], by what takes them
    arming,     \* scenarios whose handler has yet to disarm the quick faults
    request,    \* what each request in progress holds
    injected    \* history: the injections each scenario delivered

vars == <<now, run, armed, arming, request, injected>>

RunIds == 1 .. MaxRuns
Kinds == {"sign-in", "logout"}

\* An action with a delay is one that releases oidcMu; a phase is the kind of
\* request it applies to.
Actions == {[phase |-> "flow",  delay |-> FALSE], [phase |-> "token", delay |-> FALSE],
            [phase |-> "token", delay |-> TRUE],  [phase |-> "jwks",  delay |-> FALSE]}

\* id 0 is the absent run.
Run == [id : RunIds \union {0}, action : Actions,
        state : {"armed", "running", "completed", "disarmed", "expired"},
        total : Nat, remaining : Nat, inFlight : Nat, expiresAt : Nat]

Idle == [phase |-> "idle"]
Flow == [phase |-> "flow"]
Reserved == [phase : {"reserved"}, run : RunIds, action : Actions]

TypeOK ==
    /\ now \in Nat
    /\ run \in Run
    /\ armed \subseteq Kinds
    /\ arming \subseteq RunIds
    /\ request \in [Requests -> {Idle, Flow} \union Reserved]
    /\ injected \in [RunIds -> Nat]

Init ==
    /\ now = 0
    /\ run = [id |-> 0, action |-> [phase |-> "flow", delay |-> FALSE], state |-> "disarmed",
              total |-> 0, remaining |-> 0, inFlight |-> 0, expiresAt |-> 0]
    /\ armed = {} /\ arming = {}
    /\ request = [r \in Requests |-> Idle]
    /\ injected = [i \in RunIds |-> 0]

Active == run.state \in {"armed", "running"}
Unexpired == now < run.expiresAt

-----------------------------------------------------------------------------
(* The dashboard and the API. *)

\* armResilienceRun; only presets that allow a count take one.
ArmRun ==
    /\ ~(Active /\ Unexpired)
    /\ run.id < MaxRuns
    /\ \E a \in Actions, n \in 1 .. MaxCount :
          /\ a.phase = "flow" \/ a.delay => n = 1
          /\ run' = [id |-> run.id + 1, action |-> a, state |-> "armed", total |-> n,
                     remaining |-> n, inFlight |-> 0, expiresAt |-> now + Lifetime]
    /\ arming' = arming \union {run.id + 1}
    /\ UNCHANGED <<now, armed, request, injected>>

\* The rest of handleResilienceArm and of handleAPIScenarioArm.
DisarmAfterArming ==
    /\ \E i \in arming : arming' = arming \ {i}
    /\ armed' = {}
    /\ UNCHANGED <<now, run, request, injected>>

\* Seeded defect: the reservations of the run are kept.
DisarmKeepingInFlight ==
    /\ Active
    /\ run' = [run EXCEPT !.state = "disarmed"]
    /\ UNCHANGED <<now, armed, arming, request, injected>>

DisarmRun ==
    /\ Active
    /\ run' = [run EXCEPT !.state = "disarmed", !.inFlight = 0]
    /\ UNCHANGED <<now, armed, arming, request, injected>>

\* resilienceRun, for every page that shows the scenario.
ExpireRun ==
    /\ Active /\ ~Unexpired
    /\ run' = [run EXCEPT !.state = "expired", !.inFlight = 0]
    /\ UNCHANGED <<now, armed, arming, request, injected>>

\* handleFaultArm and handleAPIFaultPut, which the API accepts empty.
ArmFaults ==
    /\ armed' \in SUBSET Kinds
    /\ UNCHANGED <<now, run, arming, request, injected>>

DisarmFaults ==
    /\ armed' = {}
    /\ UNCHANGED <<now, run, arming, request, injected>>

-----------------------------------------------------------------------------
(* Requests. *)

\* flowFaults: a quick fault if one is armed ...
TakeArmedFaults(r) ==
    /\ request[r] = Idle
    /\ armed' = armed \ {"sign-in"}
    /\ request' = [request EXCEPT ![r] = IF "sign-in" \in armed THEN Idle ELSE Flow]
    /\ UNCHANGED <<now, run, arming, injected>>

\* ... otherwise the scenario, with its own mutex.
TakeFlowFaults(r) ==
    /\ request[r] = Flow
    /\ request' = [request EXCEPT ![r] = Idle]
    /\ IF Active /\ run.action.phase = "flow" /\ Unexpired
          THEN /\ run' = [run EXCEPT !.state = "completed", !.remaining = 0]
               /\ injected' = [injected EXCEPT ![run.id] = @ + 1]
          ELSE UNCHANGED <<run, injected>>
    /\ UNCHANGED <<now, armed, arming>>

\* takeArmedLogoutFaults.
TakeLogoutFaults ==
    /\ armed' = armed \ {"logout"}
    /\ UNCHANGED <<now, run, arming, request, injected>>

\* A token request holds oidcMu from its reservation to its end, except while
\* it waits for a delay.
OidcMuHeld ==
    \E r \in Requests : /\ request[r].phase = "reserved"
                        /\ request[r].action = [phase |-> "token", delay |-> FALSE]

\* reserveResilienceEndpointAction; without a reservation nothing changes.
Reserve(r) ==
    /\ request[r] = Idle
    /\ Active /\ Unexpired
    /\ run.action.phase \in {"token", "jwks"}
    /\ run.action.phase = "token" => ~OidcMuHeld
    /\ run.remaining - run.inFlight >= 1
    /\ run' = [run EXCEPT !.state = "running", !.inFlight = @ + 1]
    /\ request' = [request EXCEPT ![r] =
            [phase |-> "reserved", run |-> run.id, action |-> run.action]]
    /\ UNCHANGED <<now, armed, arming, injected>>

Settle(r) ==
    /\ request[r].phase = "reserved"
    /\ request[r].action.delay => ~OidcMuHeld
    /\ request' = [request EXCEPT ![r] = Idle]
    /\ UNCHANGED <<now, armed, arming>>

\* completeResilienceEndpointAction.
Complete(r) ==
    /\ Settle(r)
    /\ IF Active /\ run.id = request[r].run /\ run.inFlight >= 1 /\ run.remaining >= 1
          THEN /\ run' = [run EXCEPT !.inFlight = @ - 1, !.remaining = @ - 1,
                             !.state = IF run.remaining = 1 /\ run.inFlight = 1
                                          THEN "completed" ELSE @]
               /\ injected' = [injected EXCEPT ![request[r].run] = @ + 1]
          ELSE UNCHANGED <<run, injected>>

\* Seeded defect: the run a reservation belongs to is not compared.
CancelAnyRun(r) ==
    /\ request[r].phase = "reserved" /\ request[r].action.delay
    /\ Settle(r)
    /\ IF run.inFlight >= 1
          THEN run' = [run EXCEPT !.inFlight = @ - 1,
                          !.state = IF run.remaining = run.total /\ run.inFlight = 1
                                       THEN "armed" ELSE @]
          ELSE UNCHANGED run
    /\ UNCHANGED injected

\* Seeded defect: the reservations are not counted before one is given back.
CancelUnreserved(r) ==
    /\ request[r].phase = "reserved" /\ request[r].action.delay
    /\ Settle(r)
    /\ IF run.id = request[r].run
          THEN run' = [run EXCEPT !.inFlight = @ - 1,
                          !.state = IF run.remaining = run.total /\ run.inFlight = 1
                                       THEN "armed" ELSE @]
          ELSE UNCHANGED run
    /\ UNCHANGED injected

\* cancelResilienceEndpointAction: the client left during the delay.  The
\* code does not ask whether the run is still active.
Cancel(r) ==
    /\ request[r].phase = "reserved" /\ request[r].action.delay
    /\ Settle(r)
    /\ IF run.id = request[r].run /\ run.inFlight >= 1
          THEN run' = [run EXCEPT !.inFlight = @ - 1,
                          !.state = IF run.remaining = run.total /\ run.inFlight = 1
                                       THEN "armed" ELSE @]
          ELSE UNCHANGED run
    /\ UNCHANGED injected

Tick ==
    /\ now < MaxTime
    /\ now' = now + 1
    /\ UNCHANGED <<run, armed, arming, request, injected>>

Next ==
    \/ ArmRun
    \/ DisarmAfterArming
    \/ DisarmRun
    \/ ExpireRun
    \/ ArmFaults
    \/ DisarmFaults
    \/ \E r \in Requests :
          \/ TakeArmedFaults(r)
          \/ TakeFlowFaults(r)
          \/ Reserve(r)
          \/ Complete(r)
          \/ Cancel(r)
    \/ TakeLogoutFaults
    \/ Tick

Spec == Init /\ [][Next]_vars

-----------------------------------------------------------------------------
(* Properties. *)

Holders(id) == {r \in Requests : request[r].phase = "reserved" /\ request[r].run = id}

\* The counters of an active scenario tell the requests that hold one of its
\* injections, never promise more than it has left, and it counts as armed as
\* long as nothing of it was delivered or is under way.  Reservations of a
\* scenario that was disarmed or replaced during a delay do not disturb them.
CountersAgree ==
    Active =>
        /\ run.inFlight = Cardinality(Holders(run.id))
        /\ run.inFlight <= run.remaining /\ run.remaining <= run.total
        /\ run.state = "armed" <=> run.inFlight = 0 /\ run.remaining = run.total

\* "n of m injections applied": the progress a scenario shows is the number of
\* injections it delivered, also when it was disarmed or expired with some of
\* them under way.
InjectedAsShown ==
    run.id \in RunIds => injected[run.id] = run.total - run.remaining

\* A scenario that completed, expired or was disarmed never comes back and its
\* record never changes, although cancelResilienceEndpointAction may re-arm a
\* run and does not ask whether it is active.
EndedRunStaysEnded ==
    [][~Active /\ run'.id = run.id => run' = run]_vars

\* An injection counts for the scenario that reserved it, and only while that
\* one is active.
OnlyActiveRunInjects ==
    [][\A i \in RunIds : injected'[i] # injected[i] => i = run.id /\ Active]_vars
=============================================================================
