----------------------------- MODULE MCProgress -----------------------------
(***************************************************************************)
(* The components with liveness properties, for TLC, side by side: the     *)
(* OIDC token endpoint, the lifecycle runs and the forwarding of one       *)
(* tunnel. `running` says in the initial state which of them runs; the     *)
(* lifecycle runs and the forwarding use the variables y1 .. y14. Fairness *)
(* is each module's, of the component that runs.                           *)
(***************************************************************************)
EXTENDS OIDCTokens

CONSTANTS Streams, NewUser, None

VARIABLES running, y1, y2, y3, y4, y5, y6, y7, y8, y9, y10, y11, y12, y13, y14

\* Every client asks for offline_access.
OfflineOnly == {{Offline}}

Lifecycle == INSTANCE LifecycleRuns WITH
    NoJob <- None, NoIssue <- None, MaxRuns <- 1, MaxStarted <- 1,
    settings <- y1, runs <- y2, pushing <- y3, job <- y4, tokenSent <- y5, member <- y6,
    issuing <- y7, started <- y8, succeeded <- y9

Forwarded == INSTANCE Forwarding WITH
    Requests <- Streams, NoMessage <- None, ServerSlots <- 2, ClientSlots <- 1, SendSize <- 1,
    public <- y1, respCh <- y2, pending <- y3, server <- y4, sendS <- y5, writerS <- y6,
    open <- y7, down <- y8, up <- y9, client <- y10, blockedOn <- y11, handler <- y12,
    sendC <- y13, writerC <- y14

state == <<y1, y2, y3, y4, y5, y6, y7, y8, y9, y10, y11, y12, y13, y14>>
allVars == <<running, vars, state>>

NoneFrom10 == y10 = None /\ y11 = None /\ y12 = None /\ y13 = None /\ y14 = None
NoneFrom1 ==
    /\ y1 = None /\ y2 = None /\ y3 = None /\ y4 = None /\ y5 = None
    /\ y6 = None /\ y7 = None /\ y8 = None /\ y9 = None /\ NoneFrom10

AllInit ==
    /\ Init
    /\ \/ running = "tokens" /\ NoneFrom1
       \/ running = "lifecycle" /\ Lifecycle!Init /\ y1 = [scim |-> TRUE, idp |-> TRUE] /\ NoneFrom10
       \/ running = "forwarding" /\ Forwarded!Init

AllNext ==
    /\ running' = running
    /\ \/ running = "tokens" /\ Next /\ UNCHANGED state
       \/ /\ running = "lifecycle" /\ Lifecycle!Next
          /\ UNCHANGED <<vars, y10, y11, y12, y13, y14>>
       \/ running = "forwarding" /\ Forwarded!Next /\ UNCHANGED vars

TokensFairness ==
    \A r \in Requests :
        /\ WF_allVars(running = "tokens" /\ (Issue(r) \/ FailToIssue(r)) /\ UNCHANGED <<running, state>>)
        /\ SF_allVars(/\ running = "tokens" /\ UNCHANGED <<running, state>>
                      /\ EndCodeDelay(r) \/ EndRefreshDelay(r) \/ EndClientDelay(r))

LifecycleFairness ==
    LET others == <<running, vars, y1, y10, y11, y12, y13, y14>>
    IN  /\ \A id \in Lifecycle!RunIds :
              /\ WF_allVars(running = "lifecycle" /\ Lifecycle!PushStep(id) /\ UNCHANGED others)
              /\ WF_allVars(/\ running = "lifecycle"
                            /\ \E o \in Lifecycle!Outcome : Lifecycle!SendLogoutToken(id, o)
                            /\ UNCHANGED others)
        /\ WF_allVars(/\ running = "lifecycle"
                      /\ \E success \in BOOLEAN : Lifecycle!FinishSyncJob(success)
                      /\ UNCHANGED others)
        /\ WF_allVars(running = "lifecycle" /\ Lifecycle!View /\ UNCHANGED others)

ForwardingFairness ==
    LET Run(A) == running = "forwarding" /\ A /\ UNCHANGED <<running, vars>>
    IN  /\ WF_allVars(Run(Forwarded!ServerStep)) /\ WF_allVars(Run(Forwarded!ServerWrite))
        /\ WF_allVars(Run(Forwarded!ClientStep)) /\ WF_allVars(Run(Forwarded!ClientWrite))
        /\ \A r \in Streams :
              /\ SF_allVars(Run(Forwarded!Send(r))) /\ WF_allVars(Run(Forwarded!Answer(r)))
              /\ WF_allVars(Run(Forwarded!AnswerLocally(r)))
              /\ SF_allVars(Run(Forwarded!SendResponse(r)))

AllSpec ==
    /\ AllInit /\ [][AllNext]_allVars
    /\ TokensFairness /\ LifecycleFairness /\ ForwardingFairness

-----------------------------------------------------------------------------
(* The properties are those of the modules, of the component that runs. *)

\* No lifecycle run stays running (lifecycle.go).
Unsettled(id) == running = "lifecycle" /\ Lifecycle!Unsettled(id)
RunsSettle == \A id \in Lifecycle!RunIds : Unsettled(id) ~> ~Unsettled(id)

\* A request that was admitted to a tunnel ends without its timeout (server.go).
InProgress(r) == running = "forwarding" /\ r \in Forwarded!InProgress
Ended(r) == running = "forwarding" /\ Forwarded!Ended(r)
RequestsEnd == \A r \in Streams : InProgress(r) ~> Ended(r)

\* A tunnel client that lost its connection dials again (client.go).
Lost == running = "forwarding" /\ ~y7
Redialled == running = "forwarding" /\ Forwarded!Redialled
LostIsRedialled == Lost ~> Redialled
=============================================================================
