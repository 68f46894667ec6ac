--------------------------- MODULE TunnelRegistry ---------------------------
(***************************************************************************)
(* The tunnel server's registry (internal/server): the connection handlers *)
(* that authenticate an installation, choose its name and register its     *)
(* tunnel, the remembered instances of the store, what the dashboard does  *)
(* to both, and the client that reconnects (internal/client).              *)
(*                                                                         *)
(* The model follows one application profile.  s.mu guards the tunnels and *)
(* store.mu the instances, each for one call, so a registration is a chain *)
(* of actions; profileMu is read-locked from LookUp to Remember.           *)
(***************************************************************************)
EXTENDS Integers, FiniteSets

CONSTANTS Instances,    \* installations
          Legacy,       \* those that predate installation keys
          Conns,        \* connections, each with its handleConnect
          Names,        \* what randomID may return
          NoName, NoConn,
          MaxTunnels,   \* MaxTunnelsPerApplication
          MaxInstances, \* applicationInstancesMax
          MaxIdle,      \* applicationInstanceMaxIdle, in ticks
          MaxTime,      \* bound: the clock stops here
          MaxVersion    \* bound: so many updates of the profile

ASSUME LegacyAssumption == Legacy \subseteq Instances
ASSUME NullsAssumption == NoName \notin Names /\ NoConn \notin Conns
ASSUME LimitsAssumption ==
    /\ MaxTunnels \in Nat /\ MaxInstances \in Nat /\ MaxIdle \in Nat
    /\ MaxTime \in Nat /\ MaxVersion \in Nat

VARIABLES
    now,          \* time.Now, in ticks of weeks
    profile,      \* the stored profile, without its instances
    instances,    \* the profile's Instances, as a set of records
    updating,     \* profileMu is locked and the tunnels are not yet closed
    revoking,     \* revocations that were saved and have not disconnected yet
    tunnels,      \* Server.tunnels, as a set of records
    open,         \* connections the server did not close
    handler,      \* where each handleConnect stands
    client,       \* the client of each installation
    released      \* history: instances an administrator unreserved

vars == <<now, profile, instances, updating, revoking, tunnels, open, handler, client, released>>
admin == <<updating, revoking>>

\* rotated: the profile's key is not the one the legacy clients hold.
Profile == [version : Nat, deleted : BOOLEAN, rotated : BOOLEAN]
Instance == [id : Instances, name : Names \union {NoName}, used : Nat, revoked : BOOLEAN]
Tunnel == [conn : Conns, instance : Instances, name : Names, version : Nat]

Idle == [phase |-> "idle"]
Handling == [phase : {"challenged", "authenticated", "locked", "named", "registered",
                      "serving", "stopping"},
             instance : Instances, name : Names \union {NoName}, version : Nat]

Reasons == {"none", "profile", "handshake", "revoked", "enrollment", "active tunnel",
            "no name", "limit", "path"}
Client == [phase : {"down", "connecting", "connected", "stopped"},
           conn : Conns \union {NoConn}, why : Reasons]
Down == [phase |-> "down", conn |-> NoConn, why |-> "none"]

TypeOK ==
    /\ now \in Nat
    /\ profile \in Profile
    /\ instances \subseteq Instance
    /\ updating \in BOOLEAN
    /\ revoking \subseteq Instances
    /\ tunnels \subseteq Tunnel
    /\ open \subseteq Conns
    /\ handler \in [Conns -> {Idle} \union Handling]
    /\ client \in [Instances -> Client]
    /\ released \subseteq Instances

\* The legacy installations are in the data file with the names they had.
Init ==
    /\ now = 0
    /\ profile = [version |-> 0, deleted |-> FALSE, rotated |-> FALSE]
    /\ \E name \in [Legacy -> Names] :
          /\ \A k, l \in Legacy : name[k] = name[l] => k = l
          /\ instances = {[id |-> l, name |-> name[l], used |-> 0, revoked |-> FALSE] : l \in Legacy}
    /\ updating = FALSE /\ revoking = {}
    /\ tunnels = {} /\ open = {}
    /\ handler = [c \in Conns |-> Idle]
    /\ client = [i \in Instances |-> Down]
    /\ released = {}

-----------------------------------------------------------------------------
(* The store. *)

Record(i) == {x \in instances : x.id = i}
Stored(i) == Record(i) # {}
Reserved(n) == \E x \in instances : x.name = n

PastIdle(x) == ~x.revoked /\ now - x.used > MaxIdle

\* EnrollApplicationInstance and rememberApplicationTunnel drop every other
\* idle instance, connected or not, enrolled or legacy.
WithoutIdle(i) == {x \in instances : x.id = i \/ ~PastIdle(x)}

-----------------------------------------------------------------------------
(* Connecting.  A close with ClosePolicyViolation stops the client for     *)
(* good, every other failure has it reconnect after a backoff; a client    *)
(* that has left the connection sees neither.                              *)

Refuse(c, why) ==
    /\ handler' = [handler EXCEPT ![c] = Idle]
    /\ client' = [i \in Instances |->
          IF client[i].conn = c THEN [phase |-> "stopped", conn |-> NoConn, why |-> why]
                                ELSE client[i]]

Drop(c) ==
    /\ handler' = [handler EXCEPT ![c] = Idle]
    /\ client' = [i \in Instances |-> IF client[i].conn = c THEN Down ELSE client[i]]

Advance(c, phase) ==
    /\ handler' = [handler EXCEPT ![c].phase = phase]
    /\ UNCHANGED client

\* authenticateApplicationRegistration before the challenge.
Connect(i, c) ==
    /\ client[i] = Down
    /\ handler[c] = Idle /\ \A j \in Instances : client[j].conn # c
    /\ \/ /\ profile.deleted \/ (i \in Legacy /\ (~Stored(i) \/ profile.rotated))
          /\ client' = [client EXCEPT ![i] = [Down EXCEPT !.phase = "stopped", !.why = "profile"]]
          /\ UNCHANGED <<handler, open>>
       \/ /\ ~profile.deleted
          /\ i \in Legacy => Stored(i) /\ ~profile.rotated
          /\ client' = [client EXCEPT ![i] = [Down EXCEPT !.phase = "connecting", !.conn = c]]
          /\ handler' = [handler EXCEPT ![c] =
                [phase |-> "challenged", instance |-> i, name |-> NoName, version |-> 0]]
          /\ open' = open \union {c}
    /\ UNCHANGED <<now, profile, instances, admin, tunnels, released>>

\* No signature before the registration deadline, or a broken connection, which
\* the server answers with ClosePolicyViolation all the same.
FailHandshake(c) ==
    /\ handler[c].phase = "challenged"
    /\ Drop(c) \/ Refuse(c, "handshake")
    /\ UNCHANGED <<now, profile, instances, admin, tunnels, open, released>>

\* verifyEnrolledRegistration after the signature; an unknown installation
\* presents an approved grant or is sent to the authorization page.
Enroll(i) ==
    /\ ~profile.deleted
    /\ Cardinality(WithoutIdle(i)) < MaxInstances
    /\ instances' = WithoutIdle(i) \union
          {[id |-> i, name |-> NoName, used |-> now, revoked |-> FALSE]}

Authenticate(c) ==
    LET i == handler[c].instance
    IN /\ handler[c].phase = "challenged"
       /\ \/ /\ i \in Legacy \/ \E x \in Record(i) : ~x.revoked
             /\ Advance(c, "authenticated")
             /\ UNCHANGED instances
          \/ /\ i \notin Legacy /\ \E x \in Record(i) : x.revoked
             /\ Refuse(c, "revoked")
             /\ UNCHANGED instances
          \/ /\ i \notin Legacy /\ ~Stored(i)
             /\ \/ Enroll(i) /\ Advance(c, "authenticated")
                \/ (Drop(c) \/ Refuse(c, "enrollment")) /\ UNCHANGED instances
       /\ UNCHANGED <<now, profile, admin, tunnels, open, released>>

ActiveTunnel(i) == \E t \in tunnels : t.instance = i
PathTaken(n) == \E t \in tunnels : t.name = n

\* handleConnect takes profileMu for reading and reads the profile again;
\* chooseApplicationID looks for a tunnel and the remembered name.
LookUp(c) ==
    LET i == handler[c].instance
    IN /\ handler[c].phase = "authenticated"
       /\ ~updating
       /\ IF profile.deleted \/ (i \in Legacy /\ profile.rotated) THEN Refuse(c, "profile")
          ELSE IF ActiveTunnel(i) THEN Refuse(c, "active tunnel")
          ELSE /\ \E n \in Names \union {NoName} :
                     /\ IF Stored(i) THEN \E x \in Record(i) : x.name = n ELSE n = NoName
                     /\ handler' = [handler EXCEPT
                           ![c] = [phase |-> "locked", instance |-> i, name |-> n,
                                   version |-> profile.version]]
               /\ UNCHANGED client
       /\ UNCHANGED <<now, profile, instances, admin, tunnels, open, released>>

\* The rest of chooseApplicationID and chooseID.
ChooseName(c) ==
    LET remembered == handler[c].name
        usable == remembered # NoName /\ ~PathTaken(remembered)
    IN /\ handler[c].phase = "locked"
       /\ \/ usable /\ Advance(c, "named")
          \/ /\ ~usable
             /\ \/ \E n \in Names :
                      /\ ~PathTaken(n) /\ ~Reserved(n)
                      /\ handler' = [handler EXCEPT ![c].phase = "named", ![c].name = n]
                      /\ UNCHANGED client
                \/ (\E n \in Names : PathTaken(n) \/ Reserved(n)) /\ Refuse(c, "no name")
       /\ UNCHANGED <<now, profile, instances, admin, tunnels, open, released>>

\* Seeded defect: only chooseApplicationID looks for a tunnel of the instance.
RegisterSecond(c) ==
    LET q == handler[c]
    IN /\ q.phase = "named"
       /\ IF Cardinality(tunnels) >= MaxTunnels
             THEN Refuse(c, "limit") /\ UNCHANGED tunnels
          ELSE IF PathTaken(q.name)
             THEN Refuse(c, "path") /\ UNCHANGED tunnels
          ELSE /\ tunnels' = tunnels \union
                     {[conn |-> c, instance |-> q.instance, name |-> q.name,
                       version |-> q.version]}
               /\ Advance(c, "registered")
       /\ UNCHANGED <<now, profile, instances, admin, open, released>>

\* Seeded defect: the path is not looked up, so the map entry is overwritten.
RegisterOverwriting(c) ==
    LET q == handler[c]
    IN /\ q.phase = "named"
       /\ IF ActiveTunnel(q.instance)
             THEN Refuse(c, "active tunnel") /\ UNCHANGED tunnels
          ELSE IF Cardinality(tunnels) >= MaxTunnels
             THEN Refuse(c, "limit") /\ UNCHANGED tunnels
          ELSE /\ tunnels' = {t \in tunnels : t.name # q.name} \union
                     {[conn |-> c, instance |-> q.instance, name |-> q.name,
                       version |-> q.version]}
               /\ Advance(c, "registered")
       /\ UNCHANGED <<now, profile, instances, admin, open, released>>

\* registerTunnel.
Register(c) ==
    LET q == handler[c]
    IN /\ q.phase = "named"
       /\ IF ActiveTunnel(q.instance)
             THEN Refuse(c, "active tunnel") /\ UNCHANGED tunnels
          ELSE IF Cardinality(tunnels) >= MaxTunnels
             THEN Refuse(c, "limit") /\ UNCHANGED tunnels
          ELSE IF PathTaken(q.name)
             THEN Refuse(c, "path") /\ UNCHANGED tunnels
          ELSE /\ tunnels' = tunnels \union
                     {[conn |-> c, instance |-> q.instance, name |-> q.name,
                       version |-> q.version]}
               /\ Advance(c, "registered")
       /\ UNCHANGED <<now, profile, instances, admin, open, released>>

\* unregisterTunnel deletes whatever the path leads to.
WithoutPath(c) == {t \in tunnels : t.name # handler[c].name}

Serve(c) ==
    /\ handler' = [handler EXCEPT ![c].phase = "serving"]
    /\ client' = [i \in Instances |->
          IF client[i].conn = c THEN [client[i] EXCEPT !.phase = "connected"] ELSE client[i]]

\* Seeded defect: the reservation does not ask whether the instance is revoked.
RememberRevoked(c) ==
    LET q == handler[c]
    IN /\ q.phase = "registered"
       /\ \/ /\ \E x \in Record(q.instance) :
                   instances' = (WithoutIdle(q.instance) \ {x}) \union
                       {[x EXCEPT !.name = q.name, !.used = now]}
             /\ Serve(c)
             /\ UNCHANGED tunnels
          \/ /\ tunnels' = WithoutPath(c)
             /\ Drop(c)
             /\ UNCHANGED instances
       /\ UNCHANGED <<now, profile, admin, open, released>>

\* Seeded defect: a name that is remembered already is not replaced.
RememberFirstName(c) ==
    LET q == handler[c]
    IN /\ q.phase = "registered"
       /\ \/ /\ \E x \in Record(q.instance) :
                   /\ ~x.revoked
                   /\ instances' = (WithoutIdle(q.instance) \ {x}) \union
                         {[x EXCEPT !.name = IF @ = NoName THEN q.name ELSE @, !.used = now]}
             /\ Serve(c)
             /\ UNCHANGED tunnels
          \/ /\ tunnels' = WithoutPath(c)
             /\ Drop(c)
             /\ UNCHANGED instances
       /\ UNCHANGED <<now, profile, admin, open, released>>

\* RememberAuthenticatedApplicationTunnel, then profileMu is unlocked; a
\* failure (the instance is gone or revoked, or the file cannot be saved)
\* unregisters the tunnel.
Remember(c) ==
    LET q == handler[c]
    IN /\ q.phase = "registered"
       /\ \/ /\ \E x \in Record(q.instance) :
                   /\ ~x.revoked
                   /\ instances' = (WithoutIdle(q.instance) \ {x}) \union
                         {[x EXCEPT !.name = q.name, !.used = now]}
             /\ Serve(c)
             /\ UNCHANGED tunnels
          \/ /\ tunnels' = WithoutPath(c)
             /\ Drop(c)
             /\ UNCHANGED instances
       /\ UNCHANGED <<now, profile, admin, open, released>>

\* The read loop ends: the connection was closed, broke or stayed silent for
\* tunnelReadTimeout.
FailRead(c) ==
    /\ handler[c].phase = "serving"
    /\ Advance(c, "stopping")
    /\ UNCHANGED <<now, profile, instances, admin, tunnels, open, released>>

\* The writer is done: the deferred unregisterTunnel and Close.
Unregister(c) ==
    /\ handler[c].phase = "stopping"
    /\ tunnels' = WithoutPath(c)
    /\ handler' = [handler EXCEPT ![c] = Idle]
    /\ UNCHANGED <<now, profile, instances, admin, open, client, released>>

\* runOnce returns because the connection broke or was closed; the server
\* may not know yet.
LoseConnection(i) ==
    /\ client[i].conn # NoConn
    /\ client' = [client EXCEPT ![i] = Down]
    /\ UNCHANGED <<now, profile, instances, admin, tunnels, open, handler, released>>

-----------------------------------------------------------------------------
(* The dashboard. *)

\* SetApplicationInstanceRevoked, or RevokeApplicationInstanceForGitHubUser of
\* a replacement.  Bound: one revocation of an instance at a time.
Revoke(i) ==
    /\ i \notin Legacy /\ i \notin revoking
    /\ \E x \in Record(i) :
          instances' = (instances \ {x}) \union {[x EXCEPT !.revoked = TRUE]}
    /\ revoking' = revoking \union {i}
    /\ UNCHANGED <<now, profile, updating, tunnels, open, handler, client, released>>

\* disconnectApplicationInstance.
DisconnectInstance(i) ==
    /\ i \in revoking
    /\ revoking' = revoking \ {i}
    /\ open' = open \ {t.conn : t \in {s \in tunnels : s.instance = i}}
    /\ UNCHANGED <<now, profile, instances, updating, tunnels, handler, client, released>>

Unrevoke(i) ==
    /\ i \notin Legacy
    /\ \E x \in Record(i) :
          instances' = (instances \ {x}) \union {[x EXCEPT !.revoked = FALSE]}
    /\ UNCHANGED <<now, profile, admin, tunnels, open, handler, client, released>>

\* UnreserveApplicationTunnel deletes a legacy instance, forgets another's name.
Unreserve(i) ==
    /\ \E x \in Record(i) :
          instances' = (instances \ {x}) \union
              (IF i \in Legacy THEN {} ELSE {[x EXCEPT !.name = NoName]})
    /\ released' = released \union {i}
    /\ UNCHANGED <<now, profile, admin, tunnels, open, handler, client>>

\* handleDisconnectTunnel.
DisconnectTunnel ==
    /\ \E t \in tunnels : open' = open \ {t.conn}
    /\ UNCHANGED <<now, profile, instances, admin, tunnels, handler, client, released>>

\* pruneIdleApplicationInstances, when an enrollment is approved: enrolled
\* instances only, and none that is connected.
PruneIdle ==
    /\ instances' = {x \in instances : x.id \in Legacy \/ ActiveTunnel(x.id) \/ ~PastIdle(x)}
    /\ UNCHANGED <<now, profile, admin, tunnels, open, handler, client, released>>

ProfileReadLocked == \E c \in Conns : handler[c].phase \in {"locked", "named", "registered"}

\* Seeded defect: the profile is saved without profileMu.
SaveProfileUnlocked ==
    /\ ~updating
    /\ ~profile.deleted
    /\ updating' = TRUE
    /\ profile.version < MaxVersion
    /\ \E rotated \in BOOLEAN :
          profile' = [profile EXCEPT !.version = @ + 1, !.rotated = rotated]
    /\ UNCHANGED <<now, instances, revoking, tunnels, open, handler, client, released>>

\* handleUpdateApplication and handleDeleteApplication, with profileMu locked ...
SaveProfile ==
    /\ ~updating /\ ~ProfileReadLocked
    /\ ~profile.deleted
    /\ updating' = TRUE
    /\ \/ /\ profile.version < MaxVersion
          /\ \E rotated \in BOOLEAN :
                profile' = [profile EXCEPT !.version = @ + 1, !.rotated = rotated]
          /\ UNCHANGED instances
       \/ /\ profile' = [profile EXCEPT !.deleted = TRUE]
          /\ instances' = {}
    /\ UNCHANGED <<now, revoking, tunnels, open, handler, client, released>>

\* ... and disconnectApplicationTunnels.
CloseTunnels ==
    /\ updating
    /\ updating' = FALSE
    /\ open' = open \ {t.conn : t \in tunnels}
    /\ UNCHANGED <<now, profile, instances, revoking, tunnels, handler, client, released>>

-----------------------------------------------------------------------------

\* The server stops or crashes and starts again with its data file.
Restart ==
    /\ tunnels' = {} /\ open' = {}
    /\ handler' = [c \in Conns |-> Idle]
    /\ client' = [i \in Instances |-> IF client[i].conn = NoConn THEN client[i] ELSE Down]
    /\ updating' = FALSE /\ revoking' = {}
    /\ UNCHANGED <<now, profile, instances, released>>

\* A tick is weeks long: no handshake, shutdown or half-open connection lasts.
Tick ==
    /\ now < MaxTime
    /\ ~updating /\ revoking = {}
    /\ \A c \in Conns :
          \/ handler[c] = Idle
          \/ /\ handler[c].phase = "serving" /\ c \in open
             /\ client[handler[c].instance].conn = c
    /\ now' = now + 1
    /\ UNCHANGED <<profile, instances, admin, tunnels, open, handler, client, released>>

Next ==
    \/ \E i \in Instances :
          \/ \E c \in Conns : Connect(i, c)
          \/ LoseConnection(i)
          \/ Revoke(i)
          \/ DisconnectInstance(i)
          \/ Unrevoke(i)
          \/ Unreserve(i)
    \/ \E c \in Conns :
          \/ FailHandshake(c)
          \/ Authenticate(c)
          \/ LookUp(c)
          \/ ChooseName(c)
          \/ Register(c)
          \/ Remember(c)
          \/ FailRead(c)
          \/ Unregister(c)
    \/ DisconnectTunnel
    \/ PruneIdle
    \/ SaveProfile
    \/ CloseTunnels
    \/ Restart
    \/ Tick

Spec == Init /\ [][Next]_vars

-----------------------------------------------------------------------------
(* Properties. *)

Serving(t) == handler[t.conn].phase = "serving" /\ t.conn \in open

\* An installation has one tunnel and a path leads to one tunnel, although
\* chooseApplicationID decides with locks that are released before
\* registerTunnel takes its own.
OneTunnelEach ==
    \A s, t \in tunnels : s.instance = t.instance \/ s.name = t.name => s = t

\* Every handler past registerTunnel still has its own route, and every route
\* its handler: unregisterTunnel deletes by path and never hits a successor.
RouteHasItsHandler ==
    /\ \A t \in tunnels :
          /\ handler[t.conn].phase \in {"registered", "serving", "stopping"}
          /\ handler[t.conn].instance = t.instance /\ handler[t.conn].name = t.name
    /\ \A c \in Conns :
          handler[c].phase \in {"registered", "serving", "stopping"} =>
              \E t \in tunnels : t.conn = c

\* Once a revocation is done, no open tunnel of the instance serves, although
\* the dashboard takes no lock that a registration in progress would respect:
\* the revocation is saved before the tunnels are searched, and a registration
\* is in the tunnels before it asks the store.
RevokedIsDisconnected ==
    \A t \in tunnels : Serving(t) /\ t.instance \notin revoking =>
        \A x \in Record(t.instance) : ~x.revoked

\* Outside an update, every open tunnel serves the routes and limits of the
\* stored profile, and none serves a legacy key that was rotated away or a
\* profile that was deleted: profileMu keeps registrations out of updates.
ServesCurrentProfile ==
    \A t \in tunnels : t.conn \in open /\ ~updating =>
        /\ t.version = profile.version /\ ~profile.deleted
        /\ t.instance \in Legacy => ~profile.rotated

\* An installation serves under the name the store remembers for it, unless
\* an administrator released that name or the record was pruned.
ServesUnderItsName ==
    \A t \in tunnels : Serving(t) =>
        \A x \in Record(t.instance) : x.name \in {t.name, NoName}

\* store.go, TunnelIDReserved: "so another application instance cannot take
\* the same name."  Two registrations that draw one name before either of
\* them is remembered both end up with it.
NamesReservedOnce ==
    \A x, y \in instances : x.name = y.name /\ x.name # NoName => x = y

\* docs/server.md: "Disconnected, non-revoked installations idle for more than
\* 90 days are pruned."  A connected one is pruned as well when another one
\* connects, and cannot be revoked from then on.
ConnectedIsRemembered ==
    ~updating => \A t \in tunnels : Serving(t) => Stored(t.instance) \/ t.instance \in released

\* docs/server.md: "The legacy record and public name remain until an
\* administrator releases them from the dashboard."
LegacyNamesStay ==
    ~profile.deleted => \A l \in Legacy : Stored(l) \/ l \in released

\* docs/server.md: "It reconnects transient failures automatically."  A client
\* that reconnects before the server has noticed stops for good.
ReconnectIsRetried ==
    \A i \in Instances : client[i].why # "active tunnel"
=============================================================================
