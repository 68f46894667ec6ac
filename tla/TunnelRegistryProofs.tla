------------------------ MODULE TunnelRegistryProofs ------------------------
(***************************************************************************)
(* Proofs about TunnelRegistry for every value of its constants.           *)
(***************************************************************************)
EXTENDS TunnelRegistry, TLAPS

\* The phases in which a connection has a tunnel.
Registered == {"registered", "serving", "stopping"}

\* A handler that is about to register has a name.
NamedHaveNames ==
    \A c \in Conns : handler[c].phase = "named" => handler[c].name \in Names

\* The store remembers an installation once.
OneRecordEach == \A x, y \in instances : x.id = y.id => x = y

IInv ==
    /\ TypeOK
    /\ NamedHaveNames
    /\ OneRecordEach
    /\ OneTunnelEach
    /\ RouteHasItsHandler
    /\ RevokedIsDisconnected

-----------------------------------------------------------------------------
(* Type correctness. *)

HandlerState == {Idle} \union Handling

LEMMA HandlerPhases ==
    /\ Idle \in HandlerState /\ Idle.phase = "idle"
    /\ \A q \in HandlerState : q.phase # "idle" => q \in Handling
    /\ \A q \in Handling :
          /\ q.phase \in {"challenged", "authenticated", "locked", "named", "registered",
                          "serving", "stopping"}
          /\ q.instance \in Instances /\ q.name \in Names \union {NoName} /\ q.version \in Nat
BY DEF HandlerState, Idle, Handling

\* A handler that moves on to another phase or name is a handler.
LEMMA HandlerUpdate ==
    ASSUME NEW q \in Handling, NEW name \in Names,
           NEW phase \in {"challenged", "authenticated", "locked", "named", "registered",
                          "serving", "stopping"}
    PROVE  /\ [q EXCEPT !.phase = phase] \in Handling
           /\ [q EXCEPT !.phase = phase, !.name = name] \in Handling
BY DEF Handling

LEMMA ClientStates ==
    /\ Down \in Client
    /\ \A why \in Reasons : [phase |-> "stopped", conn |-> NoConn, why |-> why] \in Client
    /\ [Down EXCEPT !.phase = "stopped", !.why = "profile"] \in Client
    /\ \A c \in Conns : [Down EXCEPT !.phase = "connecting", !.conn = c] \in Client
    /\ \A k \in Client : [k EXCEPT !.phase = "connected"] \in Client
BY DEF Down, Client, Reasons

\* The clients are typed after a failure of any kind.
LEMMA RefuseType ==
    ASSUME TypeOK, NEW c \in Conns, NEW why \in Reasons, Refuse(c, why)
    PROVE  /\ handler' \in [Conns -> HandlerState]
           /\ client' \in [Instances -> Client]
<1>1. handler' \in [Conns -> HandlerState]
    BY HandlerPhases DEF TypeOK, Refuse, HandlerState
<1>2. client' \in [Instances -> Client]
    BY ClientStates DEF TypeOK, Refuse
<1> QED BY <1>1, <1>2

LEMMA DropType ==
    ASSUME TypeOK, NEW c \in Conns, Drop(c)
    PROVE  /\ handler' \in [Conns -> HandlerState]
           /\ client' \in [Instances -> Client]
<1>1. handler' \in [Conns -> HandlerState]
    BY HandlerPhases DEF TypeOK, Drop, HandlerState
<1>2. client' \in [Instances -> Client]
    BY ClientStates DEF TypeOK, Drop
<1> QED BY <1>1, <1>2

LEMMA AdvanceType ==
    ASSUME TypeOK, NEW c \in Conns, handler[c].phase # "idle",
           NEW phase \in {"authenticated", "named", "registered", "stopping"}, Advance(c, phase)
    PROVE  /\ handler' \in [Conns -> HandlerState]
           /\ client' \in [Instances -> Client]
<1>1. handler[c] \in Handling
    BY HandlerPhases DEF TypeOK, HandlerState
<1>2. [handler[c] EXCEPT !.phase = phase] \in Handling
    BY <1>1, NullsAssumption DEF Handling
<1> QED BY <1>2 DEF TypeOK, Advance, HandlerState

LEMMA ServeType ==
    ASSUME TypeOK, NEW c \in Conns, handler[c].phase # "idle", Serve(c)
    PROVE  /\ handler' \in [Conns -> HandlerState]
           /\ client' \in [Instances -> Client]
<1>1. handler[c] \in Handling
    BY HandlerPhases DEF TypeOK, HandlerState
<1>2. [handler[c] EXCEPT !.phase = "serving"] \in Handling
    BY <1>1 DEF Handling
<1>3. client' \in [Instances -> Client]
    BY ClientStates DEF TypeOK, Serve
<1> QED BY <1>2, <1>3 DEF TypeOK, Serve, HandlerState

LEMMA RecordUpdate ==
    ASSUME NEW x \in Instance
    PROVE  /\ \A name \in Names, used \in Nat : [x EXCEPT !.name = name, !.used = used] \in Instance
           /\ \A revoked \in BOOLEAN : [x EXCEPT !.revoked = revoked] \in Instance
           /\ [x EXCEPT !.name = NoName] \in Instance
BY DEF Instance

LEMMA TypeInit == Init => TypeOK
<1> SUFFICES ASSUME Init PROVE TypeOK
    OBVIOUS
<1>1. instances \subseteq Instance
  <2>1. PICK name \in [Legacy -> Names] :
           instances = {[id |-> l, name |-> name[l], used |-> 0, revoked |-> FALSE] : l \in Legacy}
      BY DEF Init
  <2>2. \A l \in Legacy :
           [id |-> l, name |-> name[l], used |-> 0, revoked |-> FALSE] \in Instance
      BY LegacyAssumption DEF Instance
  <2> QED BY <2>1, <2>2
<1>2. client \in [Instances -> Client]
    BY ClientStates DEF Init
<1> QED BY <1>1, <1>2 DEF Init, TypeOK, Profile

\* Every action keeps the types; only a handler with a name may register.
LEMMA TypeStep == NamedHaveNames /\ TypeOK /\ [Next]_vars => TypeOK'
<1> SUFFICES ASSUME NamedHaveNames, TypeOK, [Next]_vars PROVE TypeOK'
    OBVIOUS
<1>0. /\ now \in Nat /\ profile \in Profile /\ instances \subseteq Instance
      /\ updating \in BOOLEAN /\ revoking \subseteq Instances /\ tunnels \subseteq Tunnel
      /\ open \subseteq Conns /\ handler \in [Conns -> HandlerState]
      /\ client \in [Instances -> Client] /\ released \subseteq Instances
    BY DEF TypeOK, HandlerState
<1>a. /\ now' \in Nat /\ profile' \in Profile /\ instances' \subseteq Instance
      /\ updating' \in BOOLEAN /\ revoking' \subseteq Instances /\ tunnels' \subseteq Tunnel
      /\ open' \subseteq Conns /\ handler' \in [Conns -> HandlerState]
      /\ client' \in [Instances -> Client] /\ released' \subseteq Instances
      => TypeOK'
    BY DEF TypeOK, HandlerState
<1>1. ASSUME NEW i \in Instances, NEW c \in Conns, Connect(i, c) PROVE TypeOK'
  <2>1. handler' \in [Conns -> HandlerState] /\ client' \in [Instances -> Client]
        /\ open' \subseteq Conns
    <3>1. [phase |-> "challenged", instance |-> i, name |-> NoName, version |-> 0] \in HandlerState
        BY DEF HandlerState, Handling
    <3>2. handler' \in [Conns -> HandlerState]
        BY <1>0, <1>1, <3>1 DEF Connect
    <3>3. \E k \in Client : client' = [client EXCEPT ![i] = k]
        BY <1>1, ClientStates DEF Connect
    <3>4. open' \subseteq Conns
        BY <1>0, <1>1 DEF Connect
    <3> QED BY <1>0, <3>2, <3>3, <3>4
  <2> QED BY <1>0, <1>a, <1>1, <2>1 DEF Connect, admin
<1>2. ASSUME NEW c \in Conns, FailHandshake(c) PROVE TypeOK'
  <2>1. handler' \in [Conns -> HandlerState] /\ client' \in [Instances -> Client]
    <3>1. "handshake" \in Reasons
        BY DEF Reasons
    <3> QED BY <1>2, <3>1, RefuseType, DropType DEF FailHandshake
  <2> QED BY <1>0, <1>a, <1>2, <2>1 DEF FailHandshake, admin
<1>3. ASSUME NEW c \in Conns, Authenticate(c) PROVE TypeOK'
  <2>1. handler[c].phase # "idle"
      BY <1>3 DEF Authenticate
  <2>2. handler' \in [Conns -> HandlerState] /\ client' \in [Instances -> Client]
    <3>1. "revoked" \in Reasons /\ "enrollment" \in Reasons
        BY DEF Reasons
    <3>2. \/ Advance(c, "authenticated") \/ Refuse(c, "revoked") \/ Refuse(c, "enrollment")
          \/ Drop(c)
        BY <1>3 DEF Authenticate
    <3> QED BY <2>1, <3>1, <3>2, RefuseType, DropType, AdvanceType
  <2>3. instances' \subseteq Instance
    <3>1. handler[c].instance \in Instances
        BY <1>0, <2>1, HandlerPhases
    <3>2. [id |-> handler[c].instance, name |-> NoName, used |-> now, revoked |-> FALSE] \in Instance
        BY <1>0, <3>1 DEF Instance
    <3>3. WithoutIdle(handler[c].instance) \subseteq Instance
        BY <1>0 DEF WithoutIdle
    <3>4. instances' = instances \/ Enroll(handler[c].instance)
        BY <1>3 DEF Authenticate
    <3> QED BY <1>0, <3>2, <3>3, <3>4 DEF Enroll
  <2> QED BY <1>0, <1>a, <1>3, <2>2, <2>3 DEF Authenticate, admin
<1>4. ASSUME NEW c \in Conns, LookUp(c) PROVE TypeOK'
  <2>1. handler[c].phase # "idle"
      BY <1>4 DEF LookUp
  <2>2. handler[c].instance \in Instances
      BY <1>0, <2>1, HandlerPhases
  <2>3. "profile" \in Reasons /\ "active tunnel" \in Reasons
      BY DEF Reasons
  <2>4. CASE Refuse(c, "profile") \/ Refuse(c, "active tunnel")
    <3>1. handler' \in [Conns -> HandlerState] /\ client' \in [Instances -> Client]
        BY <2>3, <2>4, RefuseType
    <3> QED BY <1>0, <1>a, <1>4, <3>1 DEF LookUp, admin
  <2>5. ASSUME NEW n \in Names \union {NoName},
               handler' = [handler EXCEPT ![c] = [phase |-> "locked",
                              instance |-> handler[c].instance, name |-> n,
                              version |-> profile.version]],
               UNCHANGED client
        PROVE  TypeOK'
    <3>1. [phase |-> "locked", instance |-> handler[c].instance, name |-> n,
           version |-> profile.version] \in HandlerState
        BY <1>0, <2>2 DEF HandlerState, Handling, Profile
    <3>2. handler' \in [Conns -> HandlerState]
        BY <1>0, <2>5, <3>1
    <3> QED BY <1>0, <1>a, <1>4, <2>5, <3>2 DEF LookUp, admin
  <2> QED BY <1>4, <2>4, <2>5 DEF LookUp
<1>5. ASSUME NEW c \in Conns, ChooseName(c) PROVE TypeOK'
  <2>1. handler[c].phase # "idle"
      BY <1>5 DEF ChooseName
  <2>2. handler' \in [Conns -> HandlerState] /\ client' \in [Instances -> Client]
    <3>1. "no name" \in Reasons
        BY DEF Reasons
    <3>2. CASE Refuse(c, "no name") \/ Advance(c, "named")
        BY <2>1, <3>1, <3>2, RefuseType, AdvanceType
    <3>3. ASSUME NEW n \in Names,
                 handler' = [handler EXCEPT ![c].phase = "named", ![c].name = n],
                 UNCHANGED client
          PROVE  handler' \in [Conns -> HandlerState] /\ client' \in [Instances -> Client]
      <4>1. handler[c] \in Handling
          BY <1>0, <2>1, HandlerPhases
      <4>2. [handler[c] EXCEPT !.phase = "named", !.name = n] \in HandlerState
          BY <4>1, HandlerUpdate DEF HandlerState
      <4>3. handler' = [handler EXCEPT ![c] = [handler[c] EXCEPT !.phase = "named", !.name = n]]
          BY <1>0, <3>3
      <4> QED BY <1>0, <3>3, <4>2, <4>3
    <3> QED BY <1>5, <3>2, <3>3 DEF ChooseName
  <2> QED BY <1>0, <1>a, <1>5, <2>2 DEF ChooseName, admin
<1>6. ASSUME NEW c \in Conns, Register(c) PROVE TypeOK'
  <2>1. handler[c].phase # "idle" /\ handler[c].name \in Names
      BY <1>6 DEF Register, NamedHaveNames
  <2>2. handler' \in [Conns -> HandlerState] /\ client' \in [Instances -> Client]
    <3>1. "active tunnel" \in Reasons /\ "limit" \in Reasons /\ "path" \in Reasons
        BY DEF Reasons
    <3>2. \/ Advance(c, "registered") \/ Refuse(c, "active tunnel") \/ Refuse(c, "limit")
          \/ Refuse(c, "path")
        BY <1>6 DEF Register
    <3> QED BY <2>1, <3>1, <3>2, RefuseType, AdvanceType
  <2>3. tunnels' \subseteq Tunnel
    <3>1. handler[c].instance \in Instances /\ handler[c].version \in Nat
        BY <1>0, <2>1, HandlerPhases
    <3>2. [conn |-> c, instance |-> handler[c].instance, name |-> handler[c].name,
           version |-> handler[c].version] \in Tunnel
        BY <2>1, <3>1 DEF Tunnel
    <3> QED BY <1>0, <1>6, <3>2 DEF Register
  <2> QED BY <1>0, <1>a, <1>6, <2>2, <2>3 DEF Register, admin
<1>7. ASSUME NEW c \in Conns, Remember(c) PROVE TypeOK'
  <2>1. handler[c].phase # "idle"
      BY <1>7 DEF Remember
  <2>2. handler' \in [Conns -> HandlerState] /\ client' \in [Instances -> Client]
      BY <1>7, <2>1, DropType, ServeType DEF Remember
  <2>3. tunnels' \subseteq Tunnel
      BY <1>0, <1>7 DEF Remember, WithoutPath
  <2>4. instances' \subseteq Instance
    <3>1. handler[c].name \in Names \union {NoName}
        BY <1>0, <2>1, HandlerPhases
    <3>2. ASSUME NEW x \in instances
          PROVE  [x EXCEPT !.name = handler[c].name, !.used = now] \in Instance
        BY <1>0, <3>1 DEF Instance
    <3>3. WithoutIdle(handler[c].instance) \subseteq Instance
        BY <1>0 DEF WithoutIdle
    <3> QED BY <1>0, <1>7, <3>2, <3>3 DEF Remember, Record
  <2> QED BY <1>0, <1>a, <1>7, <2>2, <2>3, <2>4 DEF Remember, admin
<1>8. ASSUME NEW c \in Conns, FailRead(c) PROVE TypeOK'
  <2>1. handler' \in [Conns -> HandlerState] /\ client' \in [Instances -> Client]
      BY <1>8, AdvanceType DEF FailRead
  <2> QED BY <1>0, <1>a, <1>8, <2>1 DEF FailRead, admin
<1>9. ASSUME NEW c \in Conns, Unregister(c) PROVE TypeOK'
  <2>1. handler' \in [Conns -> HandlerState] /\ tunnels' \subseteq Tunnel
      BY <1>0, <1>9, HandlerPhases DEF Unregister, WithoutPath
  <2> QED BY <1>0, <1>a, <1>9, <2>1 DEF Unregister, admin
<1>10. ASSUME NEW i \in Instances, LoseConnection(i) PROVE TypeOK'
  <2>1. client' \in [Instances -> Client]
      BY <1>0, <1>10, ClientStates DEF LoseConnection
  <2> QED BY <1>0, <1>a, <1>10, <2>1 DEF LoseConnection, admin
<1>11. ASSUME NEW i \in Instances, Revoke(i) \/ Unrevoke(i) \/ Unreserve(i) PROVE TypeOK'
  <2>1. instances' \subseteq Instance
    <3>1. \E x \in instances :
             \/ instances' = (instances \ {x}) \union {[x EXCEPT !.revoked = TRUE]}
             \/ instances' = (instances \ {x}) \union {[x EXCEPT !.revoked = FALSE]}
             \/ instances' = (instances \ {x}) \union {[x EXCEPT !.name = NoName]}
             \/ instances' = instances \ {x}
        BY <1>11 DEF Revoke, Unrevoke, Unreserve, Record
    <3> QED BY <1>0, <3>1, RecordUpdate
  <2>2. revoking' \subseteq Instances /\ released' \subseteq Instances
      BY <1>0, <1>11 DEF Revoke, Unrevoke, Unreserve, admin
  <2> QED BY <1>0, <1>a, <1>11, <2>1, <2>2 DEF Revoke, Unrevoke, Unreserve, admin
<1>12. ASSUME NEW i \in Instances, DisconnectInstance(i) PROVE TypeOK'
    BY <1>0, <1>a, <1>12 DEF DisconnectInstance
<1>13. CASE DisconnectTunnel
  <2>1. open' \subseteq Conns
      BY <1>0, <1>13 DEF DisconnectTunnel
  <2> QED BY <1>0, <1>a, <1>13, <2>1 DEF DisconnectTunnel, admin
<1>14. CASE PruneIdle
    BY <1>0, <1>a, <1>14 DEF PruneIdle, admin
<1>15. CASE SaveProfile
  <2>1. profile' \in Profile
    <3>1. CASE profile' = [profile EXCEPT !.deleted = TRUE]
        BY <1>0, <3>1 DEF Profile
    <3>2. ASSUME NEW rotated \in BOOLEAN,
                 profile' = [profile EXCEPT !.version = @ + 1, !.rotated = rotated]
          PROVE  profile' \in Profile
      <4>1. profile' = [version |-> profile.version + 1, deleted |-> profile.deleted,
                        rotated |-> rotated]
          BY <1>0, <3>2 DEF Profile
      <4>2. profile.version + 1 \in Nat /\ profile.deleted \in BOOLEAN
          BY <1>0 DEF Profile
      <4> QED BY <4>1, <4>2 DEF Profile
    <3> QED BY <1>15, <3>1, <3>2 DEF SaveProfile
  <2>2. instances' \subseteq Instance
      BY <1>0, <1>15 DEF SaveProfile
  <2> QED BY <1>0, <1>a, <1>15, <2>1, <2>2 DEF SaveProfile
<1>16. CASE CloseTunnels
    BY <1>0, <1>a, <1>16 DEF CloseTunnels
<1>17. CASE Restart
  <2>1. client' \in [Instances -> Client] /\ handler' \in [Conns -> HandlerState]
      BY <1>0, <1>17, ClientStates, HandlerPhases DEF Restart
  <2> QED BY <1>0, <1>a, <1>17, <2>1 DEF Restart
<1>18. CASE Tick
    BY <1>0, <1>a, <1>18 DEF Tick, admin
<1>19. CASE UNCHANGED vars
    BY <1>0, <1>a, <1>19 DEF vars
<1> QED
    BY <1>1, <1>2, <1>3, <1>4, <1>5, <1>6, <1>7, <1>8, <1>9, <1>10, <1>11, <1>12, <1>13,
       <1>14, <1>15, <1>16, <1>17, <1>18, <1>19 DEF Next

-----------------------------------------------------------------------------
(* The invariant.  NamedHaveNames carries the chosen name to registerTunnel,
   OneRecordEach says that a record found is the record, and the three
   properties need each other: that a path belongs to its handler makes
   unregisterTunnel harmless, and one tunnel each makes it the handler's own. *)

LEMMA InvInit == Init => IInv
<1> SUFFICES ASSUME Init PROVE IInv
    OBVIOUS
<1>1. TypeOK
    BY TypeInit
<1>2. NamedHaveNames /\ OneTunnelEach /\ RouteHasItsHandler /\ RevokedIsDisconnected
    BY DEF Init, Idle, NamedHaveNames, OneTunnelEach, RouteHasItsHandler, RevokedIsDisconnected
<1>3. OneRecordEach
  <2>1. PICK name \in [Legacy -> Names] :
           instances = {[id |-> l, name |-> name[l], used |-> 0, revoked |-> FALSE] : l \in Legacy}
      BY DEF Init
  <2>2. ASSUME NEW x \in instances
        PROVE  x = [id |-> x.id, name |-> name[x.id], used |-> 0, revoked |-> FALSE]
      BY <2>1
  <2> QED BY <2>2 DEF OneRecordEach
<1> QED BY <1>1, <1>2, <1>3 DEF IInv

\* A step of one connection that has no tunnel before it and none after it.
LEMMA QuietStep ==
    ASSUME IInv, TypeOK', NEW c \in Conns,
           handler[c].phase \notin Registered, handler'[c].phase \notin Registered,
           \A d \in Conns : d # c => handler'[d] = handler[d],
           handler'[c].phase = "named" => handler'[c].name \in Names,
           open' \subseteq open \union {c},
           UNCHANGED <<tunnels, revoking>>,
           OneRecordEach',
           \A x \in instances' : x.revoked => x \in instances
    PROVE  IInv'
<1>1. NamedHaveNames'
    BY DEF IInv, NamedHaveNames
<1>2. \A t \in tunnels : t.conn # c /\ t.conn \in Conns
    BY DEF IInv, RouteHasItsHandler, Registered, TypeOK, Tunnel
<1>3. OneTunnelEach'
    BY DEF IInv, OneTunnelEach
<1>4. RouteHasItsHandler'
    BY <1>2 DEF IInv, RouteHasItsHandler, Registered
<1>5. RevokedIsDisconnected'
    BY <1>2 DEF IInv, RevokedIsDisconnected, Serving, Record
<1> QED BY <1>1, <1>3, <1>4, <1>5 DEF IInv

\* A step that changes what is stored, closes connections or moves clients, but
\* leaves every handler and tunnel.
LEMMA StoreStep ==
    ASSUME IInv, TypeOK', UNCHANGED <<tunnels, handler>>, open' \subseteq open,
           OneRecordEach',
           \A t \in tunnels : Serving(t)' /\ t.instance \notin revoking' =>
               /\ t.instance \notin revoking
               /\ \A x \in instances' :
                     x.id = t.instance /\ x.revoked =>
                         \E y \in instances : y.id = x.id /\ y.revoked
    PROVE  IInv'
<1>1. NamedHaveNames' /\ OneTunnelEach' /\ RouteHasItsHandler'
    BY DEF IInv, NamedHaveNames, OneTunnelEach, RouteHasItsHandler
<1>2. RevokedIsDisconnected'
    BY DEF IInv, RevokedIsDisconnected, Serving, Record
<1> QED BY <1>1, <1>2 DEF IInv

\* The tunnel of a connection, and what unregisterTunnel takes away.
LEMMA OwnTunnel ==
    ASSUME IInv, NEW c \in Conns, handler[c].phase \in Registered
    PROVE  /\ \A t \in tunnels : t.name = handler[c].name <=> t.conn = c
           /\ \A s, t \in tunnels : s.conn = t.conn => s = t
<1>1. \A s, t \in tunnels : s.conn = t.conn => s = t
    BY DEF IInv, RouteHasItsHandler, OneTunnelEach
<1>2. PICK own \in tunnels : own.conn = c
    BY DEF IInv, RouteHasItsHandler, Registered
<1>3. own.name = handler[c].name
    BY <1>2 DEF IInv, RouteHasItsHandler
<1> QED BY <1>1, <1>2, <1>3 DEF IInv, OneTunnelEach, RouteHasItsHandler

\* unregisterTunnel removes the connection's own tunnel and no other.
LEMMA UnregisterStep ==
    ASSUME IInv, TypeOK', NEW c \in Conns, handler[c].phase \in Registered,
           tunnels' = WithoutPath(c), handler' = [handler EXCEPT ![c] = Idle],
           UNCHANGED <<instances, open, revoking>>
    PROVE  IInv'
<1>0. handler \in [Conns -> HandlerState] /\ Idle.phase = "idle"
    BY HandlerPhases DEF IInv, TypeOK, HandlerState
<1>1. NamedHaveNames' /\ OneRecordEach'
    BY <1>0 DEF IInv, NamedHaveNames, OneRecordEach
<1>2. tunnels' = {t \in tunnels : t.conn # c}
    BY OwnTunnel DEF WithoutPath
<1>3. \A t \in tunnels' : t \in tunnels /\ t.conn \in Conns /\ handler'[t.conn] = handler[t.conn]
    BY <1>0, <1>2 DEF IInv, TypeOK, Tunnel
<1>4. OneTunnelEach'
    BY <1>3 DEF IInv, OneTunnelEach
<1>5. RouteHasItsHandler'
  <2>1. \A t \in tunnels' :
           /\ handler'[t.conn].phase \in Registered
           /\ handler'[t.conn].instance = t.instance /\ handler'[t.conn].name = t.name
      BY <1>3 DEF IInv, RouteHasItsHandler, Registered
  <2>2. ASSUME NEW d \in Conns, handler'[d].phase \in Registered
        PROVE  \E t \in tunnels' : t.conn = d
    <3>1. d # c /\ handler'[d] = handler[d]
        BY <1>0, <2>2 DEF Registered
    <3>2. PICK t \in tunnels : t.conn = d
        BY <2>2, <3>1 DEF IInv, RouteHasItsHandler, Registered
    <3> QED BY <1>2, <3>1, <3>2
  <2> QED BY <2>1, <2>2 DEF RouteHasItsHandler, Registered
<1>6. RevokedIsDisconnected'
    BY <1>3 DEF IInv, RevokedIsDisconnected, Serving, Record
<1> QED BY <1>1, <1>4, <1>5, <1>6 DEF IInv

\* Whoever replaces one record, adds one that was missing or removes some, keeps
\* one each.
LEMMA RecordStep ==
    ASSUME TypeOK, OneRecordEach,
           \/ \E x \in instances : \E y : /\ y.id = x.id
                                        /\ instances' \subseteq (instances \ {x}) \union {y}
           \/ \E y : /\ \A x \in instances : x.id # y.id
                     /\ instances' \subseteq instances \union {y}
    PROVE  OneRecordEach'
BY DEF OneRecordEach

LEMMA InvStep == IInv /\ [Next]_vars => IInv'
<1> SUFFICES ASSUME IInv, [Next]_vars PROVE IInv'
    OBVIOUS
<1>0. TypeOK'
    BY TypeStep DEF IInv
<1>a. /\ handler \in [Conns -> HandlerState] /\ instances \subseteq Instance
      /\ now \in Nat /\ OneRecordEach /\ Idle.phase = "idle" /\ TypeOK
    BY HandlerPhases DEF IInv, TypeOK, HandlerState
<1>1. ASSUME NEW i \in Instances, NEW c \in Conns, Connect(i, c) PROVE IInv'
  <2>1. OneRecordEach' /\ instances' = instances
      BY <1>1, <1>a DEF Connect, OneRecordEach
  <2>2. /\ handler[c].phase \notin Registered /\ handler'[c].phase \notin Registered
        /\ \A d \in Conns : d # c => handler'[d] = handler[d]
        /\ handler'[c].phase # "named"
        /\ open' \subseteq open \union {c} /\ UNCHANGED <<tunnels, revoking>>
      BY <1>1, <1>a DEF Connect, Registered, admin
  <2> QED BY <1>0, <2>1, <2>2, QuietStep
<1>2. ASSUME NEW c \in Conns, FailHandshake(c) PROVE IInv'
  <2>1. OneRecordEach' /\ instances' = instances
      BY <1>2, <1>a DEF FailHandshake, OneRecordEach
  <2>2. /\ handler[c].phase \notin Registered /\ handler'[c].phase \notin Registered
        /\ \A d \in Conns : d # c => handler'[d] = handler[d]
        /\ handler'[c].phase # "named"
        /\ open' \subseteq open \union {c} /\ UNCHANGED <<tunnels, revoking>>
      BY <1>2, <1>a DEF FailHandshake, Registered, admin, Drop, Refuse
  <2> QED BY <1>0, <2>1, <2>2, QuietStep
<1>3. ASSUME NEW c \in Conns, Authenticate(c) PROVE IInv'
  <2>1. OneRecordEach' /\ \A x \in instances' : x.revoked => x \in instances
    <3>1. CASE instances' = instances
        BY <3>1, <1>a DEF OneRecordEach
    <3>2. CASE Enroll(handler[c].instance) /\ ~Stored(handler[c].instance)
      <4> DEFINE y == [id |-> handler[c].instance, name |-> NoName, used |-> now, revoked |-> FALSE]
      <4>1. /\ instances' \subseteq instances \union {y}
            /\ \A x \in instances : x.id # y.id
          BY <3>2 DEF Enroll, WithoutIdle, Stored, Record
      <4>2. ~y.revoked
          OBVIOUS
      <4> HIDE DEF y
      <4> QED BY <1>a, <4>1, <4>2, RecordStep
    <3> QED BY <1>3, <3>1, <3>2 DEF Authenticate
  <2>2. handler[c] \in Handling /\ handler[c].phase = "challenged"
      BY <1>3, <1>a, HandlerPhases DEF Authenticate
  <2>3. \/ handler' = [handler EXCEPT ![c].phase = "authenticated"]
        \/ handler' = [handler EXCEPT ![c] = Idle]
      BY <1>3 DEF Authenticate, Drop, Refuse, Advance
  <2>4. UNCHANGED <<tunnels, revoking, open>>
      BY <1>3 DEF Authenticate, admin
  <2>5. /\ handler[c].phase \notin Registered /\ handler'[c].phase \notin Registered
        /\ \A d \in Conns : d # c => handler'[d] = handler[d]
        /\ handler'[c].phase # "named"
      BY <1>a, <2>2, <2>3 DEF Registered, Handling
  <2> QED BY <1>0, <2>1, <2>4, <2>5, QuietStep
<1>4. ASSUME NEW c \in Conns, LookUp(c) PROVE IInv'
  <2>1. OneRecordEach' /\ instances' = instances
      BY <1>4, <1>a DEF LookUp, OneRecordEach
  <2>2. \/ \E n \in Names \union {NoName} :
              handler' = [handler EXCEPT
                 ![c] = [phase |-> "locked", instance |-> handler[c].instance, name |-> n,
                         version |-> profile.version]]
        \/ handler' = [handler EXCEPT ![c] = Idle]
      BY <1>4 DEF LookUp, Refuse
  <2>3. /\ handler'[c].phase \in {"locked", "idle"}
        /\ \A d \in Conns : d # c => handler'[d] = handler[d]
      BY <1>a, <2>2
  <2>4. handler[c].phase = "authenticated" /\ UNCHANGED <<tunnels, revoking, open>>
      BY <1>4 DEF LookUp, admin
  <2>5. handler[c].phase \notin Registered /\ handler'[c].phase \notin Registered
      BY <2>3, <2>4 DEF Registered
  <2> QED BY <1>0, <2>1, <2>3, <2>4, <2>5, QuietStep
<1>5. ASSUME NEW c \in Conns, ChooseName(c) PROVE IInv'
  <2>1. OneRecordEach' /\ instances' = instances
      BY <1>5, <1>a DEF ChooseName, OneRecordEach
  <2>2. handler[c] \in Handling /\ handler[c].phase = "locked"
      BY <1>5, <1>a, HandlerPhases DEF ChooseName
  <2>3. /\ handler[c].phase \notin Registered /\ handler'[c].phase \notin Registered
        /\ \A d \in Conns : d # c => handler'[d] = handler[d]
        /\ open' \subseteq open \union {c} /\ UNCHANGED <<tunnels, revoking>>
      BY <1>5, <1>a, <2>2 DEF ChooseName, Registered, admin, Refuse, Advance, Handling
  <2>4. handler'[c].phase = "named" => handler'[c].name \in Names
    <3>1. CASE Refuse(c, "no name")
        BY <1>a, <3>1 DEF Refuse
    <3>2. ASSUME NEW n \in Names,
                 handler' = [handler EXCEPT ![c].phase = "named", ![c].name = n]
          PROVE  handler'[c].name \in Names
        BY <1>a, <2>2, <3>2 DEF Handling
    <3>3. CASE handler[c].name # NoName /\ Advance(c, "named")
        BY <1>a, <2>2, <3>3 DEF Handling, Advance
    <3> QED BY <1>5, <3>1, <3>2, <3>3 DEF ChooseName
  <2> QED BY <1>0, <2>1, <2>3, <2>4, QuietStep
<1>6. ASSUME NEW c \in Conns, Register(c) PROVE IInv'
  <2>1. OneRecordEach' /\ instances' = instances
      BY <1>6, <1>a DEF Register, OneRecordEach
  <2>2. handler[c] \in Handling /\ handler[c].phase = "named" /\ handler[c].name \in Names
      BY <1>6, <1>a, HandlerPhases DEF Register, IInv, NamedHaveNames
  <2>3. ASSUME NEW why, Refuse(c, why), tunnels' = tunnels PROVE IInv'
    <3>1. /\ handler[c].phase \notin Registered /\ handler'[c].phase \notin Registered
          /\ \A d \in Conns : d # c => handler'[d] = handler[d]
          /\ handler'[c].phase # "named"
          /\ open' \subseteq open \union {c} /\ UNCHANGED <<tunnels, revoking>>
        BY <1>6, <1>a, <2>2, <2>3 DEF Register, Registered, admin, Refuse
    <3> QED BY <1>0, <2>1, <3>1, QuietStep
  <2>4. ASSUME ~ActiveTunnel(handler[c].instance), ~PathTaken(handler[c].name),
               tunnels' = tunnels \union
                   {[conn |-> c, instance |-> handler[c].instance, name |-> handler[c].name,
                     version |-> handler[c].version]},
               Advance(c, "registered")
        PROVE  IInv'
    <3> DEFINE new == [conn |-> c, instance |-> handler[c].instance, name |-> handler[c].name,
                       version |-> handler[c].version]
    <3>1. /\ new.conn = c /\ new.instance = handler[c].instance /\ new.name = handler[c].name
          /\ tunnels' = tunnels \union {new}
        BY <2>4
    <3>2. /\ handler'[c].phase = "registered" /\ handler'[c].instance = handler[c].instance
          /\ handler'[c].name = handler[c].name
          /\ \A d \in Conns : d # c => handler'[d] = handler[d]
        BY <1>a, <2>2, <2>4 DEF Advance, Handling
    <3> HIDE DEF new
    <3>3. \A t \in tunnels : t.conn \in Conns /\ t.conn # c
        BY <1>a, <2>2 DEF IInv, RouteHasItsHandler, TypeOK, Tunnel
    <3>4. NamedHaveNames'
        BY <3>2 DEF IInv, NamedHaveNames
    <3>5. OneTunnelEach'
        BY <2>4, <3>1 DEF IInv, OneTunnelEach, ActiveTunnel, PathTaken
    <3>6. RouteHasItsHandler'
        BY <3>1, <3>2, <3>3 DEF IInv, RouteHasItsHandler
    <3>7. RevokedIsDisconnected'
        BY <1>6, <2>1, <3>1, <3>2, <3>3
           DEF Register, admin, IInv, RevokedIsDisconnected, Serving, Record
    <3> QED BY <1>0, <2>1, <3>4, <3>5, <3>6, <3>7 DEF IInv
  <2> QED BY <1>6, <2>3, <2>4 DEF Register
<1>7. ASSUME NEW c \in Conns, Remember(c) PROVE IInv'
  <2>0. handler[c] \in Handling /\ handler[c].phase = "registered"
      BY <1>7, <1>a, HandlerPhases DEF Remember
  <2>1. CASE Drop(c) /\ tunnels' = WithoutPath(c) /\ instances' = instances
    <3>1. /\ handler' = [handler EXCEPT ![c] = Idle] /\ UNCHANGED <<instances, open, revoking>>
          /\ handler[c].phase \in Registered
        BY <1>7, <2>0, <2>1 DEF Remember, Drop, admin, Registered
    <3> QED BY <1>0, <2>1, <3>1, UnregisterStep
  <2>2. ASSUME NEW x \in Record(handler[c].instance), ~x.revoked,
               instances' = (WithoutIdle(handler[c].instance) \ {x}) \union
                   {[x EXCEPT !.name = handler[c].name, !.used = now]},
               Serve(c), tunnels' = tunnels
        PROVE  IInv'
    <3>1. /\ handler'[c].phase = "serving" /\ handler'[c].instance = handler[c].instance
          /\ handler'[c].name = handler[c].name
          /\ \A d \in Conns : d # c => handler'[d] = handler[d]
        BY <1>a, <2>0, <2>2 DEF Serve, Handling
    <3> DEFINE y == [x EXCEPT !.name = handler[c].name, !.used = now]
    <3>2. x \in Instance /\ x \in instances /\ x.id = handler[c].instance
        BY <1>a DEF Record
    <3>3. y.id = x.id /\ y.revoked = x.revoked
        BY <3>2 DEF Instance
    <3>4. instances' \subseteq (instances \ {x}) \union {y}
        BY <2>2 DEF WithoutIdle
    <3> HIDE DEF y
    <3>5. OneRecordEach'
        BY <1>a, <3>2, <3>3, <3>4, RecordStep
    <3>6. NamedHaveNames' /\ OneTunnelEach' /\ RouteHasItsHandler'
        BY <1>a, <2>0, <2>2, <3>1 DEF IInv, NamedHaveNames, OneTunnelEach, RouteHasItsHandler,
           TypeOK, Tunnel
    <3>7. RevokedIsDisconnected'
      <4>1. ASSUME NEW t \in tunnels, Serving(t)', t.instance \notin revoking,
                   NEW z \in instances', z.id = t.instance
            PROVE  ~z.revoked
        <5>1. CASE t.instance = handler[c].instance
            BY <2>2, <3>2, <3>3, <3>4, <4>1, <5>1, <1>a DEF OneRecordEach
        <5>2. CASE t.instance # handler[c].instance
          <6>1. t.conn # c /\ t.conn \in Conns
              BY <4>1, <5>2, <2>0 DEF IInv, RouteHasItsHandler, TypeOK, Tunnel
          <6>2. Serving(t) /\ z \in instances
              BY <1>7, <3>1, <3>2, <3>3, <3>4, <4>1, <5>2, <6>1 DEF Serving, Remember
          <6> QED BY <4>1, <6>2 DEF IInv, RevokedIsDisconnected, Record
        <5> QED BY <5>1, <5>2
      <4>2. revoking' = revoking
          BY <1>7 DEF Remember, admin
      <4> QED BY <2>2, <4>1, <4>2 DEF RevokedIsDisconnected, Record
    <3> QED BY <1>0, <3>5, <3>6, <3>7 DEF IInv
  <2> QED BY <1>7, <2>1, <2>2 DEF Remember
<1>8. ASSUME NEW c \in Conns, FailRead(c) PROVE IInv'
  <2>0. handler[c] \in Handling /\ handler[c].phase = "serving"
      BY <1>8, <1>a, HandlerPhases DEF FailRead
  <2>1. /\ handler'[c].phase = "stopping" /\ handler'[c].instance = handler[c].instance
        /\ handler'[c].name = handler[c].name
        /\ \A d \in Conns : d # c => handler'[d] = handler[d]
        /\ UNCHANGED <<tunnels, instances, revoking, open>>
      BY <1>a, <1>8, <2>0 DEF FailRead, Advance, Handling, admin
  <2>2. NamedHaveNames' /\ OneTunnelEach' /\ RouteHasItsHandler' /\ OneRecordEach'
      BY <1>a, <2>0, <2>1 DEF IInv, NamedHaveNames, OneTunnelEach, RouteHasItsHandler, TypeOK,
         Tunnel, OneRecordEach
  <2>3. \A t \in tunnels : t.conn \in Conns
      BY DEF IInv, TypeOK, Tunnel
  <2>4. RevokedIsDisconnected'
      BY <2>1, <2>3 DEF IInv, RevokedIsDisconnected, Serving, Record
  <2> QED BY <1>0, <2>2, <2>4 DEF IInv
<1>9. ASSUME NEW c \in Conns, Unregister(c) PROVE IInv'
  <2>1. /\ handler' = [handler EXCEPT ![c] = Idle] /\ UNCHANGED <<instances, open, revoking>>
        /\ tunnels' = WithoutPath(c) /\ handler[c].phase \in Registered
      BY <1>9 DEF Unregister, admin, Registered
  <2> QED BY <1>0, <2>1, UnregisterStep
<1>10. ASSUME NEW i \in Instances, LoseConnection(i) PROVE IInv'
  <2>1. /\ UNCHANGED <<tunnels, handler, revoking, instances>> /\ open' \subseteq open
      BY <1>10 DEF LoseConnection, admin
  <2>2. OneRecordEach'
      BY <1>a, <2>1 DEF OneRecordEach
  <2> QED BY <1>0, <2>1, <2>2, StoreStep
<1>11. ASSUME NEW i \in Instances, Revoke(i) PROVE IInv'
  <2>1. PICK x \in Record(i) : instances' = (instances \ {x}) \union {[x EXCEPT !.revoked = TRUE]}
      BY <1>11 DEF Revoke
  <2> DEFINE y == [x EXCEPT !.revoked = TRUE]
  <2>2. /\ x \in instances /\ x.id = i /\ y.id = i
        /\ instances' \subseteq (instances \ {x}) \union {y}
      BY <1>a, <2>1 DEF Record, Instance
  <2> HIDE DEF y
  <2>3. OneRecordEach'
      BY <1>a, <2>2, RecordStep
  <2>4. UNCHANGED <<tunnels, handler, open>> /\ revoking' = revoking \union {i}
      BY <1>11 DEF Revoke
  <2>5. \A z \in instances' : z.id # i => z \in instances
      BY <2>2
  <2> QED BY <1>0, <2>3, <2>4, <2>5, StoreStep
<1>12. ASSUME NEW i \in Instances, DisconnectInstance(i) PROVE IInv'
  <2>1. /\ UNCHANGED <<tunnels, handler, instances>> /\ revoking' = revoking \ {i}
        /\ open' = open \ {t.conn : t \in {s \in tunnels : s.instance = i}}
      BY <1>12 DEF DisconnectInstance
  <2>2. \A t \in tunnels : Serving(t)' => t.instance # i
      BY <2>1 DEF Serving
  <2>3. OneRecordEach'
      BY <1>a, <2>1 DEF OneRecordEach
  <2> QED BY <1>0, <2>1, <2>2, <2>3, StoreStep
<1>13. ASSUME NEW i \in Instances, Unrevoke(i) PROVE IInv'
  <2>1. PICK x \in Record(i) : instances' = (instances \ {x}) \union {[x EXCEPT !.revoked = FALSE]}
      BY <1>13 DEF Unrevoke
  <2> DEFINE y == [x EXCEPT !.revoked = FALSE]
  <2>2. /\ x \in instances /\ x.id = i /\ y.id = i /\ ~y.revoked
        /\ instances' \subseteq (instances \ {x}) \union {y}
      BY <1>a, <2>1 DEF Record, Instance
  <2> HIDE DEF y
  <2>3. OneRecordEach'
      BY <1>a, <2>2, RecordStep
  <2>4. UNCHANGED <<tunnels, handler, open, revoking>>
      BY <1>13 DEF Unrevoke, admin
  <2>5. \A z \in instances' : z.revoked => z \in instances
      BY <2>2
  <2> QED BY <1>0, <2>3, <2>4, <2>5, StoreStep
<1>14. ASSUME NEW i \in Instances, Unreserve(i) PROVE IInv'
  <2>1. PICK x \in Record(i) :
           instances' = (instances \ {x}) \union
               (IF i \in Legacy THEN {} ELSE {[x EXCEPT !.name = NoName]})
      BY <1>14 DEF Unreserve
  <2> DEFINE y == [x EXCEPT !.name = NoName]
  <2>2. /\ x \in instances /\ x.id = i /\ y.id = i /\ y.revoked = x.revoked
        /\ instances' \subseteq (instances \ {x}) \union {y}
      BY <1>a, <2>1 DEF Record, Instance
  <2> HIDE DEF y
  <2>3. OneRecordEach'
      BY <1>a, <2>2, RecordStep
  <2>4. UNCHANGED <<tunnels, handler, open, revoking>>
      BY <1>14 DEF Unreserve, admin
  <2>5. \A z \in instances' : z.revoked => \E w \in instances : w.id = z.id /\ w.revoked
      BY <2>2
  <2> QED BY <1>0, <2>3, <2>4, <2>5, StoreStep
<1>15. CASE DisconnectTunnel
  <2>1. /\ UNCHANGED <<tunnels, handler, revoking, instances>> /\ open' \subseteq open
      BY <1>15 DEF DisconnectTunnel, admin
  <2>2. OneRecordEach'
      BY <1>a, <2>1 DEF OneRecordEach
  <2> QED BY <1>0, <2>1, <2>2, StoreStep
<1>16. CASE PruneIdle
  <2>1. /\ UNCHANGED <<tunnels, handler, revoking, open>> /\ instances' \subseteq instances
      BY <1>16 DEF PruneIdle, admin
  <2>2. OneRecordEach'
      BY <1>a, <2>1 DEF OneRecordEach
  <2> QED BY <1>0, <2>1, <2>2, StoreStep
<1>17. CASE SaveProfile
  <2>1. /\ UNCHANGED <<tunnels, handler, revoking, open>> /\ instances' \subseteq instances
      BY <1>17 DEF SaveProfile, admin
  <2>2. OneRecordEach'
      BY <1>a, <2>1 DEF OneRecordEach
  <2> QED BY <1>0, <2>1, <2>2, StoreStep
<1>18. CASE CloseTunnels
  <2>1. /\ UNCHANGED <<tunnels, handler, revoking, instances>> /\ open' \subseteq open
      BY <1>18 DEF CloseTunnels, admin
  <2>2. OneRecordEach'
      BY <1>a, <2>1 DEF OneRecordEach
  <2> QED BY <1>0, <2>1, <2>2, StoreStep
<1>19. CASE Restart
  <2>1. /\ tunnels' = {} /\ UNCHANGED instances
        /\ \A c \in Conns : handler'[c].phase = "idle"
      BY <1>a, <1>19 DEF Restart
  <2>2. NamedHaveNames' /\ OneRecordEach'
      BY <1>a, <2>1 DEF NamedHaveNames, OneRecordEach
  <2>3. OneTunnelEach' /\ RouteHasItsHandler' /\ RevokedIsDisconnected'
      BY <2>1 DEF OneTunnelEach, RouteHasItsHandler, RevokedIsDisconnected
  <2> QED BY <1>0, <2>2, <2>3 DEF IInv
<1>20. CASE Tick
  <2>1. /\ UNCHANGED <<tunnels, handler, revoking, instances>> /\ open' \subseteq open
      BY <1>20 DEF Tick, admin
  <2>2. OneRecordEach'
      BY <1>a, <2>1 DEF OneRecordEach
  <2> QED BY <1>0, <2>1, <2>2, StoreStep
<1>21. CASE UNCHANGED vars
  <2>1. /\ UNCHANGED <<tunnels, handler, revoking, instances>> /\ open' \subseteq open
      BY <1>21 DEF vars
  <2>2. OneRecordEach'
      BY <1>a, <2>1 DEF OneRecordEach
  <2> QED BY <1>0, <2>1, <2>2, StoreStep
<1> QED
    BY <1>1, <1>2, <1>3, <1>4, <1>5, <1>6, <1>7, <1>8, <1>9, <1>10, <1>11, <1>12, <1>13,
       <1>14, <1>15, <1>16, <1>17, <1>18, <1>19, <1>20, <1>21 DEF Next

-----------------------------------------------------------------------------
(* What a tunnel serves: the stored profile, under the remembered name.    *)

\* profileMu is read-locked from LookUp to Remember: what the handler read of
\* the profile is still what is stored, and no update is under way.
RegistersCurrentProfile ==
    \A c \in Conns : handler[c].phase \in {"locked", "named", "registered"} =>
        /\ ~updating
        /\ handler[c].version = profile.version /\ ~profile.deleted
        /\ handler[c].instance \in Legacy => ~profile.rotated

ServingInv ==
    /\ RegistersCurrentProfile
    /\ ServesCurrentProfile
    /\ ServesUnderItsName

\* What is said of the tunnels that serve holds at the beginning
LEMMA ServingInit == Init => ServingInv
BY DEF Init, Idle, ServingInv, RegistersCurrentProfile, ServesCurrentProfile, ServesUnderItsName

\* A handler that moves on within the read lock, or leaves it, while the profile
\* and the tunnels stay.
LEMMA HandlerStep ==
    ASSUME IInv, ServingInv, NEW c \in Conns,
           UNCHANGED <<profile, updating>>, tunnels' \subseteq tunnels,
           open' \subseteq open \union {c},
           open' \subseteq open \/ handler[c].phase = "idle",
           \A d \in Conns : d # c => handler'[d] = handler[d],
           handler'[c].phase \in {"locked", "named", "registered"} =>
               /\ handler[c].phase \in {"locked", "named", "registered"}
               /\ handler'[c].version = handler[c].version
               /\ handler'[c].instance = handler[c].instance
    PROVE  RegistersCurrentProfile' /\ ServesCurrentProfile'
<1>1. RegistersCurrentProfile'
    BY DEF ServingInv, RegistersCurrentProfile
<1>2. \A t \in tunnels' : t.conn \in open' => t.conn \in open
    BY DEF IInv, RouteHasItsHandler
<1>3. ServesCurrentProfile'
    BY <1>2 DEF ServingInv, ServesCurrentProfile
<1> QED BY <1>1, <1>3

\* A step that makes no tunnel serve and gives no record a new name.
LEMMA NameStep ==
    ASSUME IInv, ServesUnderItsName,
           \A t \in tunnels' : Serving(t)' => t \in tunnels /\ Serving(t),
           \A z \in instances' : z.name # NoName =>
               \E x \in instances : x.id = z.id /\ x.name = z.name
    PROVE  ServesUnderItsName'
BY DEF ServesUnderItsName, Record

\* The same for a step of a handler that does not start to serve.
LEMMA QuietHandlerStep ==
    ASSUME IInv, ServesUnderItsName, NEW c \in Conns,
           tunnels' \subseteq tunnels \/
               \E new : new.conn = c /\ tunnels' = tunnels \union {new},
           open' \subseteq open \union {c}, handler'[c].phase # "serving",
           \A d \in Conns : d # c => handler'[d] = handler[d],
           \A z \in instances' : z.name # NoName =>
               \E x \in instances : x.id = z.id /\ x.name = z.name
    PROVE  ServesUnderItsName'
<1>1. ASSUME NEW t \in tunnels', Serving(t)' PROVE t \in tunnels /\ Serving(t)
  <2>1. t.conn # c
      BY <1>1 DEF Serving
  <2>2. t \in tunnels
      BY <1>1, <2>1
  <2>3. t.conn \in Conns
      BY <2>2 DEF IInv, TypeOK, Tunnel
  <2> QED BY <1>1, <2>1, <2>2, <2>3 DEF Serving
<1> QED BY <1>1, NameStep

\* And for a step of the dashboard or of the store.
LEMMA QuietStoreStep ==
    ASSUME IInv, ServesUnderItsName,
           UNCHANGED <<tunnels, handler>>, open' \subseteq open,
           \A z \in instances' : z.name # NoName =>
               \E x \in instances : x.id = z.id /\ x.name = z.name
    PROVE  ServesUnderItsName'
<1>1. \A t \in tunnels' : Serving(t)' => t \in tunnels /\ Serving(t)
    BY DEF Serving
<1> QED BY <1>1, NameStep

\* and is kept by every step: a registration reads the profile under the store's
\* read lock, and whoever changes it drops the tunnels under the write lock.
LEMMA ServingStep == IInv /\ ServingInv /\ [Next]_vars => ServingInv'
<1> SUFFICES ASSUME IInv, ServingInv, [Next]_vars PROVE ServingInv'
    OBVIOUS
<1>a. /\ instances \subseteq Instance /\ tunnels \subseteq Tunnel
      /\ handler \in [Conns -> HandlerState] /\ profile \in Profile
      /\ ServesUnderItsName
    BY DEF IInv, TypeOK, HandlerState, ServingInv
\* What makes a handler that goes idle, or on to an unlocked phase, harmless.
<1>b. ASSUME NEW c \in Conns,
             handler'[c].phase \notin {"locked", "named", "registered", "serving"},
             \A d \in Conns : d # c => handler'[d] = handler[d],
             UNCHANGED <<profile, updating>>, tunnels' \subseteq tunnels,
             open' \subseteq open \union {c}, open' \subseteq open \/ handler[c].phase = "idle",
             \A z \in instances' : z.name # NoName =>
                 \E x \in instances : x.id = z.id /\ x.name = z.name
      PROVE  ServingInv'
    BY <1>a, <1>b, HandlerStep, QuietHandlerStep DEF ServingInv
<1>c. ASSUME NEW c \in Conns, handler' = [handler EXCEPT ![c] = Idle],
             UNCHANGED <<profile, updating, open, instances>>, tunnels' \subseteq tunnels
      PROVE  ServingInv'
  <2>1. handler'[c].phase \notin {"locked", "named", "registered", "serving"}
      BY <1>a, <1>c DEF Idle
  <2>2. \A d \in Conns : d # c => handler'[d] = handler[d]
      BY <1>a, <1>c
  <2> QED BY <1>b, <1>c, <2>1, <2>2
<1>1. ASSUME NEW i \in Instances, NEW c \in Conns, Connect(i, c) PROVE ServingInv'
  <2>1. /\ handler[c].phase = "idle" /\ handler'[c].phase \in {"idle", "challenged"}
        /\ \A d \in Conns : d # c => handler'[d] = handler[d]
        /\ UNCHANGED <<profile, updating, tunnels, instances>> /\ open' \subseteq open \union {c}
      BY <1>1, <1>a DEF Connect, Idle, admin
  <2> QED BY <1>b, <2>1
<1>2. ASSUME NEW c \in Conns, FailHandshake(c) PROVE ServingInv'
  <2>1. /\ handler' = [handler EXCEPT ![c] = Idle]
        /\ UNCHANGED <<profile, updating, tunnels, instances, open>>
      BY <1>2 DEF FailHandshake, Drop, Refuse, admin
  <2> QED BY <1>c, <2>1
<1>3. ASSUME NEW c \in Conns, Authenticate(c) PROVE ServingInv'
  <2>1. handler[c] \in Handling
      BY <1>3, <1>a, HandlerPhases DEF Authenticate
  <2>2. \/ handler' = [handler EXCEPT ![c].phase = "authenticated"]
        \/ handler' = [handler EXCEPT ![c] = Idle]
      BY <1>3 DEF Authenticate, Drop, Refuse, Advance
  <2>3. /\ handler'[c].phase \in {"authenticated", "idle"}
        /\ \A d \in Conns : d # c => handler'[d] = handler[d]
      BY <1>a, <2>1, <2>2 DEF Idle, Handling
  <2>4. \A z \in instances' : z.name # NoName => z \in instances
    <3>1. instances' = instances \/ Enroll(handler[c].instance)
        BY <1>3 DEF Authenticate
    <3> QED BY <3>1 DEF Enroll, WithoutIdle
  <2>5. UNCHANGED <<profile, updating, tunnels, open>>
      BY <1>3 DEF Authenticate, admin
  <2> QED BY <1>b, <2>3, <2>4, <2>5
<1>4. ASSUME NEW c \in Conns, LookUp(c) PROVE ServingInv'
  <2>1. /\ handler[c].phase = "authenticated" /\ ~updating
        /\ UNCHANGED <<profile, updating, tunnels, instances, open>>
      BY <1>4 DEF LookUp, admin
  <2>2. CASE Refuse(c, "profile") \/ Refuse(c, "active tunnel")
    <3>1. handler' = [handler EXCEPT ![c] = Idle]
        BY <2>2 DEF Refuse
    <3> QED BY <1>c, <2>1, <3>1
  <2>3. ASSUME ~profile.deleted, ~(handler[c].instance \in Legacy /\ profile.rotated),
               NEW n \in Names \union {NoName},
               handler' = [handler EXCEPT ![c] = [phase |-> "locked",
                              instance |-> handler[c].instance, name |-> n,
                              version |-> profile.version]]
        PROVE  ServingInv'
    <3>1. /\ handler'[c].phase = "locked" /\ handler'[c].version = profile.version
          /\ handler'[c].instance = handler[c].instance
          /\ \A d \in Conns : d # c => handler'[d] = handler[d]
        BY <1>a, <2>3
    <3>2. RegistersCurrentProfile'
        BY <2>1, <2>3, <3>1 DEF ServingInv, RegistersCurrentProfile
    <3>3. ServesCurrentProfile'
        BY <2>1 DEF ServingInv, ServesCurrentProfile
    <3>4. ServesUnderItsName'
        BY <1>a, <2>1, <3>1, QuietHandlerStep
    <3> QED BY <3>2, <3>3, <3>4 DEF ServingInv
  <2> QED BY <1>4, <2>2, <2>3 DEF LookUp
<1>5. ASSUME NEW c \in Conns, ChooseName(c) PROVE ServingInv'
  <2>1. /\ handler[c] \in Handling /\ handler[c].phase = "locked"
        /\ UNCHANGED <<profile, updating, tunnels, instances, open>>
      BY <1>5, <1>a, HandlerPhases DEF ChooseName, admin
  <2>2. CASE Refuse(c, "no name")
    <3>1. handler' = [handler EXCEPT ![c] = Idle]
        BY <2>2 DEF Refuse
    <3> QED BY <1>c, <2>1, <3>1
  <2>3. CASE \/ handler' = [handler EXCEPT ![c].phase = "named"]
             \/ \E n \in Names : handler' = [handler EXCEPT ![c].phase = "named", ![c].name = n]
    <3>1. /\ handler'[c].phase = "named" /\ handler'[c].version = handler[c].version
          /\ handler'[c].instance = handler[c].instance
          /\ \A d \in Conns : d # c => handler'[d] = handler[d]
        BY <1>a, <2>1, <2>3 DEF Handling
    <3>2. RegistersCurrentProfile' /\ ServesCurrentProfile'
        BY <2>1, <3>1, HandlerStep
    <3>3. ServesUnderItsName'
        BY <1>a, <2>1, <3>1, QuietHandlerStep
    <3> QED BY <3>2, <3>3 DEF ServingInv
  <2> QED BY <1>5, <2>2, <2>3 DEF ChooseName, Advance
<1>6. ASSUME NEW c \in Conns, Register(c) PROVE ServingInv'
  <2>1. /\ handler[c] \in Handling /\ handler[c].phase = "named"
        /\ UNCHANGED <<profile, updating, instances, open>>
      BY <1>6, <1>a, HandlerPhases DEF Register, admin
  <2>2. ASSUME NEW why, Refuse(c, why), tunnels' = tunnels PROVE ServingInv'
    <3>1. handler' = [handler EXCEPT ![c] = Idle]
        BY <2>2 DEF Refuse
    <3> QED BY <1>c, <2>1, <2>2, <3>1
  <2>3. ASSUME tunnels' = tunnels \union
                   {[conn |-> c, instance |-> handler[c].instance, name |-> handler[c].name,
                     version |-> handler[c].version]},
               Advance(c, "registered")
        PROVE  ServingInv'
    <3> DEFINE new == [conn |-> c, instance |-> handler[c].instance, name |-> handler[c].name,
                       version |-> handler[c].version]
    <3>1. /\ new.conn = c /\ new.instance = handler[c].instance
          /\ new.version = handler[c].version /\ tunnels' = tunnels \union {new}
        BY <2>3
    <3> HIDE DEF new
    <3>2. /\ handler'[c].phase = "registered" /\ handler'[c].version = handler[c].version
          /\ handler'[c].instance = handler[c].instance
          /\ \A d \in Conns : d # c => handler'[d] = handler[d]
        BY <1>a, <2>1, <2>3 DEF Advance, Handling
    <3>3. RegistersCurrentProfile'
        BY <2>1, <3>2 DEF ServingInv, RegistersCurrentProfile
    <3>4. ServesCurrentProfile'
        BY <2>1, <3>1 DEF ServingInv, ServesCurrentProfile, RegistersCurrentProfile
    <3>5. ServesUnderItsName'
        BY <1>a, <2>1, <3>1, <3>2, QuietHandlerStep
    <3> QED BY <3>3, <3>4, <3>5 DEF ServingInv
  <2> QED BY <1>6, <2>2, <2>3 DEF Register
<1>7. ASSUME NEW c \in Conns, Remember(c) PROVE ServingInv'
  <2>1. /\ handler[c] \in Handling /\ handler[c].phase = "registered"
        /\ UNCHANGED <<profile, updating, open>>
      BY <1>7, <1>a, HandlerPhases DEF Remember, admin
  <2>2. CASE Drop(c) /\ tunnels' = WithoutPath(c) /\ instances' = instances
    <3>1. handler' = [handler EXCEPT ![c] = Idle] /\ tunnels' \subseteq tunnels
        BY <2>2 DEF Drop, WithoutPath
    <3> QED BY <1>c, <2>1, <2>2, <3>1
  <2>3. ASSUME NEW x \in Record(handler[c].instance),
               instances' = (WithoutIdle(handler[c].instance) \ {x}) \union
                   {[x EXCEPT !.name = handler[c].name, !.used = now]},
               Serve(c), tunnels' = tunnels
        PROVE  ServingInv'
    <3>1. /\ handler'[c].phase = "serving"
          /\ \A d \in Conns : d # c => handler'[d] = handler[d]
        BY <1>a, <2>1, <2>3 DEF Serve, Handling
    <3> DEFINE y == [x EXCEPT !.name = handler[c].name, !.used = now]
    <3>2. x \in Instance /\ x \in instances /\ x.id = handler[c].instance
        BY <1>a DEF Record
    <3>3. y.id = x.id /\ y.name = handler[c].name
        BY <3>2 DEF Instance
    <3>4. instances' \subseteq (instances \ {x}) \union {y}
        BY <2>3 DEF WithoutIdle
    <3> HIDE DEF y
    <3>5. RegistersCurrentProfile' /\ ServesCurrentProfile'
        BY <2>1, <2>3, <3>1, HandlerStep
    <3>6. ASSUME NEW t \in tunnels, Serving(t)', NEW z \in instances', z.id = t.instance
          PROVE  z.name \in {t.name, NoName}
      <4>1. t.conn \in Conns /\ t.instance = handler[t.conn].instance
            /\ t.name = handler[t.conn].name
          BY <1>a DEF Tunnel, IInv, RouteHasItsHandler
      <4>2. CASE t.conn = c
          BY <1>a, <3>2, <3>3, <3>4, <3>6, <4>1, <4>2 DEF IInv, OneRecordEach
      <4>3. CASE t.conn # c
        <5>1. PICK s \in tunnels : s.conn = c
            BY <2>1 DEF IInv, RouteHasItsHandler
        <5>2. s.instance = handler[c].instance
            BY <5>1 DEF IInv, RouteHasItsHandler
        <5>3. t.instance # handler[c].instance
            BY <4>3, <5>1, <5>2 DEF IInv, OneTunnelEach
        <5>4. z \in instances /\ Serving(t)
            BY <2>1, <3>1, <3>2, <3>3, <3>4, <3>6, <4>1, <4>3, <5>3 DEF Serving
        <5> QED BY <1>a, <3>6, <5>4 DEF ServesUnderItsName, Record
      <4> QED BY <4>2, <4>3
    <3>7. ServesUnderItsName'
        BY <2>3, <3>6 DEF ServesUnderItsName, Record
    <3> QED BY <3>5, <3>7 DEF ServingInv
  <2> QED BY <1>7, <2>2, <2>3 DEF Remember
<1>8. ASSUME NEW c \in Conns, FailRead(c) PROVE ServingInv'
  <2>1. handler[c] \in Handling
      BY <1>8, <1>a, HandlerPhases DEF FailRead
  <2>2. /\ handler'[c].phase = "stopping"
        /\ \A d \in Conns : d # c => handler'[d] = handler[d]
        /\ UNCHANGED <<profile, updating, tunnels, instances, open>>
      BY <1>8, <1>a, <2>1 DEF FailRead, Advance, Handling, admin
  <2> QED BY <1>b, <2>2
<1>9. ASSUME NEW c \in Conns, Unregister(c) PROVE ServingInv'
  <2>1. /\ handler' = [handler EXCEPT ![c] = Idle] /\ tunnels' \subseteq tunnels
        /\ UNCHANGED <<profile, updating, instances, open>>
      BY <1>9 DEF Unregister, WithoutPath, admin
  <2> QED BY <1>c, <2>1
\* The dashboard's steps on the instances and the connections.
<1>10. ASSUME UNCHANGED <<profile, updating, tunnels, handler>>, open' \subseteq open,
              \A z \in instances' : z.name # NoName =>
                  \E x \in instances : x.id = z.id /\ x.name = z.name
       PROVE  ServingInv'
  <2>1. RegistersCurrentProfile' /\ ServesCurrentProfile'
      BY <1>10 DEF ServingInv, RegistersCurrentProfile, ServesCurrentProfile
  <2>2. ServesUnderItsName'
      BY <1>10, <1>a, QuietStoreStep
  <2> QED BY <2>1, <2>2 DEF ServingInv
<1>11. CASE \/ \E i \in Instances : LoseConnection(i) \/ DisconnectInstance(i)
           \/ DisconnectTunnel \/ PruneIdle \/ Tick \/ UNCHANGED vars
  <2>1. /\ UNCHANGED <<profile, updating, tunnels, handler>> /\ open' \subseteq open
        /\ instances' \subseteq instances
      BY <1>11 DEF LoseConnection, DisconnectInstance, DisconnectTunnel, PruneIdle, Tick, vars,
         admin
  <2> QED BY <1>10, <2>1
<1>12. ASSUME NEW i \in Instances, Revoke(i) \/ Unrevoke(i) \/ Unreserve(i) PROVE ServingInv'
  <2>1. UNCHANGED <<profile, updating, tunnels, handler, open>>
      BY <1>12 DEF Revoke, Unrevoke, Unreserve, admin
  <2>2. PICK x \in instances :
           \/ instances' = (instances \ {x}) \union {[x EXCEPT !.revoked = TRUE]}
           \/ instances' = (instances \ {x}) \union {[x EXCEPT !.revoked = FALSE]}
           \/ instances' = (instances \ {x}) \union {[x EXCEPT !.name = NoName]}
           \/ instances' = instances \ {x}
      BY <1>12 DEF Revoke, Unrevoke, Unreserve, Record
  <2>3. \A z \in instances' : z.name # NoName =>
            \E w \in instances : w.id = z.id /\ w.name = z.name
      BY <1>a, <2>2 DEF Instance
  <2> QED BY <1>10, <2>1, <2>3
<1>13. CASE SaveProfile
  <2>1. /\ UNCHANGED <<tunnels, handler, open>> /\ instances' \subseteq instances
        /\ updating' = TRUE /\ ~ProfileReadLocked
      BY <1>13 DEF SaveProfile
  <2>2. RegistersCurrentProfile' /\ ServesCurrentProfile'
      BY <2>1 DEF RegistersCurrentProfile, ServesCurrentProfile, ProfileReadLocked
  <2>3. ServesUnderItsName'
      BY <1>a, <2>1, QuietStoreStep
  <2> QED BY <2>2, <2>3 DEF ServingInv
<1>14. CASE CloseTunnels
  <2>1. /\ UNCHANGED <<profile, tunnels, handler, instances>> /\ updating
        /\ open' = open \ {t.conn : t \in tunnels}
      BY <1>14 DEF CloseTunnels
  <2>2. RegistersCurrentProfile' /\ ServesCurrentProfile'
      BY <2>1 DEF ServingInv, RegistersCurrentProfile, ServesCurrentProfile
  <2>3. ServesUnderItsName'
      BY <1>a, <2>1, QuietStoreStep
  <2> QED BY <2>2, <2>3 DEF ServingInv
<1>15. CASE Restart
  <2>1. tunnels' = {} /\ \A c \in Conns : handler'[c].phase = "idle"
      BY <1>15 DEF Restart, Idle
  <2> QED BY <2>1 DEF ServingInv, RegistersCurrentProfile, ServesCurrentProfile,
          ServesUnderItsName
<1> QED
    BY <1>1, <1>2, <1>3, <1>4, <1>5, <1>6, <1>7, <1>8, <1>9, <1>11, <1>12, <1>13, <1>14, <1>15
       DEF Next

-----------------------------------------------------------------------------
(* The theorems. *)

\* The inductive invariant holds in every state of every registry.
THEOREM Invariant == Spec => []IInv
BY InvInit, InvStep, PTL DEF Spec

\* Every registration, update and failure keeps the state well formed.
THEOREM TypeCorrect == Spec => []TypeOK
<1>1. IInv => TypeOK
    BY DEF IInv
<1> QED BY Invariant, <1>1, PTL

\* chooseApplicationID and registerTunnel take their locks one after the other,
\* and still no installation gets a second tunnel and no path a second owner.
THEOREM TunnelsAreUnique == Spec => []OneTunnelEach
<1>1. IInv => OneTunnelEach
    BY DEF IInv
<1> QED BY Invariant, <1>1, PTL

\* unregisterTunnel deletes by path and takes away its own tunnel only, however
\* many connections, names and instances there are.
THEOREM RoutesAreOwned == Spec => []RouteHasItsHandler
<1>1. IInv => RouteHasItsHandler
    BY DEF IInv
<1> QED BY Invariant, <1>1, PTL

\* A revocation that has returned left no open tunnel of the instance serving,
\* whatever registrations ran during it.
THEOREM RevocationDisconnects == Spec => []RevokedIsDisconnected
<1>1. IInv => RevokedIsDisconnected
    BY DEF IInv
<1> QED BY Invariant, <1>1, PTL

\* What a registration in progress and every open tunnel rely on: the profile is
\* the stored one, and the name is the remembered one.
THEOREM ServingInvariant == Spec => []ServingInv
BY Invariant, ServingInit, ServingStep, PTL DEF Spec

\* profileMu keeps registrations out of updates: outside an update no open
\* tunnel serves a replaced, rotated or deleted profile.
THEOREM TunnelsFollowTheProfile == Spec => []ServesCurrentProfile
<1>1. ServingInv => ServesCurrentProfile
    BY DEF ServingInv
<1> QED BY ServingInvariant, <1>1, PTL

\* No enrollment, pruning, release or registration of another installation
\* changes the name an installation serves under.
THEOREM NamesAreKept == Spec => []ServesUnderItsName
<1>1. ServingInv => ServesUnderItsName
    BY DEF ServingInv
<1> QED BY ServingInvariant, <1>1, PTL
=============================================================================
