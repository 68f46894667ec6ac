------------------------------ MODULE Enrollment ------------------------------
(***************************************************************************)
(* How an installation is authorized (internal/server/enrollment.go and    *)
(* enrollment_replacement.go): the pending authorizations with their three *)
(* indexes, the GitHub logins of the browsers that confirm them, the       *)
(* choice of an installation to give up at the account's limit, the grant  *)
(* that the client (internal/client) polls for and redeems, and the        *)
(* dashboard's revocations.                                                *)
(*                                                                         *)
(* One profile and one client network.  Everything but the instances is in *)
(* memory under enrollMu; each action is what one call does under it.      *)
(* An authorization's device, user and handoff codes are random and belong *)
(* to it alone: one member of Codes stands for the three.  Entries expire  *)
(* at any time, which every handler's pruning makes the same as their      *)
(* being gone.                                                             *)
(***************************************************************************)
EXTENDS Integers, FiniteSets

CONSTANTS Installations, Accounts, Codes, Tabs,
          NoInstallation, NoAccount, NoCode,
          Limit,       \* installationLimit
          IPLimit      \* enrollmentsPerIPLimit

VARIABLES
    pending,     \* pendingEnrollments; account is the actor of an approved one
    byUserCode,  \* the codes in pendingByUserCode
    byHandoff,   \* the codes in pendingByHandoff
    byBinding,   \* pendingByBinding
    recent,      \* approvals in the network's enrollmentWindow
    intents,     \* oauthIntents of enrollments
    replacing,   \* replacementIntents
    tab,         \* the request each browser tab has in progress
    client,      \* each installation's client
    instances,   \* the store
    idle,        \* installations past applicationInstanceMaxIdle
    drawn,       \* the codes drawn so far
    spent,       \* history: the codes that enrolled an installation
    logins       \* history: who GitHub said confirmed which code

memory == <<pending, byUserCode, byHandoff, byBinding, recent, intents, replacing>>
stored == <<instances, idle>>
history == <<drawn, spent, logins>>
vars == <<memory, tab, client, stored, history>>

Enrollment == [code : Codes, instance : Installations, account : Accounts \union {NoAccount}]
Free == [at |-> "free", code |-> NoCode, account |-> NoAccount, chosen |-> NoInstallation]
Down == [phase |-> "down", code |-> NoCode]

TypeOK ==
    /\ pending \subseteq Enrollment
    /\ byUserCode \subseteq Codes /\ byHandoff \subseteq Codes
    /\ byBinding \in [Installations -> Codes \union {NoCode}]
    /\ recent \in Nat
    /\ intents \subseteq [code : Codes, tab : Tabs]
    /\ replacing \subseteq [code : Codes, account : Accounts, tab : Tabs]
    /\ tab \in [Tabs -> [at : {"free", "handoff", "page", "callback", "listing", "chosen"},
                         code : Codes \union {NoCode},
                         account : Accounts \union {NoAccount},
                         chosen : Installations \union {NoInstallation}]]
    /\ client \in [Installations -> [phase : {"down", "polling", "granted", "connected", "stopped"},
                                     code : Codes \union {NoCode}]]
    /\ instances \subseteq [id : Installations, account : Accounts, revoked : BOOLEAN]
    /\ idle \subseteq Installations
    /\ drawn \subseteq Codes /\ spent \subseteq Codes
    /\ logins \subseteq [code : Codes, account : Accounts]

-----------------------------------------------------------------------------
(* The state under enrollMu. *)

Find(c) == {p \in pending : p.code = c}
Unapproved(c) == \E p \in Find(c) : p.account = NoAccount

\* deletePendingEnrollmentLocked, of every enrollment in `gone'.
Delete(gone) ==
    LET codes == {p.code : p \in gone}
    IN /\ pending' = pending \ gone
       /\ byUserCode' = byUserCode \ codes
       /\ byHandoff' = byHandoff \ codes
       /\ byBinding' = [i \in Installations |->
                           IF byBinding[i] \in codes THEN NoCode ELSE byBinding[i]]
       /\ replacing' = {r \in replacing : r.code \notin codes}

\* Seeded defect: the authorization stays after its grant has been redeemed.
DeleteFromPage(gone) ==
    /\ byUserCode' = byUserCode \ {p.code : p \in gone}
    /\ UNCHANGED <<pending, byHandoff, byBinding, replacing>>
Redeemed(gone) == Delete(gone)

\* CountApplicationInstancesByGitHubUserID, enrollmentCountLocked.
Enrolled(kept, a) == {x \in kept : x.account = a /\ ~x.revoked}
Approved(c, a) == {p \in pending : p.code # c /\ p.account = a}
\* Seeded defect: approved installations that have not connected do not count.
CountEnrolled(kept, c, a) == Cardinality(Enrolled(kept, a))
Count(kept, c, a) == Cardinality(Enrolled(kept, a)) + Cardinality(Approved(c, a))
AtLimit(kept, c, a) == Count(kept, c, a) >= Limit

\* PruneIdleApplicationInstances keeps the connected ones.
Kept(connected) == {x \in instances : x.revoked \/ x.id \notin idle \/ x.id \in connected}

\* approvePendingEnrollmentLocked, with what else leaves the pending ones.
Approve(c, a, gone) ==
    LET codes == {p.code : p \in gone}
    IN /\ pending' = {IF p.code = c THEN [p EXCEPT !.account = a] ELSE p : p \in pending \ gone}
       /\ byUserCode' = byUserCode \ codes
       /\ byHandoff' = byHandoff \ (codes \union {c})
       /\ byBinding' = [i \in Installations |->
                           IF byBinding[i] \in codes THEN NoCode ELSE byBinding[i]]
       /\ replacing' = {r \in replacing : r.code \notin codes \union {c}}
       /\ recent' = recent + 1

-----------------------------------------------------------------------------
(* The client, and the server's answers to it. *)

To(i, phase, c) == client' = [client EXCEPT ![i] = [phase |-> phase, code |-> c]]

\* verifyEnrolledRegistration without a grant.
Connect(i) ==
    /\ client[i].phase = "down"
    /\ \E x \in instances :
          /\ x.id = i
          /\ IF x.revoked THEN To(i, "stopped", NoCode) /\ UNCHANGED idle
                          ELSE To(i, "connected", NoCode) /\ idle' = idle \ {i}
    /\ UNCHANGED <<memory, tab, instances, history>>

\* beginEnrollment: the binding's last authorization goes even if the new one
\* is then refused, by the limit of the network or by pendingEnrollmentLimit,
\* which the authorizations of other networks may reach at any time.
Begin(i, c) ==
    /\ client[i].phase = "down" /\ ~\E x \in instances : x.id = i
    /\ c \notin drawn
    /\ LET others == {p \in pending : p.code # byBinding[i]}
           throttled == recent + Cardinality({p \in others : p.account = NoAccount}) >= IPLimit
           dropped == {byBinding[i]}
       IN \E refused \in {throttled, TRUE} :
          /\ pending' = others \union
                 IF refused THEN {} ELSE {[code |-> c, instance |-> i, account |-> NoAccount]}
          /\ byUserCode' = (byUserCode \ dropped) \union IF refused THEN {} ELSE {c}
          /\ byHandoff' = (byHandoff \ dropped) \union IF refused THEN {} ELSE {c}
          /\ byBinding' = [byBinding EXCEPT ![i] = IF refused THEN NoCode ELSE c]
          /\ replacing' = {r \in replacing : r.code \notin dropped}
          /\ drawn' = IF refused THEN drawn ELSE drawn \union {c}
          /\ IF refused THEN To(i, "stopped", NoCode) ELSE To(i, "polling", c)
    /\ UNCHANGED <<recent, intents, tab, stored, spent, logins>>

\* pollEnrollment, handleEnrollmentStatus: 404 stops the client for good.
Poll(i) ==
    /\ client[i].phase = "polling"
    /\ ~Unapproved(client[i].code)
    /\ IF Find(client[i].code) = {} THEN To(i, "stopped", NoCode)
                                    ELSE To(i, "granted", client[i].code)
    /\ UNCHANGED <<memory, tab, stored, history>>

\* consumeEnrollmentGrant: the grant outlives a store that fails, the client,
\* refused with ClosePolicyViolation, does not use it again.
Redeem(i) ==
    /\ client[i].phase = "granted"
    /\ \/ /\ To(i, "stopped", NoCode)
          /\ UNCHANGED <<memory, stored, history>>
       \/ \E p \in Find(client[i].code) :
             /\ p.account # NoAccount /\ p.instance = i
             /\ ~\E x \in instances : x.id = i /\ x.revoked
             /\ instances' = {x \in instances : x.id # i /\ (x.revoked \/ x.id \notin idle)} \union
                    {[id |-> i, account |-> p.account, revoked |-> FALSE]}
             /\ idle' = idle \ {i}
             /\ Redeemed({p})
             /\ spent' = spent \union {p.code}
             /\ To(i, "connected", NoCode)
             /\ UNCHANGED <<recent, intents, drawn, logins>>
    /\ UNCHANGED tab

\* The application or its connection ends; the store notices disuse.
Leave(i) ==
    /\ client[i].phase # "down"
    /\ To(i, "down", NoCode)
    /\ UNCHANGED <<memory, tab, stored, history>>
GoIdle(i) ==
    /\ client[i].phase # "connected" /\ i \notin idle
    /\ \E x \in instances : x.id = i
    /\ idle' = idle \union {i}
    /\ UNCHANGED <<memory, tab, client, instances, history>>

-----------------------------------------------------------------------------
(* The browser. *)

At(t, at, c, a, i) ==
    tab' = [tab EXCEPT ![t] = [at |-> at, code |-> c, account |-> a, chosen |-> i]]
Done(t) == tab' = [tab EXCEPT ![t] = Free]

\* takeEnrollmentBrowserHandoff; startEnrollmentAuthorization.
TakeHandoff(t, c) ==
    /\ tab[t] = Free /\ c \in byHandoff
    /\ byHandoff' = byHandoff \ {c}
    /\ IF Unapproved(c) THEN At(t, "handoff", c, NoAccount, NoInstallation) ELSE UNCHANGED tab
    /\ UNCHANGED <<pending, byUserCode, byBinding, recent, intents, replacing, client, stored, history>>
Confirm(t, c) ==
    /\ tab[t] = Free /\ c \in byUserCode /\ Find(c) # {}
    /\ At(t, "page", c, NoAccount, NoInstallation)
    /\ UNCHANGED <<memory, client, stored, history>>

\* beginGitHubOAuth leaves one login per authorization; if it fails,
\* restoreEnrollmentBrowserHandoff.
BeginGitHubOAuth(t) ==
    /\ tab[t].at \in {"handoff", "page"}
    /\ intents' = {x \in intents : x.code # tab[t].code} \union {[code |-> tab[t].code, tab |-> t]}
    /\ Done(t)
    /\ UNCHANGED <<pending, byUserCode, byHandoff, byBinding, recent, replacing, client, stored, history>>
Restorable(c) == Unapproved(c)
Restored(c) == IF Restorable(c) THEN byHandoff \union {c} ELSE byHandoff
FailGitHubOAuth(t) ==
    /\ tab[t].at \in {"handoff", "page"}
    /\ byHandoff' = IF tab[t].at = "handoff" THEN Restored(tab[t].code) ELSE byHandoff
    /\ Done(t)
    /\ UNCHANGED <<pending, byUserCode, byBinding, recent, intents, replacing, client, stored, history>>

\* handleGitHubCallback: takeOAuthIntent, then the exchange with GitHub ...
Callback(t, c) ==
    /\ tab[t] = Free /\ [code |-> c, tab |-> t] \in intents
    /\ intents' = intents \ {[code |-> c, tab |-> t]}
    /\ At(t, "callback", c, NoAccount, NoInstallation)
    /\ UNCHANGED <<pending, byUserCode, byHandoff, byBinding, recent, replacing, client, stored, history>>
FailCallback(t) ==
    /\ tab[t].at = "callback"
    /\ Done(t)
    /\ UNCHANGED <<memory, client, stored, history>>
\* ... then approveEnrollment for whom GitHub says is there.
ApproveEnrollment(t, a) ==
    LET c == tab[t].code
    IN /\ tab[t].at = "callback"
       /\ logins' = logins \union {[code |-> c, account |-> a]}
       /\ IF ~Unapproved(c)
          THEN Done(t) /\ UNCHANGED <<memory, stored>>
          ELSE \E connected \in SUBSET idle :
                  /\ instances' = Kept(connected)
                  /\ IF AtLimit(Kept(connected), c, a)
                     THEN At(t, "listing", c, a, NoInstallation) /\ UNCHANGED memory
                     ELSE Approve(c, a, {}) /\ Done(t) /\ UNCHANGED intents
                  /\ UNCHANGED idle
       /\ UNCHANGED <<client, drawn, spent>>

\* renderEnrollmentReplacement, createEnrollmentReplacementIntent.
\* Seeded defect: what was checked before the page was made is not checked again.
OfferableAlways(c) == TRUE
Offerable(c) == Unapproved(c)
Offer(t) ==
    LET c == tab[t].code
    IN /\ tab[t].at = "listing"
       /\ \/ UNCHANGED replacing
          \/ /\ Offerable(c)
             /\ replacing' = {r \in replacing : r.code # c} \union
                    {[code |-> c, account |-> tab[t].account, tab |-> t]}
       /\ Done(t)
       /\ UNCHANGED <<pending, byUserCode, byHandoff, byBinding, recent, intents, client, stored, history>>

\* handleEnrollmentReplacement up to replaceEnrollment ...
Choose(t, r, i) ==
    /\ tab[t] = Free /\ r \in replacing /\ r.tab = t
    /\ replacing' = replacing \ {r}
    /\ At(t, "chosen", r.code, r.account, i)
    /\ UNCHANGED <<pending, byUserCode, byHandoff, byBinding, recent, intents, client, stored, history>>

\* ... and replaceEnrollment.
Replace(t) ==
    LET c == tab[t].code  a == tab[t].account  i == tab[t].chosen
        approved == {p \in Approved(c, a) : p.instance = i}
    IN /\ tab[t].at = "chosen"
       /\ \/ Done(t) /\ UNCHANGED <<memory, stored>>   \* the store fails
          \/ /\ ~Unapproved(c)
             /\ Done(t) /\ UNCHANGED <<memory, stored>>
          \/ /\ Unapproved(c)
             /\ \E connected \in SUBSET idle :
                   LET kept == Kept(connected)
                       given == {x \in Enrolled(kept, a) : x.id = i}
                   IN \/ /\ ~AtLimit(kept, c, a)
                         /\ instances' = kept
                         /\ Approve(c, a, {}) /\ Done(t)
                      \/ /\ AtLimit(kept, c, a) /\ given # {}
                         /\ instances' = (kept \ given) \union
                                {[x EXCEPT !.revoked = TRUE] : x \in given}
                         /\ Approve(c, a, {}) /\ Done(t)
                      \/ /\ AtLimit(kept, c, a) /\ given = {}
                         /\ instances' = kept
                         /\ \E p \in approved : Approve(c, a, {p}) /\ Done(t)
                      \/ /\ AtLimit(kept, c, a) /\ given = {} /\ approved = {}
                         /\ instances' = kept
                         /\ At(t, "listing", c, a, NoInstallation)
                         /\ UNCHANGED <<pending, byUserCode, byHandoff, byBinding, replacing, recent>>
             /\ UNCHANGED <<intents, idle>>
       /\ UNCHANGED <<client, history>>

-----------------------------------------------------------------------------
(* The dashboard, time and crashes. *)

\* handleRevokeApplicationInstance; revoking closes the tunnel.
SetRevoked(x, revoked) ==
    /\ x \in instances /\ x.revoked # revoked
    /\ instances' = (instances \ {x}) \union {[x EXCEPT !.revoked = revoked]}
    /\ client' = [i \in Installations |->
                     IF revoked /\ i = x.id /\ client[i].phase = "connected" THEN Down ELSE client[i]]
    /\ UNCHANGED <<memory, tab, idle, history>>

\* pruneEnrollmentStateLocked.
ExpireEnrollment(p) ==
    /\ p \in pending
    /\ Delete({p})
    /\ UNCHANGED <<recent, intents, tab, client, stored, history>>
ExpireIntents ==
    /\ \/ \E x \in intents : intents' = intents \ {x} /\ UNCHANGED <<recent, replacing>>
       \/ \E r \in replacing : replacing' = replacing \ {r} /\ UNCHANGED <<recent, intents>>
       \/ recent > 0 /\ recent' = recent - 1 /\ UNCHANGED <<intents, replacing>>
    /\ UNCHANGED <<pending, byUserCode, byHandoff, byBinding, tab, client, stored, history>>

Unbound == [i \in Installations |-> NoCode]

Restart ==
    /\ pending' = {} /\ byUserCode' = {} /\ byHandoff' = {} /\ byBinding' = Unbound
    /\ recent' = 0 /\ intents' = {} /\ replacing' = {}
    /\ tab' = [t \in Tabs |-> Free]
    /\ client' = [i \in Installations |->
                     IF client[i].phase = "connected" THEN Down ELSE client[i]]
    /\ UNCHANGED <<stored, history>>

-----------------------------------------------------------------------------
Init ==
    /\ pending = {} /\ byUserCode = {} /\ byHandoff = {} /\ byBinding = Unbound
    /\ recent = 0 /\ intents = {} /\ replacing = {}
    /\ tab = [t \in Tabs |-> Free]
    /\ client = [i \in Installations |-> Down]
    /\ instances = {} /\ idle = {}
    /\ drawn = {} /\ spent = {} /\ logins = {}

ClientNext ==
    \E i \in Installations :
        \/ Connect(i) \/ Poll(i) \/ Redeem(i) \/ Leave(i) \/ GoIdle(i)
        \/ \E c \in Codes : Begin(i, c)
TabNext ==
    \E t \in Tabs :
        \/ BeginGitHubOAuth(t) \/ FailGitHubOAuth(t) \/ FailCallback(t) \/ Offer(t) \/ Replace(t)
        \/ \E c \in Codes : TakeHandoff(t, c) \/ Confirm(t, c) \/ Callback(t, c)
        \/ \E a \in Accounts : ApproveEnrollment(t, a)
        \/ \E r \in replacing, i \in Installations : Choose(t, r, i)
Next ==
    \/ ClientNext
    \/ TabNext
    \/ \E x \in instances, revoked \in BOOLEAN : SetRevoked(x, revoked)
    \/ \E p \in pending : ExpireEnrollment(p)
    \/ ExpireIntents
    \/ Restart

Spec == Init /\ [][Next]_vars

-----------------------------------------------------------------------------
(* Properties. *)

\* The indexes and what hangs on an authorization stay in step with it
\* through replacements, expiry, approvals and handoffs that come back late:
\* an index leads to a live one and to one per installation, and a handoff or
\* an offer to replace an installation only to one nobody has approved
\* (enrollment.go:648, :838; enrollment_replacement.go:308).
IndexesAgree ==
    /\ byUserCode = {p.code : p \in pending}
    /\ \A p \in pending : byBinding[p.instance] = p.code
    /\ \A c \in byHandoff : Unapproved(c)
    /\ \A r \in replacing : Unapproved(r.code)

\* A grant enrolls one installation once, for an account that GitHub named in
\* a login that confirmed it: what enrolled an installation is not pending
\* any more (enrollment.go:724-744), and whoever an approval or an offer is
\* for, that account confirmed that very code.
GrantsAreSpent ==
    /\ spent \cap {p.code : p \in pending} = {}
    /\ \A p \in pending : p.account # NoAccount =>
          [code |-> p.code, account |-> p.account] \in logins
    /\ \A r \in replacing : [code |-> r.code, account |-> r.account] \in logins

\* An account's enrolled installations and the approved ones that have yet to
\* connect grow above its limit only when an administrator un-revokes one,
\* however its approvals, replacements and prunings interleave
\* (enrollment.go:697, enrollment_replacement.go:421; dashboard.go:364).
Promised(a) == {p \in pending : p.account = a}
Admitted(a) == Cardinality(Enrolled(instances, a)) + Cardinality(Promised(a))
Unrevokes == \E x \in instances : x.revoked /\ [x EXCEPT !.revoked = FALSE] \in instances'
AdmitsWithinLimit ==
    \A a \in Accounts : Admitted(a)' > Admitted(a) /\ ~Unrevokes => Admitted(a)' <= Limit
WithinLimit == [][AdmitsWithinLimit]_vars
=============================================================================
