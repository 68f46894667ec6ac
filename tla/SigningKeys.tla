---------------------------- MODULE SigningKeys ----------------------------
(***************************************************************************)
(* The signing key ring of one environment (internal/web/signing_keys.go): *)
(* the shared key signs until the first rotation, a rotation retires the   *)
(* active key and keeps it published for a grace period, the JWKS and the  *)
(* SAML metadata publish the ring, and a restored backup replaces it. A    *)
(* rotation takes the time before it waits for a.mu.                       *)
(***************************************************************************)
EXTENDS Integers, Sequences, SequencesExt

CONSTANTS Handlers,             \* handlers that rotate, each once at a time
          MaxKeys,              \* bound: rotations
          MaxGrace,             \* maxSigningKeyGrace, in ticks
          MaxNow                \* bound: the clock

Shared == 0                 \* sharedSigningKeyID
Keys == 0 .. MaxKeys
Never == MaxNow + MaxGrace + 1      \* PublishedUntil of the active key: zero

VARIABLES
    ring,       \* Config.SigningKeys, oldest first
    next,       \* the next key's ID
    rotating,   \* handlers' requests: the time they took and the grace they ask
    backup,     \* the ring of a downloaded backup
    now,
    promise     \* history: until when each key was said to be published

vars == <<ring, next, rotating, backup, now, promise>>

Entries == [id : Keys, until : 0 .. Never]
Idle == [at |-> Never, grace |-> 0]

TypeOK ==
    /\ ring \in Seq(Entries) /\ backup \in Seq(Entries)
    /\ next \in 1 .. MaxKeys + 1
    /\ rotating \in [Handlers -> [at : 0 .. Never, grace : 0 .. MaxGrace]]
    /\ now \in 0 .. MaxNow
    /\ promise \in [Keys -> 0 .. Never]

Init ==
    /\ ring = <<>> /\ backup = <<>>
    /\ next = 1
    /\ rotating = [h \in Handlers |-> Idle]
    /\ now = 0
    /\ promise = [k \in Keys |-> IF k = Shared THEN Never ELSE 0]

\* A ring that never rotated starts from the shared key.
FromShared(r) == IF r = <<>> THEN <<[id |-> Shared, until |-> Never]>> ELSE r

\* activeSigningKey and publishedSigningKeys.
Active == Last(FromShared(ring)).id
Published ==
    LET r == FromShared(ring)
    IN  {r[i].id : i \in {j \in DOMAIN r : j = Len(r) \/ now < r[j].until}}

\* rotateSigningKeys: only the active key is given a grace period, and keys whose
\* grace has ended are dropped.
Unexpired(r, t) ==
    LET kept[n \in 0 .. Len(r)] ==
            IF n = 0 THEN <<>>
            ELSE IF t < r[n].until THEN Append(kept[n - 1], r[n]) ELSE kept[n - 1]
    IN  kept[Len(r)]
Rotated(r, t, grace, id) ==
    Append(Unexpired([r EXCEPT ![Len(r)].until = t + grace], t), [id |-> id, until |-> Never])
\* Seeded defect: every key of the ring is given the new grace period.
RotatedAll(r, grace, id) ==
    Append([i \in DOMAIN r |-> [r[i] EXCEPT !.until = now + grace]],
           [id |-> id, until |-> Never])

\* handleSigningKeyRotate, handleAPISigningKeyRotate, parseSigningKeyGrace.
Request(h, grace) ==
    /\ rotating[h] = Idle
    /\ rotating' = [rotating EXCEPT ![h] = [at |-> now, grace |-> grace]]
    /\ UNCHANGED <<ring, next, backup, now, promise>>

\* Seeded defect: see RotatedAll.
RotateAll(h) ==
    /\ rotating[h] # Idle /\ next <= MaxKeys
    /\ ring' = RotatedAll(FromShared(ring), rotating[h].grace, next)
    /\ promise' = [promise EXCEPT ![Active] = rotating[h].at + rotating[h].grace,
                                  ![next] = Never]
    /\ next' = next + 1
    /\ rotating' = [rotating EXCEPT ![h] = Idle]
    /\ UNCHANGED <<backup, now>>
\* rotateEnvironmentSigningKey, under a.mu.
Rotate(h) ==
    /\ rotating[h] # Idle /\ next <= MaxKeys
    /\ ring' = Rotated(FromShared(ring), rotating[h].at, rotating[h].grace, next)
    /\ promise' = [promise EXCEPT ![Active] = rotating[h].at + rotating[h].grace,
                                  ![next] = Never]
    /\ next' = next + 1
    /\ rotating' = [rotating EXCEPT ![h] = Idle]
    /\ UNCHANGED <<backup, now>>

\* handleBackupDownload and handleBackupRestore: the ring goes with the
\* environment, and what a key was promised with it.
Download ==
    /\ backup' = ring
    /\ UNCHANGED <<ring, next, rotating, now, promise>>
Restore ==
    /\ ring' = backup
    /\ promise' = [k \in Keys |->
           LET r == FromShared(backup)
               found == {i \in DOMAIN r : r[i].id = k}
           IN  IF found = {} THEN 0 ELSE r[CHOOSE i \in found : TRUE].until]
    /\ UNCHANGED <<next, rotating, backup, now>>

Tick ==
    /\ now < MaxNow
    /\ now' = now + 1
    /\ UNCHANGED <<ring, next, rotating, backup, promise>>

Next ==
    \/ \E h \in Handlers : Rotate(h) \/ \E g \in 0 .. MaxGrace : Request(h, g)
    \/ Download \/ Restore \/ Tick

Spec == Init /\ [][Next]_vars

\* "retires the active key, keeps it published for grace": what relying parties
\* can verify with is exactly what rotations said, whatever rotations with other
\* grace periods overtook each other, and whatever backups were restored.
PublishedAsPromised ==
    /\ Published = {k \in Keys : now < promise[k]}
    /\ Active \in Published
=============================================================================
