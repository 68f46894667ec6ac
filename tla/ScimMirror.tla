----------------------------- MODULE ScimMirror -----------------------------
(***************************************************************************)
(* What a SCIM sync promises about one kind of resource: whatever happens  *)
(* to the jobs that walk the directory, a resource that counts as settled  *)
(* is held by the SCIM service as the directory holds it, and the service  *)
(* only ever receives what the directory holds at that time.  ScimSync     *)
(* implements it.                                                          *)
(***************************************************************************)
CONSTANTS Keys,     \* the resources, by their externalId
          Values,   \* what a resource may look like
          Absent    \* a resource that is deleted, or unknown to the service

VARIABLES local,    \* the directory
          remote,   \* the service
          settled   \* the resources that need no sync

mirrorVars == <<local, remote, settled>>

MirrorInit ==
    /\ local \in [Keys -> Values \union {Absent}]
    /\ remote \in [Keys -> Values \union {Absent}]
    /\ settled \in [Keys -> BOOLEAN]
    /\ \A k \in Keys : settled[k] => remote[k] = local[k]

\* An edit of the directory unsettles what it changes.
Edit(keys) ==
    /\ local' \in [Keys -> Values \union {Absent}]
    /\ \A k \in Keys \ keys : local'[k] = local[k]
    /\ settled' = [k \in Keys |-> settled[k] /\ k \notin keys]
    /\ UNCHANGED remote

\* A request writes one resource as the directory holds it.
Write(k) ==
    /\ remote' = [remote EXCEPT ![k] = local[k]]
    /\ UNCHANGED <<local, settled>>

\* The end of a job settles what the service holds; it may unsettle others.
Settle(keys) ==
    /\ settled' = [k \in Keys |-> k \in keys]
    /\ \A k \in keys : remote[k] = local[k]
    /\ UNCHANGED <<local, remote>>

\* Somebody else changes the service, the directory is replaced by what the
\* service held, or the environment is pointed at another service: from then on,
\* or until everything is sent again, nothing counts as settled.
Disturb ==
    /\ remote' \in [Keys -> Values \union {Absent}]
    /\ local' \in [Keys -> Values \union {Absent}]
    /\ settled' = [k \in Keys |-> FALSE]

MirrorNext ==
    \/ Disturb
    \/ \E keys \in SUBSET Keys : Edit(keys) \/ Settle(keys)
    \/ \E k \in Keys : Write(k)

MirrorSpec == MirrorInit /\ [][MirrorNext]_mirrorVars
=============================================================================
