----------------------------- MODULE StateStore -----------------------------
(***************************************************************************)
(* The SQLite state file (internal/core/state.go): opening it, the copy    *)
(* made before an upgrade, the migrations, each in a transaction of its    *)
(* own, the import of the JSON file of the earliest versions, the signing  *)
(* key that startup adds, and the saves and deletions of environments      *)
(* afterwards. The process may die between any two transactions and start  *)
(* again. A directory is abstracted to the IDs of its users: the other     *)
(* tables (groups, members, logs) are copied and deleted by the same       *)
(* statements.                                                             *)
(***************************************************************************)
EXTENDS Integers, Sequences, FiniteSets

CONSTANTS
    Environments,   \* environments of a database of an older version
    Apps,           \* the apps users create
    Users,          \* IDs of users
    Default,        \* DefaultEnvironmentID
    MaxCopies,      \* maxPreMigrationCopies
    MaxStarts       \* bound: starts of the process

\* An environment's SCIM settings become an app of this ID.
Migrated(e) == <<"migrated_scim_", e>>
AllApps == Apps \cup {Default} \cup {Migrated(e) : e \in Environments \cup {Default}}
AllEnvironments == Environments \cup AllApps

VARIABLES
    db,         \* the database, see below
    json,       \* the legacy JSON file, never removed: users, apps, a SCIM base URL
    copies,     \* files in backups/, oldest first: is it the database as it was?
    pc,         \* how far the process has come; "closed" when it does not run
    starts,
    original,   \* history: the database of the older version
    touched,    \* history: apps saved or deleted by a user's request
    gone,       \* history: those deleted and not there again
    torn        \* history: the process died in the middle of an import

vars == <<db, json, copies, pc, starts, original, touched, gone, torn>>
history == <<original, touched, gone, torn>>

\* ver: PRAGMA user_version is the current one; tables: there are tables;
\* envs: rows of environments; owner: each app's environment_id; users: rows of
\* users; base: environments with a SCIM base URL; scim: apps with scim_enabled;
\* rows: app_user_sync; scoped: the environment is part of the users' key;
\* moved, owned: the markers of the two migrations; key: the signing key is set.
Database == [ver : BOOLEAN, tables : BOOLEAN, envs : SUBSET AllEnvironments,
             owner : UNION {[A -> AllEnvironments] : A \in SUBSET AllApps},
             users : SUBSET (AllEnvironments \X Users), base : SUBSET AllEnvironments,
             scim : SUBSET AllApps, rows : SUBSET (AllApps \X Users),
             scoped : BOOLEAN, moved : BOOLEAN, owned : BOOLEAN, key : BOOLEAN]
NoOwner == [a \in {} |-> Default]
Fresh == [ver |-> FALSE, tables |-> FALSE, envs |-> {}, owner |-> NoOwner, users |-> {},
          base |-> {}, scim |-> {}, rows |-> {}, scoped |-> FALSE, moved |-> FALSE,
          owned |-> FALSE, key |-> FALSE]
NoJSON == [there |-> FALSE, users |-> {}, apps |-> {}, base |-> FALSE]

TypeOK ==
    /\ \A f \in DOMAIN Fresh \ {"owner", "users", "rows", "envs", "base", "scim"} :
           db[f] \in BOOLEAN
    /\ db.envs \cup db.base \subseteq AllEnvironments
    /\ DOMAIN db.owner \cup db.scim \subseteq AllApps
    /\ db.users \subseteq AllEnvironments \X Users
    /\ db.rows \subseteq AllApps \X Users
    /\ copies \in Seq(BOOLEAN) /\ Len(copies) <= MaxCopies
    /\ pc \in {"closed", "copy", "schema", "default", "scim", "own", "stamp", "load",
               "import", "distribute", "key", "running"}
    /\ gone \subseteq touched /\ touched \subseteq AllApps /\ torn \in BOOLEAN /\ starts \in 0 .. MaxStarts

\* The databases older versions left: environments that share apps and users.
Older ==
    {[Fresh EXCEPT !.tables = TRUE, !.envs = Environments \cup {Default}, !.owner = o,
                   !.users = u, !.base = b, !.scoped = s, !.key = TRUE] :
        o \in UNION {[A -> Environments \cup {Default}] : A \in SUBSET Apps},
        u \in SUBSET ((Environments \cup {Default}) \X Users),
        b \in SUBSET Environments, s \in BOOLEAN}
UniqueIDs(d) == \A p, q \in d.users : p[2] = q[2] => p = q

Init ==
    /\ \/ /\ json = NoJSON
          /\ db \in {d \in Older : d.scoped \/ UniqueIDs(d)}
       \/ /\ db = Fresh
          /\ json \in [there : {TRUE}, users : SUBSET Users, apps : SUBSET Apps,
                       base : BOOLEAN] \cup {NoJSON}
    /\ original = db
    /\ copies = <<>> /\ pc = "closed" /\ starts = 0
    /\ touched = {} /\ gone = {} /\ torn = FALSE

In(d, e) == {u \in Users : <<e, u>> \in d.users}
Has(d) == DOMAIN d.owner
Owning(d, A, e) == [a \in Has(d) \cup A |-> IF a \in A THEN e ELSE d.owner[a]]

-----------------------------------------------------------------------------
(* Opening the database. *)

\* openStateDB, prepareStateDB: a current database skips the copy.
Open ==
    /\ pc = "closed" /\ starts < MaxStarts
    /\ starts' = starts + 1
    /\ pc' = IF ~db.ver /\ db.tables THEN "copy" ELSE "schema"
    /\ UNCHANGED <<db, json, copies, history>>

\* writePreMigrationCopy and prunePreMigrationCopies.
Pruned(s) == IF Len(s) > MaxCopies THEN Tail(s) ELSE s
WriteCopy ==
    /\ pc = "copy"
    /\ copies' = Pruned(Append(copies, db = original))
    /\ pc' = "schema"
    /\ UNCHANGED <<db, json, starts, history>>

\* initStateDB, migrateEnvironmentScopedDirectoryKeys.
CreateSchema ==
    /\ pc = "schema"
    /\ db' = [db EXCEPT !.tables = TRUE, !.scoped = TRUE]
    /\ pc' = "default"
    /\ UNCHANGED <<json, copies, starts, history>>

MigrateDefaultEnvironment ==
    /\ pc = "default"
    /\ db' = [db EXCEPT !.envs = @ \cup {Default}]
    /\ pc' = "scim"
    /\ UNCHANGED <<json, copies, starts, history>>

\* migrateEnvironmentSCIMToApps: an environment with SCIM settings and no app
\* gets one; the apps take over their environment's settings; a SCIM app gets a
\* row for every user of the database.
SCIMToApps(d) ==
    LET homeless == {e \in d.base \cap d.envs : \A a \in Has(d) : d.owner[a] # e}
        owner == [a \in Has(d) \cup {Migrated(e) : e \in homeless} |->
                    IF a \in Has(d) THEN d.owner[a]
                    ELSE CHOOSE e \in homeless : a = Migrated(e)]
        scim == {a \in DOMAIN owner : owner[a] \in d.base}
    IN  [d EXCEPT !.owner = owner, !.scim = scim,
                  !.rows = @ \cup (scim \X {p[2] : p \in d.users}), !.moved = TRUE]
MigrateEnvironmentSCIMToApps ==
    /\ pc = "scim"
    /\ db' = IF db.moved THEN db ELSE SCIMToApps(db)
    /\ pc' = "own"
    /\ UNCHANGED <<json, copies, starts, history>>

\* distributeDirectoryRowsToApps: every app gets an environment of its ID and a
\* copy of the directory it used; shared rows and environments are removed. The
\* insertion ignores a user whose key is taken.
WithApp(d, mark) ==
    IF mark /\ Has(d) = {} /\ d.users # {} THEN [d EXCEPT !.owner = Owning(d, {Default}, Default)]
    ELSE d
Copied(d) == {p \in Has(d) \X Users : /\ p[2] \in In(d, d.owner[p[1]])
                                      /\ d.scoped \/ d.owner[p[1]] = p[1]}
\* Seeded defect: the shared rows are deleted inside the loop, after the first app.
DistributedOnce(d) ==
    LET first == CHOOSE a \in Has(d) : TRUE
        users == {p \in d.users \cup Copied(d) : p[1] = first}
    IN  [d EXCEPT !.users = users,
                  !.owner = [a \in Has(d) |-> a],
                  !.envs = {Default} \cup Has(d),
                  !.rows = @ \cap users]
Distributed(d) ==
    LET users == {p \in d.users \cup Copied(d) : p[1] \in Has(d)}
    IN  [d EXCEPT !.users = users,
                  !.owner = [a \in Has(d) |-> a],
                  !.envs = {Default} \cup Has(d),
                  !.rows = @ \cap users]
Distribute(d, mark) ==
    LET e == WithApp(d, mark)
        moved == IF Has(e) = {} THEN e ELSE Distributed(e)
    IN  [moved EXCEPT !.owned = @ \/ mark]
MigrateDirectoryOwnershipToApps ==
    /\ pc = "own"
    /\ db' = IF db.owned THEN db ELSE Distribute(db, TRUE)
    /\ pc' = "stamp"
    /\ UNCHANGED <<json, copies, starts, history>>

Stamp ==
    /\ pc = "stamp"
    /\ db' = [db EXCEPT !.ver = TRUE]
    /\ pc' = "load"
    /\ UNCHANGED <<json, copies, starts, history>>

-----------------------------------------------------------------------------
(* Loading it for the first time. *)

\* LoadState, StateEmpty: the JSON file is read only for an empty state. What
\* loadGlobalStateFromDB shows of the directory: the first environment's with an
\* app, or the default one's.
StateEmpty == ~db.key /\ Has(db) = {} /\ In(db, Default) = {}
LoadState ==
    /\ pc = "load"
    /\ pc' = IF StateEmpty /\ json.there THEN "import" ELSE "key"
    /\ UNCHANGED <<db, json, copies, starts, history>>

\* saveStateToDB with the whole database, after NormalizeState has made an app
\* of the SCIM settings and rows for the apps that take them over.
LegacyApps == IF json.base /\ json.apps = {} THEN {Migrated(Default)} ELSE json.apps
Import ==
    /\ pc = "import"
    /\ LET scim == IF json.base THEN LegacyApps ELSE {}
       IN  db' = [db EXCEPT !.owner = [a \in LegacyApps |-> Default], !.envs = {Default},
                            !.users = {Default} \X json.users, !.scim = scim,
                            !.rows = scim \X json.users, !.base = {}, !.moved = TRUE]
    /\ pc' = "distribute"
    /\ UNCHANGED <<json, copies, starts, history>>
DistributeImport ==
    /\ pc = "distribute"
    /\ db' = Distribute(db, FALSE)
    /\ pc' = "key"
    /\ UNCHANGED <<json, copies, starts, history>>

\* loadOrCreateSigningMaterial: from now on the configuration is not empty.
SaveSigningKey ==
    /\ pc = "key"
    /\ db' = [db EXCEPT !.key = TRUE]
    /\ pc' = "running"
    /\ UNCHANGED <<json, copies, starts, history>>

-----------------------------------------------------------------------------
(* Running, and dying. *)

\* SaveEnvironmentState: handlers save one environment, a new one included.  With
\* SCIM every user has a row; a paused app keeps those of the users that stay.
SaveEnvironment(a, us, scim) ==
    /\ pc = "running" /\ a \in Has(db) \cup Apps
    /\ a \in Has(db) => db.owner[a] = a
    /\ db' = [db EXCEPT !.envs = @ \cup {a},
                        !.owner = Owning(db, {a}, a),
                        !.users = {p \in @ : p[1] # a} \cup ({a} \X us),
                        !.scim = IF scim THEN @ \cup {a} ELSE @ \ {a},
                        !.rows = {p \in @ : p[1] # a \/ p[2] \in us} \cup
                                 (IF scim THEN {a} \X us ELSE {})]
    /\ touched' = touched \cup {a} /\ gone' = gone \ {a}
    /\ UNCHANGED <<json, copies, pc, starts, original, torn>>

\* handleAppDelete, DeleteEnvironment. The default environment's record stays.
DeleteEnvironment(a) ==
    /\ pc = "running" /\ a \in Has(db)
    /\ db' = [db EXCEPT !.envs = (@ \ {a}) \cup {Default},
                        !.owner = [b \in Has(db) \ {a} |-> db.owner[b]],
                        !.users = {p \in @ : p[1] # a},
                        !.scim = @ \ {a},
                        !.base = @ \ {a},
                        !.rows = {p \in @ : p[1] # a}]
    /\ touched' = touched \cup {a} /\ gone' = gone \cup {a}
    /\ UNCHANGED <<json, copies, pc, starts, original, torn>>

\* The process dies, or stops.
Crash ==
    /\ pc # "closed"
    /\ pc' = "closed"
    /\ torn' = (torn \/ (pc = "distribute" /\ LegacyApps # {}))
    /\ UNCHANGED <<db, json, copies, starts, original, touched, gone>>

-----------------------------------------------------------------------------
Next ==
    \/ Open \/ WriteCopy \/ CreateSchema \/ MigrateDefaultEnvironment
    \/ MigrateEnvironmentSCIMToApps \/ MigrateDirectoryOwnershipToApps \/ Stamp
    \/ LoadState \/ Import \/ DistributeImport \/ SaveSigningKey
    \/ \E a \in AllApps, us \in SUBSET Users, scim \in BOOLEAN : SaveEnvironment(a, us, scim)
    \/ \E a \in AllApps : DeleteEnvironment(a)
    \/ Crash

Spec == Init /\ [][Next]_vars

-----------------------------------------------------------------------------
(* Properties. *)

\* The directory an app had in the older version or in the JSON file, and the
\* apps there were: those of users, one for each environment that only had SCIM
\* settings, and a default one for users without any app.
Homeless == {e \in original.base : \A a \in Has(original) : original.owner[a] # e}
Expected(a) ==
    IF json.there THEN json.users
    ELSE IF a \in Has(original) THEN In(original, original.owner[a])
    ELSE UNION {In(original, e) : e \in {f \in Homeless \cup {Default} :
                                             a = Migrated(f) \/ a = f}}
ExpectedApps ==
    IF json.there THEN LegacyApps
    ELSE LET scim == Has(original) \cup {Migrated(e) : e \in Homeless}
         IN  IF scim = {} /\ original.users # {} THEN {Default} ELSE scim

\* Whatever version the file came from and wherever earlier starts died, the
\* program runs on apps that own their environment and every app nobody has
\* edited yet has the directory it had before; no app a user deleted is back, and
\* sync rows are of users of the app's own directory. A start that died inside
\* the import of the JSON file breaks this for good: its save and its
\* distribution are two transactions (state.go, LoadState).
UpgradeKeepsDirectory ==
    pc = "running" /\ ~torn =>
        /\ \A a \in Has(db) : db.owner[a] = a /\ a \in db.envs
        /\ db.rows \subseteq db.users
        /\ Has(db) \cap gone = {}
        /\ Has(db) \ touched = ExpectedApps \ touched
        /\ \A a \in Has(db) \ touched : In(db, a) = Expected(a)
=============================================================================
