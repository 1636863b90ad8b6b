-------------------------------- MODULE Database --------------------------------
(***************************************************************************)
(* One SQLite file and the processes that open it (packages/store-sqlite,  *)
(* apps/relay/src/db): migrations at every boot, a lock that other         *)
(* processes hold, and the pauses, which an upgrade moves from the routes  *)
(* table to kv.  Two processes meet on the file when a container is        *)
(* replaced by the next; each of them may die at any point, and a          *)
(* transaction it was in is rolled back.                                   *)
(***************************************************************************)
EXTENDS Naturals

CONSTANTS
    None,
    Proc, Route,
    BUSY_RETRY_ATTEMPTS,    \* tries of one call that finds the file locked
    MaxFaults,              \* bound on crashes, and boots that find it locked
    MaxOps                  \* bound on calls that write

ASSUME DatabaseAssumption ==
    BUSY_RETRY_ATTEMPTS \in Nat \ {0} /\ {MaxFaults, MaxOps} \subseteq Nat

VARIABLES
    tables,     \* what the schema has: the lease columns count as a table
    applied,    \* schema_migrations
    routes,     \* ids in the routes table
    flag,       \* of those, the ones whose old paused column is 1
    kv,         \* routes with a route_paused. entry in kv
    proc,       \* each process: down, migrating, up
    todo,       \* the migrations a process found missing when it looked
    call,       \* the write a process is trying
    meant,      \* history: the routes that operators want paused
    faults, ops

file == <<tables, applied, routes, flag, kv>>
vars == <<file, proc, todo, call, meant, faults, ops>>

-----------------------------------------------------------------------------
(* The migrations, by number: the store's, then the application's.          *)

Migration == 1..4
Init001 == 1          \* 001_init.sql: CREATE TABLE events, kv
Leases002 == 2        \* 002_leases.sql: ALTER TABLE events ADD COLUMN
Application001 == 3   \* 001_application.sql: CREATE TABLE IF NOT EXISTS routes
PauseToKv003 == 4     \* 003_route_pause_to_kv.sql: INSERT INTO kv ... SELECT

Creates(m) ==
    CASE m = Init001 -> {"events", "kv"}
      [] m = Leases002 -> {"leases"}
      [] m = Application001 -> {"routes"}
      [] m = PauseToKv003 -> {}

\* The SQL of a migration runs without an error.
Runs(m) ==
    CASE m = Init001 -> {"events", "kv"} \intersect tables = {}
      [] m = Leases002 -> "events" \in tables /\ "leases" \notin tables
      [] m = Application001 -> TRUE
      [] m = PauseToKv003 -> {"kv", "routes"} \subseteq tables

Paused(r) == r \in kv

\* A new file, one an embedded host has used, or one from before the split,
\* whose first migration made the application's tables too.
Init ==
    /\ \/ tables = {} /\ applied = {} /\ routes = {}
       \/ tables = {"events", "kv", "leases"} /\ applied = {Init001, Leases002} /\ routes = {}
       \/ /\ tables = {"events", "kv", "routes"} /\ applied = {Init001}
          /\ routes \in SUBSET Route
    /\ flag \in SUBSET routes /\ kv = {} /\ meant = flag
    /\ proc = [p \in Proc |-> "down"] /\ todo = [p \in Proc |-> {}]
    /\ call = [p \in Proc |-> None] /\ faults = 0 /\ ops = 0

\* openDb and the first half of migrate: which names are missing.
Open(p) ==
    /\ proc[p] = "down"
    /\ proc' = [proc EXCEPT ![p] = "migrating"]
    /\ todo' = [todo EXCEPT ![p] = Migration \ applied]
    /\ UNCHANGED <<file, call, meant, faults, ops>>

Gone(p) ==
    /\ proc' = [proc EXCEPT ![p] = "down"]
    /\ todo' = [todo EXCEPT ![p] = {}]
    /\ call' = [call EXCEPT ![p] = None]

First(m, S) == m \in S /\ \A n \in S : m <= n

\* Mutation: a name that is recorded already is not an error.
MigrateOrIgnore(p, m) ==
    /\ proc[p] = "migrating" /\ First(m, todo[p])
    /\ IF Runs(m)
       THEN /\ tables' = tables \union Creates(m)
            /\ kv' = IF m = PauseToKv003 THEN kv \union flag ELSE kv
            /\ applied' = applied \union {m}
            /\ todo' = [todo EXCEPT ![p] = @ \ {m}]
            /\ UNCHANGED <<routes, flag, proc, call>>
       ELSE Gone(p) /\ UNCHANGED file
    /\ UNCHANGED <<meant, faults, ops>>

\* Mutation: no transaction holds the SQL and the name together.
MigrateInTwoSteps(p, m) ==
    /\ proc[p] = "migrating" /\ First(m, todo[p])
    /\ tables' = tables \union Creates(m)
    /\ IF Runs(m)
       THEN \/ /\ applied' = applied \union {m} /\ todo' = [todo EXCEPT ![p] = @ \ {m}]
               /\ UNCHANGED <<proc, call, faults>>
            \/ /\ faults < MaxFaults /\ faults' = faults + 1
               /\ Gone(p) /\ UNCHANGED applied
       ELSE Gone(p) /\ UNCHANGED <<applied, faults>>
    /\ UNCHANGED <<routes, flag, kv, meant, ops>>

\* The transaction of one migration: its SQL, and its name, which is a primary
\* key.  An error of either undoes both, and the boot fails.
Migrate(p, m) ==
    /\ proc[p] = "migrating" /\ First(m, todo[p])
    /\ IF Runs(m) /\ m \notin applied
       THEN /\ tables' = tables \union Creates(m)
            /\ kv' = IF m = PauseToKv003 THEN kv \union flag ELSE kv
            /\ applied' = applied \union {m}
            /\ todo' = [todo EXCEPT ![p] = @ \ {m}]
            /\ UNCHANGED <<routes, flag, proc, call>>
       ELSE Gone(p) /\ UNCHANGED file
    /\ UNCHANGED <<meant, faults, ops>>

Migrated(p) ==
    /\ proc[p] = "migrating" /\ todo[p] = {}
    /\ proc' = [proc EXCEPT ![p] = "up"]
    /\ UNCHANGED <<file, todo, call, meant, faults, ops>>

Fault == faults < MaxFaults /\ faults' = faults + 1

\* Mutation: the name is written by itself, before its SQL.
MigrateBusyRecorded(p) ==
    /\ proc[p] = "migrating" /\ Fault
    /\ \E m \in todo[p] : First(m, todo[p]) /\ applied' = applied \union {m}
    /\ Gone(p)
    /\ UNCHANGED <<tables, routes, flag, kv, meant, ops>>

\* The file stays locked past busy_timeout: migrate does not try again.
MigrateBusy(p) ==
    /\ proc[p] = "migrating" /\ todo[p] # {} /\ Fault
    /\ Gone(p)
    /\ UNCHANGED <<file, meant, ops>>

Crash(p) ==
    /\ proc[p] # "down" /\ Fault
    /\ Gone(p)
    /\ UNCHANGED <<file, meant, ops>>

-----------------------------------------------------------------------------
(* Writing.                                                                 *)

Operate == ops < MaxOps /\ ops' = ops + 1

\* SqliteControlStore.setRoutePaused, on its way.
setRoutePaused(p, r, paused) ==
    /\ proc[p] = "up" /\ call[p] = None /\ Operate
    /\ call' = [call EXCEPT ![p] = [route |-> r, paused |-> paused,
                                    left |-> BUSY_RETRY_ATTEMPTS]]
    /\ UNCHANGED <<file, proc, todo, meant, faults>>

\* KvRepo: an upsert, or a delete.
write(set, c) == IF c.paused THEN set \union {c.route} ELSE set \ {c.route}

Write(p) ==
    /\ kv' = write(kv, call[p]) /\ meant' = write(meant, call[p])
    /\ call' = [call EXCEPT ![p] = None]

\* SQLITE_BUSY: again after a pause, or StoreUnavailableError.
Busy(p) ==
    /\ call' = [call EXCEPT ![p] = IF call[p].left = 1 THEN None
                                   ELSE [call[p] EXCEPT !.left = @ - 1]]
    /\ UNCHANGED <<kv, meant>>

withBusyRetry(p) ==
    /\ call[p] # None
    /\ Write(p) \/ Busy(p)
    /\ UNCHANGED <<tables, applied, routes, flag, proc, todo, faults, ops>>

\* saveConfig: RoutesRepo.upsertAll keeps the old column of the routes that
\* stay, and the pauses of those that go are deleted.
saveConfig(p, ids) ==
    /\ proc[p] = "up" /\ ids # routes /\ Operate
    /\ routes' = ids /\ flag' = flag \intersect ids
    /\ kv' = kv \intersect ids /\ meant' = meant \intersect ids
    /\ UNCHANGED <<tables, applied, proc, todo, call, faults>>

Step(p) ==
    \/ Open(p) \/ Migrated(p) \/ MigrateBusy(p) \/ Crash(p) \/ withBusyRetry(p)
    \/ \E m \in Migration : Migrate(p, m)
    \/ \E r \in Route, paused \in BOOLEAN : setRoutePaused(p, r, paused)
    \/ \E ids \in SUBSET Route : saveConfig(p, ids)

Next == \E p \in Proc : Step(p)

Spec == Init /\ [][Next]_vars

\* A process that is down is started again, one that runs goes on.
Fairness ==
    \A p \in Proc :
        /\ WF_vars(Open(p)) /\ WF_vars(Migrated(p)) /\ WF_vars(withBusyRetry(p))
        /\ \A m \in Migration : WF_vars(Migrate(p, m))

FairSpec == Spec /\ Fairness

-----------------------------------------------------------------------------
(* Properties.                                                              *)

Call == [route : Route, paused : BOOLEAN, left : 1..BUSY_RETRY_ATTEMPTS]

\* Every variable has its type.
TypeOK ==
    /\ tables \subseteq {"events", "kv", "leases", "routes"} /\ applied \subseteq Migration
    /\ routes \subseteq Route /\ flag \subseteq routes
    /\ kv \subseteq Route /\ meant \subseteq Route
    /\ proc \in [Proc -> {"down", "migrating", "up"}]
    /\ todo \in [Proc -> SUBSET Migration]
    /\ call \in [Proc -> Call \union {None}]
    /\ faults \in 0..MaxFaults /\ ops \in 0..MaxOps

\* A process serves only on a complete schema, whatever happened to the boots
\* before it, its own and others': the code reads every table and column.
UpIsMigrated ==
    \A p \in Proc : proc[p] = "up" => {"events", "kv", "leases", "routes"} \subseteq tables

\* A route that was paused before the upgrade is paused after it, and one that
\* an operator has resumed since is not paused again by a slower process that
\* is still to run the migration.
PausesSurvive == \A p \in Proc : proc[p] = "up" => \A r \in Route : Paused(r) <=> r \in meant

\* Processes that race through the migrations make each other's boots fail,
\* but all of them come up.
AllComeUp == \A p \in Proc : []<>(proc[p] = "up")
=============================================================================
