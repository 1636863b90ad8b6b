---------------------------- MODULE DatabaseProofs ----------------------------
(***************************************************************************)
(* The safety theorems of Database, for every number of processes, routes, *)
(* faults and writes: nobody serves on half a schema, and the pauses that  *)
(* operators mean survive the migrations.                                  *)
(***************************************************************************)
EXTENDS Database, TLAPS

\* A process that has looked at schema_migrations still has every migration
\* before it that is missing; one that serves, or writes, found none.
Looked ==
    /\ \A p \in Proc : proc[p] = "migrating" => Migration \ applied \subseteq todo[p]
    /\ \A p \in Proc : proc[p] = "up" => Migration \subseteq applied
    /\ \A p \in Proc : call[p] # None => proc[p] = "up"

\* What a recorded migration creates is there.
Created == \A m \in applied : Creates(m) \subseteq tables

\* Until the pauses are moved nobody writes kv; from then on it is the truth.
Moved == IF PauseToKv003 \in applied THEN kv = meant ELSE kv = {} /\ meant = flag

DatabaseInv == TypeOK /\ Looked /\ Created /\ Moved

\* The invariant holds of each of the three files a process may find.
LEMMA DatabaseInit == Init => DatabaseInv
  <1> SUFFICES ASSUME Init PROVE DatabaseInv
    OBVIOUS
  <1>1. TypeOK
    BY DatabaseAssumption DEF Init, TypeOK, Migration, Init001, Leases002
  <1>2. Looked
    BY DEF Init, Looked
  <1>3. Created
    BY DEF Init, Created, Creates, Init001, Leases002, Application001, PauseToKv003
  <1>4. Moved
    BY DEF Init, Moved, Init001, Leases002, PauseToKv003
  <1>5. QED
    BY <1>1, <1>2, <1>3, <1>4 DEF DatabaseInv

\* A boot that fails, for whatever reason, leaves the file alone.
LEMMA GoneStep ==
    ASSUME DatabaseInv, NEW p \in Proc, Gone(p),
           UNCHANGED <<file, meant, ops>>, faults' \in 0..MaxFaults
    PROVE  DatabaseInv'
  <1>1. TypeOK'
    BY DEF DatabaseInv, TypeOK, Gone, file
  <1>2. Looked'
    BY DEF DatabaseInv, TypeOK, Looked, Gone, file
  <1>3. Created' /\ Moved'
    BY DEF DatabaseInv, Created, Moved, Creates, file
  <1>4. QED
    BY <1>1, <1>2, <1>3 DEF DatabaseInv

\* One migration, in one transaction.
LEMMA MigrateStep ==
    ASSUME DatabaseInv, NEW p \in Proc, NEW m \in Migration, Migrate(p, m)
    PROVE  DatabaseInv'
  <1>1. CASE ~(Runs(m) /\ m \notin applied)
    BY <1>1, GoneStep DEF Migrate, DatabaseInv, TypeOK
  <1>2. CASE Runs(m) /\ m \notin applied
    <2>1. /\ tables' = tables \union Creates(m)
          /\ kv' = IF m = PauseToKv003 THEN kv \union flag ELSE kv
          /\ applied' = applied \union {m}
          /\ todo' = [todo EXCEPT ![p] = @ \ {m}]
          /\ UNCHANGED <<routes, flag, proc, call, meant, faults, ops>>
      BY <1>2 DEF Migrate
    <2>2. Creates(m) \subseteq {"events", "kv", "leases", "routes"}
      BY DEF Creates, Migration, Init001, Leases002, Application001, PauseToKv003
    <2>3. TypeOK'
      BY <2>1, <2>2 DEF DatabaseInv, TypeOK
    <2>4. Looked'
      BY <2>1 DEF DatabaseInv, TypeOK, Looked
    <2>5. Created'
      BY <2>1 DEF DatabaseInv, Created, Creates
    <2>6. Moved'
      BY <1>2, <2>1 DEF DatabaseInv, Moved
    <2>7. QED
      BY <2>3, <2>4, <2>5, <2>6 DEF DatabaseInv
  <1>3. QED
    BY <1>1, <1>2

\* Whoever writes a pause serves, so the pauses have been moved.
LEMMA WriteStep ==
    ASSUME DatabaseInv, NEW p \in Proc, withBusyRetry(p)
    PROVE  DatabaseInv'
  <1>1. call[p] \in Call /\ PauseToKv003 \in applied
    BY DEF DatabaseInv, TypeOK, Looked, withBusyRetry, Migration, PauseToKv003
  <1>2. CASE Write(p)
    <2>1. TypeOK'
      BY <1>1, <1>2 DEF DatabaseInv, TypeOK, withBusyRetry, Write, write, Call
    <2>2. Looked' /\ Created'
      BY <1>2 DEF DatabaseInv, TypeOK, Looked, Created, Creates, withBusyRetry, Write
    <2>3. Moved'
      BY <1>1, <1>2 DEF DatabaseInv, Moved, withBusyRetry, Write
    <2>4. QED
      BY <2>1, <2>2, <2>3 DEF DatabaseInv
  <1>3. CASE Busy(p)
    <2>1. call[p].left # 1 => [call[p] EXCEPT !.left = @ - 1] \in Call
      BY <1>1, DatabaseAssumption DEF Call
    <2>2. TypeOK'
      BY <2>1, <1>3 DEF DatabaseInv, TypeOK, withBusyRetry, Busy
    <2>3. Looked'
      BY <1>3 DEF DatabaseInv, TypeOK, Looked, withBusyRetry, Busy
    <2>4. Created' /\ Moved'
      BY <1>3 DEF DatabaseInv, Created, Creates, Moved, withBusyRetry, Busy
    <2>5. QED
      BY <2>2, <2>3, <2>4 DEF DatabaseInv
  <1>4. QED
    BY <1>2, <1>3 DEF withBusyRetry

\* Every step of every process keeps the invariant.
LEMMA DatabaseStep == DatabaseInv /\ [Next]_vars => DatabaseInv'
  <1> SUFFICES ASSUME DatabaseInv, [Next]_vars PROVE DatabaseInv'
    OBVIOUS
  <1>1. CASE UNCHANGED vars
    BY <1>1 DEF DatabaseInv, TypeOK, Looked, Created, Creates, Moved, vars, file
  <1>2. CASE Next
    <2> PICK p \in Proc : Step(p)
      BY <1>2 DEF Next
    <2>1. CASE Open(p)
      <3>1. TypeOK'
        BY <2>1 DEF DatabaseInv, TypeOK, Open, file
      <3>2. Looked'
        BY <2>1 DEF DatabaseInv, TypeOK, Looked, Open, file
      <3>3. QED
        BY <2>1, <3>1, <3>2 DEF DatabaseInv, Created, Creates, Moved, Open, file
    <2>2. CASE Migrated(p)
      <3>1. TypeOK'
        BY <2>2 DEF DatabaseInv, TypeOK, Migrated, file
      <3>2. Looked'
        BY <2>2 DEF DatabaseInv, TypeOK, Looked, Migrated, file
      <3>3. QED
        BY <2>2, <3>1, <3>2 DEF DatabaseInv, Created, Creates, Moved, Migrated, file
    <2>3. CASE MigrateBusy(p) \/ Crash(p)
      <3>1. faults' \in 0..MaxFaults
        BY <2>3, DatabaseAssumption DEF DatabaseInv, TypeOK, MigrateBusy, Crash, Fault
      <3>2. QED
        BY <2>3, <3>1, GoneStep DEF MigrateBusy, Crash
    <2>4. CASE withBusyRetry(p)
      BY <2>4, WriteStep
    <2>5. CASE \E m \in Migration : Migrate(p, m)
      BY <2>5, MigrateStep
    <2>6. ASSUME NEW r \in Route, NEW paused \in BOOLEAN, setRoutePaused(p, r, paused)
          PROVE  DatabaseInv'
      <3>1. [route |-> r, paused |-> paused, left |-> BUSY_RETRY_ATTEMPTS] \in Call
        BY DatabaseAssumption DEF Call
      <3>2. TypeOK'
        BY <2>6, <3>1, DatabaseAssumption DEF DatabaseInv, TypeOK, setRoutePaused, Operate, file
      <3>3. Looked'
        BY <2>6 DEF DatabaseInv, TypeOK, Looked, setRoutePaused, file
      <3>4. QED
        BY <2>6, <3>2, <3>3 DEF DatabaseInv, Created, Creates, Moved, setRoutePaused, file
    <2>7. ASSUME NEW ids \in SUBSET Route, saveConfig(p, ids)
          PROVE  DatabaseInv'
      <3>1. TypeOK'
        BY <2>7, DatabaseAssumption DEF DatabaseInv, TypeOK, saveConfig, Operate
      <3>2. Looked' /\ Created'
        BY <2>7 DEF DatabaseInv, Looked, Created, Creates, saveConfig
      <3>3. PauseToKv003 \in applied
        BY <2>7 DEF DatabaseInv, Looked, saveConfig, Migration, PauseToKv003
      <3>4. Moved'
        BY <2>7, <3>3 DEF DatabaseInv, Moved, saveConfig
      <3>5. QED
        BY <3>1, <3>2, <3>4 DEF DatabaseInv
    <2>8. QED
      BY <2>1, <2>2, <2>3, <2>4, <2>5, <2>6, <2>7 DEF Step
  <1>3. QED
    BY <1>1, <1>2

\* The invariant of the file and of the processes on it.
LEMMA DatabaseInvariant == Spec => []DatabaseInv
  BY DatabaseInit, DatabaseStep, PTL DEF Spec

\* No process serves on half a schema: however many of them race through the
\* migrations, die in them or find the file locked, one that is up has every
\* table and column (migrate).
THEOREM SchemaIsWhole == Spec => []UpIsMigrated
  <1>1. DatabaseInv => UpIsMigrated
    <2>1. Created /\ Migration \subseteq applied
             => {"events", "kv", "leases", "routes"} \subseteq tables
      BY DEF Created, Creates, Migration, Init001, Leases002, Application001, PauseToKv003
    <2>2. QED
      BY <2>1 DEF DatabaseInv, Looked, UpIsMigrated
  <1>2. QED
    BY <1>1, DatabaseInvariant, PTL

\* Pauses survive the upgrade that moves them from routes to kv, and a route
\* resumed since is not paused again by a slower process's migration.
THEOREM PausesAreMeant == Spec => []PausesSurvive
  <1>1. DatabaseInv => PausesSurvive
    BY DEF DatabaseInv, Looked, Moved, PausesSurvive, Paused, Migration, PauseToKv003
  <1>2. QED
    BY <1>1, DatabaseInvariant, PTL

\* Every variable of the file and of its processes keeps its type.
THEOREM DatabaseTyped == Spec => []TypeOK
  BY DatabaseInvariant, PTL DEF DatabaseInv
=============================================================================
