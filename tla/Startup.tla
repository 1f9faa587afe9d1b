-------------------------------- MODULE Startup --------------------------------
(***************************************************************************)
(* The start of the backend (lifespan of main.py) over a PostgreSQL server *)
(* that may come and go, a context repository and a DuckDB file that       *)
(* outlive the process, with crashes at every step and the restarts of     *)
(* "restart: unless-stopped".                                              *)
(***************************************************************************)
EXTENDS Integers, FiniteSets

CONSTANTS
  Retries,      \* db_connect_retries
  DemoRows,     \* rows of demo data in each of the two tables
  MaxFaults     \* bound: outages, failing steps, crashes and stops together

StartupAssumption ==
  /\ Retries \in Nat \ {0} /\ DemoRows \in Nat \ {0} /\ MaxFaults \in Nat

VARIABLES
  production,    \* settings.is_production, fixed before the first start
  pc,            \* step of lifespan
  attempt,       \* of check_database_connection
  db_ok,         \* its answer
  checkpointer,  \* of app.state
  dbUp,          \* PostgreSQL answers
  migrated,      \* its schema is at head
  snapshots,     \* ContextSnapshot rows of the current commit
  orders,        \* rows of the table orders of DuckDB
  metrics,       \* rows of daily_metrics
  seeded,        \* this start has found or made them without an error
  faults

process == <<production, attempt, db_ok, checkpointer, seeded>>
postgres == <<migrated, snapshots>>
duckdb == <<orders, metrics>>
vars == <<pc, process, dbUp, postgres, duckdb, faults>>

Starting == {"database", "migrations", "checkpointer", "schema", "orders",
             "seeded_orders", "metrics", "snapshot"}

TypeOK ==
  /\ pc \in Starting \cup {"down", "refused", "serving", "shutdown"}
  /\ production \in BOOLEAN
  /\ attempt \in 1..Retries /\ db_ok \in BOOLEAN
  /\ checkpointer \in {"none", "memory", "postgres"}
  /\ dbUp \in BOOLEAN /\ migrated \in BOOLEAN /\ snapshots \in Nat /\ seeded \in BOOLEAN
  /\ orders \in 0..DemoRows /\ metrics \in 0..DemoRows
  /\ faults \in 0..MaxFaults

Init ==
  /\ production \in BOOLEAN
  /\ pc = "down" /\ attempt = 1 /\ db_ok = FALSE /\ checkpointer = "none"
  /\ dbUp \in BOOLEAN /\ migrated = FALSE /\ snapshots = 0
  /\ orders = 0 /\ metrics = 0 /\ seeded = FALSE /\ faults = 0

-----------------------------------------------------------------------------
(* The server of the database, the process, and what may go wrong *)
Fault == faults < MaxFaults /\ faults' = faults + 1

DatabaseFails ==
  /\ dbUp /\ Fault /\ dbUp' = FALSE
  /\ UNCHANGED <<pc, process, postgres, duckdb>>

DatabaseReturns ==
  /\ ~dbUp /\ dbUp' = TRUE
  /\ UNCHANGED <<pc, process, postgres, duckdb, faults>>

Start ==
  /\ pc \in {"down", "refused"} /\ pc' = "database"
  /\ attempt' = 1 /\ db_ok' = FALSE /\ checkpointer' = "none" /\ seeded' = FALSE
  /\ UNCHANGED <<production, dbUp, postgres, duckdb, faults>>

(* What PostgreSQL and DuckDB have committed survives. *)
Crash ==
  /\ pc \in Starting \cup {"serving", "shutdown"} /\ Fault /\ pc' = "down"
  /\ UNCHANGED <<process, dbUp, postgres, duckdb>>

Goto(step) == pc' = step
Refuse == Goto("refused")

-----------------------------------------------------------------------------
(* 1. check_database_connection, then the migrations *)
Ping ==
  /\ pc = "database" /\ dbUp
  /\ db_ok' = TRUE /\ Goto("migrations")
  /\ UNCHANGED <<production, attempt, checkpointer, seeded, dbUp, postgres, duckdb, faults>>

Retry == attempt < Retries
NextAttempt == attempt + 1

PingFails ==
  /\ pc = "database" /\ ~dbUp
  /\ IF Retry
     THEN attempt' = NextAttempt /\ UNCHANGED pc
     ELSE /\ UNCHANGED attempt
          /\ IF production THEN Refuse ELSE Goto("checkpointer")
  /\ UNCHANGED <<production, db_ok, checkpointer, seeded, dbUp, postgres, duckdb, faults>>

(* Alembic upgrades in one transaction. *)
Migrate ==
  /\ pc = "migrations" /\ dbUp
  /\ migrated' = TRUE /\ Goto("checkpointer")
  /\ UNCHANGED <<process, dbUp, snapshots, duckdb, faults>>

MigrationFails == IF production THEN Refuse ELSE Goto("checkpointer")

FailMigration ==
  /\ pc = "migrations"
  /\ IF dbUp THEN Fault ELSE UNCHANGED faults
  /\ MigrationFails
  /\ UNCHANGED <<process, dbUp, postgres, duckdb>>

(* 2. the checkpointer *)
Checkpoint ==
  /\ pc = "checkpointer" /\ db_ok /\ dbUp
  /\ checkpointer' = "postgres" /\ Goto("schema")
  /\ UNCHANGED <<production, attempt, db_ok, seeded, dbUp, postgres, duckdb, faults>>

(* Mutant: the fallback is taken in production as well. *)
MutFallback == checkpointer' = "memory" /\ Goto("schema")

Fallback ==
  IF production THEN Refuse /\ UNCHANGED checkpointer
                ELSE checkpointer' = "memory" /\ Goto("schema")

CheckpointFails ==
  /\ pc = "checkpointer"
  /\ IF db_ok /\ dbUp THEN Fault ELSE UNCHANGED faults
  /\ Fallback
  /\ UNCHANGED <<production, attempt, db_ok, seeded, dbUp, postgres, duckdb>>

-----------------------------------------------------------------------------
(* 3. seed_from_context. executemany inserts and commits row by row. *)

Empty(count) == count = 0

CreateSchema ==
  /\ pc = "schema"
  /\ Goto(IF Empty(orders) THEN "orders" ELSE "seeded_orders")
  /\ UNCHANGED <<process, dbUp, postgres, duckdb, faults>>

InsertOrder ==
  /\ pc = "orders"
  /\ orders' = orders + 1
  /\ Goto(IF (orders + 1) % DemoRows = 0 THEN "seeded_orders" ELSE "orders")
  /\ UNCHANGED <<process, dbUp, postgres, metrics, faults>>

CountMetrics ==
  /\ pc = "seeded_orders"
  /\ IF Empty(metrics) THEN Goto("metrics") /\ UNCHANGED seeded
                       ELSE Goto("snapshot") /\ seeded' = TRUE
  /\ UNCHANGED <<production, attempt, db_ok, checkpointer, dbUp, postgres, duckdb, faults>>

InsertMetric ==
  /\ pc = "metrics"
  /\ metrics' = metrics + 1
  /\ IF (metrics + 1) % DemoRows = 0 THEN Goto("snapshot") /\ seeded' = TRUE
                                      ELSE UNCHANGED <<pc, seeded>>
  /\ UNCHANGED <<production, attempt, db_ok, checkpointer, dbUp, postgres, orders, faults>>

(* Mutant: a failed seeding stops the start. *)
MutSeedFailed == "refused"

SeedFailed == "snapshot"

SeedFails ==
  /\ pc \in {"schema", "orders", "seeded_orders", "metrics"} /\ Fault
  /\ Goto(SeedFailed)
  /\ UNCHANGED <<process, dbUp, postgres, duckdb>>

-----------------------------------------------------------------------------
(* 5. the snapshot of the current commit, in production only *)
Serve == Goto("serving")

Added == IF snapshots = 0 THEN 1 ELSE 0

WantsSnapshot == db_ok /\ production

Snapshot ==
  /\ pc = "snapshot" /\ WantsSnapshot /\ dbUp /\ migrated
  /\ snapshots' = snapshots + Added /\ Serve
  /\ UNCHANGED <<process, dbUp, migrated, duckdb, faults>>

NoSnapshot ==
  /\ pc = "snapshot"
  /\ IF WantsSnapshot /\ dbUp /\ migrated THEN Fault ELSE UNCHANGED faults
  /\ Serve
  /\ UNCHANGED <<process, dbUp, postgres, duckdb>>

(* The operator stops the process, and starts it again. *)
Stop ==
  /\ pc = "serving" /\ Fault /\ Goto("shutdown")
  /\ UNCHANGED <<process, dbUp, postgres, duckdb>>

Shutdown ==
  /\ pc = "shutdown" /\ Goto("down")
  /\ UNCHANGED <<process, dbUp, postgres, duckdb, faults>>

Work ==
  \/ Ping \/ PingFails \/ Migrate \/ FailMigration \/ Checkpoint \/ CheckpointFails
  \/ CreateSchema \/ InsertOrder \/ CountMetrics \/ InsertMetric \/ SeedFails
  \/ Snapshot \/ NoSnapshot \/ Shutdown

Next == DatabaseFails \/ DatabaseReturns \/ Start \/ Crash \/ Stop \/ Work

Spec == Init /\ [][Next]_vars

(* The event loop goes on; PostgreSQL need not come back. *)
FairSpec == Spec /\ WF_vars(Work)

-----------------------------------------------------------------------------
(* "production fails fast on database problems": what serves in production has
   found the database, applied the migrations and keeps its graphs in it,
   whatever failed during this start or an earlier one. *)
ProductionIsWhole ==
  production /\ pc = "serving" => db_ok /\ migrated /\ checkpointer = "postgres"

(* "Development mode is fault-tolerant (degraded, still serving)": a start that
   the process survives serves, whatever fails on the way, and were PostgreSQL
   never to come back. "production fails fast": there a start that cannot serve
   ends by itself, so that it is restarted. *)
StartsEnd ==
  pc = "database" ~> pc \in {"serving", "down"} \cup (IF production THEN {"refused"} ELSE {})

=============================================================================
