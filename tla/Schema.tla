-------------------------------- MODULE Schema --------------------------------
(* How cclipd brings a database to schema version 4 when it starts: main in     *)
(* src/cclipd/cclipd.c reads the version and calls db_init or db_migrate of     *)
(* src/common/db.c.  Nothing keeps two daemons from starting on one database,   *)
(* and a daemon may be killed at any point.                                     *)
(*                                                                              *)
(* An image of the database is [version, columns, objects, rows, labels]:       *)
(* version is user_version, objects the tables, indices and trigger it has,     *)
(* columns what the history table looks like ("v1", "v2" with the tag column,   *)
(* "v3" with the id), rows its entries and labels the tags given to them, in    *)
(* the tag column of "v2" and in history_tags from "v3" on.                     *)
EXTENDS Naturals, Sequences

CONSTANTS Daemon,       \* processes of cclipd
          Entry,        \* clipboard entries
          Tag,          \* tag names
          Found,        \* schema versions the database may have at first, 0 if empty
          MaxKills,     \* bound: daemons killed
          MaxFailures   \* bound: statements that fail for no reason of the schema

ASSUME SchemaAssumption == /\ Found \subseteq 0 .. 4 /\ "free" \notin Daemon
                           /\ MaxKills \in Nat /\ MaxFailures \in Nat

VARIABLES store,     \* the committed image
          lock,      \* the write lock: "free" or the daemon that migrates
          pc,        \* per daemon: where its main is
          at,        \* per daemon: its next statement of db_init, or its next migration
          txn,       \* the image in the migrating daemon's transaction
          kills, failures,
          original   \* history: the schema version the database had at first

bounds == <<kills, failures, original>>
vars   == <<store, lock, pc, at, txn, bounds>>

-------------------------------------------------------------------------------
(* The released schemas (the comment "History: schema versions" in db.c).       *)

Base == {"history", "idx_timestamp"}

Creation == <<"history", "idx_timestamp", "tags", "history_tags", "idx_entry", "trigger">>

Current == {Creation[i] : i \in DOMAIN Creation}

Layout(d) == [version |-> d.version, columns |-> d.columns, objects |-> d.objects]

Released == [v \in 0 .. 4 |->
  [version |-> IF v < 3 THEN 0 ELSE v,
   columns |-> IF v = 1 THEN "v1" ELSE IF v = 2 THEN "v2" ELSE "v3",
   objects |-> CASE v = 0      -> {}
                 [] v \in 1..2 -> Base
                 [] v = 3      -> Current \ {"idx_entry"}
                 [] v = 4      -> Current]]

\* In version 2 an entry has at most one tag and a tag at most one entry.
OneToOne(labels) == \A k, l \in labels : (k[1] = l[1]) = (k[2] = l[2])

IsImage(d) == /\ Layout(d) \in [version : 0 .. 4, columns : {"v1", "v2", "v3"},
                                objects : SUBSET Current]
              /\ d.rows \subseteq Entry
              /\ d.labels \subseteq Tag \X d.rows

TypeOK == /\ IsImage(store) /\ IsImage(txn)
          /\ lock \in {"free"} \cup Daemon
          /\ pc \in [Daemon -> {"down", "version", "schema", "init", "begin", "migrate", "ready"}]
          /\ at \in [Daemon -> 0 .. Len(Creation) + 1]
          /\ kills \in 0 .. MaxKills /\ failures \in 0 .. MaxFailures /\ original \in Found

Init == /\ original \in Found
        /\ \E rows \in SUBSET Entry : \E labels \in SUBSET (Tag \X rows) :
             /\ original = 0 => rows = {}
             /\ original = 1 => labels = {}
             /\ original = 2 => OneToOne(labels)
             /\ store = [version |-> Released[original].version,
                         columns |-> Released[original].columns,
                         objects |-> Released[original].objects,
                         rows |-> rows, labels |-> labels]
        /\ txn = store
        /\ lock = "free"
        /\ pc = [d \in Daemon |-> "down"]
        /\ at = [d \in Daemon |-> 0]
        /\ kills = 0 /\ failures = 0

-------------------------------------------------------------------------------
(* Reading the version: two queries, in no transaction.                         *)

\* db_open; an empty file is created for a database that does not exist.
Start(d) == /\ pc[d] = "down"
            /\ pc' = [pc EXCEPT ![d] = "version"]
            /\ UNCHANGED <<store, lock, at, txn, bounds>>

\* What main does with the version db_get_user_version returned.
Decide(d, v) == /\ at' = [at EXCEPT ![d] = IF v = 0 THEN 1 ELSE v]
                /\ pc' = [pc EXCEPT ![d] = IF v = 0 THEN "init" ELSE IF v < 4 THEN "begin" ELSE "ready"]

ReadUserVersion(d) == /\ pc[d] = "version"
                      /\ IF store.version = 0
                           THEN pc' = [pc EXCEPT ![d] = "schema"] /\ UNCHANGED at
                           ELSE Decide(d, store.version)
                      /\ UNCHANGED <<store, lock, txn, bounds>>

\* Mutant of Detected: the test for the tag column is inverted.
DetectedInverted(d) == IF "history" \notin d.objects THEN 0
                       ELSE IF d.columns = "v2" THEN 1 ELSE 2

\* Without a version: what the history table looks like decides.
Detected(d) == IF "history" \notin d.objects THEN 0
               ELSE IF d.columns = "v2" THEN 2 ELSE 1

ReadSchema(d) == /\ pc[d] = "schema"
                 /\ Decide(d, Detected(store))
                 /\ UNCHANGED <<store, lock, txn, bounds>>

\* The first query fails: INT32_MAX, a version main takes for too new.  The second
\* one fails: the version stays 0.
ReadFails(d) == /\ failures < MaxFailures
                /\ failures' = failures + 1
                /\ \/ /\ pc[d] = "version"
                      /\ pc' = [pc EXCEPT ![d] = "down"]
                      /\ UNCHANGED at
                   \/ pc[d] = "schema" /\ Decide(d, 0)
                /\ UNCHANGED <<store, lock, txn, kills, original>>

-------------------------------------------------------------------------------
(* db_init: statements that commit one by one.                                  *)

\* Mutant of Statement: user_version is set first.
StatementVersionFirst(i, d) == [d EXCEPT !.objects = IF i = 1 THEN @ ELSE @ \cup {Creation[i - 1]},
                                         !.version = 4,
                                         !.columns = IF i = 2 THEN "v3" ELSE @]

Statement(i, d) == IF i \in DOMAIN Creation
                     THEN [d EXCEPT !.objects = @ \cup {Creation[i]},
                                    !.columns = IF i = 1 THEN "v3" ELSE @]
                     ELSE [d EXCEPT !.version = 4]

Succeeds(i, d) == i \in DOMAIN Creation => Creation[i] \notin d.objects

\* Mutant of InitStatement: one statement too many.
InitStatementOverruns(d) == /\ pc[d] = "init"
                            /\ lock = "free"
                            /\ Succeeds(at[d], store)
                            /\ store' = Statement(at[d], store)
                            /\ at' = [at EXCEPT ![d] = @ + 1]
                            /\ pc' = [pc EXCEPT ![d] = IF at[d] <= Len(Creation) + 1 THEN "init" ELSE "ready"]
                            /\ UNCHANGED <<lock, txn, bounds>>

InitStatement(d) == /\ pc[d] = "init"
                    /\ lock = "free"
                    /\ Succeeds(at[d], store)
                    /\ store' = Statement(at[d], store)
                    /\ IF at[d] = Len(Creation) + 1
                         THEN pc' = [pc EXCEPT ![d] = "ready"] /\ UNCHANGED at
                         ELSE at' = [at EXCEPT ![d] = @ + 1] /\ UNCHANGED pc
                    /\ UNCHANGED <<lock, txn, bounds>>

\* "already exists", or SQLITE_BUSY: main gives up.
InitFails(d) == /\ pc[d] = "init"
                /\ lock # "free" \/ ~Succeeds(at[d], store)
                /\ pc' = [pc EXCEPT ![d] = "down"]
                /\ UNCHANGED <<store, lock, at, txn, bounds>>

-------------------------------------------------------------------------------
(* db_migrate: one transaction around the migrations from at[d] to 4.           *)

\* Mutant of Migratable: CREATE TABLE IF NOT EXISTS in migrate_from_2_to_3.
MigratableAnyway(v, d) == CASE v = 1 -> "history" \in d.objects
                            [] v = 2 -> d.columns = "v2"
                            [] v = 3 -> TRUE

\* migration_functions[v] meets no SQL error: what it creates does not exist, the
\* columns it reads do.
Migratable(v, d) == CASE v = 1 -> "history" \in d.objects
                      [] v = 2 -> /\ d.columns = "v2"
                                  /\ {"tags", "history_tags", "trigger"} \cap d.objects = {}
                      [] v = 3 -> "history_tags" \in d.objects /\ "idx_entry" \notin d.objects

\* The first migration rebuilds history without tags; dropping the old table also
\* deletes, by cascade, whatever history_tags says of its rows.
Migrated(v, d) ==
  CASE v = 1 -> [d EXCEPT !.columns = "v2", !.objects = @ \cup {"idx_timestamp"}, !.labels = {}]
    [] v = 2 -> [d EXCEPT !.columns = "v3", !.version = 3,
                          !.objects = @ \cup {"tags", "history_tags", "trigger"}]
    [] v = 3 -> [d EXCEPT !.version = 4, !.objects = @ \cup {"idx_entry"}]

\* BEGIN is deferred: the first statement of a migration takes the write lock and
\* fixes the image the transaction sees.
BeginMigration(d) == /\ pc[d] = "begin"
                     /\ IF lock = "free"
                          THEN /\ lock' = d
                               /\ txn' = store
                               /\ pc' = [pc EXCEPT ![d] = "migrate"]
                          ELSE pc' = [pc EXCEPT ![d] = "down"] /\ UNCHANGED <<lock, txn>>
                     /\ UNCHANGED <<store, at, bounds>>

\* Mutant of Migrate: every migration is committed by itself.
MigrateAutocommit(d) == /\ pc[d] = "migrate" /\ at[d] < 4 /\ Migratable(at[d], txn)
                        /\ txn' = Migrated(at[d], txn)
                        /\ store' = txn'
                        /\ at' = [at EXCEPT ![d] = @ + 1]
                        /\ UNCHANGED <<lock, pc, bounds>>

Migrate(d) == /\ pc[d] = "migrate" /\ at[d] < 4 /\ Migratable(at[d], txn)
              /\ txn' = Migrated(at[d], txn)
              /\ at' = [at EXCEPT ![d] = @ + 1]
              /\ UNCHANGED <<store, lock, pc, bounds>>

\* ROLLBACK, then main gives up.
MigrateFails(d) == /\ pc[d] = "migrate" /\ at[d] < 4 /\ ~Migratable(at[d], txn)
                   /\ lock' = "free"
                   /\ pc' = [pc EXCEPT ![d] = "down"]
                   /\ UNCHANGED <<store, at, txn, bounds>>

CommitMigration(d) == /\ pc[d] = "migrate" /\ at[d] = 4
                      /\ store' = txn
                      /\ lock' = "free"
                      /\ pc' = [pc EXCEPT ![d] = "ready"]
                      /\ UNCHANGED <<at, txn, bounds>>

-------------------------------------------------------------------------------
Ends(d) == /\ pc' = [pc EXCEPT ![d] = "down"]
           /\ lock' = IF lock = d THEN "free" ELSE lock
           /\ UNCHANGED <<store, at, txn, original>>

\* A statement of db_init or db_migrate fails: I/O, no space, a lock held elsewhere.
StatementFails(d) == /\ pc[d] \in {"init", "begin", "migrate"}
                     /\ failures < MaxFailures
                     /\ failures' = failures + 1
                     /\ Ends(d)
                     /\ UNCHANGED kills

Kill(d) == /\ pc[d] # "down"
           /\ kills < MaxKills
           /\ kills' = kills + 1
           /\ Ends(d)
           /\ UNCHANGED failures

\* A daemon that is up writes entries, whatever others do to the schema meanwhile.
Save(d) == /\ pc[d] = "ready"
           /\ lock = "free"
           /\ \E e \in Entry : store' = [store EXCEPT !.rows = @ \cup {e}]
           /\ UNCHANGED <<lock, pc, at, txn, bounds>>

\* cclip tag, which works on version 4 only.
TagEntry == /\ lock = "free"
            /\ store.version = 4
            /\ \E n \in Tag, e \in store.rows : store' = [store EXCEPT !.labels = @ \cup {<<n, e>>}]
            /\ UNCHANGED <<lock, pc, at, txn, bounds>>

Step(d) == \/ Start(d) \/ ReadUserVersion(d) \/ ReadSchema(d) \/ InitStatement(d) \/ InitFails(d)
           \/ BeginMigration(d) \/ Migrate(d) \/ MigrateFails(d) \/ CommitMigration(d)

Next == \/ \E d \in Daemon : Step(d) \/ ReadFails(d) \/ StatementFails(d) \/ Kill(d) \/ Save(d)
        \/ TagEntry

Spec == Init /\ [][Next]_vars

\* A daemon that is not up is started again, with the next session, and runs.
FairSpec == Spec /\ \A d \in Daemon : WF_vars(Step(d))

-------------------------------------------------------------------------------
(* Properties.                                                                  *)

\* Starting, being killed and racing with another daemon never cost an entry or a tag:
\* the version is read outside the transaction, so a daemon may run migrations on a
\* schema another one has replaced, but not commit them.
KeepsData == [][store.rows \subseteq store'.rows /\ store.labels \subseteq store'.labels]_vars

\* The committed schema is a released one or a part of what db_init creates, in its
\* order: no half of a migration is ever visible.
KnownLayout == \/ \E v \in 0 .. 4 : Layout(store) = Released[v]
               \/ \E n \in 1 .. Len(Creation) :
                    Layout(store) = [version |-> 0, columns |-> "v3",
                                     objects |-> {Creation[i] : i \in 1 .. n}]

\* A daemon that gets past main's version test works on the complete version 4, even
\* if another daemon created or migrated the database under it.
ReadyIsCurrent == \A d \in Daemon : pc[d] = "ready" => Layout(store) = Released[4]

\* A database of an earlier release is migrated in the end, by one daemon or another,
\* however often they are killed on the way or get in each other's way.
OldDatabaseUpgraded == original > 0 ~> \E d \in Daemon : pc[d] = "ready"

\* man/cclipd.1.in:55-56: without -e, cclipd creates the database that "doesn't
\* exist": started often enough, one of them runs.
CreatesDatabase == original = 0 ~> \E d \in Daemon : pc[d] = "ready"
===============================================================================
