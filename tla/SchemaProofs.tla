----------------------------- MODULE SchemaProofs -----------------------------
(* Starting any number of daemons on one database, however they are killed and  *)
(* get in each other's way, leaves it with a known schema and all its data.     *)
EXTENDS Schema, TLAPS

IsRecord(d) == d = [version |-> d.version, columns |-> d.columns, objects |-> d.objects,
                    rows |-> d.rows, labels |-> d.labels]

\* A schema db_init has created the first n objects of.
Part(n) == [version |-> 0, columns |-> "v3", objects |-> {Creation[i] : i \in 1 .. n}]

\* db_init past its first statement made everything that is there, unless another
\* daemon has completed the schema; only one daemon gets that far.
Creating ==
  /\ \A d \in Daemon : pc[d] = "init" =>
       /\ at[d] \in 1 .. 7
       /\ at[d] > 1 => Layout(store) \in {Part(at[d] - 1), Released[4]}
  /\ \A d, e \in Daemon : pc[d] = "init" /\ at[d] > 1 /\ pc[e] = "init" /\ at[e] > 1 => d = e

\* What a daemon still knows of the schema it decided upon, whoever changed it since.
Deciding == \A d \in Daemon : pc[d] = "begin" =>
              /\ at[d] \in 1 .. 3
              /\ at[d] = 1 => store.columns # "v2"
              /\ at[d] = 3 => store.version >= 3

TagObjects == {"tags", "history_tags", "trigger"}

\* How far the migrations in the transaction are.  Those that would lose labels or
\* end in no known schema meet an error at the second.
Migrating == \A d \in Daemon : pc[d] = "migrate" =>
               /\ at[d] \in 1 .. 4
               /\ txn.rows = store.rows
               /\ at[d] = 1 => txn = store /\ store.columns # "v2"
               /\ at[d] = 2 /\ txn.columns = "v2" /\ TagObjects \cap txn.objects = {} =>
                    txn.objects = Base /\ txn.labels = store.labels
               /\ at[d] = 3 => Layout(txn) \in {Released[3], Released[4]} /\ txn.labels = store.labels
               /\ at[d] = 4 => Layout(txn) = Released[4] /\ txn.labels = store.labels

\* The inductive invariant.
SchemaInv ==
  /\ TypeOK /\ IsRecord(store) /\ IsRecord(txn)
  /\ KnownLayout /\ ReadyIsCurrent
  /\ \A d \in Daemon : pc[d] = "migrate" <=> lock = d
  /\ Creating /\ Deciding /\ Migrating
  /\ store.version = 0 /\ store.columns # "v2" => store.labels = {}

-------------------------------------------------------------------------------
(* The layouts.                                                                *)

Image(v, c, o) == [version |-> v, columns |-> c, objects |-> o]

\* db_init's objects, one by one.
LEMMA CreationOrder ==
  /\ Len(Creation) = 6 /\ DOMAIN Creation = 1 .. 6
  /\ Creation[1] = "history" /\ Creation[2] = "idx_timestamp" /\ Creation[3] = "tags"
  /\ Creation[4] = "history_tags" /\ Creation[5] = "idx_entry" /\ Creation[6] = "trigger"
  BY DEF Creation

\* The objects of version 4.
LEMMA CurrentObjects ==
  Current = {"history", "idx_timestamp", "tags", "history_tags", "idx_entry", "trigger"}
  BY CreationOrder DEF Current

\* What db_init has made after each statement.
LEMMA Parts ==
  /\ Part(1) = Image(0, "v3", {"history"})
  /\ Part(2) = Image(0, "v3", {"history", "idx_timestamp"})
  /\ Part(3) = Image(0, "v3", {"history", "idx_timestamp", "tags"})
  /\ Part(4) = Image(0, "v3", {"history", "idx_timestamp", "tags", "history_tags"})
  /\ Part(5) = Image(0, "v3", {"history", "idx_timestamp", "tags", "history_tags", "idx_entry"})
  /\ Part(6) = Image(0, "v3", Current)
  <1> DEFINE Made(n) == {Creation[i] : i \in 1 .. n}
  <1>1. /\ 1 .. 1 = {1} /\ 1 .. 2 = {1, 2} /\ 1 .. 3 = {1, 2, 3} /\ 1 .. 4 = {1, 2, 3, 4}
        /\ 1 .. 5 = {1, 2, 3, 4, 5} /\ 1 .. 6 = {1, 2, 3, 4, 5, 6}
    OBVIOUS
  <1>2. Made(1) = {"history"}
    BY <1>1, CreationOrder
  <1>3. Made(2) = {"history", "idx_timestamp"}
    BY <1>1, CreationOrder
  <1>4. Made(3) = {"history", "idx_timestamp", "tags"}
    BY <1>1, CreationOrder
  <1>5. Made(4) = {"history", "idx_timestamp", "tags", "history_tags"}
    BY <1>1, CreationOrder
  <1>6. Made(5) = {"history", "idx_timestamp", "tags", "history_tags", "idx_entry"}
    BY <1>1, CreationOrder
  <1>7. Made(6) = Current
    BY CreationOrder DEF Current
  <1>8. \A n \in 1 .. 6 : Part(n) = Image(0, "v3", Made(n))
    BY DEF Part, Image
  <1> HIDE DEF Made
  <1> QED BY <1>2, <1>3, <1>4, <1>5, <1>6, <1>7, <1>8

\* The released schemas.
LEMMA ReleasedLayouts ==
  /\ Released[0] = Image(0, "v3", {})
  /\ Released[1] = Image(0, "v1", {"history", "idx_timestamp"})
  /\ Released[2] = Image(0, "v2", {"history", "idx_timestamp"})
  /\ Released[3] = Image(3, "v3", {"history", "idx_timestamp", "tags", "history_tags", "trigger"})
  /\ Released[4] = Image(4, "v3", Current)
  <1>1. /\ 0 \in 0 .. 4 /\ 1 \in 0 .. 4 /\ 2 \in 0 .. 4 /\ 3 \in 0 .. 4 /\ 4 \in 0 .. 4
        /\ 0 \notin 1 .. 2 /\ 1 \in 1 .. 2 /\ 2 \in 1 .. 2 /\ 3 \notin 1 .. 2 /\ 4 \notin 1 .. 2
    OBVIOUS
  <1>2. Released[0] = Image(0, "v3", {})
    BY <1>1 DEF Released, Image
  <1>3. Released[1] = Image(0, "v1", {"history", "idx_timestamp"})
    BY <1>1 DEF Released, Image, Base
  <1>4. Released[2] = Image(0, "v2", {"history", "idx_timestamp"})
    BY <1>1 DEF Released, Image, Base
  <1>5. Current \ {"idx_entry"} = {"history", "idx_timestamp", "tags", "history_tags", "trigger"}
    BY CurrentObjects
  <1>6. Released[3] = Image(3, "v3", {"history", "idx_timestamp", "tags", "history_tags", "trigger"})
    <2>1. Released[3] = Image(3, "v3", Current \ {"idx_entry"})
      BY <1>1 DEF Released, Image
    <2> QED BY <1>5, <2>1
  <1>7. Released[4] = Image(4, "v3", Current)
    BY <1>1 DEF Released, Image
  <1> QED BY <1>2, <1>3, <1>4, <1>6, <1>7

\* A known layout is one of the released ones or of the parts, field by field.
LEMMA KnownFields ==
  ASSUME KnownLayout
  PROVE  \/ store.version = 0 /\ store.columns = "v3" /\ store.objects = {}
         \/ store.version = 0 /\ store.columns = "v1" /\ store.objects = {"history", "idx_timestamp"}
         \/ store.version = 0 /\ store.columns = "v2" /\ store.objects = {"history", "idx_timestamp"}
         \/ /\ store.version = 3 /\ store.columns = "v3"
            /\ store.objects = {"history", "idx_timestamp", "tags", "history_tags", "trigger"}
         \/ store.version = 4 /\ store.columns = "v3" /\ store.objects = Current
         \/ /\ store.version = 0 /\ store.columns = "v3"
            /\ \/ store.objects = {"history"}
               \/ store.objects = {"history", "idx_timestamp"}
               \/ store.objects = {"history", "idx_timestamp", "tags"}
               \/ store.objects = {"history", "idx_timestamp", "tags", "history_tags"}
               \/ store.objects = {"history", "idx_timestamp", "tags", "history_tags", "idx_entry"}
               \/ store.objects = Current
  <1>1. ASSUME NEW v, NEW c, NEW o, Layout(store) = Image(v, c, o)
        PROVE  store.version = v /\ store.columns = c /\ store.objects = o
    BY <1>1 DEF Layout, Image
  <1>2. CASE \E v \in 0 .. 4 : Layout(store) = Released[v]
    <2>1. \/ Layout(store) = Released[0] \/ Layout(store) = Released[1] \/ Layout(store) = Released[2]
          \/ Layout(store) = Released[3] \/ Layout(store) = Released[4]
      BY <1>2
    <2> QED BY <1>1, <2>1, ReleasedLayouts
  <1>3. CASE \E n \in 1 .. 6 : Layout(store) = Part(n)
    <2>1. \/ Layout(store) = Part(1) \/ Layout(store) = Part(2) \/ Layout(store) = Part(3)
          \/ Layout(store) = Part(4) \/ Layout(store) = Part(5) \/ Layout(store) = Part(6)
      BY <1>3
    <2> QED BY <1>1, <2>1, Parts
  <1> QED BY <1>2, <1>3, CreationOrder DEF KnownLayout, Part

\* What a few fields tell of a known layout.
LEMMA KnownBy ==
  ASSUME KnownLayout
  PROVE  /\ store.version \in {0, 3, 4}
         /\ store.version = 4 => Layout(store) = Released[4]
         /\ store.version >= 3 => Layout(store) \in {Released[3], Released[4]}
         /\ store.columns = "v2" => store.objects = Base
         /\ "history" \notin store.objects => Layout(store) = Released[0]
         /\ store.columns # "v2" /\ TagObjects \cap store.objects = {} => store.version = 0
         /\ "history" \in store.objects /\ TagObjects \cap store.objects = {} =>
              store.objects \cup {"idx_timestamp"} = Base
  <1>1. Layout(store) = Image(store.version, store.columns, store.objects)
    BY DEF Layout, Image
  <1>2. /\ store.version \in {0, 3, 4}
        /\ store.version = 4 => store.columns = "v3" /\ store.objects = Current
        /\ store.version >= 3 => Layout(store) \in {Released[3], Released[4]}
    BY <1>1, KnownFields, ReleasedLayouts
  <1>3. store.version = 4 => Layout(store) = Released[4]
    BY <1>1, <1>2, ReleasedLayouts
  <1>4. store.columns = "v2" => store.objects = Base
    BY KnownFields DEF Base
  <1>5. "history" \notin store.objects => Layout(store) = Released[0]
    <2>1. "history" \in Current
      BY CurrentObjects
    <2>2. "history" \notin store.objects => store.version = 0 /\ store.columns = "v3" /\ store.objects = {}
      BY <2>1, KnownFields
    <2> QED BY <1>1, <2>2, ReleasedLayouts
  <1>6. "tags" \in Current /\ "tags" \in TagObjects
    BY CurrentObjects DEF TagObjects
  <1>7. TagObjects \cap store.objects = {} =>
          store.version = 0 /\ (store.objects = {} \/ store.objects = {"history"} \/ store.objects = Base)
    <2>1. TagObjects \cap store.objects = {} => "tags" \notin store.objects
      BY <1>6
    <2> QED BY <1>6, <2>1, KnownFields DEF Base
  <1>8. "history" \in store.objects /\ TagObjects \cap store.objects = {} =>
              store.objects \cup {"idx_timestamp"} = Base
    BY <1>7 DEF Base
  <1> QED BY <1>2, <1>3, <1>4, <1>5, <1>7, <1>8

\* A statement of db_init that works takes one part to the next; on the complete
\* schema none of those that create something works.
LEMMA StatementLayout ==
  ASSUME IsRecord(store), NEW i \in 1 .. 7, Succeeds(i, store),
         i = 1 => Layout(store) = Released[0],
         i > 1 => Layout(store) \in {Part(i - 1), Released[4]}
  PROVE  LET new == Statement(i, store) IN
         /\ IsRecord(new) /\ new.rows = store.rows /\ new.labels = store.labels
         /\ i < 7 => /\ Layout(new) = Part(i) /\ new.columns = "v3"
                     /\ store.version = 0 /\ store.columns = "v3"
         /\ i = 7 => Layout(new) = Released[4]
  <1> DEFINE new == Statement(i, store)
             columns == IF i = 1 THEN "v3" ELSE store.columns
  <1>1. /\ DOMAIN Creation = 1 .. 6
        /\ store = [version |-> store.version, columns |-> store.columns, objects |-> store.objects,
                    rows |-> store.rows, labels |-> store.labels]
    BY CreationOrder DEF IsRecord
  <1>2. CASE i = 7
    <2>1. new = [version |-> 4, columns |-> store.columns, objects |-> store.objects,
                 rows |-> store.rows, labels |-> store.labels]
      BY <1>1, <1>2 DEF Statement
    <2>2. Layout(store) = Image(0, "v3", Current) \/ Layout(store) = Image(4, "v3", Current)
      BY <1>2, Parts, ReleasedLayouts
    <2>3. store.columns = "v3" /\ store.objects = Current
      BY <2>2 DEF Layout, Image
    <2> HIDE DEF new
    <2>4. Layout(new) = Image(4, "v3", Current)
      BY <2>1, <2>3 DEF Layout, Image
    <2>5. IsRecord(new) /\ new.rows = store.rows /\ new.labels = store.labels
      BY <2>1 DEF IsRecord
    <2> QED BY <1>2, <2>4, <2>5, ReleasedLayouts DEF new
  <1>3. CASE i \in 1 .. 6
    <2> DEFINE objects == store.objects \cup {Creation[i]}
    <2>1. new = [version |-> store.version, columns |-> columns, objects |-> objects,
                 rows |-> store.rows, labels |-> store.labels]
      BY <1>1, <1>3 DEF Statement
    <2>2. Creation[i] \notin store.objects
      BY <1>1, <1>3 DEF Succeeds
    <2>3. Layout(store) # Released[4]
      <3>1. Creation[i] \in Current
        BY <1>1, <1>3 DEF Current
      <3> QED BY <2>2, <3>1, ReleasedLayouts DEF Layout, Image
    <2>4. i # 1 => store.version = 0 /\ store.columns = "v3" /\ store.objects = {Creation[j] : j \in 1 .. i - 1}
      BY <1>3, <2>3 DEF Layout, Part
    <2>5. i = 1 => store.version = 0 /\ store.columns = "v3" /\ store.objects = {}
      BY ReleasedLayouts DEF Layout, Image
    <2>6. objects = {Creation[j] : j \in 1 .. i}
      <3>1. store.objects = {Creation[j] : j \in 1 .. i - 1}
        BY <2>4, <2>5
      <3>2. 1 .. i = 1 .. (i - 1) \cup {i}
        BY <1>3
      <3> QED BY <3>1, <3>2
    <2> HIDE DEF new, objects
    <2>7. Layout(new) = Part(i)
      BY <2>1, <2>4, <2>5, <2>6 DEF Layout, Part
    <2>8. IsRecord(new) /\ new.rows = store.rows /\ new.labels = store.labels
      BY <2>1 DEF IsRecord
    <2>9. new.columns = "v3" /\ store.version = 0 /\ store.columns = "v3"
      BY <2>1, <2>4, <2>5
    <2> QED BY <1>3, <2>7, <2>8, <2>9 DEF new
  <1> QED BY <1>2, <1>3

-------------------------------------------------------------------------------
(* The steps of the invariant.                                                 *)

\* What is neither an image nor where a daemon stands.
Bounds == kills \in 0 .. MaxKills /\ failures \in 0 .. MaxFailures /\ original \in Found

\* A daemon that gives up, dies, starts or goes on to the second query leaves the
\* database as it is and whatever lock it has.
LEMMA QuietStep ==
  ASSUME SchemaInv, NEW d \in Daemon, NEW s \in {"down", "version", "schema"},
         pc' = [pc EXCEPT ![d] = s], at' = at, store' = store, txn' = txn,
         lock' = IF lock = d THEN "free" ELSE lock, Bounds'
  PROVE  SchemaInv'
  <1>1. /\ pc' \in [Daemon -> {"down", "version", "schema", "init", "begin", "migrate", "ready"}]
        /\ pc'[d] = s /\ \A e \in Daemon \ {d} : pc'[e] = pc[e]
        /\ "free" \notin Daemon
    BY SchemaAssumption DEF SchemaInv, TypeOK
  <1>2. TypeOK'
    BY <1>1 DEF SchemaInv, TypeOK, Bounds, IsImage, Layout
  <1>3. KnownLayout' /\ IsRecord(store)' /\ IsRecord(txn)'
    BY DEF SchemaInv, KnownLayout, IsRecord, Layout
  <1>4. ReadyIsCurrent'
    BY <1>1 DEF SchemaInv, ReadyIsCurrent, Layout
  <1>5. \A e \in Daemon : pc'[e] = "migrate" <=> lock' = e
    BY <1>1 DEF SchemaInv
  <1>6. Creating'
    BY <1>1 DEF SchemaInv, Creating, Layout
  <1>7. Deciding'
    BY <1>1 DEF SchemaInv, Deciding
  <1>8. Migrating'
    BY <1>1 DEF SchemaInv, Migrating, Layout
  <1> QED BY <1>2, <1>3, <1>4, <1>5, <1>6, <1>7, <1>8 DEF SchemaInv

\* main decides what to do with the version it was told.
LEMMA DecideStep ==
  ASSUME SchemaInv, NEW d \in Daemon, pc[d] \in {"version", "schema"},
         NEW v \in 0 .. 4, Decide(d, v),
         v = 1 => store.columns # "v2", v = 3 => store.version >= 3,
         v = 4 => Layout(store) = Released[4],
         store' = store, txn' = txn, lock' = lock, Bounds'
  PROVE  SchemaInv'
  <1> DEFINE s == IF v = 0 THEN "init" ELSE IF v < 4 THEN "begin" ELSE "ready"
             a == IF v = 0 THEN 1 ELSE v
  <1>1. /\ pc' \in [Daemon -> {"down", "version", "schema", "init", "begin", "migrate", "ready"}]
        /\ pc'[d] = s /\ \A e \in Daemon \ {d} : pc'[e] = pc[e]
        /\ at' \in [Daemon -> 0 .. Len(Creation) + 1]
        /\ at'[d] = a /\ \A e \in Daemon \ {d} : at'[e] = at[e]
    BY CreationOrder DEF SchemaInv, TypeOK, Decide
  <1>2. TypeOK'
    BY <1>1 DEF SchemaInv, TypeOK, Bounds, IsImage, Layout
  <1>3. KnownLayout' /\ IsRecord(store)' /\ IsRecord(txn)'
    BY DEF SchemaInv, KnownLayout, IsRecord, Layout
  <1>4. ReadyIsCurrent'
    BY <1>1 DEF SchemaInv, ReadyIsCurrent, Layout
  <1>5. \A e \in Daemon : pc'[e] = "migrate" <=> lock' = e
    BY <1>1 DEF SchemaInv
  <1>6. Creating'
    <2>1. pc'[d] = "init" => at'[d] = 1
      BY <1>1
    <2>2. \A e \in Daemon : pc'[e] = "init" /\ at'[e] > 1 => e # d /\ pc[e] = "init" /\ at[e] > 1
      BY <1>1, <2>1
    <2>3. \A e \in Daemon : pc'[e] = "init" => at'[e] \in 1 .. 7
      BY <1>1, <2>1 DEF SchemaInv, Creating
    <2>4. ASSUME NEW e \in Daemon, pc'[e] = "init", at'[e] > 1
          PROVE  Layout(store') \in {Part(at'[e] - 1), Released[4]}
      <3>1. e # d /\ at'[e] = at[e]
        BY <1>1, <2>2, <2>4
      <3> QED BY <2>2, <2>4, <3>1 DEF SchemaInv, Creating
    <2>5. ASSUME NEW e \in Daemon, NEW f \in Daemon,
                 pc'[e] = "init", at'[e] > 1, pc'[f] = "init", at'[f] > 1
          PROVE  e = f
      BY <2>2, <2>5 DEF SchemaInv, Creating
    <2> QED BY <2>3, <2>4, <2>5 DEF Creating
  <1>7. Deciding'
    BY <1>1 DEF SchemaInv, Deciding
  <1>8. Migrating'
    BY <1>1 DEF SchemaInv, Migrating, Layout
  <1> QED BY <1>2, <1>3, <1>4, <1>5, <1>6, <1>7, <1>8 DEF SchemaInv

\* A statement of db_init is committed by itself; nobody migrates at that moment.
LEMMA InitStatementStep ==
  ASSUME SchemaInv, NEW d \in Daemon, InitStatement(d)
  PROVE  SchemaInv' /\ store'.rows = store.rows /\ store'.labels = store.labels
  <1> DEFINE i == at[d]
  <1>1. /\ pc[d] = "init" /\ lock = "free" /\ Succeeds(i, store)
        /\ store' = Statement(i, store) /\ lock' = lock /\ txn' = txn /\ UNCHANGED bounds
        /\ i = 7 => pc' = [pc EXCEPT ![d] = "ready"] /\ at' = at
        /\ i # 7 => at' = [at EXCEPT ![d] = i + 1] /\ pc' = pc
    BY CreationOrder DEF InitStatement
  <1>2. /\ i \in 1 .. 7 /\ IsRecord(store) /\ KnownLayout
        /\ i > 1 => Layout(store) \in {Part(i - 1), Released[4]}
    BY <1>1 DEF SchemaInv, Creating
  <1>3. i = 1 => Layout(store) = Released[0]
    BY <1>1, <1>2, KnownBy, CreationOrder DEF Succeeds
  <1>4. /\ IsRecord(store') /\ store'.rows = store.rows /\ store'.labels = store.labels
        /\ i < 7 => /\ Layout(store') = Part(i) /\ store'.columns = "v3"
                    /\ store.version = 0 /\ store.columns = "v3"
        /\ i = 7 => Layout(store') = Released[4]
    BY <1>1, <1>2, <1>3, StatementLayout
  <1>5. i = 7 => store'.version = 4 /\ store'.columns = "v3"
    BY <1>4, ReleasedLayouts DEF Layout, Image
  <1>6. i < 7 => store'.version = 0
    BY <1>2, <1>4 DEF Layout, Part
  <1>7. i < 7 => Layout(store) # Released[4]
    BY <1>4, ReleasedLayouts DEF Layout, Image
  <1>8. ASSUME NEW e \in Daemon, e # d, pc[e] = "init" PROVE ~(at[e] > 1)
    <2>1. CASE i = 1
      <3>1. store.objects = {}
        BY <1>3, <2>1, ReleasedLayouts DEF Layout, Image
      <3>2. "history" \in Released[4].objects
        BY ReleasedLayouts, CurrentObjects DEF Image
      <3>3. ASSUME at[e] > 1, at[e] \in 1 .. 7 PROVE "history" \in Part(at[e] - 1).objects
        BY <3>3, CreationOrder DEF Part
      <3>4. at[e] > 1 => at[e] \in 1 .. 7 /\ Layout(store) \in {Part(at[e] - 1), Released[4]}
        BY <1>8 DEF SchemaInv, Creating
      <3>5. Layout(store).objects = {}
        BY <3>1 DEF Layout
      <3> QED BY <3>2, <3>3, <3>4, <3>5
    <2>2. CASE i # 1
      <3>1. i > 1
        BY <1>2, <2>2
      <3> QED BY <1>1, <1>8, <3>1 DEF SchemaInv, Creating
    <2> QED BY <2>1, <2>2
  <1>9. /\ pc' \in [Daemon -> {"down", "version", "schema", "init", "begin", "migrate", "ready"}]
        /\ pc'[d] = (IF i = 7 THEN "ready" ELSE "init") /\ \A e \in Daemon \ {d} : pc'[e] = pc[e]
        /\ at' \in [Daemon -> 0 .. Len(Creation) + 1]
        /\ at'[d] = (IF i = 7 THEN 7 ELSE i + 1) /\ \A e \in Daemon \ {d} : at'[e] = at[e]
    BY <1>1, <1>2, CreationOrder DEF SchemaInv, TypeOK
  <1>10. KnownLayout'
    <2>1. CASE i = 7
      BY <1>4, <2>1 DEF KnownLayout
    <2>2. CASE i # 7
      <3>1. i \in 1 .. 6 /\ Layout(store') = Part(i)
        BY <1>2, <1>4, <2>2
      <3> QED BY <3>1, CreationOrder DEF KnownLayout, Part
    <2> QED BY <2>1, <2>2
  <1>11. IsImage(store')
    <2>1. Statement(i, store).objects \subseteq Current
      <3>1. i \in DOMAIN Creation => Creation[i] \in Current
        BY DEF Current
      <3> QED BY <1>2, <3>1 DEF Statement, SchemaInv, TypeOK, IsImage, Layout, IsRecord
    <2>2. store'.version \in 0 .. 4 /\ store'.columns \in {"v1", "v2", "v3"}
      BY <1>2, <1>4, <1>5, <1>6
    <2> QED BY <1>1, <1>4, <2>1, <2>2 DEF SchemaInv, TypeOK, IsImage, Layout
  <1>12. TypeOK'
    BY <1>1, <1>9, <1>11 DEF SchemaInv, TypeOK, bounds, IsImage, Layout
  <1>13. ReadyIsCurrent'
    <2>1. \A e \in Daemon : pc[e] = "ready" => i = 7
      BY <1>2, <1>7 DEF SchemaInv, ReadyIsCurrent
    <2> QED BY <1>2, <1>4, <1>9, <2>1 DEF ReadyIsCurrent
  <1>14. \A e \in Daemon : pc'[e] # "migrate" /\ lock' # e
    BY <1>1, <1>9, SchemaAssumption DEF SchemaInv
  <1>15. Creating'
    <2>1. \A e \in Daemon : pc'[e] = "init" => at'[e] \in 1 .. 7
      BY <1>2, <1>9 DEF SchemaInv, Creating
    <2>2. ASSUME NEW e \in Daemon, pc'[e] = "init", at'[e] > 1 PROVE e = d
      BY <1>8, <1>9, <2>2
    <2>3. ASSUME pc'[d] = "init" PROVE Layout(store') = Part(at'[d] - 1)
      <3>1. i \in 1 .. 6 /\ at'[d] = i + 1
        BY <1>2, <1>9, <2>3
      <3>2. at'[d] - 1 = i
        BY <3>1
      <3> QED BY <1>4, <3>1, <3>2
    <2> QED BY <2>1, <2>2, <2>3 DEF Creating
  <1>16. Deciding'
    BY <1>1, <1>2, <1>4, <1>5, <1>9 DEF SchemaInv, Deciding
  <1>17. Migrating'
    BY <1>14 DEF Migrating
  <1>18. store'.version = 0 /\ store'.columns # "v2" => store'.labels = {}
    BY <1>2, <1>4, <1>5 DEF SchemaInv
  <1>19. IsRecord(txn')
    BY <1>1 DEF SchemaInv
  <1> QED BY <1>4, <1>10, <1>12, <1>13, <1>14, <1>15, <1>16, <1>17, <1>18, <1>19 DEF SchemaInv

\* The first statement of a migration takes the lock and fixes the image it starts from.
LEMMA BeginMigrationStep ==
  ASSUME SchemaInv, NEW d \in Daemon, BeginMigration(d), lock = "free"
  PROVE  SchemaInv'
  <1>1. /\ pc[d] = "begin" /\ lock' = d /\ txn' = store /\ store' = store /\ at' = at
        /\ pc' = [pc EXCEPT ![d] = "migrate"] /\ UNCHANGED bounds
    BY DEF BeginMigration
  <1>2. /\ pc' \in [Daemon -> {"down", "version", "schema", "init", "begin", "migrate", "ready"}]
        /\ pc'[d] = "migrate" /\ \A e \in Daemon \ {d} : pc'[e] = pc[e]
        /\ d # "free"
    BY <1>1, SchemaAssumption DEF SchemaInv, TypeOK
  <1>3. \A e \in Daemon : pc[e] # "migrate"
    BY SchemaAssumption DEF SchemaInv
  <1>4. TypeOK'
    BY <1>1, <1>2 DEF SchemaInv, TypeOK, bounds, IsImage, Layout
  <1>5. KnownLayout' /\ IsRecord(store)' /\ IsRecord(txn)'
    BY <1>1 DEF SchemaInv, KnownLayout, IsRecord, Layout
  <1>6. ReadyIsCurrent'
    BY <1>1, <1>2 DEF SchemaInv, ReadyIsCurrent, Layout
  <1>7. \A e \in Daemon : pc'[e] = "migrate" <=> lock' = e
    BY <1>1, <1>2, <1>3
  <1>8. Creating'
    BY <1>1, <1>2 DEF SchemaInv, Creating, Layout
  <1>9. Deciding'
    BY <1>1, <1>2 DEF SchemaInv, Deciding
  <1>10. Migrating'
    <2>1. /\ at[d] \in 1 .. 3 /\ (at[d] = 1 => store.columns # "v2")
          /\ (at[d] = 3 => store.version >= 3)
      BY <1>1 DEF SchemaInv, Deciding
    <2>2. /\ store.columns = "v2" => store.objects = Base
          /\ store.version >= 3 => Layout(store) \in {Released[3], Released[4]}
      BY KnownBy DEF SchemaInv
    <2>3. \A e \in Daemon : pc'[e] = "migrate" => e = d
      BY <1>2, <1>3
    <2> QED BY <1>1, <2>1, <2>2, <2>3 DEF Migrating
  <1> QED BY <1>1, <1>4, <1>5, <1>6, <1>7, <1>8, <1>9, <1>10 DEF SchemaInv

\* The migrations, field by field.
LEMMA Migrations ==
  ASSUME NEW x, IsRecord(x)
  PROVE  /\ Migrated(1, x) = [version |-> x.version, columns |-> "v2",
                              objects |-> x.objects \cup {"idx_timestamp"},
                              rows |-> x.rows, labels |-> {}]
         /\ Migrated(2, x) = [version |-> 3, columns |-> "v3", objects |-> x.objects \cup TagObjects,
                              rows |-> x.rows, labels |-> x.labels]
         /\ Migrated(3, x) = [version |-> 4, columns |-> x.columns,
                              objects |-> x.objects \cup {"idx_entry"},
                              rows |-> x.rows, labels |-> x.labels]
         /\ Migratable(1, x) <=> "history" \in x.objects
         /\ Migratable(2, x) <=> x.columns = "v2" /\ TagObjects \cap x.objects = {}
         /\ Migratable(3, x) => "idx_entry" \notin x.objects
  <1>1. x = [version |-> x.version, columns |-> x.columns, objects |-> x.objects,
             rows |-> x.rows, labels |-> x.labels]
    BY DEF IsRecord
  <1>2. Migrated(1, x) = [x EXCEPT !.columns = "v2", !.objects = x.objects \cup {"idx_timestamp"},
                                   !.labels = {}]
    BY <1>1 DEF Migrated
  <1>3. Migrated(2, x) = [x EXCEPT !.columns = "v3", !.version = 3,
                                   !.objects = x.objects \cup TagObjects]
    BY <1>1 DEF Migrated, TagObjects
  <1>4. Migrated(3, x) = [x EXCEPT !.version = 4, !.objects = x.objects \cup {"idx_entry"}]
    BY <1>1 DEF Migrated
  <1>5. /\ Migratable(1, x) <=> "history" \in x.objects
        /\ Migratable(2, x) <=> x.columns = "v2" /\ TagObjects \cap x.objects = {}
        /\ Migratable(3, x) => "idx_entry" \notin x.objects
    BY DEF Migratable, TagObjects
  <1>6. Migrated(1, x) = [version |-> x.version, columns |-> "v2",
                          objects |-> x.objects \cup {"idx_timestamp"}, rows |-> x.rows, labels |-> {}]
    BY <1>1, <1>2
  <1>7. Migrated(2, x) = [version |-> 3, columns |-> "v3", objects |-> x.objects \cup TagObjects,
                          rows |-> x.rows, labels |-> x.labels]
    BY <1>1, <1>3
  <1>8. Migrated(3, x) = [version |-> 4, columns |-> x.columns,
                          objects |-> x.objects \cup {"idx_entry"}, rows |-> x.rows, labels |-> x.labels]
    BY <1>1, <1>4
  <1> QED BY <1>5, <1>6, <1>7, <1>8

\* The migrations: from 1 to 2 only an image without labels can get any further, from
\* 2 to 3 and from 3 to 4 the layouts are the released ones.
LEMMA MigratedImage ==
  ASSUME SchemaInv, NEW d \in Daemon, Migrate(d)
  PROVE  IsImage(txn') /\ IsRecord(txn') /\ Migrating'
  <1> DEFINE v == at[d]
  <1>1. /\ pc[d] = "migrate" /\ v < 4 /\ Migratable(v, txn) /\ txn' = Migrated(v, txn)
        /\ at' = [at EXCEPT ![d] = v + 1] /\ store' = store /\ lock' = lock /\ pc' = pc
        /\ UNCHANGED bounds
    BY DEF Migrate
  <1>2. /\ v \in 1 .. 3 /\ txn.rows = store.rows
        /\ v = 1 => txn = store /\ store.columns # "v2"
        /\ v = 2 /\ txn.columns = "v2" /\ TagObjects \cap txn.objects = {} =>
             txn.objects = Base /\ txn.labels = store.labels
        /\ v = 3 => Layout(txn) \in {Released[3], Released[4]} /\ txn.labels = store.labels
    BY <1>1 DEF SchemaInv, Migrating
  <1>3. txn = [version |-> txn.version, columns |-> txn.columns, objects |-> txn.objects,
               rows |-> txn.rows, labels |-> txn.labels] /\ IsImage(txn) /\ IsRecord(txn)
    BY DEF SchemaInv, TypeOK, IsRecord
  <1>4. lock = d /\ \A e \in Daemon : pc[e] = "migrate" => e = d
    BY <1>1 DEF SchemaInv
  <1>5. /\ at' \in [Daemon -> 0 .. Len(Creation) + 1]
        /\ at'[d] = v + 1 /\ \A e \in Daemon \ {d} : at'[e] = at[e]
    BY <1>1, <1>2, CreationOrder DEF SchemaInv, TypeOK
  <1>6. CASE v = 1
    <2>1. txn' = [version |-> txn.version, columns |-> "v2", objects |-> txn.objects \cup {"idx_timestamp"},
                  rows |-> txn.rows, labels |-> {}]
      BY <1>1, <1>3, <1>6, Migrations
    <2>2. "history" \in store.objects
      BY <1>1, <1>2, <1>3, <1>6, Migrations
    <2>3. TagObjects \cap txn'.objects = {} => TagObjects \cap store.objects = {}
      BY <1>2, <1>6, <2>1
    <2>4. TagObjects \cap txn'.objects = {} => txn'.objects = Base /\ txn'.labels = store.labels
      <3>1. TagObjects \cap txn'.objects = {} => store.objects \cup {"idx_timestamp"} = Base /\ store.version = 0
        BY <1>2, <1>6, <2>2, <2>3, KnownBy DEF SchemaInv
      <3>2. txn'.objects = store.objects \cup {"idx_timestamp"} /\ txn'.labels = {}
        BY <1>2, <1>6, <2>1
      <3> QED BY <1>2, <1>6, <3>1, <3>2 DEF SchemaInv
    <2>5. IsImage(txn') /\ IsRecord(txn') /\ txn'.rows = txn.rows
      <3>1. "idx_timestamp" \in Current
        BY CurrentObjects
      <3> QED BY <1>3, <2>1, <3>1 DEF IsImage, Layout, IsRecord
    <2>6. Migrating'
      BY <1>1, <1>2, <1>4, <1>5, <1>6, <2>4, <2>5 DEF Migrating
    <2> QED BY <2>5, <2>6
  <1>7. CASE v = 2
    <2>1. /\ txn.columns = "v2" /\ TagObjects \cap txn.objects = {}
          /\ txn' = [version |-> 3, columns |-> "v3", objects |-> txn.objects \cup TagObjects,
                     rows |-> txn.rows, labels |-> txn.labels]
      BY <1>1, <1>3, <1>7, Migrations
    <2>2. txn.objects = Base /\ txn.labels = store.labels
      BY <1>2, <1>7, <2>1
    <2>3. Base \cup TagObjects = {"history", "idx_timestamp", "tags", "history_tags", "trigger"}
          /\ Base \cup TagObjects \subseteq Current
      BY CurrentObjects DEF Base, TagObjects
    <2>4. Layout(txn') = Released[3] /\ txn'.labels = store.labels /\ txn'.rows = txn.rows
      BY <2>1, <2>2, <2>3, ReleasedLayouts DEF Layout, Image
    <2>5. IsImage(txn') /\ IsRecord(txn')
      BY <1>3, <2>1, <2>2, <2>3 DEF IsImage, Layout, IsRecord
    <2>6. Migrating'
      BY <1>1, <1>2, <1>4, <1>5, <1>7, <2>4 DEF Migrating
    <2> QED BY <2>5, <2>6
  <1>8. CASE v = 3
    <2>1. /\ "idx_entry" \notin txn.objects
          /\ txn' = [version |-> 4, columns |-> txn.columns, objects |-> txn.objects \cup {"idx_entry"},
                     rows |-> txn.rows, labels |-> txn.labels]
      BY <1>1, <1>3, <1>8, Migrations
    <2>2. txn.labels = store.labels /\ Layout(txn) = Released[3]
      BY <1>2, <1>8, <2>1, ReleasedLayouts, CurrentObjects DEF Layout, Image
    <2>3. /\ txn.columns = "v3"
          /\ txn.objects = {"history", "idx_timestamp", "tags", "history_tags", "trigger"}
      BY <2>2, ReleasedLayouts DEF Layout, Image
    <2>4. txn.objects \cup {"idx_entry"} = Current
      BY <2>3, CurrentObjects
    <2>5. Layout(txn') = Released[4] /\ txn'.labels = store.labels /\ txn'.rows = txn.rows
      BY <2>1, <2>2, <2>3, <2>4, ReleasedLayouts DEF Layout, Image
    <2>6. IsImage(txn') /\ IsRecord(txn')
      BY <1>3, <2>1, <2>3, <2>4 DEF IsImage, Layout, IsRecord
    <2>7. Migrating'
      BY <1>1, <1>2, <1>4, <1>5, <1>8, <2>5 DEF Migrating
    <2> QED BY <2>6, <2>7
  <1> QED BY <1>2, <1>6, <1>7, <1>8

\* A migration changes the transaction only.
LEMMA MigrateStep ==
  ASSUME SchemaInv, NEW d \in Daemon, Migrate(d)
  PROVE  SchemaInv'
  <1>1. /\ at' = [at EXCEPT ![d] = at[d] + 1] /\ pc[d] = "migrate" /\ at[d] < 4
        /\ store' = store /\ lock' = lock /\ pc' = pc /\ UNCHANGED bounds
    BY DEF Migrate
  <1>2. IsImage(txn') /\ IsRecord(txn') /\ Migrating'
    BY MigratedImage
  <1>3. /\ at' \in [Daemon -> 0 .. Len(Creation) + 1]
        /\ \A e \in Daemon : pc[e] # "migrate" => at'[e] = at[e]
    BY <1>1, CreationOrder DEF SchemaInv, TypeOK
  <1>4. TypeOK'
    BY <1>1, <1>2, <1>3 DEF SchemaInv, TypeOK, bounds, IsImage, Layout
  <1>5. KnownLayout' /\ IsRecord(store)' /\ ReadyIsCurrent'
    BY <1>1 DEF SchemaInv, KnownLayout, IsRecord, Layout, ReadyIsCurrent
  <1>6. Creating'
    BY <1>1, <1>3 DEF SchemaInv, Creating, Layout
  <1>7. Deciding'
    BY <1>1, <1>3 DEF SchemaInv, Deciding
  <1> QED BY <1>1, <1>2, <1>4, <1>5, <1>6, <1>7 DEF SchemaInv

\* The commit shows the complete schema at once, with every entry and label.
LEMMA CommitMigrationStep ==
  ASSUME SchemaInv, NEW d \in Daemon, CommitMigration(d)
  PROVE  SchemaInv' /\ store'.rows = store.rows /\ store'.labels = store.labels
  <1>1. /\ pc[d] = "migrate" /\ at[d] = 4 /\ store' = txn /\ lock' = "free" /\ at' = at /\ txn' = txn
        /\ pc' = [pc EXCEPT ![d] = "ready"] /\ UNCHANGED bounds
    BY DEF CommitMigration
  <1>2. Layout(txn) = Released[4] /\ txn.rows = store.rows /\ txn.labels = store.labels
    BY <1>1 DEF SchemaInv, Migrating
  <1>3. txn.version = 4 /\ txn.columns = "v3"
    BY <1>2, ReleasedLayouts DEF Layout, Image
  <1>4. /\ pc' \in [Daemon -> {"down", "version", "schema", "init", "begin", "migrate", "ready"}]
        /\ pc'[d] = "ready" /\ \A e \in Daemon \ {d} : pc'[e] = pc[e]
    BY <1>1 DEF SchemaInv, TypeOK
  <1>5. \A e \in Daemon : pc'[e] # "migrate" /\ lock' # e
    BY <1>1, <1>4, SchemaAssumption DEF SchemaInv
  <1>6. TypeOK'
    BY <1>1, <1>4 DEF SchemaInv, TypeOK, bounds, IsImage, Layout
  <1>7. KnownLayout' /\ IsRecord(store)' /\ IsRecord(txn)' /\ ReadyIsCurrent'
    BY <1>1, <1>2 DEF SchemaInv, KnownLayout, IsRecord, Layout, ReadyIsCurrent
  <1>8. Creating'
    BY <1>1, <1>2, <1>4 DEF SchemaInv, Creating, Layout
  <1>9. Deciding'
    BY <1>1, <1>3, <1>4 DEF SchemaInv, Deciding
  <1>10. Migrating'
    BY <1>5 DEF Migrating
  <1> QED BY <1>1, <1>2, <1>3, <1>5, <1>6, <1>7, <1>8, <1>9, <1>10 DEF SchemaInv

\* Entries and labels are added to a schema nobody migrates; labels need version 4.
LEMMA GrowStep ==
  ASSUME SchemaInv, lock = "free", UNCHANGED <<lock, pc, at, txn, bounds>>,
         \/ \E e \in Entry : store' = [store EXCEPT !.rows = @ \cup {e}]
         \/ /\ store.version = 4
            /\ \E n \in Tag, e \in store.rows : store' = [store EXCEPT !.labels = @ \cup {<<n, e>>}]
  PROVE  SchemaInv' /\ store.rows \subseteq store'.rows /\ store.labels \subseteq store'.labels
  <1>1. store = [version |-> store.version, columns |-> store.columns, objects |-> store.objects,
                 rows |-> store.rows, labels |-> store.labels] /\ IsImage(store)
    BY DEF SchemaInv, TypeOK, IsRecord
  <1>2. PICK rows, labels :
          /\ store' = [version |-> store.version, columns |-> store.columns, objects |-> store.objects,
                       rows |-> rows, labels |-> labels]
          /\ store.rows \subseteq rows /\ rows \subseteq Entry
          /\ store.labels \subseteq labels /\ labels \subseteq Tag \X rows
          /\ labels = store.labels \/ store.version = 4
    <2>1. CASE \E e \in Entry : store' = [store EXCEPT !.rows = @ \cup {e}]
      <3>1. PICK e \in Entry : store' = [store EXCEPT !.rows = @ \cup {e}]
        BY <2>1
      <3>2. store' = [version |-> store.version, columns |-> store.columns, objects |-> store.objects,
                      rows |-> store.rows \cup {e}, labels |-> store.labels]
        BY <1>1, <3>1
      <3> DEFINE R == store.rows \cup {e}
      <3>3. R \subseteq Entry /\ store.labels \subseteq Tag \X R /\ store.rows \subseteq R
        BY <1>1 DEF IsImage
      <3> HIDE DEF R
      <3> QED BY <3>2, <3>3 DEF R
    <2>2. CASE /\ store.version = 4
               /\ \E n \in Tag, e \in store.rows : store' = [store EXCEPT !.labels = @ \cup {<<n, e>>}]
      <3>1. PICK n \in Tag, e \in store.rows : store' = [store EXCEPT !.labels = @ \cup {<<n, e>>}]
        BY <2>2
      <3>2. store' = [version |-> store.version, columns |-> store.columns, objects |-> store.objects,
                      rows |-> store.rows, labels |-> store.labels \cup {<<n, e>>}]
        BY <1>1, <3>1
      <3> DEFINE L == store.labels \cup {<<n, e>>}
      <3>3. store.rows \subseteq Entry /\ L \subseteq Tag \X store.rows /\ store.labels \subseteq L
        BY <1>1 DEF IsImage
      <3> HIDE DEF L
      <3> QED BY <2>2, <3>2, <3>3 DEF L
    <2> QED BY <2>1, <2>2
  <1>3. /\ IsRecord(store') /\ Layout(store') = Layout(store)
        /\ store'.version = store.version /\ store'.columns = store.columns
        /\ store'.rows = rows /\ store'.labels = labels
    BY <1>2 DEF IsRecord, Layout
  <1>4. IsImage(store')
    BY <1>1, <1>2, <1>3 DEF IsImage
  <1>5. \A e \in Daemon : pc[e] # "migrate"
    BY SchemaAssumption DEF SchemaInv
  <1>6. TypeOK'
    BY <1>4 DEF SchemaInv, TypeOK, bounds, IsImage, Layout
  <1>7. KnownLayout' /\ IsRecord(txn)' /\ ReadyIsCurrent'
    BY <1>3 DEF SchemaInv, KnownLayout, IsRecord, ReadyIsCurrent
  <1>8. Creating'
    BY <1>3 DEF SchemaInv, Creating
  <1>9. Deciding'
    BY <1>3 DEF SchemaInv, Deciding
  <1>10. Migrating'
    BY <1>5 DEF Migrating
  <1>11. store'.version = 0 /\ store'.columns # "v2" => store'.labels = {}
    BY <1>2, <1>3 DEF SchemaInv
  <1> QED BY <1>2, <1>3, <1>6, <1>7, <1>8, <1>9, <1>10, <1>11 DEF SchemaInv

\* Reading the version: the second query tells only of versions 0 to 2, and another
\* daemon may have gone on since the first.
LEMMA ReadStep ==
  ASSUME SchemaInv, NEW d \in Daemon, ReadUserVersion(d) \/ ReadSchema(d) \/ ReadFails(d)
  PROVE  SchemaInv' /\ store' = store
  <1>1. KnownLayout /\ Bounds /\ (pc[d] # "migrate" => lock # d)
    BY DEF SchemaInv, TypeOK, Bounds
  <1>2. CASE ReadUserVersion(d) /\ store.version = 0
    <2>1. /\ pc' = [pc EXCEPT ![d] = "schema"] /\ at' = at /\ pc[d] = "version" /\ UNCHANGED bounds
          /\ store' = store /\ lock' = lock /\ txn' = txn
      BY <1>2 DEF ReadUserVersion
    <2>2. lock' = (IF lock = d THEN "free" ELSE lock) /\ Bounds'
      BY <1>1, <2>1 DEF Bounds, bounds
    <2> QED BY <2>1, <2>2, QuietStep
  <1>3. CASE ReadUserVersion(d) /\ store.version # 0
    <2>1. /\ Decide(d, store.version) /\ pc[d] = "version" /\ UNCHANGED bounds
          /\ store' = store /\ lock' = lock /\ txn' = txn
      BY <1>3 DEF ReadUserVersion
    <2>2. /\ store.version \in {3, 4} /\ Bounds'
          /\ store.version = 4 => Layout(store) = Released[4]
      BY <1>1, <1>3, <2>1, KnownBy DEF Bounds, bounds
    <2>3. /\ store.version \in 0 .. 4 /\ store.version >= 3 /\ store.version # 1
          /\ pc[d] \in {"version", "schema"}
      BY <2>1, <2>2
    <2> QED BY <2>1, <2>2, <2>3, DecideStep
  <1>4. CASE ReadSchema(d)
    <2>1. /\ Decide(d, Detected(store)) /\ pc[d] \in {"version", "schema"} /\ Bounds'
          /\ store' = store /\ lock' = lock /\ txn' = txn
      BY <1>1, <1>4 DEF ReadSchema, Bounds, bounds
    <2>2. Detected(store) \in 0 .. 2 /\ (Detected(store) = 1 => store.columns # "v2")
      BY DEF Detected
    <2>3. Detected(store) \in 0 .. 4 /\ Detected(store) # 3 /\ Detected(store) # 4
      BY <2>2
    <2> QED BY <2>1, <2>2, <2>3, DecideStep
  <1>5. CASE ReadFails(d)
    <2>1. Bounds' /\ store' = store /\ lock' = lock /\ txn' = txn
      BY <1>1, <1>5, SchemaAssumption DEF ReadFails, Bounds
    <2>2. CASE pc[d] = "version" /\ pc' = [pc EXCEPT ![d] = "down"] /\ UNCHANGED at
      <3>1. lock' = IF lock = d THEN "free" ELSE lock
        BY <1>1, <2>1, <2>2
      <3> QED BY <2>1, <2>2, <3>1, QuietStep
    <2>3. CASE pc[d] = "schema" /\ Decide(d, 0)
      <3>1. 0 \in 0 .. 4 /\ pc[d] \in {"version", "schema"}
        BY <2>3
      <3> QED BY <2>1, <2>3, <3>1, DecideStep
    <2> QED BY <1>5, <2>2, <2>3 DEF ReadFails
  <1> QED BY <1>2, <1>3, <1>4, <1>5

\* Every way a daemon starts or ends.
LEMMA EndStep ==
  ASSUME SchemaInv, NEW d \in Daemon,
         \/ Start(d) \/ InitFails(d) \/ MigrateFails(d) \/ StatementFails(d) \/ Kill(d)
         \/ BeginMigration(d) /\ lock # "free"
  PROVE  SchemaInv' /\ store' = store
  <1> DEFINE Free == lock' = IF lock = d THEN "free" ELSE lock
  <1>1. pc[d] = "migrate" <=> lock = d
    BY DEF SchemaInv
  <1>2. Bounds
    BY DEF SchemaInv, TypeOK, Bounds
  <1>3. SUFFICES \E s \in {"down", "version", "schema"} :
                   /\ pc' = [pc EXCEPT ![d] = s] /\ at' = at /\ store' = store /\ txn' = txn
                   /\ Free /\ Bounds'
    BY QuietStep
  <1>4. CASE Start(d)
    BY <1>1, <1>2, <1>4 DEF Start, Bounds, bounds
  <1>5. CASE InitFails(d)
    BY <1>1, <1>2, <1>5 DEF InitFails, Bounds, bounds
  <1>6. CASE MigrateFails(d)
    BY <1>1, <1>2, <1>6 DEF MigrateFails, Bounds, bounds
  <1>7. CASE StatementFails(d)
    BY <1>2, <1>7, SchemaAssumption DEF StatementFails, Ends, Bounds
  <1>8. CASE Kill(d)
    BY <1>2, <1>8, SchemaAssumption DEF Kill, Ends, Bounds
  <1>9. CASE BeginMigration(d) /\ lock # "free"
    BY <1>1, <1>2, <1>9 DEF BeginMigration, Bounds, bounds
  <1> QED BY <1>4, <1>5, <1>6, <1>7, <1>8, <1>9

\* Every step keeps the invariant, and neither an entry nor a label goes.
LEMMA SchemaStep ==
  ASSUME SchemaInv, [Next]_vars
  PROVE  SchemaInv' /\ store.rows \subseteq store'.rows /\ store.labels \subseteq store'.labels
  <1>1. CASE UNCHANGED vars
    <2>1. UNCHANGED <<store, lock, pc, at, txn, kills, failures, original>>
      BY <1>1 DEF vars, bounds
    <2> QED BY <2>1 DEF SchemaInv, TypeOK, IsImage, IsRecord, Layout, KnownLayout, ReadyIsCurrent,
                        Creating, Deciding, Migrating
  <1>2. ASSUME NEW d \in Daemon, Step(d)
        PROVE  SchemaInv' /\ store.rows \subseteq store'.rows /\ store.labels \subseteq store'.labels
    <2>1. CASE Start(d) \/ InitFails(d) \/ MigrateFails(d) \/ (BeginMigration(d) /\ lock # "free")
      BY <2>1, EndStep
    <2>2. CASE ReadUserVersion(d) \/ ReadSchema(d)
      BY <2>2, ReadStep
    <2>3. CASE InitStatement(d)
      BY <2>3, InitStatementStep
    <2>4. CASE BeginMigration(d) /\ lock = "free"
      BY <2>4, BeginMigrationStep DEF BeginMigration
    <2>5. CASE Migrate(d)
      BY <2>5, MigrateStep DEF Migrate
    <2>6. CASE CommitMigration(d)
      BY <2>6, CommitMigrationStep
    <2> QED BY <1>2, <2>1, <2>2, <2>3, <2>4, <2>5, <2>6 DEF Step
  <1>3. ASSUME NEW d \in Daemon, ReadFails(d) PROVE SchemaInv' /\ store' = store
    BY <1>3, ReadStep
  <1>4. ASSUME NEW d \in Daemon, StatementFails(d) \/ Kill(d) PROVE SchemaInv' /\ store' = store
    BY <1>4, EndStep
  <1>5. ASSUME NEW d \in Daemon, Save(d)
        PROVE  SchemaInv' /\ store.rows \subseteq store'.rows /\ store.labels \subseteq store'.labels
    BY <1>5, GrowStep DEF Save
  <1>6. CASE TagEntry
    BY <1>6, GrowStep DEF TagEntry
  <1>7. CASE Next
    <2>1. CASE \E d \in Daemon : Step(d) \/ ReadFails(d) \/ StatementFails(d) \/ Kill(d) \/ Save(d)
      <3>1. PICK d \in Daemon : Step(d) \/ ReadFails(d) \/ StatementFails(d) \/ Kill(d) \/ Save(d)
        BY <2>1
      <3>2. CASE Step(d)
        BY <1>2, <3>2
      <3>3. CASE ReadFails(d) \/ StatementFails(d) \/ Kill(d)
        BY <1>3, <1>4, <3>3
      <3>4. CASE Save(d)
        BY <1>5, <3>4
      <3> QED BY <3>1, <3>2, <3>3, <3>4
    <2> QED BY <1>6, <1>7, <2>1 DEF Next
  <1> QED BY <1>1, <1>7

\* The database is found empty or as a release left it.
LEMMA SchemaInit == Init => SchemaInv
  <1> SUFFICES ASSUME Init PROVE SchemaInv
    OBVIOUS
  <1>1. PICK rows \in SUBSET Entry : \E labels \in SUBSET (Tag \X rows) :
          /\ original = 0 => rows = {}
          /\ original = 1 => labels = {}
          /\ store = [version |-> Released[original].version, columns |-> Released[original].columns,
                      objects |-> Released[original].objects, rows |-> rows, labels |-> labels]
    BY DEF Init
  <1>2. PICK labels \in SUBSET (Tag \X rows) :
          /\ original = 0 => rows = {}
          /\ original = 1 => labels = {}
          /\ store = [version |-> Released[original].version, columns |-> Released[original].columns,
                      objects |-> Released[original].objects, rows |-> rows, labels |-> labels]
    BY <1>1
  <1>3. /\ original \in 0 .. 4 /\ txn = store /\ lock = "free"
        /\ pc = [d \in Daemon |-> "down"] /\ at = [d \in Daemon |-> 0]
        /\ kills = 0 /\ failures = 0 /\ original \in Found /\ "free" \notin Daemon
        /\ MaxKills \in Nat /\ MaxFailures \in Nat
    BY SchemaAssumption DEF Init
  <1>4. /\ Released[original] = [version |-> Released[original].version,
                                 columns |-> Released[original].columns,
                                 objects |-> Released[original].objects]
        /\ Released[original].version \in 0 .. 4
        /\ Released[original].columns \in {"v1", "v2", "v3"}
        /\ Released[original].objects \subseteq Current
        /\ Released[original].version = 0 /\ Released[original].columns # "v2" => original \in {0, 1}
    <2>1. original = 0 \/ original = 1 \/ original = 2 \/ original = 3 \/ original = 4
      BY <1>3
    <2> QED BY <2>1, ReleasedLayouts, CurrentObjects DEF Image
  <1>5. IsImage(store) /\ IsRecord(store) /\ Layout(store) = Released[original]
    BY <1>2, <1>4 DEF IsImage, IsRecord, Layout
  <1>6. TypeOK
    BY <1>3, <1>5, CreationOrder DEF TypeOK
  <1>7. KnownLayout
    BY <1>3, <1>5 DEF KnownLayout
  <1>8. \A d \in Daemon : pc[d] = "down"
    BY <1>3
  <1>9. \A d \in Daemon : pc[d] = "migrate" <=> lock = d
    BY <1>3, <1>8
  <1>10. store.version = 0 /\ store.columns # "v2" => store.labels = {}
    BY <1>2, <1>4
  <1>11. ReadyIsCurrent /\ Creating /\ Deciding /\ Migrating
    BY <1>8 DEF ReadyIsCurrent, Creating, Deciding, Migrating
  <1> QED BY <1>3, <1>5, <1>6, <1>7, <1>9, <1>10, <1>11 DEF SchemaInv

-------------------------------------------------------------------------------
(* What holds of every behaviour.                                              *)

\* The invariant holds, for any number of daemons, kills and failing statements.
THEOREM SchemaInvariant == Spec => []SchemaInv
  BY SchemaInit, SchemaStep, PTL DEF Spec

\* Every variable keeps its type.
THEOREM SchemaTypes == Spec => []TypeOK
  <1>1. SchemaInv => TypeOK
    BY DEF SchemaInv
  <1> QED BY <1>1, SchemaInvariant, PTL

\* No half of a migration is ever visible, nor a mixture of two daemons' work.
THEOREM KnownLayoutTheorem == Spec => []KnownLayout
  <1>1. SchemaInv => KnownLayout
    BY DEF SchemaInv
  <1> QED BY <1>1, SchemaInvariant, PTL

\* A daemon that is up works on the complete version 4.
THEOREM ReadyIsCurrentTheorem == Spec => []ReadyIsCurrent
  <1>1. SchemaInv => ReadyIsCurrent
    BY DEF SchemaInv
  <1> QED BY <1>1, SchemaInvariant, PTL

\* Starting, dying and racing never cost an entry or a label.
THEOREM KeepsDataTheorem == Spec => KeepsData
  <1>1. SchemaInv /\ [Next]_vars =>
          store.rows \subseteq store'.rows /\ store.labels \subseteq store'.labels
    BY SchemaStep
  <1> QED BY <1>1, SchemaInvariant, PTL DEF Spec, KeepsData
===============================================================================
