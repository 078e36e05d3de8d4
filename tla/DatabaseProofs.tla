---------------------------- MODULE DatabaseProofs ----------------------------
(* What process_queue_entry of cclipd and the commands of cclip keep of the     *)
(* database they share, for any number of commands, entries and restarts, and   *)
(* any size and period of the cleanup.                                          *)
EXTENDS Database, StoreProofs

ClientRecord == [pc : {"idle", "first", "locked", "second", "locked2"},
                 op : Command, pick : SUBSET [id : Nat, data : Content]]

\* Where the programs stand, and who has the write lock: the daemon from its first
\* statement to COMMIT or ROLLBACK, a command while it is at a statement.
Control ==
  /\ lock \in {"free", "daemon"} \cup Client
  /\ daemon \in {"idle", "insert", "prune", "commit", "rollback"}
  /\ open \in BOOLEAN /\ due \in BOOLEAN
  /\ client \in [Client -> ClientRecord]
  /\ current \in {NoEntry} \cup [data : Content, time : 0 .. MaxTime]
  /\ daemon # "idle" => current \in [data : Content, time : 0 .. MaxTime]
  /\ open <=> daemon # "idle"
  /\ lock = "daemon" => daemon \in {"prune", "commit", "rollback"}
  /\ daemon \in {"prune", "commit"} => lock = "daemon"
  /\ due => daemon \in {"prune", "commit", "rollback"} /\ Keep > 0
  /\ daemon = "prune" => due
  /\ \A c \in Client : client[c].pc \in {"locked", "locked2"} <=> lock = c

\* The image in the daemon's transaction.  While the daemon has the lock nobody else
\* writes, so what it has of the tags is what is committed; what it will commit holds
\* its entry, or the entry was pruned for a later one.
Images ==
  /\ Sound(store) /\ Sound(txn)
  /\ daemon \in {"prune", "commit"} => txn.tags = store.tags /\ txn.links = store.links
  /\ daemon = "prune" => txn = Upsert(store, current.data, current.time)
  /\ daemon = "commit" =>
       /\ due => Cardinality(Untagged(txn)) <= Keep
       /\ \/ \E r \in txn.history : Hash[r.data] = Hash[current.data]
          \/ due /\ \E r \in Untagged(store) : r.time >= current.time

One(b) == IF b THEN 1 ELSE 0

\* The counters move at most once per entry.
Tally ==
  /\ copies \in 0 .. MaxCopies
  /\ counter \in Nat /\ counter + One(daemon = "insert") <= copies
  /\ since \in Nat /\ since + One(daemon # "idle") <= copies
  /\ misses \in Nat /\ misses + One(daemon # "idle") <= copies

\* What failed cleanups allow for.
Allowance == (Period - 1) * misses

\* How far the insertion counter is on its way to the next cleanup bounds how many
\* transactions have committed since the last one, the one at its COMMIT included.
Rate ==
  LET place == counter % Period IN
  Keep > 0 =>
    /\ due => /\ since <= Allowance + Period - 1
              /\ place = 1 % Period
    /\ ~due => since + One(daemon = "commit") <=
                 Allowance + (IF place = 0 THEN Period ELSE place) - 1

\* The inductive invariant.
DatabaseInv == Control /\ Images /\ Tally /\ Rate

-------------------------------------------------------------------------------
(* The commands of cclip.                                                      *)

\* What a command has the tables be: sound, and without a new orphaned tag unless
\* this is the first of tag's two statements.
Harmless(d, c, next) ==
  /\ Sound(d)
  /\ Orphans(d) \subseteq Orphans(store) \cup (IF next = "second" THEN {client[c].op.tag} ELSE {})

\* Every statement of a command is one of these.
LEMMA StatementHarmless ==
  ASSUME Sound(store), client \in [Client -> ClientRecord], NEW c \in Client, ClientStep(c),
         ~Pick(c), ~Run(c), ~Lock(c), ~GiveUp(c)
  PROVE  \E at \in {"locked", "locked2"}, next \in {"idle", "second"} : \E d :
           Apply(c, at, d, next) /\ Harmless(d, c, next)
  <1> DEFINE Goal == \E at \in {"locked", "locked2"}, next \in {"idle", "second"} : \E d :
                       Apply(c, at, d, next) /\ Harmless(d, c, next)
  <1> SUFFICES Goal
    OBVIOUS
  <1>0. client[c].op.tag \in Tag
    BY DEF ClientRecord, Command
  <1>1. ASSUME NEW d, Sound(d), Orphans(d) \subseteq Orphans(store), Apply(c, "locked", d, "idle")
        PROVE  Goal
    <2>1. Harmless(d, c, "idle")
      BY <1>1 DEF Harmless
    <2> QED BY <1>1, <2>1
  <1>2. ASSUME NEW ids, Apply(c, "locked", DeleteIds(store, ids), "idle") PROVE Goal
    <2>1. Sound(DeleteIds(store, ids)) /\ Orphans(DeleteIds(store, ids)) \subseteq Orphans(store)
      BY DeleteIdsSound
    <2> HIDE DEF Goal
    <2> QED BY <1>1, <1>2, <2>1
  <1>3. ASSUME NEW gone, Apply(c, "locked", Unlink(store, gone), "idle") PROVE Goal
    <2>1. Sound(Unlink(store, gone)) /\ Orphans(Unlink(store, gone)) \subseteq Orphans(store)
      BY UnlinkSound
    <2> HIDE DEF Goal
    <2> QED BY <1>1, <1>3, <2>1
  <1>4. CASE TagName(c)
    <2> DEFINE d == AddTag(store, client[c].op.tag)
    <2>1. Sound(d) /\ Orphans(d) \subseteq Orphans(store) \cup {client[c].op.tag}
      BY <1>0, AddTagSound
    <2>2. Apply(c, "locked", d, "second")
      BY <1>4 DEF TagName
    <2> HIDE DEF d
    <2>3. Harmless(d, c, "second")
      BY <2>1 DEF Harmless
    <2> QED BY <2>2, <2>3
  <1>5. CASE TagEntry(c)
    <2>1. PICK i \in Picked(c), n \in {client[c].op.tag} :
             Apply(c, "locked2", IF CanLink(store, n, i) THEN Link(store, n, i) ELSE store, "idle")
      BY <1>5 DEF TagEntry
    <2> DEFINE d == IF CanLink(store, n, i) THEN Link(store, n, i) ELSE store
    <2>2. Sound(d) /\ Orphans(d) \subseteq Orphans(store)
      BY LinkSound
    <2> HIDE DEF d
    <2>3. Harmless(d, c, "idle")
      BY <2>2 DEF Harmless
    <2>4. Apply(c, "locked2", d, "idle")
      BY <2>1 DEF d
    <2> QED BY <2>3, <2>4
  <1> HIDE DEF Goal
  <1>6. CASE Delete(c)
    BY <1>2, <1>6 DEF Delete
  <1>7. CASE Untag(c)
    BY <1>3, <1>7 DEF Untag
  <1>8. CASE UntagAll(c)
    BY <1>3, <1>8 DEF UntagAll
  <1>9. CASE TagsDelete(c)
    BY <1>3, <1>9 DEF TagsDelete
  <1>10. CASE TagsWipe(c)
    BY <1>3, <1>10 DEF TagsWipe
  <1>11. CASE Wipe(c)
    BY <1>2, <1>11 DEF Wipe
  <1>12. CASE WipeAll(c)
    BY <1>2, <1>12 DEF WipeAll
  <1>13. CASE Vacuum(c)
    BY <1>1, <1>13 DEF Vacuum
  <1> QED BY <1>4, <1>5, <1>6, <1>7, <1>8, <1>9, <1>10, <1>11, <1>12, <1>13 DEF ClientStep

\* The records that EXCEPT makes of a client's.
LEMMA RecordChange ==
  ASSUME NEW x \in ClientRecord, NEW pc, NEW op, NEW pick
  PROVE  /\ x = [pc |-> x.pc, op |-> x.op, pick |-> x.pick]
         /\ [x EXCEPT !.pick = pick] = [pc |-> x.pc, op |-> x.op, pick |-> pick]
         /\ [x EXCEPT !.pc = pc] = [pc |-> pc, op |-> x.op, pick |-> x.pick]
         /\ [[x EXCEPT !.pc = pc] EXCEPT !.op = op] = [pc |-> pc, op |-> op, pick |-> x.pick]
  <1>1. x = [pc |-> x.pc, op |-> x.op, pick |-> x.pick]
    BY DEF ClientRecord
  <1>2. [x EXCEPT !.pick = pick] = [pc |-> x.pc, op |-> x.op, pick |-> pick]
    BY <1>1
  <1>3. [x EXCEPT !.pc = pc] = [pc |-> pc, op |-> x.op, pick |-> x.pick]
    BY <1>1
  <1>4. [[pc |-> pc, op |-> x.op, pick |-> x.pick] EXCEPT !.op = op]
          = [pc |-> pc, op |-> op, pick |-> x.pick]
    OBVIOUS
  <1> QED BY <1>1, <1>2, <1>3, <1>4

\* One client's record changes and keeps its form; the others' stay.
LEMMA ClientChange ==
  ASSUME client \in [Client -> ClientRecord], NEW c \in Client,
         NEW r \in ClientRecord, client' = [client EXCEPT ![c] = r]
  PROVE  /\ client' \in [Client -> ClientRecord] /\ client'[c] = r
         /\ \A e \in Client \ {c} : client'[e] = client[e]
  OBVIOUS

\* What Apply does to the client's record.
LEMMA ApplyClient ==
  ASSUME client \in [Client -> ClientRecord], Command # {}, NEW c \in Client,
         NEW at, NEW d, NEW next \in {"idle", "second"}, Apply(c, at, d, next)
  PROVE  /\ client' \in [Client -> ClientRecord]
         /\ client'[c].pc = next
         /\ next = "second" => client'[c].op = client[c].op
         /\ \A e \in Client \ {c} : client'[e] = client[e]
  <1> DEFINE op == IF next = "idle" THEN NoCommand ELSE client[c].op
             r == [pc |-> next, op |-> op, pick |-> client[c].pick]
  <1>1. NoCommand \in Command
    BY DEF NoCommand
  <1>2. client[c] \in ClientRecord
    OBVIOUS
  <1>3. r \in ClientRecord
    BY <1>1, <1>2 DEF ClientRecord
  <1>4. client' = [client EXCEPT ![c] = r]
    <2> HIDE DEF op
    <2>1. client' = [client EXCEPT ![c] = [[client[c] EXCEPT !.pc = next] EXCEPT !.op = op]]
      BY DEF Apply, op
    <2>2. [[client[c] EXCEPT !.pc = next] EXCEPT !.op = op] = r
      BY <1>2, RecordChange
    <2> HIDE DEF r
    <2> QED BY <2>1, <2>2
  <1>5. r.pc = next /\ (next = "second" => r.op = client[c].op)
    OBVIOUS
  <1> HIDE DEF r
  <1> QED BY <1>3, <1>4, <1>5, ClientChange

-------------------------------------------------------------------------------
(* The steps of the invariant.                                                 *)

\* There is a command to run: some tag name exists.
LEMMA CommandExists == Command # {}
  <1>1. PICK n \in Tag : TRUE
    BY DatabaseAssumption
  <1>2. [kind |-> "wipe", tag |-> n] \in Command
    BY DEF Command
  <1> QED BY <1>2

\* The parts of a step.
LEMMA StepCases ==
  ASSUME Sound(store), client \in [Client -> ClientRecord], [Next]_vars
  PROVE  \/ DaemonStep \/ Restart
         \/ \E c \in Client : Pick(c) \/ Run(c) \/ Lock(c) \/ GiveUp(c)
         \/ \E c \in Client, at \in {"locked", "locked2"}, next \in {"idle", "second"} : \E d :
              Apply(c, at, d, next) /\ Harmless(d, c, next)
         \/ UNCHANGED vars
  <1>1. ASSUME NEW c \in Client, ClientStep(c)
        PROVE  \/ Pick(c) \/ Run(c) \/ Lock(c) \/ GiveUp(c)
               \/ \E at \in {"locked", "locked2"}, next \in {"idle", "second"} : \E d :
                    Apply(c, at, d, next) /\ Harmless(d, c, next)
    BY <1>1, StatementHarmless
  <1> QED BY <1>1 DEF Next

\* The daemon's own steps and its death keep the control state.
LEMMA ControlDaemon ==
  ASSUME Control, DaemonStep \/ Restart
  PROVE  Control'
  <1> USE DatabaseAssumption
  <1>1. client' = client
    BY DEF DaemonStep, Begin, Insert, InsertBusy, DeleteOldest, Commit, StatementFails, Rollback,
           Restart, daemonVars, bounds, history
  <1>2. CASE Begin
    BY <1>1, <1>2 DEF Begin, Control, history
  <1>3. CASE Insert
    BY <1>1, <1>3 DEF Insert, Control
  <1>4. CASE InsertBusy
    BY <1>1, <1>4 DEF InsertBusy, Control
  <1>5. CASE DeleteOldest
    BY <1>1, <1>5 DEF DeleteOldest, Control, history
  <1>6. CASE Commit
    BY <1>1, <1>6 DEF Commit, Control
  <1>7. CASE StatementFails
    BY <1>1, <1>7 DEF StatementFails, Control
  <1>8. CASE Rollback
    BY <1>1, <1>8 DEF Rollback, Control
  <1>9. CASE Restart
    BY <1>1, <1>9 DEF Restart, Control
  <1> QED BY <1>2, <1>3, <1>4, <1>5, <1>6, <1>7, <1>8, <1>9 DEF DaemonStep

\* So do the commands: one that is at a statement has the lock, and the daemon has not.
LEMMA ControlClient ==
  ASSUME Control, IsStore(store), NEW c \in Client,
         \/ Pick(c) \/ Run(c) \/ Lock(c) \/ GiveUp(c)
         \/ \E at \in {"locked", "locked2"}, next \in {"idle", "second"} : \E d : Apply(c, at, d, next)
  PROVE  Control'
  <1> DEFINE r == client[c]
             Holders == \A e \in Client : client'[e].pc \in {"locked", "locked2"} <=> lock' = e
             Others == \A e \in Client \ {c} : client'[e] = client[e]
  <1>1. /\ r \in ClientRecord /\ r = [pc |-> r.pc, op |-> r.op, pick |-> r.pick]
        /\ client \in [Client -> ClientRecord]
    BY DEF Control, ClientRecord
  <1>2. NoCommand \in Command
    BY CommandExists DEF NoCommand
  <1>3. \A e \in Client : e # "free" /\ e # "daemon"
    BY DatabaseAssumption
  <1>4. CASE Pick(c)
    <2>1. PICK x \in store.history :
             client' = [client EXCEPT ![c].pick = {[id |-> x.id, data |-> x.data]}]
      BY <1>4 DEF Pick
    <2> DEFINE pick == {[id |-> x.id, data |-> x.data]}
               new == [pc |-> r.pc, op |-> r.op, pick |-> pick]
    <2>2. x.id \in Nat /\ x.data \in Content
      BY StoreFields
    <2>3. pick \in SUBSET [id : Nat, data : Content]
      BY <2>2
    <2> HIDE DEF pick
    <2>4. new \in ClientRecord
      BY <1>1, <2>3 DEF ClientRecord
    <2>5. client' = [client EXCEPT ![c] = new]
      <3>1. client' = [client EXCEPT ![c] = [client[c] EXCEPT !.pick = pick]]
        BY <2>1 DEF pick
      <3> QED BY <1>1, <3>1, RecordChange
    <2>6. new.pc = r.pc
      OBVIOUS
    <2> HIDE DEF new
    <2>7. client' \in [Client -> ClientRecord] /\ client'[c].pc = r.pc /\ Others
      BY <1>1, <2>4, <2>5, <2>6, ClientChange
    <2>8. Holders
      BY <1>3, <1>4, <2>7 DEF Pick, Control
    <2> QED BY <1>3, <1>4, <2>7, <2>8 DEF Pick, Control, daemonVars, history
  <1>5. CASE Run(c)
    <2>1. PICK o \in Command : client' = [client EXCEPT ![c].pc = "first", ![c].op = o]
      BY <1>5 DEF Run
    <2> DEFINE new == [pc |-> "first", op |-> o, pick |-> r.pick]
    <2>2. new \in ClientRecord /\ new.pc = "first"
      BY <1>1 DEF ClientRecord
    <2>3. client' = [client EXCEPT ![c] = new]
      <3>1. client' = [client EXCEPT ![c] = [[client[c] EXCEPT !.pc = "first"] EXCEPT !.op = o]]
        BY <2>1
      <3> QED BY <1>1, <3>1, RecordChange
    <2> HIDE DEF new
    <2>4. client' \in [Client -> ClientRecord] /\ client'[c].pc = "first" /\ Others
      BY <1>1, <2>2, <2>3, ClientChange
    <2>8. Holders
      BY <1>3, <1>5, <2>4 DEF Run, Control
    <2> QED BY <1>3, <1>5, <2>4, <2>8 DEF Run, Control, daemonVars, history
  <1>6. CASE Lock(c)
    <2> DEFINE pc == IF r.pc = "first" THEN "locked" ELSE "locked2"
               new == [pc |-> pc, op |-> r.op, pick |-> r.pick]
    <2>1. new \in ClientRecord /\ new.pc = pc
      BY <1>1 DEF ClientRecord
    <2>2. client' = [client EXCEPT ![c] = new]
      <3>1. client' = [client EXCEPT ![c] = [client[c] EXCEPT !.pc = pc]]
        BY <1>6 DEF Lock
      <3> HIDE DEF pc
      <3> QED BY <1>1, <3>1, RecordChange
    <2>3. pc \in {"locked", "locked2"}
      OBVIOUS
    <2> HIDE DEF new, pc
    <2>4. client' \in [Client -> ClientRecord] /\ client'[c].pc \in {"locked", "locked2"} /\ Others
      BY <1>1, <2>1, <2>2, <2>3, ClientChange
    <2>8. Holders
      BY <1>3, <1>6, <2>4 DEF Lock, Control
    <2> QED BY <1>3, <1>6, <2>4, <2>8 DEF Lock, Control, daemonVars, history
  <1>7. CASE GiveUp(c)
    <2> DEFINE new == [pc |-> "idle", op |-> NoCommand, pick |-> r.pick]
    <2>1. new \in ClientRecord /\ new.pc = "idle"
      BY <1>1, <1>2 DEF ClientRecord
    <2>2. client' = [client EXCEPT ![c] = new]
      <3>1. client' = [client EXCEPT ![c] = [[client[c] EXCEPT !.pc = "idle"] EXCEPT !.op = NoCommand]]
        BY <1>7 DEF GiveUp
      <3> QED BY <1>1, <3>1, RecordChange
    <2> HIDE DEF new
    <2>3. client' \in [Client -> ClientRecord] /\ client'[c].pc = "idle" /\ Others
      BY <1>1, <2>1, <2>2, ClientChange
    <2>8. Holders
      BY <1>3, <1>7, <2>3 DEF GiveUp, Control
    <2> QED BY <1>3, <1>7, <2>3, <2>8 DEF GiveUp, Control, daemonVars, history
  <1>8. ASSUME NEW at \in {"locked", "locked2"}, NEW next \in {"idle", "second"}, NEW d,
               Apply(c, at, d, next)
        PROVE  Control'
    <2>1. client' \in [Client -> ClientRecord] /\ client'[c].pc = next /\ Others
      BY <1>1, <1>8, CommandExists, ApplyClient
    <2>2. lock = c /\ lock' = "free" /\ UNCHANGED <<daemonVars, history>>
      BY <1>8 DEF Apply, Control
    <2>3. Holders
      BY <1>3, <1>8, <2>1, <2>2 DEF Control
    <2> QED BY <1>3, <2>1, <2>2, <2>3 DEF Control, daemonVars, history
  <1> QED BY <1>4, <1>5, <1>6, <1>7, <1>8

\* Every step keeps the control state.
LEMMA ControlStep ==
  ASSUME Control, Sound(store), [Next]_vars
  PROVE  Control'
  <1>1. IsStore(store) /\ client \in [Client -> ClientRecord]
    BY DEF Sound, Control
  <1>2. CASE UNCHANGED vars
    BY <1>2 DEF vars, daemonVars, history, Control
  <1> QED BY <1>1, <1>2, StepCases, ControlDaemon, ControlClient

\* The cleanup of the transaction: the entry just written stays, or it had the smallest
\* timestamps around.
LEMMA CleanupImages ==
  ASSUME Control, Images, DeleteOldest
  PROVE  Images'
  <1> DEFINE c == current.data
             t == current.time
  <1>1. /\ Sound(store) /\ Sound(txn) /\ txn = Upsert(store, c, t)
        /\ txn.tags = store.tags /\ txn.links = store.links
        /\ due /\ Keep \in Nat \ {0} /\ c \in Content /\ t \in Nat
    BY DatabaseAssumption DEF Images, Control, DeleteOldest
  <1>2. /\ daemon' = "commit" /\ txn' = Prune(txn, Keep)
        /\ store' = store /\ due' = due /\ current' = current
    BY DEF DeleteOldest, history
  <1>3. /\ Sound(txn') /\ txn'.tags = txn.tags /\ txn'.links = txn.links
        /\ \A r \in txn.history \ txn'.history : r \in Untagged(txn) /\ Rank(txn, r) >= Keep
        /\ Cardinality(Untagged(txn')) <= Keep
    BY <1>1, <1>2, PruneSound
  <1>4. PICK x \in txn.history : Hash[x.data] = Hash[c]
    BY <1>1, UpsertSound
  <1>5. \A r \in txn.history : IF Hash[r.data] = Hash[c] THEN r.time = t ELSE r \in store.history
    BY <1>1, UpsertSound
  <1>6. CASE x \in txn'.history
    BY <1>1, <1>2, <1>3, <1>4, <1>6 DEF Images
  <1>7. CASE x \notin txn'.history
    <2>1. x \in Untagged(txn) /\ Rank(txn, x) >= Keep
      BY <1>3, <1>4, <1>7
    <2>2. PICK s \in Untagged(txn) : s # x /\ s.time >= x.time
      BY <1>1, <2>1, PrunedHasLater
    <2>3. s \in txn.history /\ ~\E l \in txn.links : l[2] = s.id
      BY DEF Untagged, Tagged
    <2>4. Hash[s.data] # Hash[c]
      BY <1>1, <1>4, <2>2, <2>3 DEF Sound, UniqueRows
    <2>5. s \in store.history /\ x.time = t
      BY <1>4, <1>5, <2>3, <2>4
    <2>6. s \in Untagged(store)
      BY <1>1, <2>3, <2>5 DEF Untagged, Tagged
    <2>7. \E r \in Untagged(store) : r.time >= t
      BY <2>2, <2>5, <2>6
    <2> QED BY <1>1, <1>2, <1>3, <2>7 DEF Images
  <1> QED BY <1>6, <1>7

\* Every step keeps what is said of the two images.
LEMMA ImagesStep ==
  ASSUME Control, Images, [Next]_vars
  PROVE  Images'
  <1>1. Sound(store) /\ Sound(txn) /\ client \in [Client -> ClientRecord]
    BY DEF Images, Control
  <1>2. CASE DaemonStep \/ Restart
    <2>1. CASE Begin
      BY <1>1, <2>1 DEF Begin, Images
    <2>2. CASE Insert
      <3> DEFINE c == current.data
                 t == current.time
                 u == Upsert(store, c, t)
      <3>1. c \in Content /\ t \in Nat
        BY <2>2, DatabaseAssumption DEF Insert, Control
      <3> HIDE DEF c, t
      <3>2. /\ Sound(u) /\ u.tags = store.tags /\ u.links = store.links
            /\ \E r \in u.history : Hash[r.data] = Hash[c]
        BY <1>1, <3>1, UpsertSound
      <3>3. /\ store' = store /\ txn' = u /\ current' = current
            /\ daemon' = IF due' THEN "prune" ELSE "commit"
        BY <2>2 DEF Insert, c, t
      <3> HIDE DEF u
      <3>4. daemon' = "prune" => txn' = Upsert(store', current'.data, current'.time)
        BY <3>3 DEF u, c, t
      <3> QED BY <1>1, <3>2, <3>3, <3>4 DEF Images, c
    <2>3. CASE InsertBusy
      BY <1>1, <2>3 DEF InsertBusy, Images
    <2>4. CASE DeleteOldest
      BY <2>4, CleanupImages
    <2>5. CASE Commit
      BY <1>1, <2>5, EmptySound DEF Commit, Images
    <2>6. CASE StatementFails
      BY <1>1, <2>6 DEF StatementFails, Images
    <2>7. CASE Rollback
      BY <1>1, <2>7, EmptySound DEF Rollback, Images
    <2>8. CASE Restart
      BY <1>1, <2>8, EmptySound DEF Restart, Images
    <2> QED BY <1>2, <2>1, <2>2, <2>3, <2>4, <2>5, <2>6, <2>7, <2>8 DEF DaemonStep
  <1>3. ASSUME NEW c \in Client, Pick(c) \/ Run(c) \/ Lock(c) \/ GiveUp(c)
        PROVE  Images'
    <2>1. UNCHANGED <<store, daemonVars, history>>
      BY <1>3 DEF Pick, Run, Lock, GiveUp
    <2> QED BY <2>1 DEF Images, daemonVars, history
  <1>4. ASSUME NEW c \in Client, NEW at \in {"locked", "locked2"}, NEW next \in {"idle", "second"},
               NEW d, Apply(c, at, d, next), Harmless(d, c, next)
        PROVE  Images'
    <2>1. lock = c /\ c # "daemon"
      BY <1>4, DatabaseAssumption DEF Apply, Control
    <2>2. daemon \notin {"prune", "commit"}
      BY <2>1 DEF Control
    <2>3. Sound(d) /\ store' = d /\ daemon' = daemon /\ txn' = txn
      BY <1>4 DEF Harmless, Apply, daemonVars
    <2> QED BY <1>1, <2>2, <2>3 DEF Images
  <1>5. CASE UNCHANGED vars
    BY <1>5 DEF vars, daemonVars, history, Images
  <1> QED BY <1>1, <1>2, <1>3, <1>4, <1>5, StepCases

\* The counters never run ahead of the entries.
LEMMA TallyStep ==
  ASSUME Control, Sound(store), Tally, [Next]_vars
  PROVE  Tally'
  <1> USE DatabaseAssumption DEF Tally, One
  <1>1. client \in [Client -> ClientRecord] /\ MaxCopies \in Nat
    BY DEF Control
  <1>2. CASE Begin
    BY <1>1, <1>2 DEF Begin, Control, history
  <1>3. CASE Insert
    BY <1>1, <1>3 DEF Insert, bounds
  <1>4. CASE InsertBusy
    BY <1>1, <1>4 DEF InsertBusy, bounds
  <1>5. CASE DeleteOldest
    BY <1>1, <1>5 DEF DeleteOldest, bounds, history
  <1>6. CASE Commit
    BY <1>1, <1>6 DEF Commit, bounds
  <1>7. CASE StatementFails
    BY <1>1, <1>7 DEF StatementFails
  <1>8. CASE Rollback
    BY <1>1, <1>8 DEF Rollback, bounds
  <1>9. CASE Restart
    BY <1>1, <1>9 DEF Restart
  <1>10. CASE UNCHANGED <<daemonVars, copies, history>>
    BY <1>10 DEF daemonVars, history
  <1>11. CASE \E c \in Client : Pick(c) \/ Run(c) \/ Lock(c) \/ GiveUp(c)
    BY <1>10, <1>11 DEF Pick, Run, Lock, GiveUp, bounds
  <1>12. CASE \E c \in Client : \E at, next, d : Apply(c, at, d, next)
    BY <1>10, <1>12 DEF Apply, bounds
  <1>13. CASE UNCHANGED vars
    BY <1>10, <1>13 DEF vars, bounds
  <1> QED BY <1>1, <1>2, <1>3, <1>4, <1>5, <1>6, <1>7, <1>8, <1>9, <1>11, <1>12, <1>13, StepCases
          DEF DaemonStep

\* The remainder of a counter moves on with it.
LEMMA ModStep ==
  ASSUME NEW n \in Nat \ {0}, NEW x \in Nat
  PROVE  /\ x % n \in 0 .. n - 1 /\ 0 % n = 0
         /\ (x + 1) % n = IF x % n = n - 1 THEN 0 ELSE (x % n) + 1
  <1>1. /\ x = n * (x \div n) + (x % n) /\ x % n \in 0 .. n - 1 /\ x \div n \in Nat
    OBVIOUS
  <1>2. 0 % n = 0
    OBVIOUS
  <1>3. \A k \in Nat, r \in 0 .. n - 1 : (n * k + r) % n = r
    OBVIOUS
  <1>4. (x + 1) % n = IF x % n = n - 1 THEN 0 ELSE (x % n) + 1
    <2>1. CASE x % n = n - 1
      <3>1. x + 1 = n * (x \div n + 1) + 0
        BY <1>1, <2>1
      <3>2. x \div n + 1 \in Nat /\ 0 \in 0 .. n - 1
        BY <1>1
      <3>3. (n * (x \div n + 1) + 0) % n = 0
        BY <1>3, <3>2
      <3>4. (x + 1) % n = 0
        BY <3>1, <3>3
      <3> QED BY <2>1, <3>4
    <2>2. CASE x % n # n - 1
      <3>1. x + 1 = n * (x \div n) + ((x % n) + 1) /\ (x % n) + 1 \in 0 .. n - 1
        BY <1>1, <2>2
      <3>2. (n * (x \div n) + ((x % n) + 1)) % n = (x % n) + 1
        BY <1>1, <1>3, <3>1
      <3>3. (x + 1) % n = (x % n) + 1
        BY <3>1, <3>2
      <3> QED BY <2>2, <3>3
    <2> QED BY <2>1, <2>2
  <1>5. x % n \in 0 .. n - 1
    BY <1>1
  <1> QED BY <1>2, <1>4, <1>5

\* One more failed cleanup allows Period - 1 more transactions.
LEMMA AllowanceOf ==
  ASSUME NEW n \in Nat \ {0}, NEW m \in Nat
  PROVE  (n - 1) * m \in Nat /\ (n - 1) * (m + 1) = (n - 1) * m + (n - 1) /\ (n - 1) * 0 = 0
  OBVIOUS

\* Every step keeps the rate of the cleanups.
LEMMA RateStep ==
  ASSUME Control, Sound(store), Tally, Rate, [Next]_vars
  PROVE  Rate'
  <1> DEFINE place == counter % Period
             Room(r) == (IF r = 0 THEN Period ELSE r) - 1
  <1> SUFFICES ASSUME Keep > 0 PROVE Rate'
    BY DEF Rate
  <1>1. /\ Period \in Nat \ {0} /\ Keep \in Nat /\ Keep > 0
        /\ counter \in Nat /\ since \in Nat /\ misses \in Nat
    BY DatabaseAssumption DEF Tally
  <1>2. /\ place \in 0 .. Period - 1 /\ 0 % Period = 0
        /\ (counter + 1) % Period = IF place = Period - 1 THEN 0 ELSE place + 1
    BY <1>1, ModStep
  <1>3. /\ Allowance \in Nat
        /\ misses' = misses => Allowance' = Allowance
        /\ misses' = misses + 1 => Allowance' = Allowance + (Period - 1)
        /\ misses' = 0 => Allowance' = 0
    BY <1>1, AllowanceOf DEF Allowance
  <1>4. /\ due => since <= Allowance + Period - 1 /\ place = 1 % Period
        /\ ~due => since + One(daemon = "commit") <= Allowance + Room(place)
    BY <1>1 DEF Rate
  <1>5. Room(place) \in 0 .. Period - 1
    BY <1>1, <1>2
  <1>6. 1 % Period = IF Period = 1 THEN 0 ELSE 1
    <2>1. (0 + 1) % Period = IF 0 = Period - 1 THEN 0 ELSE 0 + 1
      BY <1>1, <1>2, ModStep
    <2> QED BY <1>1, <2>1
  <1>7. SUFFICES /\ due' => since' <= Allowance' + Period - 1 /\ (counter % Period)' = 1 % Period
                 /\ ~due' => since' + One(daemon' = "commit") <= Allowance' + Room((counter % Period)')
    BY DEF Rate, One
  <1>8. CASE UNCHANGED <<counter, since, misses, due>> /\ (daemon' = "commit" => daemon = "commit")
    BY <1>1, <1>3, <1>4, <1>5, <1>8 DEF One
  <1>9. CASE Insert
    <2>1. /\ since' = since /\ misses' = misses /\ counter' = counter + 1
          /\ due' = (place = 0) /\ (~due' => daemon' = "commit")
          /\ daemon = "insert" /\ ~due
      BY <1>1, <1>9 DEF Insert, Control
    <2> HIDE DEF place
    <2>2. since <= Allowance + Room(place)
      BY <1>1, <1>3, <1>4, <1>5, <2>1 DEF One
    <2>3. (counter % Period)' = IF place = Period - 1 THEN 0 ELSE place + 1
      BY <1>2, <2>1
    <2>4. place \in 0 .. Period - 1 /\ Allowance \in Nat /\ Allowance' = Allowance
      BY <1>2, <1>3, <2>1
    <2>5. CASE place = 0
      <3>1. (counter % Period)' = 1 % Period
        BY <1>1, <1>6, <2>3, <2>5
      <3>3. due'
        BY <2>1, <2>5
      <3>2. since' <= Allowance' + Period - 1
        BY <1>1, <2>1, <2>2, <2>4, <2>5
      <3> QED BY <3>1, <3>2, <3>3
    <2>6. CASE place # 0
      <3>1. ~due' /\ daemon' = "commit"
        BY <2>1, <2>6
      <3>2. since + 1 <= Allowance + Room((counter % Period)')
        BY <1>1, <2>2, <2>3, <2>4, <2>6
      <3> QED BY <2>1, <2>4, <3>1, <3>2 DEF One
    <2> QED BY <2>5, <2>6
  <1>10. CASE InsertBusy
    <2>1. UNCHANGED <<counter, since, misses, due>> /\ daemon' = "rollback"
      BY <1>10 DEF InsertBusy, Control
    <2> QED BY <1>8, <2>1
  <1>11. CASE DeleteOldest
    <2>1. /\ due /\ due' /\ counter' = counter
          /\ since' = since /\ Allowance' = Allowance
      BY <1>3, <1>11 DEF DeleteOldest, Control, history
    <2>2. (counter % Period)' = place
      BY <2>1
    <2>3. since' <= Allowance' + Period - 1
      BY <1>4, <2>1
    <2>4. (counter % Period)' = 1 % Period
      BY <1>4, <2>1
    <2> QED BY <2>1, <2>3, <2>4
  <1>12. CASE Commit
    <2>1. /\ counter' = counter /\ due' = FALSE /\ daemon' = "idle" /\ daemon = "commit"
          /\ since' = IF due THEN 0 ELSE since + 1
          /\ misses' = IF due THEN 0 ELSE misses
      BY <1>12 DEF Commit
    <2> HIDE DEF place
    <2>2. (counter % Period)' = place
      BY <2>1 DEF place
    <2>3. place \in 0 .. Period - 1 /\ Allowance \in Nat /\ Room(place) \in Nat
      BY <1>1, <1>2, <1>3
    <2>4. CASE due
      <3>1. Allowance' = 0 /\ since' = 0
        BY <1>3, <2>1, <2>4
      <3> QED BY <2>1, <2>2, <2>3, <3>1 DEF One
    <2>5. CASE ~due
      <3>1. Allowance' = Allowance /\ since' = since + 1
        BY <1>3, <2>1, <2>5
      <3>2. since + 1 <= Allowance + Room(place)
        BY <1>4, <2>1, <2>5 DEF One
      <3> QED BY <1>1, <2>1, <2>2, <2>3, <3>1, <3>2 DEF One
    <2> QED BY <2>4, <2>5
  <1>13. CASE StatementFails
    <2>1. /\ counter' = counter /\ since' = since /\ misses' = misses
          /\ due' = due /\ daemon' = "rollback"
      BY <1>13 DEF StatementFails, Control
    <2> QED BY <1>8, <2>1
  <1>14. CASE Rollback
    <2>1. /\ counter' = counter /\ since' = since /\ due' = FALSE /\ daemon' = "idle"
          /\ misses' = IF due THEN misses + 1 ELSE misses
      BY <1>14 DEF Rollback
    <2> HIDE DEF place
    <2>2. (counter % Period)' = place
      BY <2>1 DEF place
    <2>3. /\ place \in 0 .. Period - 1 /\ Allowance \in Nat /\ Room(place) \in Nat
          /\ daemon # "commit"
      BY <1>1, <1>2, <1>3, <1>14 DEF Rollback
    <2>4. CASE due
      <3>1. /\ Allowance' = Allowance + (Period - 1)
            /\ since <= Allowance + Period - 1
        BY <1>3, <1>4, <2>1, <2>4
      <3> QED BY <1>1, <2>1, <2>2, <2>3, <3>1 DEF One
    <2>5. CASE ~due
      <3>1. Allowance' = Allowance /\ since + 0 <= Allowance + Room(place)
        BY <1>3, <1>4, <2>1, <2>3, <2>5 DEF One
      <3> QED BY <1>1, <2>1, <2>2, <2>3, <3>1 DEF One
    <2> QED BY <2>4, <2>5
  <1>15. CASE Restart
    <2>1. /\ counter' = 0 /\ since' = since /\ misses' = misses /\ due' = FALSE /\ daemon' = "idle"
      BY <1>15 DEF Restart
    <2> HIDE DEF place
    <2>2. (counter % Period)' = 0
      BY <1>2, <2>1
    <2> QED BY <1>1, <1>2, <1>3, <1>4, <1>5, <2>1, <2>2 DEF One
  <1>16. CASE UNCHANGED <<daemonVars, history>>
    BY <1>8, <1>16 DEF daemonVars, history
  <1>17. CASE Begin
    BY <1>8, <1>17 DEF Begin, history
  <1>18. CASE \E c \in Client : Pick(c) \/ Run(c) \/ Lock(c) \/ GiveUp(c)
    BY <1>16, <1>18 DEF Pick, Run, Lock, GiveUp
  <1>19. CASE \E c \in Client : \E at, next, d : Apply(c, at, d, next)
    BY <1>16, <1>19 DEF Apply
  <1>20. CASE UNCHANGED vars
    BY <1>16, <1>20 DEF vars
  <1>21. client \in [Client -> ClientRecord]
    BY DEF Control
  <1> QED BY <1>9, <1>10, <1>11, <1>12, <1>13, <1>14, <1>15, <1>17, <1>18, <1>19, <1>20, <1>21,
             StepCases DEF DaemonStep

-------------------------------------------------------------------------------
(* What holds of every behaviour.                                              *)

\* The program starts with an empty, sound database and an idle daemon.
LEMMA InitInv == Init => DatabaseInv
  <1> SUFFICES ASSUME Init PROVE DatabaseInv
    OBVIOUS
  <1> USE DatabaseAssumption
  <1>1. Control
    <2> DEFINE r == [pc |-> "idle", op |-> NoCommand, pick |-> {}]
    <2>1. NoCommand \in Command
      BY CommandExists DEF NoCommand
    <2>2. r \in ClientRecord /\ r.pc = "idle"
      BY <2>1 DEF ClientRecord
    <2>3. client = [c \in Client |-> r]
      BY DEF Init
    <2> HIDE DEF r
    <2>4. client \in [Client -> ClientRecord] /\ \A c \in Client : client[c].pc = "idle"
      BY <2>2, <2>3
    <2> QED BY <2>4 DEF Init, Control
  <1>2. Images
    BY EmptySound DEF Init, Images
  <1>3. Tally
    BY DEF Init, Tally, One
  <1>4. Rate
    <2>1. 0 % Period = 0 /\ Allowance = 0
      BY ModStep, AllowanceOf DEF Init, Allowance
    <2> QED BY <2>1 DEF Init, Rate, One
  <1> QED BY <1>1, <1>2, <1>3, <1>4 DEF DatabaseInv

\* Each of the four parts is kept by every step.
LEMMA InvStep == DatabaseInv /\ [Next]_vars => DatabaseInv'
  <1> SUFFICES ASSUME DatabaseInv, [Next]_vars PROVE DatabaseInv'
    OBVIOUS
  <1>1. Control /\ Images /\ Tally /\ Rate /\ Sound(store)
    BY DEF DatabaseInv, Images
  <1> QED BY <1>1, ControlStep, ImagesStep, TallyStep, RateStep DEF DatabaseInv

\* Control, images, tally and rate hold together in every reachable state.
THEOREM DatabaseInvariant == Spec => []DatabaseInv
  BY InitInv, InvStep, PTL DEF Spec

\* Every variable keeps its type, and no counter passes the number of entries.
THEOREM DatabaseTypes == Spec => []TypeOK
  <1>1. DatabaseInv => TypeOK
    <2> SUFFICES ASSUME DatabaseInv PROVE TypeOK
      OBVIOUS
    <2>1. IsStore(store) /\ IsStore(txn)
      BY DEF DatabaseInv, Images, Sound
    <2>2. MaxCopies \in Nat /\ counter \in 0 .. MaxCopies /\ since \in 0 .. MaxCopies
          /\ misses \in 0 .. MaxCopies
      BY DatabaseAssumption DEF DatabaseInv, Tally, One
    <2>3. \A c \in Client : /\ client[c].pc \in {"idle", "first", "locked", "second", "locked2"}
                            /\ client[c].op \in Command
                            /\ client[c].pick \subseteq [id : Nat, data : Content]
      BY DEF DatabaseInv, Control, ClientRecord
    <2>4. DOMAIN client = Client
      BY DEF DatabaseInv, Control
    <2> QED BY <2>1, <2>2, <2>3, <2>4 DEF TypeOK, DatabaseInv, Control
  <1> QED BY <1>1, DatabaseInvariant, PTL

\* The committed tables satisfy FOREIGN KEY and UNIQUE, whatever the daemon and any
\* number of commands interleave and wherever they die.
THEOREM ConsistentTheorem == Spec => []Consistent
  <1>1. DatabaseInv => Consistent
    BY DEF DatabaseInv, Images, Sound, Consistent
  <1> QED BY <1>1, DatabaseInvariant, PTL

\* Every path out of process_queue_entry closes its transaction and frees the lock.
THEOREM TransactionClosedTheorem == Spec => []TransactionClosed
  <1>1. DatabaseInv => TransactionClosed
    BY DEF DatabaseInv, Control, TransactionClosed
  <1> QED BY <1>1, DatabaseInvariant, PTL

\* What the daemon is about to commit has every tag, link and tagged entry there is.
THEOREM DaemonKeepsTaggedTheorem == Spec => []DaemonKeepsTagged
  <1>1. DatabaseInv => DaemonKeepsTagged
    <2> SUFFICES ASSUME DatabaseInv, daemon = "commit"
                 PROVE  /\ store.tags \subseteq txn.tags
                        /\ store.links \subseteq txn.links
                        /\ {r.id : r \in Tagged(store)} \subseteq Ids(txn)
      BY DEF DaemonKeepsTagged
    <2>1. txn.tags = store.tags /\ txn.links = store.links /\ IsStore(txn) /\ ForeignKeys(txn)
      BY DEF DatabaseInv, Images, Sound
    <2>2. ASSUME NEW r \in Tagged(store) PROVE r.id \in Ids(txn)
      <3>1. PICK l \in txn.links : l[2] = r.id
        BY <2>1, <2>2 DEF Tagged
      <3>2. \E s \in txn.history : s.id = l[2]
        BY <2>1, KeysOfLinks
      <3> QED BY <3>1, <3>2 DEF Ids
    <2> QED BY <2>1, <2>2
  <1> QED BY <1>1, DatabaseInvariant, PTL

\* Cleanups come every Period transactions, and one period later for each that failed.
THEOREM PruneFrequencyTheorem == Spec => []PruneFrequency
  <1>1. DatabaseInv => PruneFrequency
    <2> SUFFICES ASSUME DatabaseInv, Keep > 0 PROVE since <= (Period - 1) * (misses + 1)
      BY DEF PruneFrequency
    <2>1. Period \in Nat \ {0} /\ counter \in Nat /\ since \in Nat /\ misses \in Nat
      BY DatabaseAssumption DEF DatabaseInv, Tally
    <2>2. counter % Period \in 0 .. Period - 1
      BY <2>1, ModStep
    <2>3. Allowance \in Nat /\ (Period - 1) * (misses + 1) = Allowance + (Period - 1)
      BY <2>1, AllowanceOf DEF Allowance
    <2>4. CASE due
      <3>1. since <= Allowance + Period - 1
        BY <2>4 DEF DatabaseInv, Rate
      <3> QED BY <2>1, <2>3, <3>1
    <2>5. CASE ~due
      <3> DEFINE place == counter % Period
      <3>1. since + One(daemon = "commit") <=
              Allowance + (IF place = 0 THEN Period ELSE place) - 1
        BY <2>5 DEF DatabaseInv, Rate
      <3>2. place \in 0 .. Period - 1
        BY <2>2
      <3> HIDE DEF place
      <3> QED BY <2>1, <2>3, <3>1, <3>2 DEF One
    <2> QED BY <2>4, <2>5
  <1> QED BY <1>1, DatabaseInvariant, PTL

\* A transaction that pruned leaves at most Keep untagged entries.
THEOREM PruneLimitsTheorem == Spec => PruneLimits
  <1>1. DatabaseInv => (daemon = "commit" /\ due /\ store' = txn =>
                          Cardinality(Untagged(store')) <= Keep)
    BY DEF DatabaseInv, Images
  <1> QED BY <1>1, DatabaseInvariant, PTL DEF PruneLimits

\* A committed entry is in the database, or it was pruned and an untagged entry there
\* had the same or a later timestamp.
THEOREM LatestKeptTheorem == Spec => LatestKept
  <1>1. DatabaseInv =>
          (daemon = "commit" /\ daemon' = "idle" /\ store' = txn =>
             \/ \E r \in store'.history : Hash[r.data] = Hash[current.data]
             \/ due /\ \E r \in Untagged(store) : r.time >= current.time)
    BY DEF DatabaseInv, Images
  <1> QED BY <1>1, DatabaseInvariant, PTL DEF LatestKept

\* Only cclip tag, between its two statements, orphans a tag.
THEOREM OrphansTheorem == Spec => OrphansOnlyFromTag
  <1> DEFINE Excused == \A n \in Tag : n \in Orphans(store') /\ n \notin Orphans(store) =>
                          \E c \in Client : client'[c].pc = "second" /\ client'[c].op.tag = n
  <1>1. DatabaseInv /\ [Next]_vars => Excused
    <2> SUFFICES ASSUME DatabaseInv, [Next]_vars PROVE Excused
      OBVIOUS
    <2>1. Sound(store) /\ client \in [Client -> ClientRecord]
      BY DEF DatabaseInv, Images, Control
    <2>2. CASE UNCHANGED store
      BY <2>2
    <2>3. CASE Commit
      <3>1. store' = txn /\ txn.tags = store.tags /\ txn.links = store.links
        BY <2>3 DEF Commit, DatabaseInv, Images
      <3> QED BY <3>1 DEF Orphans
    <2>4. ASSUME NEW c \in Client, NEW at \in {"locked", "locked2"}, NEW next \in {"idle", "second"},
                 NEW d, Apply(c, at, d, next), Harmless(d, c, next)
          PROVE  Excused
      <3>1. store' = d /\ client'[c].pc = next /\ (next = "second" => client'[c].op = client[c].op)
        BY <2>1, <2>4, CommandExists, ApplyClient DEF Apply
      <3>2. Orphans(d) \subseteq Orphans(store) \cup (IF next = "second" THEN {client[c].op.tag} ELSE {})
        BY <2>4 DEF Harmless
      <3> QED BY <3>1, <3>2
    <2>5. DaemonStep \/ Restart => Commit \/ UNCHANGED store
      BY DEF DaemonStep, Begin, Insert, InsertBusy, DeleteOldest, StatementFails, Rollback, Restart
    <2>6. \A c \in Client : Pick(c) \/ Run(c) \/ Lock(c) \/ GiveUp(c) => UNCHANGED store
      BY DEF Pick, Run, Lock, GiveUp
    <2>7. UNCHANGED vars => UNCHANGED store
      BY DEF vars
    <2> HIDE DEF Excused
    <2> QED BY <2>1, <2>2, <2>3, <2>4, <2>5, <2>6, <2>7, StepCases
  <1> QED BY <1>1, DatabaseInvariant, PTL DEF Spec, OrphansOnlyFromTag
===============================================================================
