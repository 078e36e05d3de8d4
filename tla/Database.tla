------------------------------- MODULE Database -------------------------------
(* The database of cclip shared by two kinds of program: the database thread    *)
(* of cclipd, which writes each clipboard entry in a transaction                *)
(* (process_queue_entry in src/cclipd/sql.c), and any number of cclip commands, *)
(* each a separate process that runs one or two autocommitted statements        *)
(* (src/cclip/actions).                                                         *)
(*                                                                              *)
(* SQLite lets one connection write at a time.  Nobody sets a busy timeout, so  *)
(* a statement that finds the write lock taken fails at once with SQLITE_BUSY.  *)
(* A reader (list, get, copy) sees the last committed image and never waits.    *)
EXTENDS Store

CONSTANTS Client,      \* cclip processes
          Keep,        \* config.max_entries_count (the command line takes no 0)
          Period,      \* insertions per cleanup (10)
          MaxTime,     \* bound: what time(NULL) returns
          MaxCopies,   \* bound: entries the database thread processes
          MaxCommands, \* bound: cclip commands run
          MaxFailures, \* bound: I/O errors
          MaxRestarts  \* bound: deaths of cclipd

ASSUME DatabaseAssumption ==
  /\ DOMAIN Hash = Content /\ Tag # {}
  /\ {"free", "daemon"} \cap Client = {}
  /\ Keep \in Nat /\ Period \in Nat \ {0}
  /\ {MaxTime, MaxCopies, MaxCommands, MaxFailures, MaxRestarts} \subseteq Nat

VARIABLES
  store,    \* the committed image of the tables
  lock,     \* the write lock: "free", "daemon" or a client
  daemon,   \* where process_queue_entry is
  open,     \* a transaction is open on the daemon's connection
  txn,      \* the image that transaction has made so far
  current,  \* the entry being written and the time(NULL) taken for it
  counter,  \* the static insertion counter of process_queue_entry
  client,   \* per client: the statement it is at (pc), its last command (op) and
            \* the row its user last picked from a list (pick, {} or one row)
  copies, commands, failures, restarts,  \* what the bounds count
  due,      \* history: the current transaction is one that prunes
  since,    \* history: transactions committed since the last one that pruned
  misses    \* history: transactions due to prune that failed since then

daemonVars == <<daemon, open, txn, current, counter>>
bounds     == <<copies, commands, failures, restarts>>
history    == <<due, since, misses>>
vars       == <<store, lock, daemonVars, client, bounds, history>>

Command == [kind : {"delete", "tag", "untag", "untag_all", "tags_delete", "tags_wipe",
                    "wipe", "wipe_all", "vacuum"}, tag : Tag]

\* A local variable that is dead: the entry of an idle daemon, the command of an idle
\* client.
NoEntry == << >>
NoCommand == CHOOSE o \in Command : TRUE

TypeOK == /\ IsStore(store)
          /\ lock \in {"free", "daemon"} \cup Client
          /\ daemon \in {"idle", "insert", "prune", "commit", "rollback"}
          /\ open \in BOOLEAN
          /\ IsStore(txn)
          /\ current \in {NoEntry} \cup [data : Content, time : 0 .. MaxTime]
          /\ counter \in 0 .. MaxCopies
          /\ DOMAIN client = Client
          /\ \A c \in Client :
               /\ client[c].pc \in {"idle", "first", "locked", "second", "locked2"}
               /\ client[c].op \in Command
               /\ client[c].pick \subseteq [id : Nat, data : Content]
          /\ due \in BOOLEAN /\ since \in 0 .. MaxCopies /\ misses \in 0 .. MaxCopies

Init == /\ store = EmptyStore
        /\ lock = "free"
        /\ daemon = "idle"
        /\ open = FALSE
        /\ txn = EmptyStore
        /\ current = NoEntry
        /\ counter = 0
        /\ client = [c \in Client |-> [pc |-> "idle", op |-> NoCommand, pick |-> {}]]
        /\ copies = 0 /\ commands = 0 /\ failures = 0 /\ restarts = 0
        /\ due = FALSE /\ since = 0 /\ misses = 0

-------------------------------------------------------------------------------
(* The database thread of cclipd.                                              *)

\* process_queue_entry takes the time, from a clock that is coarse and may be set back,
\* and runs BEGIN, which is deferred and takes no lock; BEGIN fails inside an open
\* transaction and the entry is dropped.
Begin == /\ daemon = "idle"
         /\ copies < MaxCopies
         /\ copies' = copies + 1
         /\ IF open THEN UNCHANGED <<daemon, open, current>>
                    ELSE /\ daemon' = "insert" /\ open' = TRUE
                         /\ \E c \in Content, t \in 0 .. MaxTime : current' = [data |-> c, time |-> t]
         /\ UNCHANGED <<store, lock, txn, counter, client, commands, failures, restarts, history>>

\* Mutant of Insert: the counter is incremented before it is tested.
InsertCountsFirst == /\ daemon = "insert"
                     /\ lock = "free"
                     /\ lock' = "daemon"
                     /\ txn' = Upsert(store, current.data, current.time)
                     /\ counter' = IF Keep > 0 THEN counter + 1 ELSE counter
                     /\ due' = (Keep > 0 /\ counter' % Period = 0)
                     /\ daemon' = IF due' THEN "prune" ELSE "commit"
                     /\ UNCHANGED <<store, open, current, client, bounds, since, misses>>

\* do_insert takes the write lock; every Period-th success goes on to prune.
Insert == /\ daemon = "insert"
          /\ lock = "free"
          /\ lock' = "daemon"
          /\ txn' = Upsert(store, current.data, current.time)
          /\ due' = (Keep > 0 /\ counter % Period = 0)
          /\ counter' = IF Keep > 0 THEN counter + 1 ELSE counter
          /\ daemon' = IF due' THEN "prune" ELSE "commit"
          /\ UNCHANGED <<store, open, current, client, bounds, since, misses>>

\* SQLITE_BUSY: a command of cclip is writing.
InsertBusy == /\ daemon = "insert"
              /\ lock # "free"
              /\ daemon' = "rollback"
              /\ due' = FALSE
              /\ UNCHANGED <<store, lock, open, txn, current, counter, client, bounds, since, misses>>

DeleteOldest == /\ daemon = "prune"
                /\ txn' = Prune(txn, Keep)
                /\ daemon' = "commit"
                /\ UNCHANGED <<store, lock, open, current, counter, client, bounds, history>>

Commit == /\ daemon = "commit"
          /\ store' = txn
          /\ lock' = "free"
          /\ open' = FALSE
          /\ daemon' = "idle"
          /\ since' = IF due THEN 0 ELSE since + 1
          /\ misses' = IF due THEN 0 ELSE misses
          /\ txn' = EmptyStore
          /\ current' = NoEntry /\ due' = FALSE
          /\ UNCHANGED <<counter, client, bounds>>

\* An I/O error or a full disk fails the statement the daemon is at.
StatementFails == /\ daemon \in {"insert", "prune", "commit"}
                  /\ failures < MaxFailures
                  /\ failures' = failures + 1
                  /\ daemon' = "rollback"
                  /\ due' = (due /\ daemon # "insert")
                  /\ UNCHANGED <<store, lock, open, txn, current, counter, client,
                                 copies, commands, restarts, since, misses>>

\* Mutant of Rollback: the transaction stays open.
RollbackNothing == /\ daemon = "rollback"
                   /\ daemon' = "idle"
                   /\ misses' = IF due THEN misses + 1 ELSE misses
                   /\ current' = NoEntry /\ due' = FALSE
                   /\ UNCHANGED <<store, lock, open, txn, counter, client, bounds, since>>

\* The entry is dropped: nobody looks at what process_queue_entry returns.
Rollback == /\ daemon = "rollback"
            /\ lock' = IF lock = "daemon" THEN "free" ELSE lock
            /\ open' = FALSE
            /\ daemon' = "idle"
            /\ misses' = IF due THEN misses + 1 ELSE misses
            /\ txn' = EmptyStore
            /\ current' = NoEntry /\ due' = FALSE
            /\ UNCHANGED <<store, counter, client, bounds, since>>

\* cclipd dies, at any point, and is started again: SQLite discards the open
\* transaction and the static counter starts over.
Restart == /\ restarts < MaxRestarts
           /\ restarts' = restarts + 1
           /\ lock' = IF lock = "daemon" THEN "free" ELSE lock
           /\ open' = FALSE
           /\ daemon' = "idle"
           /\ counter' = 0
           /\ txn' = EmptyStore
           /\ current' = NoEntry /\ due' = FALSE
           /\ UNCHANGED <<store, client, copies, commands, failures, since, misses>>

-------------------------------------------------------------------------------
(* The commands of cclip.  The id a command is given comes from a row picked    *)
(* from an earlier cclip list, as examples/picker.sh does; the row may be gone. *)

Pick(c) == /\ client[c].pc = "idle"
           /\ \E r \in store.history : client' = [client EXCEPT ![c].pick = {[id |-> r.id, data |-> r.data]}]
           /\ UNCHANGED <<store, lock, daemonVars, bounds, history>>

NeedsId == {"delete", "tag", "untag", "untag_all"}

Run(c) == /\ client[c].pc = "idle"
          /\ commands < MaxCommands
          /\ commands' = commands + 1
          /\ \E o \in Command : /\ o.kind \in NeedsId => client[c].pick # {}
                                /\ client' = [client EXCEPT ![c].pc = "first", ![c].op = o]
          /\ UNCHANGED <<store, lock, daemonVars, copies, failures, restarts, history>>

\* The statement at hand gets the write lock ...
Lock(c) == /\ client[c].pc \in {"first", "second"}
           /\ lock = "free"
           /\ lock' = c
           /\ client' = [client EXCEPT ![c].pc = IF @ = "first" THEN "locked" ELSE "locked2"]
           /\ UNCHANGED <<store, daemonVars, bounds, history>>

\* ... or the command ends without it: SQLITE_BUSY, an I/O error, a signal.
GiveUp(c) == /\ client[c].pc # "idle"
             /\ client' = [client EXCEPT ![c].pc = "idle", ![c].op = NoCommand]
             /\ lock' = IF lock = c THEN "free" ELSE lock
             /\ UNCHANGED <<store, daemonVars, bounds, history>>

\* The statement holding the lock turns the committed image into d and commits.
Apply(c, at, d, next) == /\ client[c].pc = at
                         /\ store' = d
                         /\ lock' = "free"
                         /\ client' = [client EXCEPT ![c].pc = next,
                                                     ![c].op = IF next = "idle" THEN NoCommand ELSE @]
                         /\ UNCHANGED <<daemonVars, bounds, history>>

Is(c, kind) == client[c].op.kind = kind

Picked(c) == {r.id : r \in client[c].pick}

Delete(c) == Is(c, "delete") /\ Apply(c, "locked", DeleteIds(store, Picked(c)), "idle")

\* cclip tag is two statements, each its own transaction: the name first ...
TagName(c) == /\ Is(c, "tag")
              /\ Apply(c, "locked", AddTag(store, client[c].op.tag), "second")

\* ... then the link, which may fail and leave the name.
TagEntry(c) == /\ Is(c, "tag")
               /\ \E i \in Picked(c), n \in {client[c].op.tag} :
                    Apply(c, "locked2", IF CanLink(store, n, i) THEN Link(store, n, i)
                                        ELSE store, "idle")

Untag(c) == /\ Is(c, "untag")
            /\ Apply(c, "locked", Unlink(store, {client[c].op.tag} \X Picked(c)), "idle")

UntagAll(c) == /\ Is(c, "untag_all")
               /\ Apply(c, "locked", Unlink(store, Tag \X Picked(c)), "idle")

TagsDelete(c) == /\ Is(c, "tags_delete")
                 /\ Apply(c, "locked", Unlink(store, {client[c].op.tag} \X Ids(store)), "idle")

TagsWipe(c) == Is(c, "tags_wipe") /\ Apply(c, "locked", Unlink(store, store.links), "idle")

Wipe(c) == /\ Is(c, "wipe")
           /\ Apply(c, "locked", DeleteIds(store, {r.id : r \in Untagged(store)}), "idle")

WipeAll(c) == Is(c, "wipe_all") /\ Apply(c, "locked", DeleteIds(store, Ids(store)), "idle")

Vacuum(c) == Is(c, "vacuum") /\ Apply(c, "locked", store, "idle")

-------------------------------------------------------------------------------
DaemonStep == Begin \/ Insert \/ InsertBusy \/ DeleteOldest \/ Commit \/ StatementFails \/ Rollback

ClientStep(c) == \/ Pick(c) \/ Run(c) \/ Lock(c) \/ GiveUp(c)
                 \/ Delete(c) \/ TagName(c) \/ TagEntry(c) \/ Untag(c) \/ UntagAll(c)
                 \/ TagsDelete(c) \/ TagsWipe(c) \/ Wipe(c) \/ WipeAll(c) \/ Vacuum(c)

Next == DaemonStep \/ Restart  \/ \E c \in Client : ClientStep(c)

Spec == Init /\ [][Next]_vars

-------------------------------------------------------------------------------
(* Properties.                                                                  *)

\* The committed image always satisfies the schema's FOREIGN KEY and UNIQUE clauses,
\* whatever the daemon and the commands interleave and wherever they die: every tag
\* link has its tag and its entry, no payload and no id is there twice.
Consistent == ForeignKeys(store) /\ UniqueRows(store)

\* A transaction is open exactly while an entry is being written: every path out of
\* process_queue_entry closes it and releases the lock, so that the next BEGIN and
\* the commands of cclip can go on.
TransactionClosed == /\ open <=> daemon # "idle"
                     /\ daemon = "idle" => lock # "daemon"
                     /\ daemon \in {"prune", "commit"} => lock = "daemon"

\* What the daemon is about to commit keeps every tag, every link and every tagged
\* entry the users have at that moment: pruning spares tagged entries, and no tag
\* command slips in between the daemon's reads and its commit.
DaemonKeepsTagged == lock = "daemon" /\ daemon = "commit" =>
                       /\ store.tags \subseteq txn.tags
                       /\ store.links \subseteq txn.links
                       /\ {r.id : r \in Tagged(store)} \subseteq Ids(txn)

\* No deletion leaves a tag without entries behind, be it by id, by tag, of all or by
\* pruning: a name is orphaned only while a cclip tag command stands between its two
\* statements, or after that command failed at the second.
OrphansOnlyFromTag ==
  [][\A n \in Tag : n \in Orphans(store') /\ n \notin Orphans(store) =>
       \E c \in Client : client'[c].pc = "second" /\ client'[c].op.tag = n]_vars

\* A transaction that pruned leaves at most Keep untagged entries.
PruneLimits == [][daemon = "commit" /\ due /\ store' = txn =>
                    Cardinality(Untagged(store')) <= Keep]_vars

\* Between two cleanups at most Period - 1 transactions commit, and as many more for
\* each cleanup that failed: the counter moves on even if the cleanup is rolled back.
PruneFrequency == Keep > 0 => since <= (Period - 1) * (misses + 1)

\* A transaction that commits leaves its payload in the database, unless it pruned
\* and some untagged entry had the same or a later timestamp.
LatestKept == [][daemon = "commit" /\ daemon' = "idle" /\ store' = txn =>
                   \/ \E r \in store'.history : Hash[r.data] = Hash[current.data]
                   \/ due /\ \E r \in Untagged(store) : r.time >= current.time]_vars

-------------------------------------------------------------------------------
(* What the documentation promises and the code does not keep.                  *)

\* examples/picker.sh:3: Ctrl+D is "to delete entry under cursor from database": what
\* cclip delete removes is what its user saw under that id.
DeletesWhatWasPicked == [][\A c \in Client : Delete(c) =>
                             \A r \in store.history \ store'.history, p \in client[c].pick :
                               r.data = p.data]_vars
===============================================================================
