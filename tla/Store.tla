-------------------------------- MODULE Store --------------------------------
(* The tables of the database (db_init in src/common/db.c) and what the SQL     *)
(* statements of cclipd and cclip do to them, as pure operators on an image     *)
(*   [history, tags, links]                                                     *)
(* history is a set of rows [id, data, time]; data_hash is Hash[data]; the      *)
(* preview, size and MIME type follow from the data.  tags is the set of names  *)
(* in the table tags: a name is unique there and every statement finds the      *)
(* tag's id by name, so the name stands for the id.  links is history_tags.     *)
EXTENDS Naturals, FiniteSets, FiniteSetsExt

CONSTANTS Content,  \* payloads
          Hash,     \* XXH3_64bits, a function on Content
          Tag       \* tag names cclip accepts

Row(i, c, t) == [id |-> i, data |-> c, time |-> t]

Ids(d) == {r.id : r \in d.history}

EmptyStore == [history |-> {}, tags |-> {}, links |-> {}]

IsStore(d) == /\ DOMAIN d = {"history", "tags", "links"}
              /\ d.history \subseteq [id : Nat \ {0}, data : Content, time : Nat]
              /\ d.tags \subseteq Tag
              /\ d.links \subseteq Tag \X Nat

\* FOREIGN KEY clauses, UNIQUE ( data_hash ) and PRIMARY KEY.
ForeignKeys(d) == d.links \subseteq d.tags \X Ids(d)

UniqueRows(d) == \A r, s \in d.history :
                   r.id = s.id \/ Hash[r.data] = Hash[s.data] => r = s

-------------------------------------------------------------------------------
\* Mutant of NewId: the largest id itself.
LargestId(d) == Max(Ids(d) \cup {0})

\* The rowid SQLite gives a new row: one more than the largest in the table.
NewId(d) == 1 + Max(Ids(d) \cup {0})

\* STMT_INSERT: a known hash keeps its row, data and MIME type, and is given the
\* new timestamp.
Upsert(d, c, t) ==
  LET same == {r \in d.history : Hash[r.data] = Hash[c]} IN
  [d EXCEPT !.history = IF same = {} THEN @ \cup {Row(NewId(d), c, t)}
                        ELSE (@ \ same) \cup {[r EXCEPT !.time = t] : r \in same}]

\* Mutant of Unlink: without the trigger.
UnlinkOnly(d, gone) == [d EXCEPT !.links = @ \ gone]

\* Deleting from history_tags fires cleanup_orphaned_tags for each deleted row.
Unlink(d, gone) ==
  LET left == d.links \ gone
      orphaned == {n \in d.tags : /\ \E l \in d.links \cap gone : l[1] = n
                                  /\ ~\E l \in left : l[1] = n}
  IN  [d EXCEPT !.links = left, !.tags = @ \ orphaned]

\* Mutant of DeleteIds: without the cascade.
DeleteRowsOnly(d, ids) == [d EXCEPT !.history = {r \in @ : r.id \notin ids}]

\* Deleting from history cascades to history_tags, whose trigger fires.
DeleteIds(d, ids) ==
  [Unlink(d, {l \in d.links : l[2] \in ids}) EXCEPT
     !.history = {r \in @ : r.id \notin ids}]

Tagged(d) == {r \in d.history : \E l \in d.links : l[2] = r.id}

Orphans(d) == {n \in d.tags : ~\E l \in d.links : l[1] = n}

Untagged(d) == d.history \ Tagged(d)

\* Mutant of Later: ORDER BY timestamp ASC.
Earlier(r, s) == s.time < r.time \/ (s.time = r.time /\ s.id > r.id)

\* ORDER BY timestamp DESC is served by idx_history_timestamp read backwards, whose
\* second key is the rowid: of two rows of the same second the larger id comes first.
Later(r, s) == s.time > r.time \/ (s.time = r.time /\ s.id > r.id)

\* Mutants of Prune: an offset too large by one; tagged rows not spared.
PruneKeepsOneMore(d, keep) ==
  LET gone == {r \in Untagged(d) : Cardinality({s \in Untagged(d) : Later(r, s)}) > keep}
  IN  DeleteIds(d, {r.id : r \in gone})

PruneTaggedToo(d, keep) ==
  LET gone == {r \in d.history : Cardinality({s \in d.history : Later(r, s)}) >= keep}
  IN  DeleteIds(d, {r.id : r \in gone})

\* STMT_DELETE_OLDEST: the untagged rows beyond the first keep of that order go.
Prune(d, keep) ==
  LET gone == {r \in Untagged(d) : Cardinality({s \in Untagged(d) : Later(r, s)}) >= keep}
  IN  DeleteIds(d, {r.id : r \in gone})

\* INSERT OR IGNORE INTO tags
AddTag(d, n) == [d EXCEPT !.tags = @ \cup {n}]

\* INSERT INTO history_tags fails on a missing tag (NULL primary key), a missing
\* entry (foreign key) and a tag the entry has (primary key).
CanLink(d, n, i) == n \in d.tags /\ i \in Ids(d) /\ <<n, i>> \notin d.links

Link(d, n, i) == [d EXCEPT !.links = @ \cup {<<n, i>>}]
===============================================================================
