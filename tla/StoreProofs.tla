----------------------------- MODULE StoreProofs -----------------------------
(* Lemmas about the statements of module Store: each keeps the image of the     *)
(* tables sound, deletions leave no orphaned tag behind, and pruning spares     *)
(* what is tagged and keeps at most as many untagged rows as it is told.        *)
EXTENDS Store, FiniteSetTheorems, WellFoundedInduction, TLAPS

\* The ids in use have a largest one; that any finite set of numbers has one would
\* need an induction.
Bounded(d) == \E b \in Nat : \A r \in d.history : r.id <= b

\* What every statement keeps: types, keys, and a finite table.
Sound(d) == /\ IsStore(d)
            /\ ForeignKeys(d) /\ UniqueRows(d)
            /\ IsFiniteSet(d.history) /\ Bounded(d)

\* IsStore in the form the provers use.
LEMMA StoreFields ==
  ASSUME NEW d, IsStore(d)
  PROVE  /\ \A r \in d.history : /\ r = [id |-> r.id, data |-> r.data, time |-> r.time]
                                 /\ r.id \in Nat \ {0} /\ r.data \in Content /\ r.time \in Nat
         /\ \A l \in d.links : l = <<l[1], l[2]>> /\ l[1] \in Tag /\ l[2] \in Nat
         /\ d.tags \subseteq Tag
         /\ DOMAIN d = {"history", "tags", "links"}
  BY DEF IsStore

\* FOREIGN KEY, link by link.
LEMMA KeysOfLinks ==
  ASSUME NEW d, IsStore(d)
  PROVE  ForeignKeys(d) <=> \A l \in d.links : l[1] \in d.tags /\ \E r \in d.history : r.id = l[2]
  <1>1. ASSUME ForeignKeys(d), NEW l \in d.links
        PROVE  l[1] \in d.tags /\ \E r \in d.history : r.id = l[2]
    BY <1>1 DEF ForeignKeys, Ids
  <1>2. ASSUME \A l \in d.links : l[1] \in d.tags /\ \E r \in d.history : r.id = l[2]
        PROVE  ForeignKeys(d)
    BY <1>2, StoreFields DEF ForeignKeys, Ids
  <1> QED BY <1>1, <1>2

\* A database just created is sound.
LEMMA EmptySound == Sound(EmptyStore)
  <1>1. /\ EmptyStore.history = {} /\ EmptyStore.tags = {} /\ EmptyStore.links = {}
        /\ DOMAIN EmptyStore = {"history", "tags", "links"}
    BY DEF EmptyStore
  <1> QED BY <1>1, FS_EmptySet DEF Sound, IsStore, ForeignKeys, UniqueRows, Bounded

-------------------------------------------------------------------------------
(* STMT_INSERT.                                                                *)

\* A nonempty bounded set of numbers has a maximum.
LEMMA MaxOfBounded ==
  ASSUME NEW S \in SUBSET Nat, S # {}, NEW b \in Nat, \A i \in S : i <= b
  PROVE  Max(S) \in S /\ \A i \in S : i <= Max(S)
  <1> DEFINE U == {n \in Nat : \A i \in S : i <= n}
             Less == {p \in Nat \X Nat : p[1] < p[2]}
  <1>1. U \subseteq Nat /\ U # {}
    BY b \in U
  <1>2. IsWellFoundedOn(Less, Nat)
    BY NatLessThanWellFounded DEF OpToRel
  <1>3. \E u \in U : \A v \in U : <<v, u>> \notin Less
    <2> HIDE DEF U, Less
    <2> QED BY <1>1, <1>2, WFMin
  <1>4. PICK u \in U : \A v \in U : u <= v
    <2>1. PICK u \in U : \A v \in U : <<v, u>> \notin Less
      BY <1>3
    <2>2. ASSUME NEW v \in U PROVE u <= v
      <3>1. <<v, u>> \in Nat \X Nat /\ <<v, u>>[1] = v /\ <<v, u>>[2] = u
        OBVIOUS
      <3>2. ~(v < u)
        BY <2>1, <3>1
      <3> QED BY <3>2
    <2> QED BY <2>2
  <1>5. u \in S
    <2> SUFFICES ASSUME u \notin S PROVE FALSE
      OBVIOUS
    <2>1. \A i \in S : i <= u - 1 /\ i \in Nat
      OBVIOUS
    <2>2. u - 1 \in Nat
      <3>1. PICK i \in S : TRUE
        OBVIOUS
      <3> QED BY <2>1, <3>1
    <2>3. u - 1 \in U
      BY <2>1, <2>2
    <2> QED BY <1>4, <2>3
  <1>6. \E m \in S : \A i \in S : m >= i
    BY <1>5
  <1> QED BY <1>6 DEF Max

\* The id of a new row is in no table row yet.
LEMMA NewIdFresh ==
  ASSUME NEW d, IsStore(d), Bounded(d)
  PROVE  NewId(d) \in Nat \ {0} /\ \A r \in d.history : r.id < NewId(d)
  <1> DEFINE S == Ids(d) \cup {0}
  <1>1. S \in SUBSET Nat /\ S # {} /\ \A r \in d.history : r.id \in S
    BY StoreFields DEF Ids
  <1>2. \E b \in Nat : \A i \in S : i <= b
    BY DEF Bounded, Ids
  <1> HIDE DEF S
  <1>3. Max(S) \in S /\ \A i \in S : i <= Max(S)
    BY <1>1, <1>2, MaxOfBounded
  <1>4. NewId(d) = 1 + Max(S)
    BY DEF NewId, S
  <1>5. Max(S) \in Nat /\ \A r \in d.history : r.id <= Max(S) /\ r.id \in Nat
    BY <1>1, <1>3, StoreFields
  <1> QED BY <1>4, <1>5

\* What the statement does, by cases, once at most one row has the hash.
LEMMA UpsertCases ==
  ASSUME NEW d, Sound(d), NEW c \in Content, NEW t \in Nat
  PROVE  LET u == Upsert(d, c, t) IN
         /\ u.tags = d.tags /\ u.links = d.links /\ DOMAIN u = DOMAIN d
         /\ \/ /\ \A r \in d.history : Hash[r.data] # Hash[c]
               /\ u.history = d.history \cup {Row(NewId(d), c, t)}
            \/ \E x \in d.history :
                 /\ Hash[x.data] = Hash[c]
                 /\ u.history = (d.history \ {x}) \cup {Row(x.id, x.data, t)}
  <1> DEFINE u == Upsert(d, c, t)
             same == {r \in d.history : Hash[r.data] = Hash[c]}
             old == {[r EXCEPT !.time = t] : r \in same}
  <1>1. /\ DOMAIN d = {"history", "tags", "links"} /\ UniqueRows(d)
        /\ \A r \in d.history : r = [id |-> r.id, data |-> r.data, time |-> r.time]
    BY StoreFields DEF Sound
  <1>2. u = [d EXCEPT !.history = IF same = {} THEN d.history \cup {Row(NewId(d), c, t)}
                                 ELSE (d.history \ same) \cup old]
    BY DEF Upsert
  <1>3. /\ u.tags = d.tags /\ u.links = d.links /\ DOMAIN u = DOMAIN d
        /\ u.history = IF same = {} THEN d.history \cup {Row(NewId(d), c, t)}
                       ELSE (d.history \ same) \cup old
    BY <1>1, <1>2
  <1> HIDE DEF u
  <1>4. CASE same = {}
    BY <1>3, <1>4 DEF u
  <1>5. CASE same # {}
    <2>1. PICK x \in d.history : Hash[x.data] = Hash[c]
      BY <1>5
    <2>2. same = {x}
      BY <1>1, <2>1 DEF UniqueRows
    <2>3. [x EXCEPT !.time = t] = Row(x.id, x.data, t)
      BY <1>1 DEF Row
    <2>4. old = {Row(x.id, x.data, t)}
      BY <2>2, <2>3
    <2> HIDE DEF same, old
    <2>5. u.history = (d.history \ {x}) \cup {Row(x.id, x.data, t)}
      BY <1>3, <1>5, <2>2, <2>4
    <2> QED BY <1>3, <2>1, <2>5 DEF u
  <1> QED BY <1>4, <1>5

\* The upsert keeps the tables sound, and every id.  Two rows of equal hash would be one.
LEMMA UpsertSound ==
  ASSUME NEW d, Sound(d), NEW c \in Content, NEW t \in Nat
  PROVE  LET u == Upsert(d, c, t) IN
         /\ Sound(u) /\ u.tags = d.tags /\ u.links = d.links
         /\ \A r \in d.history : \E s \in u.history : s.id = r.id
         /\ \E r \in u.history : Hash[r.data] = Hash[c]
         /\ \A r \in u.history : IF Hash[r.data] = Hash[c] THEN r.time = t ELSE r \in d.history
  <1> DEFINE u == Upsert(d, c, t)
  <1>0. /\ u.tags = d.tags /\ u.links = d.links /\ DOMAIN u = DOMAIN d
        /\ \/ /\ \A r \in d.history : Hash[r.data] # Hash[c]
              /\ u.history = d.history \cup {Row(NewId(d), c, t)}
           \/ \E x \in d.history :
                /\ Hash[x.data] = Hash[c]
                /\ u.history = (d.history \ {x}) \cup {Row(x.id, x.data, t)}
    BY UpsertCases
  <1>1. /\ IsStore(d) /\ ForeignKeys(d) /\ UniqueRows(d) /\ IsFiniteSet(d.history) /\ Bounded(d)
    BY DEF Sound
  <1> HIDE DEF u
  <1>2. PICK keep, new :
          /\ new \in [id : Nat \ {0}, data : Content, time : Nat]
          /\ new.time = t /\ Hash[new.data] = Hash[c]
          /\ u.history = keep \cup {new} /\ keep \subseteq d.history
          /\ \A r \in d.history : r \in keep \/ r.id = new.id
          /\ \A r \in keep : r.id # new.id /\ Hash[r.data] # Hash[c]
    <2>1. CASE /\ \A r \in d.history : Hash[r.data] # Hash[c]
               /\ u.history = d.history \cup {Row(NewId(d), c, t)}
      <3> DEFINE new == Row(NewId(d), c, t)
      <3>1. NewId(d) \in Nat \ {0} /\ \A r \in d.history : r.id < NewId(d) /\ r.id \in Nat
        BY <1>1, NewIdFresh, StoreFields
      <3>2. new \in [id : Nat \ {0}, data : Content, time : Nat] /\ new.id = NewId(d)
            /\ new.time = t /\ new.data = c
        BY <3>1 DEF Row
      <3>3. \A r \in d.history : r.id # new.id
        BY <3>1, <3>2
      <3> HIDE DEF new
      <3> QED BY <2>1, <3>2, <3>3 DEF new
    <2>2. CASE \E x \in d.history :
                 /\ Hash[x.data] = Hash[c]
                 /\ u.history = (d.history \ {x}) \cup {Row(x.id, x.data, t)}
      <3>1. PICK x \in d.history :
                 /\ Hash[x.data] = Hash[c]
                 /\ u.history = (d.history \ {x}) \cup {Row(x.id, x.data, t)}
        BY <2>2
      <3> DEFINE new == Row(x.id, x.data, t)
                 keep == d.history \ {x}
      <3>2. new \in [id : Nat \ {0}, data : Content, time : Nat] /\ new.id = x.id
            /\ new.time = t /\ new.data = x.data
        BY <1>1, StoreFields DEF Row
      <3>3. \A r \in keep : r.id # x.id /\ Hash[r.data] # Hash[c]
        BY <1>1, <3>1 DEF UniqueRows
      <3>4. \A r \in d.history : r \in keep \/ r.id = new.id
        BY <3>2
      <3>5. u.history = keep \cup {new} /\ keep \subseteq d.history
        BY <3>1
      <3> HIDE DEF new, keep
      <3> QED BY <3>1, <3>2, <3>3, <3>4, <3>5
    <2> QED BY <1>0, <2>1, <2>2
  <1>3. IsStore(u)
    BY <1>0, <1>1, <1>2 DEF IsStore
  <1>4. \A r \in d.history : \E s \in u.history : s.id = r.id
    BY <1>2
  <1>5. ForeignKeys(u)
    BY <1>0, <1>1, <1>3, <1>4, KeysOfLinks
  <1>6. UniqueRows(u)
    BY <1>1, <1>2 DEF UniqueRows
  <1>7. IsFiniteSet(u.history)
    <2>1. IsFiniteSet(keep)
      BY <1>1, <1>2, FS_Subset
    <2> QED BY <1>2, <2>1, FS_AddElement
  <1>8. Bounded(u)
    <2>1. PICK b \in Nat : \A r \in d.history : r.id <= b
      BY <1>1 DEF Bounded
    <2>2. \A r \in d.history : r.id \in Nat
      BY <1>1, StoreFields
    <2>3. b + new.id \in Nat /\ \A r \in u.history : r.id <= b + new.id
      BY <1>2, <2>1, <2>2
    <2> QED BY <2>3 DEF Bounded
  <1>9. \A r \in u.history : IF Hash[r.data] = Hash[c] THEN r.time = t ELSE r \in d.history
    BY <1>2
  <1>10. \E r \in u.history : Hash[r.data] = Hash[c]
    BY <1>2
  <1> QED BY <1>0, <1>3, <1>4, <1>5, <1>6, <1>7, <1>8, <1>9, <1>10 DEF Sound, u

-------------------------------------------------------------------------------
(* Deletions.                                                                  *)

\* Deleting links with the trigger keeps the tables sound and orphans no tag.
LEMMA UnlinkSound ==
  ASSUME NEW d, Sound(d), NEW gone
  PROVE  LET u == Unlink(d, gone) IN
         /\ Sound(u)
         /\ u.history = d.history /\ u.links = d.links \ gone /\ u.tags \subseteq d.tags
         /\ Orphans(u) \subseteq Orphans(d)
         /\ d.links \cap gone = {} => u.tags = d.tags
  <1> DEFINE u == Unlink(d, gone)
             orphaned == {n \in d.tags : /\ \E l \in d.links \cap gone : l[1] = n
                                         /\ ~\E l \in d.links \ gone : l[1] = n}
  <1>1. /\ IsStore(d) /\ ForeignKeys(d) /\ UniqueRows(d) /\ IsFiniteSet(d.history) /\ Bounded(d)
    BY DEF Sound
  <1>2. /\ u.history = d.history /\ u.links = d.links \ gone /\ u.tags = d.tags \ orphaned
        /\ DOMAIN u = DOMAIN d
    <2>1. u = [d EXCEPT !.links = d.links \ gone, !.tags = d.tags \ orphaned]
      BY DEF Unlink
    <2> HIDE DEF u, orphaned
    <2> QED BY <1>1, <2>1, StoreFields
  <1> HIDE DEF u
  <1>3. IsStore(u)
    BY <1>1, <1>2 DEF IsStore
  <1>4. ForeignKeys(u)
    BY <1>1, <1>2, <1>3, KeysOfLinks
  <1>5. UniqueRows(u) /\ Bounded(u)
    BY <1>1, <1>2 DEF UniqueRows, Bounded
  <1>6. Orphans(u) \subseteq Orphans(d)
    BY <1>2 DEF Orphans
  <1>7. d.links \cap gone = {} => u.tags = d.tags
    BY <1>2
  <1> QED BY <1>1, <1>2, <1>3, <1>4, <1>5, <1>6, <1>7 DEF Sound, u

\* Deleting rows with the cascade and the trigger keeps the tables sound and orphans
\* no tag; rows without links leave the other two tables alone.
LEMMA DeleteIdsSound ==
  ASSUME NEW d, Sound(d), NEW ids
  PROVE  LET u == DeleteIds(d, ids) IN
         /\ Sound(u)
         /\ u.history = {r \in d.history : r.id \notin ids}
         /\ Orphans(u) \subseteq Orphans(d)
         /\ (\A l \in d.links : l[2] \notin ids) => u.tags = d.tags /\ u.links = d.links
  <1> DEFINE gone == {l \in d.links : l[2] \in ids}
             v == Unlink(d, gone)
             left == {r \in d.history : r.id \notin ids}
             u == DeleteIds(d, ids)
  <1>1. /\ Sound(v) /\ v.history = d.history /\ v.links = d.links \ gone
        /\ Orphans(v) \subseteq Orphans(d)
        /\ d.links \cap gone = {} => v.tags = d.tags
    <2> HIDE DEF gone
    <2> QED BY UnlinkSound
  <1>2. u = [v EXCEPT !.history = {r \in v.history : r.id \notin ids}]
    BY DEF DeleteIds
  <1> HIDE DEF v, u
  <1>3. /\ IsStore(v) /\ ForeignKeys(v) /\ UniqueRows(v) /\ IsFiniteSet(v.history) /\ Bounded(v)
    BY <1>1 DEF Sound
  <1>4. /\ u.history = left /\ u.tags = v.tags /\ u.links = v.links /\ DOMAIN u = DOMAIN v
    BY <1>1, <1>2, <1>3, StoreFields
  <1>5. IsStore(u)
    BY <1>1, <1>3, <1>4 DEF IsStore
  <1>6. ForeignKeys(u)
    <2>1. \A l \in u.links : l \in v.links /\ l[2] \notin ids
      BY <1>1, <1>4
    <2> QED BY <1>1, <1>3, <1>4, <1>5, <2>1, KeysOfLinks
  <1>7. UniqueRows(u) /\ Bounded(u)
    BY <1>1, <1>3, <1>4 DEF UniqueRows, Bounded
  <1>8. IsFiniteSet(u.history)
    BY <1>1, <1>3, <1>4, FS_Subset
  <1>9. Orphans(u) \subseteq Orphans(d)
    BY <1>1, <1>4 DEF Orphans
  <1>10. (\A l \in d.links : l[2] \notin ids) => u.tags = d.tags /\ u.links = d.links
    BY <1>1, <1>4
  <1> QED BY <1>4, <1>5, <1>6, <1>7, <1>8, <1>9, <1>10 DEF Sound, u

\* INSERT OR IGNORE INTO tags: the new name is the only one that may be an orphan.
LEMMA AddTagSound ==
  ASSUME NEW d, Sound(d), NEW n \in Tag
  PROVE  LET u == AddTag(d, n) IN Sound(u) /\ Orphans(u) \subseteq Orphans(d) \cup {n}
  <1> DEFINE u == AddTag(d, n)
  <1>1. /\ IsStore(d) /\ ForeignKeys(d) /\ UniqueRows(d) /\ IsFiniteSet(d.history) /\ Bounded(d)
    BY DEF Sound
  <1>2. /\ u.history = d.history /\ u.links = d.links /\ u.tags = d.tags \cup {n}
        /\ DOMAIN u = DOMAIN d
    BY <1>1, StoreFields DEF AddTag
  <1> HIDE DEF u
  <1>3. IsStore(u)
    BY <1>1, <1>2 DEF IsStore
  <1>4. ForeignKeys(u)
    BY <1>1, <1>2, <1>3, KeysOfLinks
  <1>5. UniqueRows(u) /\ Bounded(u) /\ Orphans(u) \subseteq Orphans(d) \cup {n}
    BY <1>1, <1>2 DEF UniqueRows, Bounded, Orphans
  <1> QED BY <1>1, <1>2, <1>3, <1>4, <1>5 DEF Sound, u

\* INSERT INTO history_tags, when its constraints let it.
LEMMA LinkSound ==
  ASSUME NEW d, Sound(d), NEW n, NEW i, CanLink(d, n, i)
  PROVE  LET u == Link(d, n, i) IN Sound(u) /\ Orphans(u) \subseteq Orphans(d)
  <1> DEFINE u == Link(d, n, i)
  <1>1. /\ IsStore(d) /\ ForeignKeys(d) /\ UniqueRows(d) /\ IsFiniteSet(d.history) /\ Bounded(d)
    BY DEF Sound
  <1>2. /\ u.history = d.history /\ u.links = d.links \cup {<<n, i>>} /\ u.tags = d.tags
        /\ DOMAIN u = DOMAIN d
    BY <1>1, StoreFields DEF Link
  <1>3. n \in d.tags /\ n \in Tag /\ i \in Nat /\ \E r \in d.history : r.id = i
    BY <1>1, StoreFields DEF CanLink, Ids
  <1> HIDE DEF u
  <1>4. IsStore(u)
    BY <1>1, <1>2, <1>3 DEF IsStore
  <1>5. ForeignKeys(u)
    BY <1>1, <1>2, <1>3, <1>4, KeysOfLinks
  <1>6. UniqueRows(u) /\ Bounded(u) /\ Orphans(u) \subseteq Orphans(d)
    BY <1>1, <1>2 DEF UniqueRows, Bounded, Orphans
  <1> QED BY <1>1, <1>2, <1>4, <1>5, <1>6 DEF Sound, u

-------------------------------------------------------------------------------
(* STMT_DELETE_OLDEST.                                                         *)

LaterRows(d, r) == {s \in Untagged(d) : Later(r, s)}

\* The place of an untagged row in ORDER BY timestamp DESC, from 0.
Rank(d, r) == Cardinality(LaterRows(d, r))

\* The order is total: ids are unique.
LEMMA LaterIsTotal ==
  ASSUME NEW d, Sound(d), NEW r \in d.history, NEW s \in d.history, NEW x \in d.history
  PROVE  /\ ~Later(r, r)
         /\ Later(r, s) \/ Later(s, r) \/ r = s
         /\ Later(r, s) /\ Later(s, x) => Later(r, x)
  <1>1. /\ r.id \in Nat /\ r.time \in Nat /\ s.id \in Nat /\ s.time \in Nat
        /\ x.id \in Nat /\ x.time \in Nat
    BY StoreFields DEF Sound
  <1>2. r.id = s.id => r = s
    BY DEF Sound, UniqueRows
  <1> QED BY <1>1, <1>2 DEF Later

\* Ranks are numbers: the table is finite.
LEMMA RankType ==
  ASSUME NEW d, Sound(d), NEW r \in Untagged(d)
  PROVE  IsFiniteSet(LaterRows(d, r)) /\ Rank(d, r) \in Nat
  <1>1. LaterRows(d, r) \in SUBSET d.history
    BY DEF LaterRows, Untagged
  <1>2. IsFiniteSet(d.history)
    BY DEF Sound
  <1>3. IsFiniteSet(LaterRows(d, r))
    BY <1>1, <1>2, FS_Subset
  <1> QED BY <1>3, FS_CardinalityType DEF Rank

\* A later row has a smaller rank.
LEMMA RankOfLater ==
  ASSUME NEW d, Sound(d), NEW r \in Untagged(d), NEW s \in Untagged(d), Later(r, s)
  PROVE  Rank(d, s) < Rank(d, r)
  <1>1. \A x \in Untagged(d) : x \in d.history
    BY DEF Untagged
  <1>2. LaterRows(d, s) \in SUBSET LaterRows(d, r)
    BY <1>1, LaterIsTotal DEF LaterRows
  <1>3. s \in LaterRows(d, r) /\ s \notin LaterRows(d, s)
    BY <1>1, LaterIsTotal DEF LaterRows
  <1>4. Cardinality(LaterRows(d, s)) <= Cardinality(LaterRows(d, r))
        /\ Cardinality(LaterRows(d, s)) # Cardinality(LaterRows(d, r))
    BY <1>2, <1>3, RankType, FS_Subset
  <1>5. Rank(d, r) \in Nat /\ Rank(d, s) \in Nat
    BY RankType
  <1> QED BY <1>4, <1>5 DEF Rank

\* So ranks tell rows apart, and at most keep rows have a rank below keep.
LEMMA RankBound ==
  ASSUME NEW d, Sound(d), NEW keep \in Nat
  PROVE  LET K == {r \in Untagged(d) : Rank(d, r) < keep} IN
         IsFiniteSet(K) /\ Cardinality(K) <= keep
  <1> DEFINE K == {r \in Untagged(d) : Rank(d, r) < keep}
             T == 0 .. (keep - 1)
             f == [r \in K |-> Rank(d, r)]
  <1>1. \A r \in K : r \in Untagged(d) /\ r \in d.history /\ Rank(d, r) \in T
    BY RankType DEF Untagged
  <1>2. ASSUME NEW r \in K, NEW s \in K, Rank(d, r) = Rank(d, s) PROVE r = s
    <2>1. Rank(d, r) \in Nat /\ ~(Rank(d, r) < Rank(d, s)) /\ ~(Rank(d, s) < Rank(d, r))
      BY <1>1, <1>2
    <2>2. ~Later(r, s) /\ ~Later(s, r)
      BY <1>1, <2>1, RankOfLater
    <2> QED BY <1>1, <2>2, LaterIsTotal
  <1>3. f \in Injection(K, T)
    <2> HIDE DEF K, T
    <2> QED BY <1>1, <1>2 DEF Injection, IsInjective
  <1>4. IsFiniteSet(T) /\ Cardinality(T) = keep
    BY FS_Interval
  <1> HIDE DEF K, T, f
  <1>5. IsFiniteSet(K) /\ Cardinality(K) <= Cardinality(T)
    BY <1>3, <1>4, FS_Injection
  <1> QED BY <1>4, <1>5 DEF K

\* Pruning keeps the tables sound, every tag and every link, and of the untagged rows
\* at most keep: each one that goes is earlier than each one that stays, and at least
\* keep others are later than it.
LEMMA PruneSound ==
  ASSUME NEW d, Sound(d), NEW keep \in Nat
  PROVE  LET p == Prune(d, keep) IN
         /\ Sound(p) /\ p.tags = d.tags /\ p.links = d.links
         /\ p.history \subseteq d.history
         /\ \A r \in d.history \ p.history : r \in Untagged(d) /\ Rank(d, r) >= keep
         /\ IsFiniteSet(Untagged(p)) /\ Cardinality(Untagged(p)) <= keep
         /\ \A r \in d.history \ p.history, s \in Untagged(p) : Later(r, s)
  <1> DEFINE p == Prune(d, keep)
             gone == {r \in Untagged(d) : Rank(d, r) >= keep}
             ids == {r.id : r \in gone}
             K == {r \in Untagged(d) : Rank(d, r) < keep}
  <1>1. p = DeleteIds(d, ids)
    BY DEF Prune, Rank, LaterRows
  <1> HIDE DEF p
  <1>2. \A r \in gone, l \in d.links : l[2] # r.id
    BY DEF Untagged, Tagged
  <1>3. \A l \in d.links : l[2] \notin ids
    BY <1>2
  <1>4. /\ Sound(p) /\ p.history = {r \in d.history : r.id \notin ids}
        /\ p.tags = d.tags /\ p.links = d.links
    <2> HIDE DEF ids, gone
    <2> QED BY <1>1, <1>3, DeleteIdsSound
  <1>5. p.history \subseteq d.history
    BY <1>4
  <1>6. \A r \in d.history \ p.history : r \in gone
    <2>1. \A r, s \in d.history : r.id = s.id => r = s
      BY DEF Sound, UniqueRows
    <2>2. \A g \in gone : g \in d.history
      BY DEF Untagged
    <2> HIDE DEF gone
    <2> QED BY <1>4, <2>1, <2>2
  <1>7. Untagged(p) \subseteq K
    <2> SUFFICES ASSUME NEW r \in Untagged(p) PROVE r \in K
      OBVIOUS
    <2>1. r \in d.history /\ r \notin gone
      BY <1>4 DEF Untagged
    <2>2. r \in Untagged(d)
      BY <1>4 DEF Untagged, Tagged
    <2>3. Rank(d, r) \in Nat
      BY <2>2, RankType
    <2> QED BY <2>1, <2>2, <2>3
  <1>8. IsFiniteSet(K) /\ Cardinality(K) <= keep
    BY RankBound
  <1>9. IsFiniteSet(Untagged(p)) /\ Cardinality(Untagged(p)) <= keep
    <2>1. IsFiniteSet(Untagged(p)) /\ Cardinality(Untagged(p)) <= Cardinality(K)
      BY <1>7, <1>8, FS_Subset
    <2>2. Cardinality(Untagged(p)) \in Nat /\ Cardinality(K) \in Nat
      BY <1>8, <2>1, FS_CardinalityType
    <2> QED BY <1>8, <2>1, <2>2
  <1>10. ASSUME NEW r \in gone, NEW s \in K PROVE Later(r, s)
    <2>1. r \in d.history /\ s \in d.history /\ r \in Untagged(d) /\ s \in Untagged(d)
      BY DEF Untagged
    <2>2. Rank(d, r) \in Nat /\ Rank(d, s) \in Nat /\ Rank(d, r) >= keep /\ Rank(d, s) < keep
      BY <2>1, RankType
    <2>3. r # s /\ ~(Rank(d, r) < Rank(d, s))
      BY <2>2
    <2> QED BY <2>1, <2>3, RankOfLater, LaterIsTotal
  <1>11. \A r \in gone : r \in Untagged(d) /\ Rank(d, r) >= keep
    OBVIOUS
  <1> QED
    <2> HIDE DEF gone, K
    <2> QED BY <1>4, <1>5, <1>6, <1>7, <1>9, <1>10, <1>11 DEF p

\* With room for one row at least, a row is pruned only when a later untagged one is
\* there.
LEMMA PrunedHasLater ==
  ASSUME NEW d, Sound(d), NEW keep \in Nat \ {0},
         NEW r \in Untagged(d), Rank(d, r) >= keep
  PROVE  \E s \in Untagged(d) : s # r /\ s.time >= r.time
  <1>1. IsFiniteSet(LaterRows(d, r)) /\ Rank(d, r) \in Nat
    BY RankType
  <1>2. LaterRows(d, r) # {}
    BY <1>1, FS_EmptySet DEF Rank
  <1>3. PICK s \in Untagged(d) : Later(r, s)
    BY <1>2 DEF LaterRows
  <1>4. r \in d.history /\ s \in d.history
    BY DEF Untagged
  <1>5. r.time \in Nat /\ s.time \in Nat
    BY <1>4, StoreFields DEF Sound
  <1>6. s # r
    BY <1>3, <1>4, LaterIsTotal
  <1> QED BY <1>3, <1>5, <1>6 DEF Later
===============================================================================
