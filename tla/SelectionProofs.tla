--------------------------- MODULE SelectionProofs ---------------------------
(* What cclipd receives is what was offered: for any sources, patterns and       *)
(* configuration, any number of transfers at once and any startup failures.     *)
EXTENDS Selection, FiniteSetTheorems, SequenceTheorems, WellFoundedInduction, TLAPS

\* The place of the selection event among the events that announce offer o, after
\* data_offer (place 0) and the MIME types; an event without an offer stands alone.
Last(o) == IF o = None THEN 0 ELSE Len(offers[o].types) + 1

Burst(o, k) ==
  IF k = 0 THEN Event("data_offer", o, None)
  ELSE IF k = Last(o) THEN Event(IF offers[o].primary THEN "primary" ELSE "selection", o, None)
  ELSE Event("type", o, offers[o].types[k])

\* Event e may be on the wire, at place k of its announcement.
Fits(e, k) ==
  IF e.offer = None
    THEN k = 0 /\ e \in {Event(kind, None, None) : kind \in {"selection", "primary", "finished", "lost"}}
    ELSE e.offer \in Announced /\ k \in 0 .. Last(e.offer) /\ e = Burst(e.offer, k)

\* The wire holds announcements one after the other, the first perhaps without its
\* beginning; p tells the place of each event.
Stream(p) ==
  /\ \A i \in 1 .. Len(wire) : Fits(wire[i], p[i])
  /\ \A i \in 1 .. Len(wire) - 1 : IF p[i] = Last(wire[i].offer) THEN p[i + 1] = 0
                                   ELSE wire[i + 1].offer = wire[i].offer /\ p[i + 1] = p[i] + 1
  /\ wire # << >> => p[Len(wire)] = Last(wire[Len(wire)].offer)

\* ts has, in their order, those of the first n types of offer o that are not too long.
Collected(ts, o, n) ==
  /\ ts \in Seq(Type)
  /\ \E f \in [1 .. Len(ts) -> 1 .. n] :
       /\ \A j \in 1 .. Len(ts) : ts[j] = offers[o].types[f[j]] /\ ts[j] \notin TooLong
       /\ \A j, k \in 1 .. Len(ts) : j < k => f[j] < f[k]
       /\ \A m \in 1 .. n : offers[o].types[m] \notin TooLong => \E j \in 1 .. Len(ts) : f[j] = m

\* In the middle of an announcement wayland.offer and its list are of that offer, and no
\* hint is being read.
Streaming == \E p \in [1 .. Len(wire) -> Nat] :
               /\ Stream(p)
               /\ wire # << >> /\ p[1] > 0 => /\ main = "loop" /\ current = wire[1].offer
                                             /\ Collected(types, current, p[1] - 1)

\* While is_secret reads, they are of the offer it asks about.
Asking == main = "hint" => /\ current \in Announced
                           /\ Collected(types, current, Len(offers[current].types))
                           /\ Selected(types) # None /\ IgnoreSecrets
                           /\ offers[current].primary => Primary

\* What may be received of offer o is what it has best, if it is one to keep.
Right(o) == BestOf(chosen[o], offers[o].types) /\ (offers[o].primary => Primary)

Lawful(o) ==
  /\ transfer[o] \in {"open", "queued"} \/ Pipe(o) \in sources => Right(o) /\ transfer[o] # "none"
  /\ IgnoreSecrets /\ TellsSecret(offers[o]) => transfer[o] = "none"

Transfers == \A o \in Announced : Lawful(o)

\* Every event in hand is of a source there is, at most one of each; a source that has
\* hung up has closed its pipe.
Batch == /\ \A e \in batch : e.source \in sources /\ e.hup \in BOOLEAN
         /\ \A e, f \in batch : e.source = f.source => e = f
         /\ \A e \in batch, o \in Announced : e.source = Pipe(o) /\ e.hup => closed[o]
         /\ IsFiniteSet(batch) /\ Cardinality(batch) <= MaxEvents
         /\ sources \subseteq {Wayland, SignalSource} \cup {Pipe(o) : o \in Announced}

\* A signalfd that works is in the epoll set.
Polled == signalFd = "open" => SignalSource \in sources

\* The events of the compositor.
Kinds == {"data_offer", "type", "selection", "primary", "finished", "lost"}

Events == [kind : Kinds, offer : Nat, type : Type \cup {None}]

\* What the types of the events, the transfers and the queue are.
Shape ==
  /\ offers \in Seq(Source)
  /\ wire \in Seq(Events)
  /\ types \in Seq(Type \cup {None})
  /\ transfer \in [Announced -> {"none", "open", "queued", "dropped"}]
  /\ chosen \in [Announced -> Type \cup {None}]
  /\ sent \in [Announced -> Nat] /\ closed \in [Announced -> BOOLEAN] /\ got \in [Announced -> Nat]
  /\ queued \in Seq([offer : Announced, type : Type \cup {None}, size : Nat])

\* The inductive invariant.
SelectionInv == /\ TypeOK /\ Shape /\ Polled /\ BlockedIsServed /\ Batch
                /\ WholePayload /\ Streaming /\ Asking /\ Transfers

-------------------------------------------------------------------------------
(* The type receive_offer picks.                                               *)

\* A nonempty set of numbers has a least one.
LEMMA LeastNumber ==
  ASSUME NEW S \in SUBSET Nat, S # {}
  PROVE  \E m \in S : \A n \in S : m <= n
  <1> DEFINE Less == {p \in Nat \X Nat : p[1] < p[2]}
  <1>1. IsWellFoundedOn(Less, Nat)
    BY NatLessThanWellFounded DEF OpToRel
  <1>2. PICK m \in S : \A n \in S : <<n, m>> \notin Less
    <2> HIDE DEF Less
    <2> QED BY <1>1, WFMin
  <1>3. ASSUME NEW n \in S PROVE m <= n
    <2>1. <<n, m>> \in Nat \X Nat /\ <<n, m>>[1] = n /\ <<n, m>>[2] = m
      OBVIOUS
    <2>2. ~(n < m)
      BY <1>2, <2>1
    <2> QED BY <2>2
  <1> QED BY <1>3

\* The loops of receive_offer end at one pair: the first pattern that accepts a type,
\* and the first type it accepts.
LEMMA FirstMatch ==
  ASSUME NEW S \in SUBSET (Nat \X Nat), S # {}
  PROVE  /\ First(S) \in S
         /\ \A n \in S : First(S)[1] < n[1] \/ (First(S)[1] = n[1] /\ First(S)[2] <= n[2])
  <1> DEFINE Row == {n[1] : n \in S}
  <1>1. PICK i \in Row : \A h \in Row : i <= h
    <2>1. Row \in SUBSET Nat /\ Row # {}
      OBVIOUS
    <2> HIDE DEF Row
    <2> QED BY <2>1, LeastNumber
  <1> DEFINE Column == {n[2] : n \in {q \in S : q[1] = i}}
  <1>2. PICK j \in Column : \A k \in Column : j <= k
    <2>1. Column \in SUBSET Nat /\ Column # {}
      OBVIOUS
    <2> HIDE DEF Column
    <2> QED BY <2>1, LeastNumber
  <1>3. PICK m \in S : m[1] = i /\ m[2] = j
    BY <1>2
  <1>4. ASSUME NEW n \in S PROVE m[1] < n[1] \/ (m[1] = n[1] /\ m[2] <= n[2])
    <2>1. n[1] \in Nat /\ n[2] \in Nat /\ m[1] \in Nat /\ m[2] \in Nat
      OBVIOUS
    <2>2. m[1] <= n[1]
      BY <1>1, <1>3
    <2>3. m[1] = n[1] => m[2] <= n[2]
      BY <1>2, <1>3
    <2> QED BY <2>1, <2>2, <2>3
  <1> QED BY <1>4 DEF First

\* From the list collected of all types of an offer, receive_offer picks the best.
LEMMA SelectedIsBest ==
  ASSUME NEW o \in Announced, NEW ts, Collected(ts, o, Len(offers[o].types)),
         offers[o].types \in Seq(Type), Selected(ts) # None
  PROVE  BestOf(Selected(ts), offers[o].types)
  <1> DEFINE all == offers[o].types
  <1>1. PICK f \in [1 .. Len(ts) -> 1 .. Len(all)] :
          /\ \A j \in 1 .. Len(ts) : ts[j] = all[f[j]] /\ ts[j] \notin TooLong
          /\ \A j, k \in 1 .. Len(ts) : j < k => f[j] < f[k]
          /\ \A m \in 1 .. Len(all) : all[m] \notin TooLong => \E j \in 1 .. Len(ts) : f[j] = m
    BY DEF Collected
  <1>2. ts \in Seq(Type) /\ Patterns \in Seq(SUBSET Type)
    BY SelectionAssumption DEF Collected
  <1>3. Matches(ts) # {} /\ Selected(ts) = ts[First(Matches(ts))[2]]
    BY DEF Selected
  <1>4. Matches(ts) \in SUBSET (Nat \X Nat)
    BY <1>2 DEF Matches
  <1>5. PICK i \in DOMAIN Patterns, g \in DOMAIN ts :
          /\ First(Matches(ts)) = <<i, g>> /\ ts[g] \in Patterns[i]
    <2>1. First(Matches(ts)) \in Matches(ts)
      BY <1>3, <1>4, FirstMatch
    <2>2. PICK m : m = First(Matches(ts)) /\ m \in Matches(ts)
      BY <2>1
    <2>3. m \in (DOMAIN Patterns) \X (DOMAIN ts) /\ ts[m[2]] \in Patterns[m[1]]
      BY <2>2 DEF Matches
    <2> QED BY <2>2, <2>3
  <1>6. \A h \in DOMAIN Patterns, k \in DOMAIN ts :
          ts[k] \in Patterns[h] => i < h \/ (i = h /\ g <= k)
    <2> SUFFICES ASSUME NEW h \in DOMAIN Patterns, NEW k \in DOMAIN ts, ts[k] \in Patterns[h]
                 PROVE  i < h \/ (i = h /\ g <= k)
      OBVIOUS
    <2>1. <<h, k>> \in Matches(ts)
      BY DEF Matches
    <2>2. PICK S : S = Matches(ts)
      OBVIOUS
    <2>3. S # {} /\ S \in SUBSET (Nat \X Nat) /\ <<h, k>> \in S /\ First(S) = <<i, g>>
      BY <1>3, <1>4, <1>5, <2>1, <2>2
    <2>4. First(S)[1] < h \/ (First(S)[1] = h /\ First(S)[2] <= k)
      BY <2>3, FirstMatch
    <2> QED BY <2>3, <2>4
  <1>7. f[g] \in Kept(all) /\ Selected(ts) = all[f[g]] /\ all[f[g]] \in Patterns[i]
    BY <1>1, <1>2, <1>3, <1>5 DEF Kept
  <1>8. ASSUME NEW k \in Kept(all)
        PROVE  /\ \A h \in 1 .. i - 1 : all[k] \notin Patterns[h]
               /\ k < f[g] => all[k] \notin Patterns[i]
    <2>1. PICK q \in DOMAIN ts : f[q] = k /\ ts[q] = all[k]
      <3>1. k \in 1 .. Len(all) /\ all[k] \notin TooLong
        BY DEF Kept
      <3>2. PICK q \in 1 .. Len(ts) : f[q] = k
        BY <1>1, <3>1
      <3>3. DOMAIN ts = 1 .. Len(ts) /\ ts[q] = all[k]
        BY <1>1, <1>2, <3>2
      <3> QED BY <3>2, <3>3
    <2>2. ASSUME NEW h \in 1 .. i - 1 PROVE all[k] \notin Patterns[h]
      <3>1. h \in DOMAIN Patterns /\ h < i
        BY <1>2
      <3> QED BY <1>2, <1>6, <2>1, <3>1
    <2>3. ASSUME k < f[g] PROVE all[k] \notin Patterns[i]
      <3>1. q < g
        <4>1. g < q => f[g] < f[q]
          BY <1>1, <1>2
        <4>2. g \in Nat /\ q \in Nat /\ f[g] \in Nat /\ f[q] \in Nat
          BY <1>1, <1>2
        <4>3. f[q] < f[g]
          BY <2>1, <2>3
        <4>4. g # q
          BY <4>2, <4>3
        <4>5. ~(g < q)
          BY <4>1, <4>2, <4>3
        <4> QED BY <4>2, <4>4, <4>5
      <3> QED BY SMTT(20), <1>2, <1>6, <2>1, <3>1
    <2> QED BY <2>2, <2>3
  <1> QED BY <1>7, <1>8 DEF BestOf

\* A list without the hint is of a source that offers none cclipd sees.
LEMMA HintIsSeen ==
  ASSUME NEW o \in Announced, NEW ts, Collected(ts, o, Len(offers[o].types)),
         offers[o].types \in Seq(Type), ~HasHint(ts)
  PROVE  ~TellsSecret(offers[o])
  <1> DEFINE all == offers[o].types
  <1>1. PICK f \in [1 .. Len(ts) -> 1 .. Len(all)] :
          /\ \A j \in 1 .. Len(ts) : ts[j] = all[f[j]]
          /\ \A m \in 1 .. Len(all) : all[m] \notin TooLong => \E j \in 1 .. Len(ts) : f[j] = m
    BY DEF Collected
  <1>2. DOMAIN ts = 1 .. Len(ts) /\ DOMAIN all = 1 .. Len(all)
    BY DEF Collected
  <1>3. ASSUME NEW k \in Kept(all), all[k] = HintType PROVE FALSE
    <2>1. k \in 1 .. Len(all) /\ all[k] \notin TooLong
      BY <1>2 DEF Kept
    <2>2. PICK q \in 1 .. Len(ts) : f[q] = k
      BY <1>1, <2>1
    <2> QED BY <1>1, <1>2, <1>3, <2>2 DEF HasHint
  <1> QED BY <1>3 DEF TellsSecret
-------------------------------------------------------------------------------
(* The steps, and what each of them leaves alone.                              *)

\* A step that is not of the compositor or one of its events changes neither what is
\* announced nor what is known of the offer at hand.
LEMMA Frames ==
  ASSUME Next \/ UNCHANGED vars
  PROVE  \/ UNCHANGED <<wire, offers, device>>
         \/ Announce \/ Clear \/ WaylandStep
  BY DEF Next, MainStep, Environment, LoopStep, Run, PipeStep, ReadPipe, Finish, PipeFails, OnPipe,
         Signalled, Write, CloseEnd, Halt, vars

\* g is f, a function on 1 .. n, with x as its value at n + 1.
Extends(g, f, n, x, S) == /\ g \in [1 .. n + 1 -> S]
                          /\ g[n + 1] = x /\ \A i \in 1 .. n : g[i] = f[i]

\* Append, for functions on 1 .. n.
LEMMA Appended ==
  ASSUME NEW S, NEW n \in Nat, NEW f \in [1 .. n -> S], NEW x \in S
  PROVE  Extends(Append(f, x), f, n, x, S)
  <1>1. f \in Seq(S) /\ Len(f) = n
    OBVIOUS
  <1>2. /\ Append(f, x) \in Seq(S) /\ Len(Append(f, x)) = n + 1
        /\ \A i \in 1 .. n : Append(f, x)[i] = f[i]
        /\ Append(f, x)[n + 1] = x
    BY <1>1, AppendProperties
  <1>3. Append(f, x) \in [1 .. Len(Append(f, x)) -> S]
    BY <1>2, LenProperties
  <1> QED BY <1>2, <1>3 DEF Extends

\* The type of an event.
LEMMA EventType ==
  ASSUME NEW kind \in Kinds, NEW o \in Nat, NEW t \in Type \cup {None}
  PROVE  /\ Event(kind, o, t) \in Events
         /\ Event(kind, o, t).kind = kind /\ Event(kind, o, t).offer = o /\ Event(kind, o, t).type = t
  BY DEF Event, Events

\* receive_offer asks for one of the types it was given, or for none.
LEMMA SelectedType ==
  ASSUME NEW ts \in Seq(Type \cup {None})
  PROVE  Selected(ts) \in Type \cup {None}
  <1>1. CASE Matches(ts) = {}
    BY <1>1 DEF Selected
  <1>2. CASE Matches(ts) # {}
    <2>1. Matches(ts) \in SUBSET (Nat \X Nat)
      BY SelectionAssumption DEF Matches
    <2>2. First(Matches(ts)) \in Matches(ts)
      BY <1>2, <2>1, FirstMatch
    <2>3. PICK m : m = First(Matches(ts)) /\ m \in Matches(ts)
      BY <2>2
    <2>4. ts[m[2]] \in Patterns[m[1]] /\ m[1] \in DOMAIN Patterns
      BY <2>3 DEF Matches
    <2>5. Patterns[m[1]] \subseteq Type
      BY <2>4, SelectionAssumption
    <2> QED BY <1>2, <2>3, <2>4, <2>5 DEF Selected
  <1> QED BY <1>1, <1>2

\* Announce adds one offer, and leaves the others as they were.
LEMMA AnnounceShape ==
  ASSUME Shape, Announce
  PROVE  /\ Shape'
         /\ Announced' = 1 .. Len(offers) + 1 /\ Announced = 1 .. Len(offers)
         /\ \A o \in Announced : /\ offers'[o] = offers[o] /\ transfer'[o] = transfer[o]
                                 /\ chosen'[o] = chosen[o] /\ sent'[o] = sent[o]
                                 /\ closed'[o] = closed[o] /\ got'[o] = got[o]
         /\ transfer'[Len(offers) + 1] = "none" /\ sent'[Len(offers) + 1] = 0
         /\ closed'[Len(offers) + 1] = FALSE /\ got'[Len(offers) + 1] = 0
  <1> DEFINE o == Len(offers) + 1
  <1>1. PICK s \in Source :
          /\ offers' = Append(offers, s)
          /\ wire' = wire \o <<Event("data_offer", o, None)>>
                          \o [j \in DOMAIN s.types |-> Event("type", o, s.types[j])]
                          \o <<Event(IF s.primary THEN "primary" ELSE "selection", o, None)>>
    BY DEF Announce
  <1>2. offers \in Seq(Source) /\ o \in Nat /\ Announced = 1 .. Len(offers)
    BY DEF Shape, Announced
  <1>3. /\ offers' \in Seq(Source) /\ Announced' = 1 .. o
        /\ \A x \in Announced : offers'[x] = offers[x]
    BY <1>1, <1>2 DEF Announced
  <1>4. wire' \in Seq(Events)
    <2>1. s.types \in Seq(Type)
      BY SelectionAssumption
    <2>2. [j \in DOMAIN s.types |-> Event("type", o, s.types[j])] \in Seq(Events)
      <3>1. \A j \in 1 .. Len(s.types) : Event("type", o, s.types[j]) \in Events
        <4> SUFFICES ASSUME NEW j \in 1 .. Len(s.types) PROVE Event("type", o, s.types[j]) \in Events
          OBVIOUS
        <4>1. s.types[j] \in Type \cup {None} /\ "type" \in Kinds
          BY <2>1 DEF Kinds
        <4> HIDE DEF o
        <4> QED BY <1>2, <4>1, EventType
      <3>2. DOMAIN s.types = 1 .. Len(s.types) /\ Len(s.types) \in Nat
        BY <2>1
      <3> QED BY <3>1, <3>2
    <2>3. /\ <<Event("data_offer", o, None)>> \in Seq(Events)
          /\ <<Event(IF s.primary THEN "primary" ELSE "selection", o, None)>> \in Seq(Events)
      <3> HIDE DEF o
      <3>1. None \in Type \cup {None} /\ {"data_offer", "primary", "selection"} \subseteq Kinds
        BY DEF Kinds
      <3>2. Event("data_offer", o, None) \in Events
        BY <1>2, <3>1, EventType
      <3>3. Event(IF s.primary THEN "primary" ELSE "selection", o, None) \in Events
        BY <1>2, <3>1, EventType
      <3> QED BY <3>2, <3>3
    <2>4. wire \in Seq(Events)
      BY DEF Shape
    <2> QED BY <1>1, <2>2, <2>3, <2>4
  <1>5. /\ transfer' \in [Announced' -> {"none", "open", "queued", "dropped"}]
        /\ \A x \in Announced : transfer'[x] = transfer[x]
        /\ transfer'[o] = "none"
    <2>1. transfer' = Append(transfer, "none") /\ transfer \in [1 .. Len(offers) -> {"none", "open", "queued", "dropped"}]
      BY <1>2 DEF Announce, Shape
    <2>2. Len(offers) \in Nat /\ "none" \in {"none", "open", "queued", "dropped"}
      BY <1>2
    <2>3. Extends(transfer', transfer, Len(offers), "none", {"none", "open", "queued", "dropped"})
      BY <2>1, <2>2, Appended, Zenon
    <2> QED BY <1>2, <1>3, <2>3 DEF Extends
  <1>6. /\ chosen' \in [Announced' -> Type \cup {None}]
        /\ \A x \in Announced : chosen'[x] = chosen[x]
    <2>1. chosen' = Append(chosen, None) /\ chosen \in [1 .. Len(offers) -> Type \cup {None}]
      BY <1>2 DEF Announce, Shape
    <2>2. Len(offers) \in Nat /\ None \in Type \cup {None}
      BY <1>2
    <2>3. Extends(chosen', chosen, Len(offers), None, Type \cup {None})
      BY <2>1, <2>2, Appended, Zenon
    <2> QED BY <1>2, <1>3, <2>3 DEF Extends
  <1>7. /\ sent' \in [Announced' -> Nat] /\ sent'[o] = 0
        /\ \A x \in Announced : sent'[x] = sent[x]
    <2>1. sent' = Append(sent, 0) /\ sent \in [1 .. Len(offers) -> Nat]
      BY <1>2 DEF Announce, Shape
    <2>2. Len(offers) \in Nat /\ 0 \in Nat
      BY <1>2
    <2>3. Extends(sent', sent, Len(offers), 0, Nat)
      BY <2>1, <2>2, Appended, Zenon
    <2> QED BY <1>2, <1>3, <2>3 DEF Extends
  <1>8. /\ closed' \in [Announced' -> BOOLEAN] /\ closed'[o] = FALSE
        /\ \A x \in Announced : closed'[x] = closed[x]
    <2>1. closed' = Append(closed, FALSE) /\ closed \in [1 .. Len(offers) -> BOOLEAN]
      BY <1>2 DEF Announce, Shape
    <2>2. Len(offers) \in Nat /\ FALSE \in BOOLEAN
      BY <1>2
    <2>3. Extends(closed', closed, Len(offers), FALSE, BOOLEAN)
      BY <2>1, <2>2, Appended, Zenon
    <2> QED BY <1>2, <1>3, <2>3 DEF Extends
  <1>9. /\ got' \in [Announced' -> Nat] /\ got'[o] = 0
        /\ \A x \in Announced : got'[x] = got[x]
    <2>1. got' = Append(got, 0) /\ got \in [1 .. Len(offers) -> Nat]
      BY <1>2 DEF Announce, Shape
    <2>2. Len(offers) \in Nat /\ 0 \in Nat
      BY <1>2
    <2>3. Extends(got', got, Len(offers), 0, Nat)
      BY <2>1, <2>2, Appended, Zenon
    <2> QED BY <1>2, <1>3, <2>3 DEF Extends
  <1>10. types' \in Seq(Type \cup {None})
    BY DEF Announce, device, Shape
  <1>11. queued' \in Seq([offer : Announced', type : Type \cup {None}, size : Nat])
    <2>1. queued' = queued /\ queued \in Seq([offer : Announced, type : Type \cup {None}, size : Nat])
      BY DEF Announce, Shape
    <2>2. [offer : Announced, type : Type \cup {None}, size : Nat]
            \subseteq [offer : Announced', type : Type \cup {None}, size : Nat]
      BY <1>2, <1>3
    <2> QED BY <2>1, <2>2, SeqMonotonic
  <1>13. Shape'
    BY <1>3, <1>5, <1>6, <1>7, <1>8, <1>9, <1>10, <1>11, <1>4 DEF Shape
  <1> QED BY <1>2, <1>3, <1>5, <1>6, <1>7, <1>8, <1>9, <1>13

\* r is w, then a, then c, then z.
Parts(r, w, a, c, z) ==
  /\ Len(r) = Len(w) + Len(c) + 2
  /\ \A i \in 1 .. Len(w) : r[i] = w[i]
  /\ r[Len(w) + 1] = a
  /\ \A j \in 1 .. Len(c) : r[Len(w) + 1 + j] = c[j]
  /\ r[Len(w) + Len(c) + 2] = z

\* What a concatenation consists of.
LEMMA Concatenated ==
  ASSUME NEW S, NEW w \in Seq(S), NEW c \in Seq(S), NEW a \in S, NEW z \in S
  PROVE  Parts(w \o <<a>> \o c \o <<z>>, w, a, c, z)
  <1>1. <<a>> \in Seq(S) /\ Len(<<a>>) = 1 /\ <<a>>[1] = a /\ <<z>> \in Seq(S) /\ Len(<<z>>) = 1 /\ <<z>>[1] = z
    OBVIOUS
  <1>2. Len(w) \in Nat /\ Len(c) \in Nat
    OBVIOUS
  <1>3. PICK x : x = w \o <<a>>
    OBVIOUS
  <1>4. /\ x \in Seq(S) /\ Len(x) = Len(w) + 1
        /\ \A i \in 1 .. Len(w) + 1 : x[i] = IF i <= Len(w) THEN w[i] ELSE <<a>>[i - Len(w)]
    BY <1>1, <1>3, ConcatProperties
  <1>5. PICK y : y = x \o c
    OBVIOUS
  <1>6. /\ y \in Seq(S) /\ Len(y) = Len(x) + Len(c)
        /\ \A i \in 1 .. Len(x) + Len(c) : y[i] = IF i <= Len(x) THEN x[i] ELSE c[i - Len(x)]
    BY <1>4, <1>5, ConcatProperties
  <1>7. PICK r : r = y \o <<z>>
    OBVIOUS
  <1>8. /\ Len(r) = Len(y) + 1
        /\ \A i \in 1 .. Len(y) + 1 : r[i] = IF i <= Len(y) THEN y[i] ELSE <<z>>[i - Len(y)]
    <2>1. y \in Seq(S) /\ <<z>> \in Seq(S) /\ Len(<<z>>) = 1
      BY <1>1, <1>6
    <2> QED BY <1>7, <2>1, ConcatProperties
  <1>9. Parts(r, w, a, c, z)
    <2>1. Len(r) = Len(w) + Len(c) + 2 /\ Len(y) = Len(w) + Len(c) + 1
      BY <1>2, <1>4, <1>6, <1>8
    <2>2. \A i \in 1 .. Len(w) : r[i] = w[i]
      BY <1>2, <1>4, <1>6, <1>8
    <2>3. r[Len(w) + 1] = a
      <3>1. x[Len(w) + 1] = a
        <4>1. Len(w) + 1 \in 1 .. Len(w) + 1 /\ ~(Len(w) + 1 <= Len(w)) /\ Len(w) + 1 - Len(w) = 1
          BY <1>2
        <4> QED BY <1>1, <1>4, <4>1
      <3>2. Len(w) + 1 \in 1 .. Len(x) + Len(c) /\ Len(w) + 1 <= Len(x)
        BY <1>2, <1>4
      <3>3. y[Len(w) + 1] = a
        BY <1>6, <3>1, <3>2
      <3> QED BY <1>6, <1>8, <3>2, <3>3
    <2>4. \A j \in 1 .. Len(c) : r[Len(w) + 1 + j] = c[j]
      <3> SUFFICES ASSUME NEW j \in 1 .. Len(c) PROVE r[Len(w) + 1 + j] = c[j]
        OBVIOUS
      <3>1. Len(w) + 1 + j \in 1 .. Len(x) + Len(c) /\ ~(Len(w) + 1 + j <= Len(x)) /\ Len(w) + 1 + j - Len(x) = j
        BY <1>2, <1>4
      <3>2. y[Len(w) + 1 + j] = c[j]
        BY <1>6, <3>1
      <3> QED BY <1>6, <1>8, <3>1, <3>2
    <2>5. r[Len(w) + Len(c) + 2] = z
      <3>1. r[Len(y) + 1] = <<z>>[1]
        <4>1. Len(y) + 1 \in 1 .. Len(y) + 1 /\ ~(Len(y) + 1 <= Len(y)) /\ Len(y) + 1 - Len(y) = 1
          BY <1>2, <2>1
        <4> QED BY <1>8, <4>1
      <3>2. Len(y) + 1 = Len(w) + Len(c) + 2
        BY <1>2, <2>1
      <3> QED BY <1>1, <3>1, <3>2
    <2> QED BY <2>1, <2>2, <2>3, <2>4, <2>5 DEF Parts
  <1> QED BY <1>3, <1>5, <1>7, <1>9

\* The events of an announcement follow those on the wire.
LEMMA AnnounceWire ==
  ASSUME Shape, Announce, NEW o, o = Len(offers) + 1
  PROVE  /\ Len(wire') = Len(wire) + Last(o)' + 1 /\ Last(o)' \in Nat \ {0}
         /\ \A i \in 1 .. Len(wire) : wire'[i] = wire[i]
         /\ \A k \in 0 .. Last(o)' : wire'[Len(wire) + 1 + k] = Burst(o, k)'
  <1>1. PICK s \in Source :
          /\ offers' = Append(offers, s)
          /\ wire' = wire \o <<Event("data_offer", o, None)>>
                          \o [j \in DOMAIN s.types |-> Event("type", o, s.types[j])]
                          \o <<Event(IF s.primary THEN "primary" ELSE "selection", o, None)>>
    BY DEF Announce
  <1>2. /\ offers \in Seq(Source) /\ o \in Nat \ {0} /\ wire \in Seq(Events)
        /\ s.types \in Seq(Type) /\ Len(s.types) \in Nat /\ DOMAIN s.types = 1 .. Len(s.types)
    BY SelectionAssumption DEF Shape
  <1>3. offers'[o] = s
    BY <1>1, <1>2
  <1>4. Last(o)' = Len(s.types) + 1
    BY <1>2, <1>3 DEF Last, None
  <1>5. PICK a, c, z : /\ a = Event("data_offer", o, None)
                       /\ c = [j \in DOMAIN s.types |-> Event("type", o, s.types[j])]
                       /\ z = Event(IF s.primary THEN "primary" ELSE "selection", o, None)
    OBVIOUS
  <1>6. c \in Seq(Events) /\ Len(c) = Len(s.types) /\ a \in Events /\ z \in Events
    <2>1. \A j \in 1 .. Len(s.types) : Event("type", o, s.types[j]) \in Events
      BY <1>2, EventType DEF Kinds
    <2>2. None \in Type \cup {None} /\ {"data_offer", "primary", "selection"} \subseteq Kinds
      BY DEF Kinds
    <2> QED BY <1>2, <1>5, <2>1, <2>2, EventType
  <1>7. Parts(wire', wire, a, c, z)
    <2>1. wire' = wire \o <<a>> \o c \o <<z>>
      BY <1>1, <1>5
    <2> QED BY <1>2, <1>6, <2>1, Concatenated, Zenon
  <1>8. ASSUME NEW k \in 0 .. Last(o)'
        PROVE  wire'[Len(wire) + 1 + k] = Burst(o, k)'
    <2>0. Len(wire) \in Nat
      BY <1>2
    <2>1. CASE k = 0
      BY <1>2, <1>5, <1>7, <2>0, <2>1 DEF Burst, Parts
    <2>2. CASE k = Last(o)'
      <3>1. Burst(o, k)' = z /\ k = Len(s.types) + 1
        BY <1>2, <1>3, <1>4, <1>5, <2>2 DEF Burst
      <3>2. k = Len(c) + 1 /\ Len(c) \in Nat
        BY <1>2, <1>6, <3>1
      <3>3. Len(wire) + 1 + k = Len(wire) + Len(c) + 2
        BY <2>0, <3>2
      <3> QED BY <1>7, <3>1, <3>3 DEF Parts
    <2>3. CASE k # 0 /\ k # Last(o)'
      <3>1. k \in 1 .. Len(s.types) /\ Burst(o, k)' = Event("type", o, s.types[k])
        BY <1>2, <1>3, <1>4, <2>3 DEF Burst
      <3>2. c[k] = Event("type", o, s.types[k])
        BY <1>2, <1>5, <3>1
      <3> QED BY <1>6, <1>7, <3>1, <3>2 DEF Parts
    <2> QED BY <2>1, <2>2, <2>3
  <1>9. /\ Len(wire') = Len(wire) + Last(o)' + 1 /\ Last(o)' \in Nat \ {0}
        /\ \A i \in 1 .. Len(wire) : wire'[i] = wire[i]
    <2>1. Len(wire') = Len(wire) + Len(c) + 2 /\ \A i \in 1 .. Len(wire) : wire'[i] = wire[i]
      BY <1>7 DEF Parts
    <2>2. Len(wire) \in Nat /\ Len(c) = Len(s.types) /\ Len(s.types) \in Nat
      BY <1>2, <1>6
    <2> QED BY <1>4, <2>1, <2>2
  <1> QED BY <1>8, <1>9, Zenon

\* Dispatch takes the first event off the wire.
LEMMA Dispatched ==
  ASSUME Shape, TypeOK, NEW kind, Dispatch(kind)
  PROVE  /\ loop = "run" /\ main = "loop"
         /\ Len(wire) \in Nat \ {0} /\ Head(wire) = wire[1] /\ wire[1] \in Events /\ wire[1].kind = kind
         /\ wire' \in Seq(Events) /\ Len(wire') = Len(wire) - 1
         /\ \A i \in 1 .. Len(wire) - 1 : wire'[i] = wire[i + 1]
         /\ left' \in 0 .. Len(wire')
         /\ wire' # wire
  <1>1. wire \in Seq(Events) /\ wire # << >> /\ wire' = Tail(wire)
    BY DEF Shape, Dispatch
  <1>2. /\ Len(wire) \in Nat \ {0} /\ Head(wire) = wire[1] /\ wire[1] \in Events
        /\ wire' \in Seq(Events) /\ Len(wire') = Len(wire) - 1
        /\ \A i \in 1 .. Len(wire) - 1 : wire'[i] = wire[i + 1]
    <2>1. Len(wire) \in Nat \ {0}
      BY <1>1, EmptySeq
    <2>2. Head(wire) = wire[1] /\ wire[1] \in Events
      BY <1>1, <2>1
    <2>3. /\ wire' \in Seq(Events) /\ Len(wire') = Len(wire) - 1
          /\ \A i \in 1 .. Len(wire) - 1 : wire'[i] = wire[i + 1]
      BY <1>1, <2>1, HeadTailProperties
    <2> QED BY <2>1, <2>2, <2>3
  <1>3. left' \in 0 .. Len(wire')
    <2>1. PICK n \in IF left = 0 THEN 1 .. Len(wire) ELSE {left} : left' = n - 1
      BY DEF Dispatch
    <2>2. left \in 0 .. Len(wire)
      BY DEF TypeOK
    <2>3. CASE left = 0
      BY <1>2, <2>1, <2>3
    <2>4. CASE left # 0
      BY <1>2, <2>1, <2>2, <2>4
    <2> QED BY <2>3, <2>4
  <1>4. wire' # wire
    <2>1. Len(wire') # Len(wire)
      BY <1>2
    <2> QED BY <2>1
  <1> QED BY <1>2, <1>3, <1>4 DEF Dispatch

\* receive_offer changes the transfer of the offer at hand only.
LEMMA Received ==
  ASSUME Shape, current \in Announced, UNCHANGED offers, Receive
  PROVE  /\ transfer' \in [Announced' -> {"none", "open", "queued", "dropped"}]
         /\ chosen' \in [Announced' -> Type \cup {None}]
         /\ \A o \in Announced \ {current} : transfer'[o] = transfer[o] /\ chosen'[o] = chosen[o]
         /\ \/ /\ transfer'[current] = "open" /\ chosen'[current] = Selected(types)
               /\ sources' = sources \cup {Pipe(current)}
            \/ transfer'[current] = "dropped" /\ UNCHANGED <<chosen, sources>>
  <1>1. Selected(types) \in Type \cup {None}
    BY SelectedType DEF Shape
  <1>2. /\ transfer \in [Announced -> {"none", "open", "queued", "dropped"}]
        /\ chosen \in [Announced -> Type \cup {None}] /\ Announced' = Announced
    BY DEF Shape, Announced
  <1> QED BY <1>1, <1>2 DEF Receive

\* The handlers of events keep the types.
LEMMA WaylandShape ==
  ASSUME Shape, TypeOK, Asking, WaylandStep
  PROVE  Shape'
  <1>1. offers' = offers /\ Announced' = Announced
    BY DEF WaylandStep, DataOffer, MimeType, Finished, Lost, ReadHint, Skip, Take, Announced
  <1>2. sent' = sent /\ closed' = closed /\ got' = got /\ queued' = queued
    BY DEF WaylandStep, DataOffer, MimeType, Finished, Lost, ReadHint, Skip, Take, pipes
  <1>3. wire' \in Seq(Events)
    <2>1. CASE ReadHint
      BY <2>1 DEF ReadHint, Shape
    <2>2. CASE \E kind : Dispatch(kind)
      BY <2>2, Dispatched
    <2> QED BY <2>1, <2>2 DEF WaylandStep, DataOffer, MimeType, Finished, Lost, Skip, Take
  <1>4. types' \in Seq(Type \cup {None})
    <2>1. CASE MimeType
      <3>1. Head(wire) \in Events /\ types \in Seq(Type \cup {None})
        BY <2>1, Dispatched DEF MimeType, Shape
      <3>2. Head(wire).type \in Type \cup {None}
        BY <3>1 DEF Events
      <3> QED BY <2>1, <3>1, <3>2 DEF MimeType
    <2>2. CASE DataOffer
      BY <2>2 DEF DataOffer
    <2>3. CASE UNCHANGED types
      BY <2>3 DEF Shape
    <2> QED BY <2>1, <2>2, <2>3 DEF WaylandStep, Finished, Lost, ReadHint, Skip, Take
  <1>5. /\ transfer' \in [Announced' -> {"none", "open", "queued", "dropped"}]
        /\ chosen' \in [Announced' -> Type \cup {None}]
    <2>1. CASE UNCHANGED <<transfer, chosen>>
      BY <1>1, <2>1 DEF Shape
    <2>2. CASE Receive /\ current # None
      BY <1>1, <2>2, Received DEF TypeOK
    <2>3. CASE ReadHint
      <3>1. current # None
        BY <2>3 DEF ReadHint, Asking, Announced, None, TypeOK, Shape
      <3> QED BY <2>1, <2>2, <2>3, <3>1 DEF ReadHint, pipes
    <2>4. ASSUME NEW kind, Take(kind) PROVE current # None /\ (Receive \/ UNCHANGED <<transfer, chosen>>)
      BY <2>4 DEF Take, Wanted, pipes
    <2> QED BY <2>1, <2>2, <2>3, <2>4 DEF WaylandStep, DataOffer, MimeType, Finished, Lost, Skip, pipes
  <1>6. queued' \in Seq([offer : Announced', type : Type \cup {None}, size : Nat])
    BY <1>1, <1>2 DEF Shape
  <1> QED BY <1>1, <1>2, <1>3, <1>4, <1>5, <1>6 DEF Shape

\* on_pipe_ready: what one callback changes of its transfer and the queue.
LEMMA PipeShape ==
  ASSUME Shape, NEW o \in Announced, PipeStep(o)
  PROVE  /\ Shape'
         /\ Announced' = Announced /\ sent' = sent /\ closed' = closed /\ chosen' = chosen
         /\ got'[o] \in {got[o], sent[o]}
         /\ \A x \in Announced \ {o} : got'[x] = got[x] /\ transfer'[x] = transfer[x]
         /\ \/ UNCHANGED <<transfer, queued>>
            \/ transfer'[o] = "dropped" /\ UNCHANGED queued
            \/ /\ \E e \in batch : e.source = Pipe(o) /\ e.hup
               /\ transfer'[o] = "queued"
               /\ queued' = Append(queued, [offer |-> o, type |-> chosen[o], size |-> sent[o]])
               /\ sent[o] >= MinSize
  <1>1. PICK e \in batch : ReadPipe(o, e) \/ Finish(o, e) \/ PipeFails(o, e)
    BY DEF PipeStep
  <1>2. OnPipe(o, e) /\ e.source = Pipe(o)
    BY <1>1 DEF ReadPipe, Finish, PipeFails, OnPipe
  <1>3. /\ offers' = offers /\ wire' = wire /\ types' = types /\ Announced' = Announced
        /\ sent' = sent /\ closed' = closed /\ chosen' = chosen
    BY <1>2 DEF OnPipe, device, Announced
  <1>4. /\ got' \in [Announced -> Nat] /\ got'[o] \in {got[o], sent[o]}
        /\ \A x \in Announced \ {o} : got'[x] = got[x]
    BY <1>1 DEF ReadPipe, Finish, PipeFails, Shape
  <1>5. /\ transfer' \in [Announced -> {"none", "open", "queued", "dropped"}]
        /\ \A x \in Announced \ {o} : transfer'[x] = transfer[x]
    BY <1>1 DEF ReadPipe, Finish, PipeFails, Concluded, Shape
  <1>6. \/ UNCHANGED <<transfer, queued>>
        \/ transfer'[o] = "dropped" /\ UNCHANGED queued
        \/ /\ e.hup
           /\ transfer'[o] = "queued"
           /\ queued' = Append(queued, [offer |-> o, type |-> chosen[o], size |-> sent[o]])
           /\ sent[o] >= MinSize
    <2>1. CASE ReadPipe(o, e)
      BY <2>1 DEF ReadPipe
    <2>2. CASE PipeFails(o, e)
      BY <2>2 DEF PipeFails, Shape
    <2>3. CASE Finish(o, e)
      <3>1. got'[o] = sent[o] /\ sent[o] \in Nat /\ MinSize \in Nat /\ e.hup
        BY <2>3, SelectionAssumption DEF Finish, Shape
      <3>2. CASE got'[o] = 0 \/ got'[o] < MinSize
        BY <2>3, <3>2 DEF Finish, Concluded, Shape
      <3>3. CASE ~(got'[o] = 0 \/ got'[o] < MinSize)
        BY <2>3, <3>1, <3>3 DEF Finish, Concluded, Shape
      <3> QED BY <3>2, <3>3
    <2> QED BY <1>1, <2>1, <2>2, <2>3
  <1>7. queued' \in Seq([offer : Announced, type : Type \cup {None}, size : Nat])
    <2> DEFINE Q == [offer : Announced, type : Type \cup {None}, size : Nat]
               q == [offer |-> o, type |-> chosen[o], size |-> sent[o]]
    <2>1. q \in Q
      BY DEF Shape
    <2>2. queued \in Seq(Q)
      BY DEF Shape
    <2>3. queued' = queued \/ queued' = Append(queued, q)
      BY <1>6
    <2>4. queued' \in Seq(Q)
      <3> HIDE DEF Q, q
      <3> QED BY <2>1, <2>2, <2>3, AppendProperties
    <2> QED BY <2>4
  <1>8. Shape'
    BY <1>3, <1>4, <1>5, <1>7 DEF Shape
  <1> QED BY <1>2, <1>3, <1>4, <1>5, <1>6, <1>8

\* A source writes to its own pipe and closes it once.
LEMMA SourceShape ==
  ASSUME Shape, TypeOK, NEW o \in Announced, Write(o) \/ CloseEnd(o)
  PROVE  /\ Shape'
         /\ Announced' = Announced /\ ~closed[o]
         /\ sent'[o] \in {sent[o], sent[o] + 1} /\ sent'[o] <= MaxBytes
         /\ \A x \in Announced \ {o} : sent'[x] = sent[x] /\ closed'[x] = closed[x]
         /\ UNCHANGED <<wire, offers, device, transfer, chosen, got, queued, loopVars>>
  <1>1. Announced' = Announced /\ UNCHANGED <<wire, offers, device, transfer, chosen, got, queued, loopVars>>
    BY DEF Write, CloseEnd, Announced
  <1>2. /\ sent' \in [Announced -> Nat] /\ closed' \in [Announced -> BOOLEAN] /\ ~closed[o]
        /\ sent'[o] \in {sent[o], sent[o] + 1} /\ sent'[o] <= MaxBytes
        /\ \A x \in Announced \ {o} : sent'[x] = sent[x] /\ closed'[x] = closed[x]
    <2>1. /\ sent \in [Announced -> Nat] /\ closed \in [Announced -> BOOLEAN]
          /\ sent[o] <= MaxBytes /\ MaxBytes \in Nat
      BY SelectionAssumption DEF Shape, TypeOK
    <2>2. CASE Write(o)
      BY <2>1, <2>2 DEF Write
    <2>3. CASE CloseEnd(o)
      BY <2>1, <2>3 DEF CloseEnd
    <2> QED BY <2>2, <2>3
  <1> QED BY <1>1, <1>2 DEF Shape, device

\* The steps of the loop itself leave what the callbacks keep alone.
LEMMA LoopFrames ==
  ASSUME LoopStep \/ Run \/ Signalled \/ Halt \/ UNCHANGED vars
  PROVE  UNCHANGED <<wire, offers, device, pipes, queued>> /\ Announced' = Announced
  BY DEF LoopStep, Run, Signalled, Halt, vars, Announced

\* The cases of a step.
LEMMA StepCases ==
  ASSUME Next \/ UNCHANGED vars
  PROVE  \/ LoopStep \/ Run \/ Signalled \/ Halt \/ UNCHANGED vars
         \/ Announce \/ Clear \/ WaylandStep
         \/ \E o \in Announced : PipeStep(o)
         \/ \E o \in Announced : Write(o) \/ CloseEnd(o)
  BY DEF Next, MainStep, Environment

\* Every step keeps the types of the events, the transfers and the queue.
LEMMA ShapeStep ==
  ASSUME Shape, TypeOK, Asking, Next \/ UNCHANGED vars
  PROVE  Shape'
  <1>1. CASE LoopStep \/ Run \/ Signalled \/ Halt \/ UNCHANGED vars
    BY <1>1, LoopFrames DEF Shape, device, pipes
  <1>2. CASE Announce
    BY <1>2, AnnounceShape
  <1>3. CASE Clear
    <2>1. wire' \in Seq(Events)
      <3>1. PICK kind \in {"selection", "primary", "finished", "lost"} : wire' = <<Event(kind, None, None)>>
        BY <1>3 DEF Clear
      <3>2. kind \in Kinds /\ None \in Nat /\ None \in Type \cup {None}
        BY DEF Kinds, None
      <3>3. Event(kind, None, None) \in Events
        BY <3>2, EventType
      <3> QED BY <3>1, <3>3
    <2>2. Announced' = Announced /\ UNCHANGED <<offers, device, pipes, queued>>
      BY <1>3 DEF Clear, Announced
    <2> QED BY <2>1, <2>2 DEF Shape, device, pipes
  <1>4. CASE WaylandStep
    BY <1>4, WaylandShape
  <1>5. CASE \E o \in Announced : PipeStep(o)
    BY <1>5, PipeShape
  <1>6. CASE \E o \in Announced : Write(o) \/ CloseEnd(o)
    BY <1>6, SourceShape
  <1> QED BY <1>1, <1>2, <1>3, <1>4, <1>5, <1>6, StepCases

-------------------------------------------------------------------------------
(* The batch.                                                                  *)

\* The descriptors are told apart.
LEMMA Descriptors ==
  /\ Wayland # SignalSource
  /\ \A o, x : Pipe(o) # Wayland /\ Pipe(o) # SignalSource /\ (Pipe(o) = Pipe(x) => o = x)
  BY DEF Wayland, SignalSource, Pipe

\* epoll_wait finds finitely many descriptors.
LEMMA EventsFinite ==
  ASSUME Shape
  PROVE  IsFiniteSet(Ready \cup SignalReady)
  <1> DEFINE P == {p \in Announced : Pipe(p) \in sources /\ (sent[p] > got[p] \/ closed[p])}
             Q == {[source |-> Pipe(o), hup |-> closed[o]] : o \in P}
             W == {[source |-> s, hup |-> FALSE] : s \in {Wayland} \cap sources \cap
                                                   IF wire = << >> THEN {} ELSE {Wayland}}
             one(s) == [source |-> s, hup |-> FALSE]
  <1>1. IsFiniteSet(P)
    <2>1. IsFiniteSet(1 .. Len(offers)) /\ Announced = 1 .. Len(offers)
      BY FS_Interval DEF Shape, Announced
    <2> QED BY <2>1, FS_Subset
  <1>2. IsFiniteSet(Q)
    <2>1. [o \in P |-> [source |-> Pipe(o), hup |-> closed[o]]] \in Surjection(P, Q)
      BY DEF Surjection
    <2> QED BY <1>1, <2>1, FS_Surjection
  <1>3. IsFiniteSet(W)
    <2>1. W \in SUBSET {one(Wayland)} /\ IsFiniteSet({one(Wayland)})
      BY FS_Singleton
    <2> QED BY <2>1, FS_Subset
  <1>4. IsFiniteSet(SignalReady)
    <2>1. SignalReady \in SUBSET {one(SignalSource)} /\ IsFiniteSet({one(SignalSource)})
      BY FS_Singleton DEF SignalReady
    <2> QED BY <2>1, FS_Subset
  <1>5. Ready = W \cup Q
    BY DEF Ready
  <1> QED BY <1>2, <1>3, <1>4, <1>5, FS_Union

\* What epoll_wait can return.
LEMMA ReadyEvents ==
  ASSUME Shape, NEW e \in Ready \cup SignalReady
  PROVE  /\ e = [source |-> e.source, hup |-> e.hup]
         /\ e.source \in sources /\ e.hup \in BOOLEAN
         /\ e.source \in {Wayland, SignalSource} => e.hup = FALSE
         /\ e.source \in {Wayland, SignalSource} \/ \E o \in Announced : e.source = Pipe(o) /\ e.hup = closed[o]
  <1>1. CASE e \in SignalReady
    <2>1. SignalSource \in sources /\ e = [source |-> SignalSource, hup |-> FALSE]
      BY <1>1 DEF SignalReady
    <2> QED BY <2>1
  <1>2. CASE e = [source |-> Wayland, hup |-> FALSE] /\ Wayland \in sources
    BY <1>2
  <1>3. CASE \E o \in Announced : Pipe(o) \in sources /\ e = [source |-> Pipe(o), hup |-> closed[o]]
    <2>1. PICK o \in Announced : Pipe(o) \in sources /\ e = [source |-> Pipe(o), hup |-> closed[o]]
      BY <1>3
    <2>2. e.source = Pipe(o) /\ e.hup = closed[o] /\ closed[o] \in BOOLEAN /\ e = [source |-> e.source, hup |-> e.hup]
      BY <2>1 DEF Shape
    <2>3. e.source \notin {Wayland, SignalSource}
      BY <2>2, Descriptors
    <2> QED BY <2>1, <2>2, <2>3
  <1> QED BY <1>1, <1>2, <1>3 DEF Ready

\* Fewer events, or more sources, offers and closed pipes.
LEMMA BatchKept ==
  ASSUME Batch, batch' \subseteq batch, \A e \in batch' : e.source \in sources',
         \A o \in Announced : closed[o] => closed'[o],
         sources' \subseteq {Wayland, SignalSource} \cup {Pipe(o) : o \in Announced'}
  PROVE  Batch'
  <1>1. IsFiniteSet(batch') /\ Cardinality(batch') <= MaxEvents
    <2>1. IsFiniteSet(batch) /\ Cardinality(batch) <= MaxEvents /\ MaxEvents \in Nat
      BY EventLoopAssumption DEF Batch
    <2>2. IsFiniteSet(batch') /\ Cardinality(batch') <= Cardinality(batch)
      BY <2>1, FS_Subset
    <2>3. Cardinality(batch') \in Nat /\ Cardinality(batch) \in Nat
      BY <2>1, <2>2, FS_CardinalityType
    <2> QED BY <2>1, <2>2, <2>3
  <1>2. ASSUME NEW e \in batch', NEW o \in Announced', e.source = Pipe(o), e.hup
        PROVE  closed'[o]
    <2>1. e \in batch /\ e.source \in sources
      BY DEF Batch
    <2>2. PICK x \in Announced : Pipe(o) = Pipe(x)
      BY <1>2, <2>1, Descriptors DEF Batch
    <2>3. o \in Announced
      BY <2>2, Descriptors
    <2> QED BY <1>2, <2>1, <2>3 DEF Batch
  <1> QED BY <1>1, <1>2 DEF Batch

\* epoll_wait.
LEMMA BatchWaited ==
  ASSUME Shape, Batch, EpollWait(Ready), UNCHANGED <<offers, closed>>
  PROVE  Batch'
  <1> DEFINE events == Ready \cup SignalReady
  <1>1. PICK b \in SUBSET events :
          /\ Cardinality(b) = IF Cardinality(events) < MaxEvents THEN Cardinality(events) ELSE MaxEvents
          /\ batch' = b
    BY DEF EpollWait
  <1>2. IsFiniteSet(batch') /\ Cardinality(batch') <= MaxEvents
    <2>1. IsFiniteSet(events) /\ MaxEvents \in Nat
      BY EventsFinite, EventLoopAssumption
    <2>2. Cardinality(events) \in Nat /\ IsFiniteSet(b)
      BY <2>1, FS_CardinalityType, FS_Subset
    <2> HIDE DEF events
    <2> QED BY <1>1, <2>1, <2>2
  <1>3. sources' = sources /\ Announced' = Announced /\ closed' = closed
    BY DEF EpollWait, Announced
  <1>4. \A e \in batch' : e.source \in sources' /\ e.hup \in BOOLEAN
    BY <1>1, <1>3, ReadyEvents
  <1>5. ASSUME NEW e \in batch', NEW f \in batch', e.source = f.source
        PROVE  e = f
    <2>1. e.hup = f.hup
      <3>1. e \in Ready \cup SignalReady /\ f \in Ready \cup SignalReady
        BY <1>1
      <3>2. CASE e.source \in {Wayland, SignalSource}
        BY <1>5, <3>1, <3>2, ReadyEvents
      <3>3. CASE e.source \notin {Wayland, SignalSource}
        <4>1. PICK o \in Announced : e.source = Pipe(o) /\ e.hup = closed[o]
          BY <3>1, <3>3, ReadyEvents
        <4>2. PICK x \in Announced : f.source = Pipe(x) /\ f.hup = closed[x]
          BY <1>5, <3>1, <3>3, ReadyEvents
        <4>3. o = x
          BY <1>5, <4>1, <4>2, Descriptors
        <4> QED BY <4>1, <4>2, <4>3
      <3> QED BY <3>2, <3>3
    <2>2. e = [source |-> e.source, hup |-> e.hup] /\ f = [source |-> f.source, hup |-> f.hup]
      BY <1>1, ReadyEvents
    <2> QED BY <1>5, <2>1, <2>2
  <1>6. ASSUME NEW e \in batch', NEW o \in Announced', e.source = Pipe(o), e.hup
        PROVE  closed'[o]
    BY <1>1, <1>3, <1>6, ReadyEvents, Descriptors
  <1> QED BY <1>2, <1>3, <1>4, <1>5, <1>6 DEF Batch

\* Wayland events add at most the pipe of the offer at hand, and end at most their own
\* event.
LEMMA WaylandFrames ==
  ASSUME Shape, TypeOK, Asking, WaylandStep
  PROVE  /\ batch' \subseteq batch
         /\ sources' = sources \/ (current \in Announced /\ sources' = sources \cup {Pipe(current)})
         /\ UNCHANGED <<offers, sent, closed, got, queued, quit, signalVars, pending, counts>>
         /\ Announced' = Announced
         /\ loop = "run" /\ loop' \in {"run", "failed", "killed"}
  <1>1. /\ UNCHANGED <<offers, sent, closed, got, queued, quit, signalVars, pending, counts>>
        /\ loop = "run"
    BY DEF WaylandStep, DataOffer, MimeType, Finished, Lost, ReadHint, Skip, Take, pipes, Dispatch
  <1>2. batch' \subseteq batch /\ loop' \in {"run", "failed", "killed"}
    BY <1>1 DEF WaylandStep, DataOffer, MimeType, Finished, Lost, ReadHint, Skip, Take, Destroyed,
                Handled, Aborted, Failed, Returned
  <1>3. sources' = sources \/ (current \in Announced /\ sources' = sources \cup {Pipe(current)})
    <2>1. CASE UNCHANGED sources
      BY <2>1
    <2>2. CASE Receive /\ current # None
      BY <2>2 DEF Receive, TypeOK
    <2>3. CASE ReadHint
      <3>1. current # None
        BY <2>3 DEF ReadHint, Asking, Announced, None, TypeOK, Shape
      <3> QED BY <2>1, <2>2, <2>3, <3>1 DEF ReadHint
    <2>4. ASSUME NEW kind, Take(kind) PROVE current # None /\ (Receive \/ UNCHANGED sources)
      BY <2>4 DEF Take, Wanted
    <2> QED BY <2>1, <2>2, <2>3, <2>4 DEF WaylandStep, DataOffer, MimeType, Finished, Lost, Skip
  <1> QED BY <1>1, <1>2, <1>3 DEF Announced

\* The steps of the loop and of the signals.
LEMMA LoopCases ==
  ASSUME LoopStep \/ Run \/ Signalled \/ Halt \/ UNCHANGED vars
  PROVE  \/ EpollWait(Ready)
         \/ /\ batch' \subseteq batch
            /\ sources \subseteq sources' /\ sources' \subseteq sources \cup {Wayland, SignalSource}
  <1>1. CASE LoopStep
    BY <1>1 DEF LoopStep, Startup, AddSignal, SetupFails, AddSignalFails, LoopReturns, OnSignal, Returned, Failed, Hangs
  <1>2. CASE Run
    BY <1>2 DEF Run, RunLoop
  <1>3. CASE Signalled \/ Halt \/ UNCHANGED vars
    BY <1>3 DEF Signalled, SendSignal, Halt, vars, loopVars
  <1> QED BY <1>1, <1>2, <1>3

\* Every step leaves only events in hand whose sources are still registered.
LEMMA BatchStep ==
  ASSUME Shape, TypeOK, Asking, Batch, Next \/ UNCHANGED vars
  PROVE  Batch'
  <1>0. /\ sources \subseteq {Wayland, SignalSource} \cup {Pipe(o) : o \in Announced}
        /\ \A e \in batch : e.source \in sources
    BY DEF Batch
  <1>1. CASE LoopStep \/ Run \/ Signalled \/ Halt \/ UNCHANGED vars
    <2>1. UNCHANGED <<offers, closed>> /\ Announced' = Announced
      BY <1>1, LoopFrames DEF pipes
    <2>2. CASE EpollWait(Ready)
      BY <2>1, <2>2, BatchWaited
    <2>3. CASE /\ batch' \subseteq batch
               /\ sources \subseteq sources' /\ sources' \subseteq sources \cup {Wayland, SignalSource}
      BY <1>0, <2>1, <2>3, BatchKept
    <2> QED BY <1>1, <2>2, <2>3, LoopCases
  <1>2. CASE Announce
    <2>1. batch' = batch /\ sources' = sources
      BY <1>2 DEF Announce, loopVars
    <2>2. Announced \subseteq Announced' /\ \A o \in Announced : closed'[o] = closed[o]
      <3>1. Len(offers) \in Nat
        BY DEF Shape
      <3> QED BY <1>2, <3>1, AnnounceShape
    <2> QED BY <1>0, <2>1, <2>2, BatchKept
  <1>3. CASE Clear
    BY <1>0, <1>3, BatchKept DEF Clear, pipes, loopVars, Announced
  <1>4. CASE WaylandStep
    <2>1. /\ batch' \subseteq batch /\ closed' = closed /\ Announced' = Announced
          /\ sources' = sources \/ (current \in Announced /\ sources' = sources \cup {Pipe(current)})
      BY <1>4, WaylandFrames
    <2> QED BY <1>0, <2>1, BatchKept
  <1>5. CASE \E o \in Announced : PipeStep(o)
    <2>1. PICK o \in Announced, e \in batch : ReadPipe(o, e) \/ Finish(o, e) \/ PipeFails(o, e)
      BY <1>5 DEF PipeStep
    <2>2. /\ batch' = batch \ {e} /\ e.source = Pipe(o) /\ closed' = closed /\ Announced' = Announced
          /\ sources' \in {sources, sources \ {Pipe(o)}}
      BY <2>1 DEF ReadPipe, Finish, PipeFails, OnPipe, Returned, Announced
    <2>3. \A f \in batch' : f.source \in sources'
      BY <1>0, <2>2 DEF Batch
    <2> QED BY <1>0, <2>2, <2>3, BatchKept
  <1>6. CASE \E o \in Announced : Write(o) \/ CloseEnd(o)
    <2>1. PICK o \in Announced : Write(o) \/ CloseEnd(o)
      BY <1>6
    <2>2. /\ batch' = batch /\ sources' = sources /\ Announced' = Announced
          /\ \A x \in Announced : closed[x] => closed'[x]
      BY <2>1, SourceShape DEF loopVars
    <2> QED BY <1>0, <2>2, BatchKept
  <1> QED BY <1>1, <1>2, <1>3, <1>4, <1>5, <1>6, StepCases

-------------------------------------------------------------------------------
(* Signals.                                                                    *)

\* No system call that fails on the way leaves a signal blocked that the loop will not
\* serve.
LEMMA SignalsStep ==
  ASSUME Shape, TypeOK, Asking, Polled, BlockedIsServed, Next \/ UNCHANGED vars
  PROVE  Polled' /\ BlockedIsServed'
  <1>1. CASE LoopStep \/ Run \/ Signalled \/ Halt \/ UNCHANGED vars
    <2>1. CASE Startup
      <3>1. PICK i \in DOMAIN Signals : AddSignal(Signals[i]) \/ SetupFails(Signals[i]) \/ AddSignalFails(Signals[i])
        BY <2>1 DEF Startup
      <3>2. signalFd \in {"none", "open", "dangling"}
        BY DEF TypeOK, LoopTypeOK
      <3>3. CASE AddSignal(Signals[i])
        BY <3>2, <3>3 DEF AddSignal, Polled, BlockedIsServed
      <3>4. CASE SetupFails(Signals[i])
        BY <3>2, <3>4 DEF SetupFails, Polled, BlockedIsServed
      <3>5. CASE AddSignalFails(Signals[i])
        BY <3>2, <3>5 DEF AddSignalFails, Polled, BlockedIsServed
      <3> QED BY <3>1, <3>3, <3>4, <3>5
    <2>2. CASE /\ UNCHANGED <<signalFd, table, mask, blocked>> /\ sources \subseteq sources'
      BY <2>2 DEF Polled, BlockedIsServed
    <2>3. Startup \/ UNCHANGED <<signalFd, table, mask, blocked>>
      BY <1>1 DEF LoopStep, EpollWait, LoopReturns, OnSignal, Run, RunLoop, Signalled, SendSignal, Halt,
                  vars, loopVars, signalVars
    <2>4. Startup \/ sources \subseteq sources'
      <3>1. CASE EpollWait(Ready)
        BY <3>1 DEF EpollWait
      <3> QED BY <1>1, <3>1, LoopCases
    <2> QED BY <2>1, <2>2, <2>3, <2>4
  <1>2. CASE Announce \/ Clear
    BY <1>2 DEF Announce, Clear, loopVars, signalVars, Polled, BlockedIsServed
  <1>3. CASE WaylandStep
    BY <1>3, WaylandFrames DEF signalVars, Polled, BlockedIsServed
  <1>4. CASE \E o \in Announced : PipeStep(o)
    <2>1. PICK o \in Announced, e \in batch : ReadPipe(o, e) \/ Finish(o, e) \/ PipeFails(o, e)
      BY <1>4 DEF PipeStep
    <2>2. /\ UNCHANGED <<signalFd, table, mask, blocked>>
          /\ sources' \in {sources, sources \ {Pipe(o)}}
      BY <2>1 DEF ReadPipe, Finish, PipeFails, OnPipe, signalVars
    <2> QED BY <2>2, Descriptors DEF Polled, BlockedIsServed
  <1>5. CASE \E o \in Announced : Write(o) \/ CloseEnd(o)
    BY <1>5, SourceShape DEF loopVars, signalVars, Polled, BlockedIsServed
  <1> QED BY <1>1, <1>2, <1>3, <1>4, <1>5, StepCases

-------------------------------------------------------------------------------
(* Types.                                                                      *)

\* The loop's variables stay in their ranges.
LEMMA LoopTypes ==
  ASSUME Shape, TypeOK, Asking, Batch', Next \/ UNCHANGED vars
  PROVE  LoopTypeOK'
  <1> DEFINE added_ == {Signals[i] : i \in DOMAIN Signals}
             Ranges == /\ loop \in {"setup", "run", "hung", "ended", "failed", "killed"}
                       /\ quit \in BOOLEAN
                       /\ added \in 0 .. Len(Signals)
                       /\ signalFd \in {"none", "open", "dangling"}
                       /\ table \cup mask \cup blocked \cup pending \subseteq added_
                       /\ faults \in 0 .. MaxFaults /\ signals \in 0 .. MaxSignals
  <1> SUFFICES Ranges'
    BY DEF LoopTypeOK, Batch
  <1>0. Ranges /\ MaxFaults \in Nat /\ MaxSignals \in Nat /\ Len(Signals) \in Nat
    BY EventLoopAssumption DEF TypeOK, LoopTypeOK
  <1>1. CASE LoopStep \/ Run \/ Signalled \/ Halt \/ UNCHANGED vars
    <2>1. CASE Startup
      <3>1. PICK i \in DOMAIN Signals : AddSignal(Signals[i]) \/ SetupFails(Signals[i]) \/ AddSignalFails(Signals[i])
        BY <2>1 DEF Startup
      <3>2. Signals[i] \in added_
        OBVIOUS
      <3> HIDE DEF added_
      <3>3. CASE AddSignal(Signals[i])
        BY <1>0, <3>2, <3>3 DEF AddSignal, Adding, counts
      <3>4. CASE SetupFails(Signals[i])
        BY <1>0, <3>4 DEF SetupFails, Adding, Fault
      <3>5. CASE AddSignalFails(Signals[i])
        BY <1>0, <3>5 DEF AddSignalFails, Adding, Fault
      <3> QED BY <3>1, <3>3, <3>4, <3>5
    <2>2. CASE EpollWait(Ready) \/ LoopReturns
      BY <1>0, <2>2 DEF EpollWait, LoopReturns, signalVars, counts
    <2>3. CASE \E e \in batch : OnSignal(e)
      <3>1. /\ UNCHANGED <<added, signalFd, table, mask, blocked, faults, signals>>
            /\ pending' \subseteq pending /\ quit' \in BOOLEAN
            /\ loop' \in {loop, "hung", "failed"}
        BY <2>3 DEF OnSignal, Returned, Failed, Hangs, signalVars, counts
      <3> HIDE DEF added_
      <3> QED BY <1>0, <3>1
    <2>4. CASE Run
      BY <1>0, <2>4 DEF Run, RunLoop, Fault, signalVars, counts
    <2>5. CASE Signalled
      <3>1. PICK i \in DOMAIN Signals : SendSignal(Signals[i])
        BY <2>5 DEF Signalled
      <3>2. Signals[i] \in added_
        OBVIOUS
      <3> HIDE DEF added_
      <3> QED BY <1>0, <3>1, <3>2 DEF SendSignal, signalVars
    <2>6. CASE Halt \/ UNCHANGED vars
      BY <1>0, <2>6 DEF Halt, vars, loopVars, signalVars, counts
    <2> QED BY <1>1, <2>1, <2>2, <2>3, <2>4, <2>5, <2>6 DEF LoopStep
  <1>2. CASE Announce \/ Clear
    BY <1>0, <1>2 DEF Announce, Clear, loopVars, signalVars, counts
  <1>3. CASE WaylandStep
    BY <1>0, <1>3, WaylandFrames DEF signalVars, counts
  <1>4. CASE \E o \in Announced : PipeStep(o)
    <2>1. PICK o \in Announced, e \in batch : ReadPipe(o, e) \/ Finish(o, e) \/ PipeFails(o, e)
      BY <1>4 DEF PipeStep
    <2>2. UNCHANGED <<loop, quit, signalVars, pending, counts>>
      BY <2>1 DEF ReadPipe, Finish, PipeFails, OnPipe, Returned
    <2> QED BY <1>0, <2>2 DEF signalVars, counts
  <1>5. CASE \E o \in Announced : Write(o) \/ CloseEnd(o)
    BY <1>0, <1>5, SourceShape DEF loopVars, signalVars, counts
  <1> QED BY <1>1, <1>2, <1>3, <1>4, <1>5, StepCases

\* A step leaves got at most sent, and the offer at hand announced.
LEMMA TypesStep ==
  ASSUME Shape, Shape', TypeOK, Asking, Batch', Streaming', Next \/ UNCHANGED vars
  PROVE  TypeOK'
  <1> DEFINE Counted == \A o \in Announced : got[o] <= sent[o] /\ sent[o] <= MaxBytes
             Placed == /\ current \in {None} \cup Announced /\ left \in 0 .. Len(wire)
                       /\ main \in {"loop", "hint"}
  <1> SUFFICES Counted' /\ Placed'
    <2>1. \A e \in {wire'[i] : i \in DOMAIN wire'} : e.offer \in {None} \cup Announced'
      <3>1. \A i \in 1 .. Len(wire') : wire'[i].offer \in {None} \cup Announced'
        BY DEF Streaming, Stream, Fits
      <3>2. DOMAIN wire' = 1 .. Len(wire')
        BY DEF Shape
      <3> QED BY <3>1, <3>2
    <2>2. LoopTypeOK'
      BY LoopTypes
    <2>3. \A o \in Announced' : /\ offers'[o] \in Source
                                /\ transfer'[o] \in {"none", "open", "queued", "dropped"}
                                /\ closed'[o] \in BOOLEAN
      BY DEF Shape, Announced
    <2> QED BY <2>1, <2>2, <2>3 DEF TypeOK, Shape
  <1>0. Counted /\ Placed /\ MaxBytes \in Nat /\ Len(offers) \in Nat /\ Len(wire) \in Nat
    BY SelectionAssumption DEF TypeOK, Shape
  <1>1. CASE LoopStep \/ Run \/ Signalled \/ Halt \/ UNCHANGED vars
    BY <1>0, <1>1, LoopFrames DEF device, pipes
  <1>2. CASE Announce
    <2>1. /\ Announced' = 1 .. Len(offers) + 1 /\ Announced = 1 .. Len(offers)
          /\ \A o \in Announced : sent'[o] = sent[o] /\ got'[o] = got[o]
          /\ sent'[Len(offers) + 1] = 0 /\ got'[Len(offers) + 1] = 0
      BY <1>2, AnnounceShape
    <2>2. Counted'
      BY <1>0, <2>1
    <2>3. current' = current /\ left' = left /\ main' = main
      BY <1>2 DEF Announce, device
    <2>4. Len(wire') \in Nat /\ Len(wire) <= Len(wire')
      <3>1. PICK o : o = Len(offers) + 1
        OBVIOUS
      <3>2. Len(wire') = Len(wire) + Last(o)' + 1 /\ Last(o)' \in Nat
        BY <1>2, <3>1, AnnounceWire
      <3> QED BY <1>0, <3>2
    <2> QED BY <1>0, <2>1, <2>2, <2>3, <2>4
  <1>3. CASE Clear
    <2>1. wire = << >> /\ wire' # << >> /\ UNCHANGED <<offers, device, pipes>> /\ Announced' = Announced
      BY <1>3 DEF Clear, Announced
    <2>2. left = 0 /\ Len(wire') \in Nat
      BY <1>0, <2>1 DEF Shape
    <2> QED BY <1>0, <2>1, <2>2 DEF device, pipes
  <1>4. CASE WaylandStep
    <2>1. UNCHANGED <<sent, got>> /\ Announced' = Announced
      BY <1>4, WaylandFrames
    <2>2. ASSUME ReadHint PROVE Placed'
      BY <1>0, <2>1, <2>2 DEF ReadHint, Destroyed, Handled, Aborted
    <2>3. ASSUME NEW kind, Dispatch(kind),
                 DataOffer \/ MimeType \/ Finished \/ Lost \/ Skip(kind) \/ Take(kind)
          PROVE  Placed'
      <3>1. left' \in 0 .. Len(wire') /\ wire[1] \in Events /\ Head(wire) = wire[1] /\ Len(wire) \in Nat \ {0}
        BY <2>3, Dispatched
      <3>2. wire[1].offer \in {None} \cup Announced
        BY <3>1 DEF TypeOK, Shape
      <3>3. main' \in {"loop", "hint"}
        BY <1>0, <2>3 DEF DataOffer, MimeType, Finished, Lost, Skip, Take, Destroyed, Handled, Aborted
      <3>4. current' \in {None, current, wire[1].offer}
        BY <2>3, <3>1 DEF DataOffer, MimeType, Finished, Lost, Skip, Take, Destroyed
      <3> QED BY <1>0, <2>1, <3>1, <3>2, <3>3, <3>4
    <2>4. \/ ReadHint
          \/ \E kind : /\ Dispatch(kind)
                       /\ DataOffer \/ MimeType \/ Finished \/ Lost \/ Skip(kind) \/ Take(kind)
      BY <1>4 DEF WaylandStep, DataOffer, MimeType, Finished, Lost, Skip, Take
    <2>5. Placed'
      <3> HIDE DEF Placed
      <3> QED BY <2>2, <2>3, <2>4, Zenon
    <2>6. Counted'
      BY <1>0, <2>1
    <2> QED BY <2>5, <2>6
  <1>5. CASE \E o \in Announced : PipeStep(o)
    <2>1. PICK o \in Announced : PipeStep(o)
      BY <1>5
    <2>2. UNCHANGED <<wire, offers, device>>
      BY <2>1 DEF PipeStep, ReadPipe, Finish, PipeFails, OnPipe
    <2>3. /\ Announced' = Announced /\ sent' = sent /\ got'[o] \in {got[o], sent[o]}
          /\ \A x \in Announced \ {o} : got'[x] = got[x]
      BY <2>1, PipeShape
    <2>4. Counted'
      <3> SUFFICES ASSUME NEW x \in Announced PROVE got'[x] <= sent'[x] /\ sent'[x] <= MaxBytes
        BY <2>3
      <3>1. sent'[x] = sent[x] /\ sent[x] \in Nat /\ got[x] <= sent[x] /\ sent[x] <= MaxBytes
        BY <1>0, <2>3 DEF Shape
      <3> QED BY <2>3, <3>1
    <2> QED BY <1>0, <2>2, <2>3, <2>4 DEF device
  <1>6. CASE \E o \in Announced : Write(o) \/ CloseEnd(o)
    <2>1. PICK o \in Announced : Write(o) \/ CloseEnd(o)
      BY <1>6
    <2>2. /\ Announced' = Announced /\ UNCHANGED <<wire, device, got>>
          /\ sent'[o] \in {sent[o], sent[o] + 1} /\ sent'[o] <= MaxBytes
          /\ \A x \in Announced \ {o} : sent'[x] = sent[x]
      BY <2>1, SourceShape
    <2>3. Counted'
      <3> SUFFICES ASSUME NEW x \in Announced PROVE got'[x] <= sent'[x] /\ sent'[x] <= MaxBytes
        BY <2>2
      <3>1. got'[x] = got[x] /\ got[x] \in Nat /\ sent[x] \in Nat /\ got[x] <= sent[x] /\ sent[x] <= MaxBytes
        BY <1>0, <2>2 DEF Shape
      <3> QED BY <2>1, <2>2, <3>1
    <2> QED BY <1>0, <2>2, <2>3 DEF device
  <1> QED BY <1>1, <1>2, <1>3, <1>4, <1>5, <1>6, StepCases

-------------------------------------------------------------------------------
(* The payload.                                                                *)

\* What is in the queue stays complete: its source has closed the pipe, and can add
\* nothing.
LEMMA WholeStep ==
  ASSUME Shape, TypeOK, Asking, Batch, WholePayload, Next \/ UNCHANGED vars
  PROVE  WholePayload'
  <1> DEFINE Whole(q) == closed[q.offer] /\ q.size = sent[q.offer] /\ q.size >= MinSize
  <1>0. /\ \A i \in 1 .. Len(queued) : Whole(queued[i]) /\ queued[i].offer \in Announced
        /\ DOMAIN queued = 1 .. Len(queued) /\ Len(queued) \in Nat
    <2>1. DOMAIN queued = 1 .. Len(queued) /\ Len(queued) \in Nat
      BY DEF Shape
    <2>2. ASSUME NEW i \in 1 .. Len(queued) PROVE queued[i].offer \in Announced
      <3>1. queued[i] \in [offer : Announced, type : Type \cup {None}, size : Nat]
        BY ElementOfSeq DEF Shape
      <3> QED BY <3>1
    <2>3. \A i \in 1 .. Len(queued) : Whole(queued[i])
      BY <2>1 DEF WholePayload
    <2> QED BY <2>1, <2>2, <2>3
  <1>1. CASE LoopStep \/ Run \/ Signalled \/ Halt \/ UNCHANGED vars
    BY <1>1, LoopFrames DEF pipes, WholePayload
  <1>2. CASE Announce
    <2>1. queued' = queued /\ \A o \in Announced : sent'[o] = sent[o] /\ closed'[o] = closed[o]
      BY <1>2, AnnounceShape DEF Announce
    <2> QED BY <1>0, <2>1 DEF WholePayload
  <1>3. CASE Clear
    BY <1>3 DEF Clear, pipes, WholePayload
  <1>4. CASE WaylandStep
    BY <1>4, WaylandFrames DEF WholePayload
  <1>5. CASE \E o \in Announced : PipeStep(o)
    <2>1. PICK o \in Announced : PipeStep(o)
      BY <1>5
    <2>2. sent' = sent /\ closed' = closed
      BY <2>1, PipeShape
    <2>3. CASE queued' = queued
      BY <2>2, <2>3 DEF WholePayload
    <2>4. CASE queued' # queued
      <3>1. /\ \E e \in batch : e.source = Pipe(o) /\ e.hup
            /\ queued' = Append(queued, [offer |-> o, type |-> chosen[o], size |-> sent[o]])
            /\ sent[o] >= MinSize
        BY <2>1, <2>4, PipeShape
      <3>2. closed[o]
        BY <3>1 DEF Batch
      <3>3. PICK q : q = [offer |-> o, type |-> chosen[o], size |-> sent[o]]
        OBVIOUS
      <3>4. q.offer = o /\ q.size = sent[o] /\ Whole(q)
        BY <3>1, <3>2, <3>3
      <3>5. /\ DOMAIN queued' = 1 .. Len(queued) + 1
            /\ \A i \in 1 .. Len(queued) : queued'[i] = queued[i]
            /\ queued'[Len(queued) + 1] = q
        BY <1>0, <3>1, <3>3, AppendProperties DEF Shape
      <3>6. \A i \in DOMAIN queued' : Whole(queued'[i])
        BY <1>0, <3>4, <3>5
      <3> QED BY <2>2, <3>6 DEF WholePayload
    <2> QED BY <2>3, <2>4
  <1>6. CASE \E o \in Announced : Write(o) \/ CloseEnd(o)
    <2>1. PICK o \in Announced : Write(o) \/ CloseEnd(o)
      BY <1>6
    <2>2. /\ ~closed[o] /\ queued' = queued
          /\ \A x \in Announced \ {o} : sent'[x] = sent[x] /\ closed'[x] = closed[x]
      BY <2>1, SourceShape
    <2>3. \A i \in 1 .. Len(queued) : queued[i].offer \in Announced \ {o}
      BY <1>0, <2>2
    <2> QED BY <1>0, <2>2, <2>3 DEF WholePayload
  <1> QED BY <1>1, <1>2, <1>3, <1>4, <1>5, <1>6, StepCases

-------------------------------------------------------------------------------
(* The stream of announcements.                                                *)

\* An event fits as long as its offer is announced.
LEMMA StillFits ==
  ASSUME Shape, NEW e, NEW k, Fits(e, k), Announced \subseteq Announced',
         \A o \in Announced : offers'[o] = offers[o]
  PROVE  Fits(e, k)' /\ Last(e.offer)' = Last(e.offer)
  BY DEF Fits, Last, Burst

\* A position other than the last.
LEMMA BelowLast ==
  ASSUME NEW l \in Nat, NEW k \in 1 .. l + 1, k # l + 1
  PROVE  k \in 1 .. l
  OBVIOUS

\* What a MIME type event adds to the list.
LEMMA OneMore ==
  ASSUME NEW ts, NEW o \in Announced, NEW n \in Nat, Collected(ts, o, n),
         offers[o].types \in Seq(Type), n + 1 <= Len(offers[o].types)
  PROVE  /\ offers[o].types[n + 1] \in TooLong => Collected(ts, o, n + 1)
         /\ offers[o].types[n + 1] \notin TooLong => Collected(Append(ts, offers[o].types[n + 1]), o, n + 1)
  <1> DEFINE t == offers[o].types[n + 1]
  <1>1. PICK f \in [1 .. Len(ts) -> 1 .. n] :
          /\ \A j \in 1 .. Len(ts) : ts[j] = offers[o].types[f[j]] /\ ts[j] \notin TooLong
          /\ \A j, k \in 1 .. Len(ts) : j < k => f[j] < f[k]
          /\ \A m \in 1 .. n : offers[o].types[m] \notin TooLong => \E j \in 1 .. Len(ts) : f[j] = m
    BY DEF Collected
  <1>2. ts \in Seq(Type) /\ Len(ts) \in Nat /\ t \in Type
    <2>1. Len(offers[o].types) \in Nat
      OBVIOUS
    <2> QED BY <2>1 DEF Collected
  <1>3. CASE t \in TooLong
    <2>1. f \in [1 .. Len(ts) -> 1 .. n + 1]
      BY <1>1
    <2>2. \A m \in 1 .. n + 1 : offers[o].types[m] \notin TooLong => \E j \in 1 .. Len(ts) : f[j] = m
      BY <1>1, <1>3
    <2>3. Collected(ts, o, n + 1)
      BY <1>1, <1>2, <2>1, <2>2 DEF Collected
    <2> QED BY <1>3, <2>3
  <1>4. CASE t \notin TooLong
    <2> DEFINE l == Len(ts)
               g == [j \in 1 .. l + 1 |-> IF j = l + 1 THEN n + 1 ELSE f[j]]
    <2>1. PICK u : u = Append(ts, t)
      OBVIOUS
    <2>2. /\ u \in Seq(Type) /\ Len(u) = l + 1
          /\ \A j \in 1 .. l : u[j] = ts[j]
          /\ u[l + 1] = t
      BY <1>2, <2>1, AppendProperties
    <2>3. g \in [1 .. Len(u) -> 1 .. n + 1]
      BY <1>1, <1>2, <2>2
    <2>4. \A j \in 1 .. Len(u) : u[j] = offers[o].types[g[j]] /\ u[j] \notin TooLong
      BY <1>1, <1>2, <1>4, <2>2
    <2>5. \A j, k \in 1 .. Len(u) : j < k => g[j] < g[k]
      <3> SUFFICES ASSUME NEW j \in 1 .. l + 1, NEW k \in 1 .. l + 1, j < k PROVE g[j] < g[k]
        BY <2>2
      <3>1. j \in 1 .. l /\ g[j] = f[j] /\ f[j] \in 1 .. n
        BY SMTT(20), <1>1, <1>2
      <3>2. CASE k = l + 1
        <4>1. g[k] = n + 1
          BY <3>2
        <4> QED BY <3>1, <4>1
      <3>3. CASE k # l + 1
        <4>1. k \in 1 .. l
          BY <1>2, <3>3, BelowLast
        <4>2. g[k] = f[k]
          BY <1>2, <4>1
        <4>3. f[j] < f[k]
          BY <1>1, <3>1, <4>1
        <4> QED BY <3>1, <4>2, <4>3
      <3> QED BY <3>2, <3>3
    <2>6. ASSUME NEW m \in 1 .. n + 1, offers[o].types[m] \notin TooLong
          PROVE  \E j \in 1 .. Len(u) : g[j] = m
      <3>1. CASE m = n + 1
        <4>1. l + 1 \in 1 .. Len(u) /\ g[l + 1] = m
          BY <1>2, <2>2, <3>1
        <4> QED BY <4>1
      <3>2. CASE m # n + 1
        <4>1. PICK j \in 1 .. Len(ts) : f[j] = m
          BY <1>1, <2>6, <3>2
        <4>2. j \in 1 .. Len(u) /\ g[j] = m
          BY <1>2, <2>2, <4>1
        <4> QED BY <4>2
      <3> QED BY <3>1, <3>2
    <2>7. Collected(u, o, n + 1)
      <3> HIDE DEF g
      <3> QED BY <2>2, <2>3, <2>4, <2>5, <2>6 DEF Collected
    <2> QED BY <1>4, <2>1, <2>7
  <1> QED BY <1>3, <1>4

\* A list is collected of an offer as long as that is announced.
LEMMA StillCollected ==
  ASSUME NEW ts, NEW o \in Announced, NEW n, Collected(ts, o, n), offers'[o] = offers[o]
  PROVE  Collected(ts, o, n)'
  BY SMTT(20) DEF Collected

\* What the kind of an event says of its place.
LEMMA Placing ==
  ASSUME Shape, NEW e, NEW k, Fits(e, k)
  PROVE  /\ e.offer = None \/ e.offer \in Announced
         /\ e.kind = "data_offer" => e.offer \in Announced /\ k = 0 /\ Last(e.offer) \in Nat \ {0}
         /\ e.kind = "type" => /\ e.offer \in Announced /\ k \in 1 .. Last(e.offer) - 1
                               /\ e.type = offers[e.offer].types[k]
         /\ e.kind \notin {"data_offer", "type"} => k = Last(e.offer)
         /\ e.kind \in {"selection", "primary"} /\ e.offer # None =>
              (e.kind = "primary" <=> offers[e.offer].primary)
         /\ e.kind \in {"finished", "lost"} => e.offer = None
  <1>1. CASE e.offer = None
    <2>1. PICK kind \in {"selection", "primary", "finished", "lost"} : e = Event(kind, None, None)
      BY <1>1 DEF Fits
    <2>2. e.kind \in {"selection", "primary", "finished", "lost"}
      BY <2>1 DEF Event
    <2> QED BY <1>1, <2>2 DEF Fits, Last
  <1>2. CASE e.offer # None
    <2>1. e.offer \in Announced /\ k \in 0 .. Last(e.offer) /\ e = Burst(e.offer, k)
      BY <1>2 DEF Fits
    <2>2. /\ offers[e.offer].types \in Seq(Type) /\ offers[e.offer].primary \in BOOLEAN
          /\ Last(e.offer) = Len(offers[e.offer].types) + 1 /\ Len(offers[e.offer].types) \in Nat
      <3>1. offers[e.offer] \in Source
        BY <2>1 DEF Shape, Announced
      <3> QED BY <1>2, <3>1, SelectionAssumption DEF Last
    <2>3. CASE k = 0
      <3>1. e.kind = "data_offer"
        BY <2>1, <2>3 DEF Burst, Event
      <3> QED BY <1>2, <2>1, <2>2, <2>3, <3>1
    <2>4. CASE k # 0 /\ k = Last(e.offer)
      <3>1. e.kind = IF offers[e.offer].primary THEN "primary" ELSE "selection"
        BY <2>1, <2>4 DEF Burst, Event
      <3> QED BY <1>2, <2>1, <2>2, <2>4, <3>1
    <2>5. CASE k # 0 /\ k # Last(e.offer)
      <3>1. e.kind = "type" /\ e.type = offers[e.offer].types[k]
        BY <2>1, <2>5 DEF Burst, Event
      <3> QED BY <1>2, <2>1, <2>2, <2>5, <3>1
    <2> QED BY <2>3, <2>4, <2>5
  <1> QED BY <1>1, <1>2

\* With its first event gone, the stream goes on with the next.
LEMMA StreamTail ==
  ASSUME Shape, TypeOK, NEW kind, Dispatch(kind), UNCHANGED offers,
         NEW p \in [1 .. Len(wire) -> Nat], Stream(p)
  PROVE  /\ Fits(wire[1], p[1])
         /\ \E q \in [1 .. Len(wire') -> Nat] :
              /\ Stream(q)'
              /\ wire' # << >> => IF p[1] = Last(wire[1].offer) THEN q[1] = 0
                                  ELSE q[1] = p[1] + 1 /\ wire'[1].offer = wire[1].offer
  <1>1. /\ Len(wire) \in Nat \ {0} /\ wire' \in Seq(Events) /\ Len(wire') = Len(wire) - 1
        /\ \A i \in 1 .. Len(wire) - 1 : wire'[i] = wire[i + 1]
    BY Dispatched
  <1>2. PICK n \in Nat : n = Len(wire) - 1
    BY <1>1
  <1>3. PICK q : q = [i \in 1 .. n |-> p[i + 1]]
    OBVIOUS
  <1>4. q \in [1 .. Len(wire') -> Nat] /\ \A i \in 1 .. n : q[i] = p[i + 1]
    BY <1>1, <1>2, <1>3
  <1>5. /\ \A e, k : Fits(e, k) => Fits(e, k)' /\ Last(e.offer)' = Last(e.offer)
    BY StillFits DEF Announced
  <1>6. /\ \A i \in 1 .. n + 1 : Fits(wire[i], p[i])
        /\ \A i \in 1 .. n : IF p[i] = Last(wire[i].offer) THEN p[i + 1] = 0
                              ELSE wire[i + 1].offer = wire[i].offer /\ p[i + 1] = p[i] + 1
        /\ p[n + 1] = Last(wire[n + 1].offer)
    <2>1. wire # << >>
      BY <1>1
    <2> QED BY <1>1, <1>2, <2>1 DEF Stream
  <1>7. Stream(q)'
    <2>0. PICK w : w = wire'
      OBVIOUS
    <2>1. \A i \in 1 .. n : w[i] = wire[i + 1] /\ q[i] = p[i + 1] /\ Fits(w[i], q[i])
      BY <1>1, <1>2, <1>4, <1>6, <2>0
    <2>2. \A i \in 1 .. n : Fits(w[i], q[i])' /\ Last(w[i].offer)' = Last(w[i].offer)
      BY <1>5, <2>1
    <2>3. ASSUME NEW i \in 1 .. n - 1
          PROVE  IF q[i] = Last(w[i].offer) THEN q[i + 1] = 0
                 ELSE w[i + 1].offer = w[i].offer /\ q[i + 1] = q[i] + 1
      <3>1. i \in 1 .. n /\ i + 1 \in 1 .. n
        OBVIOUS
      <3>2. w[i] = wire[i + 1] /\ q[i] = p[i + 1] /\ w[i + 1] = wire[i + 1 + 1] /\ q[i + 1] = p[i + 1 + 1]
        BY <2>1, <3>1
      <3>3. IF p[i + 1] = Last(wire[i + 1].offer) THEN p[i + 1 + 1] = 0
            ELSE wire[i + 1 + 1].offer = wire[i + 1].offer /\ p[i + 1 + 1] = p[i + 1] + 1
        BY <1>6, <3>1
      <3> QED BY <3>2, <3>3
    <2>4. ASSUME wire' # << >> PROVE n \in 1 .. n /\ q[n] = Last(w[n].offer)
      <3>1. n \in 1 .. n
        BY <1>1, <1>2, <2>4
      <3> QED BY <1>6, <2>1, <3>1
    <2>5. Len(wire') = n
      BY <1>1, <1>2
    <2>6. \A i \in 1 .. n : Fits(wire[i], q[i])'
      BY <2>0, <2>2
    <2>7. \A i \in 1 .. n - 1 : IF q[i] = Last(wire[i].offer)' THEN q[i + 1] = 0
                                ELSE wire'[i + 1].offer = wire'[i].offer /\ q[i + 1] = q[i] + 1
      BY <2>0, <2>2, <2>3
    <2>8. wire' # << >> => q[n] = Last(wire[n].offer)'
      BY <2>0, <2>2, <2>4
    <2> QED BY <2>5, <2>6, <2>7, <2>8 DEF Stream
  <1>8. ASSUME wire' # << >>
        PROVE  IF p[1] = Last(wire[1].offer) THEN q[1] = 0
               ELSE q[1] = p[1] + 1 /\ wire'[1].offer = wire[1].offer
    <2>1. 1 \in 1 .. n
      BY <1>1, <1>2, <1>8
    <2> QED BY <1>1, <1>2, <1>4, <1>6, <2>1
  <1>9. Fits(wire[1], p[1])
    BY <1>6
  <1> QED BY <1>4, <1>7, <1>8, <1>9

\* An announcement goes on the wire behind what is there.
LEMMA StreamAnnounce ==
  ASSUME Shape, Announce, NEW p \in [1 .. Len(wire) -> Nat], Stream(p)
  PROVE  \E q \in [1 .. Len(wire') -> Nat] :
           Stream(q)' /\ q[1] = IF wire = << >> THEN 0 ELSE p[1]
  <1>1. PICK o : o = Len(offers) + 1
    OBVIOUS
  <1>2. PICK w, L, n : w = wire' /\ L = Last(o)' /\ n = Len(wire)
    OBVIOUS
  <1>3. /\ n \in Nat /\ L \in Nat \ {0} /\ o \in Nat \ {0}
        /\ Len(w) = n + L + 1
        /\ \A i \in 1 .. n : w[i] = wire[i]
        /\ \A k \in 0 .. L : w[n + 1 + k] = Burst(o, k)'
    BY <1>1, <1>2, AnnounceWire DEF Shape
  <1>4. /\ Announced' = 1 .. o /\ Announced = 1 .. o - 1
        /\ \A x \in Announced : offers'[x] = offers[x]
    BY <1>1, <1>3, AnnounceShape
  <1>5. \A k \in 0 .. L : /\ w[n + 1 + k].offer = o
                         /\ Fits(w[n + 1 + k], k)'
    <2> SUFFICES ASSUME NEW k \in 0 .. L PROVE w[n + 1 + k].offer = o /\ Fits(w[n + 1 + k], k)'
      OBVIOUS
    <2>1. PICK e : e = w[n + 1 + k]
      OBVIOUS
    <2>2. e = Burst(o, k)' /\ e.offer = o
      <3>1. e = Burst(o, k)'
        BY <1>3, <2>1
      <3> QED BY <3>1 DEF Burst, Event
    <2>3. o # None /\ o \in Announced'
      BY <1>3, <1>4 DEF None
    <2>4. Fits(e, k)'
      BY <1>2, <2>2, <2>3 DEF Fits
    <2> QED BY <2>1, <2>2, <2>4
  <1>6. \A e, k : Fits(e, k) => Fits(e, k)' /\ Last(e.offer)' = Last(e.offer)
    <2>1. Announced \subseteq Announced'
      BY <1>3, <1>4
    <2> QED BY <1>4, <2>1, StillFits
  <1>7. PICK q : q = [i \in 1 .. n + L + 1 |-> IF i <= n THEN p[i] ELSE i - n - 1]
    OBVIOUS
  <1>8. /\ q \in [1 .. n + L + 1 -> Nat]
        /\ \A i \in 1 .. n : q[i] = p[i]
        /\ \A k \in 0 .. L : q[n + 1 + k] = k
    <2>1. n \in Nat /\ L \in Nat /\ p \in [1 .. n -> Nat]
      BY <1>2, <1>3
    <2>2. q \in [1 .. n + L + 1 -> Nat]
      BY <1>7, <2>1
    <2>3. \A i \in 1 .. n : q[i] = p[i]
      BY <1>7, <2>1
    <2>4. \A k \in 0 .. L : q[n + 1 + k] = k
      BY <1>7, <2>1
    <2> QED BY <2>2, <2>3, <2>4
  <1>9. \A i \in 1 .. n : Fits(wire[i], p[i])
    BY <1>2 DEF Stream
  <1>10. ASSUME NEW i \in 1 .. n + L + 1 PROVE Fits(w[i], q[i])'
    <2>1. CASE i <= n
      BY <1>3, <1>6, <1>8, <1>9, <2>1
    <2>2. CASE i > n
      <3>1. PICK k \in 0 .. L : i = n + 1 + k
        <4>1. i - n - 1 \in 0 .. L /\ i = n + 1 + (i - n - 1)
          BY <1>3, <2>2
        <4> QED BY <4>1
      <3> QED BY <1>5, <1>8, <3>1
    <2> QED BY <1>3, <2>1, <2>2
  <1>11. ASSUME NEW i \in 1 .. n + L
         PROVE  IF q[i] = Last(w[i].offer)' THEN q[i + 1] = 0
                ELSE w[i + 1].offer = w[i].offer /\ q[i + 1] = q[i] + 1
    <2>1. CASE i < n
      <3>1. /\ w[i] = wire[i] /\ w[i + 1] = wire[i + 1] /\ q[i] = p[i] /\ q[i + 1] = p[i + 1]
            /\ i \in 1 .. Len(wire) - 1 /\ i \in 1 .. n
        BY <1>2, <1>3, <1>8, <2>1
      <3>2. Last(w[i].offer)' = Last(wire[i].offer)
        BY <1>6, <1>9, <3>1
      <3> QED BY <3>1, <3>2 DEF Stream
    <2>2. CASE i = n
      <3>1. w[n] = wire[n] /\ q[n] = p[n] /\ n \in 1 .. n /\ wire # << >>
        BY <1>2, <1>3, <1>8, <2>2
      <3>2. p[n] = Last(wire[n].offer)
        BY <1>2, <3>1 DEF Stream
      <3>3. Last(w[n].offer)' = Last(wire[n].offer)
        BY <1>6, <1>9, <3>1
      <3>4. q[n + 1] = 0
        <4>1. 0 \in 0 .. L /\ n + 1 + 0 = n + 1
          BY <1>3
        <4> QED BY <1>8, <4>1
      <3> QED BY <2>2, <3>1, <3>2, <3>3, <3>4
    <2>3. CASE i > n
      <3>1. PICK k \in 0 .. L - 1 : i = n + 1 + k
        <4>1. i - n - 1 \in 0 .. L - 1 /\ i = n + 1 + (i - n - 1)
          BY <1>3, <2>3
        <4> QED BY <4>1
      <3>2. k \in 0 .. L /\ k + 1 \in 0 .. L /\ i + 1 = n + 1 + (k + 1) /\ k # L
        BY <1>3, <3>1
      <3>3. q[i] = k /\ q[i + 1] = k + 1 /\ w[i].offer = o /\ w[i + 1].offer = o
        BY <1>5, <1>8, <3>1, <3>2
      <3> QED BY <1>2, <3>2, <3>3
    <2> QED BY <1>3, <2>1, <2>2, <2>3
  <1>12. q[n + L + 1] = Last(w[n + L + 1].offer)'
    <2>1. L \in 0 .. L /\ n + 1 + L = n + L + 1
      BY <1>3
    <2> QED BY <1>2, <1>5, <1>8, <2>1
  <1>13. Stream(q)'
    <2>1. PICK m : m = n + L + 1 /\ Len(wire') = m /\ m \in Nat
      BY <1>2, <1>3
    <2>2. \A i \in 1 .. m : Fits(wire[i], q[i])'
      BY <1>2, <1>10, <2>1
    <2>3. \A i \in 1 .. m - 1 : IF q[i] = Last(wire[i].offer)' THEN q[i + 1] = 0
                                ELSE wire'[i + 1].offer = wire'[i].offer /\ q[i + 1] = q[i] + 1
      <3>1. 1 .. m - 1 = 1 .. n + L
        BY <1>3, <2>1
      <3> QED BY <1>2, <1>11, <3>1
    <2>4. q[m] = Last(wire[m].offer)'
      BY <1>2, <1>12, <2>1
    <2> QED BY <2>1, <2>2, <2>3, <2>4 DEF Stream
  <1>14. q[1] = IF wire = << >> THEN 0 ELSE p[1]
    <2>1. CASE n = 0
      <3>1. wire = << >> /\ 0 \in 0 .. L /\ n + 1 + 0 = 1
        <4>1. wire \in Seq(Events) /\ Len(wire) = 0
          BY <1>2, <2>1 DEF Shape
        <4>2. wire = << >>
          BY <4>1, EmptySeq
        <4> QED BY <1>3, <2>1, <4>2
      <3> QED BY <1>8, <3>1
    <2>2. CASE n # 0
      <3>1. wire # << >> /\ 1 \in 1 .. n
        BY <1>2, <1>3, <2>2 DEF Shape
      <3> QED BY <1>8, <3>1
    <2> QED BY <2>1, <2>2
  <1> QED BY <1>2, <1>3, <1>8, <1>13, <1>14

\* A stream stays one while nothing is sent or dispatched.
LEMMA StreamSame ==
  ASSUME Shape, NEW p, Stream(p), UNCHANGED <<wire, offers>>
  PROVE  Stream(p)'
  <1>1. wire' = wire /\ offers' = offers /\ Announced' = Announced
    BY DEF Announced
  <1>2. \A e, k : Fits(e, k) => Fits(e, k)' /\ Last(e.offer)' = Last(e.offer)
    BY <1>1, StillFits
  <1>3. \A i \in 1 .. Len(wire) : Last(wire[i].offer)' = Last(wire[i].offer)
    BY <1>1 DEF Last
  <1>4. \A i \in 1 .. Len(wire) : Fits(wire[i], p[i])'
    <2>1. PICK w : w = wire
      OBVIOUS
    <2>2. \A i \in 1 .. Len(w) : Fits(w[i], p[i])'
      BY <1>2, <2>1 DEF Stream
    <2> QED BY <1>1, <2>1, <2>2
  <1>5. Len(wire) \in 1 .. Len(wire) \/ wire = << >>
    <2>1. wire \in Seq(Events)
      BY DEF Shape
    <2> QED BY <2>1, EmptySeq
  <1> QED BY <1>1, <1>3, <1>4, <1>5 DEF Stream

\* What wayland.offer and its list are for stays what it is in the middle of an
\* announcement: between data_offer and the selection event only MIME types come, and
\* they are of the offer at hand.
LEMMA StreamingStep ==
  ASSUME Shape, TypeOK, Asking, Streaming, Next \/ UNCHANGED vars
  PROVE  Streaming'
  <1>1. PICK p \in [1 .. Len(wire) -> Nat] :
          /\ Stream(p)
          /\ wire # << >> /\ p[1] > 0 => /\ main = "loop" /\ current = wire[1].offer
                                        /\ Collected(types, current, p[1] - 1)
    BY DEF Streaming
  <1>2. CASE UNCHANGED <<wire, offers, device>>
    <2>1. wire' = wire /\ offers' = offers /\ Announced' = Announced /\ UNCHANGED <<current, types, main>>
      BY <1>2 DEF device, Announced
    <2>2. Stream(p)'
      BY <1>1, <2>1, StreamSame
    <2>3. ASSUME wire # << >>, p[1] > 0 PROVE Collected(types, current, p[1] - 1)'
      BY <1>1, <2>1, <2>3 DEF Collected
    <2> QED BY <1>1, <2>1, <2>2, <2>3 DEF Streaming
  <1>3. CASE Announce
    <2>1. PICK q \in [1 .. Len(wire') -> Nat] : Stream(q)' /\ q[1] = IF wire = << >> THEN 0 ELSE p[1]
      BY <1>1, <1>3, StreamAnnounce
    <2>2. /\ UNCHANGED <<current, types, main>>
          /\ \A x \in Announced : offers'[x] = offers[x]
      BY <1>3, AnnounceShape DEF Announce, device
    <2>3. ASSUME wire' # << >>, q[1] > 0
          PROVE  main' = "loop" /\ current' = wire'[1].offer /\ Collected(types, current, q[1] - 1)'
      <3>1. wire # << >> /\ q[1] = p[1] /\ p[1] > 0
        BY <2>1, <2>3
      <3>2. wire'[1] = wire[1] /\ wire[1].offer \in Announced
        <4>1. 1 \in 1 .. Len(wire)
          BY <3>1, EmptySeq DEF Shape
        <4>2. PICK o : o = Len(offers) + 1
          OBVIOUS
        <4>3. wire'[1] = wire[1]
          BY <1>3, <4>1, <4>2, AnnounceWire
        <4>4. Fits(wire[1], p[1])
          BY <1>1, <4>1 DEF Stream
        <4> QED BY <3>1, <4>3, <4>4 DEF Fits
      <3>3. PICK o, ts, n : o = current /\ ts = types /\ n = p[1] - 1
        OBVIOUS
      <3>4. Collected(ts, o, n)'
        BY <1>1, <2>2, <3>1, <3>2, <3>3, StillCollected
      <3> QED BY <1>1, <2>2, <3>1, <3>2, <3>3, <3>4
    <2> QED BY <2>1, <2>3 DEF Streaming
  <1>4. CASE Clear
    <2>1. PICK kind \in {"selection", "primary", "finished", "lost"} : wire' = <<Event(kind, None, None)>>
      BY <1>4 DEF Clear
    <2>2. PICK e, q : e = Event(kind, None, None) /\ q = [i \in 1 .. 1 |-> 0]
      OBVIOUS
    <2>3. wire' = <<e>> /\ Len(wire') = 1 /\ wire'[1] = e
      BY <2>1, <2>2
    <2>4. e.offer = None /\ Fits(e, 0)'
      BY <2>2 DEF Fits, Event
    <2>5. Last(e.offer)' = 0
      BY <2>4 DEF Last
    <2>6. q \in [1 .. Len(wire') -> Nat] /\ q[1] = 0
      BY <2>2, <2>3
    <2>7. Fits(wire[1], q[1])' /\ Last(wire[1].offer)' = 0
      BY <2>3, <2>4, <2>5, <2>6
    <2>8. Stream(q)'
      BY <2>3, <2>6, <2>7 DEF Stream
    <2> QED BY <2>6, <2>8 DEF Streaming
  <1>5. CASE ReadHint
    <2>1. UNCHANGED <<wire, offers>> /\ main = "hint"
      BY <1>5 DEF ReadHint
    <2>2. Stream(p)'
      BY <1>1, <2>1, StreamSame
    <2>3. ~(wire' # << >> /\ p[1] > 0)
      BY <1>1, <2>1
    <2> QED BY <1>1, <2>1, <2>2, <2>3 DEF Streaming
  <1>6. ASSUME WaylandStep, NEW kind, Dispatch(kind),
               DataOffer \/ MimeType \/ kind \notin {"data_offer", "type"}
        PROVE  Streaming'
    <2>1. UNCHANGED offers
      BY <1>6, WaylandFrames
    <2>2. /\ Len(wire) \in Nat \ {0} /\ Head(wire) = wire[1] /\ wire[1] \in Events /\ wire[1].kind = kind
      BY <1>6, Dispatched
    <2>3. Fits(wire[1], p[1])
      BY <1>1, <1>6, <2>1, StreamTail
    <2>4. PICK q \in [1 .. Len(wire') -> Nat] :
            /\ Stream(q)'
            /\ wire' # << >> => IF p[1] = Last(wire[1].offer) THEN q[1] = 0
                                ELSE q[1] = p[1] + 1 /\ wire'[1].offer = wire[1].offer
      BY <1>1, <1>6, <2>1, StreamTail
    <2>5. PICK o, k, n : o = wire[1].offer /\ k = p[1] /\ n = k - 1
      OBVIOUS
    <2>6. Announced' = Announced /\ 1 \in 1 .. Len(wire) /\ k \in Nat
      BY <2>1, <2>2, <2>5 DEF Announced
    <2>7. CASE DataOffer
      <3>1. kind = "data_offer" /\ current' = o /\ types' = << >> /\ main' = "loop"
        BY <2>2, <2>5, <2>7, Dispatched DEF DataOffer, Handled
      <3>2. o \in Announced /\ k = 0 /\ k # Last(o)
        BY <2>2, <2>3, <2>5, <3>1, Placing
      <3>3. Collected(<< >>, o, 0)'
        <4>1. PICK f : f = [j \in 1 .. 0 |-> 0]
          OBVIOUS
        <4>2. PICK ts : ts = << >>
          OBVIOUS
        <4>3. Len(ts) = 0 /\ ts \in Seq(Type)
          BY <4>2, EmptySeq
        <4>4. 1 .. 0 = {} /\ f \in [1 .. Len(ts) -> 1 .. 0]
          BY <4>1, <4>3
        <4>5. Collected(ts, o, 0)'
          BY <4>3, <4>4 DEF Collected
        <4> QED BY <4>2, <4>5
      <3>4. ASSUME wire' # << >> PROVE q[1] - 1 = 0 /\ current' = wire'[1].offer
        BY <2>4, <2>5, <3>1, <3>2, <3>4
      <3> QED BY <2>4, <3>1, <3>3, <3>4 DEF Streaming
    <2>8. CASE MimeType
      <3>1. /\ kind = "type" /\ main' = "loop" /\ current' = current
            /\ types' = IF wire[1].type \in TooLong THEN types ELSE Append(types, wire[1].type)
        BY <2>2, <2>8, Dispatched DEF MimeType, Handled
      <3>2. o \in Announced /\ k \in 1 .. Last(o) - 1 /\ wire[1].type = offers[o].types[k]
        BY <2>2, <2>3, <2>5, <3>1, Placing
      <3>3. /\ offers[o].types \in Seq(Type) /\ Len(offers[o].types) \in Nat
            /\ Last(o) = Len(offers[o].types) + 1
        <4>1. offers[o] \in Source /\ o # None
          BY <3>2 DEF Shape, Announced, None
        <4> QED BY <4>1, SelectionAssumption DEF Last
      <3>4. /\ k # Last(o) /\ n \in Nat /\ n + 1 <= Len(offers[o].types) /\ k = n + 1 /\ wire # << >>
        BY <2>2, <2>5, <3>2, <3>3
      <3>5. current = o /\ Collected(types, o, n)
        BY <1>1, <2>5, <3>4
      <3>6. Collected(types', o, n + 1)
        BY <3>1, <3>2, <3>3, <3>4, <3>5, OneMore
      <3>7. PICK ts : ts = types'
        OBVIOUS
      <3>8. Collected(ts, o, k)'
        BY <2>1, <3>2, <3>4, <3>6, <3>7, StillCollected
      <3>9. ASSUME wire' # << >> PROVE q[1] - 1 = k /\ current' = wire'[1].offer
        BY <2>4, <2>5, <2>6, <3>1, <3>4, <3>5, <3>9
      <3> QED BY <2>4, <3>1, <3>5, <3>7, <3>8, <3>9 DEF Streaming
    <2>9. CASE kind \notin {"data_offer", "type"}
      <3>1. p[1] = Last(wire[1].offer)
        BY <2>2, <2>3, <2>9, Placing
      <3> QED BY <2>4, <3>1 DEF Streaming
    <2> QED BY <1>6, <2>7, <2>8, <2>9
  <1>7. WaylandStep => \/ ReadHint
                       \/ \E kind : Dispatch(kind) /\ (DataOffer \/ MimeType \/ kind \notin {"data_offer", "type"})
    BY DEF WaylandStep, DataOffer, MimeType, Finished, Lost, Skip, Take
  <1> QED BY <1>2, <1>3, <1>4, <1>5, <1>6, <1>7, Frames

-------------------------------------------------------------------------------
(* The transfers.                                                              *)

\* The handlers of the selection events work on the offer the event is of.
LEMMA SelectionEvent ==
  ASSUME Shape, TypeOK, Streaming, NEW kind \in {"selection", "primary"}, Dispatch(kind),
         Head(wire).offer # None
  PROVE  /\ current = Head(wire).offer /\ current \in Announced
         /\ Collected(types, current, Len(offers[current].types))
         /\ offers[current].types \in Seq(Type)
         /\ (kind = "primary" <=> offers[current].primary)
  <1>1. PICK p \in [1 .. Len(wire) -> Nat] :
          /\ Stream(p)
          /\ wire # << >> /\ p[1] > 0 => current = wire[1].offer /\ Collected(types, current, p[1] - 1)
    BY DEF Streaming
  <1>2. /\ Len(wire) \in Nat \ {0} /\ Head(wire) = wire[1] /\ wire[1] \in Events /\ wire[1].kind = kind
    BY Dispatched
  <1>3. PICK o : o = wire[1].offer
    OBVIOUS
  <1>4. Fits(wire[1], p[1])
    BY <1>1, <1>2 DEF Stream
  <1>5. /\ o \in Announced /\ p[1] = Last(o) /\ (kind = "primary" <=> offers[o].primary)
    BY <1>2, <1>3, <1>4, Placing
  <1>6. /\ offers[o].types \in Seq(Type) /\ Len(offers[o].types) \in Nat
        /\ Last(o) = Len(offers[o].types) + 1
    <2>1. offers[o] \in Source /\ o # None
      BY <1>5 DEF Shape, Announced, None
    <2> QED BY <2>1, SelectionAssumption DEF Last
  <1>7. wire # << >> /\ p[1] > 0 /\ p[1] - 1 = Len(offers[o].types)
    BY <1>2, <1>5, <1>6
  <1> QED BY <1>1, <1>2, <1>3, <1>5, <1>6, <1>7

\* While is_secret reads, the offer at hand stays, with its complete list.
LEMMA AskingStep ==
  ASSUME Shape, TypeOK, Streaming, Asking, Next \/ UNCHANGED vars
  PROVE  Asking'
  <1>1. ASSUME UNCHANGED <<current, types>>, main' = main, Announced \subseteq Announced',
               \A o \in Announced : offers'[o] = offers[o]
        PROVE  Asking'
    <2> SUFFICES ASSUME main = "hint"
                 PROVE  Asking'
      BY <1>1 DEF Asking
    <2>1. PICK o, ts, n : o = current /\ ts = types /\ n = Len(offers[o].types)
      OBVIOUS
    <2>2. o \in Announced /\ Collected(ts, o, n) /\ offers'[o] = offers[o]
      BY <1>1, <2>1 DEF Asking
    <2>3. Collected(ts, o, n)'
      BY <2>2, StillCollected
    <2> QED BY <1>1, <2>1, <2>2, <2>3 DEF Asking, Selected, Matches, First
  <1>2. CASE UNCHANGED <<wire, offers, device>> \/ Clear
    BY <1>1, <1>2 DEF device, Announced, Clear
  <1>3. CASE Announce
    <2>1. Announced \subseteq Announced' /\ \A o \in Announced : offers'[o] = offers[o]
      <3>1. Len(offers) \in Nat
        BY DEF Shape
      <3> QED BY <1>3, <3>1, AnnounceShape
    <2> QED BY <1>1, <1>3, <2>1 DEF Announce, device
  <1>4. CASE ReadHint
    <2>1. current # None
      BY <1>4 DEF ReadHint, Asking, Announced, None, TypeOK, Shape
    <2>2. main' = "loop"
      BY <1>4, <2>1 DEF ReadHint, Destroyed, Handled
    <2> QED BY <2>2 DEF Asking
  <1>5. ASSUME NEW kind \in {"selection", "primary"}, Take(kind), main' = "hint"
        PROVE  Asking'
    <2>1. /\ IgnoreSecrets /\ UNCHANGED <<current, types, offers>>
          /\ Wanted(kind) /\ Dispatch(kind)
      BY <1>5 DEF Take, Destroyed, Handled, Aborted, Dispatch
    <2>2. /\ current \in Announced /\ Collected(types, current, Len(offers[current].types))
          /\ (kind = "primary" <=> offers[current].primary)
      BY <2>1, SelectionEvent DEF Wanted
    <2>3. PICK o, ts, n : o = current /\ ts = types /\ n = Len(offers[o].types)
      OBVIOUS
    <2>4. Collected(ts, o, n)'
      BY <2>1, <2>2, <2>3, StillCollected
    <2> QED BY <2>1, <2>2, <2>3, <2>4 DEF Asking, Wanted, Selected, Matches, First, Announced
  <1>6. WaylandStep /\ ~ReadHint => \/ main' # "hint"
                                   \/ \E kind \in {"selection", "primary"} : Take(kind)
    BY DEF WaylandStep, DataOffer, MimeType, Finished, Lost, Skip, Destroyed, Handled, Aborted, Dispatch
  <1>7. main' # "hint" => Asking'
    BY DEF Asking
  <1> QED BY <1>2, <1>3, <1>4, <1>5, <1>6, <1>7, Frames

\* A step that does not touch a transfer leaves it as lawful as it was.
LEMMA StillLawful ==
  ASSUME NEW o, Lawful(o), offers'[o] = offers[o], chosen'[o] = chosen[o], transfer'[o] = transfer[o],
         Pipe(o) \in sources' => Pipe(o) \in sources
  PROVE  Lawful(o)'
  BY DEF Lawful, Right, BestOf, Kept, TellsSecret, Pipe

\* receive_offer on an offer to keep opens a lawful transfer.
LEMMA ReceivesLawfully ==
  ASSUME Shape, Transfers, current \in Announced, UNCHANGED offers, Receive,
         Collected(types, current, Len(offers[current].types)),
         offers[current].types \in Seq(Type), Selected(types) # None,
         offers[current].primary => Primary,
         ~(IgnoreSecrets /\ TellsSecret(offers[current]))
  PROVE  Transfers'
  <1> SUFFICES ASSUME NEW o \in Announced' PROVE Lawful(o)'
    BY DEF Transfers
  <1>1. o \in Announced /\ Lawful(o)
    BY DEF Announced, Transfers
  <1>2. CASE o # current
    <2>1. transfer'[o] = transfer[o] /\ chosen'[o] = chosen[o]
      BY <1>1, <1>2, Received
    <2>2. Pipe(o) \in sources' => Pipe(o) \in sources
      BY <1>2, Received, Descriptors
    <2> QED BY <1>1, <2>1, <2>2, StillLawful
  <1>3. CASE o = current
    <2>1. BestOf(Selected(types), offers[o].types)
      BY <1>3, SelectedIsBest
    <2>2. ~(IgnoreSecrets /\ TellsSecret(offers[o])') /\ (offers[o].primary)' = offers[o].primary
      BY <1>3 DEF TellsSecret, Kept
    <2>3. CASE transfer'[current] = "open" /\ chosen'[current] = Selected(types)
      <3>1. BestOf(chosen[o], offers[o].types)'
        BY <1>3, <2>1, <2>3 DEF BestOf, Kept
      <3> QED BY <1>3, <2>2, <2>3, <3>1 DEF Lawful, Right
    <2>4. CASE transfer'[current] = "dropped" /\ UNCHANGED <<chosen, sources>>
      <3>1. Pipe(o) \in sources => Right(o)
        BY <1>1 DEF Lawful
      <3>2. Right(o)' <=> Right(o)
        BY <2>4 DEF Right, BestOf, Kept
      <3> QED BY <1>3, <2>2, <2>4, <3>1, <3>2 DEF Lawful, Pipe
    <2> QED BY <2>3, <2>4, Received
  <1> QED BY <1>2, <1>3

\* Nor does a step that touches none.
LEMMA AllLawful ==
  ASSUME Transfers, Announced' = Announced, UNCHANGED <<offers, chosen, transfer>>,
         \A o \in Announced : Pipe(o) \in sources' => Pipe(o) \in sources
  PROVE  Transfers'
  <1> SUFFICES ASSUME NEW o \in Announced' PROVE Lawful(o)'
    BY DEF Transfers
  <1>1. o \in Announced /\ Lawful(o)
    BY DEF Transfers
  <1> QED BY <1>1, StillLawful

\* Every transfer is for the best type of its own offer, and of no secret.
LEMMA TransfersStep ==
  ASSUME Shape, TypeOK, Asking, Streaming, Batch, Transfers, Next \/ UNCHANGED vars
  PROVE  Transfers'
  <1>2. CASE LoopStep \/ Run \/ Signalled \/ Halt \/ UNCHANGED vars
    <2>1. UNCHANGED <<offers, chosen, transfer>> /\ Announced' = Announced
      BY <1>2, LoopFrames DEF pipes
    <2>2. sources' \subseteq sources \cup {Wayland, SignalSource}
      BY <1>2, LoopCases DEF EpollWait
    <2> QED BY AllLawful, <2>1, <2>2, Descriptors
  <1>3. CASE Announce
    <2>1. UNCHANGED sources
      BY <1>3 DEF Announce, loopVars
    <2> SUFFICES ASSUME NEW o \in Announced' PROVE Lawful(o)'
      BY DEF Transfers
    <2>2. CASE o \in Announced
      <3>1. offers'[o] = offers[o] /\ transfer'[o] = transfer[o] /\ chosen'[o] = chosen[o]
        BY <1>3, <2>2, AnnounceShape
      <3> QED BY <2>1, <2>2, <3>1, StillLawful DEF Transfers
    <2>3. CASE o \notin Announced
      <3>1. transfer'[o] = "none"
        <4>1. o \in 1 .. Len(offers) + 1 /\ o \notin 1 .. Len(offers)
          BY <1>3, <2>3, AnnounceShape
        <4>2. Len(offers) \in Nat
          BY DEF Shape
        <4>3. o = Len(offers) + 1
          BY <4>1, <4>2
        <4> QED BY <1>3, <4>3, AnnounceShape
      <3>2. Pipe(o) \notin sources'
        BY <2>1, <2>3, Descriptors DEF Batch
      <3> QED BY <3>1, <3>2 DEF Lawful, Pipe
    <2> QED BY <2>2, <2>3
  <1>4. CASE Clear
    BY AllLawful, <1>4 DEF Clear, pipes, loopVars, Announced
  <1>5. CASE \E o \in Announced : Write(o) \/ CloseEnd(o)
    BY AllLawful, <1>5, SourceShape DEF Write, CloseEnd, loopVars, pipes
  <1>6. CASE ReadHint
    <2>1. UNCHANGED offers /\ main = "hint" /\ Announced' = Announced
      BY <1>6 DEF ReadHint, Announced
    <2>2. CASE UNCHANGED <<pipes, sources>>
      BY AllLawful, <2>1, <2>2 DEF pipes
    <2>3. CASE offers[current].hint \in {"other", "split"} /\ Receive
      <3>1. /\ current \in Announced /\ Collected(types, current, Len(offers[current].types))
            /\ Selected(types) # None /\ (offers[current].primary => Primary)
        BY <2>1 DEF Asking
      <3>2. offers[current].types \in Seq(Type)
        BY <3>1, SelectionAssumption DEF TypeOK
      <3>3. ~TellsSecret(offers[current])
        BY <2>3 DEF TellsSecret
      <3> QED BY <2>1, <2>3, <3>1, <3>2, <3>3, ReceivesLawfully
    <2> QED BY <1>6, <2>2, <2>3 DEF ReadHint
  <1>7. ASSUME NEW kind \in {"selection", "primary"}, Take(kind), UNCHANGED sources => chosen' # chosen \/ transfer' # transfer
        PROVE  Transfers'
    <2>1. Dispatch(kind) /\ Wanted(kind) /\ UNCHANGED offers
      BY <1>7 DEF Take
    <2>2. Receive /\ ~(IgnoreSecrets /\ HasHint(types))
      BY <1>7 DEF Take, pipes
    <2>3. /\ current \in Announced /\ Collected(types, current, Len(offers[current].types))
          /\ offers[current].types \in Seq(Type)
          /\ (kind = "primary" <=> offers[current].primary)
      BY <2>1, SelectionEvent DEF Wanted
    <2>4. ~(IgnoreSecrets /\ TellsSecret(offers[current]))
      BY <2>2, <2>3, HintIsSeen
    <2>5. Selected(types) # None /\ (offers[current].primary => Primary)
      BY <2>1, <2>3 DEF Wanted
    <2> QED BY <2>1, <2>2, <2>3, <2>4, <2>5, ReceivesLawfully
  <1>8. CASE WaylandStep /\ ~ReadHint
    <2>1. UNCHANGED offers /\ Announced' = Announced
      BY <1>8, WaylandFrames
    <2>2. CASE UNCHANGED <<transfer, chosen, sources>>
      BY AllLawful, <2>1, <2>2
    <2>3. CASE ~UNCHANGED <<transfer, chosen, sources>>
      <3>1. PICK kind \in {"selection", "primary"} : Take(kind)
        BY <1>8, <2>3 DEF WaylandStep, DataOffer, MimeType, Finished, Lost, Skip, pipes
      <3> QED BY <1>7, <2>3, <3>1
    <2> QED BY <2>2, <2>3
  <1>9. ASSUME NEW o \in Announced, PipeStep(o)
        PROVE  Transfers'
    <2> SUFFICES ASSUME NEW x \in Announced' PROVE Lawful(x)'
      BY DEF Transfers
    <2>1. /\ x \in Announced /\ Lawful(x)
          /\ offers' = offers /\ chosen' = chosen /\ sources' \subseteq sources
      BY <1>9 DEF PipeStep, ReadPipe, Finish, PipeFails, OnPipe, Announced, Transfers
    <2>2. CASE transfer'[x] = transfer[x]
      BY <2>1, <2>2, StillLawful
    <2>3. CASE transfer'[x] # transfer[x]
      <3>1. x = o /\ transfer'[x] \in {"dropped", "queued"}
        BY <1>9, <2>1, <2>3, PipeShape
      <3>2. Pipe(o) \in sources
        BY <1>9 DEF PipeStep, ReadPipe, Finish, PipeFails, OnPipe, Batch
      <3>3. Right(x) /\ ~(IgnoreSecrets /\ TellsSecret(offers[x]))
        BY <2>1, <3>1, <3>2 DEF Lawful
      <3>4. Right(x)' /\ ~(IgnoreSecrets /\ TellsSecret(offers[x])')
        BY <2>1, <3>3 DEF Right, BestOf, Kept, TellsSecret
      <3> QED BY <3>1, <3>4 DEF Lawful
    <2> QED BY <2>2, <2>3
  <1> QED BY <1>2, <1>3, <1>4, <1>5, <1>6, <1>8, <1>9, StepCases

-------------------------------------------------------------------------------
(* The theorems.                                                               *)

\* At startup nothing is announced, registered or in hand.
LEMMA InitInv ==
  ASSUME Init
  PROVE  SelectionInv
  <1> USE DEF Init, LoopInit
  <1>1. Announced = {} /\ Len(wire) = 0 /\ Len(Signals) \in Nat
    BY EventLoopAssumption DEF Announced
  <1>2. IsFiniteSet(batch) /\ Cardinality(batch) = 0
    BY FS_EmptySet
  <1>3. TypeOK
    <2>1. LoopTypeOK
      <3>1. Cardinality(batch) <= MaxEvents
        BY <1>2, EventLoopAssumption
      <3>2. added \in 0 .. Len(Signals) /\ faults \in 0 .. MaxFaults /\ signals \in 0 .. MaxSignals
        BY <1>1, EventLoopAssumption
      <3>3. table \cup mask \cup blocked \cup pending = {}
        OBVIOUS
      <3> QED BY <3>1, <3>2, <3>3 DEF LoopTypeOK
    <2>2. current \in {None} \cup Announced /\ left \in 0 .. Len(wire)
      BY <1>1
    <2>3. {wire[i] : i \in DOMAIN wire} = {}
      OBVIOUS
    <2>4. DOMAIN transfer = {} /\ DOMAIN chosen = {} /\ DOMAIN sent = {} /\ DOMAIN closed = {} /\ DOMAIN got = {}
      OBVIOUS
    <2> QED BY <1>1, <2>1, <2>2, <2>3, <2>4 DEF TypeOK
  <1>4. Shape
    <2>1. \A S : << >> \in Seq(S) /\ << >> \in [{} -> S]
      OBVIOUS
    <2> QED BY <1>1, <2>1 DEF Shape
  <1>5. Polled /\ BlockedIsServed
    BY DEF Polled, BlockedIsServed
  <1>6. Batch
    BY <1>2, EventLoopAssumption DEF Batch
  <1>7. WholePayload /\ Asking /\ Transfers
    BY <1>1 DEF WholePayload, Asking, Transfers
  <1>8. Streaming
    <2>1. PICK p : p = [i \in 1 .. 0 |-> 0]
      OBVIOUS
    <2>2. p \in [1 .. Len(wire) -> Nat] /\ wire = << >>
      BY <1>1, <2>1
    <2>3. Stream(p)
      BY <1>1 DEF Stream
    <2> QED BY <2>2, <2>3 DEF Streaming
  <1> QED BY <1>3, <1>4, <1>5, <1>6, <1>7, <1>8 DEF SelectionInv

\* Every step keeps the invariant.
LEMMA StepInv ==
  ASSUME SelectionInv, Next \/ UNCHANGED vars
  PROVE  SelectionInv'
  <1> USE DEF SelectionInv
  <1>1. Shape'
    BY ShapeStep
  <1>2. Batch'
    BY BatchStep
  <1>3. Polled' /\ BlockedIsServed'
    BY SignalsStep
  <1>4. WholePayload'
    BY WholeStep
  <1>5. Streaming'
    BY StreamingStep
  <1>6. Asking'
    BY AskingStep
  <1>7. Transfers'
    BY TransfersStep
  <1>8. TypeOK'
    BY <1>1, <1>2, <1>5, TypesStep
  <1> QED BY <1>1, <1>2, <1>3, <1>4, <1>5, <1>6, <1>7, <1>8

\* SelectionInv is an invariant: whatever clients copy, clear, write and close, whatever
\* fails and however the callbacks interleave.
THEOREM SelectionInvariant == Spec => []SelectionInv
  <1>1. SelectionInv /\ [Next]_vars => SelectionInv'
    BY StepInv
  <1> QED BY InitInv, <1>1, PTL DEF Spec

\* The variables have the types of what they stand for, in any reachable state.
THEOREM SelectionTypes == Spec => []TypeOK
  <1>1. SelectionInv => TypeOK
    BY DEF SelectionInv
  <1> QED BY <1>1, SelectionInvariant, PTL

\* A transfer asks for the best type of its own offer's list: wayland.offer.mime_types,
\* which all offers share, is never of another offer when receive_offer reads it.
THEOREM FromItsOfferTheorem == Spec => []FromItsOffer
  <1>1. SelectionInv => FromItsOffer
    BY DEF SelectionInv, Transfers, Lawful, Right, FromItsOffer
  <1> QED BY <1>1, SelectionInvariant, PTL

\* on_pipe_ready queues everything the source wrote before it closed, and no less than
\* min_data_size.
THEOREM WholePayloadTheorem == Spec => []WholePayload
  <1>1. SelectionInv => WholePayload
    BY DEF SelectionInv
  <1> QED BY <1>1, SelectionInvariant, PTL

\* Nothing is received of an offer whose source says in one write that it is secret.
THEOREM SecretsIgnoredTheorem == Spec => []SecretsIgnored
  <1>1. SelectionInv => SecretsIgnored
    BY DEF SelectionInv, Transfers, Lawful, SecretsIgnored
  <1> QED BY <1>1, SelectionInvariant, PTL

\* The loop never dispatches an event of a source that a callback before it has removed.
THEOREM NoStaleSourceTheorem == Spec => []NoStaleSource
  <1>1. SelectionInv => NoStaleSource
    BY DEF SelectionInv, Batch, NoStaleSource
  <1> QED BY <1>1, SelectionInvariant, PTL

\* The signals kept from their default action are those the loop serves, whichever calls
\* of pollen_loop_add_signal fail and wherever in it.
THEOREM BlockedIsServedTheorem == Spec => []BlockedIsServed
  <1>1. SelectionInv => BlockedIsServed
    BY DEF SelectionInv
  <1> QED BY <1>1, SelectionInvariant, PTL

\* The handlers of the selection events never destroy, or receive from, no offer: the
\* only events cclipd dies of are finished and the loss of the compositor.
THEOREM NoNullOfferTheorem == Spec => NoNullOffer
  <1>1. ASSUME SelectionInv, Next, loop' = "killed", wire' # wire
        PROVE  Head(wire).kind \in {"finished", "lost"}
    <2>1. WaylandStep
      <3>1. Announce => loop = "run" /\ loop' = loop
        BY DEF Announce, loopVars
      <3>2. Clear => loop = "run" /\ loop' = loop
        BY DEF Clear, loopVars
      <3> QED BY <1>1, <3>1, <3>2, Frames
    <2>2. ~ReadHint
      BY <1>1 DEF ReadHint
    <2>3. loop = "run"
      BY <1>1, <2>1, WaylandFrames DEF SelectionInv
    <2>4. ASSUME NEW kind \in {"selection", "primary"}, Skip(kind) \/ Take(kind), kind # "finished"
          PROVE  FALSE
      <3>1. Dispatch(kind)
        BY <2>4 DEF Skip, Take
      <3>2. Head(wire).offer # None => current \in Announced /\ current # None
        BY <1>1, <3>1, SelectionEvent DEF SelectionInv, Shape, Announced, None
      <3>3. Destroyed /\ current = None /\ Head(wire).offer # None
        BY <1>1, <2>3, <2>4 DEF Skip, Take, Destroyed, Handled, Returned, Wanted
      <3> QED BY <3>2, <3>3
    <2>5. DataOffer \/ MimeType => loop' # "killed"
      BY <2>3 DEF DataOffer, MimeType, Handled, Returned
    <2> QED BY <1>1, <2>1, <2>2, <2>4, <2>5 DEF WaylandStep, Finished, Lost, Dispatch
  <1>2. SelectionInv /\ [Next]_vars => [loop' = "killed" /\ wire' # wire => Head(wire).kind \in {"finished", "lost"}]_vars
    BY <1>1
  <1> QED BY <1>2, SelectionInvariant, PTL DEF Spec, NoNullOffer
===============================================================================
