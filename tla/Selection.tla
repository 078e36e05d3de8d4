------------------------------ MODULE Selection ------------------------------
(* How cclipd receives clipboard contents (src/cclipd/wayland.c): Wayland       *)
(* events announce an offer, its MIME types and the selection it is for;        *)
(* receive_offer picks a type and opens a pipe, and on_pipe_ready collects what *)
(* the source client writes and hands it to queue_for_insertion.  All of it     *)
(* runs in callbacks of the event loop, on one thread; the compositor and the   *)
(* source clients are the environment, and any number of transfers may be open. *)
EXTENDS EventLoop

CONSTANTS Type,        \* MIME types
          Source,      \* what can be offered: records [types, primary, hint]
          Patterns,    \* config.accepted_mime_types: a sequence of the sets fnmatch accepts
          HintType,    \* "x-kde-passwordManagerHint"
          TooLong,     \* MIME types of more than 255 bytes
          Primary,     \* config.primary_selection
          IgnoreSecrets, \* config.ignore_secrets
          MinSize,     \* config.min_data_size
          MaxOffers,   \* bound: offers announced
          MaxInputs,   \* bound: offers, signals and startup failures together
          MaxBytes     \* bound: pieces of data a source writes to one pipe

\* The hint of a source: what it answers to a request for HintType.  "split" is the
\* word secret in two writes, "mute" no answer and no close.
Hint == {"secret", "other", "split", "mute"}

None == 0

ASSUME SelectionAssumption ==
  /\ None \notin Type /\ HintType \in Type /\ TooLong \subseteq Type
  /\ Patterns \in Seq(SUBSET Type)
  /\ \A s \in Source : s.types \in Seq(Type) /\ s.primary \in BOOLEAN /\ s.hint \in Hint
  /\ {Primary, IgnoreSecrets} \subseteq BOOLEAN
  /\ {MinSize, MaxOffers, MaxInputs, MaxBytes} \subseteq Nat

VARIABLES
  wire,      \* events the compositor has sent, oldest first
  offers,    \* the sources announced so far; offer o is offers[o]
  current,   \* wayland.offer.offer, None if NULL
  types,     \* wayland.offer.mime_types
  left,      \* events wl_display_dispatch has read and not dispatched yet
  main,      \* "loop", or "hint" in the read of is_secret
  transfer,  \* per offer announced: "none", "open", "queued" or "dropped"
  chosen,    \* per offer: od->type, None before the transfer
  sent,      \* per offer: pieces its source has written to the pipe
  closed,    \* per offer: the source has closed its end
  got,       \* per offer: od->data.size, in pieces
  queued     \* what queue_for_insertion was given: [offer, type, size]

device == <<current, types, left, main>>
pipes  == <<transfer, chosen, sent, closed, got>>
vars   == <<wire, offers, device, pipes, queued, loopVars>>

Announced == DOMAIN offers

\* The callbacks of this file: on_wayland_events and, per transfer, on_pipe_ready.
Wayland == <<"wayland", 0>>
Pipe(o) == <<"pipe", o>>

Init == /\ LoopInit
        /\ wire = << >> /\ offers = << >> /\ queued = << >>
        /\ current = None /\ types = << >> /\ left = 0 /\ main = "loop"
        /\ transfer = << >> /\ chosen = << >> /\ sent = << >> /\ closed = << >> /\ got = << >>

Within == Len(offers') + faults' + signals' <= MaxInputs

\* wayland_init does not look whether its descriptor could be added.
Run == /\ \/ RunLoop({Wayland}) /\ UNCHANGED counts
          \/ RunLoop({}) /\ Fault
       /\ UNCHANGED <<wire, offers, device, pipes, queued>>
       /\ Within

-------------------------------------------------------------------------------
(* The environment.                                                            *)

Event(kind, o, t) == [kind |-> kind, offer |-> o, type |-> t]

\* A client copies.  The protocol has data_offer and the MIME types sent immediately
\* before the selection event they are for.
Announce == /\ loop = "run" /\ Len(offers) < MaxOffers
            /\ \E s \in Source :
                 LET o == Len(offers) + 1 IN
                 /\ offers' = Append(offers, s)
                 /\ wire' = wire \o <<Event("data_offer", o, None)>>
                                 \o [j \in DOMAIN s.types |-> Event("type", o, s.types[j])]
                                 \o <<Event(IF s.primary THEN "primary" ELSE "selection", o, None)>>
            /\ transfer' = Append(transfer, "none")
            /\ chosen' = Append(chosen, None)
            /\ sent' = Append(sent, 0)
            /\ closed' = Append(closed, FALSE)
            /\ got' = Append(got, 0)
            /\ UNCHANGED <<device, queued, loopVars>>
            /\ Within

\* A selection is cleared, or the compositor takes the data device away or goes away.
Clear == /\ loop = "run" /\ wire = << >>
         /\ \E kind \in {"selection", "primary", "finished", "lost"} :
              wire' = <<Event(kind, None, None)>>
         /\ UNCHANGED <<offers, device, pipes, queued, loopVars>>

\* The source writes to the pipe it was sent, and closes it when it is done or dies.
Write(o) == /\ loop = "run" /\ transfer[o] = "open" /\ ~closed[o]
            /\ sent[o] < MaxBytes
            /\ sent' = [sent EXCEPT ![o] = @ + 1]
            /\ UNCHANGED <<wire, offers, device, transfer, chosen, closed, got, queued, loopVars>>

CloseEnd(o) == /\ loop = "run" /\ transfer[o] = "open" /\ ~closed[o]
               /\ closed' = [closed EXCEPT ![o] = TRUE]
               /\ UNCHANGED <<wire, offers, device, transfer, chosen, sent, got, queued, loopVars>>

-------------------------------------------------------------------------------
(* Wayland events.  One callback of on_wayland_events reads what has arrived and *)
(* dispatches those events in order.                                             *)

WaylandEvent == CHOOSE e \in batch : e.source = Wayland

\* The callback ends with the last event it has read.
Handled == /\ IF left' = 0 THEN Returned(WaylandEvent) ELSE UNCHANGED <<batch, loop>>
           /\ main' = "loop"

Aborted == loop' = "killed" /\ UNCHANGED <<batch, main>>

Dispatch(kind) == /\ loop = "run" /\ main = "loop"
                  /\ \E e \in batch : e.source = Wayland
                  /\ wire # << >> /\ Head(wire).kind = kind
                  /\ wire' = Tail(wire)
                  /\ \E n \in IF left = 0 THEN 1 .. Len(wire) ELSE {left} : left' = n - 1
                  /\ UNCHANGED <<quit, signalVars, pending, counts>>

\* Mutant of DataOffer: the types of the previous offer stay.
DataOfferKeepsTypes == /\ Dispatch("data_offer")
                       /\ current' = Head(wire).offer
                       /\ Handled
                       /\ UNCHANGED <<types, offers, pipes, queued, sources>>

DataOffer == /\ Dispatch("data_offer")
             /\ current' = Head(wire).offer
             /\ types' = << >>
             /\ Handled
             /\ UNCHANGED <<offers, pipes, queued, sources>>

MimeType == /\ Dispatch("type")
            /\ types' = IF Head(wire).type \in TooLong THEN types
                        ELSE Append(types, Head(wire).type)
            /\ Handled
            /\ UNCHANGED <<offers, current, pipes, queued, sources>>

\* The data device has no handler for finished: libwayland aborts the process.
Finished == /\ Dispatch("finished")
            /\ Aborted
            /\ UNCHANGED <<offers, current, types, pipes, queued, sources>>

\* wl_display_dispatch fails: the callback returns -1, unless logging errno with %s has
\* killed the process.
Lost == /\ Dispatch("lost")
        /\ \/ Failed /\ UNCHANGED main
           \/ Aborted
        /\ UNCHANGED <<offers, current, types, pipes, queued, sources>>

\* Pairs of a pattern and an offered type it accepts, in the order receive_offer
\* tries them: pattern by pattern.
Matches(ts) == {m \in (DOMAIN Patterns) \X (DOMAIN ts) : ts[m[2]] \in Patterns[m[1]]}

First(pairs) == CHOOSE m \in pairs : \A n \in pairs : m[1] < n[1] \/ (m[1] = n[1] /\ m[2] <= n[2])

Selected(ts) == IF Matches(ts) = {} THEN None ELSE ts[First(Matches(ts))[2]]

HasHint(ts) == \E j \in DOMAIN ts : ts[j] = HintType

\* receive_offer past the tests: a pipe, the receive request and a source in the
\* event loop; if one of them fails there is no transfer.
Receive == \/ /\ transfer' = [transfer EXCEPT ![current] = "open"]
              /\ chosen' = [chosen EXCEPT ![current] = Selected(types)]
              /\ sources' = sources \cup {Pipe(current)}
           \/ /\ transfer' = [transfer EXCEPT ![current] = "dropped"]
              /\ UNCHANGED <<chosen, sources>>

\* The end of common_selection_handler: the offer is destroyed; NULL is not an offer
\* libwayland can destroy, or receive from.
Destroyed == /\ IF current = None THEN Aborted ELSE Handled
             /\ current' = None

\* The handlers look at the event's offer only to see whether there is one; the offer
\* they work on is wayland.offer.
Wanted(kind) == /\ Head(wire).offer # None /\ current # None
                /\ kind = "primary" => Primary
                /\ Selected(types) # None

\* Mutant of Skip: a selection that was cleared is handled like any other.
SkipCleared(kind) == /\ Dispatch(kind)
                     /\ ~Wanted(kind)
                     /\ Destroyed
                     /\ UNCHANGED <<offers, types, pipes, queued, sources>>

\* The selection was cleared, or is not one to keep: primary without -p, or no type
\* is accepted.
Skip(kind) == /\ Dispatch(kind)
              /\ ~Wanted(kind)
              /\ IF Head(wire).offer = None THEN Handled /\ UNCHANGED current ELSE Destroyed
              /\ UNCHANGED <<offers, types, pipes, queued, sources>>

\* Mutants of Take: is_secret is never asked; a new transfer cancels older ones.
TakeAnything(kind) == /\ Dispatch(kind)
                      /\ Wanted(kind)
                      /\ Receive /\ Destroyed
                      /\ UNCHANGED <<offers, types, sent, closed, got, queued>>

TakeCancelsOlder(kind) ==
  /\ Dispatch(kind)
  /\ Wanted(kind)
  /\ IF HasHint(types) THEN UNCHANGED <<transfer, chosen, sources>> ELSE
       /\ transfer' = [o \in Announced |-> IF o = current THEN "open"
                                           ELSE IF transfer[o] = "open" THEN "dropped" ELSE transfer[o]]
       /\ chosen' = [chosen EXCEPT ![current] = Selected(types)]
       /\ sources' = {Wayland, SignalSource, Pipe(current)}
  /\ Destroyed
  /\ UNCHANGED <<offers, types, sent, closed, got, queued>>

\* An offer to keep: it is received at once, unless is_secret must first ask its
\* source for the hint (or cannot make a pipe for that, and takes it for a secret).
Take(kind) == /\ Dispatch(kind)
              /\ Wanted(kind)
              /\ IF IgnoreSecrets /\ HasHint(types)
                   THEN /\ \/ main' = "hint" /\ UNCHANGED <<current, batch, loop>>
                           \/ Destroyed
                        /\ UNCHANGED <<pipes, sources>>
                   ELSE Receive /\ Destroyed /\ UNCHANGED <<sent, closed, got>>
              /\ UNCHANGED <<offers, types, queued>>

\* The read of is_secret blocks the only thread until the source has written or
\* closed, and is made once.
ReadHint == /\ loop = "run" /\ main = "hint"
            /\ UNCHANGED <<wire, offers, types, left, queued, quit, signalVars, pending, counts>>
            /\ \/ /\ offers[current].hint \in {"secret", "split"}
                  /\ UNCHANGED <<pipes, sources>>
               \/ /\ offers[current].hint \in {"other", "split"}
                  /\ Receive
                  /\ UNCHANGED <<sent, closed, got>>
            /\ Destroyed

-------------------------------------------------------------------------------
(* on_pipe_ready: everything that is in the pipe is read; with EPOLLHUP among    *)
(* the events epoll_wait has returned the transfer is over.                      *)

OnPipe(o, e) == /\ Serving(e) /\ main = "loop" /\ left = 0
                /\ e.source = Pipe(o)
                /\ Returned(e)
                /\ UNCHANGED <<wire, offers, device, chosen, sent, closed,
                               quit, signalVars, pending, counts>>

\* Mutant of ReadPipe: the bytes read before are counted again.
ReadPipeAgain(o, e) == /\ OnPipe(o, e) /\ ~e.hup
                       /\ got' = [got EXCEPT ![o] = @ + sent[o]]
                       /\ UNCHANGED <<transfer, queued, sources>>

ReadPipe(o, e) == /\ OnPipe(o, e) /\ ~e.hup
                  /\ got' = [got EXCEPT ![o] = sent[o]]
                  /\ UNCHANGED <<transfer, queued, sources>>

\* A transfer over: too small to keep, or handed to queue_for_insertion.
Concluded(o) == IF got'[o] = 0 \/ got'[o] < MinSize
                  THEN transfer' = [transfer EXCEPT ![o] = "dropped"] /\ UNCHANGED queued
                  ELSE /\ transfer' = [transfer EXCEPT ![o] = "queued"]
                       /\ queued' = Append(queued, [offer |-> o, type |-> chosen[o], size |-> got'[o]])

\* Mutants of Finish: what is in the pipe with the HUP is not read; the event source of
\* a transfer too small to keep is not removed.
FinishUnread(o, e) == /\ OnPipe(o, e) /\ e.hup
                      /\ UNCHANGED got
                      /\ Concluded(o)
                      /\ sources' = sources \ {Pipe(o)}

FinishKeepsSmall(o, e) == /\ OnPipe(o, e) /\ e.hup
                          /\ got' = [got EXCEPT ![o] = sent[o]]
                          /\ IF got'[o] < MinSize THEN UNCHANGED <<transfer, queued, sources>>
                             ELSE Concluded(o) /\ sources' = sources \ {Pipe(o)}

Finish(o, e) == /\ OnPipe(o, e) /\ e.hup
                /\ got' = [got EXCEPT ![o] = sent[o]]
                /\ Concluded(o)
                /\ sources' = sources \ {Pipe(o)}

\* FIONREAD or read fails.
PipeFails(o, e) == /\ OnPipe(o, e)
                   /\ transfer' = [transfer EXCEPT ![o] = "dropped"]
                   /\ sources' = sources \ {Pipe(o)}
                   /\ UNCHANGED <<got, queued>>

-------------------------------------------------------------------------------
\* What epoll finds: the events the compositor has sent, and pipes with data or without
\* a writer.
Ready == {[source |-> s, hup |-> FALSE] : s \in {Wayland} \cap sources \cap
                                               IF wire = << >> THEN {} ELSE {Wayland}}
         \cup {[source |-> Pipe(o), hup |-> closed[o]] :
                 o \in {p \in Announced : Pipe(p) \in sources /\ (sent[p] > got[p] \/ closed[p])}}

LoopStep == /\ \/ Startup \/ EpollWait(Ready) \/ LoopReturns
               \/ main = "loop" /\ left = 0 /\ \E e \in batch : OnSignal(e)
            /\ UNCHANGED <<wire, offers, device, pipes, queued>>
            /\ Within

WaylandStep == \/ DataOffer \/ MimeType \/ Finished \/ Lost \/ ReadHint
               \/ \E kind \in {"selection", "primary"} : Skip(kind) \/ Take(kind)

PipeStep(o) == \E e \in batch : ReadPipe(o, e) \/ Finish(o, e) \/ PipeFails(o, e)

\* The main thread of cclipd.
MainStep == LoopStep \/ Run \/ WaylandStep \/ \E o \in Announced : PipeStep(o)

Signalled == /\ \E i \in DOMAIN Signals : SendSignal(Signals[i])
             /\ UNCHANGED <<wire, offers, device, pipes, queued>>
             /\ Within

Environment == Announce \/ Clear \/ Signalled \/ \E o \in Announced : Write(o) \/ CloseEnd(o)

\* The loop is in a callback that will never return: the read of a hint that is not
\* answered (is_secret), or the join of a thread that missed its signal (on_sigusr1).
Unanswered == main = "hint" /\ offers[current].hint = "mute"
Stuck      == Unanswered \/ loop = "hung"

Halt == (~Alive \/ Stuck) /\ UNCHANGED vars

Next == MainStep \/ Environment \/ Halt

Spec == Init /\ [][Next]_vars

\* The main thread runs when it can.  Nothing is assumed of the environment; a source
\* whose hint is "mute" leaves the thread in a read that never returns.
FairSpec == Spec /\ WF_vars(MainStep)

-------------------------------------------------------------------------------
(* Properties.                                                                  *)

TypeOK == /\ LoopTypeOK
          /\ \A e \in {wire[i] : i \in DOMAIN wire} : e.offer \in {None} \cup Announced
          /\ current \in {None} \cup Announced
          /\ left \in 0 .. Len(wire)
          /\ main \in {"loop", "hint"}
          /\ DOMAIN transfer = Announced /\ DOMAIN chosen = Announced /\ DOMAIN sent = Announced
          /\ DOMAIN closed = Announced /\ DOMAIN got = Announced
          /\ \A o \in Announced : /\ offers[o] \in Source
                                  /\ transfer[o] \in {"none", "open", "queued", "dropped"}
                                  /\ got[o] <= sent[o] /\ sent[o] <= MaxBytes
                                  /\ closed[o] \in BOOLEAN

\* The types of ts that cclipd looks at.
Kept(ts) == {j \in DOMAIN ts : ts[j] \notin TooLong}

\* t is the first type of ts that the first pattern to accept any of them accepts.
BestOf(t, ts) == \E i \in DOMAIN Patterns, j \in Kept(ts) :
                   /\ t = ts[j] /\ t \in Patterns[i]
                   /\ \A k \in Kept(ts) : /\ \A h \in 1 .. i - 1 : ts[k] \notin Patterns[h]
                                          /\ k < j => ts[k] \notin Patterns[i]

\* The source offers the hint, and cclipd sees it.
TellsSecret(s) == s.hint = "secret" /\ \E j \in Kept(s.types) : s.types[j] = HintType

\* A transfer asks for the best type of its own offer's list, and is not of a primary
\* selection nobody asked for: the list in wayland.offer, which all offers share, never
\* holds types of another offer, however announcements, transfers and failures
\* interleave.
FromItsOffer == \A o \in Announced : transfer[o] \in {"open", "queued"} =>
                  /\ BestOf(chosen[o], offers[o].types)
                  /\ offers[o].primary => Primary

\* What is queued is everything its source wrote before it closed the pipe, and no
\* less than min_data_size, even if the close falls between epoll_wait and the read.
WholePayload == \A i \in DOMAIN queued :
                  LET o == queued[i].offer IN
                  closed[o] /\ queued[i].size = sent[o] /\ queued[i].size >= MinSize

\* Nothing of an offer is received whose source says, in one write, that it is secret.
SecretsIgnored == IgnoreSecrets => \A o \in Announced :
                    TellsSecret(offers[o]) => transfer[o] = "none"

\* No selection event finds wayland.offer empty, cleared selections included: the only
\* events cclipd dies of are finished and the loss of the compositor.
NoNullOffer == [][loop' = "killed" /\ wire' # wire => Head(wire).kind \in {"finished", "lost"}]_vars

Open(o) == o \in Announced /\ transfer[o] = "open"

\* A transfer whose source is done is queued or dropped in the end, whatever other
\* clients and signals do, as long as the process lives and no callback is stuck.
ClosedIsHandled == \A o \in 1 .. MaxOffers :
                     (Open(o) /\ closed[o]) ~> (~Open(o) \/ ~Alive \/ Stuck)

\* The same without an exception for the hint: what the comment at wayland.c:151 takes for
\* granted, that waiting for the answer costs no transfer anything.
HintCostsNothing == \A o \in 1 .. MaxOffers :
                      (Open(o) /\ closed[o]) ~> (~Open(o) \/ ~Alive \/ loop = "hung")

\* A signal to quit that was sent ends the process, with whatever other signals, offers
\* and transfers it meets or merges, unless a callback is stuck before it is served: that
\* of a SIGUSR1, or the read of a hint.  (A signalfd that could not be polled is excepted.)
QuitEnds == \A s \in Quitting : (s \in pending /\ signalFd = "open") ~> (~Alive \/ Stuck)
===============================================================================
