------------------------------- MODULE EventLoop -------------------------------
(* The event loop of cclipd (thirdparty/pollen/pollen.h, as cclipd uses it):    *)
(* descriptors registered with epoll, one signalfd behind which all signals     *)
(* come in, and callbacks that run one after the other for the batch of events  *)
(* one epoll_wait returned.  The module has the loop's state and steps; what a  *)
(* callback does is up to the module that extends it.                           *)
EXTENDS Naturals, Sequences, FiniteSets

CONSTANTS Signals,    \* the signals main adds, in that order
          Quitting,   \* those whose callback is on_sigint_sigterm; the rest is SIGUSR1
          MaxEvents,  \* POLLEN_EPOLL_MAX_EVENTS
          MaxFaults,  \* bound: system calls of the startup that fail
          MaxSignals  \* bound: signals sent

ASSUME EventLoopAssumption ==
  /\ Signals \in Seq({Signals[i] : i \in DOMAIN Signals})
  /\ \A i, j \in DOMAIN Signals : Signals[i] = Signals[j] => i = j
  /\ Quitting \subseteq {Signals[i] : i \in DOMAIN Signals}
  /\ MaxEvents \in Nat \ {0} /\ {MaxFaults, MaxSignals} \subseteq Nat

VARIABLES
  loop,      \* "setup", "run", "hung" (in a callback that never returns); "ended" (asked
             \* to quit), "failed" (a callback did), "killed" (a signal, or an abort)
  sources,   \* descriptors in the epoll set, as pairs <<callback, data>>
  batch,     \* events epoll_wait returned, not dispatched yet: [source, hup]
  quit,      \* should_quit
  added,     \* calls of pollen_loop_add_signal made
  signalFd,  \* "none"; "open"; or "dangling": a signalfd nobody polls, signal_sources freed
  table,     \* signals with an entry in signal_sources
  mask,      \* the signals the signalfd reports, loop->sigset
  blocked,   \* the process's signal mask
  pending,   \* signals sent and not consumed; one that is pending already is merged
  faults, signals  \* what MaxFaults and MaxSignals count

signalVars == <<added, signalFd, table, mask, blocked>>
counts     == <<faults, signals>>
loopVars   == <<loop, sources, batch, quit, signalVars, pending, counts>>

\* The signalfd, with pollen_internal_signal_handler.
SignalSource == <<"signal", 0>>

Alive == loop \in {"setup", "run", "hung"}

LoopTypeOK == /\ loop \in {"setup", "run", "hung", "ended", "failed", "killed"}
              /\ \A e \in batch : e.hup \in BOOLEAN
              /\ Cardinality(batch) <= MaxEvents
              /\ quit \in BOOLEAN
              /\ added \in 0 .. Len(Signals)
              /\ signalFd \in {"none", "open", "dangling"}
              /\ table \cup mask \cup blocked \cup pending \subseteq {Signals[i] : i \in DOMAIN Signals}
              /\ faults \in 0 .. MaxFaults /\ signals \in 0 .. MaxSignals

\* pollen_loop_create, and pollen_loop_run not called yet.
LoopInit == /\ loop = "setup" /\ sources = {} /\ batch = {} /\ quit = FALSE
            /\ added = 0 /\ signalFd = "none"
            /\ table = {} /\ mask = {} /\ blocked = {} /\ pending = {}
            /\ faults = 0 /\ signals = 0

-------------------------------------------------------------------------------
(* Startup: pollen_loop_add_signal once per signal.  main looks at no result.   *)

Fault == faults < MaxFaults /\ faults' = faults + 1 /\ UNCHANGED signals

Adding(s) == /\ loop = "setup" /\ added < Len(Signals)
             /\ s = Signals[added + 1]
             /\ added' = added + 1

\* The first call sets up the signalfd.  With a signalfd whose set-up failed half way the
\* call writes to freed memory: the process dies or the signal is blocked for a
\* descriptor that nobody polls.
AddSignal(s) == /\ Adding(s)
                /\ signalFd' = IF signalFd = "none" THEN "open" ELSE signalFd
                /\ sources' = IF signalFd = "none" THEN sources \cup {SignalSource} ELSE sources
                /\ table' = table \cup {s}
                /\ mask' = mask \cup {s}
                /\ blocked' = blocked \cup {s}
                /\ loop' \in {loop} \cup IF signalFd = "dangling" THEN {"killed"} ELSE {}
                /\ UNCHANGED <<batch, quit, pending, counts>>

\* signalfd fails, and a later call starts over; or the signalfd cannot be added to
\* epoll: signal_sources is freed and signal_fd stays.
SetupFails(s) == /\ Adding(s) /\ signalFd = "none" /\ Fault
                 /\ signalFd' \in {"none", "dangling"}
                 /\ UNCHANGED <<loop, sources, batch, quit, table, mask, blocked, pending>>

\* Mutant of AddSignalFails: the signal mask is not restored.
AddSignalFailsBlocked(s) ==
  /\ Adding(s) /\ signalFd # "dangling" /\ Fault
  /\ signalFd' = "open"
  /\ sources' = sources \cup {SignalSource}
  /\ blocked' = blocked \cup {s}
  /\ UNCHANGED <<loop, batch, quit, table, mask, pending>>

\* Blocking the signal or changing the signalfd fails: signal mask, sigset and
\* signal_sources are as before the call.
AddSignalFails(s) == /\ Adding(s) /\ signalFd # "dangling" /\ Fault
                     /\ signalFd' = "open"
                     /\ sources' = sources \cup {SignalSource}
                     /\ UNCHANGED <<loop, batch, quit, table, mask, blocked, pending>>

\* pollen_loop_run, with the descriptors fds added since.
RunLoop(fds) == /\ loop = "setup" /\ added = Len(Signals)
                /\ loop' = "run"
                /\ sources' = sources \cup fds
                /\ UNCHANGED <<batch, quit, signalVars, pending, counts>>

-------------------------------------------------------------------------------
(* The loop.                                                                   *)

\* A signal is sent to cclipd: kept if it is blocked, else the default action of all
\* three ends the process.
SendSignal(s) == /\ Alive
                 /\ signals < MaxSignals
                 /\ signals' = signals + 1
                 /\ IF s \in blocked
                      THEN pending' = pending \cup {s} /\ UNCHANGED loop
                      ELSE loop' = "killed" /\ UNCHANGED pending
                 /\ UNCHANGED <<sources, batch, quit, signalVars, faults>>

SignalReady == IF SignalSource \in sources /\ pending \cap mask # {}
                 THEN {[source |-> SignalSource, hup |-> FALSE]} ELSE {}

\* epoll_wait returns the events of ready descriptors, all of them or as many as fit.
EpollWait(ready) == LET events == ready \cup SignalReady IN
                    /\ loop = "run" /\ batch = {} /\ ~quit
                    /\ events # {}
                    /\ \E b \in SUBSET events :
                         /\ Cardinality(b) = IF Cardinality(events) < MaxEvents
                                               THEN Cardinality(events) ELSE MaxEvents
                         /\ batch' = b
                    /\ UNCHANGED <<loop, sources, quit, signalVars, pending, counts>>

\* The callback of event e is running.
Serving(e) == loop = "run" /\ e \in batch

\* It has returned 0, or less: the loop then ends without a look at the rest of the batch.
\* Or it never does.
Returned(e) == batch' = batch \ {e} /\ UNCHANGED loop
Failed      == batch' = {} /\ loop' = "failed"
Hangs       == loop' = "hung" /\ UNCHANGED batch

\* Mutant of OnSignal: everything the signalfd has is read, one signal is served.
OnSignalReadsAll(e) ==
  /\ Serving(e) /\ e.source = SignalSource
  /\ \E s \in pending \cap mask :
       /\ pending' = {}
       /\ quit' = (quit \/ s \in Quitting)
       /\ \/ Returned(e)
          \/ (s \notin table \/ s \notin Quitting) /\ Failed
          \/ s \in table \ Quitting /\ Hangs
  /\ UNCHANGED <<sources, signalVars, counts>>

\* pollen_internal_signal_handler reads one signal and runs its callback: quit, or the
\* restart of the database thread.  That may fail, or wait for ever to join a thread that
\* missed the request to stop.  A signal without an entry is an error.
OnSignal(e) == /\ Serving(e) /\ e.source = SignalSource
               /\ \E s \in pending \cap mask :
                    /\ pending' = pending \ {s}
                    /\ quit' = (quit \/ s \in table \cap Quitting)
                    /\ \/ s \in table /\ Returned(e)
                       \/ (s \notin table \/ s \notin Quitting) /\ Failed
                       \/ s \in table \ Quitting /\ Hangs
               /\ UNCHANGED <<sources, signalVars, counts>>

\* should_quit is read between two batches.
LoopReturns == /\ loop = "run" /\ batch = {} /\ quit
               /\ loop' = "ended"
               /\ UNCHANGED <<sources, batch, quit, signalVars, pending, counts>>

Startup == \E i \in DOMAIN Signals : \/ AddSignal(Signals[i])
                                     \/ SetupFails(Signals[i]) \/ AddSignalFails(Signals[i])

-------------------------------------------------------------------------------
(* Properties.                                                                 *)

\* No event in hand is of a source that has been removed and freed: the callbacks that
\* run before it in its batch have only removed their own.
NoStaleSource == \A e \in batch : e.source \in sources

\* A signal is kept from its default action exactly if the loop will serve it: whichever
\* system call fails in whichever of the add_signal calls, no signal is left blocked
\* without a callback.  (A signalfd that could not be polled is the exception.)
BlockedIsServed == signalFd # "dangling" =>
                     /\ blocked = table /\ mask = table
                     /\ table # {} => SignalSource \in sources
===============================================================================
