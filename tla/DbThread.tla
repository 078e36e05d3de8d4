------------------------------- MODULE DbThread -------------------------------
(* The two threads of cclipd: the main thread, which starts up, runs the event *)
(* loop, queues clipboard entries, restarts the database on SIGUSR1 and exits  *)
(* on SIGINT or SIGTERM; and the database thread, which waits on a condition   *)
(* variable and writes the queued entries (src/cclipd/sql.c, cclipd.c).        *)
(*                                                                             *)
(* Entry n is the n-th payload handed to queue_for_insertion.  What writing an *)
(* entry does to the tables is in module Database; here it is one step of the  *)
(* database thread, between two critical sections, which main can overlap.     *)
EXTENDS RingQueue

CONSTANTS MaxEntries,  \* bound: payloads the environment delivers
          MaxReopens   \* bound: SIGUSR1 signals delivered

ASSUME BoundAssumption == MaxEntries \in Nat /\ MaxReopens \in Nat

VARIABLES
  main,        \* where the main thread is
  worker,      \* where the database thread is, "none" if no thread exists
  mutex,       \* thread_state.mutex: "free", "main" or "worker"
  shouldExit,  \* thread_state.should_exit
  queue,       \* thread_state.queue
  entry,       \* the database thread's local entry, Null if it holds none
  db,          \* the sqlite handle: "open" or "closed"
  prepared,    \* statements[].stmt are compiled for that handle
  quitting,    \* pollen_loop_quit was called
  leaving,     \* main is at or past its cleanup label
  accepted,    \* payloads passed to queue_push so far
  handled,     \* entries process_queue_entry was called on, oldest first
  reopens,     \* SIGUSR1 signals handled so far
  armed,       \* history: the current thread has reached pthread_cond_wait
  clean        \* history: every thread so far was given an empty queue whose
               \* indices lie in the ring

threads == <<main, worker, mutex, shouldExit>>
data    == <<queue, entry, accepted, handled>>
handle  == <<db, prepared>>
control == <<quitting, leaving, reopens>>
history == <<armed, clean>>
vars    == <<threads, data, handle, control, history>>

MainPC == {"startup", "start", "wayland", "loop", "lock", "push", "signal", "stop",
           "notify", "join", "close", "reopen", "restart", "exited", "crashed"}
WorkerPC == {"none", "spawned", "check", "towait", "waiting", "relock", "pop",
             "work", "exiting", "done"}

TypeOK == /\ main \in MainPC
          /\ worker \in WorkerPC
          /\ mutex \in {"free", "main", "worker"}
          /\ shouldExit \in BOOLEAN
          /\ IsQueue(queue)
          /\ entry \in Cell
          /\ db \in {"open", "closed"}
          /\ prepared \in BOOLEAN
          /\ quitting \in BOOLEAN
          /\ leaving \in BOOLEAN
          /\ accepted \in Nat
          /\ handled \in Seq(Nat)
          /\ reopens \in Nat
          /\ armed \in BOOLEAN
          /\ clean \in BOOLEAN

Init == /\ main = "startup"
        /\ worker = "none"
        /\ mutex = "free"
        /\ shouldExit = FALSE
        /\ queue = NoQueue
        /\ entry = Null
        /\ db = "closed"
        /\ prepared = FALSE
        /\ quitting = FALSE
        /\ leaving = FALSE
        /\ accepted = 0
        /\ handled = << >>
        /\ reopens = 0
        /\ armed = FALSE
        /\ clean = TRUE

Halted == main \in {"exited", "crashed"}

\* A fault kills the process: neither thread takes another step.
Crash == /\ main' = "crashed"
         /\ UNCHANGED <<worker, mutex, shouldExit, data, handle, control, history>>

-------------------------------------------------------------------------------
(* The main thread: startup, and the start_db_thread that startup and SIGUSR1  *)
(* share.                                                                      *)

StartupOk == /\ main = "startup"
             /\ main' = "start"
             /\ db' = "open"
             /\ UNCHANGED <<worker, mutex, shouldExit, data, prepared, control, history>>

\* Bad options, db_open, the schema version, db_init, db_migrate or the event
\* loop failed: goto cleanup with the handle open or still NULL.
StartupFails == /\ main = "startup"
                /\ main' = "stop"
                /\ leaving' = TRUE
                /\ db' \in {"open", "closed"}
                /\ UNCHANGED <<worker, mutex, shouldExit, data, prepared, quitting, reopens, history>>

StartThread == /\ main \in {"start", "restart"}
               /\ main' = IF main = "start" THEN "wayland" ELSE "loop"
               /\ worker' = "spawned"
               /\ shouldExit' = FALSE
               /\ queue' = Fresh(queue)
               /\ prepared' = TRUE
               /\ armed' = FALSE
               /\ clean' = (clean /\ IsEmpty(queue) /\ queue.read < RingInit)
               /\ UNCHANGED <<mutex, entry, accepted, handled, db, control>>

\* Mutant of StartThreadFails: should_exit is not set on failure.
StartThreadFailsAlive == /\ main \in {"start", "restart"}
                         /\ main' = "stop"
                         /\ leaving' = TRUE
                         /\ shouldExit' = FALSE
                         /\ queue' = Freed(queue)
                         /\ prepared' = FALSE
                         /\ UNCHANGED <<worker, mutex, entry, accepted, handled, db, quitting, reopens, history>>

\* prepare_statements or pthread_create failed: everything is released again.
StartThreadFails == /\ main \in {"start", "restart"}
                    /\ main' = "stop"
                    /\ leaving' = TRUE
                    /\ shouldExit' = TRUE
                    /\ queue' = Freed(queue)
                    /\ prepared' = FALSE
                    /\ UNCHANGED <<worker, mutex, entry, accepted, handled, db, quitting, reopens, history>>

WaylandInit == /\ main = "wayland"
               /\ \/ main' = "loop" /\ UNCHANGED leaving
                  \/ main' = "stop" /\ leaving' = TRUE
               /\ UNCHANGED <<worker, mutex, shouldExit, data, handle, quitting, reopens, history>>

-------------------------------------------------------------------------------
(* The main thread: the event loop.                                            *)

\* on_pipe_ready finished a transfer and calls queue_for_insertion.  Callbacks of
\* the batch that delivered SIGTERM still run after pollen_loop_quit.
TransferDone == /\ main = "loop"
                /\ accepted < MaxEntries
                /\ main' = "lock"
                /\ UNCHANGED <<worker, mutex, shouldExit, data, handle, control, history>>

LockQueue == /\ main = "lock"
             /\ mutex = "free"
             /\ main' = "push"
             /\ mutex' = "main"
             /\ UNCHANGED <<worker, shouldExit, data, handle, control, history>>

\* queue_push and the unlock.  A push with write out of range may go unnoticed.
PushEntry == /\ main = "push"
             /\ queue.write >= queue.size => ~IsFull(queue)
             /\ main' = "signal"
             /\ mutex' = "free"
             /\ accepted' = accepted + 1
             /\ queue' = Push(queue, accepted')
             /\ UNCHANGED <<worker, shouldExit, entry, handled, handle, control, history>>

\* It may also kill the process, and the copy loop of a full ring whose write
\* index is out of range never meets it and runs off the new ring.
PushFaults == /\ main = "push"
              /\ queue.write >= queue.size
              /\ Crash

\* pthread_cond_signal: a waiting thread leaves the wait and must relock.
Wake == worker' = IF worker = "waiting" THEN "relock" ELSE worker

\* Mutant of SignalEntry: nobody is signalled.
SignalNobody == /\ main = "signal"
                /\ main' = "loop"
                /\ UNCHANGED <<worker, mutex, shouldExit, data, handle, control, history>>

SignalEntry == /\ main = "signal"
               /\ main' = "loop"
               /\ Wake
               /\ UNCHANGED <<mutex, shouldExit, data, handle, control, history>>

\* on_sigint_sigterm
Terminate == /\ main = "loop"
             /\ ~quitting
             /\ quitting' = TRUE
             /\ UNCHANGED <<threads, data, handle, leaving, reopens, history>>

\* pollen_loop_run was asked to quit and returns.
LeaveLoop == /\ main = "loop"
             /\ quitting
             /\ main' = "stop"
             /\ leaving' = TRUE
             /\ UNCHANGED <<worker, mutex, shouldExit, data, handle, quitting, reopens, history>>

\* The display is gone or epoll_wait failed.  on_wayland_events logs errno, a number,
\* with %s: the process dies of it, unless that read happens to be harmless.
LoopFails == /\ main = "loop"
             /\ \/ /\ main' = "stop"
                   /\ leaving' = TRUE
                   /\ UNCHANGED <<worker, mutex, shouldExit, data, handle, quitting, reopens, history>>
                \/ Crash

\* on_sigusr1; the loop delivers one signal per iteration, so none after a quit.
Sigusr1 == /\ main = "loop"
           /\ ~quitting
           /\ reopens < MaxReopens
           /\ main' = "stop"
           /\ reopens' = reopens + 1
           /\ UNCHANGED <<worker, mutex, shouldExit, data, handle, quitting, leaving, history>>

-------------------------------------------------------------------------------
(* The main thread: stop_db_thread, which takes no mutex, and db_close.        *)

StopRequest == /\ main = "stop"
               /\ IF shouldExit
                    THEN main' = "close" /\ UNCHANGED shouldExit
                    ELSE main' = "notify" /\ shouldExit' = TRUE
               /\ UNCHANGED <<worker, mutex, data, handle, control, history>>

\* Mutants of StopNotify: the signal is not sent; the thread is not joined.
StopSilently == /\ main = "notify"
                /\ main' = "join"
                /\ UNCHANGED <<worker, mutex, shouldExit, data, handle, control, history>>

StopUnjoined == /\ main = "notify"
                /\ main' = "close"
                /\ Wake
                /\ UNCHANGED <<mutex, shouldExit, data, handle, control, history>>

StopNotify == /\ main = "notify"
              /\ main' = "join"
              /\ Wake
              /\ UNCHANGED <<mutex, shouldExit, data, handle, control, history>>

Join == /\ main = "join"
        /\ worker = "done"
        /\ main' = "close"
        /\ worker' = "none"
        /\ UNCHANGED <<mutex, shouldExit, data, handle, control, history>>

\* pthread_join on the zeroed handle of a thread that was never created: an
\* error is returned and ignored, or the process dies.
JoinNothing == /\ main = "join"
               /\ worker = "none"
               /\ \/ /\ main' = "close"
                     /\ UNCHANGED <<worker, mutex, shouldExit, data, handle, control, history>>
                  \/ Crash

CloseDb == /\ main = "close"
           /\ main' = IF leaving THEN "exited" ELSE "reopen"
           /\ db' = "closed"
           /\ UNCHANGED <<worker, mutex, shouldExit, data, prepared, control, history>>

\* Mutant of Reopen: a failure does not end the loop.
ReopenCarriesOn == /\ main = "reopen"
                   /\ \/ main' = "restart" /\ db' = "open"
                      \/ main' = "loop" /\ UNCHANGED db
                   /\ UNCHANGED <<worker, mutex, shouldExit, data, prepared, control, history>>

\* db_open in on_sigusr1; on failure the callback's -1 ends the loop.
Reopen == /\ main = "reopen"
          /\ \/ main' = "restart" /\ db' = "open" /\ UNCHANGED leaving
             \/ main' = "stop" /\ leaving' = TRUE /\ UNCHANGED db
          /\ UNCHANGED <<worker, mutex, shouldExit, data, prepared, quitting, reopens, history>>

-------------------------------------------------------------------------------
(* The database thread: thread_entrypoint.                                     *)

\* Mutant of Lock: should_exit is tested before the queue is looked at.
LockThenCheck == /\ ~Halted
                 /\ mutex = "free"
                 /\ worker \in {"spawned", "relock"}
                 /\ mutex' = "worker"
                 /\ worker' = "check"
                 /\ UNCHANGED <<main, shouldExit, data, handle, control, history>>

\* The first lock, or the lock taken again on the way out of the wait and after
\* an entry was processed.
Lock == /\ ~Halted
        /\ mutex = "free"
        /\ worker \in {"spawned", "relock"}
        /\ mutex' = "worker"
        /\ worker' = IF worker = "spawned" THEN "check" ELSE "pop"
        /\ UNCHANGED <<main, shouldExit, data, handle, control, history>>

\* Mutant of Check: the thread exits with the mutex held.
CheckKeepsMutex == /\ ~Halted
                   /\ worker = "check"
                   /\ worker' = IF shouldExit THEN "exiting" ELSE "towait"
                   /\ UNCHANGED <<main, mutex, shouldExit, data, handle, control, history>>

\* The loop condition, read while main may be writing it.
Check == /\ ~Halted
         /\ worker = "check"
         /\ IF shouldExit
              THEN worker' = "exiting" /\ mutex' = "free"
              ELSE worker' = "towait" /\ UNCHANGED mutex
         /\ UNCHANGED <<main, shouldExit, data, handle, control, history>>

\* pthread_cond_wait releases the mutex and waits, in one step.
Wait == /\ ~Halted
        /\ worker = "towait"
        /\ worker' = "waiting"
        /\ mutex' = "free"
        /\ armed' = TRUE
        /\ UNCHANGED <<main, shouldExit, data, handle, control, clean>>

SpuriousWakeup == /\ ~Halted
                  /\ worker = "waiting"
                  /\ worker' = "relock"
                  /\ UNCHANGED <<main, mutex, shouldExit, data, handle, control, history>>

\* queue_pop: an empty queue leads back to the loop condition, an entry is taken
\* and the mutex released.
Take == /\ ~Halted
        /\ worker = "pop"
        /\ IF IsEmpty(queue)
             THEN worker' = "check" /\ UNCHANGED <<mutex, queue, entry>>
             ELSE /\ worker' = "work"
                  /\ mutex' = "free"
                  /\ entry' = Front(queue)
                  /\ queue' = Pop(queue)
        /\ UNCHANGED <<main, shouldExit, accepted, handled, handle, control, history>>

\* process_queue_entry, whatever its result, and queue_entry_free_contents.  What
\* was read outside the ring may happen to pass for an entry.
Process == /\ ~Halted
           /\ worker = "work"
           /\ entry # Null
           /\ worker' = "relock"
           /\ entry' = Null
           /\ handled' = IF entry = Junk THEN handled ELSE Append(handled, entry)
           /\ UNCHANGED <<main, mutex, shouldExit, queue, accepted, handle, control, history>>

\* A zeroed cell has no MIME type for fnmatch to read.
ProcessFaults == /\ ~Halted
                 /\ worker = "work"
                 /\ entry \in {Null, Junk}
                 /\ Crash

\* cleanup_statements, then the ring is freed, entries left in it included.
Exit == /\ ~Halted
        /\ worker = "exiting"
        /\ worker' = "done"
        /\ prepared' = FALSE
        /\ queue' = Freed(queue)
        /\ UNCHANGED <<main, mutex, shouldExit, entry, accepted, handled, db, control, history>>

-------------------------------------------------------------------------------
Halt == Halted /\ UNCHANGED vars

\* What main does once a callback has begun, and what the database thread does.
MainStep == \/ StartupOk \/ StartupFails \/ StartThread \/ StartThreadFails \/ WaylandInit
            \/ LockQueue \/ PushEntry \/ PushFaults \/ SignalEntry
            \/ StopRequest \/ StopNotify \/ Join \/ JoinNothing \/ CloseDb \/ Reopen

WorkerStep == Lock \/ Check \/ Wait \/ Take \/ Process \/ ProcessFaults \/ Exit

\* What reaches the program from outside.
Environment == TransferDone \/ Terminate \/ Sigusr1 \/ LoopFails \/ SpuriousWakeup

Next == MainStep \/ WorkerStep \/ LeaveLoop \/ Environment \/ Halt

Spec == Init /\ [][Next]_vars

\* Threads that can run do run; after pollen_loop_quit the loop returns.  Nothing
\* is assumed of the environment, spurious wakeups included.
FairSpec == Spec /\ WF_vars(MainStep) /\ WF_vars(WorkerStep) /\ WF_vars(LeaveLoop)

-------------------------------------------------------------------------------
(* Safety.                                                                     *)

InHand == IF entry = Null THEN << >> ELSE <<entry>>

Waiting == IF queue.size = 0 THEN << >> ELSE Contents(queue)

\* As long as every thread was given an empty queue with indices inside the ring,
\* growing the ring, popping while main pushes, and stopping neither lose, repeat
\* nor reorder an entry: what was handled, what the database thread holds and what
\* is queued are, in that order, all the entries accepted (queue_push, queue_pop,
\* thread_entrypoint).
Lossless == clean /\ (queue.size > 0 \/ IsEmpty(queue)) =>
              handled \o InHand \o Waiting = [n \in 1 .. accepted |-> n]

\* Whatever SIGUSR1 has done to the ring, the database thread never processes an
\* entry it has already freed, and never goes back to an older one.
AtMostOnce == \A i, j \in DOMAIN handled : i < j => handled[i] < handled[j]

\* A database thread that has waited once exits only with an empty queue: a stop
\* request lets it write everything accepted before (the do-while of
\* thread_entrypoint).
DrainsBeforeExit == worker = "exiting" /\ armed => IsEmpty(queue)

\* The database thread runs only on an open handle with compiled statements and an
\* allocated ring, and db_close never meets a statement that is not finalized
\* (the SQLITE_BUSY case that db.c:203 asks to be reported as a bug).
DbHandleSafe == /\ worker \notin {"none", "done"} => db = "open" /\ prepared
                /\ worker \notin {"none", "done"} => queue.size >= RingInit
                /\ main = "close" => ~prepared

\* queue_for_insertion always has a thread to serve it and a ring to push to: no
\* callback of the event loop runs between the death of a thread and the next.
PushesToLiveThread == main \in {"loop", "lock", "push", "signal"} =>
                        /\ worker \notin {"none", "exiting", "done"}
                        /\ queue.size > 0 /\ ~shouldExit

\* stop_db_thread joins a thread that was never created (undefined behaviour) only
\* when startup failed before start_db_thread: should_exit, its test for "already
\* dead" (sql.c:374), is right in every later state, failed restarts included.
JoinsRealThread == main = "join" /\ worker = "none" => leaving /\ accepted = 0 /\ reopens = 0

-------------------------------------------------------------------------------
(* The inductive invariant behind the three properties above.                  *)

Alive == worker \notin {"none", "done"}

\* Who holds the mutex, in terms of where the threads are.
MutexHolder == /\ main = "push" => mutex = "main"
               /\ mutex = "main" => main \in {"push", "crashed"}
               /\ mutex = "worker" <=> worker \in {"check", "towait", "pop"}

\* What the database thread owns from its creation to its exit.
Ownership == /\ Alive => db = "open" /\ prepared /\ queue.size >= RingInit
             /\ ~Alive => ~prepared /\ queue.size = 0
             /\ entry # Null => worker = "work"
             /\ main \in {"start", "restart"} => db = "open"

\* When a thread exists and when it has been told to stop.
Lifecycle == /\ main \in {"startup", "start", "close", "reopen", "restart", "exited"} => worker = "none"
             /\ main \in {"wayland", "loop", "lock", "push", "signal"} => Alive /\ ~shouldExit
             /\ main \in {"notify", "join", "close", "reopen", "restart"} => shouldExit
             /\ main \in {"startup", "start"} => ~shouldExit
             /\ worker \in {"exiting", "done"} => shouldExit
             /\ main = "stop" /\ shouldExit => worker = "none"

\* A thread that has waited sees its loop condition only after an empty pop.
Drained == /\ worker = "spawned" => ~armed
           /\ armed /\ worker \in {"check", "towait", "exiting"} => IsEmpty(queue)

\* The threads' protocol around should_exit, the mutex and the wait is consistent:
\* the mutex is held exactly in the critical sections, the thread owns handle and
\* ring for its whole life, and stop and start meet no thread in between.
Protocol == MutexHolder /\ Ownership /\ Lifecycle /\ Drained

-------------------------------------------------------------------------------
(* Liveness.                                                                   *)

Handled(n) == \E i \in DOMAIN handled : handled[i] = n

\* Once the database thread has reached its wait, an entry whose queueing is
\* signalled is handled, even if the process is told to stop meanwhile, unless the
\* process is killed.
ArmedEntryHandled == \A n \in 1 .. MaxEntries :
                       (main = "signal" /\ armed /\ clean /\ accepted = n)
                         ~> (Handled(n) \/ main = "crashed")

\* stop_db_thread returns unless its signal fell between the thread's test of
\* should_exit and its wait: the only window in which the stop is lost.
StopCompletes == (main = "notify" /\ worker # "towait") ~> (main \notin {"notify", "join"})

-------------------------------------------------------------------------------
(* What the documentation promises and the code does not keep.                 *)

\* man/cclipd.1.in:71-74: SIGINT and SIGTERM "will cause cclipd to exit cleanly"; it
\* at least ends.
TerminateExits == quitting ~> Halted

\* man/cclipd.1.in:10: cclipd "saves clipboard contents to database": what is queued
\* is written without waiting for the next copy, as long as cclipd runs.
QueuedIsHandled == \A n \in 1 .. MaxEntries :
                     (main = "signal" /\ accepted = n) ~> (Handled(n) \/ leaving \/ Halted)

\* man/cclipd.1.in:76-79: SIGUSR1 "will cause cclipd to close and reopen database
\* connection": the thread started on the new connection finds a queue that fits the
\* ring allocated for it.
RingInBounds == main = "push" \/ (worker = "pop" /\ ~IsEmpty(queue)) => InBounds(queue)

-------------------------------------------------------------------------------
(* The queue and its thread implement WriteFifo, across stops and restarts.    *)

Fifo == INSTANCE WriteFifo WITH open <- queue.size > 0, awake <- armed, intact <- clean,
                                pending <- Waiting, writing <- entry, written <- handled

\* Every step of the two threads is a step of the abstract queue or none: queue_push
\* accepts, queue_pop begins, process_queue_entry ends one entry, and a thread that
\* exits has nothing pending unless it never reached its wait.  Only a start on a
\* queue that is not empty or does not fit the ring voids the promise.
ImplementsFifo == Fifo!Spec
===============================================================================
