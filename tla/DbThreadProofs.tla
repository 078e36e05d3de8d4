---------------------------- MODULE DbThreadProofs ----------------------------
(* Proofs about the two threads of cclipd (module DbThread), for every number   *)
(* of entries and restarts and every initial size and growth of the ring.       *)
EXTENDS DbThread, RingQueueProofs

USE RingAssumption

-------------------------------------------------------------------------------
(* The inductive invariant.                                                    *)

IInv == TypeOK /\ Protocol

\* At the start of cclipd there is neither thread nor ring, and IInv holds.
THEOREM InitIInv == Init => IInv
  <1> SUFFICES ASSUME Init PROVE IInv
    OBVIOUS
  <1>1. IsQueue(queue)
    BY DEF Init, NoQueue, IsQueue, Cell, Null
  <1>2. TypeOK
    <2>1. << >> \in Seq(Nat) /\ 0 \in Nat /\ Null \in Cell
      BY DEF Cell, Null
    <2> QED BY <1>1, <2>1 DEF Init, TypeOK, MainPC, WorkerPC
  <1>3. Protocol
    BY DEF Init, Protocol, MutexHolder, Ownership, Lifecycle, Drained, Alive, NoQueue, Null
  <1> QED BY <1>2, <1>3 DEF IInv

\* Every step keeps the type invariant.
LEMMA TypeStep == ASSUME IInv, [Next]_vars PROVE TypeOK'
  <1> USE DEF MainPC, WorkerPC
  <1>0. /\ TypeOK /\ IsQueue(queue) /\ queue.size \in Nat
        /\ Alive => queue.size > 0
        /\ main = "push" => Alive
    BY QueueFields DEF IInv, TypeOK, Protocol, Ownership, Lifecycle
  <1>1. CASE MainStep
    <2>1. CASE StartupOk \/ StartupFails \/ WaylandInit
      BY <1>0, <2>1 DEF TypeOK, StartupOk, StartupFails, WaylandInit, threads, data, handle, control, history
    <2>2. CASE StartThread
      BY <1>0, <2>2, FreshType DEF TypeOK, StartThread, threads, data, handle, control, history
    <2>3. CASE StartThreadFails
      BY <1>0, <2>3, FreedType DEF TypeOK, StartThreadFails, threads, data, handle, control, history
    <2>4. CASE LockQueue \/ SignalEntry
      BY <1>0, <2>4 DEF TypeOK, LockQueue, SignalEntry, Wake, threads, data, handle, control, history
    <2>5. CASE PushEntry
      <3>1. accepted' \in Nat /\ accepted' \in Cell
        BY <1>0, <2>5 DEF TypeOK, PushEntry, Cell
      <3>2. IsQueue(queue')
        BY <1>0, <2>5, <3>1, PushType DEF PushEntry
      <3> QED BY <1>0, <2>5, <3>1, <3>2, SMTT(30) DEF TypeOK, PushEntry, handle, control, history
    <2>6. CASE PushFaults
      BY <1>0, <2>6 DEF TypeOK, PushFaults, Crash, data, handle, control, history
    <2>7. CASE StopRequest \/ StopNotify \/ Join \/ CloseDb \/ Reopen
      <3>1. CASE StopRequest
        BY ZenonT(60), <1>0, <3>1 DEF TypeOK, StopRequest, data, handle, control, history
      <3>2. CASE StopNotify
        BY <1>0, <3>2 DEF TypeOK, StopNotify, Wake, data, handle, control, history
      <3>3. CASE Join
        BY <1>0, <3>3 DEF TypeOK, Join, data, handle, control, history
      <3>4. CASE CloseDb \/ Reopen
        BY <1>0, <3>4 DEF TypeOK, CloseDb, Reopen, data, handle, control, history
      <3> QED BY <2>7, <3>1, <3>2, <3>3, <3>4
    <2>8. CASE JoinNothing
      BY <1>0, <2>8 DEF TypeOK, JoinNothing, Crash, data, handle, control, history
    <2> QED BY <1>1, <2>1, <2>2, <2>3, <2>4, <2>5, <2>6, <2>7, <2>8 DEF MainStep
  <1>2. CASE WorkerStep
    <2>1. CASE Lock \/ Check \/ Wait
      BY ZenonT(60), <1>0, <2>1 DEF TypeOK, Lock, Check, Wait, data, handle, control, history
    <2>2. CASE Take
      <3>1. CASE IsEmpty(queue)
        BY <1>0, <2>2, <3>1 DEF TypeOK, Take, handle, control, history
      <3>2. CASE ~IsEmpty(queue)
        <4>1. IsQueue(Pop(queue)) /\ Front(queue) \in Cell
          BY <1>0, <2>2, PopType DEF Take, Alive
        <4> QED BY <1>0, <2>2, <3>2, <4>1 DEF TypeOK, Take, handle, control, history
      <3> QED BY <3>1, <3>2
    <2>3. CASE Process
      <3>1. handled' \in Seq(Nat)
        BY <1>0, <2>3 DEF TypeOK, Process, Cell, Junk
      <3> QED BY <1>0, <2>3, <3>1, SMTT(30) DEF TypeOK, Process, Cell, Null, handle, control, history
    <2>4. CASE ProcessFaults
      BY <1>0, <2>4 DEF TypeOK, ProcessFaults, Crash, data, handle, control, history
    <2>5. CASE Exit
      BY ZenonT(60), <1>0, <2>5, FreedType DEF TypeOK, Exit, handle, control, history
    <2> QED BY <1>2, <2>1, <2>2, <2>3, <2>4, <2>5 DEF WorkerStep
  <1>3. CASE LeaveLoop \/ Environment \/ Halt \/ UNCHANGED vars
    <2>1. CASE LeaveLoop \/ LoopFails \/ TransferDone \/ Terminate \/ SpuriousWakeup
      BY <1>0, <2>1, ZenonT(60) DEF TypeOK, LeaveLoop, LoopFails, Crash, TransferDone, Terminate, SpuriousWakeup,
                        threads, data, handle, control, history
    <2>2. CASE Sigusr1
      BY <1>0, <2>2 DEF TypeOK, Sigusr1, data, handle, history
    <2>3. CASE Halt \/ UNCHANGED vars
      BY <1>0, <2>3 DEF TypeOK, Halt, vars, threads, data, handle, control, history
    <2> QED BY <1>3, <2>1, <2>2, <2>3 DEF Environment
  <1> QED BY <1>1, <1>2, <1>3 DEF Next

\* Every step keeps the protocol.
LEMMA ProtocolStep == ASSUME IInv, [Next]_vars PROVE Protocol'
  <1> USE DEF MainPC, WorkerPC, Protocol, MutexHolder, Lifecycle, Drained, Ownership, Alive
  <1>0. /\ Protocol /\ main \in MainPC /\ worker \in WorkerPC /\ shouldExit \in BOOLEAN
        /\ IsQueue(queue) /\ queue.size \in Nat
        /\ Alive => queue.size > 0
    BY QueueFields DEF IInv, TypeOK
  <1>1. CASE MainStep
    <2>1. CASE StartupOk \/ StartupFails \/ WaylandInit
      BY <1>0, <2>1 DEF StartupOk, StartupFails, WaylandInit, threads, data, handle, control, history
    <2>2. CASE StartThread
      <3>1. queue'.size = RingInit
        BY <2>2 DEF StartThread, Fresh
      <3> QED BY <1>0, <2>2, <3>1 DEF StartThread, threads, data, handle, control, history
    <2>3. CASE StartThreadFails
      <3>1. queue'.size = 0
        BY <2>3 DEF StartThreadFails, Freed
      <3> QED BY <1>0, <2>3, <3>1 DEF StartThreadFails, threads, data, handle, control, history
    <2>4. CASE LockQueue \/ SignalEntry
      BY <1>0, <2>4 DEF LockQueue, SignalEntry, Wake, threads, data, handle, control, history
    <2>5. CASE PushEntry
      <3>1. queue'.size \in Nat /\ queue'.size >= queue.size
        <4>1. accepted' \in Cell
          BY <2>5 DEF PushEntry, IInv, TypeOK, Cell
        <4> QED BY <1>0, <2>5, <4>1, PushType, QueueFields DEF PushEntry
      <3> QED BY <1>0, <2>5, <3>1 DEF PushEntry, handle, control, history
    <2>6. CASE PushFaults
      BY <1>0, <2>6 DEF PushFaults, Crash, data, handle, control, history
    <2>7. CASE StopRequest \/ StopNotify
      BY <1>0, <2>7 DEF StopRequest, StopNotify, Wake, data, handle, control, history
    <2>8. CASE Join \/ JoinNothing
      BY <1>0, <2>8 DEF Join, JoinNothing, Crash, data, handle, control, history
    <2>9. CASE CloseDb \/ Reopen
      BY <1>0, <2>9 DEF CloseDb, Reopen, data, handle, control, history
    <2> QED BY <1>1, <2>1, <2>2, <2>3, <2>4, <2>5, <2>6, <2>7, <2>8, <2>9 DEF MainStep
  <1>2. CASE WorkerStep
    <2>1. CASE Lock \/ Check \/ Wait
      BY <1>0, <2>1 DEF Lock, Check, Wait, data, handle, control, history
    <2>2. CASE Take
      <3>1. CASE IsEmpty(queue)
        BY <1>0, <2>2, <3>1 DEF Take, handle, control, history
      <3>2. CASE ~IsEmpty(queue)
        <4>1. queue'.size = queue.size
          BY <2>2, <3>2 DEF Take, Pop
        <4> QED BY <1>0, <2>2, <3>2, <4>1 DEF Take, handle, control, history
      <3> QED BY <3>1, <3>2
    <2>3. CASE Process \/ ProcessFaults
      BY <1>0, <2>3 DEF Process, ProcessFaults, Crash, data, handle, control, history
    <2>4. CASE Exit
      <3>1. queue'.size = 0 /\ (IsEmpty(queue) => IsEmpty(queue'))
        BY <2>4 DEF Exit, Freed, IsEmpty
      <3> QED BY <1>0, <2>4, <3>1 DEF Exit, handle, control, history
    <2> QED BY <1>2, <2>1, <2>2, <2>3, <2>4 DEF WorkerStep
  <1>3. CASE LeaveLoop \/ Environment \/ Halt \/ UNCHANGED vars
    <2>1. CASE LeaveLoop \/ LoopFails \/ TransferDone \/ SpuriousWakeup
      BY <1>0, <2>1 DEF LeaveLoop, LoopFails, Crash, TransferDone, SpuriousWakeup, data, handle, control, history
    <2>2. CASE Terminate \/ Sigusr1
      BY <1>0, <2>2 DEF Terminate, Sigusr1, threads, data, handle, control, history
    <2>3. CASE Halt \/ UNCHANGED vars
      BY <1>0, <2>3 DEF Halt, vars, threads, data, handle, control, history
    <2> QED BY <1>3, <2>1, <2>2, <2>3 DEF Environment
  <1> QED BY <1>1, <1>2, <1>3 DEF Next

\* The threads' protocol, with the types, is an invariant.
THEOREM Invariance == Spec => []IInv
  <1>1. IInv /\ [Next]_vars => IInv'
    BY TypeStep, ProtocolStep DEF IInv
  <1> QED BY <1>1, InitIInv, PTL DEF Spec

-------------------------------------------------------------------------------
(* What follows from it.                                                       *)

\* The variables keep their types.
THEOREM TypeCorrect == Spec => []TypeOK
  <1>1. IInv => TypeOK
    BY DEF IInv
  <1> QED BY <1>1, Invariance, PTL

\* The threads' protocol around should_exit, the mutex and the wait.
THEOREM ProtocolHolds == Spec => []Protocol
  <1>1. IInv => Protocol
    BY DEF IInv
  <1> QED BY <1>1, Invariance, PTL

\* thread_entrypoint never exits on a stop request with entries left in the queue,
\* once it has waited on the condition variable.
THEOREM DrainTheorem == Spec => []DrainsBeforeExit
  <1>1. IInv => DrainsBeforeExit
    BY DEF IInv, Protocol, Drained, DrainsBeforeExit
  <1> QED BY <1>1, Invariance, PTL

\* The database thread never runs without its handle, statements and ring, and
\* db_close never meets a live statement.
THEOREM HandleTheorem == Spec => []DbHandleSafe
  <1>1. IInv => DbHandleSafe
    BY DEF IInv, Protocol, Ownership, Lifecycle, Alive, DbHandleSafe
  <1> QED BY <1>1, Invariance, PTL

\* The event loop's callbacks always have a thread and a ring to queue to.
THEOREM LiveThreadTheorem == Spec => []PushesToLiveThread
  <1>1. IInv => PushesToLiveThread
    BY QueueFields DEF IInv, TypeOK, Protocol, Ownership, Lifecycle, Alive, PushesToLiveThread
  <1> QED BY <1>1, Invariance, PTL

-------------------------------------------------------------------------------
(* pthread_join is given a thread that was never created only if startup failed *)
(* before start_db_thread.                                                      *)

\* stop_db_thread is about to join although no thread exists.
Threadless == /\ worker = "none"
              /\ main \in {"stop", "notify", "join"}
              /\ main = "stop" => ~shouldExit

JoinInv == /\ main \in {"startup", "start"} => accepted = 0 /\ reopens = 0
           /\ Threadless => leaving /\ accepted = 0 /\ reopens = 0

\* Every step keeps JoinInv.
LEMMA JoinStep == ASSUME IInv, JoinInv, [Next]_vars PROVE JoinInv'
  <1> USE DEF JoinInv, Threadless
  <1>0. /\ JoinInv /\ Lifecycle
        /\ main \in {"wayland", "loop", "lock", "push", "signal"} => worker # "none"
    BY DEF IInv, Protocol, Lifecycle, Alive
  <1>1. CASE StartupOk \/ StartupFails \/ WaylandInit
    BY <1>0, <1>1 DEF StartupOk, StartupFails, WaylandInit, data, control
  <1>2. CASE StartThread \/ StartThreadFails
    BY <1>0, <1>2 DEF StartThread, StartThreadFails, control
  <1>3. CASE LockQueue \/ PushEntry \/ PushFaults \/ SignalEntry
    BY <1>0, <1>3 DEF LockQueue, PushEntry, PushFaults, SignalEntry, Crash, control
  <1>4. CASE StopRequest \/ StopNotify
    BY <1>0, <1>4 DEF StopRequest, StopNotify, Wake, data, control
  <1>5. CASE Join \/ JoinNothing \/ CloseDb \/ Reopen
    BY <1>0, <1>5 DEF Join, JoinNothing, CloseDb, Reopen, Crash, Lifecycle, data, control
  <1>6. CASE WorkerStep
    BY <1>0, <1>6 DEF WorkerStep, Lock, Check, Wait, Take, Process, ProcessFaults, Exit, Crash,
                      data, control
  <1>7. CASE LeaveLoop \/ Environment \/ Halt \/ UNCHANGED vars
    BY <1>0, <1>7 DEF LeaveLoop, Environment, LoopFails, TransferDone, Terminate, Sigusr1,
                      SpuriousWakeup, Halt, Crash, vars, threads, data, control
  <1> QED BY <1>1, <1>2, <1>3, <1>4, <1>5, <1>6, <1>7 DEF Next, MainStep

\* should_exit is a sound test for a thread that is already gone, everywhere but on
\* the way out of a startup that never reached start_db_thread.
THEOREM JoinTheorem == Spec => []JoinsRealThread
  <1>1. Init => JoinInv
    BY DEF Init, JoinInv, Threadless
  <1>2. IInv /\ JoinInv /\ [Next]_vars => JoinInv'
    BY JoinStep
  <1>3. JoinInv => JoinsRealThread
    BY DEF JoinInv, Threadless, JoinsRealThread
  <1> QED BY <1>1, <1>2, <1>3, Invariance, PTL DEF Spec

-------------------------------------------------------------------------------
(* No entry is lost, repeated or reordered.  Lossless alone is not inductive:   *)
(* what a push or a pop does to Contents is known only while both indices lie   *)
(* in the ring, and that entry is a real one follows from Lossless itself.      *)

RingInv == /\ Lossless
           /\ clean /\ queue.size > 0 => InBounds(queue)

UpTo(n) == [i \in 1 .. n |-> i]

\* The next number continues the numbers counted so far.
LEMMA UpToAppend == ASSUME NEW n \in Nat
                    PROVE  UpTo(n) \in Seq(Cell) /\ Append(UpTo(n), n + 1) = UpTo(n + 1)
  <1>1. UpTo(n) \in Seq(Cell) /\ Len(UpTo(n)) = n /\ UpTo(n + 1) \in Seq(Cell) /\ Len(UpTo(n + 1)) = n + 1
    BY DEF UpTo, Cell
  <1>2. n + 1 \in Cell
    BY DEF Cell
  <1>3. \A i \in 1 .. n + 1 : Append(UpTo(n), n + 1)[i] = UpTo(n + 1)[i]
    BY <1>1, <1>2, AppendProperties DEF UpTo
  <1>4. Append(UpTo(n), n + 1) \in Seq(Cell) /\ Len(Append(UpTo(n), n + 1)) = n + 1
    BY <1>1, <1>2, AppendProperties
  <1> QED BY <1>1, <1>3, <1>4, SeqEqual

\* What a push, a pop and the end of processing do to the three parts of the whole.
LEMMA WholeAppend ==
  ASSUME NEW h \in Seq(Cell), NEW m \in Seq(Cell), NEW w \in Seq(Cell), NEW e \in Cell
  PROVE  h \o m \o Append(w, e) = Append(h \o m \o w, e)
  <1>1. h \o m \in Seq(Cell) /\ h \o m \o w \in Seq(Cell) /\ <<e>> \in Seq(Cell)
    BY ConcatProperties
  <1> QED BY <1>1, AppendIsConcat, ConcatAssociative, SMTT(20)

\* queue_pop moves the oldest waiting entry into the hands of the thread.
LEMMA WholeTake ==
  ASSUME NEW h \in Seq(Cell), NEW w \in Seq(Cell), NEW e \in Cell
  PROVE  h \o << >> \o (<<e>> \o w) = h \o <<e>> \o w
  <1>1. <<e>> \in Seq(Cell)
    OBVIOUS
  <1> QED BY <1>1, ConcatAssociative, ConcatEmptySeq

\* process_queue_entry moves the entry in hand to those handled.
LEMMA WholeEnd ==
  ASSUME NEW h \in Seq(Cell), NEW w \in Seq(Cell), NEW e \in Cell
  PROVE  Append(h, e) \o << >> \o w = h \o <<e>> \o w
  <1>1. Append(h, e) \in Seq(Cell) /\ Append(h, e) = h \o <<e>>
    BY AppendProperties, AppendIsConcat
  <1> QED BY <1>1, ConcatEmptySeq

\* An element of the middle is one of the numbers of the whole.
LEMMA WholeMiddle ==
  ASSUME NEW h \in Seq(Cell), NEW w \in Seq(Cell), NEW e \in Cell, NEW n \in Nat,
         h \o <<e>> \o w = UpTo(n)
  PROVE  e \in 1 .. n
  <1>1. h \o <<e>> \in Seq(Cell) /\ Len(h \o <<e>>) = Len(h) + 1 /\ (h \o <<e>>)[Len(h) + 1] = e
    BY ConcatProperties, <<e>> \in Seq(Cell), Len(<<e>>) = 1
  <1>2. /\ Len(h \o <<e>> \o w) = Len(h) + 1 + Len(w)
        /\ (h \o <<e>> \o w)[Len(h) + 1] = e
    BY <1>1, ConcatProperties
  <1>3. Len(UpTo(n)) = n
    BY DEF UpTo
  <1>4. Len(h) + 1 \in 1 .. n
    BY <1>2, <1>3
  <1> QED BY <1>2, <1>4 DEF UpTo

\* The parts are sequences of cells.
LEMMA PartsType ==
  ASSUME TypeOK, RingInv, clean
  PROVE  handled \in Seq(Cell) /\ InHand \in Seq(Cell) /\ Waiting \in Seq(Cell)
  <1>1. handled \in Seq(Cell)
    BY DEF TypeOK, Cell
  <1>2. InHand \in Seq(Cell)
    BY DEF TypeOK, InHand
  <1>3. Waiting \in Seq(Cell)
    BY ContentsSeq, QueueFields DEF TypeOK, RingInv, Waiting
  <1> QED BY <1>1, <1>2, <1>3

\* At the start nothing is accepted, and nothing is lost.
THEOREM InitRingInv == Init => RingInv
  <1> SUFFICES ASSUME Init PROVE RingInv
    OBVIOUS
  <1>1. queue.size = 0 /\ handled = << >> /\ entry = Null /\ accepted = 0
    BY DEF Init, NoQueue
  <1>2. handled \o InHand \o Waiting = << >>
    BY <1>1 DEF InHand, Waiting
  <1>3. [n \in 1 .. accepted |-> n] = << >>
    BY <1>1
  <1> QED BY <1>1, <1>2, <1>3 DEF RingInv, Lossless

\* The steps that leave the ring, the entry in hand and the count alone.
LEMMA RingUntouched == ASSUME RingInv, UNCHANGED <<queue, entry, accepted, handled, clean>>
                       PROVE  RingInv'
  BY DEF RingInv, Lossless, InBounds, IsEmpty, InHand, Waiting, Contents, Count

\* Every step of either thread keeps the ring and what it owes.
LEMMA RingStep == ASSUME IInv, RingInv, [Next]_vars PROVE RingInv'
  <1>0. /\ TypeOK /\ IsQueue(queue) /\ queue.size \in Nat /\ accepted \in Nat
        /\ worker \notin {"none", "done"} => queue.size > 0
        /\ worker \in {"none", "done"} => queue.size = 0
        /\ main = "push" => worker \notin {"none", "done"}
        /\ main \in {"start", "restart"} => worker = "none"
        /\ entry # Null => worker = "work"
    BY QueueFields DEF IInv, TypeOK, Protocol, Ownership, Lifecycle, Alive
  <1>1. CASE StartThread
    <2> SUFFICES ASSUME clean' PROVE RingInv'
      BY DEF RingInv, Lossless
    <2>1. clean /\ IsEmpty(queue) /\ queue.read < RingInit /\ queue.size = 0 /\ entry = Null
      BY <1>0, <1>1 DEF StartThread
    <2>2. InBounds(queue') /\ Contents(queue') = << >> /\ queue'.size > 0
      BY <1>0, <1>1, <2>1, FreshContents DEF StartThread, Fresh
    <2>3. handled \o << >> \o << >> = [n \in 1 .. accepted |-> n]
      BY <2>1 DEF RingInv, Lossless, InHand, Waiting
    <2>4. handled' = handled /\ entry' = Null /\ accepted' = accepted
      BY <1>1, <2>1 DEF StartThread
    <2> QED BY <2>2, <2>3, <2>4 DEF RingInv, Lossless, InHand, Waiting
  <1>2. CASE StartThreadFails
    <2>1. queue'.size = 0 /\ (IsEmpty(queue') <=> IsEmpty(queue)) /\ queue.size = 0
      BY <1>0, <1>2 DEF StartThreadFails, Freed, IsEmpty
    <2>2. UNCHANGED <<entry, accepted, handled, clean>>
      BY <1>2 DEF StartThreadFails, history
    <2> QED BY <2>1, <2>2 DEF RingInv, Lossless, InHand, Waiting
  <1>3. CASE PushEntry
    <2> SUFFICES ASSUME clean' PROVE RingInv'
      BY DEF RingInv, Lossless
    <2>1. /\ clean /\ queue.size > 0 /\ InBounds(queue)
          /\ accepted' = accepted + 1 /\ accepted' \in Cell
          /\ handled' = handled /\ entry' = entry /\ queue' = Push(queue, accepted')
      BY <1>0, <1>3 DEF PushEntry, history, RingInv, Cell
    <2>2. InBounds(queue') /\ Contents(queue') = Append(Contents(queue), accepted') /\ queue'.size > 0
      <3>1. IsQueue(Push(queue, accepted')) /\ Push(queue, accepted').size >= queue.size
        BY <1>0, <2>1, PushType
      <3>2. Push(queue, accepted').size > 0
        BY <1>0, <2>1, <3>1, QueueFields
      <3>3. IsQueue(queue) /\ accepted' \in Cell /\ queue' = Push(queue, accepted')
        BY <1>0, <2>1
      <3> QED BY <2>1, <3>2, <3>3, PushContents
    <2>3. handled \o InHand \o Waiting = UpTo(accepted)
      BY <2>1 DEF RingInv, Lossless, UpTo
    <2>4. Waiting = Contents(queue) /\ Waiting' = Append(Waiting, accepted') /\ InHand' = InHand
      BY <2>1, <2>2 DEF Waiting, InHand
    <2>5. handled' \o InHand' \o Waiting' = Append(handled \o InHand \o Waiting, accepted')
      BY SMTT(20), <1>0, <2>1, <2>4, PartsType, WholeAppend
    <2>6. handled' \o InHand' \o Waiting' = UpTo(accepted')
      BY <1>0, <2>1, <2>3, <2>5, UpToAppend
    <2> QED BY <2>2, <2>6 DEF RingInv, Lossless, UpTo
  <1>4. CASE Take
    <2>1. CASE IsEmpty(queue)
      BY <1>4, <2>1, RingUntouched DEF Take, history
    <2>2. CASE ~IsEmpty(queue)
      <3> SUFFICES ASSUME clean' PROVE RingInv'
        BY DEF RingInv, Lossless
      <3>1. /\ clean /\ queue.size > 0 /\ InBounds(queue) /\ entry = Null
            /\ accepted' = accepted /\ handled' = handled
            /\ entry' = Front(queue) /\ queue' = Pop(queue)
        BY <1>0, <1>4, <2>2 DEF Take, history, RingInv
      <3>2. /\ InBounds(queue') /\ queue'.size > 0 /\ IsQueue(queue')
            /\ Contents(queue) = <<Front(queue)>> \o Contents(queue')
        BY <1>0, <2>2, <3>1, PopContents, PopType
      <3>3. Waiting = <<entry'>> \o Waiting' /\ InHand = << >>
        BY <3>1, <3>2 DEF Waiting, InHand
      <3>4. entry' \in Cell /\ handled \in Seq(Cell) /\ Waiting' \in Seq(Cell)
        BY <1>0, <3>1, <3>2, PopType, PartsType, ContentsSeq DEF Waiting
      <3>5. handled \o InHand \o Waiting = UpTo(accepted)
        BY <3>1 DEF RingInv, Lossless, UpTo
      <3>6. handled \o <<entry'>> \o Waiting' = UpTo(accepted)
        BY <3>3, <3>4, <3>5, WholeTake
      <3>7. entry' \in 1 .. accepted
        BY <1>0, <3>4, <3>6, WholeMiddle
      <3>8. InHand' = <<entry'>>
        BY <3>7 DEF InHand, Null
      <3> QED BY <3>1, <3>2, <3>6, <3>8 DEF RingInv, Lossless, UpTo
    <2> QED BY <2>1, <2>2
  <1>5. CASE Process
    <2> SUFFICES ASSUME clean' PROVE RingInv'
      BY DEF RingInv, Lossless
    <2>1. /\ clean /\ queue.size > 0 /\ InBounds(queue) /\ entry # Null /\ entry' = Null
          /\ accepted' = accepted /\ queue' = queue
      BY <1>0, <1>5 DEF Process, history, RingInv
    <2>2. InHand = <<entry>> /\ InHand' = << >> /\ Waiting' = Waiting
      BY <2>1 DEF InHand, Waiting
    <2>3. handled \o <<entry>> \o Waiting = UpTo(accepted)
      BY <2>1, <2>2 DEF RingInv, Lossless, UpTo
    <2>4. entry \in Cell /\ handled \in Seq(Cell) /\ Waiting \in Seq(Cell)
      BY <1>0, <2>1, PartsType DEF TypeOK
    <2>5. entry \in 1 .. accepted
      BY <1>0, <2>3, <2>4, WholeMiddle
    <2>6. handled' = Append(handled, entry)
      BY <1>0, <1>5, <2>5 DEF Process, Junk
    <2>7. handled' \o InHand' \o Waiting' = UpTo(accepted')
      BY <2>1, <2>2, <2>3, <2>4, <2>6, WholeEnd
    <2> QED BY <2>1, <2>7 DEF RingInv, Lossless, UpTo
  <1>6. CASE Exit
    <2> SUFFICES ASSUME clean', IsEmpty(queue') PROVE RingInv'
      BY <1>6 DEF RingInv, Lossless, Exit, Freed
    <2>1. /\ clean /\ queue.size > 0 /\ InBounds(queue) /\ IsEmpty(queue) /\ entry = Null
          /\ queue'.size = 0 /\ entry' = entry /\ accepted' = accepted /\ handled' = handled
      BY <1>0, <1>6 DEF Exit, history, RingInv, Freed, IsEmpty
    <2>2. Waiting = << >> /\ Waiting' = << >>
      BY <1>0, <2>1, EmptyContents DEF Waiting
    <2> QED BY <2>1, <2>2 DEF RingInv, Lossless, InHand
  <1>7. CASE \/ StartupOk \/ StartupFails \/ WaylandInit \/ LockQueue \/ PushFaults \/ SignalEntry
             \/ StopRequest \/ StopNotify \/ Join \/ JoinNothing \/ CloseDb \/ Reopen
    BY <1>7, RingUntouched DEF StartupOk, StartupFails, WaylandInit, LockQueue, PushFaults, SignalEntry,
       StopRequest, StopNotify, Join, JoinNothing, CloseDb, Reopen, Crash, data, history
  <1>8. CASE \/ Lock \/ Check \/ Wait \/ ProcessFaults \/ LeaveLoop \/ Environment \/ Halt
             \/ UNCHANGED vars
    BY <1>8, RingUntouched DEF Lock, Check, Wait, ProcessFaults, LeaveLoop, Environment, LoopFails, TransferDone,
       Terminate, Sigusr1, SpuriousWakeup, Halt, Crash, vars, data, history
  <1> QED BY <1>1, <1>2, <1>3, <1>4, <1>5, <1>6, <1>7, <1>8 DEF Next, MainStep, WorkerStep

\* As long as every thread was started on an empty queue whose indices lie in the
\* ring, queue_push, its growth, queue_pop and stopping lose, repeat and reorder no
\* entry.
THEOREM LosslessTheorem == Spec => []Lossless
  <1>1. IInv /\ RingInv /\ [Next]_vars => RingInv'
    BY RingStep
  <1>2. RingInv => Lossless
    BY DEF RingInv
  <1> QED BY <1>1, <1>2, InitRingInv, Invariance, PTL DEF Spec

-------------------------------------------------------------------------------
(* Restarts with a bad queue.  AtMostOnce speaks of every behaviour, also of    *)
(* those where a thread was started with entries left in the queue or with      *)
(* indices outside the ring; its invariant is about the ages of cells.          *)

Past == {entry} \cup {handled[k] : k \in DOMAIN handled}

OnceInv == /\ Known(queue, accepted)
           /\ \A n \in Past : Above(queue, n) /\ n <= accepted
           /\ entry > 0 => \A k \in DOMAIN handled : handled[k] < entry
           /\ AtMostOnce

\* At the start no entry is old.
LEMMA InitOnce == Init => OnceInv
  <1> SUFFICES ASSUME Init PROVE OnceInv
    OBVIOUS
  <1>1. /\ queue.size = 0 /\ queue.write = 0 /\ entry = 0 /\ handled = << >> /\ accepted = 0
    BY DEF Init, NoQueue, Null
  <1> QED BY <1>1 DEF OnceInv, Past, Known, Above, Cells, AtMostOnce

\* A ring without entries.
LEMMA BlankOnce ==
  ASSUME NEW q, IsQueue(q), NEW m \in Nat, \A i \in Cells(q) : q.ring[i] = Null
  PROVE  Known(q, m) /\ \A n \in Int : Above(q, n)
  BY DEF Known, Ordered, Above, Null

\* A step that touches neither ring nor entry ages nothing.
LEMMA OnceUntouched == ASSUME OnceInv, UNCHANGED <<queue, entry, accepted, handled>> PROVE OnceInv'
  <1>1. UNCHANGED Past
    BY DEF Past
  <1> QED BY <1>1 DEF OnceInv, AtMostOnce, Known, Ordered, Above, Unread, Age, Cells

\* Every step keeps the ages of the entries in the order of the cells.
LEMMA OnceStep == ASSUME IInv, OnceInv, [Next]_vars PROVE OnceInv'
  <1>0. /\ IsQueue(queue) /\ accepted \in Nat /\ entry \in Cell /\ handled \in Seq(Nat)
        /\ worker \notin {"none", "done"} => queue.size > 0
        /\ main = "push" => queue.size > 0
        /\ IsQueue(queue')
        /\ \A n \in Past : n \in Int
    <2>1. /\ IsQueue(queue) /\ accepted \in Nat /\ entry \in Cell /\ handled \in Seq(Nat)
          /\ worker \notin {"none", "done"} => queue.size > 0
          /\ main = "push" => queue.size > 0
      BY QueueFields DEF IInv, TypeOK, Protocol, Ownership, Lifecycle, Alive
    <2>2. \A n \in Past : n \in Int
      BY <2>1 DEF Past, Cell, Junk
    <2> QED BY <2>1, <2>2, TypeStep DEF TypeOK
  <1>1. CASE StartThread \/ StartThreadFails \/ Exit
    <2>1. /\ \A i \in Cells(queue') : queue'.ring[i] = Null
          /\ UNCHANGED <<entry, accepted, handled>>
      BY <1>1 DEF StartThread, StartThreadFails, Exit, Fresh, Freed, Cells
    <2>2. Known(queue', accepted) /\ \A n \in Int : Above(queue', n)
      BY <1>0, <2>1, BlankOnce
    <2>3. UNCHANGED <<Past, AtMostOnce>>
      BY <2>1 DEF Past, AtMostOnce
    <2> QED BY <1>0, <2>1, <2>2, <2>3 DEF OnceInv
  <1>2. CASE PushEntry
    <2>1. /\ queue.size > 0 /\ queue.write >= queue.size => ~IsFull(queue)
          /\ accepted' = accepted + 1 /\ queue' = Push(queue, accepted + 1)
          /\ UNCHANGED <<entry, handled>>
      BY <1>0, <1>2 DEF PushEntry
    <2>2. /\ Known(queue', accepted + 1)
          /\ \A n \in Int : n <= accepted /\ Above(queue, n) => Above(queue', n)
      BY <1>0, <1>2, <2>1, PushOnce DEF OnceInv, PushEntry
    <2>3. UNCHANGED <<Past, AtMostOnce>>
      BY <2>1 DEF Past, AtMostOnce
    <2> QED BY <1>0, <2>1, <2>2, <2>3 DEF OnceInv
  <1>3. CASE Take
    <2>1. CASE IsEmpty(queue)
      BY <1>3, <2>1, OnceUntouched DEF Take
    <2>2. CASE ~IsEmpty(queue)
      <3>1. /\ queue.size > 0 /\ queue' = Pop(queue) /\ entry' = Front(queue)
            /\ UNCHANGED <<accepted, handled>>
        BY <1>0, <1>3, <2>2 DEF Take
      <3>2. /\ Known(queue', accepted) /\ \A n \in Int : Above(queue, n) => Above(queue', n)
            /\ entry' <= accepted /\ entry' \in Cell
            /\ entry' > 0 => /\ \A n \in Int : Above(queue, n) => n < entry'
                             /\ Above(queue', entry')
        <4>1. Known(queue, accepted)
          BY DEF OnceInv
        <4>2. entry' \in Cell
          BY <1>0, <3>1, PopType
        <4> QED BY <1>0, <2>2, <3>1, <4>1, <4>2, PopOnce
      <3>3. Above(queue', entry')
        <4>1. \A i \in Cells(queue') : queue'.ring[i] \in Int
          BY <1>0, QueueFields DEF Cells, Cell, Junk
        <4> QED BY <3>2, <4>1 DEF Above, Cell, Junk
      <3>4. /\ \A k \in DOMAIN handled : handled[k] \in Past
            /\ Past' = {entry'} \cup {handled[k] : k \in DOMAIN handled}
        BY <3>1 DEF Past
      <3>5. \A n \in Past' : Above(queue', n) /\ n <= accepted'
        BY <1>0, <3>1, <3>2, <3>3, <3>4 DEF OnceInv
      <3>6. entry' > 0 => \A k \in DOMAIN handled : handled[k] < entry'
        BY <1>0, <3>2, <3>4 DEF OnceInv
      <3> QED BY <3>1, <3>2, <3>5, <3>6 DEF OnceInv, AtMostOnce
    <2> QED BY <2>1, <2>2
  <1>4. CASE Process
    <2>1. entry # Null /\ entry' = 0 /\ UNCHANGED <<queue, accepted>>
      BY <1>4 DEF Process, Null
    <2>2. Above(queue, 0) /\ Known(queue', accepted')
      BY <2>1 DEF Above, OnceInv
    <2>3. CASE entry = Junk
      <3>1. handled' = handled
        BY <1>4, <2>3 DEF Process
      <3>2. \A n \in Past' : n \in Past \/ n = 0
        BY <2>1, <3>1 DEF Past
      <3> QED BY <1>0, <2>1, <2>2, <3>1, <3>2 DEF OnceInv, AtMostOnce
    <2>4. CASE entry # Junk
      <3>1. handled' = Append(handled, entry) /\ entry \in Nat /\ entry > 0
        BY <1>0, <1>4, <2>1, <2>4 DEF Process, Cell, Null
      <3>2. /\ DOMAIN handled = 1 .. Len(handled) /\ Len(handled) \in Nat
            /\ DOMAIN handled' = 1 .. Len(handled) + 1
            /\ \A k \in 1 .. Len(handled) : handled'[k] = handled[k]
            /\ handled'[Len(handled) + 1] = entry
        BY <1>0, <3>1, AppendProperties
      <3>3. \A n \in Past' : n \in Past \/ n = 0
        BY <2>1, <3>2 DEF Past
      <3>4. AtMostOnce'
        BY <3>1, <3>2 DEF OnceInv, AtMostOnce
      <3> QED BY <1>0, <2>1, <2>2, <3>3, <3>4 DEF OnceInv
    <2> QED BY <2>3, <2>4
  <1>5. CASE \/ StartupOk \/ StartupFails \/ WaylandInit \/ LockQueue \/ PushFaults \/ SignalEntry
             \/ StopRequest \/ StopNotify \/ Join \/ JoinNothing \/ CloseDb \/ Reopen
    BY <1>5, OnceUntouched DEF StartupOk, StartupFails, WaylandInit, LockQueue, PushFaults, SignalEntry,
       StopRequest, StopNotify, Join, JoinNothing, CloseDb, Reopen, Crash, data
  <1>6. CASE \/ Lock \/ Check \/ Wait \/ ProcessFaults \/ LeaveLoop \/ Environment \/ Halt
             \/ UNCHANGED vars
    BY <1>6, OnceUntouched DEF Lock, Check, Wait, ProcessFaults, LeaveLoop, Environment, LoopFails, TransferDone,
       Terminate, Sigusr1, SpuriousWakeup, Halt, Crash, vars, data
  <1> QED BY <1>1, <1>2, <1>3, <1>4, <1>5, <1>6 DEF Next, MainStep, WorkerStep

\* Whatever SIGUSR1 has left in the queue and in its indices, the database thread never
\* processes an entry twice and never goes back to an older one.
THEOREM AtMostOnceTheorem == Spec => []AtMostOnce
  <1>1. IInv /\ OnceInv /\ [Next]_vars => OnceInv'
    BY OnceStep
  <1>2. OnceInv => AtMostOnce
    BY DEF OnceInv
  <1> QED BY <1>1, <1>2, InitOnce, Invariance, PTL DEF Spec

-------------------------------------------------------------------------------
(* The queue and its thread implement the abstract queue of module WriteFifo:    *)
(* each step of the program is, under the refinement mapping of DbThread, a step *)
(* of WriteFifo or none.                                                        *)

\* What the mapping shows of the state.
View == <<queue, armed, clean, accepted, entry, handled>>

-------------------------------------------------------------------------------
\* A step that changes nothing the mapping looks at is a stutter.
LEMMA ViewStutter == ASSUME UNCHANGED View PROVE UNCHANGED Fifo!vars
  BY DEF View, Fifo!vars, Waiting, Contents, Count

\* Once a thread was started on a bad queue, the promises stay void.
LEMMA CleanLost == ASSUME [Next]_vars, ~clean PROVE ~clean'
  <1>1. CASE MainStep
    BY <1>1 DEF MainStep, StartupOk, StartupFails, StartThread, StartThreadFails, WaylandInit, LockQueue,
       PushEntry, PushFaults, SignalEntry, StopRequest, StopNotify, Join, JoinNothing, CloseDb, Reopen,
       Crash, history
  <1>2. CASE WorkerStep
    BY <1>2 DEF WorkerStep, Lock, Check, Wait, Take, Process, ProcessFaults, Exit, Crash, history
  <1>3. CASE LeaveLoop \/ Environment \/ Halt \/ UNCHANGED vars
    BY <1>3 DEF LeaveLoop, Environment, TransferDone, Terminate, Sigusr1, LoopFails, SpuriousWakeup,
       Halt, Crash, vars, history
  <1> QED BY <1>1, <1>2, <1>3 DEF Next

\* The entry at the front of a queue whose promises hold is an accepted one.
LEMMA FrontIsEntry ==
  ASSUME TypeOK, RingInv, clean, queue.size > 0, entry = Null, ~IsEmpty(queue)
  PROVE  /\ Front(queue) \in 1 .. accepted
         /\ Contents(queue) = <<Front(queue)>> \o Contents(Pop(queue))
         /\ Contents(Pop(queue)) \in Seq(Cell)
  <1>1. /\ IsQueue(queue) /\ InBounds(queue) /\ accepted \in Nat
        /\ handled \o InHand \o Waiting = UpTo(accepted)
    BY DEF TypeOK, RingInv, Lossless, UpTo
  <1>2. /\ InBounds(Pop(queue)) /\ IsQueue(Pop(queue)) /\ Pop(queue).size = queue.size
        /\ Contents(queue) = <<Front(queue)>> \o Contents(Pop(queue))
        /\ Front(queue) \in Cell
    BY <1>1, PopContents, PopType
  <1>3. handled \in Seq(Cell) /\ Contents(Pop(queue)) \in Seq(Cell)
    BY <1>2, PartsType, ContentsSeq
  <1>4. Waiting = <<Front(queue)>> \o Contents(Pop(queue)) /\ InHand = << >>
    BY <1>2, QueueFields DEF Waiting, InHand
  <1>5. handled \o <<Front(queue)>> \o Contents(Pop(queue)) = UpTo(accepted)
    BY <1>1, <1>2, <1>3, <1>4, WholeTake
  <1> QED BY <1>1, <1>2, <1>3, <1>5, WholeMiddle

\* While a thread lives, so does the ring, and what waits is its contents.
LEMMA OpenWaiting == ASSUME IInv, Alive PROVE queue.size > 0 /\ Waiting = Contents(queue)
  BY QueueFields DEF IInv, TypeOK, Protocol, Ownership, Alive, Waiting

\* The head and the tail of a sequence put together from them.
LEMMA HeadTailOfConcat ==
  ASSUME NEW e \in Cell, NEW w \in Seq(Cell)
  PROVE  LET s == <<e>> \o w IN s # << >> /\ Head(s) = e /\ Tail(s) = w
  <1> DEFINE s == <<e>> \o w
  <1>1. <<e>> \in Seq(Cell) /\ Len(<<e>>) = 1 /\ <<e>>[1] = e
    OBVIOUS
  <1>2. /\ s \in Seq(Cell) /\ Len(s) = Len(w) + 1
        /\ \A i \in 1 .. Len(w) + 1 : s[i] = IF i <= 1 THEN <<e>>[i] ELSE w[i - 1]
    BY <1>1, ConcatProperties
  <1> HIDE DEF s
  <1>3. Len(w) \in Nat
    OBVIOUS
  <1>4. s # << >> /\ s[1] = e
    BY <1>1, <1>2, <1>3
  <1>5. Head(s) = e
    BY <1>2, <1>4
  <1>6. Tail(s) \in Seq(Cell) /\ Len(Tail(s)) = Len(w)
    BY <1>2, <1>3, <1>4, HeadTailProperties
  <1>7. \A i \in 1 .. Len(w) : Tail(s)[i] = w[i]
    BY <1>2, <1>3, <1>4, <1>6, HeadTailProperties
  <1>8. Tail(s) = w
    BY <1>6, <1>7, SeqEqual
  <1> QED BY <1>4, <1>5, <1>8 DEF s

-------------------------------------------------------------------------------
(* A thread that pops has waited before.  Protocol does not say so.             *)

AwakeInv == worker \in {"waiting", "relock", "pop", "work"} => armed

\* Every step keeps AwakeInv.
LEMMA AwakeStep == ASSUME IInv, AwakeInv, [Next]_vars PROVE AwakeInv'
  <1> USE DEF AwakeInv
  <1>1. CASE MainStep
    BY <1>1 DEF MainStep, StartupOk, StartupFails, StartThread, StartThreadFails, WaylandInit, LockQueue,
       PushEntry, PushFaults, SignalEntry, StopRequest, StopNotify, Join, JoinNothing, CloseDb, Reopen,
       Wake, Crash, history
  <1>2. CASE WorkerStep
    BY <1>2 DEF WorkerStep, Lock, Check, Wait, Take, Process, ProcessFaults, Exit, Crash, history
  <1>3. CASE LeaveLoop \/ Environment \/ Halt \/ UNCHANGED vars
    BY <1>3 DEF LeaveLoop, Environment, TransferDone, Terminate, Sigusr1, LoopFails, SpuriousWakeup,
       Halt, Crash, vars, threads, history
  <1> QED BY <1>1, <1>2, <1>3 DEF Next

-------------------------------------------------------------------------------
(* The steps that the abstract queue sees.                                     *)

\* start_db_thread opens the service, or breaks the promise.
LEMMA StartRefines ==
  ASSUME IInv, clean, StartThread
  PROVE  IF clean' THEN Fifo!Open ELSE Fifo!Break
  <1>1. queue.size = 0 /\ entry = Null
    BY DEF IInv, Protocol, Ownership, Lifecycle, Alive, StartThread
  <1>2. queue'.size = RingInit /\ queue' = Fresh(queue) /\ armed' = FALSE
        /\ accepted' = accepted /\ entry' = entry /\ handled' = handled
    BY DEF StartThread, Fresh
  <1>3. ~(queue.size > 0) /\ (queue'.size > 0)
    BY <1>1, <1>2
  <1>4. CASE clean'
    <2>1. IsEmpty(queue) /\ queue.read < RingInit /\ IsQueue(queue)
      BY <1>4 DEF StartThread, IInv, TypeOK
    <2>2. Waiting = << >> /\ Waiting' = << >>
      BY <1>1, <1>2, <1>3, <2>1, FreshContents DEF Waiting
    <2> QED BY <1>2, <1>3, <1>4, <2>2 DEF Fifo!Open
  <1>5. CASE ~clean'
    BY <1>3, <1>5 DEF Fifo!Break
  <1> QED BY <1>4, <1>5

\* queue_push accepts.
LEMMA PushRefines ==
  ASSUME IInv, RingInv, clean, PushEntry
  PROVE  Fifo!Accept
  <1>1. /\ IsQueue(queue) /\ queue.size > 0 /\ InBounds(queue) /\ Waiting = Contents(queue)
        /\ accepted \in Nat
    BY OpenWaiting DEF IInv, TypeOK, Protocol, Lifecycle, Alive, PushEntry, RingInv
  <1>2. /\ accepted' = accepted + 1 /\ accepted' \in Cell /\ queue' = Push(queue, accepted')
        /\ UNCHANGED <<armed, entry, handled>>
    BY <1>1 DEF PushEntry, history, Cell
  <1>3. IsQueue(queue') /\ queue'.size >= queue.size /\ Contents(queue') = Append(Contents(queue), accepted')
    BY <1>1, <1>2, PushType, PushContents
  <1>4. queue'.size > 0
    BY <1>1, <1>3, QueueFields
  <1>5. Waiting' = Append(Waiting, accepted')
    BY <1>1, <1>3, <1>4 DEF Waiting
  <1> QED BY <1>1, <1>2, <1>4, <1>5 DEF Fifo!Accept

\* queue_pop begins the oldest pending entry.
LEMMA TakeRefines ==
  ASSUME IInv, RingInv, clean, Take, ~IsEmpty(queue), armed
  PROVE  Fifo!Begin
  <1>1. /\ IsQueue(queue) /\ queue.size > 0 /\ Waiting = Contents(queue) /\ entry = Null
    BY OpenWaiting DEF IInv, TypeOK, Protocol, Ownership, Alive, Take
  <1>2. /\ queue' = Pop(queue) /\ entry' = Front(queue)
        /\ UNCHANGED <<armed, accepted, handled>>
    BY DEF Take, history
  <1>3. /\ Front(queue) \in 1 .. accepted
        /\ Contents(queue) = <<Front(queue)>> \o Contents(Pop(queue))
        /\ Contents(Pop(queue)) \in Seq(Cell) /\ Pop(queue).size = queue.size
    BY <1>1, FrontIsEntry, PopType DEF IInv
  <1>4. Waiting' = Contents(Pop(queue)) /\ queue'.size > 0
    BY <1>1, <1>2, <1>3 DEF Waiting
  <1>5. /\ Waiting = <<Front(queue)>> \o Waiting' /\ Waiting' \in Seq(Cell) /\ Front(queue) \in Cell
    BY <1>1, <1>3, <1>4, PopType
  <1>6. Waiting # << >> /\ Head(Waiting) = Front(queue) /\ Tail(Waiting) = Waiting'
    BY <1>5, HeadTailOfConcat
  <1> QED BY <1>1, <1>2, <1>4, <1>6 DEF Fifo!Begin, Null

\* process_queue_entry ends the entry in hand.
LEMMA ProcessRefines ==
  ASSUME IInv, RingInv, clean, Process
  PROVE  Fifo!End
  <1>1. /\ queue.size > 0 /\ entry # Null /\ entry \in Cell /\ accepted \in Nat
        /\ handled \in Seq(Cell) /\ Waiting \in Seq(Cell)
    BY OpenWaiting, PartsType DEF IInv, TypeOK, Alive, Process
  <1>2. handled \o <<entry>> \o Waiting = UpTo(accepted)
    BY <1>1 DEF RingInv, Lossless, UpTo, InHand
  <1>3. entry \in 1 .. accepted
    BY <1>1, <1>2, WholeMiddle
  <1>4. /\ handled' = Append(handled, entry) /\ entry' = 0
        /\ UNCHANGED <<queue, armed, accepted>>
    BY <1>1, <1>3 DEF Process, history, Junk, Null
  <1>5. UNCHANGED Waiting
    BY <1>4 DEF Waiting
  <1> QED BY <1>1, <1>4, <1>5 DEF Fifo!End, Null

\* pthread_cond_wait wakes the service up, the first time.
LEMMA WaitRefines ==
  ASSUME IInv, Wait
  PROVE  Fifo!Awake \/ UNCHANGED View
  <1>1. queue.size > 0 /\ armed \in BOOLEAN
    BY OpenWaiting DEF IInv, TypeOK, Alive, Wait
  <1>2. armed' = TRUE /\ UNCHANGED <<queue, entry, accepted, handled, clean>>
    BY DEF Wait, data
  <1>3. UNCHANGED Waiting
    BY <1>2 DEF Waiting
  <1> QED BY <1>1, <1>2, <1>3 DEF Fifo!Awake, View

\* A thread that exits has drained the queue, if it ever waited.
LEMMA ExitRefines ==
  ASSUME IInv, RingInv, clean, Exit
  PROVE  Fifo!Close
  <1>1. /\ IsQueue(queue) /\ queue.size > 0 /\ InBounds(queue) /\ entry = Null
        /\ Waiting = Contents(queue)
        /\ armed => IsEmpty(queue)
    BY OpenWaiting DEF IInv, TypeOK, Protocol, Ownership, Drained, RingInv, Alive, Exit
  <1>2. armed => Waiting = << >>
    BY <1>1, EmptyContents
  <1>3. queue'.size = 0 /\ UNCHANGED <<armed, entry, accepted, handled>>
    BY DEF Exit, Freed, history
  <1>4. Waiting' = << >> /\ ~(queue'.size > 0)
    BY <1>3 DEF Waiting
  <1> QED BY <1>1, <1>2, <1>3, <1>4 DEF Fifo!Close, Null

\* A failed start frees a ring that was never allocated.
LEMMA StartFailsRefines == ASSUME IInv, StartThreadFails PROVE UNCHANGED Fifo!vars
  <1>1. /\ queue.size = 0 /\ queue'.size = 0
        /\ UNCHANGED <<armed, clean, accepted, entry, handled>>
    BY DEF IInv, Protocol, Ownership, Lifecycle, Alive, StartThreadFails, Freed, history
  <1> QED BY <1>1 DEF Fifo!vars, Waiting

-------------------------------------------------------------------------------
\* The initial states are those of a service that is closed and has accepted nothing.
LEMMA InitRefines == Init => Fifo!Init
  BY DEF Init, Fifo!Init, NoQueue, Waiting, Null

\* Every step of the two threads is one of the abstract queue, or a stutter.
LEMMA StepRefines ==
  ASSUME IInv, RingInv, AwakeInv, [Next]_vars
  PROVE  Fifo!Next \/ UNCHANGED Fifo!vars
  <1>1. CASE ~clean
    BY <1>1, CleanLost DEF Fifo!Next, Fifo!Break
  <1>2. CASE clean
    <2> USE <1>2
    <2>1. CASE StartThread
      BY <2>1, StartRefines DEF Fifo!Next, Fifo!Break
    <2>2. CASE StartThreadFails
      BY <2>2, StartFailsRefines
    <2>3. CASE PushEntry
      BY <2>3, PushRefines DEF Fifo!Next, PushEntry, history
    <2>4. CASE Take
      <3>1. CASE IsEmpty(queue)
        BY <2>4, <3>1, ViewStutter DEF Take, View, history
      <3>2. CASE ~IsEmpty(queue)
        BY <2>4, <3>2, TakeRefines DEF Fifo!Next, Take, AwakeInv, history
      <3> QED BY <3>1, <3>2
    <2>5. CASE Process
      BY <2>5, ProcessRefines DEF Fifo!Next, Process, history
    <2>6. CASE Wait
      BY <2>6, WaitRefines, ViewStutter DEF Fifo!Next, Wait
    <2>7. CASE Exit
      BY <2>7, ExitRefines DEF Fifo!Next, Exit, history
    <2>8. CASE \/ StartupOk \/ StartupFails \/ WaylandInit \/ LockQueue \/ PushFaults \/ SignalEntry
               \/ StopRequest \/ StopNotify \/ Join \/ JoinNothing \/ CloseDb \/ Reopen
      BY <2>8, ViewStutter DEF StartupOk, StartupFails, WaylandInit, LockQueue, PushFaults, SignalEntry,
         StopRequest, StopNotify, Join, JoinNothing, CloseDb, Reopen, Crash, data, history, View
    <2>9. CASE \/ Lock \/ Check \/ ProcessFaults \/ LeaveLoop \/ Environment \/ Halt \/ UNCHANGED vars
      BY <2>9, ViewStutter DEF Lock, Check, ProcessFaults, LeaveLoop, Environment, LoopFails,
         TransferDone, Terminate, Sigusr1, SpuriousWakeup, Halt, Crash, vars, data, history, View
    <2> QED BY <2>1, <2>2, <2>3, <2>4, <2>5, <2>6, <2>7, <2>8, <2>9 DEF Next, MainStep, WorkerStep
  <1> QED BY <1>1, <1>2

\* queue_push, thread_entrypoint and stop_db_thread implement the abstract queue, with
\* any number of stops and restarts: entries are begun one at a time, in the order they
\* were accepted, each once, and a service that closes drops none once it is awake.
THEOREM FifoTheorem == Spec => ImplementsFifo
  <1>1. Init => AwakeInv
    BY DEF Init, AwakeInv
  <1>2. IInv /\ AwakeInv /\ [Next]_vars => AwakeInv'
    BY AwakeStep
  <1>3. IInv /\ RingInv /\ [Next]_vars => RingInv'
    BY RingStep
  <1>4. IInv /\ RingInv /\ AwakeInv /\ [Next]_vars => [Fifo!Next]_(Fifo!vars)
    BY StepRefines
  <1> QED BY <1>1, <1>2, <1>3, <1>4, InitRefines, InitRingInv, Invariance, PTL
          DEF Spec, ImplementsFifo, Fifo!Spec
===============================================================================
