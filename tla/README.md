# cclip in TLA+

A model of cclip, a clipboard manager for Wayland: the daemon `cclipd`, which
saves what is copied, and the command `cclip`, which lists, copies, tags and
deletes what was saved. The modules are checked with TLC on small instances. Every
safety property that holds in a run, and the refinement, is also proved with TLAPS for
every value of the constants; what is only model-checked is liveness.

## 1. The system

| Part | State | Operations | Who calls it |
|---|---|---|---|
| Clipboard reception (`cclipd/wayland.c`) | the one offer being announced and its MIME types; per transfer a pipe and a buffer | `data_offer_handler`, `mime_type_offer_handler`, the selection handlers, `receive_offer`, `is_secret`, `on_pipe_ready` | callbacks of the event loop |
| Write queue (`cclipd/sql.c`) | a ring `ring, size, read, write`, a mutex, a condition variable | `queue_push`, `queue_pop`, `queue_for_insertion` | pushed to by main, popped by the database thread |
| Database thread (`cclipd/sql.c`) | `should_exit`, the compiled statements, the sqlite handle | `start_db_thread`, `thread_entrypoint`, `stop_db_thread` | main: startup, SIGUSR1, cleanup |
| Daemon (`cclipd/cclipd.c`) | the handle, the loop | startup, `on_sigusr1`, `on_sigint_sigterm`, cleanup | signals |
| Writing an entry (`cclipd/sql.c`) | one transaction, a static counter | `process_queue_entry`: BEGIN, insert or refresh, every tenth time prune, COMMIT or ROLLBACK | the database thread |
| Previews (`cclipd/preview.c`) | none | `generate_text_preview`, `generate_binary_preview` | the database thread, before an entry is stored |
| Commands (`cclip/`) | none; each is a process with one statement | `delete`, `tag`, `tags`, `wipe`, `vacuum` write; `list`, `get`, `tags list`, `copy` read | the user, and scripts that cut the output into lines and columns |
| `cclip copy` (`cclip/actions/copy.c`) | the payload, a Wayland data source | `on_data_control_source_send`, `on_data_control_source_cancelled` | the compositor, for clients that paste |
| Schema (`common/db.c`) | `user_version` and the tables | `db_get_user_version`, `db_init`, `db_migrate` | every start of `cclipd` |
| Event loop (`thirdparty/pollen/pollen.h`) | the epoll set, one signalfd with its mask and table, `should_quit` | `pollen_loop_add_fd`, `pollen_loop_add_signal`, `pollen_loop_run`, `pollen_internal_signal_handler` | main |

The event loop (pollen, vendored) calls back one at a time; a finished transfer
calls `queue_for_insertion`, the database thread takes the entry and writes it,
and the commands meet it only in the database file.

What is hard, and where (PROJECT.json lists every hazard at its line):

- two threads around a mutex, a condition variable and a flag that is written
  without the mutex;
- a ring that grows with wrapped indices, and is replaced on SIGUSR1;
- processes that share one database file, in single statements that commit by
  themselves, with no busy timeout, and may be killed at any point;
- a schema created statement by statement and migrated in one transaction, whose
  version is read before that transaction begins;
- transfers that overlap with new offers, in callbacks that share one record;
- an event loop whose callbacks free event sources while events of the same batch
  are still to be dispatched, and whose setup is never checked for success;
- output and pastes that take any number of partial writes, to readers that are
  slow, gone or replaced;
- bytes of unknown origin that must become one line of valid text.

What makes each part correct: the queue hands every accepted entry to the
database once and in order, and stopping drains it; the thread lives on an open
handle with compiled statements; a transaction is closed on every path; pruning
spares tagged entries and keeps to its limit; the constraints of the schema
always hold; starting a daemon never costs data and ends with the current
schema; a transfer takes its types from its own offer and is queued whole; no
event of a freed source is dispatched and no signal is blocked unless it is
served; a preview is faithful to its payload, and what a command prints is the
beginning, or with exit status 0 all, of one image of the database and can be
taken apart again; a copy serves the whole payload until it is replaced.

## 2. The modules

| Module | Models | Detail kept | Abstracted |
|---|---|---|---|
| `RingQueue` | `struct queue`, `queue_push`, `queue_pop` as operators | indices, growth, what lies out of range | an entry is its number; `unsigned` does not wrap (the ring would need 2^32 cells) |
| `WriteFifo` | what the queue promises, through any number of restarts: one entry at a time, at most once, in order, nothing lost once the service is awake | - | - |
| `DbThread` | both threads of `cclipd`, on top of `RingQueue` | every lock, test, wait, signal, join and error path | writing an entry is one step |
| `Store` | tables, constraints, cascade, trigger and each SQL statement as operators on an image | keys, hashes, timestamps, tags, links | preview, size and type follow from the data; a tag's name stands for its id |
| `Database` | `process_queue_entry` and the writing commands, over `Store` | statements, write lock, transaction, counter, clock, deaths | WAL, page cache, option parsing |
| `Schema` | version detection, `db_init`, `db_migrate` of concurrent daemons | each statement of `db_init`, each migration, every query | columns as "v1", "v2", "v3"; what statements do to rows |
| `EventLoop` | pollen as cclipd uses it: the epoll set, batches, signals, quitting | registration and removal, what each failing system call leaves behind, merged signals, the order inside a batch | pointers (a source is its callback and data), timers, eventfds, idle callbacks |
| `Selection` | offers, MIME types, secrets and transfers, as callbacks of `EventLoop` | order of events, shared offer, pipe, HUP | bytes are counted in pieces, types are sets that match |
| `Preview` | `generate_preview` on sequences of bytes, and what a preview should be | every byte, the size of the buffer | the digits of a binary preview's size |
| `Cclip` | one `cclip` process from `main` to its exit, `cclip copy` as a data source | statement and database handle, each `writev` and `write`, field lists, queries, the bytes of each column, exit status | option parsing (a line is good, bad or asks for help), what the clock says (times grow with ids) |
| `MCDatabase`, `MCSelection`, `MCCclip` | small instances | | |
| `RingQueueProofs`, `DbThreadProofs` | proofs about the queue, its threads, and the refinement of `WriteFifo` | | |
| `StoreProofs`, `DatabaseProofs` | proofs about the statements, and about the processes that issue them | | |
| `SchemaProofs`, `SelectionProofs` | proofs about the module of that name; `SelectionProofs` has those about `EventLoop` too | | |
| `PreviewProofs`, `CclipProofs` | proofs about the decoder, and about the process whose output it becomes | | |

`DbThread` extends `RingQueue` and instantiates `WriteFifo`; `Database` extends
`Store`; `Selection` extends `EventLoop`, whose steps are its `LoopStep`, and adds
what the callbacks do; `Cclip` extends `Preview`, by which its stored entries get
their previews. `DbThread`, `Database`, `Schema`, `Selection` and `Cclip` meet at
named steps: `Selection` ends a transfer with a `Finish` that appends to `queued`,
which is where `DbThread` begins with `TransferDone`; `OnSignal` of `EventLoop` is
`Terminate` or `Sigusr1` there; `DbThread`'s `Process` is one run of `Database`'s
`Begin` to `Commit` or `Rollback`; `Schema` ends where `DbThread`'s `StartupOk` is
past; a writing command is one action of `Database` and, seen from its process, a
way through `Cclip`.

How state and actions correspond to the code is in the manifest's map,
definition by definition. Some conventions:

- **DbThread.** `main` and `worker` are program counters. The critical section
  of `queue_for_insertion` is three steps (`LockQueue`, `PushEntry`,
  `SignalEntry`) so that the unlocked signal can be overtaken. `worker` is
  `towait` between the test of `should_exit` and the wait, with the mutex held.
  `stop_db_thread` takes no mutex and can step in there.
- **Undefined behaviour** is a choice: a push or pop outside the ring yields
  `Junk`, goes unnoticed or kills the process (`PushFaults`, `ProcessFaults`);
  joining a thread that never existed returns an error or kills the process
  (`JoinNothing`); printing `errno` with `%s` (wayland.c:331) kills it or not
  (`LoopFails`). `should_exit` is a plain `bool` written by one thread while the
  other reads it; the model lets the reader see either value, but assumes that a
  value written is seen by later reads, as on every build with a compiler
  barrier in `pthread_cond_wait`.
- **Database.** SQLite's rules used: one writer, a deferred BEGIN that takes no
  lock, the lock taken by the first writing statement and kept to the end of the
  transaction, SQLITE_BUSY at once without a timeout, rollback on death.
  The daemon's transaction only writes after its first statement has the lock, so
  the image it starts from is the committed one.
- **Schema.** `Start` may happen again and again: the daemon is started with
  every session.
- **EventLoop.** `batch` has the events `epoll_wait` returned that are not
  dispatched yet, and `sources` what is registered; that they agree is a property,
  not part of the model: `events[n].data.ptr` is used without a look at the set.
  `epoll_wait` may return any events that fit, and the batch is dispatched in any
  order, since the kernel's order is not specified. `blocked`, `mask` and `table` are
  the process's signal mask, the signalfd's and `signal_sources`; `"dangling"` is a
  signalfd that could be made and not added to epoll: `signal_sources` is freed and
  `signal_fd` stays set, so that the next call writes to freed memory (`AddSignal`
  then has both outcomes). The callback of SIGUSR1 returns, fails, or never returns
  (`Hangs`, the loop is `"hung"`): it joins the database thread, which may have missed
  the request to stop. When exactly that happens is `DbThread`'s matter, here it may
  happen to any SIGUSR1.
- **Selection.** The protocol sends an offer's types right before its selection
  event, so `Announce` appends them as one burst; dispatching them interleaves
  with everything else, and one callback dispatches what it has read (`left`) to the
  end. Accepted patterns are tried in the order of the `-t` options, and for each
  the types in the order offered.
- **Cclip.** The payloads are bytes, because properties are about them: a preview
  on one line, tabs and newlines between columns. Whatever can be chosen on the
  command line is `Scenario`, with the entries it meets and the tags that no entry has
  (`orphans`; `cclip tag` can leave some, and `cclip tags` prints them). A query's first
  step fixes the image of all its rows, which the history variable `image` keeps.
  `secure` starts with either value, as SQLite is built with or without
  SQLITE_SECURE_DELETE. A reader that closes early sends SIGPIPE, which kills the
  process unless it is ignored; both happen in the model.

## 3. What the runs check

| Run | Question | Bounds |
|---|---|---|
| `DbThread_safety` | does the protocol of the two threads hold, with restarts and failures anywhere? Is an entry handled, does a stop complete, is `WriteFifo` implemented? | ring of 2 growing by 1, 5 entries, 2 SIGUSR1: growth up to three times at every position, wrapped indices, a restart after growth (40,083 states) |
| `DbThread_term` | does SIGTERM end the process? No. | 1 entry |
| `DbThread_first` | is what is queued written without waiting for more? No. | 1 entry |
| `DbThread_regrow` | does a restarted thread get a consistent queue? No. | 2 entries, 1 SIGUSR1 |
| `Database_shared` | do daemon and commands keep each other's data? When is pruned, how far, and can it hit the newest? | 4 copies of 2 payloads, prune every 2, keep 1, a clock of 2 values that may go back, 2 commands by 2 processes (symmetric), 1 tag, a failure, a death of the daemon (3.5 million states) |
| `Database_stale` | does `cclip delete` remove what its user saw? No. | 2 commands, 2 copies |
| `Schema_start` | do starts, kills and races keep data and reach version 4? | 2 daemons, versions 0 to 4, 2 entries, 1 tag, a kill, a failure (72,518 states) |
| `Schema_create` | does a new database get usable in the end? No. | 1 daemon, 1 kill |
| `Selection_receive` | are offers and transfers kept apart, complete and finished, in a loop that also serves signals and whose startup may fail? | offers of 6 kinds, one of them from a source that does not answer the hint, 2 signals, 1 failing system call, two of these inputs in all, 3 pieces per transfer (214,490 states) |
| `Selection_mute` | also with a source that does not answer? No. | 2 offers |
| `Cclip_run` | are previews faithful, is the output whole, with every entry in it, and can it be parsed, are handles released, does a copy serve all who paste? | 17 command lines on 3 entries and a copy, every payload of up to 3 bytes over 9 byte values and 57 longer ones, a preview of 4 bytes, 2 readers, a tag without entries, a deletion by another process (130,024 states) |
| `Cclip_secure` | does `cclip delete -s` leave nothing behind? No. | 1 reader, 3 entries |

The bounds suffice for the cases the properties are about: all index orders and
growths of the ring; a restart after growth and one after that; the smallest
period and limit at which a pruning transaction has non-pruning neighbours and a
victim (a prune, a commit, a failed prune and another commit reach the bound of
`PruneFrequency`); two commands because no statement involves three processes. In
`Selection_receive`, `MaxInputs` limits offers, signals and startup failures
together to two: two offers because a handler can confuse an offer only with the
one before it, an offer and a signal because a callback that removes a source
meets an event of another, two signals because pending ones merge, a failure and a
signal because a failed registration shows only when the signal comes. The pieces
allow a write before, between and after two reads of a pipe. In `Cclip_run` the byte
values are those on both sides of each test of the decoder, a preview of four
bytes is shorter and longer than the payloads, and rows are short enough for every
way of splitting them to be tried. Payloads, tags, offers and processes beyond
that add no case.

`CHECK_DEADLOCK FALSE` is set in the runs of `Database` and `Schema`, where a
system whose bounds are used up rests. In `DbThread` and `Cclip` a finished or dead
process stutters in `Halt`, in `Selection` also one whose callback never returns, and
every other stop is an error.

### Violations

Seven runs show where the code does not do what the manual or a comment says. Two more
such places are in passing runs, whose properties say what is true instead (8 and 9).
The findings of PROJECT.json quote both sides.

1. **SIGTERM may hang** (`DbThread_term`): `stop_db_thread` signals without the
   mutex, and a thread between its test and its wait misses it. SIGUSR1 calls the same
   function from the event loop, which then serves nothing any more, no SIGTERM either.
2. **The first entry may wait for the second** (`DbThread_first`): the thread
   waits before it looks at the queue.
3. **SIGUSR1 after growth** (`DbThread_regrow`): a fresh ring of 16 cells is used
   with the indices of the larger one.
4. **Stale ids** (`Database_stale`): the id of a deleted newest entry is reused.
5. **A half-made database is unusable** (`Schema_create`): `db_init` is not a
   transaction, and what it leaves is taken for version 1.
6. **A source that does not answer stops cclipd** (`Selection_mute`): the hint is
   read with a blocking read. The property is `HintCostsNothing`, which is
   `ClosedIsHandled` without its exception for such a source.
7. **Secure deletion is never turned on** (`Cclip_secure`): `PRAGMA secure_delete = ?`
   cannot be prepared, and `db_set_secure_delete` takes the resulting SQLITE_MISUSE
   for success.
8. **A list may have fewer lines than entries** (`MCLookAlike` in `Cclip_run`): the
   manual says that `cclip list` "Prints information about all database entries", which
   are "separated with newlines" (man/cclip.1.in:36-37). The query is `SELECT DISTINCT`
   over the fields asked for (list.c:105), so entries that differ in none of them share
   one line: `cclip list type,preview` prints two lines for the three entries of the
   instance. What is true instead is `RowsOfAll`, which is part of `OutputWhole`: every
   entry's row is printed, none twice, and with the id among the fields there are as many
   rows as entries. `LinesParse` accordingly speaks of lines and rows, not of entries.
9. **A secret told in two pieces is stored** (`"split"` in `Selection_receive`): the
   manual says that "By default secret data like passwords is ignored"
   (man/cclipd.1.in:53); the hint is read once (wayland.c:155). `SecretsIgnored` is about
   sources that answer in one write.

The passing properties are stated so that they hold around these: `Lossless` is
conditional on `clean` (every thread was given an empty queue with indices in its
ring), and so is what `ImplementsFifo` promises; `ArmedEntryHandled` on `armed` (the
thread has reached its first wait), `StopCompletes` excludes exactly the window of 1, and
`ClosedIsHandled` and `QuitEnds` except callbacks that never return (`Stuck`): a SIGUSR1
that met the window of 1, and the read of a hint that is not answered. Each of these
conditions is shown to be needed by one of the seven runs.

Other conditions in properties come from behaviour of the code that no document
contradicts, and have no run of their own:

- `BlockedIsServed` and `QuitEnds` except a `"dangling"` signalfd: the first
  `pollen_loop_add_signal` failed half way and the next one uses freed memory;
- `OutputWhole` claims completeness for `list` and `tags` only: `get` ignores the
  result of `writev_full` and exits with 0 on a full disk;
- `StatementsReleased` excepts `cclip tags delete`, which finalizes its statement
  twice (tags.c:100, and again at `out`, tags.c:112), on success as well as on failure;
- `CopyServes` excepts readers with a nonblocking pipe (EAGAIN ends the paste early),
  and `CopyEnds` those that never read, for whom `cclip copy` blocks; a reader that
  closes early ends the whole copy by SIGPIPE;
- `LinesParse` assumes MIME types without control characters, which are printed as
  the source client gave them.

Four hazards have no property, because the one that would catch them does not hold and
no document promises it: the entry that is dropped while a command holds the write lock
(sql.c:323), the exit status of a `get` whose output was cut short (get.c:106), the second
finalize (tags.c:112) and the `"dangling"` signalfd (pollen.h:446). The models have these
outcomes; the hazards of PROJECT.json say in which actions.

### Fairness

- `DbThread`: weak fairness of `MainStep`, of `WorkerStep` and of `LeaveLoop`.
  The first two say that a thread that can run does run; the mutex is contended
  only by one critical section of the other thread, which ends. `LeaveLoop` is the
  return of `pollen_loop_run` once asked to quit. Nothing is assumed of signals,
  transfers or spurious wakeups.
- `Schema`: weak fairness of each daemon's `Step`, its start included: the
  daemon is started again with the next session. Kills and failures are bounded.
- `Selection`: weak fairness of `MainStep`, the one thread of the loop: it runs when
  it can. That no descriptor starves is not assumed; it follows from batches being
  dispatched completely and sources writing a bounded number of pieces. Nothing is
  assumed of compositor, sources or signals: the read of the hint is enabled only by a
  source that answers, and no step leaves a `"hung"` callback of SIGUSR1.
- `Cclip`: weak fairness of `Process`. Nothing is assumed of readers or of the
  compositor; a reader that stalls disables the write.
- `Database` has no liveness property and no fairness.

## 4. What is proved

Every theorem is about `Spec` with all constants left open; the bounds of the runs
(`MaxEntries`, `MaxInputs` and the like) are constants too, so the theorems hold for
any number of entries, restarts, commands, offers or failures. They rest on the named
assumptions of the modules, which TLC evaluates in every run and which say no more
than what the code has:

| Assumption | Says | Because |
|---|---|---|
| `RingAssumption` | `RingInit >= 2`, `RingGrow >= 1` | sql.c begins with 16 cells and adds 16 |
| `BoundAssumption` | the bounds are numbers | |
| `DatabaseAssumption` | every payload has a hash, `Period > 0`, there are tags, and no client is named like a value of `lock` | sql.c divides by 10; `Tag = {}` would leave `tag` without an argument |
| `SchemaAssumption` | the versions found are 0 to 4; no daemon is named like a value of `lock` | cclipd.c refuses a larger one before any of this |
| `EventLoopAssumption` | `Signals` is a sequence without repetitions, some of them quit; epoll_wait's array has at least one cell | cclipd.c registers three signals once each |
| `SelectionAssumption` | types and patterns are what their names say; `None` is not a type | |
| `CclipAssumption` | a scenario is a command line, a sequence of entries with ids of their own and tags without entries; payloads and types are bytes, tags printable ASCII without commas; `PreviewLen > 0`; `None` is not a reader | the id is the primary key; `is_tag_valid` (utils.c) lets no other tag in; cclipd.c refuses a preview length below 1 |

Safety properties are rarely inductive. Each section below names the invariant that is
and why it needs its parts; TLC found each of them true on the runs' instances before
it was proved.

### Queue and threads

`RingQueueProofs` proves about the operators, for every ring and all index positions,
that the ring is a sequence: `PushContents` (a push appends, growing or not),
`GrowContents` (growth keeps the contents and puts the indices in range),
`PopContents` (a pop takes the head), and that each operator keeps the type of the
queue. The arithmetic is reduced to a case distinction between `read <= write` and
`write < read`, because the provers do not reason about `%` with a variable divisor:
`ModLow`, `ModHigh` and `ModNegative` evaluate the remainder in the three ranges that
occur, and every later lemma uses only those. A second group of lemmas is about
rings whose indices may be out of range, of which only the ages of the cells are known.

`DbThreadProofs`:

- `Invariance`: `IInv == TypeOK /\ Protocol` is inductive. `Protocol` has four
  parts: who holds the mutex (`MutexHolder`), what a living thread owns
  (`Ownership`), at which points of main a thread exists and has been told to stop
  (`Lifecycle`), and that an armed thread sees its loop condition only with an
  empty queue (`Drained`). That a handle is open while the thread runs, for instance,
  needs to know that main closes it only after a join or when no thread was started,
  which is `Lifecycle`; and `Lifecycle` needs `should_exit` to be true on the whole
  way from a stop to the next start.
- From it `TypeCorrect`, `ProtocolHolds`, `DrainTheorem`, `HandleTheorem` and
  `LiveThreadTheorem`, each an implication from `IInv`.
- `JoinTheorem`, from a second invariant: at the points of main that can lead to
  a join without a thread and with `should_exit` false, nothing was accepted and
  no signal was handled yet.
- `LosslessTheorem`, from `RingInv`: as long as `clean`, the indices are in the
  ring, and handled entries, the one in hand and the contents make up everything
  accepted.
- `AtMostOnceTheorem`, from `OnceInv`, also after a restart with indices outside the
  ring, where nothing is known of order or loss: every cell that a pop may still read
  holds `Junk` or an entry younger than all that were taken. A stale index can lose
  entries and skip them but not come back to an old one.

The last section of `DbThreadProofs` proves the refinement (`FifoTheorem`:
`Spec => ImplementsFifo`) action by action: `Init` maps to `Init`; starting a thread, `PushEntry`, `Take` of an entry,
`Process`, the first `Wait` and `Exit` map to `Open` (or `Break`, if the ring is bad),
`Accept`, `Begin`, `End`, `Awake` and `Close`; all other steps leave what the mapping looks
at (`View`) alone. It needs `IInv`, `RingInv` and that a thread past
its first wait is armed (`AwakeInv`).

### Tables and transactions

`StoreProofs` proves that each statement keeps an image `Sound` (types, unique keys,
foreign keys, a finite table with bounded ids), that deletions leave no new orphaned tag
behind, and `PruneSound`: pruning removes only untagged entries that `Keep` others
precede, and leaves at most `Keep` of them.

`DatabaseProofs`: `DatabaseInv == Control /\ Images /\ Tally /\ Rate`. `Control` ties each
program counter to the write lock and `open` to the transaction. `Images` says of the
daemon's image what `DaemonKeepsTagged` and `LatestKept` need: tags and links are the
committed ones as long as the daemon has the lock, before pruning it is the committed
image after the insertion, and after pruning the payload is in it or something
at least as late was untagged. `Tally` and `Rate` are for `PruneFrequency`: the
place of the counter in its period bounds how many transactions have committed since
the last cleanup, with `Period - 1` more for each that failed. All eight properties of
the run follow.

### Schema

`SchemaInv` adds to `KnownLayout` and `ReadyIsCurrent` what the daemons in between rely
on: one that is inside `db_init` made all that is there so far, unless another has
completed the schema, and only one gets past the first statement (`Creating`); one that has
decided to migrate still knows something of the version although it looked before BEGIN
(`Deciding`); the image in a transaction is the committed one brought forward by the
migrations done (`Migrating`), and the migrations that would lose labels are those that
meet an error. The action property `KeepsDataTheorem` follows from the last part.

### Reception and event loop

`SelectionInv`. The core is `Streaming`: the wire is a sequence of announcements, the
first perhaps half dispatched, and in the middle of one `wayland.offer` and its list are
of that offer and hold its types so far (`Collected`). From it and `Asking` (the same
while the hint is read) follow `FromItsOfferTheorem` and `NoNullOfferTheorem`;
`Transfers` carries what was chosen to the end of the transfer, also when later offers
have replaced `wayland.offer`, and `SecretsIgnoredTheorem` with it. `Batch` is what
`NoStaleSourceTheorem` is about: events in hand are of registered sources, one per
source; it is inductive because a callback removes only its own source, whose event has
just left the batch, and that a pipe hangs up once. `Polled` is what
`BlockedIsServedTheorem` needs of a failed startup. That the nested loops of
`receive_offer` find the best type of the offer itself, and not just of the list kept, is
`SelectedIsBest`; least elements come from well-foundedness (`LeastNumber`), since
induction with an operator parameter is out of reach.

### Previews

`TextReadable` and `TextFaithful` are about `TextPreview` alone, for every payload and
every size of the buffer; `PreviewFaithfulTheorem` of `CclipProofs` applies them to the
stored entries.

The decoder is a recursive function over the bytes of the payload. `Recursion` says that
a function with a first value and a step to each next one exists (it follows from
`Induction`, and this from `LeastNumber`, the well-foundedness of `<`), so that the
`CHOOSE` which a recursive definition stands for has what its equations say
(`TextSteps`). Induction is stated for a set of numbers, not for an operator, and each use
names the set of the indices up to which the claim holds.

- *Readable.* `ValidSequences` shows the decoder's test (length from the lead byte, code
  point in range, no surrogate) to accept exactly the sequences of table 3-7, by the
  arithmetic of `TwoBytes`, `ThreeBytes` and `FourBytes`. `RoundCases` reads the C loop's
  branches off `Round`; each puts out whole characters and no more than there is room for
  (`RoundGood`).
- *Faithful, with room.* `TextWords`: at the end of each character of a well-formed
  payload the output has the words of the payload up to there, and `space` says whether the
  next byte begins one (`SameRound`). That the loop looks at whole characters only is the
  reason for `CharacterRounds`: inside a character it has already moved `next` past it.
- *Faithful, without room.* `TextClean`: of text in good order the output is a copy of
  the beginning, until at most one `?` ends it.

### Commands that read

`CclipInv == Handles /\ Types /\ Entries /\ Printing /\ Listing /\ Imaged /\ Found /\ Readers`.

- `Handles`: at each place of the process what it has open and how often it finalized.
  `StatementsReleasedTheorem` follows.
- `Entries`: the table has entries as cclipd stores them, each with the preview
  `generate_preview` makes of it and an id of its own (`Keyed`), whatever other processes
  delete. `PreviewFaithfulTheorem` follows.
- `Printing`: what is written, what `writev_full` has still to write, and the rows to come
  make up the rows of the query. It is kept by a `writev` of any number of bytes because
  of `RemainingBytes`: dropping used buffers and cutting the next one leaves exactly the
  bytes that were not written, wherever the cut is and however many buffers are empty.
  With `QueryType` (what each query returns, `DISTINCT` included, is rows that fit the
  fields asked for) `CclipTypes` follows.
- `Imaged`: the rows of a list are those of the entries its first step saw, whatever is
  deleted while they are printed. `OutputWholeTheorem` follows from this and `Printing`.
  `DistinctRows` and `FlatSet` say what merging and flattening leave of a set of rows, so
  that every entry to list has its row (`ListRowsWhole`). That rows and entries are as many
  once the id is asked for is a bijection between the places of the rows and the entries
  (`AsManyRows`): rows with the same id column are of the same entry, since different
  numbers have different digits (`DecimalInjective`) and an id is of one entry.
- `Listing`: a `list` that got past its arguments has fields. `LinesParseTheorem` needs it
  and the types of the columns: digits, previews, tags and plain MIME types have neither
  tab nor newline. `SplitConcat` and `SplitAt` say how `Split` meets a text without
  separators and a separator; `Columns` and `RowLine` take one line apart from that, and
  `WholeLines` all of them. An empty column, which has no bytes to be split off, is the
  case that makes the induction go over columns and not over bytes.
- `Found` and `Readers`: what a copy holds is what its query returned, and readers have a
  beginning of that. `CopyServesTheorem` follows, for any number of readers, partial writes
  of any size, and whatever is deleted meanwhile.

### Only model-checked

Liveness: `ArmedEntryHandled`, `StopCompletes`, `OldDatabaseUpgraded`, `ClosedIsHandled`,
`QuitEnds` and `CopyEnds`. The provers do not handle fairness and ENABLED.

## 5. What is not modelled

- `config.c` and the option parsing of both programs: settings and command lines are
  constants of the type the code stores; what `getopt`, `atoi` and `strtoll` make of a
  text is left out. (`cclipd -s -1`: `atoi` into a `size_t` gives a huge value that the
  test for less than 1 accepts.)
- Help texts and logging. (`log.c` takes `vsnprintf`'s result for the length it wrote.)
- Vectors, strings and allocation: sequences and sets here; an allocation that
  fails ends the process in `xmalloc`.
- Of pollen: timers, eventfds, idle callbacks, changing the events of a source and
  `pollen_loop_cleanup`, none of which cclipd uses.
- libwayland, SQLite and pthreads: modelled by what the code uses of them, and
  marked external in the map.
- The connection setup in `wayland_init` and `do_copy`, which is one step that succeeds
  or fails; `daemon()`, after which the process of `Cclip` is the child.
- A database file replaced by another one while cclipd runs; a second hash that
  collides.
- The bytes of a transfer in `Selection` (only how many there are) and the composition
  of all modules into one state space: they meet at the steps section 2 names.

## 6. Plan

Done, in this order: `RingQueue`, `WriteFifo`, `DbThread` and its proofs;
`Store`, `Database`; `Schema`; `Selection`; `EventLoop` and `Selection` on it;
`Preview`; `Cclip`; `WriteFifo` through restarts; the proofs of `AtMostOnce`, the
refinement, `Store`, `Database`, `Schema`, `Selection` with `EventLoop`, and `Cclip`; the
proofs about `Preview`, and with them those about what `Cclip` prints.

What could come next:

1. the digits of a binary preview, with the division and rounding of `%.2f`;
2. parsing of numbers and options, where `cclipd -s -1` is accepted;
3. a module that composes `Selection` and `DbThread`, so that a blocked hint and a stop
   request are in one state space.
