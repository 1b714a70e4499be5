# A verification project for EQPerf

EQPerf is a small C library for game servers: a lock-free ring buffer, threads
that read such rings and are stopped by flags used as mutexes, a log thread, a
thread that executes SQL in the background, and the containers they use. This
directory holds TLA+ modules that model it, configurations for TLC, and proofs
for TLAPS. `PROJECT.json` names, for every definition, the lines of C it stands
for, and for every run and theorem what it shows.

    tlc -config MCRingBuf_mpsc.cfg MCRingBuf.tla      # one of the runs
    tlapm RingBufProofs.tla                           # one of the proof modules

## The system

| component | state | operations | talks to |
|---|---|---|---|
| ring buffer `ringbuf.c` | blocks with two flags each, four cursors | create, push, pop | shared by all threads, atomics only |
| worker thread `eqp_thread_*.c`, `eqp_semaphore_posix.c` | semaphore, `mtxLifetime`, `mtxShouldContinue` | start, trigger, wait, stop | owner and worker share one struct |
| log thread `log.c` | ring, table of open files, array of compress threads | register, message, deregister, rotate, deinit | every thread pushes; starts compress threads |
| database thread `db_thread.c`, `db_transaction.c`, parts of `db.c`, `db_query.c` | input ring, arrays of queries and transactions, a callback ring and a reference count per Database | schedule, execute, callback, drop, deinit | main thread, SQLite, log |
| connection and statements `db.c`, `db_stmt.c`, `db_query.c` | SQLite's handle, a statement, the row a query has come to | open, exec, prep, abort, select, reset | main thread, database thread, SQLite |
| hash table `eqp_hash_tbl.c`, `hash.c` | entries with chains, free index | set, get, remove, for_each, deinit | log thread |
| array `eqp_array.c` | elements, count, capacity | push_back, swap_and_pop, shift_left, ... | log and database thread |
| string `eqp_string.c`, `bit.c` | bytes, length, capacity | set, append, append a file, reserve, ... | hash table keys, paths, schema files |
| `main_thread.c`, `eqp_tls_posix.c` | the key of the thread ids | init and deinit of both workers | log and database thread |
| clock, errors, rows, `eqp_server_main.c` | none | a demonstration | |

The main thread starts the log thread and the database thread. Both are the same
pattern: whoever has work for the worker pushes a packet into its ring and posts
its semaphore; the worker wakes up, pops until the ring is empty, looks whether
it should stop and waits again. What a packet points to belongs to whoever has
the packet. The database thread pushes what it has executed into the callback
ring of the Database, from which the main thread runs callbacks. Everybody logs.

What is hard about it, and what the properties below are for:

* the ring's compare-and-swaps and flags, in any interleaving, with indices that
  were read some time ago;
* a sleep of the worker against a push, and the end of the worker against the
  owner that frees what it uses;
* ownership of queries and transactions over two rings, two arrays and two
  threads, with rings that are full, memory that runs out, SQL that fails, and a
  stop at any time; references that keep a database open;
* transactions: every BEGIN against its COMMIT, and what happens if that is lost;
* rotation of a log while lines, registrations and deregistrations are under way,
  and threads that end while their array is looked through;
* a hash table whose collisions move entries about;
* a statement that is prepared by one thread, executed by another and read by the
  first, whose first row was stepped to before anybody asked for it;
* the callback ring, which whoever drops the last reference destroys, while a push
  into it may not have returned, nor a loop that pops from it;
* sizes and counts that are kept apart from what they count: the length of a log,
  the changes of a write;
* a log thread that has to outlive everybody who logs, and a second worker that
  logs until its last step;
* buffers that move when they grow, and lengths at the edge of their blocks.

The `hazards` of `PROJECT.json` list them line by line.

## The modules

| module | what it is |
|---|---|
| `RingBuf` | `ringbuf.c`, one action per atomic operation |
| `RingQueue` | what a ring promises: a queue, in which a push takes its place and then becomes visible, and a pop obtains a packet and then frees its block |
| `RingBufInvariant` | the inductive invariant of `RingBuf` |
| `RingBufProofs` | its proof, what follows from it, and the theorems about `CallbackRing` |
| `WorkerThread` | start, work and stop of a worker thread; the ring is `RingQueue` |
| `WorkerThreadProofs` | theorems about it |
| `DbThread` | the database thread and the main thread that schedules; rings are atomic queues, `WorkerThread`'s stop is one step |
| `DbThreadProofs` | theorems about it |
| `LogThread` | the log thread, its files, its compress threads and `log_deinit` |
| `LogThreadProofs` | theorems about it |
| `KeyMap` | what the hash table promises: a map |
| `HashTbl` | `eqp_hash_tbl.c` with integer and string keys, one action per call |
| `HashTblProofs` | theorems about it, and that it implements `KeyMap` |
| `Cursor` | what `query_select` promises: passes over the rows of a result |
| `QueryCursor` | a statement from `db_prep` to the end of its callback, and the connection |
| `QueryCursorProofs` | theorems about it, and that it implements `Cursor` |
| `CallbackRing` | `RingBuf` as the callback ring of a Database, with the references that keep it |
| `Server` | the program: `main_thread.c` with both workers and their logging |
| `ServerProofs` | theorems about it |
| `Contents` | what String and Array promise: a sequence |
| `Bits`, `StringBuf`, `Array` | `bit.c`, `eqp_string.c`, `eqp_array.c` |
| `Containers` | the two buffers as implementations of `Contents` |
| `ContainersProofs` | the proof of it, of the bounds of the blocks, and of `Bits` |
| `MC*` | instances for TLC |

They are layers. `RingBuf` implements `RingQueue` (a theorem, and a property of
two runs); `WorkerThread` uses `RingQueue`; `DbThread` and `LogThread` take from
the two that a push and a pop are as good as atomic and that no wakeup is lost,
and model what the threads do with the packets. `CallbackRing` extends `RingBuf`
itself, since what it asks about lies between the ring's single steps. `Server`
composes two workers and the log thread's ring. `HashTbl` implements `KeyMap`; the
table of open files in `LogThread` is such a map, from source to file.
`QueryCursor` implements `Cursor`, and takes from `DbThread` that a query is in
one hand at a time; `StringBuf` and `Array` implement `Contents`.

### RingBuf

`index[t]` is the local of that name. An action is one load, store or
compare-and-swap; `pc` says which is next. The packet is the number of the push.
The variables `accepted`, `visible`, `taken`, `released` and `ticket` are
history: they number the blocks in the order they are taken, so that properties
and proofs can speak of block number k where the code has only k % N. No guard
reads them except `WithinLap`, which is the assumption of *one lap*: while one
thread is within an operation, from its load of the index to its
compare-and-swap, the others take at most `MaxLap` blocks. With `MaxLap < N` this
says that nobody sleeps there while the others go once round the ring, 2048
blocks in the program. Without it the ring is wrong: with `MaxLap = 6` TLC finds
`ClearFlagIsExplained` violated, as described under the runs. So every theorem that
needs the assumption states it (`OneLap`).

Atomics are sequentially consistent, as the functions of C11 that
`eqp_atomic_posix.c` calls without an order are. A weak compare-and-swap may fail
without cause (`PushRetry`, `PopRetry`).

### WorkerThread

`mtxLifetime` and `mtxShouldContinue` are the booleans `lifetime` and
`shouldContinue`. `memory` is that of the Thread and of the ring, which the owner
frees in the end. `thread_start` and the semaphore may fail. Where the code polls
(`thread_wait_until_stopped`), a poll that fails changes nothing and is left to
stuttering.

### DbThread

A query or transaction is an object with a `state`, and is found in a ring, an
array or the hands of a thread (`mobj`, or `di` into the array). The query a
transaction becomes for its COMMIT is `Commit(x)`. The arrays are looped over as
the code does, with the swap of the last element into the free place. SQLite
answers as it likes, except that a writer is BUSY while another connection to the
same file (`SharedFile`) has a transaction open, and a COMMIT while another
connection has a cursor open. `commitLost` remembers that a COMMIT was not
prepared or failed.

### LogThread

A file is the sequence of its lines, and a line is the number of the call that
logged it; its length is one. `disk` and `archive` are `log/<source>.log` and
what was moved to `log/archive/`. A log may be there from an earlier run.

Every open, write, rotation, allocation and thread start may fail. What may come of an
open is a record (`Opened`, `NotOpened`): the lines the log begins with, the entry it
has then, and whether it was done as asked for. `Registerings` are those of a
registration, which enters the log and then writes the line that says so (`OpenedLine`)
without counting it; `Reopenings` are those of a rotation that a line has caused. A
write that fails leaves a torn line or none, and the size is counted up all the same
(`Written`, `Write`; a torn line is a `TornLine`). A file that can be appended to and
cannot be read is taken for an empty one (`measured`). A Thread whose start failed for
want of memory is `uninitialized`: its flags are whatever the memory held.

The `mv` of a rotation may fail (`NotMoved`), which `log.c:309` assumes it does not:
the log is opened with "w+" all the same and its lines are gone, unless that fails, too.
Two rotations may fall within one second, so that the second archive has the name of the
first, which it replaces if the first was not compressed yet (`MovedOver`). `failed` has
the sources to which one of these, or an open or a write that failed, has happened;
`LogIsExact` and `RotatedInTime` are about the others, and `LinesStay` says what
survives even then. That the counted size is not that of the file, but may fall short of
it by the line of the opening, is part of `RotatedInTime`.

### HashTbl

The entries with their chains, as in C; a call is one step since a table is used
by one thread. `Hash` of an integer is `hash_int64` for small keys: its low bits, as
far as a mask looks at them, are those of key + 1 (`HashTblAssumption`), and two keys
have the same hash exactly if they agree in their low 24 bits. `hash_str` is a
constant. `copies` counts the copies the table has made of each string key and not
destroyed; making one is assumed to have memory. The array is larger than `capacity`
after a growth, as it is in the program. `And` is the `&` of a hash with a mask, and
`Positions` a table of it for every mask and key. `Placed` is the loop of `tbl_realloc`
over the old entries, the empty ones included. For a table of more than `MaxCapacity`
entries there is no memory; `SetFails` is a set that finds none, which may happen at
any growth.

### QueryCursor

One action is one call of SQLite with what EQPerf does around it. `stmt` is SQLite's
part: a statement that is not within its rows is executed from the start by the next
`sqlite3_step`, whether it was reset or not; `changes` is the write that
`sqlite3_changes` would count. `holder` says who has the statement; `DbThread` shows
that it can be only one. The database thread executes one query at a time (`Idle`),
and between its step and its `sqlite3_changes` the main thread may run (`ExecDone`,
`ExecChanges`), by `db_exec` or in a callback that asks a write for rows and so has it
executed again; `mixed` is the history of the writes that this has hit. `Finalize`,
`StepRow` and `RunsThrough` are external: SQLite as its callers here rely on it. A
callback may call `query_select` and `query_reset` for any statement and in any order,
before the first row as well: `hasResults` then promises a row that is gone, and
`RowOf` is `NotARow`. `Cursor` has this as `ResetEarly` and `GiveStale`, apart from the
passes.

### CallbackRing

Two threads: the database thread pushes executed queries, the main thread pops them
and drops their references. Every operation on the ring is that of `RingBuf`, with
one producer and one consumer, and `RingBuf`'s packet k is the k-th query pushed.
`at` says what a thread does between two operations. The main thread drops its own
reference at any time, also from within a callback, and `memory` is freed with the last
one. The code does not keep a thread from being within the ring then; the model lets it
go on as if the memory kept what it held, and `FreedRingOnlyRead` says what it can still
do there: the end of the last push looks for a flag to clear and finds none, and the
pop that goes on after the last callback finds the ring empty. Both read memory that is
freed; neither writes to it.

### Server

`at` is the place of the main thread in `Order`, which is `mt_global_init`, the work,
and `mt_global_deinit`. A call of `log.c` takes three steps: it tests `sLog` and the
thread's id (`Enter`), pushes or finds the ring full, and posts the semaphore, and reads
`sLog` anew for each. Any
step of the start may fail, after which `main` returns and the process is gone
(`aborted`); each worker may fail to set its id, or to wait, and end by itself.
What the log thread does with a packet is reduced to whether a log is open for its
source; what the database thread does with a job is reduced to the lines it logs.

### StringBuf, Array, Bits, Containers

`data` is the block with its bytes, those nobody has written being `Junk`. `Needs`
and `Block` are the growth, whose sizes come from `Bits`. `Asked` records a call and
its answer, which `Contents` looks at. A `SimpleString` read from a file ends with
whatever the memory held; it is there to show this, and no property is about it.
`str_reserve` is asked for a byte or more, as by its only caller. An `Array` keeps what was behind the last element. `Bits`
is written for words of `Width` bits, so that TLC can go over every word: `MCContainers`
assumes `PowersAreLeast`, which TLC evaluates with the run, and `PowersLeast` proves it
for every width. `Smear` is one `n |= n >> k`, as a union of sets of bits, and `Smeared`
the lines of them.

## The runs

| run | instance | result |
|---|---|---|
| `ring_mpsc` | two producers, one consumer, 3 blocks, 4 pushes | the ring is the queue; an answer "empty" is true; what was accepted becomes visible |
| `ring_spmc` | one producer, two consumers, 3 blocks, 5 pushes | packets are delivered once and in order where pops compete; an answer "full" is true |
| `callback_ring` | 5 queries through a ring of 3 blocks, the main thread's reference dropped at any time | the ring is freed with the last reference, and nobody writes to it then |
| `worker_log` | an owner and another pusher, ring of 2, 6 pushes | no wakeup lost, nothing freed under the loop, a stop ends |
| `db_core` | one database, two queries, one transaction | references, ownership, order, what is scheduled is done, a stop ends |
| `db_two` | two connections to one file, a transaction each, one query | a transaction is open only between its own BEGIN and COMMIT, a callback runs after the execution |
| `query_cursor` | a query with up to 2 rows and two that write (symmetric), 4 calls in a callback, one `db_exec` | one execution before a callback, the right count of changes, statements finalized once, rows once and in order |
| `log_core` | one source, rotation after two lines, 3 calls, 2 compress threads, every failure | the files are exact, no log outgrows the threshold, Threads are freed once and in time, `log_deinit` returns |
| `server` | a ring of 2, a line of each thread, one job | nothing is used after it is freed, no line misses its log, the end is reached |
| `tbl_core` | 4 integers and 2 strings, 2 values, 4 entries that become 8 | the table is in order and is a map |
| `containers` | words of 8 bits, texts and counts up to 4 | within the blocks, C strings are the texts, both are sequences |
| `tbl_mask` | a key with an odd hash | **violated**: after a growth it is in the table twice |

The violated run is a finding of `PROJECT.json`, with the line of code and the
comment it contradicts.

The models show further behaviour in which the code does not do what its comments or
its callers suppose. There is no run for it; the properties of the passing runs are
kept apart from it by their wording or by the constants, and these are the places
where a reader can see it or look for it:

* a producer that sleeps for a lap before its compare-and-swap on `writeStart` clears
  a flag that a later lap has set, can only advance by one, and strands the block
  (`ringbuf.c:56`; `ring_mpsc` with 6 pushes and `MaxLap = 6` violates
  `ClearFlagIsExplained`);
* with two producers a push may answer `ERR_OutOfSpace` on a ring that is empty:
  it compares an index with `readStart` that it loaded before the others went on
  (`ringbuf.c:71`; `FullIsHonest` is checked and proved for one producer);
* the owner waits for `mtxLifetime` and frees the struct; the worker has yet to
  unlock `mtxShouldContinue`, which lies in it (`eqp_thread_posix.c:21`,
  `ExitUnlocksContinue` with `memory` freed). In `Server` the two unlocks are one;
* `log_compress` ignores the result of `thread_start`. If that had no memory the
  flags of the Thread were never initialized, and `log_deinit` may wait for ever
  (`log.c:333`, `NotInitialized`; the exception in `DeinitReturns`);
* after a rotation whose `fopen` failed the source has an entry and no file:
  registering it again does nothing, and its lines are dropped (`log.c:432`,
  `RegisterSkips`);
* a `mv` that fails loses the log, and two rotations within a second lose an archive
  (`log.c:306`, `log.c:296`; `NotMoved`, `MovedOver`);
* the size of a log leaves out the line that says it was opened (`log.c:459`), is 0 for a
  file that can be appended to and not be read (`log.c:436`), and counts lines that were
  not written (`log.c:362`): a log may be rotated late or early (`RotatedInTime`, which
  leaves out the last two);
* `db_sched_ud` logs the id of a query that the database thread may have executed
  and destroyed (`db.c:183`, action `SchedLog`);
* what is pushed after the database thread's last pop and before its stop stays in
  the ring (`db_thread.c:245`; the exception in `ScheduledIsDone`);
* a COMMIT that is BUSY because of a cursor on another connection, which only the
  main thread can finish, is retried while the main thread waits for the stop
  (`db_thread.c:128`; `StopCompletes` is checked with one connection);
* a main thread that drops its reference while a push into the callback ring has not
  returned, or from within a callback, has the ring destroyed under `ringbuf_push` or
  under `db_exec_callbacks`, which go on to read it (`db_thread.c:176`, `db.c:238`;
  `FreedRingOnlyRead` says where they can be);
* a write of the main thread between a query's step and its `sqlite3_changes` is what
  `query_affected_rows` then tells of (`db_query.c:59`; `MainWrote`, and the exception
  `mixed` in `CallbackSeesOneExecution`);
* `query_select` on a statement that writes executes it again (`db_query.c:107`;
  `SelectDone`);
* `query_reset` leaves `hasResults`: a callback that resets before it has asked for a
  row is then given a Row of a statement that is on none (`db_query.c:129`; `QueryReset`,
  `NotARow`, and `GiveStale` of `Cursor`);
* the handle that `sqlite3_open_v2` gives for a file it cannot open is overwritten by
  that of `db_open_create`, within the same call of `db_open` (`db.c:78`), and those of a
  failed `db_open` by a later one (`db.c:116`, `OpenedAs`); each is leaked;
* a client that frees a buffer bound without a copy before the callback has SQLite read
  freed memory (`db_stmt.c:63`; not modelled);
* `str_reserve(s, 0)` on an empty String is `realloc(data, 0)`: where that frees (glibc),
  the second such call leaves `data` dangling (`eqp_string.c:141`; not modelled);
* a `SimpleString` made from a file has no null at its end, and `db_open_create` gives
  it to `sqlite3_exec` (`eqp_string.c:68`, `db.c:106`; `SstrFromFile`);
* `bit_pow2_greater_than_u32` wraps to 0 for lengths from 2^31 on, and a String would
  take a block of no bytes for one (`eqp_string.c:140`; `StringAssumption`);
* a removal does not return if its chain holds another key with the same hash
  (`eqp_hash_tbl.c:446`, action `RemoveHangs`);
* a string key that cannot be copied leaves its entry linked and empty
  (`eqp_hash_tbl.c:317`; not modelled);
* a growth links an empty entry of the old array into the chain of position 0 if
  that position is taken by then (`eqp_hash_tbl.c:171`), and the next removal from
  that chain loses its other keys.

**Bounds.** Three blocks are the smallest ring in which a block lies between the
two ends, and four to six pushes go round it, so that every block is reused and
indices are stale by a lap. Six pushes fill a worker's ring of two several times,
before and after the stop. In `db_core` an input ring of two and a callback ring
of one are both full in some states with three objects; two connections are
needed for BUSY. `log_core` has two rotations, of an old log or of a new one, and
both orders in which their threads can end; three calls are a registration and two
lines, or one and a deregistration, and with the old logs of zero, one and two lines
every call of the log thread meets a log that is empty, one short of a rotation, or due
for one. In the table, keys 1 and 1 + 2^24 and both strings
have main position 2 and keys 3 and 7 main position 0, so that chains form, entries
are evicted, and the fifth key makes the table grow; the string 101 has the hash of
the integers 1 and 1 + 2^24. In `callback_ring` five queries fill a ring of two
places, go round it and empty it again. In `query_cursor` four calls read two rows to
their end and begin again, or reset before the first and ask three times after that; one
attempt at `db_open` opens the connection or does not; of two writes one can come
between the step and the count of the other, and they are symmetric, as no property
tells them apart.
In `server` a ring of two is filled by the two registrations and the announcement, so
that a registration may find it full, and may also find room. Texts of four and words
of eight bits make a String grow through blocks of 1, 2, 4 and 8 bytes, at each of
which a text may end one byte before the end; an Array grows from 2 to 4 elements, or
is reserved to a capacity that is no power of two.

A growth is checked for such keys only for which it works: even hashes, and so few
at position 0 that no empty entry follows them into its chain; `MaxCapacity = 13` allows
two growths, of which six keys need one. `tbl_mask` shows what happens to odd hashes.
The log thread, the only user, keeps two keys and never grows its table.

**Fairness.** A thread that can take a step within an operation takes one
(weak fairness of its steps), which the scheduler provides. Nobody is obliged to
call anything, no failure is obliged to happen (`WaitFails` is in no fairness
condition), and a thread asleep on a semaphore of value 0 is not runnable. In
`Server` the main thread may work for ever; once it begins to leave, it goes on. A
producer that loses its compare-and-swap again and again does so because others
succeed, of which there are finitely many within the bounds. In `DbThread` a query
is not answered BUSY forever (strong fairness of its answer), while a BEGIN or a
COMMIT is BUSY for as long as what locks the file exists. A run of `xz` ends.

`CHECK_DEADLOCK FALSE` stands in configurations of programs that end or whose calls
are bounded, and in `tbl_core`, where the only thread may be caught in a removal.

`TypeOK` of `QueryCursor` and `Server` and `CbTypeOK` of `CallbackRing` hold of the
instances above, though no run lists them; the first two are theorems, and what the
proofs need of the third is in `CountInv`.

## The proofs

`RingBufProofs` proves for every number of blocks, producers and consumers that
`TypeOK` and `RingInv` are invariants. The safety properties themselves are not
inductive: that a packet is delivered once, say, depends on who is in the middle
of what. `RingInv` says, in terms of the block numbers:

* the cursors stand for the numbers (`Cursors`), and no more than N - 1 packets
  are in the ring;
* a thread's index stands for a number not beyond what has been taken, and if its
  compare-and-swap can succeed, the index is current (`PushTickets`,
  `PopTickets`: this is where one lap is needed);
* `Zone`, once for the blocks being written and once for those being read: each
  block between the cursors is flagged, or owned by one thread that is at work on
  it, or the first and about to be passed; one thread at most moves the cursor;
* if the first block of a zone is flagged, somebody is about to look at it
  (`WriteResponsible`, `ReadResponsible`);
* a block holds the packet that was accepted under its number (`Contents`), and no
  packet was accepted twice (`Distinct`).

The lemmas `ZoneReserve`, `ZoneMark`, `ZoneClear` and `ZoneMove` show what each of
the four kinds of step does to a zone, so that pushes and pops share them. What is
proved of `Slot`, the remainder by N, is that it is injective on N consecutive
numbers and that its successor is `NextIndex`. Its second part derives the
properties: `OverfullNever`, `InOrder`, `CopiesApart`, `Unstuck`,
`ClearFlagExplained`, `FullHonest` (one producer), `AgainHonest` (one consumer),
and `QueueImplemented`, that every behaviour of the ring is one of `RingQueue`.

Its last part is about `CallbackRing`, on the same invariant: every step of the callback
ring is a step of `RingBuf` or leaves it alone (`RingSteps`), so `RingInv` holds of it.
`CountInv` adds the account of the references: where the two threads can be
(`Places`), that each query the database thread took up is destroyed, in a thread's
hands or in the ring (`TakenUp`), and that there is one reference for each query not
yet destroyed and one for the main thread's handle (`References`). The count of the
ring's packets that `TakenUp` needs comes from the history numbers of `RingBuf`, which
is why the theorems assume one lap. From it, `LastReferenceFrees`
(`FreedWithLastReference`) follows at whatever moment the main thread drops its
reference. `NoWriteAfterFree` (`FreedRingOnlyRead`) needs besides that the only thread
that pops has a current index (`FreshPop`): then a ring of which everything is taken has
nothing to write in it for those who are still within (`NothingInHand`, `FreedRead`).

`WorkerThreadProofs` proves `TypeOK`, that no wakeup is lost, that `mtxLifetime`
tells the truth and that memory is freed after the loop, for any number of
pushers. The last needs that fewer packets are pushed than a semaphore can count:
otherwise the post of the stop fails, and `thread_stop_all_in_one` does not wait.

`DbThreadProofs` proves `DbInv`, in two layers. `OwnerInv` says where an object is:
what each program counter promises of the locals that go with it (`PlaceTells`), that
an object knows its Database (`DbKnown`), and that the sets counted are finite
(`Counted`), since `RefCountExact` and `OneOwner` are about cardinalities. The two are
inductive only together: an object is destroyed by whoever has it, and its reference is
there because it was live. The lemmas about `Places`, the number of times an object is
in a sequence, say what `Append`, `Tail` and the swap with the last element do to it.
`BracketInv` adds what has happened to an object to where it is (`CallOnce`,
`Executed`); `TransactionBracket` follows. `ReferencesBalance`, `OwnedOnce`,
`NothingLeft` and `CallsInTheirPlace` are for any number of databases, queries and
transactions, and any capacity of the rings.

`QueryCursorProofs` proves `CursorInv`: the shape SQLite leaves a statement in
(`StmtShape`), what its holder tells of its executions, its rows and the count of its
changes (`Progress`), that it is held until it is finalized (`Held`), and that the
database thread has one statement in hand (`OneInHand`). `StatementsAccounted` and
`CallbackSeesOneExecution` follow; so does the step simulation of `Cursor`, whatever the
callbacks call: `CursorImplemented` shows that the row stepped to by the database thread
before the callback asked is the first of the abstract pass, and that a Row which is none
comes from `GiveStale` only. `RowsAreOfTheResult` adds that it does not come at all in a
behaviour whose callbacks ask before they reset (`AsksBeforeReset`, its hypothesis).

`ServerProofs` proves `ServerInv`. `OrderInv` ties the places of the main thread to
what exists (`PlaceTells`), to the life of each worker (`WorkerTells`) and to the calls
of `log.c` under way (`CallTells`); `UsersOutlived` follows from it. For
`LinesFindTheirLog`, `LogsInv` looks into the ring: a line has its registration before
it there, or the log is open, and no deregistration is before it (`LogOf`), and only
the database thread deregisters, at its end (`LeavesLast`).

`LogThreadProofs` has four invariants, none of which needs the others but for the types.
`ThreadInv` is that of `ThreadsOwned`: threads are made in order, the array has each
once, and `log_deinit` goes through it when the log thread has ended. `RotatedInTime` is
inductive as it stands (`InTimeStep`): a line that brings the size to the threshold has
the log rotated, and a rotation that does not fail leaves one line at most
(`RotationInTime`). `Promised` is that of `LogIsExact`: applying
what is still in the ring to the entry of a source and to its lines gives what the calls
so far have asked for. `Becomes` says this without recursion, by the existence of the
states in between; a call makes the run longer at its end and the log thread shorter at
its beginning (`BecomesLonger`, `BecomesShorter`), and a rotation that does not fail
leaves the lines as they are. `LinesKept` is the action property `LinesStay`.

The last two need what `FlattenSeq` makes of a sequence that grows, which is induction:
`FlattenSeq(Append(a, x)) = FlattenSeq(a) \o x`. The library's induction theorems take
an operator, which no prover here can instantiate; that `<` on `Nat` is well-founded
is a theorem without one, and induction with sets (`SetInduction`) follows from it. The
recursive function within `FlattenSeq` is a `CHOOSE`: `FlatExists` shows that there is
such a function and `FlatAgrees` that two of them agree.

`ContainersProofs` has a shape for each buffer. `StrShape` says that the block has as
many bytes as the String takes it for, that one is left behind the text, and that the
text is made of `Chars`, so that it has no null in it and `CString`, which is a least
position, stops where the text ends. That a block grows to more than it was asked for
(`GrowsBeyond`) comes from `PowersLeast`. `AppendedText` and
`ShortReadText` say what the bytes are after a copy; the other calls cut the text or
leave it. `ArrayShape` is the same for the Array, `FirstOf` the lemma its calls share.
`StringStep` and `ArrayStep` show that each call is one of `Contents`
(`ImplementsContents`), a failure being `Fail`.

Its first part proves `PowersLeast`: the functions of `bit.c` are what `LeastPower` says,
for every width that is a power of two, the 32 of the code among them. A power of two
is the size of a power set, from which come its doubling and its order (`PowersGrow`,
`PowerDoubles`); every set of positions is that of the bits of one word (`WordOf`), a
word whose bits are all set is 2^t - 1 (`AllOnes`), and after the shift by 2^(r - 1) the
2^r bits from the highest on are set (`SmearedToTop`). The wrap to 0 is that of
`Fitting`.

`HashTblProofs` proves `TableInv`: the array is a `Table`. In it, the entries of one main
position form a chain that begins there (`Chained`: `Headed`, `Links`, `Apart`,
`Reached`), on which a rank rises, so that it has no circle (`Ranked`); a key is in one
entry; and the free index is invalid or an empty entry. The rank is what makes it
inductive, and what the walks need: `LastOf`, `PrevOf` and `FirstOf` are recursive
functions over a chain, and `WalkExists`, `WalkAt` and `WalkInto` show, by induction on
the rank, that such a function exists and where it ends. The lemmas on chains (`SetAtHome`,
`SetAtEnd`, `MoveAway`, `Unlinked`, `SecondMovedUp`) say what an insertion, an eviction
and a removal do to one, with keys and links as functions of their own. What
the calls do to the map is stated on the set of pairs (`Pairs`); `TheMapIs` shows that
what `tbl_get` finds is this set, and `MapStep` that each call is one of `KeyMap`.

A growth is the loop of `tbl_realloc`, by induction on the old entries (`AllPlaced`,
`Placing`): the new array is in order for the mask 2n - 1, holds the pairs of the
entries placed, and its free index has an empty entry, since fewer than 2n are taken. It
does not preserve the table in general, as `tbl_mask` and `eqp_hash_tbl.c:171` show;
what it needs is `FitsTwice`: that no key has another position by the mask 2n - 1 than
by 2n - 2, which the later calls use (`SamePlaces`), and that no empty old entry comes
to position 0 after a key whose place that is (`EmptiesFit`). The theorems say for
which behaviours that is so:

* `SmallStaysInOrder`: a table with `MaxCapacity < 7`, which cannot grow, is in order and
  implements the map, for any keys and hashes. This is the table of the log thread.
* `StaysInOrder` and `IsMap`: `TableInOrder` and `ImplementsMap` for every behaviour whose
  growths fit (`GrowsInOrder`).
* `EvenStaysInOrder`: with even hashes, empty entries before a growth are the only thing
  that can go wrong (`EmptiesInOrder`).
* `FirstStaysInOrder`: with even hashes, neither does that as long as the free index is
  the first empty entry, which a removal spoils only if it empties an entry that is
  alone in its chain, whose index `tbl_remove` does not give back (`RemovesInOrder`). A
  table from which nothing is removed is such a table.

TLC has found `TableInv`, `GrowsInOrder` and `EmptiesInOrder` true of `tbl_core`, whose
growths do meet empty entries.

Assumptions of the proofs: those named in the modules (`RingAssumption`: N >= 2;
`WorkerAssumption`, `HashTblAssumption` and the like, each of which says of what kind
the constants are; `StringAssumption` also that texts have no null and stay below half
of what a word counts; `CallbackAssumption` is a hypothesis of the theorems about
`CallbackRing`, which `MCCallbackRing` assumes), `OneLap`, the sole producer or
consumer, `AsksBeforeReset`, and, of the table, `GrowsInOrder` and what implies it, each
stated by the theorems that need it.

Each inductive invariant was checked by TLC on the instances of the runs before it was
proved, but for `Promised`, of which the run `Becomes` was checked as a fold.

Only model-checked: liveness and everything that needs fairness (`PublishedEventually`,
`HandledUnlessLeft`, `ScheduledIsDone`, `StopCompletes`, `DeinitReturns`), which are out
of the prover's reach. Of a growth that does not fit nothing is proved: `tbl_mask` shows
what becomes of the table. Every safety property that a passing run checks is stated by
a theorem, with the hypotheses above.

## Not modelled

Formatting, parsing and the text of messages, and with them `log_as_id`; the bindings
of `db_stmt.c`, each of which hands one value to SQLite and keeps nothing; what stdio
keeps of a write that failed, and an `ftell` that fails; SQLite, but for its answers; the values of `row_int` and its like;
the clock and error strings, which keep no state; `hash_str`, whose values are
constants; `semaphore_try_wait`; a `pthread_detach` that fails; a string key of which
no copy can be made, whose entry the code goes on to use as one that is empty; what
the demonstration does besides starting, scheduling and ending; the Windows variants,
of which the build that is modelled has none; the amalgamation script.

## Plan

Done: every component of the inventory but for what the section above leaves out, the
runs, and the proofs of every safety property they check. What is left:

1. A string key of which no copy can be made (`eqp_hash_tbl.c:317`): its entry stays
   linked and empty, so `HashTbl` would need empty entries within chains.
2. A `tbl_realloc` that stored 2n as the capacity and skipped empty entries would use
   one mask where `FitsTwice` has two; the theorems with `GrowsInOrder` could then be
   stated for every behaviour.
