# A verification project for swe-daily-challenge

The repository is a collection of thirteen independent programs, one per
directory, each the solution of a systems-programming exercise described in its
`CHALLENGE.md`.  They share no code and do not talk to each other, so the
project models each of them on its own.  Nine are modelled: the ones with state,
concurrency, failures or memory that has to be right.

Sources below are given relative to the directory of the program; line numbers
refer to the files under `src/`.

## Inventory

| Program | State | Operations | What is hard about it | Status |
|---|---|---|---|---|
| 02 Treiber stack (`main.cpp`) | two atomic list heads `head` and `trash`, nodes | `push`, `pop`, `empty`, destructor; `producer`, `consumer`, `main` | lock-free retries by several threads, ABA, safe memory reclamation, termination | modelled |
| 06 epoll reactor (`reactor.c`) | event batch, descriptors, registrations, connections | `main` loop, `handle_new_connection`, `handle_client_data` | edges that can be missed, events gone stale, descriptors reused, clients that leave at any moment, short writes | modelled |
| 08 LSM tree (`main.cpp`) | memtable, numbered table files, list of paths | constructor, `put`, `del`, `get`, `flush` | crash in a flush, restart on an old directory, failing files, order of tables | modelled |
| 09 coroutines (`main.c`) | coroutine table, `current`, three kinds of `ucontext_t` | `coro_spawn`, `coro_yield`, `scheduler_run`, `finish_trampoline` | every context is good for one resumption, round robin with wrap-around, termination | modelled |
| 13 ring buffer (`src/lib.rs`) | `buf`, `cap`, `head`, `tail`, `len` | `new`, `push`, `pop`, `drop` | full versus empty, ownership of moved elements in `unsafe` code | modelled |
| 01 arena (`arena.c`) | `base`, `capacity`, `offset` in the region itself | `arena_create`, `arena_alloc`, `arena_reset`, `arena_destroy` | padding, word arithmetic, the header in the region | modelled |
| 04 DNS query (`main.c`) | one question, one socket, one answer and a cursor in it | `encode_name`, `build_query`, `skip_name`, `parse_response`, `main` | a lost, late, repeated or foreign datagram, ports used again, cut-off responses | modelled |
| 03 AES-GCM (`aes_gcm.cpp`, `main.cpp`) | an OpenSSL context, the output buffers | `aes_gcm_encrypt`, `aes_gcm_decrypt`, `round_trip`, `main` | which of seven calls fails: context freed? plaintext wiped? right verdict? | modelled |
| 11 Bloom filter (`bloom.h`) | bit vector, `m_`, `k_`, counter | constructor, `insert`, `contains` | no false negatives under wrapping arithmetic, `m_ = 0` | modelled, proofs only |
| 12 ELF inspector (`main.c`) | a mapped file | `main` | one pass, early returns | not modelled |
| 07 JIT (`main.c`) | one page | `main` | nothing but a fixed order of system calls | not modelled |
| 05 GDB printer | none | `to_string` | nothing: formats one value | not modelled |
| 10 HMAC length extension | none | `main` | a demonstration built from library calls | not modelled |

What makes each modelled program correct, in one line: the Treiber stack is a
linearizable stack that never touches freed memory; the reactor loses no edge,
no byte and no descriptor; the LSM tree is a map that loses at most what it has
not flushed; the coroutine scheduler is a fair queue and never resumes a dead
context; the ring buffer is a bounded queue and every element has one owner; the
arena's blocks are in the region, disjoint and aligned; the DNS client prints the
answer to its own question or ends without one; the AES-GCM wrapper accepts what
was sealed and nothing else, and leaves no refused plaintext behind; the Bloom
filter finds whatever was inserted.

## Modules

| Module | What it is |
|---|---|
| `TreiberStack`, `AbstractStack` | program 02; the atomic stack it implements |
| `TreiberWeak` | program 02 again, with the memory orders of the code |
| `RingBuffer`, `BoundedQueue` | program 13; the queue it implements |
| `LSMTree`, `KVStore` | program 08; the key-value store with crashes it implements |
| `Coroutines`, `RoundRobin` | program 09; the scheduler's queue it implements |
| `Reactor` | program 06, composed with its kernel and its clients |
| `Arena` | program 01 and a caller |
| `DnsQuery` | program 04, several processes of it, with the network and the resolver |
| `AesGcm` | program 03, one step per library call |
| `BloomFilter` | program 11 and a caller |
| `MCTreiberStack`, `MCTreiberWeak`, `MCReactor` | symmetry sets for TLC |
| `MCDnsQuery` | names, answers and foreign datagrams for TLC |
| `TreiberStackProofs`, `TreiberWeakProofs`, `RingBufferProofs`, `LSMTreeProofs`, `CoroutinesProofs`, `ReactorProofs`, `DnsQueryProofs` | theorems and their proofs |
| `LibraryProofs` | the same for the three libraries, `Arena`, `BloomFilter` and `AesGcm`; the specification of `Arena` is `ArenaSpec`, since both it and `AesGcm` are extended |

Definitions whose comment begins with "Mutant" are deliberately wrong variants
of the definition that follows them.  No specification uses them; substituting
one shows that the properties notice the mistake.

### TreiberStack

`head`, `trash`, `next`, `value` and `heap` are the shared memory, `pc` and the
locals belong to the threads.  A step is one access to memory that another thread
may touch: `PushLoad`, `PushCASOk`/`PushCASFail` are the load and the
compare-exchange of `push`; `PopLoad`, `PopNext`, `PopCASOk`/`PopCASFail` those of
`pop`; `RetireLoad`, `RetireLink`, `RetireCASOk`/`RetireCASFail` move the node to
`trash`.  A compare-exchange may fail spuriously, as `compare_exchange_weak` may.
`ConsumerLoop` and `ConsumerEmpty` are the two loads of the consumer's loop
condition, taken one after the other.  `MainJoin`, `MainVerify`, `DtorDelete`,
`DtorTrash`, `DtorEnd` are the end of `main` with the destructor.  `stk` and `bin`
are history variables, the sequences of nodes the two lists ought to spell.

Steps interleave sequentially consistently here; the memory orders are the subject
of `TreiberWeak`.

### TreiberWeak

The same program with the orders it names.  `mo` is the modification order of
`head`.  A load, and a compare-exchange that fails, returns any entry not older
than the one the thread has read last (`seen`); a compare-exchange that succeeds
reads the last entry.  `view[t]` are the nodes whose construction happens before
the next step of `t`: an acquire adds all nodes pushed up to the entry it reads,
since every change of `head` is a read-modify-write and continues the release
sequences of the pushes before it; a relaxed load adds nothing.  `done` is loaded
relaxed as well, so a consumer may see it late, and seeing it says nothing about
`head`.  A plain read of `next` that nothing orders returns any pointer, unless
`DependencyOrder` says that the machine orders a dereference after the load of its
pointer, which x86-64 and AArch64 do and C++ does not.  `Visible` is meant for the first
case: without the order any pointer may be installed in `mo`, a node never pushed
included, and counts as published from then on.  Two results of the other
module are used: addresses are not reused while threads run, so a node is its
value, and nothing depends on the order of steps on `trash`, so retiring a node is
one step.  `list` is a history variable, the nodes on the stack; `Linked`, a part of
`TakenOnce`, says that the `next` fields spell it.

### Reactor

Every system call is a step, so clients act between any two of them.  The kernel
is modelled as far as the server depends on it: `fds` is the descriptor table
(`accept4` returns the smallest free one), `watched` the registrations, `ready`
the ready list of the epoll instance, `acceptq` the accept queue.  An event puts a
registered descriptor on the ready list once; `epoll_wait` takes up to
`MAX_EVENTS` of them off it and reports what their sockets look like then.  `Kept`
drops what is no longer registered or has nothing to report.
Clients connect, send, shut down their side, reset, and read the echo.  A byte is
its position in the stream of its client, so the echo is a sequence of positions.
Text printed by the server is left out.

### LSMTree

A call is one step, since the engine is single-threaded; a crash may cut it short
while the table is being written.  `files` is the directory and survives crashes.
Tables are functions from keys to strings.  `SortedPaths` compares file names as
strings (`NameGreater`): numbers are padded to `Width` digits, which only matters
when they outgrow it; it is what `std::sort` promises, a permutation without a pair
out of order.  `CutOff` is what `readSSTable` makes of a table of which
only a prefix was written, including a last value padded with zeros.  With
`IoFaults`, files may fail to open or be written incompletely.

The comment at main.cpp 142 ("oldest at [0], newest at back") contradicts the code,
which sorts newest first in both places; the model follows the code.

### Coroutines

One thread; a step is the code between two context switches.  `ctx[c]` is the
coroutine whose context the entry holds, or none once it has been resumed;
`done_ctx` and `sched_ctx` are unset, fresh or used.  Resuming anything that is
not fresh leads to `pc = "undefined"`.  A coroutine function is represented by how
often it yields.  `Waiting` maps the table to the queue of `RoundRobin`: the ready
coroutines by their distance from `current`, the n-th of which is found by counting
(`Nth`).

### RingBuffer

Elements are objects that move between the caller (`outside`) and the slots.
Reading a slot leaves its bits behind, so handing out an element twice is possible
in the model and excluded by a property.  `drop_in_place` destroys nothing,
because the pointer is to `MaybeUninit<T>`.

### Arena

Addresses and sizes are numbers modulo `Word`.  `Aligned` is the rounding up by
masking, for alignments that are powers of two.  `allocs` are the blocks handed
out since the last reset.

### DnsQuery

Each element of `Process` runs `main` once.  `net` holds the datagrams on their way:
they are never taken out of it, so a datagram may arrive never, late, or again,
also at a process that was given the port of one that has ended.  The bytes after
the header are real bytes, because the walk of `parse_response` is about where it
finds lengths; the header is a record.  A name is the sequence of its label
lengths.  `Send` goes on whatever `sendto` returns, `Timeout` is `SO_RCVTIMEO`.
`SkipName` is one round of `skip_name` and what its caller does with the result,
`Record` the fixed part and the data of one answer.  Reading beyond the response
and writing beyond `seg` or `encoded_domain` lead to `pc = "undefined"`.  The
resolver (`Answer`) reads the question as a server would, label by label, and not
as `encode_name` wrote it.  `Stray` are the datagrams of others: any identifier, that of
a process included, any counts and any bytes, for the program compares the identifier
and nothing else.  `Intact` tells a response that holds what its header and its lengths
promise from one that does not.

Assumed of the constants: names are sequences of numbers, `MAX_LABEL_SEGMENT` is below
192, where pointers begin, answers are sequences of records, and the length of a foreign
datagram is not greater than the number of its bytes.  `DistinctIds` is no assumption of
the module but the hypothesis of one theorem; `MCDnsQuery` has TLC confirm that the
instance of `dns_query` satisfies it.

### AesGcm

A step is one call of the library, and each may fail.  The library is ideal: it
accepts exactly what was sealed (`Match`).  Of ciphertext and tag the first byte is
kept, because `round_trip` sets it to a constant.  `out` says what the caller's
buffer holds.  The computation on the two ciphertexts at the end of `main` (104-110)
is left out.

### BloomFilter

A call is one step.  The hashes are arbitrary functions, so nothing depends on what
FNV-1a, djb2 and the finalizer compute; sum and product wrap around at `Word`.  The
constructor may come up with any `m_`, zero included, for which both calls are
undefined.

## Runs

Passing runs:

- `treiber_safety` (1 producer, 3 pushes, 2 consumers, 3 addresses): `ChainOK`
  (both lists spell what was put there), `NoABA`, `MemorySafety` (no use after free,
  no leak), `ExactlyOnce`, `Drained`.  Three pushes and two consumers are what an ABA needs: one
  consumer between its read and its compare-exchange, two pops and a push that
  reuses an address.  The last cannot happen, because a popped node is retired and not
  freed: here the code departs from its comment (see below).  Addresses, and threads of
  one role, are symmetric.
- `treiber_live` (2 producers, 2 consumers, one push each): `Linearizable`, the
  refinement of `AbstractStack`, with pushes competing for `head`; and
  `Termination` of the whole stress test.
- `treiber_weak` (3 producers with one push each, 2 consumers, dependent loads
  ordered): `Visible`, a value handed out is visible to the consumer although the
  load that found the node may have been relaxed; `TakenOnce`, stale reads lose and
  duplicate nothing; `DrainedIfSeen`, the stress test passes if one consumer has
  seen the last push.  Three pushes let a consumer fail on a stale head, read a
  newer one relaxed and still compete for it.
- `ring_queue` (4 elements, capacities 0 to 4 of which 4 exceeds the layout
  limit): `OwnershipOK` (cursors and single ownership) and the refinement `Fifo`.  The cursors wrap
  around any number of times, since popped elements can be pushed again.
- `lsm_store` (3 keys, one value and deletion, threshold 2, up to 3 tables,
  faults on): `ReadYourWrite`, `NewestFirst`, `Immutable` and the refinement
  `ImplementsStore`.  With 3 keys and threshold 2 tables contain different keys,
  so `get` falls through from newer to older ones.  The refinement says that a
  call that works changes its own key only, and that a call that fails, or a
  crash, leaves at worst the durable map.
- `coro_rounds` (4 coroutines in an array of 5, each yielding 0, 1 or 3 times):
  `NoBadSwitch`, `CurrentRuns`, `CompletionOK` (every coroutine counted once, every
  stack freed), the refinement `FairTurns` of `RoundRobin`, and `Termination`.  Different numbers of yields make
  coroutines finish in any order, also the last ready one twice in a row.
- `reactor_events` (3 clients, 2 descriptors, batches of 2, one-byte buffers,
  resets and failing calls): `RightConnection`, `FdTable`, `NoLostInput`.  With fewer
  descriptors than clients numbers are reused; a batch of 2 can hold an event for
  a descriptor that an earlier event of the batch closes.
- `reactor_echo` (2 clients, buffers of 2, up to 3 bytes each and 4 together,
  sockets that take all of them, no resets): `EchoVerbatim`, `NoLostConnection`, and under fairness
  `Answered` and `Released`.  Three bytes do not fit one read, so the drain loop
  runs several times per event.
- `arena_blocks` (word 256, two bases, capacities below the header, small and
  larger, sizes 0, 2, 5, alignments 1, 4, 8): `BlocksOK` (in the region, disjoint,
  aligned).
- `dns_query` (2 processes, one port, five names, two answers, eight foreign
  datagrams; labels of up to 2 bytes, names of up to 7, `resp` of 86): `AsksRight`,
  `OwnAnswer`, `PrintsAnswer`, `InBounds` and `Termination`.  With one port the second
  process always gets the port of the first, whose answers may still be on their
  way.  The answers hold an alias as long as an address, plain and compressed
  names, an empty record, and one is longer than `resp`.  Seven of the foreign
  datagrams carry the identifier of process 1: two are well-formed responses, with and
  without records, one promises a record it does not have, and four are cut off: in the
  question, in the middle of an owner's pointer, right after it, and in an address.
  The last three are read beyond their length, at most by the 15 bytes `InBounds` allows.
- `gcm_calls` (three values of a byte, of which the constants of `round_trip` are
  two): `Verdict`, `NoEscape`, `ContextsFreed`, for all seven round trips and the two
  encryptions after them, with any set of calls failing.

`treiber_safety`, `ring_queue` and `coro_rounds` check `TypeOK` as well; the proofs of the
other modules contain it as a part of an invariant.

The run that shows the code departing from its documents:

- `treiber_race`: `NoDataRace` fails.  One consumer writes the plain `next` field of a
  node it retires (main.cpp 56) while another one is about to read it (46);
  criterion 5 promises a clean ThreadSanitizer run.  `NoABA` shows the value read
  does no harm in a sequentially consistent interleaving.

Two more disagreements come with a property that passes:

- `treiber_safety`, `NoABA`: the comment `ABA ANALYSIS` (02 main.cpp 134-163) says that
  ABA can hit this stack.  In its interleaving T2 "completes a pop of A [...] then frees
  node A", a push gets the address of A again, and the compare-exchange of `pop` (47)
  succeeds with a `newHead` that dangles; the chance of this in the stress test is "very
  low but not zero".  CHALLENGE.md 14 and 64 ask for such an analysis of "your stack".
  It is not an analysis of this `pop`, which never frees: the node goes to `trash`
  (52-60), and the destructor, which runs after all threads have ended, frees it.  So no
  push is given the address of a node a thread may still hold.  The run reaches no
  state in which the compare-exchange would install a stale pointer, and the theorem
  `AbaFree` says that there is none with any number of threads, pushes and addresses.
  The chance is zero.
- `dns_query`, `InBounds`: CHALLENGE.md 228 says "Bounds-check every buffer access.
  Before reading `buf[pos]` or `buf[pos..pos+N]`, verify `pos + N <= len`."
  `parse_response` reads type, class, ttl, rdlength and the address without such a test
  (04 main.c 172-183), so a datagram with the right identifier that is short, or promises
  more than it holds, is read beyond its length, and so is a response cut off at the end
  of `resp`.  `InBounds` says what is left: an intact response that fits `resp` is read
  within its length, and any other at most 15 bytes beyond, because `skip_name` compares
  its position with `len` before each record, whatever an rdlength has added to it.  The
  strict property is `BoundsChecked` (see the table).

### Further departures

More follow from the same models, by checking a property that is stated and not
in a run, or by changing a constant of a passing run; the passing runs state the
conditions under which the property does hold.

| Run | Property | Change | What the code does |
|---|---|---|---|
| `ring_queue` | `NoElementLeaked` | | `drop` runs no destructor: the pointer is to `MaybeUninit<T>` (13 lib.rs 72; "drop all live elements", 67) |
| `lsm_store` | `NoSilentLoss` | | the memtable is cleared though its table was not opened (08 main.cpp 94, 88) |
| `reactor_events` | `ServerSurvives` | | a client that half-closes and then resets its connection ends the server by SIGPIPE (06 reactor.c 92; criterion "does not crash the server") |
| `treiber_weak` | `AllReceived` | | `done` is loaded relaxed, so it may be seen before the pushes it follows: all consumers may find a stale `nullptr` and leave (02 main.cpp 85, 65; "drain the rest and exit", 113) |
| `treiber_weak` | `TakenOnce` | `DependencyOrder = FALSE` | after a failed compare-exchange `head` is known by a relaxed load only, and `next` of its node is read (49, 46): a race, and the compare-exchange that follows may install what it read |
| `lsm_store` | `ReadYourWrite` | `Value` contains `Empty` | `TOMBSTONE` is made from a literal starting with a zero byte, so it is the empty string, and an empty value reads as deleted (08 main.cpp 17) |
| `lsm_store` | `NewestFirst` | `Base = 3`, `MaxTables = 4` (Base ^ Width exceeded) | with 10001 tables `sstable_10000` sorts below `sstable_9999` (85, 108) |
| `reactor_echo` | `EchoVerbatim` | `SndBuf = 1` | the rest of a short write is forgotten (06 reactor.c 92) |
| `reactor_echo` | `NoLostConnection` | `MaxFd = 1` | EMFILE ends the accept loop before EAGAIN; nothing wakes the server for the queued client once a descriptor is free (61) |
| `arena_blocks` | `BlocksOK` | `Sizes` contains a number near `Word` | the new offset wraps around below the capacity (01 arena.c 39) |
| `dns_query` | `BoundsChecked` | | a record of a datagram with the right identifier that is short, or that promises more than it holds, is read beyond `len`; so is a response longer than `resp` (04 main.c 172-183; "verify `pos + N <= len`", CHALLENGE.md 228) |
| `dns_query` | `OwnAnswer` | `Process = {1, 3}`, `IdSpace = 2` | processes whose numbers agree modulo 2^16 use the same identifier; the address a datagram comes from is not looked at (04 main.c 199, 219) |

Three exceptions are written into the properties: `AsksRight` leaves out names with
an empty label (`example.com.` is sent with two root labels); `InBounds` allows up to 15
bytes to be read beyond a response that is not intact or longer than `resp`, and leaves
out names or labels that are too long, which are stored before they are tested;
`NoEscape` leaves out a failing update or set-tag
call, which returns before the buffer is wiped (03 aes_gcm.cpp 86, 91).  The header
`aes_gcm.h` (7, 13) says 0 is returned on success; the code returns the length.

### Fairness

- Treiber stack: every thread that can run eventually runs (weak fairness per
  thread: the operating system's scheduler), and a compare-exchange that could
  succeed again and again eventually does (strong fairness on the successful
  outcome).  The second is needed because a lock-free loop gives no guarantee to a
  single thread and the weak form may fail spuriously; here contention ends because
  each producer pushes finitely often.
- Coroutines: the one thread keeps running.
- DNS query: every process keeps running, and the clock with it, so that a wait
  without an answer ends after five seconds.  The network and the resolver are
  under no obligation.
- Reactor: the server keeps running.  Clients are under no obligation.

### Deadlock

Deadlock is checked in every run.  A program that has ended, and a server that
waits for clients who do nothing, take a stuttering step of their own (`Terminated`,
`Over`, `Rest`), so a deadlock is always a program stuck in the middle.

## Proofs

All theorems hold for every value of the constants that satisfies the named
assumptions of the modules; a theorem that needs more has it as a hypothesis.  The
invariants named below were checked by TLC on the instances of the runs before they
were proved, except those of `DnsQueryProofs`: they say that there are offsets of
labels and records without bounding them, which TLC cannot evaluate.

- `TreiberStackProofs`: `TypeCorrect`, `NeverCorrupted` (`ChainOK`), `AbaFree`
  (`NoABA`), `MemorySafe` (`MemorySafety`: no use after free, no leak), `OncePerValue`
  (`ExactlyOnce`), `AllCollected` (`Drained`) and `ImplementsStack`, the refinement
  `Linearizable` of `AbstractStack`.  None of the invariants is inductive.  `IInv`
  adds `Control` (when the threads and `main` can be where), `Ownership` (the
  allocated nodes are partitioned into the stack, the trash, the nodes not yet
  pushed and the nodes being retired, each with one owner; a node a consumer looks
  at is in one of the last places or on the stack) and `Fields` (what the locals say
  about nodes).  The heart of it: a node is allocated until the destructor runs, so
  `PushLoad` never reuses an address a consumer looks at, and a head that compares
  equal has not been away.  A second layer, `JInv`, adds `Values` (a node
  being pushed carries its producer's next value, and a consumer's copy is that of the
  node it owns) and `Emptied` (consumers test for the empty stack after all pushes
  only, so it stays empty once one has left).  Assumption: there is a consumer, as `main` starts four; without one nobody
  drains the stack and `Drained` is false.
- `TreiberWeakProofs`: `ValueVisible` (`Visible`), without any hypothesis about the
  machine; `NothingLost` (`TakenOnce`) and `SeenMeansDrained` (`DrainedIfSeen`) under
  the hypothesis `DependencyOrder`, without which `TakenOnce` is false (see the
  departures).  `Base` suffices for the first: the nodes in an entry of `mo` were
  published by then, so the acquire of the successful compare-exchange covers the node
  it takes.  `Ordered` adds `Copies` (a node a thread has in hand was pushed, and
  while it is on the list the `next` a consumer read is the one it has) and `Ends`
  (in `mo` only a push follows a `nullptr`, so a consumer that left after the last
  push has read the last entry).
- `RingBufferProofs`: `TypeCorrect`, `OwnershipSafe` (`OwnershipOK`) and
  `ImplementsQueue`, the refinement of `BoundedQueue`.  The lemmas about `Slot` are
  about wrap-around: slots of different positions differ, a push fills the slot
  behind the last one, a pop shifts all positions by one.
- `LSMTreeProofs`: `TablesImmutable` (`Immutable`) without a hypothesis: the tables of
  the directory are 0 to c - 1, and a running process has counted c (`Numbered`).
  `TablesNewestFirst` (`NewestFirst`) while the names fit their padding (`NamesFit`):
  `SortsDescending` shows that whatever list is sorted, one with a table appended or
  one collected from the directory in any order, the result is c - 1, ..., 0, since no
  other list of them descends.  `CallersReadTheirWrites` (`ReadYourWrite`) and
  `ImplementsKVStore` (`ImplementsStore`) also need that no empty value is put
  (`NoEmptyValue`).  Both hypotheses are ones the code lacks a test for, and both
  properties are false without them.  The argument: `get`, and after a crash a new
  process, answer from the newest table that has the key (`SearchIsSaved`), so writing
  a table changes the answers for its keys only (`SavedAfterWrite`); a table that was
  cut off has the smallest of its keys (`CutOffKeys`), which is what the store allows.
- `CoroutinesProofs`: `TypeCorrect`, `SwitchesSafe` (`NoBadSwitch`), `CurrentAgrees`
  (`CurrentRuns`), `CompletesAll` (`CompletionOK`).  The invariant says when each
  shared context is fresh (`Links`), what a table entry must hold in each state
  (`Entries`) and that `completed_coro` lags behind the finished ones by one exactly
  while the scheduler has not looked (`Count`).  `NextReadyProperties` shows that the
  scan finds a ready coroutine whenever one is unfinished.  `ImplementsRoundRobin` is the
  refinement `FairTurns`.  A list of distinct numbers that increases is the enumeration
  `Nth` of its set (`EnumerationIsNth`), so each step is a statement about distances
  from `current` (`Distances`): a spawn and a yield put a coroutine at the greatest one
  (`SpawnQueues`, `YieldedQueuesLast`), and taking the nearest rotates all others
  (`ScanRotates`).  Assumption: no more spawns than `MAX_COROUTINES`, which
  `coro_spawn` does not check.
- `ReactorProofs`: `TypeCorrect`, `NothingLeaked` (`FdTable`), `NeverMixedUp`
  (`RightConnection`) and `AllInputNoticed` (`NoLostInput`), with resets and failing
  calls and without a hypothesis.  `IInv` joins to `FdTable` what the handlers rely on
  (`Handler`), that the events not yet handled are about different descriptors, each
  registered and still that of the connection reported (`Events`), that the ready list
  and the accept queue repeat nothing and the queue holds the connections not yet
  accepted (`Queues`), the order in which bytes are sent, read, echoed and received
  (`Bytes`), and that what there is to report is on the ready list or in the rest of
  the batch (`Noticed`).  They need each other: a descriptor that is closed and handed
  out again cannot be in the rest of the batch because a batch names it once, and the
  event being handled may be forgotten only because the handler has read until EAGAIN.
  `EchoedVerbatim` (`EchoVerbatim`) has the hypothesis `NoShortWrite`: the send buffer
  takes all a client may send, or bytes are read one at a time.  The code forgets the
  rest of a short write, and without the hypothesis the property is false.
  `AllAccepted` (`NoLostConnection`) has `DescriptorsSuffice`: no more clients than
  descriptors.  Without it EMFILE ends the accept loop early, and the property is false
  too.  `Verbatim` and `Served` are the invariants of these two, on top of `IInv`.
  `KeptProperties` shows by counting positions that `Kept` loses, repeats and invents
  nothing.
- `DnsQueryProofs`: `TypeCorrect`, `AsksWhatIsAsked` (`AsksRight`),
  `PrintsTheAddresses` (`PrintsAnswer`) and `StaysInBounds` (`InBounds`) without a
  hypothesis, so for every set of foreign datagrams, malformed and forged ones included;
  `PrintsOwnAnswer` (`OwnAnswer`) under `DistinctIds`.  The program has nothing but the
  identifier to tell an answer by, and `OwnAnswer` is false without `DistinctIds` (see
  the departures).
  Messages are built with `FlattenSeq` and read by the resolver with `QName`, both
  recursive functions.  That such a function exists, and so satisfies its equation, is
  shown by taking the least number for which it does not (`FlattenExists`,
  `ReadsExists`), and what it returns likewise (`FlattenLayout`, `QNameReads`).  From this
  follows where everything is: `AsksForName`, the resolver reads the name that was
  encoded; `AnsweredName`, it answers only a question without an empty label;
  `ResponseLayout`, in an answer there are offsets of the labels of the question and of
  the records such that the bytes at them are what was put there (`Sections`).
  `Walks` then says that the cursor of `parse_response` is at one of these offsets and
  that as much has been printed as records have been passed; `WalkQuestion`, `WalkOwner`
  and `WalkRecord` are one round each, for a message that may be longer than `resp`.
  The invariants are `AskInv` (a packet and a query ask for the name of their process),
  `AnswerInv` (what is on its way is foreign or an answer with its sections, and what
  holds of a process at each place of the program, `Local`: of a datagram that is not
  intact no more than that it has the identifier) and `TypeInv` (the types, the cursor is
  behind the header, and where a record begins at most one byte beyond `len`, which is
  the part of `InBounds` that holds of every datagram).
- `LibraryProofs`: `BlocksSafe` (`BlocksOK` of `Arena`), assuming `NoWrap`, that
  no request is so large that the address computed from it wraps around.  This is
  the hypothesis the code lacks a test for.  The invariant adds that all blocks end
  at or before `base + offset`.  `NeverMissed` (`NoFalseNegatives` and `InVector` of
  `BloomFilter`) and `AnswersStay` (`PositivesStay`), assuming `Hashes`, that the hashes
  are words.  `HashInRange` is the arithmetic: a position is in the vector whatever has
  wrapped around.  The invariant adds that a filter without bits was never inserted
  into.  For `AesGcm`: `TypeCorrect`, `VerdictRight` (`Verdict`), `RefusedWiped`
  (`NoEscape`), `ContextsAccounted` (`ContextsFreed`).  The invariant follows a
  message through the calls: no call has failed while a function runs, and what was
  sealed goes with the message (`Sealed`); what the buffer holds before each call of
  the decryption (`Output`); a call under way has one context, and the others were
  lost by failures (`Contexts`).

Only model-checked is all liveness (`Termination` of three programs, `Answered`,
`Released`): fairness is out of the prover's reach.  Every other property of a passing run
is a theorem.

## Not modelled

Zero-sized element types of program 13 (what the allocator does for size zero);
failing reads of a table in program 08; the unchecked `malloc` of program 09; a
client of program 06 that sends for ever and keeps the server in its handler; the
false-positive rate of program 11, a statistical claim; the text printed by any
program.  Program 05 formats one value for a debugger.  Program 10 demonstrates a
weakness of a keyed hash with library calls and keeps no state.  Program 12 walks
once over a mapped file, which it does not change, and prints it; its only state is
a descriptor and a mapping, both released on every path but a failing `fstat` (59).
Program 07 writes eleven fixed bytes to a page, protects it and calls them; what
they compute is the processor's.

## What could be added

The safety properties of the runs are proved.  Liveness would need a prover for fairness.
The properties of the table of departures could become invariants of runs if the code is
changed to test what the theorems now have as hypotheses: `NoShortWrite`,
`DescriptorsSuffice`, `NamesFit`, `NoEmptyValue`, `NoWrap`, `DependencyOrder` and
`DistinctIds`; and `BoundsChecked` in the place of `InBounds`, once `parse_response`
compares with `len` before it reads.
