# Verification of the AESD assignments: character driver, socket server, examples

TLA+ models of the C programs of this repository, the TLC runs that check them
on small instances and TLAPS proofs of the results that hold for every instance.

## 1. The system

| Part | Source | State it keeps | Operations |
|---|---|---|---|
| circular buffer | `aesd-char-driver/aesd-circular-buffer.{c,h}` | an array of entries (pointer, size), `in_offs`, `out_offs`, `full` | init, add an entry, find the entry of a byte offset |
| character driver | `aesd-char-driver/main.c`, `aesdchar.h`, `aesd_ioctl.h` | one `aesd_dev`: mutex, circular buffer, `write_buffer` with the incomplete command and its size, `buff_size`; kernel memory; the position of every open file | open, release, read, write, llseek, ioctl, module load and unload |
| socket server | `server/aesdsocket.{c,h}` | the global `dataFileDescriptor`, the list of connection threads, a mutex, the flags of the signal handler | start (optionally as a daemon), accept, one thread per connection, signal handler, cleanup; in the build without the device a timestamp thread |
| systemcalls example | `examples/systemcalls/systemcalls.c` | parent and child process, a wait status | `do_system`, `do_exec`, `do_exec_redirect` |
| threading example | `examples/threading/threading.c` | one `thread_data` block per thread, one mutex | start a thread, the thread's wait/lock/wait/unlock, join |

How they interact. The server's connection threads open `/dev/aesdchar`, write
what their client sends and read the device back to it; so the driver's file
operations run concurrently, on behalf of several threads and open files. The
driver keeps complete commands in the circular buffer, whose callers "must
perform any necessary locking" and own the memory. Within the server the threads
share `dataFileDescriptor`, the list and the mutex; a termination signal runs
the cleanup on whatever thread it hits, next to all the others.

What is hard, and listed line by line under `hazards` in `PROJECT.json`: the
wrap-around arithmetic; the error paths of `aesd_write`, which allocates up to two
blocks and waits for a mutex that a signal can take it out of; the descriptor that
is assigned outside the mutex, to which a timestamp thread also writes in one of
the builds; locks a signal handler runs into; descriptors and `pthread_t` values
that are reused; hang-ups and signals at any time; failures in two processes at
once.

What makes each part correct: the circular buffer keeps the most recent N
entries in order and finds the byte that concatenation would; the driver is an
atomic log of commands, loses no memory and returns from every call with the
mutex released; the server answers every client with the contents of the device
and ends when told to; `true` from the examples' functions means success.

## 2. Modules

| Module | What it is |
|---|---|
| `CircularBuffer` | the structure as a record, its three functions as operators; used by all modules below that need it |
| `RecentWrites` | abstract: a queue of the last `Capacity` entries in which each call has its own effect, and a byte's place in their concatenation |
| `CircularBufferSpec` | the buffer on its own; refines `RecentWrites` |
| `CircularBufferTheorems` | lemmas about sums, concatenations and the three functions, shared by the proofs |
| `CircularBufferProofs` | type correctness, the refinement and the lookup, proved |
| `CommandLog` | abstract: what the device promises, atomic writes into a log of commands that only an unload empties |
| `AtomicDevice` | abstract: the device to programs whose calls on one open file do not overlap; every call, position included, happens at once |
| `AesdChar` | the driver, with threads inside its file operations; refines `CommandLog` and, for such programs, `AtomicDevice` |
| `AesdCharProofs` | the driver's mutex, types and memory, proved |
| `AesdCharRefinement` | the driver implements `CommandLog`, reads return its bytes, seeks and `buff_size` are right, proved |
| `AesdDevice` | the driver's operations as operators on a device record, for `AtomicDevice` and the server |
| `PlainFile` | the data file of the other build: inodes, link, append |
| `FdTable` | descriptor tables: lowest free number first, numbers reused after close; the table at the accept loop |
| `AesdSocket` | the server's accept loop, connection threads, cleanup and signal handler, the timestamp thread, composed with `AesdDevice`, `PlainFile` and `FdTable` |
| `AesdSocketProofs` | the server's types, mutex, list and crashes, and its descriptors when clients come one at a time, proved |
| `ServerStartup`, `ServerStartupProofs` | the server from `main` to `listen`, and `run_daemon`; its theorems |
| `SystemCalls`, `SystemCallsProofs`, `Threading`, `ThreadingProofs` | the two examples and their theorems |
| `MCCircularBuffer`, `MCAesdChar`, `MCAesdSocket` | values for the constants |

`PROJECT.json` maps each definition to the lines it models. Operators whose
name ends in what goes wrong (`add_entryUnwrapped`, `OldestFreedNever`, ...) and
whose comment says "Mutant" are wrong variants of the definition that follows
them; each makes one property fail and shows that the property says something.

### The circular buffer (`CircularBufferSpec`)

The caller and what it asks for are part of the state (`call`), in the abstract
queue too. So the refinement relates each call to its own effect: a call that adds
an entry has to store that entry and may drop only the oldest of N, and only an
initialisation may empty the queue. A buffer that lost its `full` flag, and with
it N entries at once, does not refine it.

### The driver (`AesdChar`)

A system call enters the driver (`SysRead`, `SysWrite`, ...: the kernel copies
the file's position to a local), waits for the mutex (`AcquireLock`, or
`LockInterrupted` when a signal arrives while another thread has it), does its
work, and returns (`StorePos`: the kernel stores the position back, after the
mutex has been released). `aesd_write` is four steps: allocate `write_data`,
copy from user space, reserve room in `write_buffer`, append. The last two are
one critical section in the code; they are separate steps so that the state in
between is visible to the properties about memory. Other threads can be outside
a critical section only, which is a theorem.

`SumBelow` is what a loop that adds up sizes has reached; the lookup of the
circular buffer and the loop of `aesd_adjust_file_offset` both use it.

Memory is a function from addresses to byte strings or `FREE`. New memory holds
`Junk`. `kmalloc(0)` returns `ZERO_SIZE_PTR`. `krealloc` may grow in place or
move. The debug print of a completed command (`PrintBuffer`) reads to the first
NUL; whether it left its block is remembered in `overread`. `Faults` names the
kernel calls that may fail in a run. Positions, sizes and counts are natural
numbers: `size_t` and `loff_t` are 64 bits wide and no sum in the code comes near
that. A failing `alloc_chrdev_region` leaves the module unloaded and is a
stuttering step.

Programs that never use one open file in two calls at once are `ExclusiveSpec`
(that no call starts on a file that is `InUse` is an assumption about the callers,
not about the driver). For them
the driver implements `AtomicDevice`: the device is mapped through the pointers
to its bytes, and a file's position is the local copy while its call is between
the end of its work and `StorePos`. `AtomicDevice` is built from the operators
of `AesdDevice` that `AesdSocket` uses, so this refinement is what justifies
composing the server with them. The server's own threads share a descriptor
variable, but not a call: each `read` and `write` is made with its mutex held.

`fixed_size_llseek`, `kmalloc`, `krealloc` and `kfree` are outside the
repository and modelled from how `main.c` uses them.

### The server (`AesdSocket`)

The model starts where `main_socket_application` enters the accept loop. Every
call of `client_data_handler` that touches shared state is one step. `Target`
is whatever `dataFileDescriptor` denotes at that moment: a data file (with the
thread that opened it), a client's socket, the listening socket, or nothing.
Since numbers are reused, a write can reach another client's socket, as in the
code. `pthread_mutex_lock`, `pthread_mutex_unlock`, `pthread_create` and
`pthread_join` report errors as positive numbers, which the code compares with
-1: the model takes the error for a success there.

A packet is what one `recv` returns. Its bytes are numbers, `0` being the
newline. A packet that starts with `AESDCHAR_IOCSEEKTO:` carries the numbers
`sscanf` may store; more than one when they do not parse, because the structure
is not initialised. They are stored into unsigned fields (`uint32_t`; the runs
make it 8 bits wide, TLC's own integers have 32). After a `recv` of 0 bytes the
buffer keeps its contents and the test for the seek command sees them again;
that a shorter packet could complete the seek string with what is left of an
earlier, longer one is not modelled. `accept` takes its descriptor's number when
the connection arrives.

Builds. `aesdsocket.c` defines `USE_AESD_CHAR_DEVICE`; without that line it uses
the plain file `/var/tmp/aesdsocketdata`, rewinds it before the answer (`Rewind`),
refuses the seek ioctl, unlinks the file in the cleanup, and runs the timestamp
thread (`log_timestamps`), which the cleanup joins. `Scenario` says which builds
a run looks at, whether as a daemon (where descriptor 0 is free), which signals
the process is sent and how many timestamps are written at most.

The nodes of the list have a state `none`, `live` or `freed`. A step through a
freed node may go on as before or crash. Signals are each sent once, to any
thread that is alive; a thread that re-raises a signal in its own handler
handles it for ever (`spinning`). A signal that hits a thread inside `syslog`
leaves it holding that function's lock (`syslog_lock`), on which every later
`syslog`, the handler's own included, waits. The log calls outside error paths
are looked at, each by the step that begins with it (`Logging`; main's after a
join and the timestamp thread's first one are steps of their own, `ReapLog` and
`StampStart`). The handler tests `fatal_error_in_progress` and sets it in separate
steps. The cleanup runs on main, on a handler or on several of them at once,
sharing the global `node`: choosing a node, taking it off the list, freeing it and
resetting the variable are four steps (`cl_pick`, `cl_remove`, `cl_free`,
`cl_null`), each of which reads `node` anew. Removing a node that is not on the
list runs off its end; a second `free` of a node may be noticed and abort.

Nodes stay on the list after the join, so that the accept loop joins threads a
second time (`Reap`). That is undefined. The `pthread_t` is a pointer into the
thread's stack: the join fails harmlessly while the C library keeps that stack,
waits for another thread if it was given the stack, and crashes if it was
unmapped. `CachedStacks` is how many stacks are kept (glibc keeps 40 MB, five
stacks of the default size, none if the limit for a stack is above 40 MB), and
`StacksGone` says that more threads than that have been joined.

`Arrival` is an assumption about clients: `any` time, `serial` (after the server
closed all earlier connections), `alone` (after the earlier threads ended).

### The start of the server, the examples

`ServerStartup` starts with any subset of the standard descriptors open, in either
build; each of thirteen calls may fail (a failing `socket` or `open` leaves -1 in
its variable), and the cleanup then joins the timestamp thread, if the build has
one and whether it exists or not. Its end is the beginning of `AesdSocket`:
`AcceptTable` is the initial table of the one and what `BeginsAsAssumed` says of
the other. `SystemCalls` runs parent and child side by side, and follows a child
that returns into the caller's program. `Threading` treats times
as unspecified; its joiner is the one `threading.h` describes. There, unlocking
a mutex somebody else holds releases it, as a default mutex of glibc does.

## 3. Runs

| Run | Bounds | What it shows |
|---|---|---|
| `circular` | N = 3, entries of 0 to 2 bytes, no bound on the number of calls | the refinement of `RecentWrites`; lookup agrees with concatenation for every offset up to one past the end |
| `driver_memory` | N = 2, 2 threads, 1 file, 3 writes and any number of reads, all faults, signals, load and unload | `HeapSafe`, `LeaksOnlyWhereKnown`, `AmountStoredUnlessKreallocFails`, `OverreadsOnlyUnterminated`, `LockDiscipline`, `ReadReturnsStream`, `EveryCallReturns` |
| `driver_atomic` | N = 2, 2 threads, 2 files, 3 writes, any number of reads and seeks, a failing allocation, signals | `RefinesCommandLog`, `RefinesAtomicDevice`, `BuffSizeCoversStream`, `SeekToIsZeroReferencedUnwrapped` |
| `driver_seekto` | N = 2, 1 thread, all seeks, no faults | violates `SeekToIsZeroReferenced` |
| `server_alone` | both builds, 3 clients one at a time: a command in two packets, one in one packet, a seek; no faults; the stacks of all three are kept; 7 descriptors, what one connection needs and one for `accept` | `OwnsDataFile`, `ReplyIsContents`, `DescriptorsReturned`, `EveryClientServed` |
| `server_serial` | 2 clients, the second connects when the first one's socket is closed | violates `OwnsDataFile` |
| `server_any` | 2 clients at any time, one with a seek that does not parse; `accept` and `pthread_create` may fail; no stack is kept; 7 descriptors | `MutexDiscipline`, `NodesOutliveThreads`, `CrashesOnlyWhereKnown` |
| `server_shutdown` | 1 client that may hang up, all faults; in both builds one signal at any time on any thread, in the plain one as a daemon; in the plain build, without a signal, two timestamps | `ShutdownCompletes`, `AnsweringEnds`, `GivingUpEnds`, `CrashesOnlyWhereKnown` |
| `startup` | both builds, 6 descriptors, every call may fail | `BeginsAsAssumed`, `Settles` |
| `systemcalls` | 2 calls in a row, all faults | `SuccessIsReported`, `WrongTrueOnlyWhereKnown`, `EveryCallReturns` |
| `systemcalls_true` | 1 call; `waitpid` may fail, and a signal may end the command | violates `TrueMeansSucceeded` |
| `threading` | 3 threads, all faults | `LossIsReported`, `BlocksAreFreed` |

Why these bounds are enough to be interesting. N = 2 with three or four writes
fills the driver's buffer, evicts, and wraps around; N = 3 separates first,
middle and last slot in the stand-alone run. Nine blocks of memory are more than
a run with four writes can use at once, so the memory bound does not hide a
behaviour (`MemoryLeft`). Two threads are the least that compete for a mutex, and
a third would only repeat one of them since handlers have no thread-specific
behaviour; symmetry of the threads is used for safety properties only. Seven to
nine descriptors are the four the server starts with and as many as one or two
clients use, so that leaking some of them also reaches `accept` without a free
one: with seven, the third client of `server_alone` is served only because the
first two gave theirs back. Two clients are the least with which a joined thread
is joined again (`server_any`), and one signal, with main giving up by itself, the
least with which two threads clean up at once (`server_shutdown`); that both
together, with more nodes and signals, bring no other crash is `CrashesKnown`. Two
timestamps are one that is written and one that
finds the file closed; signals and timestamps together are not explored, because
the product is out of reach with fairness, but a signal may hit the sleeping
timestamp thread.

Deadlock is checked in the runs of the stand-alone buffer and of the driver,
where somebody can always load, open or close. It is not where the system may
stop: the server waits in `accept` when no client comes and ends when told to,
and the callers of the examples stop after their bounded number of calls.

### Where the code does not do what its comments say

Three runs end in a violation, each of a sentence in the repository (`findings`):

* `driver_seekto`: `AESDCHAR_IOCSEEKTO` takes "the zero referenced write command"
  (`aesd_ioctl.h:27`) for an index into the array. Once a command has been
  evicted, the oldest one is no longer in slot 0, and the file is positioned at
  another command. As long as nothing was evicted it is right
  (`SeekToIsZeroReferencedUnwrapped`).
* `server_serial`: a connection thread closes its client's socket, then "the data
  file descriptor" (`aesdsocket.c:597`). A client that connects in between has a
  thread that has already stored its own descriptor in the shared variable.
* `systemcalls_true`: `do_exec` promises false if an error occurred in `waitpid`
  (`systemcalls.c:38-41`), and `do_exec_redirect` is to behave the same (`:113`).
  Both return true then. If the only fault is a signal that ends the command, the
  property fails too: `do_exec_redirect` does not look at `WIFEXITED`.

The other deviations are part of the models, and a property states how far each
goes:

* memory: a write interrupted by a signal, a failing `krealloc` and an unload
  with an incomplete command each lose a block, nothing else does
  (`LeaksOnlyWhereKnown`); after a failed `krealloc` the next command begins
  with uninitialised bytes, otherwise never (`AmountStoredUnlessKreallocFails`);
* the debug output of `aesd_write` (`main.c:203`, switched on in `aesdchar.h:12`)
  prints a completed command with `%s` and reads on to the next NUL, outside the
  block unless a program wrote a NUL itself (`OverreadsOnlyUnterminated`);
* a thread whose client hangs up before it sent a newline receives 0 bytes for
  ever (`aesdsocket.c:457-529`); once a line has come the thread ends
  (`AnsweringEnds`);
* a send to a client that is gone ends the process with SIGPIPE (`Send`);
* a cleanup frees the nodes of running threads, two cleanups remove and free each
  other's nodes, and the second join of a thread whose stack is gone crashes;
  without one of these there is no SIGSEGV, and no double free unless two threads
  clean up (`CrashesOnlyWhereKnown`);
* a second signal during the shutdown is raised again in its own handler without
  end (`aesdsocket.c:57`); with one signal the process ends, unless the signal
  hits a thread inside `syslog` (`ShutdownCompletes`);
* in the plain build the timestamp thread writes to whatever `dataFileDescriptor`
  is. Between two clients that is a closed descriptor: the write fails, the
  thread returns with the mutex held (`aesdsocket.c:667-671`) and no client is
  served any more (`AnsweringEnds` names this as the only obstacle). In a daemon,
  before the first client's data file is open, it is number 0, which can be that
  client's socket. The same failing write is what lets the cleanup's
  `pthread_join` return (`GivingUpEnds`, `Settles`); if the thread was never
  created, the join is of an identifier that is zero;
* a connection thread that fails leaves its socket open, so enough failures end
  the server in `accept` (`AcceptStops`);
* nodes stay on the list after the join, so that the accept loop joins a
  `pthread_t` again that may belong to another thread by then (`Reap`); a failing
  read or write leaves the mutex locked (`MutexDiscipline` names the cases); bytes
  after a newline in the same packet are dropped (`DeviceWrite`);
* a daemon started without some standard descriptors may have its socket there,
  loses it in `run_daemon` and gives up at `listen` (`BeginsAsAssumed`); although
  the comment at `aesdsocket.c:323` says that stdin, stdout and stderr are redirected
  to `/dev/null`, a daemon serves without descriptor 0, because that is the one
  `/dev/null` was opened as and `close(fd)` closes it (`AcceptTable`);
* apart from the two cases above, true is returned for a command that did not
  succeed only if the child's `dup2` failed and it came back into the caller's
  program (`WrongTrueOnlyWhereKnown`); `do_exec_redirect` never closes its output file
  (`open_files`), although `systemcalls.c:90` says it does;
* a thread of the threading example whose lock failed unlocks the mutex all the
  same (`LossIsReported`), and a failing `pthread_create` leaks its block
  (`BlocksAreFreed`).

## 4. Fairness

Weak fairness of every thread's (or process's) steps: the kernel schedules every
thread that can run. In `AesdChar`, strong fairness of taking the mutex: kernel
mutexes hand off to the longest waiter. In `Threading`, strong fairness of
obtaining the mutex: glibc promises no order, but threads are finite in number and
each locks once, so a waiter has finitely many competitors. In `AesdSocket` weak
fairness suffices (of each thread, and of the signal handlers together); the
timestamp thread's sleep ends after ten seconds; a client that has connected gets
its thread's steps, but nothing forces a client to connect, to hang up, or a
signal to come. No fairness is put on a call that fails where it could wait
instead (`LockInterrupted` of `AesdChar`, `AcceptFails`, `RecvFails`, `ClockFails`,
`LockFails` of `Threading`, `WaitPidFails` of `SystemCalls`). `SystemCalls` assumes that commands end.

## 5. Proofs

Each theorem has the form `Spec => []Inv`, `Spec => [][A]_vars` or `Spec =>
Abstract!Spec` (`AtomicDeviceImplemented` has `ExclusiveSpec` for `Spec`, as its
run has) and holds for every value of the constants that the named
assumptions allow. TLC found no violation of the inductive invariants on instances
of the runs before they were proved.

`CircularBufferTheorems` (lemmas). The provers have no induction over data, so
facts about all prefixes of a sum or of a concatenation are proved by the least
counterexample: a set of natural numbers has a least element (`LeastNat`), and
the least number that violates the claim does not exist. From this come the
lemmas about `SumBelow`, about the concatenation of a sequence of strings, and
about what `add_entry` and the lookup do to a buffer.

`CircularBufferProofs`, for every capacity N > 0 and every set of entries:

* `TypeCorrect`: `[]TypeOK`;
* `Refinement`: `RefinesRecentWrites`, the buffer implements the queue, an insert
  being a `Store` of its entry and an initialisation the only `Clear`. The
  inductive invariant is `TypeOK` with `FullMeansMet` (a full buffer has its
  two offsets equal). Without the second part an insert into a "full" buffer
  whose offsets differ would overwrite an entry that is not the oldest. The main
  lemma says what an insert does to the sequence of stored entries, full and not
  full, before and after wrap-around;
* `FindSearchesConcatenation`: `[]FindIsConcatenation`, for every offset. The
  slot found and the reference `Locate` are the same because both are the one
  index whose interval of accumulated bytes contains the offset.

`AesdCharProofs`, for any number of threads, files, slots and addresses, any
payloads and any faults:

* `LockDisciplineHolds`. The invariant (`ControlInv`) adds that a thread inside a
  call has its file open and that an unloaded module has no open file:
  `aesd_init_module` reinitialises the mutex, which would break the discipline
  if a thread could be inside;
* `TypeCorrect`, `HeapSafety`. The invariant `MemInv` says who owns which block:
  the writers' `write_data`, the entries of the buffer and `write_buffer` are
  different blocks, allocated and as long as the code believes; between reserve
  and append `write_buffer` has room for what is to be appended (`AppendInv`). A
  failed `krealloc` is the hard case: it leaves `write_buffer` null and
  `write_buffer_size` positive, so what is known of `write_buffer` is known only
  while it is an address (`PendingInv`); between two commands it still points to
  the last one stored (`StaleInv`). Steps are grouped by
  what they do to memory (`CallEffect`, `DataEffect`, `ReserveEffect`,
  `AppendEffect`), and the invariant is proved per group. `HeapSafety` is about
  frees, pointers and copies of a number of bytes; that the print of a completed
  command reads on to a NUL is not excluded by it (see `Overreads`);
* `Leaks`, `Amount`: the action properties `LeaksOnlyWhereKnown` and
  `AmountStoredUnlessKreallocFails`, from the same invariant.

`AesdCharRefinement`, on top of it:

* `LogImplemented`: `Spec => RefinesCommandLog` if `krealloc` does not fail (and
  every other fault may happen). The hypothesis is needed: a failed `krealloc`
  drops the bytes of the unfinished command, as `AmountStoredUnlessKreallocFails`
  states. Initial states map to initial states; of the four steps of a write only
  the append maps to a write of the log; loading and unloading the module map to
  the log's own, which alone may empty it; all others stutter;
* `BuffSizeCovers`, `Overreads`, `ReadsReturnStream`, `SeekToUnwrapped`, whichever
  calls fail.
  `buff_size` is exact until the buffer is full and too large after an
  eviction. What the debug output prints is the block of the command that the same
  step stores (`PrintedBlock`), so a NUL in that command ends the read in the block.
  A read, which copies from one entry only, returns a substring of the
  concatenation of all of them at its position;
* `AtomicDeviceImplemented`: `ExclusiveSpec => RefinesAtomicDevice` if `krealloc`
  does not fail, for the reason given at `LogImplemented`. `ExclusiveSpec` is the
  driver under programs that make no two calls on one open file at once; its
  invariant `ApartInv` says so of every reachable state. The mapping has the
  device as the mutex protects it (`DeviceSeen`) and, for a file whose call has
  released the mutex and not yet returned, the position in the call's copy, which
  the kernel stores back later (`PosSeen`). A read takes effect when it leaves its
  critical section, a write when it appends, the seeks in their one step; every
  other step stutters. Two calls on one file would break the mapping: the later
  of the two stores would undo the position of the earlier.

`AesdSocketProofs`, for any number of connections, any scripts, arrivals, faults
and signals, both builds:

* `TypeCorrect`, `MutexDisciplineHolds`, `NodesOutlive`, `CrashesKnown`. The
  invariant has one part per group of variables: `Places` (which labels each
  kind of thread can be at), `ListInv` (a connection is accepted once and its
  node inserted once, so no node is on the list twice), `DataInv` (what the
  descriptors, the device or file, and the buffers hold; a descriptor of the
  plain file has an inode that exists), `OtherTypes`, `MutexInv`, `NodesInv`
  (freed nodes only after a cleanup has begun, which is for good), `LoneInv`. The
  last one carries `CrashesKnown` through the four steps of the cleanup's loop:
  unless two threads clean up, all nodes on the list are live (`LiveList`), and the
  node the one cleanup has in hand is live and off the list when it is freed
  (`LoneCleanup`), also when the cleanup is a handler that interrupted main's own;
  two cleanups stay two (`TwoStay`). Nothing is assumed about `CachedStacks`. That the
  operations of `AesdDevice` and `PlainFile` keep their data well formed is
  proved from `CircularBufferTheorems`;
* `OwnsDataFileAlone`, `DescriptorsReturnedAlone`: under `ServesAlone`, clients
  that come one at a time own the shared descriptor and return what they open.
  `ServesAlone` is a condition on the constants: `Arrival` is `alone`, nobody is
  rude, no signals, only `pthread_create` and the clock may fail, at least seven
  descriptors, and every seek command comes with its newline. The constants of the
  run `server_alone` satisfy it; the number of clients, their scripts, the number
  of timestamps and daemon mode are left open. Without the arrival condition
  `OwnsDataFile` is false, as `server_serial` shows; without the one about the
  newline `DescriptorsReturned` is, because the file a seek has opened is opened
  again for the next packet. The invariant adds to the one above that two clients
  that are not done are the same one and nobody has failed (`QuietInv`), what a
  thread knows of its packet (`PacketInv`), and exactly which descriptors are open
  (`OpenInv`): so a number is always left, and each open succeeds;
* `ReplyIsContentsAlone`: under `AnswersAlone`, the answer of a client is what the
  device or file holds at that moment, the client's line at its end.
  `AnswersAlone` adds to `ServesAlone` that a client sends at most one line and
  nothing after it, in any number of packets, and that no timestamp is written
  (the device build has no such thread). Both are needed: the device drops what
  follows a newline in a packet, and a timestamp that comes between the client's
  line and the answer is then last. The run `server_alone` is an instance. The
  invariant has three parts for each client. `InboxInv`: what is still to be
  received is the rest of its script. `SentInv`: until the answer, what the client
  has sent is behind whatever the device or file holds (for the device the
  unfinished command, for the file its end). `AnswerInv`: while the thread
  answers, what it has sent, what it has in hand and what follows its position
  are together the contents (after a seek, an end of the contents). `StoreInv`
  adds that the timestamp thread has not come to write and that every entry of
  the device is a command. The loop of reads needs no second induction: each read
  moves bytes from the third part of `AnswerInv` to the second, each write from
  the second to the first. The lemmas say what one read or write does to the
  contents (`DeviceReadIs`, `FileReadIs`, `DeviceWriteIs`) and how `EndsWith` and
  `From` go with concatenation.

`ServerStartupProofs`: `TypeCorrect`, `BeginsRight`, for any size of the table.
`LowestFdIsFree` is the lemma about the descriptor table. The invariant
(`TableInv`) says which descriptors are open at each call: the standard ones and
the socket, the same without the standard ones while `run_daemon` replaces them,
and from `bind` on the addresses have been given back. `listen` fails on a
descriptor that is no socket, which leaves only the tables in which the socket
got a number above the three.

`SystemCallsProofs`: `SuccessReported`, `TrueMeans`, for any number of calls. The
invariant relates the wait status to what the command did (`StatusInv`) and
follows a child that was abandoned by a failing `waitpid`: its caller was told
true (`Abandoned`), so a success that comes later contradicts nothing.

`ThreadingProofs`: `TypeCorrect`, `LossReported`, for any number of threads. A
thread that holds the mutex is its owner (`OwnsIt`); whoever was robbed of it was
robbed by, or after, a thread that reports a failure (`RobbedInv`).

Assumptions on the constants, which TLC evaluates in the runs: `NAssumption` (N
positive), `NullAssumption` and `NullIsNoPlace` (the null pointer is not the
result of a successful lookup), `EntriesAssumption` (sizes are natural numbers),
`DriverAssumption` (addresses, threads, files and the null pointer are different
things; the marks for free and for uninitialised memory are neither strings nor
bytes that programs write; read counts and the two numbers of a seek command are
unsigned), `MaxFdAssumption`, `ServerAssumption` (threads, the null pointer and a
destroyed mutex are different things; scripts are sequences of packets),
`CallsAssumption`, `ThreadingAssumption`.

Only model-checked: all liveness, since the prover has no rules for fairness here.
Every safety property of a passing run is stated by a theorem; those that hold
only under a condition on the constants (`RefinesCommandLog` and
`RefinesAtomicDevice` where `krealloc` does not fail; `OwnsDataFile`,
`DescriptorsReturned` and `ReplyIsContents` for clients one at a time) are checked
by TLC on instances of that condition too. `RefinesCommandLog` is proved for all
callers and checked by TLC for those that make no two calls on one open file at
once.

## 6. Not modelled

* Logging, but for the lock of `syslog` outside error paths and for the print at
  `main.c:203`. The prints at `main.c:161` and `:165` give `%s` the address of a
  local variable and read the stack, not a block of memory. The descriptor of
  `syslog`'s connection to a log daemon: where there is one it takes a number, and
  the numbers after it shift by one. Addresses (every node points to the one
  `clientInfo` of `accept_and_log_client`; only logged text depends on it), the
  characters of the seek command and of timestamps.
* The lock of `malloc`, which `free` in the signal handler could run into: its
  effect is the one of `syslog_lock`.
* What becomes of the bytes after a newline in one packet: the model drops them
  as the driver does, and no document says what should happen.
* `writer.c` and `autotest-validate`: single-shot functions without state or
  failure handling beyond an error return. The scripts and the tests. The
  vendored `server/queue.h`, which no file includes.

## 7. Plan

Done: the circular buffer, the driver, the server in both builds, its start, the
examples; every safety property of a passing run is proved. When the code
changes, the definitions named in PROJECT.json's `map` for the changed lines are
brought in line first, then the runs, then the proofs. Possible extensions: a
version of `AtomicDevice` in which a failed `krealloc` drops the unfinished
command, so that its refinement needs no hypothesis; `ReplyIsContents` with
timestamps, the answer then ending with the client's line and the timestamps
written since.
