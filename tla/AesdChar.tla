------------------------------ MODULE AesdChar ------------------------------
(***************************************************************************)
(* The character driver of aesd-char-driver/main.c: one device, any number *)
(* of open files and of threads inside its file operations at once.        *)
(*                                                                         *)
(* A system call is a few steps.  What a handler does before it takes the  *)
(* device's mutex, what it does while it holds it and what the kernel does *)
(* after it returned are separate, so that the calls of other threads can  *)
(* come in between.  Kernel memory is explicit: every kmalloc takes an     *)
(* address that every kfree has to give back.                              *)
(***************************************************************************)
EXTENDS AesdDevice

CONSTANTS Thread, File,
          Addr,            \* addresses of kernel memory blocks
          ZERO_SIZE_PTR,   \* what kmalloc(0) returns: not NULL, no memory behind it
          FREE,            \* the state of an unallocated block
          Byte,            \* the characters programs write, NewLine among them,
          Junk,            \*   and the byte of memory nobody has written to
          NUL,             \* the byte that ends a C string
          Payload,         \* the byte strings programs write
          ReadCounts,      \* the counts they pass to read
          Seeks,           \* [offset, whence] arguments of lseek
          Seektos,         \* [cmd, write_cmd, write_cmd_offset] arguments of ioctl
          Faults,          \* which calls into the kernel may fail
          MaxWrites        \* bound on the number of write calls

FaultKinds == {"kmalloc write_data", "copy_from_user", "kmalloc write_buffer",
               "krealloc", "copy_to_user", "signal", "cdev_add"}

ASSUME DriverAssumption ==
  /\ NULL \notin Addr /\ ZERO_SIZE_PTR \notin Addr /\ NULL # ZERO_SIZE_PTR
  /\ NULL \notin Thread /\ NULL \notin File
  /\ FREE \notin Seq(Byte)
  /\ NewLine \in Byte /\ Junk \in Byte /\ \A d \in Payload : d \in Seq(Byte \ {Junk})
  /\ Faults \subseteq FaultKinds
  /\ ReadCounts \subseteq Nat
  /\ \A s \in Seektos : s.cmd = "AESDCHAR_IOCSEEKTO" =>
                          s.write_cmd \in Nat /\ s.write_cmd_offset \in Nat
  /\ MaxWrites \in Nat

VARIABLES loaded,              \* the module is in the kernel
          buffer, write_buffer, write_buffer_size, buff_size, lock,  \* struct aesd_dev
          heap,                \* kernel memory
          opened, f_pos,       \* the open struct files and their positions
          pc, arg, pos,        \* per thread: where it is in its call, the call's
          write_data,          \*   arguments and the locals *f_pos, write_data
          got,                 \*   and the bytes read into the user's buffer
          writes,              \* number of write calls so far
          overread             \* some read has gone past the end of its block

dev  == <<buffer, write_buffer, write_buffer_size, buff_size>>
call == <<pc, arg, pos, write_data, got>>
vars == <<loaded, dev, lock, heap, opened, f_pos, call, writes, overread>>

-----------------------------------------------------------------------------
(***************************************************************************)
(* Kernel memory.                                                          *)
(***************************************************************************)
Block(p) == IF p \in Addr THEN heap[p] ELSE << >>

JunkBytes(n) == [i \in 1 .. n |-> Junk]

(***************************************************************************)
(* kmalloc returns a block that is free.  Which one makes no difference to *)
(* the driver, which never compares addresses, so it is a fixed choice.    *)
(* The number of blocks is a bound of the model: memory that has run out   *)
(* disables the call, and the failures the driver handles are Faults.      *)
(***************************************************************************)
MemoryLeft == \E p \in Addr : heap[p] = FREE

kmalloc(n) == IF n = 0 THEN ZERO_SIZE_PTR ELSE CHOOSE p \in Addr : heap[p] = FREE

Kfree(h, p) == IF p \in Addr THEN [h EXCEPT ![p] = FREE] ELSE h

Put(h, p, bytes) == IF p \in Addr THEN [h EXCEPT ![p] = bytes] ELSE h

\* The blocks krealloc(old, n, GFP_KERNEL) may return: the old one if that is
\* large enough or can grow in place, or a new one.
krealloc(old, n) ==
  IF n <= Len(Block(old)) THEN {old} ELSE {kmalloc(n)} \cup ({old} \cap Addr)

\* The contents of a block after it has grown to n bytes.
Grown(old, n) ==
  [i \in 1 .. n |-> IF i <= Len(Block(old)) THEN Block(old)[i] ELSE Junk]

(***************************************************************************)
(* Threads entering and leaving the driver.                                *)
(***************************************************************************)
NoArg == [file |-> NULL]

\* Where a thread that waits for the mutex continues once it has it.
Locked == [read_lock   |-> "read",
           write_lock  |-> "write_reserve",
           llseek_lock |-> "llseek",
           ioctl_lock  |-> "adjust"]

Waiting == DOMAIN Locked
Holding == {Locked[w] : w \in Waiting} \cup {"write_append"}

Labels  == Waiting \cup Holding \cup {"idle", "write_copy", "ioctl", "return"}

Goto(t, label) == pc' = [pc EXCEPT ![t] = label]

\* Thread t is back in user space; the locals of its call are gone.
Leave(t) ==
  /\ Goto(t, "idle")
  /\ arg' = [arg EXCEPT ![t] = NoArg]
  /\ pos' = [pos EXCEPT ![t] = 0]
  /\ write_data' = [write_data EXCEPT ![t] = NULL]
  /\ got' = [got EXCEPT ![t] = << >>]

Enter(t, label, args) ==
  /\ loaded
  /\ pc[t] = "idle"
  /\ args.file \in opened
  /\ Goto(t, label)
  /\ arg' = [arg EXCEPT ![t] = args]
  /\ pos' = [pos EXCEPT ![t] = f_pos[args.file]]

AcquireLock(t) ==
  /\ pc[t] \in Waiting
  /\ lock = NULL
  /\ lock' = t
  /\ Goto(t, Locked[pc[t]])
  /\ UNCHANGED <<loaded, dev, heap, opened, f_pos, arg, pos, write_data, got, writes, overread>>

(***************************************************************************)
(* mutex_lock_interruptible gives up on a signal, but only after it found  *)
(* the mutex held by somebody else; the handler returns -ERESTARTSYS.      *)
(* aesd_write returns without giving write_data back.                      *)
(***************************************************************************)
\* Mutant: the return value of mutex_lock_interruptible is ignored.
AfterInterruptIgnored(t) == Goto(t, Locked[pc[t]]) /\ UNCHANGED <<arg, pos, write_data, got>>

AfterInterrupt(t) == Leave(t)

LockInterrupted(t) ==
  /\ "signal" \in Faults
  /\ pc[t] \in Waiting
  /\ lock # NULL
  /\ AfterInterrupt(t)
  /\ UNCHANGED <<loaded, dev, lock, heap, opened, f_pos, writes, overread>>

\* The kernel stores the position the handler left in *f_pos.
StorePos(t) ==
  /\ pc[t] = "return"
  /\ f_pos' = [f_pos EXCEPT ![arg[t].file] = pos[t]]
  /\ Leave(t)
  /\ UNCHANGED <<loaded, dev, lock, heap, opened, writes, overread>>

-----------------------------------------------------------------------------
(***************************************************************************)
(* aesd_open, aesd_release                                                 *)
(***************************************************************************)
Open(f) ==
  /\ loaded
  /\ f \notin opened
  /\ opened' = opened \cup {f}
  /\ f_pos' = [f_pos EXCEPT ![f] = 0]
  /\ UNCHANGED <<loaded, dev, lock, heap, call, writes, overread>>

\* The last reference to a struct file is only dropped between calls on it.
Release(f) ==
  /\ f \in opened
  /\ \A t \in Thread : arg[t].file # f
  /\ opened' = opened \ {f}
  /\ f_pos' = [f_pos EXCEPT ![f] = 0]
  /\ UNCHANGED <<loaded, dev, lock, heap, call, writes, overread>>

(***************************************************************************)
(* aesd_read: find the entry *f_pos falls in and copy out what is left of  *)
(* it, at most count bytes.                                                *)
(***************************************************************************)
SysRead(t, f, count) ==
  /\ Enter(t, "read_lock", [file |-> f, count |-> count])
  /\ UNCHANGED <<loaded, dev, lock, heap, opened, f_pos, write_data, got, writes, overread>>

\* Mutant: the user's count is not looked at.
bytes_to_copyAll(bytes_remaining, count) == bytes_remaining

bytes_to_copy(bytes_remaining, count) == Min({bytes_remaining, count})

aesd_read(t) ==
  LET found == aesd_circular_buffer_find_entry_offset_for_fpos(buffer, pos[t])
      entry == buffer.entry[found.slot]
      copied == bytes_to_copy(entry.size - found.byte, arg[t].count)
  IN  /\ pc[t] = "read"
      /\ lock' = NULL
      /\ \/ /\ found = NULL
            /\ Goto(t, "return")
            /\ UNCHANGED <<arg, pos, write_data, got>>
         \/ /\ found # NULL
            /\ got' = [got EXCEPT ![t] = SubSeq(Block(entry.buffptr), found.byte + 1,
                                                found.byte + copied)]
            /\ pos' = [pos EXCEPT ![t] = @ + copied]
            /\ Goto(t, "return")
            /\ UNCHANGED <<arg, write_data>>
         \/ /\ found # NULL
            /\ "copy_to_user" \in Faults
            /\ Leave(t)
      /\ UNCHANGED <<loaded, dev, heap, opened, f_pos, writes, overread>>

(***************************************************************************)
(* aesd_write: copy the user's bytes to a temporary block, take the mutex, *)
(* make room in write_buffer for the bytes up to the first newline, append *)
(* them and, if there was a newline, move write_buffer into the circular   *)
(* buffer.                                                                 *)
(***************************************************************************)
newline_found(t) == Contains(Block(write_data[t]), NewLine)

\* Mutant: the newline itself is left out.
append_indexShort(t) ==
  IF newline_found(t)
  THEN SelectInSeq(Block(write_data[t]), LAMBDA c : c = NewLine) - 1
  ELSE Len(Block(write_data[t]))

append_index(t) ==
  IF newline_found(t)
  THEN SelectInSeq(Block(write_data[t]), LAMBDA c : c = NewLine)
  ELSE Len(Block(write_data[t]))

SysWrite(t, f, data) ==
  /\ writes < MaxWrites
  /\ writes' = writes + 1
  /\ \/ /\ MemoryLeft
        /\ Enter(t, "write_copy", [file |-> f, data |-> data])
        /\ write_data' = [write_data EXCEPT ![t] = kmalloc(Len(data))]
        /\ heap' = Put(heap, kmalloc(Len(data)), JunkBytes(Len(data)))
        /\ got' = got
     \/ /\ "kmalloc write_data" \in Faults
        /\ loaded /\ pc[t] = "idle" /\ f \in opened
        /\ UNCHANGED <<heap, call>>
  /\ UNCHANGED <<loaded, dev, lock, opened, f_pos, overread>>

WriteCopy(t) ==
  /\ pc[t] = "write_copy"
  /\ \/ /\ heap' = Put(heap, write_data[t], arg[t].data)
        /\ Goto(t, "write_lock")
        /\ UNCHANGED <<arg, pos, write_data, got>>
     \/ /\ "copy_from_user" \in Faults
        /\ heap' = Kfree(heap, write_data[t])
        /\ Leave(t)
  /\ UNCHANGED <<loaded, dev, lock, opened, f_pos, writes, overread>>

WriteReserve(t) ==
  /\ pc[t] = "write_reserve"
  /\ MemoryLeft
  /\ LET count == Len(Block(write_data[t]))
         size  == append_index(t) + write_buffer_size
     IN  \/ /\ write_buffer_size = 0
            /\ write_buffer' = kmalloc(count)
            /\ heap' = Put(heap, write_buffer', JunkBytes(count))
         \/ /\ write_buffer_size > 0
            /\ write_buffer' \in krealloc(write_buffer, size)
            /\ heap' = Put(Kfree(heap, write_buffer), write_buffer', Grown(write_buffer, size))
  /\ Goto(t, "write_append")
  /\ UNCHANGED <<loaded, buffer, write_buffer_size, buff_size, lock, opened, f_pos,
                 arg, pos, write_data, got, writes, overread>>

\* Mutant: the error path returns with the mutex held.
UnlockOnErrorMissing == UNCHANGED lock

UnlockOnError == lock' = NULL

\* kmalloc or krealloc fails; the pointer to the old block is overwritten.
WriteReserveFails(t) ==
  /\ pc[t] = "write_reserve"
  /\ (IF write_buffer_size = 0 THEN "kmalloc write_buffer" ELSE "krealloc") \in Faults
  /\ write_buffer' = NULL
  /\ heap' = Kfree(heap, write_data[t])
  /\ UnlockOnError
  /\ Leave(t)
  /\ UNCHANGED <<loaded, buffer, write_buffer_size, buff_size, opened, f_pos, writes, overread>>

\* Mutant: memcpy(write_buffer, ...), over the bytes of earlier writes.
AppendedAtStart(h, t) ==
  Put(h, write_buffer,
      [i \in DOMAIN Block(write_buffer) |->
         IF i \in 1 .. append_index(t) THEN Block(write_data[t])[i] ELSE Block(write_buffer)[i]])

\* h after memcpy(write_buffer + write_buffer_size, write_data, append_index).
Appended(h, t) ==
  Put(h, write_buffer,
      [i \in DOMAIN Block(write_buffer) |->
         IF i \in write_buffer_size + 1 .. write_buffer_size + append_index(t)
         THEN Block(write_data[t])[i - write_buffer_size]
         ELSE Block(write_buffer)[i]])

\* Mutants: the oldest entry is freed although it stays, or never.
OldestFreedTooEarly(h) == Kfree(h, buffer.entry[buffer.out_offs].buffptr)
OldestFreedNever(h) == h

\* h after the entry that add_entry is about to overwrite was freed.
OldestFreed(h) == IF buffer.full THEN Kfree(h, buffer.entry[buffer.in_offs].buffptr) ELSE h

\* Mutant: this write only, not the whole command.
buff_size_incrementOfWrite(t) == append_index(t)

buff_size_increment(t) == write_buffer_size + append_index(t)

\* Mutant: the buffer is dumped with a fixed length.
PrintBufferDump(line) == overread' = TRUE

(***************************************************************************)
(* PDEBUG, which aesdchar.h switches on, prints write_buffer with %s: the  *)
(* read ends at a NUL and nothing says that the block has one.  A byte     *)
(* nobody has written to may be one.                                       *)
(***************************************************************************)
PrintBuffer(line) ==
  \/ ~Contains(line, NUL) /\ overread' = TRUE
  \/ (Contains(line, NUL) \/ Contains(line, Junk)) /\ UNCHANGED overread

CompleteCommand(t) ==
  /\ PrintBuffer(Appended(heap, t)[write_buffer])
  /\ heap' = Kfree(OldestFreed(Appended(heap, t)), write_data[t])
  /\ buffer' = aesd_circular_buffer_add_entry(buffer,
                 [buffptr |-> write_buffer, size |-> write_buffer_size + append_index(t)])
  /\ buff_size' = buff_size + buff_size_increment(t)
  /\ write_buffer_size' = 0

\* Mutant: the position moves by the whole count, also past the newline.
retvalCount(t) == Len(Block(write_data[t]))

retval(t) == append_index(t)

WriteAppend(t) ==
  /\ pc[t] = "write_append"
  /\ \/ newline_found(t) /\ CompleteCommand(t)
     \/ /\ ~newline_found(t)
        /\ heap' = Kfree(Appended(heap, t), write_data[t])
        /\ write_buffer_size' = write_buffer_size + append_index(t)
        /\ UNCHANGED <<buffer, buff_size, overread>>
  /\ lock' = NULL
  /\ pos' = [pos EXCEPT ![t] = @ + retval(t)]
  /\ write_data' = [write_data EXCEPT ![t] = NULL]
  /\ Goto(t, "return")
  /\ UNCHANGED <<loaded, write_buffer, opened, f_pos, arg, got, writes>>

(***************************************************************************)
(* aesd_llseek hands file->f_pos and buff_size to fixed_size_llseek, which *)
(* refuses a position below 0 or beyond the size it is given.              *)
(***************************************************************************)
SysLlseek(t, f, seek) ==
  /\ Enter(t, "llseek_lock", [file |-> f, seek |-> seek])
  /\ UNCHANGED <<loaded, dev, lock, heap, opened, f_pos, write_data, got, writes, overread>>

aesd_llseek(t) ==
  LET f      == arg[t].file
      target == fixed_size_llseek(f_pos[f], arg[t].seek, buff_size)
  IN  /\ pc[t] = "llseek"
      /\ lock' = NULL
      /\ f_pos' = IF target \in 0 .. buff_size THEN [f_pos EXCEPT ![f] = target] ELSE f_pos
      /\ Leave(t)
      /\ UNCHANGED <<loaded, dev, heap, opened, writes, overread>>

(***************************************************************************)
(* aesd_ioctl and aesd_adjust_file_offset: AESDCHAR_IOCSEEKTO moves f_pos  *)
(* to a byte of a command.                                                 *)
(***************************************************************************)
SysIoctl(t, f, seekto) ==
  /\ Enter(t, "ioctl", [file |-> f, seekto |-> seekto])
  /\ UNCHANGED <<loaded, dev, lock, heap, opened, f_pos, write_data, got, writes, overread>>

aesd_ioctl(t) ==
  /\ pc[t] = "ioctl"
  /\ \/ /\ arg[t].seekto.cmd = "AESDCHAR_IOCSEEKTO"
        /\ Goto(t, "ioctl_lock")
        /\ UNCHANGED <<arg, pos, write_data, got>>
     \/ /\ \/ arg[t].seekto.cmd # "AESDCHAR_IOCSEEKTO"
           \/ "copy_from_user" \in Faults
        /\ Leave(t)
  /\ UNCHANGED <<loaded, dev, lock, heap, opened, f_pos, writes, overread>>

\* Mutant: the loop runs to write_cmd inclusive.
updated_fpos_offsetInclusive(write_cmd) ==
  SumBelow([i \in Slots |-> buffer.entry[i].size], write_cmd + 1)

updated_fpos_offset(write_cmd) == SumBelow([i \in Slots |-> buffer.entry[i].size], write_cmd)

aesd_adjust_file_offset(t) ==
  LET cmd == arg[t].seekto.write_cmd
      off == arg[t].seekto.write_cmd_offset
  IN  /\ pc[t] = "adjust"
      /\ lock' = NULL
      /\ f_pos' = IF cmd < N /\ off < buffer.entry[cmd].size
                  THEN [f_pos EXCEPT ![arg[t].file] = updated_fpos_offset(cmd) + off]
                  ELSE f_pos
      /\ Leave(t)
      /\ UNCHANGED <<loaded, dev, heap, opened, writes, overread>>

(***************************************************************************)
(* aesd_init_module, aesd_cleanup_module.  The kernel runs no other        *)
(* operation meanwhile and unloads the module only when no file is open.   *)
(***************************************************************************)
aesd_init_module ==
  /\ ~loaded
  /\ loaded' \in IF "cdev_add" \in Faults THEN BOOLEAN ELSE {TRUE}
  /\ buffer' = aesd_circular_buffer_init
  /\ write_buffer' = NULL
  /\ write_buffer_size' = 0
  /\ buff_size' = 0
  /\ lock' = NULL
  /\ UNCHANGED <<heap, opened, f_pos, call, writes, overread>>

aesd_cleanup_module ==
  /\ loaded
  /\ opened = {}
  /\ loaded' = FALSE
  /\ heap' = [a \in Addr |-> IF \E i \in Slots : buffer.entry[i].buffptr = a
                             THEN FREE ELSE heap[a]]
  /\ UNCHANGED <<dev, lock, opened, f_pos, call, writes, overread>>

-----------------------------------------------------------------------------
\* aesd_device is a global, zero when the module is mapped into the kernel.
Init ==
  /\ loaded = FALSE
  /\ buffer = aesd_circular_buffer_init
  /\ write_buffer = NULL
  /\ write_buffer_size = 0
  /\ buff_size = 0
  /\ lock = NULL
  /\ heap = [a \in Addr |-> FREE]
  /\ opened = {}
  /\ f_pos = [f \in File |-> 0]
  /\ pc = [t \in Thread |-> "idle"]
  /\ arg = [t \in Thread |-> NoArg]
  /\ pos = [t \in Thread |-> 0]
  /\ write_data = [t \in Thread |-> NULL]
  /\ got = [t \in Thread |-> << >>]
  /\ writes = 0
  /\ overread = FALSE

\* The steps a thread takes inside the driver once its call has started.
Step(t) ==
  \/ AcquireLock(t) \/ LockInterrupted(t) \/ StorePos(t)
  \/ aesd_read(t)
  \/ WriteCopy(t) \/ WriteReserve(t) \/ WriteReserveFails(t) \/ WriteAppend(t)
  \/ aesd_llseek(t)
  \/ aesd_ioctl(t) \/ aesd_adjust_file_offset(t)

\* A program makes a system call on an open file.
SysCall(t, f) ==
  \/ \E count \in ReadCounts : SysRead(t, f, count)
  \/ \E data \in Payload : SysWrite(t, f, data)
  \/ \E seek \in Seeks : SysLlseek(t, f, seek)
  \/ \E seekto \in Seektos : SysIoctl(t, f, seekto)

Next ==
  \/ aesd_init_module \/ aesd_cleanup_module
  \/ \E f \in File : Open(f) \/ Release(f)
  \/ \E t \in Thread, f \in File : SysCall(t, f)
  \/ \E t \in Thread : Step(t)

Spec == Init /\ [][Next]_vars

(***************************************************************************)
(* The kernel runs every thread that can run, and its mutex is handed to   *)
(* waiters in the order they came, so a thread that waits while the mutex  *)
(* becomes free again and again gets it in the end.  Nothing says that a   *)
(* signal comes to a thread that waits: no fairness for LockInterrupted.   *)
(***************************************************************************)
FairSpec ==
  /\ Spec
  /\ \A t \in Thread : /\ WF_vars(pc[t] \notin Waiting /\ Step(t))
                       /\ SF_vars(AcquireLock(t))

-----------------------------------------------------------------------------
(***************************************************************************)
(* What the device holds.  Between write_reserve and write_append the      *)
(* write_buffer is live even when its size is still 0.                     *)
(***************************************************************************)
Appending == \E t \in Thread : pc[t] = "write_append"
Pending   == write_buffer_size > 0 \/ Appending

EntryBytes(e) == SubSeq(Block(e.buffptr), 1, e.size)

Commands == [k \in 1 .. Count(buffer) |-> EntryBytes(Contents(buffer)[k])]
Stream   == FlattenSeq(Commands)
Partial  == IF write_buffer_size > 0 THEN SubSeq(Block(write_buffer), 1, write_buffer_size)
            ELSE << >>

Pointer == Addr \cup {NULL, ZERO_SIZE_PTR}

TypeOK ==
  /\ loaded \in BOOLEAN
  /\ buffer \in Buffer(Entry(Pointer))
  /\ write_buffer \in Pointer
  /\ write_buffer_size \in Nat /\ buff_size \in Nat
  /\ lock \in Thread \cup {NULL}
  /\ DOMAIN heap = Addr
  /\ \A a \in Addr : heap[a] = FREE \/ heap[a] \in Seq(Byte)
  /\ opened \subseteq File
  /\ f_pos \in [File -> Nat]
  /\ pc \in [Thread -> Labels]
  /\ DOMAIN arg = Thread
  /\ \A t \in Thread : arg[t].file \in File \cup {NULL} /\ (arg[t].file = NULL <=> pc[t] = "idle")
  /\ pos \in [Thread -> Nat]
  /\ write_data \in [Thread -> Pointer]
  /\ got \in [Thread -> Seq(Byte)]
  /\ writes \in 0 .. MaxWrites
  /\ overread \in BOOLEAN

(***************************************************************************)
(* The device's mutex is held exactly by the thread that is inside a       *)
(* critical section: no two threads are in one at once, and no path out of *)
(* a handler, the error paths included, leaves with the mutex held.        *)
(***************************************************************************)
LockDiscipline == \A t \in Thread : lock = t <=> pc[t] \in Holding

(***************************************************************************)
(* Kernel memory is safe.  Every block that an entry of the circular       *)
(* buffer, the write_buffer or a thread's write_data points to is          *)
(* allocated, belongs to only one of them and is as long as its owner      *)
(* takes it to be: nothing is freed twice or used after kfree, and no copy *)
(* of a number of bytes leaves its block.  The one access that goes by a   *)
(* terminator instead of a size, the debug output of a completed command,  *)
(* does leave it: see OverreadsOnlyUnterminated.                           *)
(***************************************************************************)
Owners(a) ==
  {<<"entry", i>> : i \in {i \in Slots : loaded /\ buffer.entry[i].buffptr = a}}
    \cup {<<"write_buffer", b>> : b \in {write_buffer} \cap {b \in {a} : loaded /\ Pending}}
    \cup {<<"write_data", t>> : t \in {t \in Thread : write_data[t] = a}}

HeapSafe ==
  loaded =>
    /\ \A a \in Addr : Cardinality(Owners(a)) <= 1
    /\ \A a \in Addr : Owners(a) # {} => heap[a] # FREE
    /\ \A i \in Slots : buffer.entry[i].buffptr # NULL =>
                          buffer.entry[i].size \in 1 .. Len(Block(buffer.entry[i].buffptr))
    /\ write_buffer \in Addr /\ write_buffer_size > 0 =>
                          write_buffer_size <= Len(Block(write_buffer))
    /\ \A t \in Thread : pc[t] = "write_append" =>
                          write_buffer_size + append_index(t) <= Len(Block(write_buffer))

(***************************************************************************)
(* The driver does read past the end of a block: its debug output takes a  *)
(* completed command for a C string (main.c:203).  Only a command without  *)
(* a NUL does that: a step that reads past a block stores a command, and   *)
(* the one that is newest from then on holds no NUL, whatever other        *)
(* threads have written to it or failed at.                                *)
(***************************************************************************)
OverreadsOnlyUnterminated ==
  [][overread' # overread => Commands' # << >> /\ ~Contains(Last(Commands'), NUL)]_vars

(***************************************************************************)
(* A block of kernel memory that is in use is either freed or stays        *)
(* reachable, except in three places of main.c: a write that a signal      *)
(* takes out of mutex_lock_interruptible loses its write_data, a krealloc  *)
(* that fails loses the write_buffer, and unloading the module loses a     *)
(* command that was not finished.                                          *)
(***************************************************************************)
LostByInterrupt(a) ==
  \E t \in Thread : pc[t] = "write_lock" /\ pc'[t] = "idle" /\ write_data[t] = a
LostByKrealloc(a) ==
  \E t \in Thread : pc[t] = "write_reserve" /\ pc'[t] = "idle" /\ write_buffer = a
LostByUnload(a) == loaded /\ ~loaded' /\ write_buffer_size > 0 /\ write_buffer = a

LeaksOnlyWhereKnown ==
  [][\A a \in Addr :
       heap[a] # FREE /\ Owners(a) # {} /\ heap'[a] # FREE /\ Owners(a)' = {}
         => LostByInterrupt(a) \/ LostByKrealloc(a) \/ LostByUnload(a)]_vars

(***************************************************************************)
(* The device implements a log of commands (when krealloc does not fail):  *)
(* writes of several threads, to the same or to different open files,      *)
(* take effect one after the other and each one entirely or not at all,    *)
(* reads and seeks change nothing, and only unloading the module empties   *)
(* the log.                                                                *)
(***************************************************************************)
Log == INSTANCE CommandLog WITH
         log      <- IF loaded THEN Commands ELSE << >>,
         partial  <- IF loaded THEN Partial ELSE << >>,
         Capacity <- N

RefinesCommandLog == Log!Spec

(***************************************************************************)
(* Programs that do not use one open file in two calls at once (each has   *)
(* its own, or a mutex around its calls) find that every call happens at   *)
(* once: a read returns what follows the position that the last read,      *)
(* write or seek on its file left, although the kernel works on a copy of  *)
(* the position and stores it back after the mutex was released.           *)
(***************************************************************************)
InUse(f) == \E t \in Thread : pc[t] # "idle" /\ arg[t].file = f

ExclusiveNext ==
  \/ aesd_init_module \/ aesd_cleanup_module
  \/ \E f \in File : Open(f) \/ Release(f)
  \/ \E t \in Thread, f \in File : ~InUse(f) /\ SysCall(t, f)
  \/ \E t \in Thread : Step(t)

ExclusiveSpec == Init /\ [][ExclusiveNext]_vars

DeviceNow ==
  [buffer    |-> [buffer EXCEPT !.entry =
                    [i \in Slots |-> IF @[i] = ZeroEntry THEN @[i]
                                     ELSE [buffptr |-> EntryBytes(@[i]), size |-> @[i].size]]],
   partial   |-> Partial,
   buff_size |-> buff_size]

PosNow(f) ==
  IF \E t \in Thread : pc[t] = "return" /\ arg[t].file = f
  THEN pos[CHOOSE t \in Thread : pc[t] = "return" /\ arg[t].file = f]
  ELSE f_pos[f]

Atomic == INSTANCE AtomicDevice WITH
            dev    <- IF loaded THEN DeviceNow ELSE NewDevice,
            f_pos  <- [f \in File |-> PosNow(f)],
            answer <- got

RefinesAtomicDevice == Atomic!Spec

(***************************************************************************)
(* A read returns the bytes that follow its position in the concatenation  *)
(* of the stored commands, at most count of them and none only at the end, *)
(* and moves its position by as many.                                      *)
(***************************************************************************)
ReadReturnsStream ==
  [][\A t \in Thread :
       pc[t] = "read" /\ pc'[t] = "return" =>
         LET rest == SubSeq(Stream, pos[t] + 1, Len(Stream))
         IN  /\ IsPrefix(got'[t], rest)
             /\ Len(got'[t]) <= arg[t].count
             /\ got'[t] = << >> => rest = << >> \/ arg[t].count = 0
             /\ pos'[t] = pos[t] + Len(got'[t])]_vars

(***************************************************************************)
(* buff_size, which lseek uses as the end of the device, is never short of *)
(* the stored bytes, and is exact as long as the buffer is not full.       *)
(***************************************************************************)
BuffSizeCoversStream ==
  loaded => /\ buff_size >= Len(Stream)
            /\ ~buffer.full => buff_size = Len(Stream)

(***************************************************************************)
(* AESDCHAR_IOCSEEKTO, as aesd_ioctl.h describes it, moves the position to *)
(* byte write_cmd_offset of the write_cmd-th stored command, counted from  *)
(* the oldest, and does so whenever there is such a byte.                  *)
(***************************************************************************)
SeekedTo(t) ==
  LET cmd == arg[t].seekto.write_cmd
      off == arg[t].seekto.write_cmd_offset
  IN  cmd < Count(buffer) /\ off < Len(Commands[cmd + 1]) =>
        f_pos'[arg[t].file] = Len(FlattenSeq(SubSeq(Commands, 1, cmd))) + off

SeekToIsZeroReferenced ==
  [][\A t \in Thread : pc[t] = "adjust" /\ pc'[t] = "idle" => SeekedTo(t)]_vars

\* The same, as long as the oldest command is in the first slot of the array.
SeekToIsZeroReferencedUnwrapped ==
  [][\A t \in Thread : pc[t] = "adjust" /\ pc'[t] = "idle" /\ buffer.out_offs = 0
                          => SeekedTo(t)]_vars

(***************************************************************************)
(* write_buffer_size is, as aesdchar.h says, the amount of data stored in  *)
(* write_buffer: so many bytes of it have been written to.  The only step  *)
(* after which it is not is a krealloc that fails, which sets write_buffer *)
(* to NULL and leaves the size.                                            *)
(***************************************************************************)
AmountStored ==
  loaded => /\ write_buffer_size <= Len(Block(write_buffer))
            /\ \A i \in 1 .. write_buffer_size : Block(write_buffer)[i] # Junk

AmountStoredUnlessKreallocFails ==
  [][AmountStored /\ ~AmountStored'
       => \E t \in Thread : WriteReserveFails(t) /\ write_buffer_size > 0]_vars

(***************************************************************************)
(* Every system call on the device returns.                                *)
(***************************************************************************)
EveryCallReturns == \A t \in Thread : pc[t] # "idle" ~> pc[t] = "idle"

=============================================================================
