--------------------------- MODULE AesdCharProofs ---------------------------
(***************************************************************************)
(* Proofs about the driver, for any number of threads, open files, blocks  *)
(* of memory and buffer slots, and for any set of failing kernel calls.    *)
(***************************************************************************)
EXTENDS AesdChar, CircularBufferTheorems, FiniteSetTheorems, TLAPS

(***************************************************************************)
(* The control part of the state.  The mutex could only be lost track of   *)
(* by aesd_init_module, which reinitialises it: no thread is then inside   *)
(* the driver, because a thread inside a call keeps its file open and the  *)
(* module is only unloaded when no file is.                                *)
(***************************************************************************)
ControlInv ==
  /\ loaded \in BOOLEAN
  /\ lock \in Thread \cup {NULL}
  /\ pc \in [Thread -> Labels]
  /\ DOMAIN arg = Thread
  /\ \A t \in Thread : pc[t] # "idle" => arg[t].file \in opened
  /\ ~loaded => opened = {}
  /\ LockDiscipline

\* The labels of main.c's handlers: those inside a critical section are not
\* those outside, and taking the mutex leads from the one to the other.
LEMMA LockedLabels ==
  /\ Waiting = {"read_lock", "write_lock", "llseek_lock", "ioctl_lock"}
  /\ Holding = {"read", "write_reserve", "llseek", "adjust", "write_append"}
  /\ \A w \in Waiting : Locked[w] \in Holding
<1>1. Waiting = {"read_lock", "write_lock", "llseek_lock", "ioctl_lock"}
  BY DEF Waiting, Locked
<1>2. /\ Locked["read_lock"] = "read" /\ Locked["write_lock"] = "write_reserve"
      /\ Locked["llseek_lock"] = "llseek" /\ Locked["ioctl_lock"] = "adjust"
  BY DEF Locked
<1>3. Holding = {"read", "write_reserve", "llseek", "adjust", "write_append"}
  BY <1>1, <1>2 DEF Holding
<1> QED BY <1>1, <1>2, <1>3

\* The device starts unloaded, with its mutex free and no thread inside.
LEMMA InitControl == Init => ControlInv
<1> SUFFICES ASSUME Init PROVE ControlInv
  OBVIOUS
<1>1. \A t \in Thread : pc[t] = "idle"
  BY DEF Init
<1>2. LockDiscipline
  BY <1>1, DriverAssumption, LockedLabels DEF Init, LockDiscipline
<1> QED BY <1>1, <1>2 DEF Init, ControlInv, Labels

\* A call that starts (Enter) keeps the control invariant.
LEMMA EnterControl ==
  ASSUME ControlInv, NEW t \in Thread, NEW args, NEW label,
         label \in {"read_lock", "write_copy", "llseek_lock", "ioctl"},
         Enter(t, label, args), UNCHANGED <<loaded, lock, opened>>
  PROVE  ControlInv'
<1>1. label \in Labels \ Holding
  BY LockedLabels DEF Labels
<1>2. "idle" \notin Holding
  BY LockedLabels
<1> QED BY <1>1, <1>2 DEF ControlInv, LockDiscipline, Enter, Goto

\* A call that ends (Leave) keeps it if the mutex is free or another thread's.
LEMMA LeaveControl ==
  ASSUME ControlInv, NEW t \in Thread, Leave(t), UNCHANGED <<loaded, opened>>,
         \/ pc[t] \in Holding /\ lock' = NULL
         \/ pc[t] \notin Holding /\ lock' = lock
  PROVE  ControlInv'
<1>1. "idle" \in Labels \ Holding
  BY LockedLabels DEF Labels
<1> QED BY <1>1, DriverAssumption DEF ControlInv, LockDiscipline, Leave, Goto

\* So does a step inside a call that leaves its arguments alone.
LEMMA GotoControl ==
  ASSUME ControlInv, NEW t \in Thread, NEW label \in Labels, Goto(t, label),
         pc[t] # "idle", UNCHANGED <<loaded, opened, arg>>,
         \/ pc[t] \in Holding /\ label \notin Holding /\ lock' = NULL
         \/ (pc[t] \in Holding <=> label \in Holding) /\ lock' = lock
         \/ lock = NULL /\ label \in Holding /\ lock' = t
  PROVE  ControlInv'
BY DriverAssumption DEF ControlInv, LockDiscipline, Goto

\* Every step of every thread, of the kernel and of the module loader keeps it.
LEMMA NextControl == ControlInv /\ [Next]_vars => ControlInv'
<1> SUFFICES ASSUME ControlInv, [Next]_vars PROVE ControlInv'
  OBVIOUS
<1> USE LockedLabels
<1>1. CASE aesd_init_module
  <2>1. \A t \in Thread : pc[t] \notin Holding
    BY <1>1 DEF aesd_init_module, ControlInv
  <2> QED BY <1>1, <2>1, DriverAssumption DEF aesd_init_module, ControlInv, LockDiscipline, call
<1>2. CASE aesd_cleanup_module
  BY <1>2 DEF aesd_cleanup_module, ControlInv, LockDiscipline, call
<1>3. ASSUME NEW f \in File, Open(f) PROVE ControlInv'
  BY <1>3 DEF Open, ControlInv, LockDiscipline, call
<1>4. ASSUME NEW f \in File, Release(f) PROVE ControlInv'
  BY <1>4 DEF Release, ControlInv, LockDiscipline, call
<1>5. ASSUME NEW t \in Thread, NEW f \in File, NEW count \in ReadCounts, SysRead(t, f, count)
      PROVE  ControlInv'
  BY <1>5, EnterControl DEF SysRead
<1>6. ASSUME NEW t \in Thread, NEW f \in File, NEW data \in Payload, SysWrite(t, f, data)
      PROVE  ControlInv'
  <2>1. CASE UNCHANGED call
    BY <1>6, <2>1 DEF SysWrite, ControlInv, LockDiscipline, call
  <2>2. CASE Enter(t, "write_copy", [file |-> f, data |-> data])
    BY <1>6, <2>2, EnterControl DEF SysWrite
  <2> QED BY <1>6, <2>1, <2>2 DEF SysWrite
<1>7. ASSUME NEW t \in Thread, NEW f \in File, NEW seek \in Seeks, SysLlseek(t, f, seek)
      PROVE  ControlInv'
  BY <1>7, EnterControl DEF SysLlseek
<1>8. ASSUME NEW t \in Thread, NEW f \in File, NEW seekto \in Seektos, SysIoctl(t, f, seekto)
      PROVE  ControlInv'
  BY <1>8, EnterControl DEF SysIoctl
<1>9. ASSUME NEW t \in Thread, Step(t) PROVE ControlInv'
  <2>1. CASE AcquireLock(t)
    BY <2>1, GotoControl DEF AcquireLock, Labels
  <2>2. CASE LockInterrupted(t)
    BY <2>2, LeaveControl DEF LockInterrupted, AfterInterrupt
  <2>3. CASE StorePos(t)
    BY <2>3, LeaveControl DEF StorePos
  <2>4. CASE aesd_read(t)
    BY <2>4, LeaveControl, GotoControl DEF aesd_read, Labels
  <2>5. CASE WriteCopy(t)
    BY <2>5, LeaveControl, GotoControl DEF WriteCopy, Labels
  <2>6. CASE WriteReserve(t)
    BY <2>6, GotoControl DEF WriteReserve, Labels
  <2>7. CASE WriteReserveFails(t)
    BY <2>7, LeaveControl DEF WriteReserveFails, UnlockOnError
  <2>8. CASE WriteAppend(t)
    BY <2>8, GotoControl DEF WriteAppend, Labels
  <2>9. CASE aesd_llseek(t)
    BY <2>9, LeaveControl DEF aesd_llseek
  <2>10. CASE aesd_ioctl(t)
    BY <2>10, LeaveControl, GotoControl DEF aesd_ioctl, Labels
  <2>11. CASE aesd_adjust_file_offset(t)
    BY <2>11, LeaveControl DEF aesd_adjust_file_offset
  <2> QED BY <1>9, <2>1, <2>2, <2>3, <2>4, <2>5, <2>6, <2>7, <2>8, <2>9, <2>10, <2>11 DEF Step
<1>10. CASE UNCHANGED vars
  BY <1>10 DEF vars, call, ControlInv, LockDiscipline
<1> QED BY <1>1, <1>2, <1>3, <1>4, <1>5, <1>6, <1>7, <1>8, <1>9, <1>10 DEF Next, SysCall

(***************************************************************************)
(* The mutex of aesd_dev is held exactly by the thread inside a critical   *)
(* section of main.c, whatever fails: mutual exclusion, and a release on   *)
(* every path.                                                             *)
(***************************************************************************)
THEOREM LockDisciplineHolds == Spec => []LockDiscipline
<1>1. ControlInv => LockDiscipline
  BY DEF ControlInv
<1> QED BY <1>1, InitControl, NextControl, PTL DEF Spec

-----------------------------------------------------------------------------
(***************************************************************************)
(* Memory.                                                                 *)
(***************************************************************************)

\* The labels of a write that owns a write_data.
WriteLabels == {"write_copy", "write_lock", "write_reserve", "write_append"}

\* Every block of memory is free or holds bytes.
HeapType == DOMAIN heap = Addr /\ \A a \in Addr : heap[a] = FREE \/ heap[a] \in Seq(Byte)

\* The types of the fields of struct aesd_dev.
DeviceType ==
  /\ buffer \in Buffer(Entry(Pointer))
  /\ write_buffer \in Pointer
  /\ write_buffer_size \in Nat

\* The types of what a thread keeps of its call.
CallType ==
  /\ pc \in [Thread -> Labels]
  /\ DOMAIN arg = Thread
  /\ write_data \in [Thread -> Pointer]

\* A call carries the arguments it was made with until it is over.
ArgInv ==
  \A t \in Thread :
    /\ pc[t] \in {"read_lock", "read"} => arg[t].count \in ReadCounts
    /\ pc[t] \in WriteLabels => arg[t].data \in Payload
    /\ pc[t] \in {"llseek_lock", "llseek"} => arg[t].seek \in Seeks
    /\ pc[t] \in {"ioctl", "ioctl_lock", "adjust"} => arg[t].seekto \in Seektos
    /\ pc[t] \in {"ioctl_lock", "adjust"} => arg[t].seekto.cmd = "AESDCHAR_IOCSEEKTO"

\* Only a write has a write_data, no two writes have the same block, the
\* block is as long as the user's data and, once copy_from_user has run,
\* holds them.
DataInv ==
  \A t \in Thread :
    /\ pc[t] \notin WriteLabels => write_data[t] = NULL
    /\ pc[t] \in WriteLabels =>
         /\ write_data[t] \in Addr \cup {ZERO_SIZE_PTR}
         /\ Block(write_data[t]) \in Seq(Byte)
         /\ Len(Block(write_data[t])) = Len(arg[t].data)
         /\ pc[t] # "write_copy" => Block(write_data[t]) = arg[t].data
    /\ \A u \in Thread : write_data[t] = write_data[u] /\ write_data[t] \in Addr => t = u

\* The slots of the circular buffer that are in use are the first ones until
\* the buffer is full, and all of them from then on.
BufferInv ==
  /\ Coherent(buffer)
  /\ ~buffer.full => buffer.out_offs = 0
  /\ \A i \in Slots : buffer.entry[i] = ZeroEntry <=> ~buffer.full /\ i >= buffer.in_offs

\* The block of an entry is allocated and long enough for the entry, and is
\* neither another entry's nor some write's write_data.
EntryInv ==
  loaded =>
    \A i \in Slots :
      LET p == buffer.entry[i].buffptr
      IN  buffer.entry[i] # ZeroEntry =>
            /\ p \in Addr /\ heap[p] \in Seq(Byte) /\ buffer.entry[i].size \in 1 .. Len(heap[p])
            /\ \A j \in Slots : buffer.entry[j].buffptr = p => i = j
            /\ \A t \in Thread : write_data[t] # p

\* While a command is unfinished its write_buffer is allocated, holds
\* write_buffer_size bytes, and is neither an entry's nor a write_data.
PendingInv ==
  loaded /\ Pending /\ write_buffer \in Addr =>
    /\ heap[write_buffer] \in Seq(Byte)
    /\ write_buffer_size <= Len(heap[write_buffer])
    /\ \A i \in Slots : buffer.entry[i].buffptr # write_buffer
    /\ \A t \in Thread : write_data[t] # write_buffer

\* Once room was made, write_buffer has it: the append cannot overrun the
\* block, and a block that was allocated is about to get or has some bytes.
AppendInv ==
  \A t \in Thread :
    pc[t] = "write_append" =>
      /\ write_buffer_size + append_index(t) <= Len(Block(write_buffer))
      /\ write_buffer \in Addr => write_buffer_size > 0 \/ Block(write_data[t]) # << >>

\* Memory and what points into it.
MemInv ==
  /\ HeapType /\ DeviceType /\ CallType
  /\ DataInv /\ BufferInv /\ EntryInv /\ PendingInv /\ AppendInv

\* The steps that leave memory alone: calls start, get the mutex, read, seek and end.
CallEffect ==
  /\ UNCHANGED <<loaded, buffer, write_buffer, write_buffer_size, buff_size, heap, write_data>>
  /\ CallType'
  /\ \A u \in Thread :
       \/ pc[u] \notin WriteLabels /\ pc'[u] \notin WriteLabels
       \/ /\ arg'[u] = arg[u]
          /\ pc[u] \in WriteLabels /\ pc'[u] \in WriteLabels
          /\ pc[u] = "write_append" <=> pc'[u] = "write_append"
          /\ pc'[u] # "write_copy" => pc[u] # "write_copy"

\* The steps in which thread t gets, fills, loses or frees its write_data, p.
DataEffect(t, p) ==
  /\ HeapType' /\ CallType'
  /\ UNCHANGED <<loaded, buffer, write_buffer_size, buff_size>>
  /\ write_buffer' = write_buffer \/ WriteReserveFails(t)
  /\ \A u \in Thread \ {t} : pc'[u] = pc[u] /\ arg'[u] = arg[u] /\ write_data'[u] = write_data[u]
  /\ pc[t] # "write_append" /\ pc'[t] # "write_append"
  /\ \A a \in Addr : a # p => heap'[a] = heap[a]
  /\ p \in Addr => heap[p] = FREE \/ p = write_data[t]
  /\ write_data'[t] \in Addr => write_data'[t] = p
  /\ \/ pc'[t] \notin WriteLabels /\ write_data'[t] = NULL
     \/ /\ pc'[t] \in WriteLabels
        /\ write_data'[t] \in Addr \cup {ZERO_SIZE_PTR}
        /\ (Block(write_data[t]))' \in Seq(Byte)
        /\ Len((Block(write_data[t]))') = Len(arg'[t].data)
        /\ pc'[t] # "write_copy" => (Block(write_data[t]))' = arg'[t].data
  /\ write_data[t] \in Addr /\ write_data'[t] # write_data[t] =>
       heap'[write_data[t]] = FREE \/ LostByInterrupt(write_data[t])

\* Room is made for t's bytes: the block behind write_buffer now holds x.
ReserveEffect(t, x) ==
  /\ pc[t] = "write_reserve" /\ Goto(t, "write_append")
  /\ UNCHANGED <<loaded, buffer, write_buffer_size, buff_size, arg, write_data>>
  /\ x \in Seq(Byte)
  /\ write_buffer' \in Addr \/ (write_buffer' = ZERO_SIZE_PTR /\ Len(x) = 0)
  /\ write_buffer' \in Addr =>
       /\ heap[write_buffer'] = FREE \/ (write_buffer_size > 0 /\ write_buffer' = write_buffer)
       /\ write_buffer_size > 0 \/ Block(write_data[t]) # << >>
  /\ DOMAIN heap' = Addr
  /\ \A a \in Addr : heap'[a] = IF a = write_buffer' THEN x
                                ELSE IF write_buffer_size > 0 /\ a = write_buffer THEN FREE
                                ELSE heap[a]
  /\ write_buffer_size + append_index(t) <= Len(x)
  /\ write_buffer_size > 0 =>
       \A i \in 1 .. write_buffer_size : i <= Len(Block(write_buffer)) => x[i] = Block(write_buffer)[i]

\* The block of the entry that a command's completion evicts.
Evicted(t) ==
  IF newline_found(t) /\ buffer.full THEN buffer.entry[buffer.in_offs].buffptr ELSE NULL

\* t's bytes are appended: the block behind write_buffer now holds x.
AppendEffect(t, x) ==
  /\ pc[t] = "write_append"
  /\ UNCHANGED <<loaded, write_buffer, arg>>
  /\ CallType' /\ pc'[t] = "return" /\ write_data'[t] = NULL
  /\ \A u \in Thread \ {t} : pc'[u] = pc[u] /\ write_data'[u] = write_data[u]
  /\ x \in Seq(Byte) /\ Len(x) = Len(Block(write_buffer))
  /\ \A i \in 1 .. Len(x) :
       x[i] = IF i \in write_buffer_size + 1 .. write_buffer_size + append_index(t)
              THEN Block(write_data[t])[i - write_buffer_size]
              ELSE Block(write_buffer)[i]
  /\ DOMAIN heap' = Addr
  /\ \A a \in Addr : heap'[a] = IF a = write_data[t] \/ a = Evicted(t) THEN FREE
                                ELSE IF a = write_buffer THEN x ELSE heap[a]
  /\ LET n == write_buffer_size + append_index(t)
     IN  IF newline_found(t)
         THEN /\ buffer' = aesd_circular_buffer_add_entry(buffer, [buffptr |-> write_buffer, size |-> n])
              /\ write_buffer_size' = 0 /\ buff_size' = buff_size + n
         ELSE UNCHANGED <<buffer, buff_size>> /\ write_buffer_size' = n

\* The byte strings programs write do not hold the marker of unwritten memory.
LEMMA PayloadType ==
  \A d \in Payload : d \in Seq(Byte) /\ Len(d) \in Nat /\ \A i \in 1 .. Len(d) : d[i] # Junk
<1>. SUFFICES ASSUME NEW d \in Payload PROVE d \in Seq(Byte) /\ Len(d) \in Nat /\ \A i \in 1 .. Len(d) : d[i] # Junk
  OBVIOUS
<1>1. d \in Seq(Byte \ {Junk})
  BY DriverAssumption
<1>. QED  BY <1>1, SeqMonotonic

\* What of a write is accepted: a prefix, up to the first newline if any.
LEMMA AcceptedIs ==
  ASSUME NEW d \in Seq(Byte)
  PROVE  /\ Accepted(d) \in Seq(Byte) /\ Len(Accepted(d)) \in 0 .. Len(d)
         /\ \A i \in 1 .. Len(Accepted(d)) : Accepted(d)[i] = d[i]
         /\ Contains(d, NewLine) =>
              /\ Len(Accepted(d)) >= 1
              /\ Len(Accepted(d)) = SelectInSeq(d, LAMBDA c : c = NewLine)
         /\ ~Contains(d, NewLine) => Accepted(d) = d
<1>1. CASE ~Contains(d, NewLine)
  BY <1>1 DEF Accepted
<1>2. CASE Contains(d, NewLine)
  <2>. DEFINE I == {i \in 1 .. Len(d) : d[i] = NewLine}
              k == Min(I)
  <2>1. I # {} /\ I \in SUBSET Nat
    BY <1>2 DEF Contains
  <2>2. SelectInSeq(d, LAMBDA c : c = NewLine) = k
    BY <2>1 DEF SelectInSeq
  <2>3. k \in I
    <3>. HIDE DEF I
    <3>. QED  BY <2>1, MinIs
  <2>. HIDE DEF k
  <2>4. k \in 1 .. Len(d)
    BY <2>3
  <2>5. Accepted(d) = SubSeq(d, 1, k)
    BY <1>2, <2>2 DEF Accepted
  <2>6. /\ SubSeq(d, 1, k) \in Seq(Byte) /\ Len(SubSeq(d, 1, k)) = k
        /\ \A i \in 1 .. k : SubSeq(d, 1, k)[i] = d[i]
    BY <2>4, SubSeqProperties
  <2>. QED  BY <1>2, <2>2, <2>4, <2>5, <2>6
<1>. QED  BY <1>1, <1>2

\* append_index as a function of the bytes written.
AppendLen(d) ==
  IF Contains(d, NewLine) THEN SelectInSeq(d, LAMBDA c : c = NewLine) ELSE Len(d)

\* append_index and newline_found only look at the block of write_data.
LEMMA AppendIndexIs ==
  \A t : /\ append_index(t) = AppendLen(Block(write_data[t]))
         /\ append_index(t)' = AppendLen(Block(write_data[t])')
         /\ newline_found(t) <=> Contains(Block(write_data[t]), NewLine)
  BY DEF append_index, newline_found, AppendLen, SelectInSeq, Block

\* append_index never exceeds count and is positive after a newline.
LEMMA AppendLenIs ==
  ASSUME NEW d \in Seq(Byte)
  PROVE  /\ AppendLen(d) = Len(Accepted(d))
         /\ AppendLen(d) \in 0 .. Len(d)
         /\ Contains(d, NewLine) => AppendLen(d) >= 1
  BY AcceptedIs DEF AppendLen

\* kmalloc returns a block nobody has, or ZERO_SIZE_PTR for no bytes.
LEMMA KmallocFresh ==
  ASSUME MemoryLeft, NEW n \in Nat
  PROVE  /\ n = 0 => kmalloc(n) = ZERO_SIZE_PTR
         /\ n # 0 => kmalloc(n) \in Addr /\ heap[kmalloc(n)] = FREE
  BY DEF MemoryLeft, kmalloc

\* A new block is a byte string of the length asked for.
LEMMA JunkBytesType ==
  ASSUME NEW n \in Nat
  PROVE  JunkBytes(n) \in Seq(Byte) /\ Len(JunkBytes(n)) = n
  BY DriverAssumption, IsASeq, LenProperties DEF JunkBytes

\* A block that krealloc has grown is a byte string of the new length.
LEMMA GrownType ==
  ASSUME NEW p, Block(p) \in Seq(Byte), NEW n \in Nat
  PROVE  Grown(p, n) \in Seq(Byte) /\ Len(Grown(p, n)) = n
<1>1. \A i \in 1 .. n : (IF i <= Len(Block(p)) THEN Block(p)[i] ELSE Junk) \in Byte
  BY DriverAssumption
<1>. DEFINE x == [i \in 1 .. n |-> IF i <= Len(Block(p)) THEN Block(p)[i] ELSE Junk]
<1>2. x \in [1 .. n -> Byte]
  BY <1>1
<1>3. Grown(p, n) = x
  BY DEF Grown
<1>. HIDE DEF x
<1>. QED  BY <1>2, <1>3, SeqDef, LenProperties

\* Writing to a block changes that block only.
LEMMA PutIs ==
  ASSUME NEW h, DOMAIN h = Addr, NEW p, NEW x
  PROVE  /\ DOMAIN Put(h, p, x) = Addr
         /\ \A a \in Addr : Put(h, p, x)[a] = IF a = p THEN x ELSE h[a]
  BY DEF Put

\* kfree frees that block only.
LEMMA KfreeIs ==
  ASSUME NEW h, DOMAIN h = Addr, NEW p
  PROVE  /\ DOMAIN Kfree(h, p) = Addr
         /\ \A a \in Addr : Kfree(h, p)[a] = IF a = p THEN FREE ELSE h[a]
  BY DEF Kfree

\* A thread inside a critical section is alone there, in a loaded module.
LEMMA HolderAlone ==
  ASSUME ControlInv, NEW t \in Thread, pc[t] \in Holding
  PROVE  loaded /\ \A u \in Thread \ {t} : pc[u] \notin Holding
<1>1. pc[t] # "idle"
  BY LockedLabels
<1>. QED  BY <1>1 DEF ControlInv, LockDiscipline

\* add_entry overwrites the slot at in_offs and fills the slots in order.
LEMMA AddEntryFills ==
  ASSUME NEW S, NEW b \in Buffer(S), NEW e \in S, e # ZeroEntry,
         Coherent(b), ~b.full => b.out_offs = 0,
         \A i \in Slots : b.entry[i] = ZeroEntry <=> ~b.full /\ i >= b.in_offs
  PROVE  LET c == aesd_circular_buffer_add_entry(b, e)
         IN  /\ c \in Buffer(S) /\ Coherent(c)
             /\ ~c.full => c.out_offs = 0
             /\ \A i \in Slots : c.entry[i] = ZeroEntry <=> ~c.full /\ i >= c.in_offs
             /\ \A i \in Slots : c.entry[i] = IF i = b.in_offs THEN e ELSE b.entry[i]
<1>. DEFINE c == aesd_circular_buffer_add_entry(b, e)
<1>1. c \in Buffer(S) /\ Coherent(c)
  BY AddEntryType
<1>2. /\ N \in Nat \ {0}
      /\ b.in_offs \in 0 .. N - 1 /\ b.out_offs \in 0 .. N - 1
      /\ b.in_offs \in Slots
      /\ b.entry \in [Slots -> S]
      /\ b.full \in BOOLEAN
  BY BufferFields
<1>3. (b.in_offs + 1) % N = IF b.in_offs + 1 < N THEN b.in_offs + 1 ELSE 0
  <2>1. b.in_offs + 1 \in 0 .. 2 * N - 1
    BY <1>2
  <2>. QED  BY <1>2, <2>1, WrapOnce
<1>4. /\ c.in_offs = IF b.in_offs + 1 < N THEN b.in_offs + 1 ELSE 0
      /\ c.out_offs = IF b.full THEN c.in_offs ELSE b.out_offs
      /\ c.full = (c.in_offs = c.out_offs)
      /\ c.entry = [b.entry EXCEPT ![b.in_offs] = e]
  BY <1>3 DEF aesd_circular_buffer_add_entry
<1>. HIDE DEF c
<1>5. \A i \in Slots : c.entry[i] = IF i = b.in_offs THEN e ELSE b.entry[i]
  BY <1>2, <1>4
<1>6. ~c.full => c.out_offs = 0
  BY <1>2, <1>4
<1>7. \A i \in Slots : c.entry[i] = ZeroEntry <=> ~c.full /\ i >= c.in_offs
  <2>. TAKE i \in Slots
  <2>1. i \in 0 .. N - 1
    BY DEF Slots
  <2>2. CASE b.full
    BY <1>2, <1>4, <1>5, <2>1, <2>2
  <2>3. CASE ~b.full
    <3>1. c.entry[i] = ZeroEntry <=> i > b.in_offs
      <4>1. CASE i = b.in_offs
        BY <1>2, <1>5, <4>1
      <4>2. CASE i # b.in_offs
        BY <1>2, <1>5, <2>1, <2>3, <4>2
      <4>. QED  BY <4>1, <4>2
    <3>2. CASE b.in_offs + 1 < N
      <4>1. ~c.full /\ c.in_offs = b.in_offs + 1
        BY <1>2, <1>4, <2>3, <3>2
      <4>. QED  BY <1>2, <2>1, <3>1, <4>1
    <3>3. CASE b.in_offs + 1 = N
      <4>1. c.full
        <5>1. c.in_offs = 0 /\ c.out_offs = 0
          BY <1>2, <1>4, <2>3, <3>3
        <5>. QED  BY <1>4, <5>1
      <4>. QED  BY <1>2, <2>1, <3>1, <3>3, <4>1
    <3>. QED  BY <1>2, <3>2, <3>3
  <2>. QED  BY <1>2, <2>2, <2>3
<1>. QED  BY <1>1, <1>5, <1>6, <1>7 DEF c

\* What memcpy(write_buffer + write_buffer_size, write_data, append_index) does.
LEMMA AppendedIs ==
  ASSUME ControlInv, MemInv, NEW t \in Thread, pc[t] = "write_append"
  PROVE  \E x \in Seq(Byte) :
           /\ Len(x) = Len(Block(write_buffer))
           /\ DOMAIN Appended(heap, t) = Addr
           /\ \A a \in Addr : Appended(heap, t)[a] = IF a = write_buffer THEN x ELSE heap[a]
           /\ \A i \in 1 .. Len(x) :
                x[i] = IF i \in write_buffer_size + 1 .. write_buffer_size + append_index(t)
                       THEN Block(write_data[t])[i - write_buffer_size]
                       ELSE Block(write_buffer)[i]
<1>. DEFINE d == Block(write_data[t])
            c == Block(write_buffer)
            x == [i \in DOMAIN c |->
                    IF i \in write_buffer_size + 1 .. write_buffer_size + append_index(t)
                    THEN d[i - write_buffer_size] ELSE c[i]]
<1>1. d \in Seq(Byte)
  BY DEF MemInv, DataInv, WriteLabels
<1>2. append_index(t) \in 0 .. Len(d) /\ write_buffer_size \in Nat
  BY <1>1, AppendIndexIs, AppendLenIs DEF MemInv, DeviceType
<1>3. c \in Seq(Byte)
  <2>1. CASE write_buffer \in Addr
    <3>1. Pending /\ loaded
      BY HolderAlone, LockedLabels DEF Pending, Appending
    <3>. QED  BY <2>1, <3>1 DEF Block, MemInv, PendingInv
  <2>2. CASE write_buffer \notin Addr
    BY <2>2 DEF Block
  <2>. QED  BY <2>1, <2>2
<1>4. Appended(heap, t) = Put(heap, write_buffer, x) /\ DOMAIN heap = Addr
  BY DEF Appended, MemInv, HeapType
<1>. HIDE DEF c, d
<1>5. DOMAIN c = 1 .. Len(c) /\ Len(c) \in Nat /\ Len(d) \in Nat
  BY <1>1, <1>3
<1>6. \A i \in 1 .. Len(c) : x[i] \in Byte
  <2>. SUFFICES ASSUME NEW i \in 1 .. Len(c)
                PROVE  (IF i \in write_buffer_size + 1 .. write_buffer_size + append_index(t)
                        THEN d[i - write_buffer_size] ELSE c[i]) \in Byte
    BY <1>5
  <2>1. CASE i \in write_buffer_size + 1 .. write_buffer_size + append_index(t)
    <3>1. i - write_buffer_size \in 1 .. Len(d)
      BY <1>2, <1>5, <2>1
    <3>. QED  BY <1>1, <2>1, <3>1
  <2>2. CASE i \notin write_buffer_size + 1 .. write_buffer_size + append_index(t)
    BY <1>3, <2>2
  <2>. QED  BY <2>1, <2>2
<1>7. x \in [1 .. Len(c) -> Byte]
  BY <1>5, <1>6
<1>8. \A i \in 1 .. Len(c) :
        x[i] = IF i \in write_buffer_size + 1 .. write_buffer_size + append_index(t)
               THEN d[i - write_buffer_size] ELSE c[i]
  BY <1>5
<1>. HIDE DEF x
<1>9. x \in Seq(Byte) /\ Len(x) = Len(c)
  BY <1>5, <1>7, SeqDef, LenProperties
<1>10. /\ DOMAIN Appended(heap, t) = Addr
       /\ \A a \in Addr : Appended(heap, t)[a] = IF a = write_buffer THEN x ELSE heap[a]
  BY <1>4, PutIs
<1>. QED  BY <1>8, <1>9, <1>10 DEF c, d

\* A step that leaves memory alone preserves the memory invariant.
LEMMA CallEffectMem ==
  ASSUME MemInv, CallEffect
  PROVE  MemInv'
<1>1. HeapType' /\ DeviceType' /\ BufferInv' /\ EntryInv'
  BY DEF CallEffect, MemInv, HeapType, DeviceType, BufferInv, EntryInv, Coherent
<1>2. \A p : Block(p)' = Block(p)
  BY DEF CallEffect, Block
<1>3. DataInv'
  BY <1>2 DEF CallEffect, MemInv, DataInv
<1>4. \A u \in Thread : pc[u] = "write_append" <=> pc'[u] = "write_append"
  BY DEF CallEffect, WriteLabels
<1>5. Pending' <=> Pending
  BY <1>4 DEF CallEffect, Pending, Appending
<1>6. PendingInv'
  BY <1>5 DEF CallEffect, MemInv, PendingInv
<1>7. \A u \in Thread : append_index(u)' = append_index(u)
  BY <1>2, AppendIndexIs DEF CallEffect
<1>8. AppendInv'
  BY <1>2, <1>4, <1>7 DEF CallEffect, MemInv, AppendInv
<1>. QED  BY <1>1, <1>3, <1>6, <1>8 DEF CallEffect, MemInv

\* So does a step that only changes a write's write_data,
LEMMA DataEffectMem ==
  ASSUME ControlInv, MemInv, NEW t \in Thread, NEW p, DataEffect(t, p)
  PROVE  MemInv'
<1>. USE DriverAssumption
<1>. USE DEF DataEffect
<1>0. \/ write_buffer' = write_buffer
      \/ write_buffer' = NULL /\ \A u \in Thread : pc[u] # "write_append"
  <2>1. CASE WriteReserveFails(t)
    <3>1. pc[t] = "write_reserve" /\ write_buffer' = NULL
      BY <2>1 DEF WriteReserveFails
    <3>. QED  BY <3>1, HolderAlone, LockedLabels
  <2>. QED  BY <2>1
<1>1. \A u \in Thread \ {t} : write_data[u] \in Addr => write_data[u] # p
  <2>. SUFFICES ASSUME NEW u \in Thread \ {t}, write_data[u] \in Addr, write_data[u] = p
                PROVE  FALSE
    OBVIOUS
  <2>1. Block(write_data[u]) \in Seq(Byte) /\ Block(write_data[u]) = heap[p]
    BY DEF MemInv, DataInv, Block
  <2>2. p = write_data[t]
    BY <2>1
  <2>. QED  BY <2>2 DEF MemInv, DataInv
<1>2. ASSUME loaded, NEW i \in Slots, buffer.entry[i] # ZeroEntry
      PROVE  buffer.entry[i].buffptr \in Addr /\ buffer.entry[i].buffptr # p
  BY <1>2 DEF MemInv, EntryInv
<1>3. loaded /\ Pending /\ write_buffer \in Addr => write_buffer # p
  BY DEF MemInv, PendingInv
<1>4. \A u \in Thread \ {t} : (Block(write_data[u]))' = Block(write_data[u])
  BY <1>1 DEF Block
<1>5. DeviceType' /\ BufferInv'
  BY <1>0 DEF MemInv, DeviceType, BufferInv, Coherent, Pointer
<1>6. DataInv'
  <2>1. ASSUME NEW u \in Thread
        PROVE  /\ pc'[u] \notin WriteLabels => write_data'[u] = NULL
               /\ pc'[u] \in WriteLabels =>
                     /\ write_data'[u] \in Addr \cup {ZERO_SIZE_PTR}
                     /\ (Block(write_data[u]))' \in Seq(Byte)
                     /\ Len((Block(write_data[u]))') = Len(arg'[u].data)
                     /\ pc'[u] # "write_copy" => (Block(write_data[u]))' = arg'[u].data
    <3>1. CASE u = t
      BY <3>1
    <3>2. CASE u # t
      BY <3>2, <1>4 DEF MemInv, DataInv
    <3>. QED  BY <3>1, <3>2
  <2>2. ASSUME NEW u \in Thread, NEW v \in Thread, write_data'[u] = write_data'[v], write_data'[u] \in Addr
        PROVE  u = v
    BY <1>1, <2>2 DEF MemInv, DataInv
  <2>. QED  BY <2>1, <2>2 DEF DataInv
<1>7. EntryInv'
  BY <1>2 DEF MemInv, EntryInv
<1>8. Pending' <=> Pending
  BY DEF Pending, Appending
<1>9. PendingInv'
  BY <1>0, <1>3, <1>8 DEF MemInv, PendingInv
<1>10. AppendInv'
  <2>. SUFFICES ASSUME NEW u \in Thread, pc'[u] = "write_append"
                PROVE  /\ write_buffer_size + append_index(u)' <= Len((Block(write_buffer))')
                       /\ write_buffer' \in Addr => write_buffer_size > 0 \/ (Block(write_data[u]))' # << >>
    BY DEF AppendInv
  <2>1. u # t /\ pc[u] = "write_append" /\ write_buffer' = write_buffer
    BY <1>0
  <2>2. append_index(u)' = append_index(u)
    BY <1>4, <2>1, AppendIndexIs
  <2>3. (Block(write_buffer))' = Block(write_buffer)
    <3>1. Pending
      BY <2>1 DEF Pending, Appending
    <3>2. CASE loaded
      BY <1>3, <2>1, <3>1, <3>2 DEF Block
    <3>3. loaded
      BY <2>1 DEF ControlInv
    <3>. QED  BY <3>2, <3>3
  <2>. QED  BY <1>4, <2>1, <2>2, <2>3 DEF MemInv, AppendInv
<1>. QED  BY <1>5, <1>6, <1>7, <1>9, <1>10 DEF MemInv

\* a step that makes room for a write in write_buffer,
LEMMA ReserveEffectMem ==
  ASSUME ControlInv, MemInv, NEW t \in Thread, NEW x, ReserveEffect(t, x)
  PROVE  MemInv'
<1>. USE DriverAssumption DEF ReserveEffect
<1>. DEFINE w == write_buffer'
<1>1. loaded /\ \A u \in Thread \ {t} : pc[u] # "write_append"
  BY HolderAlone, LockedLabels
<1>2. write_buffer_size > 0 => Pending
  BY DEF Pending
<1>. DEFINE touched(a) == a = w \/ (write_buffer_size > 0 /\ a = write_buffer)
<1>3. \A u \in Thread : write_data[u] \in Addr => ~touched(write_data[u])
  <2>. SUFFICES ASSUME NEW u \in Thread, write_data[u] \in Addr PROVE ~touched(write_data[u])
    OBVIOUS
  <2>1. heap[write_data[u]] \in Seq(Byte)
    BY DEF MemInv, DataInv, Block
  <2>2. write_buffer_size > 0 => write_data[u] # write_buffer
    BY <1>1, <1>2 DEF MemInv, PendingInv
  <2>. QED  BY <2>1, <2>2
<1>4. ASSUME NEW i \in Slots, buffer.entry[i] # ZeroEntry
      PROVE  buffer.entry[i].buffptr \in Addr /\ ~touched(buffer.entry[i].buffptr)
  <2>1. buffer.entry[i].buffptr \in Addr /\ heap[buffer.entry[i].buffptr] \in Seq(Byte)
    BY <1>1, <1>4 DEF MemInv, EntryInv
  <2>2. write_buffer_size > 0 => buffer.entry[i].buffptr # write_buffer
    BY <1>1, <1>2, <2>1 DEF MemInv, PendingInv
  <2>. QED  BY <2>1, <2>2
<1>5. \A u \in Thread : (Block(write_data[u]))' = Block(write_data[u])
  BY <1>3 DEF Block
<1>6. /\ CallType' /\ pc'[t] = "write_append"
      /\ \A u \in Thread \ {t} : pc'[u] = pc[u]
  BY LockedLabels DEF MemInv, CallType, Goto, Labels
<1>7. DeviceType' /\ BufferInv' /\ HeapType'
  BY DEF MemInv, DeviceType, BufferInv, Coherent, Pointer, HeapType
<1>8. DataInv'
  <2>1. \A u \in Thread : /\ pc[u] \in WriteLabels <=> pc'[u] \in WriteLabels
                          /\ pc'[u] # "write_copy" => pc[u] # "write_copy"
    BY <1>6 DEF WriteLabels
  <2>. QED  BY <1>5, <2>1 DEF MemInv, DataInv
<1>9. EntryInv'
  BY <1>4 DEF MemInv, EntryInv
<1>10. PendingInv'
  <2>. SUFFICES ASSUME w \in Addr
                PROVE  /\ heap'[w] \in Seq(Byte)
                       /\ write_buffer_size <= Len(heap'[w])
                       /\ \A i \in Slots : buffer.entry[i].buffptr # w
                       /\ \A u \in Thread : write_data[u] # w
    BY DEF PendingInv
  <2>1. append_index(t) \in Nat
    <3>1. Block(write_data[t]) \in Seq(Byte)
      BY DEF MemInv, DataInv, WriteLabels
    <3>. QED  BY <3>1, AppendIndexIs, AppendLenIs
  <2>2. heap'[w] = x
    OBVIOUS
  <2>3. write_buffer_size <= Len(x)
    BY <2>1 DEF MemInv, DeviceType
  <2>4. \A i \in Slots : buffer.entry[i].buffptr # w
    BY <1>4 DEF ZeroEntry
  <2>. QED  BY <1>3, <2>2, <2>3, <2>4
<1>11. AppendInv'
  <2>. SUFFICES /\ write_buffer_size + append_index(t)' <= Len((Block(write_buffer))')
                /\ write_buffer' \in Addr => write_buffer_size > 0 \/ (Block(write_data[t]))' # << >>
    BY <1>1, <1>6 DEF AppendInv
  <2>1. append_index(t)' = append_index(t)
    BY <1>5, AppendIndexIs
  <2>2. Len((Block(write_buffer))') = Len(x)
    BY DEF Block
  <2>. QED  BY <1>5, <2>1, <2>2
<1>. QED  BY <1>6, <1>7, <1>8, <1>9, <1>10, <1>11 DEF MemInv

\* The evicted block belongs to the entry at in_offs.
LEMMA EvictedIs ==
  ASSUME MemInv, loaded, NEW t \in Thread, Evicted(t) # NULL
  PROVE  /\ newline_found(t) /\ buffer.full /\ buffer.in_offs \in Slots
         /\ Evicted(t) \in Addr /\ buffer.entry[buffer.in_offs].buffptr = Evicted(t)
         /\ buffer.entry[buffer.in_offs] # ZeroEntry
<1>1. newline_found(t) /\ buffer.full /\ buffer.in_offs \in Slots
      /\ buffer.entry[buffer.in_offs].buffptr = Evicted(t)
  BY BufferFields DEF MemInv, DeviceType, Evicted
<1>2. buffer.entry[buffer.in_offs] # ZeroEntry
  BY <1>1 DEF MemInv, BufferInv
<1>. QED  BY <1>1, <1>2 DEF MemInv, EntryInv

\* and a step that appends to write_buffer and perhaps completes a command.
LEMMA AppendEffectMem ==
  ASSUME ControlInv, MemInv, NEW t \in Thread, NEW x, AppendEffect(t, x)
  PROVE  MemInv'
<1>. USE DriverAssumption
<1>. DEFINE n == write_buffer_size + append_index(t)
            old == Evicted(t)
<1>1. pc[t] = "write_append" /\ UNCHANGED <<loaded, write_buffer, arg>>
  BY DEF AppendEffect
<1>2. loaded /\ \A u \in Thread \ {t} : pc[u] # "write_append"
  BY <1>1, HolderAlone, LockedLabels
<1>3. append_index(t) \in Nat /\ write_buffer_size \in Nat
      /\ (newline_found(t) => append_index(t) >= 1)
  <2>1. Block(write_data[t]) \in Seq(Byte)
    BY <1>1 DEF MemInv, DataInv, WriteLabels
  <2>. QED  BY <2>1, AppendIndexIs, AppendLenIs DEF MemInv, DeviceType
<1>4. x \in Seq(Byte) /\ Len(x) = Len(Block(write_buffer))
  BY DEF AppendEffect
<1>5. n \in Nat /\ n <= Len(x)
  BY <1>1, <1>3, <1>4 DEF MemInv, AppendInv
<1>6. /\ CallType' /\ pc'[t] = "return" /\ write_data'[t] = NULL
      /\ \A u \in Thread \ {t} : pc'[u] = pc[u] /\ write_data'[u] = write_data[u]
  BY DEF AppendEffect
<1>7. Pending
  BY <1>1 DEF Pending, Appending
<1>8. write_buffer \in Addr =>
         /\ \A i \in Slots : buffer.entry[i].buffptr # write_buffer
         /\ \A u \in Thread : write_data[u] # write_buffer
  BY <1>2, <1>7 DEF MemInv, PendingInv
<1>9. ~Appending'
  BY <1>2, <1>6 DEF Appending
<1>11. DOMAIN heap' = Addr /\ \A a \in Addr :
         heap'[a] = IF a = write_data[t] \/ a = old THEN FREE
                    ELSE IF a = write_buffer THEN x ELSE heap[a]
  BY DEF AppendEffect
<1>10. AppendInv'
  BY <1>2, <1>6 DEF AppendInv
<1>12. HeapType'
  BY <1>4, <1>11 DEF MemInv, HeapType
<1>13. old # NULL => old \in Addr /\ buffer.in_offs \in Slots /\ buffer.entry[buffer.in_offs].buffptr = old
                     /\ buffer.entry[buffer.in_offs] # ZeroEntry
  BY <1>2, EvictedIs
<1>. HIDE DEF old
<1>14. DataInv'
  <2>1. ASSUME NEW u \in Thread \ {t}, write_data[u] \in Addr
        PROVE  heap'[write_data[u]] = heap[write_data[u]]
    <3>1. write_data[u] # write_data[t]
      BY <2>1 DEF MemInv, DataInv
    <3>2. write_data[u] # write_buffer
      BY <1>8, <2>1
    <3>3. write_data[u] # old
      BY <1>2, <1>13, <2>1 DEF MemInv, EntryInv
    <3>. QED  BY <1>11, <2>1, <3>1, <3>2, <3>3
  <2>2. \A u \in Thread \ {t} : (Block(write_data[u]))' = Block(write_data[u])
    BY <1>6, <2>1 DEF Block
  <2>3. "return" \notin WriteLabels
    BY DEF WriteLabels
  <2>. QED  BY <1>1, <1>6, <2>2, <2>3 DEF MemInv, DataInv
<1>15. CASE ~newline_found(t)
  <2>1. UNCHANGED buffer /\ write_buffer_size' = n /\ old = NULL
    BY <1>15 DEF AppendEffect, Evicted, old
  <2>2. DeviceType' /\ BufferInv'
    BY <1>1, <1>5, <2>1 DEF MemInv, DeviceType, BufferInv, Coherent
  <2>3. EntryInv'
    <3>. SUFFICES ASSUME NEW i \in Slots, buffer.entry[i] # ZeroEntry
                  PROVE  LET p == buffer.entry[i].buffptr
                         IN  /\ p \in Addr /\ heap'[p] \in Seq(Byte) /\ buffer.entry[i].size \in 1 .. Len(heap'[p])
                             /\ \A j \in Slots : buffer.entry[j].buffptr = p => i = j
                             /\ \A u \in Thread : write_data'[u] # p
      BY <2>1 DEF EntryInv
    <3>. DEFINE p == buffer.entry[i].buffptr
    <3>1. /\ p \in Addr /\ heap[p] \in Seq(Byte) /\ buffer.entry[i].size \in 1 .. Len(heap[p])
          /\ \A j \in Slots : buffer.entry[j].buffptr = p => i = j
          /\ \A u \in Thread : write_data[u] # p
      BY <1>2 DEF MemInv, EntryInv
    <3>2. heap'[p] = heap[p]
      BY <1>8, <1>11, <2>1, <3>1
    <3>. QED  BY <1>6, <3>1, <3>2
  <2>4. PendingInv'
    <3>. SUFFICES ASSUME write_buffer \in Addr
                  PROVE  /\ heap'[write_buffer] \in Seq(Byte)
                         /\ n <= Len(heap'[write_buffer])
                         /\ \A i \in Slots : buffer.entry[i].buffptr # write_buffer
                         /\ \A u \in Thread : write_data'[u] # write_buffer
      BY <1>1, <2>1 DEF PendingInv
    <3>1. heap'[write_buffer] = x
      BY <1>1, <1>8, <1>11, <2>1
    <3>. QED  BY <1>4, <1>5, <1>6, <1>8, <3>1
  <2>. QED  BY <1>6, <1>10, <1>12, <1>14, <2>2, <2>3, <2>4 DEF MemInv
<1>16. CASE newline_found(t)
  <2>. DEFINE e == [buffptr |-> write_buffer, size |-> n]
  <2>1. buffer' = aesd_circular_buffer_add_entry(buffer, e) /\ write_buffer_size' = 0
    BY <1>16 DEF AppendEffect
  <2>2. write_buffer \in Addr /\ n \in 1 .. Len(x)
    <3>1. n \in 1 .. Len(x)
      BY <1>3, <1>5, <1>16
    <3>. QED  BY <1>4, <3>1 DEF Block
  <2>3. e \in Entry(Pointer) /\ e # ZeroEntry
    BY <1>5, <2>2 DEF Entry, Pointer, ZeroEntry
  <2>. HIDE DEF n
  <2>4. /\ DeviceType' /\ BufferInv'
        /\ \A i \in Slots : buffer'.entry[i] = IF i = buffer.in_offs THEN e ELSE buffer.entry[i]
    BY <1>1, <2>1, <2>2, <2>3, AddEntryFills DEF MemInv, DeviceType, BufferInv
  <2>5. ~Pending'
    BY <1>9, <2>1 DEF Pending
  <2>6. PendingInv'
    BY <2>5 DEF PendingInv
  <2>7. heap'[write_buffer] = x
    <3>1. write_buffer # write_data[t] /\ write_buffer # old
      BY <1>8, <1>13, <2>2
    <3>. QED  BY <1>11, <2>2, <3>1
  <2>8. ASSUME NEW i \in Slots, i # buffer.in_offs, buffer.entry[i] # ZeroEntry
        PROVE  LET p == buffer.entry[i].buffptr
               IN  /\ p \in Addr /\ heap'[p] \in Seq(Byte) /\ buffer.entry[i].size \in 1 .. Len(heap'[p])
                   /\ \A j \in Slots : buffer.entry[j].buffptr = p => i = j
                   /\ \A u \in Thread : write_data[u] # p
                   /\ p # write_buffer
    <3>. DEFINE p == buffer.entry[i].buffptr
    <3>1. /\ p \in Addr /\ heap[p] \in Seq(Byte) /\ buffer.entry[i].size \in 1 .. Len(heap[p])
          /\ \A j \in Slots : buffer.entry[j].buffptr = p => i = j
          /\ \A u \in Thread : write_data[u] # p
      BY <1>2, <2>8 DEF MemInv, EntryInv
    <3>2. p # old
      BY <1>13, <2>8, <3>1
    <3>3. p # write_buffer
      BY <1>8, <2>2
    <3>4. heap'[p] = heap[p]
      BY <1>11, <3>1, <3>2, <3>3
    <3>. QED  BY <3>1, <3>3, <3>4
  <2>9. EntryInv'
    <3>. SUFFICES ASSUME NEW i \in Slots, buffer'.entry[i] # ZeroEntry
                  PROVE  LET p == buffer'.entry[i].buffptr
                         IN  /\ p \in Addr /\ heap'[p] \in Seq(Byte) /\ buffer'.entry[i].size \in 1 .. Len(heap'[p])
                             /\ \A j \in Slots : buffer'.entry[j].buffptr = p => i = j
                             /\ \A u \in Thread : write_data'[u] # p
      BY DEF EntryInv
    <3>1. CASE i = buffer.in_offs
      <4>1. buffer'.entry[i] = e
        BY <2>4, <3>1
      <4>2. \A u \in Thread : write_data'[u] # write_buffer
        BY <1>6, <1>8, <2>2
      <4>3. \A j \in Slots : buffer'.entry[j].buffptr = write_buffer => i = j
        BY <1>8, <2>2, <2>4, <3>1
      <4>. QED  BY <1>4, <2>2, <2>7, <4>1, <4>2, <4>3
    <3>2. CASE i # buffer.in_offs
      <4>. DEFINE p == buffer.entry[i].buffptr
      <4>1. buffer'.entry[i] = buffer.entry[i]
        BY <2>4, <3>2
      <4>2. /\ p \in Addr /\ heap'[p] \in Seq(Byte) /\ buffer.entry[i].size \in 1 .. Len(heap'[p])
            /\ \A j \in Slots : buffer.entry[j].buffptr = p => i = j
            /\ \A u \in Thread : write_data[u] # p
            /\ p # write_buffer
        BY <2>8, <3>2, <4>1
      <4>3. \A u \in Thread : write_data'[u] # p
        BY <1>6, <4>2
      <4>4. \A j \in Slots : buffer'.entry[j].buffptr = p => i = j
        BY <2>4, <4>2
      <4>. QED  BY <4>1, <4>2, <4>3, <4>4
    <3>. QED  BY <3>1, <3>2
  <2>. QED  BY <1>6, <1>10, <1>12, <1>14, <2>4, <2>6, <2>9 DEF MemInv
<1>. QED  BY <1>15, <1>16

\* Before the module is loaded all memory is free.
LEMMA InitMem == Init => MemInv
<1>. SUFFICES ASSUME Init PROVE MemInv
  OBVIOUS
<1>. USE DriverAssumption
<1>1. buffer \in Buffer(Entry(Pointer)) /\ BufferInv
  BY NAssumption DEF Init, aesd_circular_buffer_init, Buffer, Entry, Pointer, ZeroEntry, Slots,
     BufferInv, Coherent
<1>2. HeapType /\ DeviceType /\ CallType
  BY <1>1 DEF Init, HeapType, DeviceType, CallType, Pointer, Labels
<1>3. \A t \in Thread : pc[t] = "idle" /\ write_data[t] = NULL
  BY DEF Init
<1>4. DataInv /\ EntryInv /\ PendingInv /\ AppendInv
  BY <1>3 DEF Init, DataInv, EntryInv, PendingInv, AppendInv, WriteLabels
<1>. QED  BY <1>1, <1>2, <1>4 DEF MemInv

\* Loading and unloading the module preserve the memory invariant: no call
\* is in progress, and unloading frees what the entries point to.
LEMMA ModuleMem ==
  ASSUME ControlInv, MemInv, aesd_init_module \/ aesd_cleanup_module
  PROVE  MemInv'
<1>. USE DriverAssumption
<1>1. opened = {}
  BY DEF ControlInv, aesd_init_module, aesd_cleanup_module
<1>2. \A t \in Thread : pc[t] = "idle"
  BY <1>1 DEF ControlInv
<1>3. \A t \in Thread : write_data[t] = NULL
  BY <1>2 DEF MemInv, DataInv, WriteLabels
<1>4. UNCHANGED <<pc, arg, write_data>>
  BY DEF aesd_init_module, aesd_cleanup_module, call
<1>5. DataInv' /\ AppendInv' /\ CallType' /\ ~Appending'
  BY <1>2, <1>3, <1>4 DEF DataInv, WriteLabels, AppendInv, MemInv, CallType, Appending
<1>6. CASE aesd_init_module
  <2>1. buffer' = aesd_circular_buffer_init /\ write_buffer' = NULL /\ write_buffer_size' = 0 /\ heap' = heap
    BY <1>6 DEF aesd_init_module
  <2>2. buffer' \in Buffer(Entry(Pointer)) /\ BufferInv'
    BY <2>1, NAssumption DEF aesd_circular_buffer_init, Buffer, Entry, Pointer, ZeroEntry, Slots,
       BufferInv, Coherent
  <2>3. HeapType' /\ DeviceType'
    BY <2>1, <2>2 DEF MemInv, HeapType, DeviceType, Pointer
  <2>4. EntryInv'
    BY <2>1 DEF EntryInv, aesd_circular_buffer_init
  <2>5. PendingInv'
    BY <2>1 DEF PendingInv
  <2>. QED  BY <1>5, <2>2, <2>3, <2>4, <2>5 DEF MemInv
<1>7. CASE aesd_cleanup_module
  <2>1. ~loaded' /\ UNCHANGED <<buffer, write_buffer, write_buffer_size>>
    BY <1>7 DEF aesd_cleanup_module, dev
  <2>2. DeviceType' /\ BufferInv'
    BY <2>1 DEF MemInv, DeviceType, BufferInv, Coherent
  <2>3. HeapType'
    BY <1>7 DEF aesd_cleanup_module, MemInv, HeapType
  <2>4. EntryInv' /\ PendingInv'
    BY <2>1 DEF EntryInv, PendingInv
  <2>. QED  BY <1>5, <2>2, <2>3, <2>4 DEF MemInv
<1>. QED  BY <1>6, <1>7

\* No call has started.
LEMMA InitArg == Init => ArgInv
  BY DEF Init, ArgInv, WriteLabels

\* A step of a thread keeps the arguments of its call or ends the call.
LEMMA NextArg == ControlInv /\ ArgInv /\ [Next]_vars => ArgInv'
<1>. SUFFICES ASSUME ControlInv, ArgInv, [Next]_vars PROVE ArgInv'
  OBVIOUS
<1>. USE DEF ControlInv, ArgInv, WriteLabels
<1>1. CASE UNCHANGED <<pc, arg>>
  BY <1>1
<1>2. ASSUME NEW t \in Thread, Leave(t) PROVE ArgInv'
  BY <1>2 DEF Leave, Goto
<1>3. ASSUME NEW t \in Thread, NEW l, Goto(t, l), UNCHANGED arg,
             \/ l = "return"
             \/ pc[t] = "write_copy" /\ l = "write_lock"
             \/ pc[t] = "write_reserve" /\ l = "write_append"
             \/ pc[t] = "ioctl" /\ l = "ioctl_lock" /\ arg[t].seekto.cmd = "AESDCHAR_IOCSEEKTO"
             \/ pc[t] \in Waiting /\ l = Locked[pc[t]]
      PROVE  ArgInv'
  <2>1. CASE pc[t] \in Waiting /\ l = Locked[pc[t]]
    <3>1. \/ pc[t] = "read_lock" /\ l = "read"
          \/ pc[t] = "write_lock" /\ l = "write_reserve"
          \/ pc[t] = "llseek_lock" /\ l = "llseek"
          \/ pc[t] = "ioctl_lock" /\ l = "adjust"
      BY <2>1, LockedLabels DEF Locked
    <3>. QED  BY <1>3, <3>1 DEF Goto
  <2>. QED  BY <1>3, <2>1 DEF Goto
<1>4. ASSUME NEW t \in Thread, NEW f \in File, SysCall(t, f) PROVE ArgInv'
  <2>1. ASSUME NEW count \in ReadCounts, SysRead(t, f, count) PROVE ArgInv'
    BY <2>1 DEF SysRead, Enter, Goto
  <2>2. ASSUME NEW data \in Payload, SysWrite(t, f, data) PROVE ArgInv'
    <3>1. \/ UNCHANGED <<pc, arg>>
          \/ Goto(t, "write_copy") /\ arg' = [arg EXCEPT ![t] = [file |-> f, data |-> data]]
      BY <2>2 DEF SysWrite, Enter, call
    <3>. QED  BY <1>1, <3>1 DEF Goto
  <2>3. ASSUME NEW seek \in Seeks, SysLlseek(t, f, seek) PROVE ArgInv'
    BY <2>3 DEF SysLlseek, Enter, Goto
  <2>4. ASSUME NEW seekto \in Seektos, SysIoctl(t, f, seekto) PROVE ArgInv'
    BY <2>4 DEF SysIoctl, Enter, Goto
  <2>. QED  BY <1>4, <2>1, <2>2, <2>3, <2>4 DEF SysCall
<1>5. ASSUME NEW t \in Thread, Step(t) PROVE ArgInv'
  <2>. HIDE DEF ControlInv, ArgInv, WriteLabels
  <2>1. CASE AcquireLock(t)
    BY <1>3, <2>1 DEF AcquireLock
  <2>2. CASE LockInterrupted(t) \/ StorePos(t) \/ WriteReserveFails(t) \/ aesd_llseek(t) \/ aesd_adjust_file_offset(t)
    BY <1>2, <2>2 DEF LockInterrupted, AfterInterrupt, StorePos, WriteReserveFails, aesd_llseek, aesd_adjust_file_offset
  <2>3. CASE aesd_read(t)
    BY <1>2, <1>3, <2>3 DEF aesd_read
  <2>4. CASE WriteCopy(t)
    BY <1>2, <1>3, <2>4 DEF WriteCopy
  <2>5. CASE WriteReserve(t) \/ WriteAppend(t)
    BY <1>3, <2>5 DEF WriteReserve, WriteAppend
  <2>6. CASE aesd_ioctl(t)
    BY <1>2, <1>3, <2>6 DEF aesd_ioctl
  <2>. QED  BY <1>5, <2>1, <2>2, <2>3, <2>4, <2>5, <2>6 DEF Step
<1>6. CASE aesd_init_module \/ aesd_cleanup_module \/ (\E f \in File : Open(f) \/ Release(f)) \/ UNCHANGED vars
  BY <1>1, <1>6 DEF aesd_init_module, aesd_cleanup_module, Open, Release, vars, call
<1>. QED  BY <1>4, <1>5, <1>6 DEF Next

\* aesd_write, its kmalloc: write_data is a fresh block.
LEMMA SysWriteEffect ==
  ASSUME ControlInv, MemInv, NEW t \in Thread, NEW f \in File, NEW data \in Payload,
         SysWrite(t, f, data)
  PROVE  CallEffect \/ \E p : DataEffect(t, p)
<1>1. CASE UNCHANGED <<heap, call>>
  BY <1>1 DEF CallEffect, SysWrite, call, dev, MemInv, CallType
<1>2. CASE MemoryLeft /\ Enter(t, "write_copy", [file |-> f, data |-> data])
             /\ write_data' = [write_data EXCEPT ![t] = kmalloc(Len(data))]
             /\ heap' = Put(heap, kmalloc(Len(data)), JunkBytes(Len(data)))
  <2>. DEFINE p == kmalloc(Len(data))
              x == JunkBytes(Len(data))
  <2>1. data \in Seq(Byte) /\ Len(data) \in Nat
    BY PayloadType
  <2>2. /\ Len(data) = 0 => p = ZERO_SIZE_PTR
        /\ Len(data) # 0 => p \in Addr /\ heap[p] = FREE
    BY <1>2, <2>1, KmallocFresh
  <2>3. x \in Seq(Byte) /\ Len(x) = Len(data)
    BY <2>1, JunkBytesType
  <2>4. heap' = Put(heap, p, x) /\ write_data' = [write_data EXCEPT ![t] = p]
    BY <1>2
  <2>. HIDE DEF p, x
  <2>5. DOMAIN heap' = Addr /\ \A a \in Addr : heap'[a] = IF a = p THEN x ELSE heap[a]
    BY <2>4, PutIs DEF MemInv, HeapType
  <2>6. /\ pc[t] = "idle" /\ pc' = [pc EXCEPT ![t] = "write_copy"]
        /\ arg' = [arg EXCEPT ![t] = [file |-> f, data |-> data]]
    BY <1>2 DEF Enter, Goto
  <2>7. HeapType'
    BY <2>3, <2>5 DEF MemInv, HeapType
  <2>8. CallType'
    BY <2>2, <2>4, <2>6 DEF MemInv, CallType, Pointer, Labels
  <2>9. write_data'[t] = p /\ pc'[t] = "write_copy" /\ arg'[t].data = data
    BY <2>4, <2>6 DEF MemInv, CallType
  <2>10. (Block(write_data[t]))' = IF p \in Addr THEN x ELSE << >>
    BY <2>5, <2>9 DEF Block
  <2>11. (Block(write_data[t]))' \in Seq(Byte) /\ Len((Block(write_data[t]))') = Len(data)
    BY <2>2, <2>3, <2>10, DriverAssumption
  <2>12. \A u \in Thread \ {t} : pc'[u] = pc[u] /\ arg'[u] = arg[u] /\ write_data'[u] = write_data[u]
    BY <2>4, <2>6 DEF MemInv, CallType
  <2>13. UNCHANGED <<loaded, buffer, write_buffer_size, buff_size, write_buffer>>
    BY DEF SysWrite, dev
  <2>14. /\ p \in Addr => heap[p] = FREE
         /\ pc'[t] \in WriteLabels /\ pc[t] # "write_append" /\ pc'[t] # "write_append"
         /\ p \in Addr \cup {ZERO_SIZE_PTR}
    BY <2>2, <2>6, <2>9, DriverAssumption DEF WriteLabels
  <2>15. write_data[t] \notin Addr
    BY <2>6, DriverAssumption DEF MemInv, DataInv, WriteLabels
  <2>16. DataEffect(t, p)
    BY <2>5, <2>7, <2>8, <2>9, <2>11, <2>12, <2>13, <2>14, <2>15 DEF DataEffect
  <2>. QED  BY <2>16
<1>. QED  BY <1>1, <1>2 DEF SysWrite

\* aesd_write, its copy_from_user: write_data holds the user's data, or is freed.
LEMMA WriteCopyEffect ==
  ASSUME ControlInv, MemInv, ArgInv, NEW t \in Thread, WriteCopy(t)
  PROVE  DataEffect(t, write_data[t])
<1>. DEFINE p == write_data[t]
<1>1. /\ pc[t] = "write_copy"
      /\ UNCHANGED <<loaded, buffer, write_buffer_size, buff_size, write_buffer>>
  BY DEF WriteCopy, dev
<1>2. arg[t].data \in Seq(Byte)
  BY <1>1, PayloadType DEF ArgInv, WriteLabels
<1>3. p \in Addr \cup {ZERO_SIZE_PTR} /\ Len(Block(p)) = Len(arg[t].data)
  BY <1>1 DEF MemInv, DataInv, WriteLabels
<1>4. CASE heap' = Put(heap, write_data[t], arg[t].data) /\ Goto(t, "write_lock")
             /\ UNCHANGED <<arg, pos, write_data, got>>
  <2>1. DOMAIN heap' = Addr /\ \A a \in Addr : heap'[a] = IF a = p THEN arg[t].data ELSE heap[a]
    BY <1>4, PutIs DEF MemInv, HeapType
  <2>2. HeapType'
    BY <1>2, <2>1 DEF MemInv, HeapType
  <2>3. CallType' /\ pc'[t] = "write_lock" /\ \A u \in Thread \ {t} : pc'[u] = pc[u]
    BY <1>4, LockedLabels DEF MemInv, CallType, Goto, Labels
  <2>4. (Block(write_data[t]))' = arg[t].data
    <3>1. CASE p \in Addr
      BY <1>4, <2>1, <3>1 DEF Block
    <3>2. CASE p \notin Addr
      <4>1. Block(p) = << >> /\ (Block(write_data[t]))' = << >>
        BY <1>4, <3>2 DEF Block
      <4>2. arg[t].data = << >>
        BY <1>2, <1>3, <4>1, EmptySeq
      <4>. QED  BY <4>1, <4>2
    <3>. QED  BY <3>1, <3>2
  <2>5. pc'[t] \in WriteLabels /\ pc[t] # "write_append" /\ pc'[t] # "write_append"
    BY <1>1, <2>3 DEF WriteLabels
  <2>. QED  BY <1>1, <1>2, <1>3, <1>4, <2>1, <2>2, <2>3, <2>4, <2>5 DEF DataEffect
<1>5. CASE heap' = Kfree(heap, write_data[t]) /\ Leave(t)
  <2>1. DOMAIN heap' = Addr /\ \A a \in Addr : heap'[a] = IF a = p THEN FREE ELSE heap[a]
    BY <1>5, KfreeIs DEF MemInv, HeapType
  <2>2. HeapType'
    BY <2>1 DEF MemInv, HeapType
  <2>3. /\ CallType' /\ pc'[t] = "idle" /\ write_data'[t] = NULL
        /\ \A u \in Thread \ {t} : pc'[u] = pc[u] /\ arg'[u] = arg[u] /\ write_data'[u] = write_data[u]
    BY <1>5 DEF MemInv, CallType, Leave, Goto, Labels, Pointer
  <2>4. pc'[t] \notin WriteLabels /\ pc[t] # "write_append" /\ pc'[t] # "write_append"
    BY <1>1, <2>3 DEF WriteLabels
  <2>. QED  BY <1>1, <2>1, <2>2, <2>3, <2>4, DriverAssumption DEF DataEffect
<1>. QED  BY <1>4, <1>5 DEF WriteCopy

\* mutex_lock_interruptible gives up: a write loses its write_data.
LEMMA LockInterruptedEffect ==
  ASSUME MemInv, NEW t \in Thread, LockInterrupted(t)
  PROVE  CallEffect \/ DataEffect(t, write_data[t])
<1>1. /\ CallType' /\ pc'[t] = "idle" /\ write_data'[t] = NULL
      /\ \A u \in Thread \ {t} : pc'[u] = pc[u] /\ arg'[u] = arg[u] /\ write_data'[u] = write_data[u]
  BY DEF LockInterrupted, AfterInterrupt, MemInv, CallType, Leave, Goto, Labels, Pointer
<1>2. pc'[t] \notin WriteLabels /\ pc[t] # "write_append" /\ pc'[t] # "write_append"
  BY <1>1, LockedLabels DEF WriteLabels, LockInterrupted
<1>3. UNCHANGED <<loaded, buffer, write_buffer_size, buff_size, write_buffer, heap>>
  BY DEF LockInterrupted, dev
<1>4. HeapType'
  BY <1>3 DEF MemInv, HeapType
<1>5. write_data[t] \in Addr => LostByInterrupt(write_data[t])
  <2>. SUFFICES ASSUME write_data[t] \in Addr PROVE pc[t] = "write_lock"
    BY <1>1 DEF LostByInterrupt
  <2>1. pc[t] \in WriteLabels
    BY DriverAssumption DEF MemInv, DataInv
  <2>. QED  BY <2>1, LockedLabels DEF LockInterrupted, WriteLabels
<1>. QED  BY <1>1, <1>2, <1>3, <1>4, <1>5, DriverAssumption DEF DataEffect

\* aesd_write, its kmalloc or krealloc of write_buffer fails.
LEMMA WriteReserveFailsEffect ==
  ASSUME ControlInv, MemInv, NEW t \in Thread, WriteReserveFails(t)
  PROVE  DataEffect(t, write_data[t])
<1>1. /\ CallType' /\ pc'[t] = "idle" /\ write_data'[t] = NULL
      /\ \A u \in Thread \ {t} : pc'[u] = pc[u] /\ arg'[u] = arg[u] /\ write_data'[u] = write_data[u]
  BY DEF WriteReserveFails, MemInv, CallType, Leave, Goto, Labels, Pointer
<1>2. pc'[t] \notin WriteLabels /\ pc[t] = "write_reserve" /\ pc'[t] # "write_append"
  BY <1>1 DEF WriteLabels, WriteReserveFails
<1>3. UNCHANGED <<loaded, buffer, write_buffer_size, buff_size>> /\ write_buffer' = NULL
  BY DEF WriteReserveFails
<1>4. /\ DOMAIN heap' = Addr
      /\ \A a \in Addr : heap'[a] = IF a = write_data[t] THEN FREE ELSE heap[a]
  <2>1. DOMAIN heap = Addr /\ heap' = Kfree(heap, write_data[t])
    BY DEF MemInv, HeapType, WriteReserveFails
  <2>. QED  BY <2>1, KfreeIs
<1>5. HeapType'
  BY <1>4 DEF MemInv, HeapType
<1>6. \A u \in Thread : pc[u] # "write_append"
  BY <1>2, HolderAlone, LockedLabels
<1>. QED  BY <1>1, <1>2, <1>3, <1>4, <1>5, <1>6, DriverAssumption DEF DataEffect

\* aesd_write, its kmalloc or krealloc of write_buffer succeeds.
LEMMA WriteReserveEffect ==
  ASSUME ControlInv, MemInv, NEW t \in Thread, WriteReserve(t)
  PROVE  \E x : ReserveEffect(t, x)
<1>. DEFINE count == Len(Block(write_data[t]))
            size  == append_index(t) + write_buffer_size
            w     == write_buffer'
<1>1. /\ pc[t] = "write_reserve" /\ MemoryLeft /\ Goto(t, "write_append")
      /\ UNCHANGED <<loaded, buffer, write_buffer_size, buff_size, arg, write_data>>
  BY DEF WriteReserve
<1>2. /\ Block(write_data[t]) \in Seq(Byte) /\ count \in Nat
      /\ append_index(t) \in 0 .. count
      /\ write_buffer_size \in Nat /\ size \in Nat
  <2>1. Block(write_data[t]) \in Seq(Byte)
    BY <1>1 DEF MemInv, DataInv, WriteLabels
  <2>. QED  BY <2>1, AppendIndexIs, AppendLenIs DEF MemInv, DeviceType
<1>3. DOMAIN heap = Addr
  BY DEF MemInv, HeapType
<1>4. CASE /\ write_buffer_size = 0
           /\ write_buffer' = kmalloc(count)
           /\ heap' = Put(heap, write_buffer', JunkBytes(count))
  <2>1. /\ count = 0 => w = ZERO_SIZE_PTR
        /\ count # 0 => w \in Addr /\ heap[w] = FREE
    BY <1>1, <1>2, <1>4, KmallocFresh
  <2>2. JunkBytes(count) \in Seq(Byte) /\ Len(JunkBytes(count)) = count
    BY <1>2, JunkBytesType
  <2>3. DOMAIN heap' = Addr /\ \A a \in Addr : heap'[a] = IF a = w THEN JunkBytes(count) ELSE heap[a]
    BY <1>3, <1>4, PutIs
  <2>. DEFINE x == JunkBytes(count)
  <2>. HIDE DEF x, w, count
  <2>4. /\ \A a \in Addr : heap'[a] = IF a = w THEN x
                                    ELSE IF write_buffer_size > 0 /\ a = write_buffer THEN FREE
                                    ELSE heap[a]
        /\ x \in Seq(Byte) /\ write_buffer_size + append_index(t) <= Len(x)
        /\ w \in Addr \/ (w = ZERO_SIZE_PTR /\ Len(x) = 0)
        /\ w \in Addr => heap[w] = FREE /\ count # 0
    BY <1>2, <1>4, <2>1, <2>2, <2>3, DriverAssumption DEF x
  <2>5. write_buffer' = w
    BY DEF w
  <2>6. count # 0 => Block(write_data[t]) # << >>
    BY DEF count
  <2>7. ReserveEffect(t, x)
    BY <1>1, <1>4, <2>3, <2>4, <2>5, <2>6 DEF ReserveEffect
  <2>. QED  BY <2>7
<1>5. CASE /\ write_buffer_size > 0
           /\ write_buffer' \in krealloc(write_buffer, size)
           /\ heap' = Put(Kfree(heap, write_buffer), write_buffer', Grown(write_buffer, size))
  <2>1. size > 0
    BY <1>2, <1>5
  <2>2. kmalloc(size) \in Addr /\ heap[kmalloc(size)] = FREE
    BY <1>1, <1>2, <2>1, KmallocFresh
  <2>3. Block(write_buffer) \in Seq(Byte)
    <3>1. CASE write_buffer \in Addr
      <4>1. Pending /\ loaded
        BY <1>1, <1>5, HolderAlone, LockedLabels DEF Pending
      <4>. QED  BY <3>1, <4>1 DEF Block, MemInv, PendingInv
    <3>2. CASE write_buffer \notin Addr
      BY <3>2 DEF Block
    <3>. QED  BY <3>1, <3>2
  <2>4. Grown(write_buffer, size) \in Seq(Byte) /\ Len(Grown(write_buffer, size)) = size
    BY <1>2, <2>3, GrownType
  <2>5. w \in Addr /\ (heap[w] = FREE \/ w = write_buffer)
    <3>1. CASE size <= Len(Block(write_buffer))
      <4>1. write_buffer \in Addr
        BY <2>1, <3>1, <1>2 DEF Block
      <4>. QED  BY <1>5, <3>1, <4>1 DEF krealloc
    <3>2. CASE ~(size <= Len(Block(write_buffer)))
      BY <1>5, <2>2, <3>2 DEF krealloc
    <3>. QED  BY <3>1, <3>2
  <2>. DEFINE x == Grown(write_buffer, size)
              k == Kfree(heap, write_buffer)
  <2>6. DOMAIN k = Addr /\ \A a \in Addr : k[a] = IF a = write_buffer THEN FREE ELSE heap[a]
    BY <1>3, KfreeIs
  <2>7. heap' = Put(k, w, x) /\ write_buffer' = w
    BY <1>5
  <2>. HIDE DEF x, w, k
  <2>8. DOMAIN heap' = Addr /\ \A a \in Addr : heap'[a] = IF a = w THEN x ELSE k[a]
    BY <2>6, <2>7, PutIs
  <2>9. /\ \A a \in Addr : heap'[a] = IF a = w THEN x
                                    ELSE IF write_buffer_size > 0 /\ a = write_buffer THEN FREE
                                    ELSE heap[a]
    BY <1>5, <2>6, <2>8
  <2>10. x \in Seq(Byte) /\ write_buffer_size + append_index(t) <= Len(x)
    BY <1>2, <2>4 DEF x
  <2>11. \A i \in 1 .. write_buffer_size : i <= Len(Block(write_buffer)) => x[i] = Block(write_buffer)[i]
    <3>1. \A i \in 1 .. write_buffer_size : i \in 1 .. size
      BY <1>2
    <3>. QED  BY <3>1 DEF x, Grown
  <2>12. ReserveEffect(t, x)
    BY <1>1, <1>5, <2>5, <2>7, <2>8, <2>9, <2>10, <2>11 DEF ReserveEffect
  <2>. QED  BY <2>12
<1>. QED  BY <1>4, <1>5 DEF WriteReserve

\* aesd_write from memcpy to the end.
LEMMA WriteAppendEffect ==
  ASSUME ControlInv, MemInv, NEW t \in Thread, WriteAppend(t)
  PROVE  \E x : AppendEffect(t, x)
<1>1. pc[t] = "write_append" /\ UNCHANGED <<loaded, write_buffer, arg>>
  BY DEF WriteAppend
<1>2. PICK x \in Seq(Byte) :
           /\ Len(x) = Len(Block(write_buffer))
           /\ DOMAIN Appended(heap, t) = Addr
           /\ \A a \in Addr : Appended(heap, t)[a] = IF a = write_buffer THEN x ELSE heap[a]
           /\ \A i \in 1 .. Len(x) :
                x[i] = IF i \in write_buffer_size + 1 .. write_buffer_size + append_index(t)
                       THEN Block(write_data[t])[i - write_buffer_size]
                       ELSE Block(write_buffer)[i]
  BY <1>1, AppendedIs
<1>3. /\ CallType' /\ pc'[t] = "return" /\ write_data'[t] = NULL
      /\ \A u \in Thread \ {t} : pc'[u] = pc[u] /\ write_data'[u] = write_data[u]
  BY <1>1 DEF WriteAppend, MemInv, CallType, Goto, Labels, Pointer
<1>. DEFINE old == Evicted(t)
<1>4. DOMAIN heap' = Addr /\ \A a \in Addr :
         heap'[a] = IF a = write_data[t] \/ a = old THEN FREE
                    ELSE IF a = write_buffer THEN x ELSE heap[a]
  <2>. DEFINE h == Appended(heap, t)
              g == IF newline_found(t) THEN OldestFreed(h) ELSE h
  <2>1. heap' = Kfree(g, write_data[t])
    BY DEF WriteAppend, CompleteCommand
  <2>2. g = IF newline_found(t) /\ buffer.full THEN Kfree(h, old) ELSE h
    BY DEF OldestFreed, Evicted
  <2>3. DOMAIN h = Addr /\ \A a \in Addr : h[a] = IF a = write_buffer THEN x ELSE heap[a]
    BY <1>2
  <2>. HIDE DEF h, old
  <2>4. DOMAIN g = Addr /\ \A a \in Addr : g[a] = IF a = old THEN FREE ELSE h[a]
    <3>1. CASE newline_found(t) /\ buffer.full
      BY <2>2, <2>3, <3>1, KfreeIs
    <3>2. CASE ~(newline_found(t) /\ buffer.full)
      BY <2>2, <2>3, <3>2, DriverAssumption DEF old, Evicted
    <3>. QED  BY <3>1, <3>2
  <2>. HIDE DEF g
  <2>5. DOMAIN heap' = Addr /\ \A a \in Addr : heap'[a] = IF a = write_data[t] THEN FREE ELSE g[a]
    BY <2>1, <2>4, KfreeIs
  <2>. QED  BY <2>3, <2>4, <2>5
<1>5. LET n == write_buffer_size + append_index(t)
      IN  IF newline_found(t)
          THEN /\ buffer' = aesd_circular_buffer_add_entry(buffer, [buffptr |-> write_buffer, size |-> n])
               /\ write_buffer_size' = 0 /\ buff_size' = buff_size + n
          ELSE UNCHANGED <<buffer, buff_size>> /\ write_buffer_size' = n
  BY DEF WriteAppend, CompleteCommand, buff_size_increment
<1>6. AppendEffect(t, x)
  BY <1>1, <1>2, <1>3, <1>4, <1>5 DEF AppendEffect
<1>. QED  BY <1>6

\* What a step may do to the memory of the driver.
Effect ==
  \/ CallEffect
  \/ \E t \in Thread : \E p : DataEffect(t, p)
  \/ \E t \in Thread : \E x : ReserveEffect(t, x)
  \/ \E t \in Thread : \E x : AppendEffect(t, x)
  \/ aesd_init_module \/ aesd_cleanup_module

\* Every step of the driver does one of these.
LEMMA NextEffect == ControlInv /\ ArgInv /\ MemInv /\ [Next]_vars => Effect
<1>. SUFFICES ASSUME ControlInv, ArgInv, MemInv, [Next]_vars PROVE Effect
  OBVIOUS
<1>1. ASSUME UNCHANGED <<loaded, buffer, write_buffer, write_buffer_size, buff_size, heap, call>> PROVE Effect
  BY <1>1 DEF MemInv, CallType, call, CallEffect, Effect
<1>2. ASSUME NEW t \in Thread, NEW label, NEW args, Enter(t, label, args),
             label \in {"read_lock", "llseek_lock", "ioctl"},
             UNCHANGED <<loaded, buffer, write_buffer, write_buffer_size, buff_size, heap, write_data>>
      PROVE  Effect
  <2>1. CallType' /\ pc'[t] \notin WriteLabels /\ pc[t] \notin WriteLabels
        /\ \A u \in Thread \ {t} : pc'[u] = pc[u] /\ arg'[u] = arg[u]
    BY <1>2, LockedLabels DEF MemInv, CallType, Enter, Goto, Labels, WriteLabels
  <2>. QED  BY <1>2, <2>1 DEF CallEffect, Effect
<1>3. ASSUME NEW t \in Thread, Leave(t), pc[t] \notin WriteLabels,
             UNCHANGED <<loaded, buffer, write_buffer, write_buffer_size, buff_size, heap>>
      PROVE  Effect
  <2>1. CallType' /\ pc'[t] \notin WriteLabels /\ UNCHANGED write_data
        /\ \A u \in Thread \ {t} : pc'[u] = pc[u] /\ arg'[u] = arg[u]
    <3>1. write_data[t] = NULL
      BY <1>3 DEF MemInv, DataInv
    <3>2. UNCHANGED write_data
      BY <1>3, <3>1 DEF Leave, MemInv, CallType
    <3>. QED  BY <1>3, <3>2 DEF MemInv, CallType, Leave, Goto, Labels, WriteLabels
  <2>. QED  BY <1>3, <2>1 DEF CallEffect, Effect
<1>4. ASSUME NEW t \in Thread, NEW l \in Labels, Goto(t, l), UNCHANGED arg, pc[t] \notin {"write_copy", "write_append"},
             pc[t] \in WriteLabels <=> l \in WriteLabels, l # "write_append",
             UNCHANGED <<loaded, buffer, write_buffer, write_buffer_size, buff_size, heap, write_data>>
      PROVE  Effect
  <2>1. CallType' /\ pc'[t] = l /\ \A u \in Thread \ {t} : pc'[u] = pc[u] /\ arg'[u] = arg[u]
    BY <1>4 DEF MemInv, CallType, Goto
  <2>. QED  BY <1>4, <2>1 DEF CallEffect, Effect
<1>5. ASSUME NEW t \in Thread, NEW f \in File, SysCall(t, f) PROVE Effect
  <2>1. ASSUME NEW count \in ReadCounts, SysRead(t, f, count) PROVE Effect
    BY <1>2, <2>1 DEF SysRead, dev
  <2>2. ASSUME NEW data \in Payload, SysWrite(t, f, data) PROVE Effect
    BY <2>2, SysWriteEffect DEF Effect
  <2>3. ASSUME NEW seek \in Seeks, SysLlseek(t, f, seek) PROVE Effect
    BY <1>2, <2>3 DEF SysLlseek, dev
  <2>4. ASSUME NEW seekto \in Seektos, SysIoctl(t, f, seekto) PROVE Effect
    BY <1>2, <2>4 DEF SysIoctl, dev
  <2>. QED  BY <1>5, <2>1, <2>2, <2>3, <2>4 DEF SysCall
<1>6. ASSUME NEW t \in Thread, Step(t) PROVE Effect
  <2>1. CASE AcquireLock(t)
    <3>1. Locked[pc[t]] \in Labels \ {"write_append"} /\ pc[t] \notin {"write_copy", "write_append"}
          /\ (pc[t] \in WriteLabels <=> Locked[pc[t]] \in WriteLabels)
      BY <2>1, LockedLabels DEF AcquireLock, Locked, Labels, WriteLabels
    <3>. QED  BY <1>4, <2>1, <3>1 DEF AcquireLock, dev
  <2>2. CASE LockInterrupted(t)
    BY <2>2, LockInterruptedEffect DEF Effect
  <2>3. CASE StorePos(t) \/ aesd_llseek(t) \/ aesd_adjust_file_offset(t)
    BY <1>3, <2>3 DEF StorePos, aesd_llseek, aesd_adjust_file_offset, dev, WriteLabels
  <2>4. CASE aesd_read(t)
    <3>1. /\ pc[t] = "read" /\ UNCHANGED <<loaded, buffer, write_buffer, write_buffer_size, buff_size, heap>>
          /\ Leave(t) \/ (Goto(t, "return") /\ UNCHANGED <<arg, write_data>>)
      BY <2>4 DEF aesd_read, dev
    <3>2. "return" \in Labels /\ "return" \notin WriteLabels /\ pc[t] \notin WriteLabels /\ pc[t] \notin {"write_copy", "write_append"}
      BY <3>1 DEF WriteLabels, Labels
    <3>. QED  BY <1>3, <1>4, <3>1, <3>2
  <2>5. CASE WriteCopy(t) \/ WriteReserve(t) \/ WriteReserveFails(t) \/ WriteAppend(t)
    BY <2>5, WriteCopyEffect, WriteReserveEffect, WriteReserveFailsEffect, WriteAppendEffect DEF Effect
  <2>6. CASE aesd_ioctl(t)
    <3>1. /\ pc[t] = "ioctl" /\ UNCHANGED <<loaded, buffer, write_buffer, write_buffer_size, buff_size, heap>>
          /\ Leave(t) \/ (Goto(t, "ioctl_lock") /\ UNCHANGED <<arg, write_data>>)
      BY <2>6 DEF aesd_ioctl, dev
    <3>2. "ioctl_lock" \in Labels /\ "ioctl_lock" \notin WriteLabels /\ pc[t] \notin WriteLabels /\ pc[t] \notin {"write_copy", "write_append"}
      BY <3>1, LockedLabels DEF WriteLabels, Labels
    <3>. QED  BY <1>3, <1>4, <3>1, <3>2
  <2>. QED  BY <1>6, <2>1, <2>2, <2>3, <2>4, <2>5, <2>6 DEF Step
<1>7. CASE (\E f \in File : Open(f) \/ Release(f)) \/ UNCHANGED vars
  BY <1>1, <1>7 DEF Open, Release, vars, dev
<1>. QED  BY <1>5, <1>6, <1>7 DEF Next, Effect

\* And all of these preserve the memory invariant.
LEMMA EffectMem == ControlInv /\ MemInv /\ Effect => MemInv'
  BY CallEffectMem, DataEffectMem, ReserveEffectMem, AppendEffectMem, ModuleMem DEF Effect

\* The types of the rest of the state.
RestInv ==
  /\ buff_size \in Nat
  /\ opened \subseteq File
  /\ f_pos \in [File -> Nat]
  /\ \A t \in Thread : arg[t].file \in File \cup {NULL} /\ (arg[t].file = NULL <=> pc[t] = "idle")
  /\ pos \in [Thread -> Nat]
  /\ got \in [Thread -> Seq(Byte)]
  /\ writes \in 0 .. MaxWrites

\* What a read that finds an entry copies: the bytes of that entry's block
\* from the one found on, all of them allocated.
LEMMA ReadCopies ==
  ASSUME MemInv, loaded, NEW off \in Nat, NEW count \in Nat,
         aesd_circular_buffer_find_entry_offset_for_fpos(buffer, off) # NULL
  PROVE  LET found == aesd_circular_buffer_find_entry_offset_for_fpos(buffer, off)
             entry == buffer.entry[found.slot]
             copied == bytes_to_copy(entry.size - found.byte, count)
         IN  \E j \in 0 .. Count(buffer) - 1 :
               /\ found = [slot |-> ScanSlot(buffer, j), byte |-> off - AccumulatedBytes(buffer, j)]
               /\ found.slot \in Slots /\ found.byte \in Nat /\ entry # ZeroEntry
               /\ entry.buffptr \in Addr /\ Block(entry.buffptr) \in Seq(Byte)
               /\ entry.size \in Nat /\ found.byte < entry.size
               /\ entry.size <= Len(Block(entry.buffptr))
               /\ copied \in Nat /\ copied <= count /\ found.byte + copied <= entry.size
               /\ copied = count \/ copied = entry.size - found.byte
               /\ SubSeq(Block(entry.buffptr), found.byte + 1, found.byte + copied) \in Seq(Byte)
               /\ Len(SubSeq(Block(entry.buffptr), found.byte + 1, found.byte + copied)) = copied
<1>. DEFINE found == aesd_circular_buffer_find_entry_offset_for_fpos(buffer, off)
            entry == buffer.entry[found.slot]
            copied == bytes_to_copy(entry.size - found.byte, count)
            a(j) == AccumulatedBytes(buffer, j)
<1>1. /\ buffer \in Buffer(Entry(Pointer)) /\ Coherent(buffer)
      /\ \A e \in Entry(Pointer) : e.size \in Nat
  BY DEF MemInv, DeviceType, BufferInv, Entry
<1>2. PICK j \in 0 .. Count(buffer) - 1 :
        /\ found = [slot |-> ScanSlot(buffer, j), byte |-> off - a(j)]
        /\ a(j) <= off
        /\ off < a(j) + buffer.entry[ScanSlot(buffer, j)].size
  BY <1>1, FindFinds
<1>3. Sizes(buffer) \in [Slots -> Nat]
  BY <1>1, FindFinds
<1>4. N \in Nat \ {0} /\ Count(buffer) \in 0 .. N /\ buffer.entry \in [Slots -> Entry(Pointer)]
  BY <1>1, BufferFields, CountType
<1>5. a(j) \in Nat
  <2>1. j \in 0 .. N
    BY <1>4
  <2>. QED  BY <1>3, <2>1, SumBelowNat DEF AccumulatedBytes, Sizes
<1>6. ScanSlot(buffer, j) \in Slots
  BY <1>1, <1>4, ScanSlotValue
<1>. HIDE DEF found, a
<1>7. found.slot = ScanSlot(buffer, j) /\ found.byte = off - a(j)
  BY <1>2
<1>8. entry.size \in Nat /\ found.byte \in Nat /\ found.byte < entry.size
  <2>1. entry.size \in Nat
    BY <1>1, <1>4, <1>6, <1>7
  <2>. HIDE DEF entry
  <2>2. entry.size = buffer.entry[ScanSlot(buffer, j)].size
    BY <1>7 DEF entry
  <2>. QED  BY <1>2, <1>5, <1>7, <2>1, <2>2
<1>9. entry # ZeroEntry
  BY <1>8 DEF ZeroEntry
<1>10. entry.buffptr \in Addr /\ Block(entry.buffptr) \in Seq(Byte) /\ entry.size <= Len(Block(entry.buffptr))
  BY <1>6, <1>7, <1>9 DEF MemInv, EntryInv, Block
<1>. HIDE DEF entry
<1>11. /\ copied \in Nat /\ copied <= count /\ copied <= entry.size - found.byte
       /\ copied = count \/ copied = entry.size - found.byte
  <2>. DEFINE T == {entry.size - found.byte, count}
  <2>1. T \in SUBSET Nat /\ T # {} /\ entry.size - found.byte \in T /\ count \in T
    BY <1>8
  <2>2. copied = Min(T)
    BY DEF bytes_to_copy
  <2>3. \A k \in T : k = count \/ k = entry.size - found.byte
    OBVIOUS
  <2>. HIDE DEF T, copied
  <2>4. copied \in T /\ \A k \in T : copied <= k
    BY <2>1, <2>2, MinIs
  <2>. QED  BY <2>1, <2>3, <2>4
<1>. HIDE DEF copied
<1>12. found.byte + copied <= entry.size
  BY <1>8, <1>11
<1>13. /\ SubSeq(Block(entry.buffptr), found.byte + 1, found.byte + copied) \in Seq(Byte)
       /\ Len(SubSeq(Block(entry.buffptr), found.byte + 1, found.byte + copied)) = copied
  <2>. DEFINE s == Block(entry.buffptr)
              m == found.byte + 1
              k == found.byte + copied
  <2>1. m \in Int /\ k \in Int /\ s \in Seq(Byte) /\ \A i \in m .. k : i \in 1 .. Len(s)
    BY <1>8, <1>10, <1>11, <1>12
  <2>2. IF m <= k THEN (k - m) + 1 = copied ELSE copied = 0
    BY <1>8, <1>11
  <2>. HIDE DEF s, m, k
  <2>3. \A i \in m .. k : s[i] \in Byte
    BY <2>1
  <2>4. /\ SubSeq(s, m, k) \in Seq(Byte)
        /\ Len(SubSeq(s, m, k)) = IF m <= k THEN (k - m) + 1 ELSE 0
    <3>1. Len(SubSeq(s, m, k)) = IF m <= k THEN k - m + 1 ELSE 0
      BY <2>1, <2>3, SubSeqProperties
    <3>. QED  BY <2>1, <2>3, <3>1, SubSeqProperties
  <2>. QED  BY <2>2, <2>4 DEF s, m, k
<1>. QED  BY <1>2, <1>6, <1>7, <1>8, <1>9, <1>10, <1>11, <1>12, <1>13 DEF found, a, entry, copied

\* They hold when nothing is open.
LEMMA InitRest == Init => RestInv
  BY DriverAssumption DEF Init, RestInv, NoArg

\* And every step keeps them: positions stay in Nat, reads return bytes.
LEMMA NextRest == ControlInv /\ ArgInv /\ MemInv /\ RestInv /\ [Next]_vars => RestInv'
<1>. SUFFICES ASSUME ControlInv, ArgInv, MemInv, RestInv, [Next]_vars PROVE RestInv'
  OBVIOUS
<1>0. NULL \notin File /\ MaxWrites \in Nat /\ ReadCounts \subseteq Nat
  BY DriverAssumption
<1>. USE <1>0
<1>1. \A t \in Thread : pc[t] # "idle" => arg[t].file \in File
  BY DEF RestInv
<1>2. ASSUME NEW t \in Thread, Leave(t), UNCHANGED <<buff_size, opened, writes>>,
             f_pos' \in [File -> Nat]
      PROVE  RestInv'
  BY <1>2 DEF RestInv, Leave, Goto, NoArg, ControlInv
<1>3. ASSUME NEW t \in Thread, NEW l, Goto(t, l), pc[t] # "idle", l # "idle",
             UNCHANGED <<arg, opened, f_pos, writes>>, buff_size' \in Nat,
             pos' \in [Thread -> Nat], got' \in [Thread -> Seq(Byte)]
      PROVE  RestInv'
  BY <1>3 DEF RestInv, Goto, ControlInv
<1>4. ASSUME NEW t \in Thread, NEW f \in File, NEW l, NEW args, args.file = f, Enter(t, l, args), l # "idle",
             UNCHANGED <<buff_size, opened, f_pos, got>>, writes' \in 0 .. MaxWrites
      PROVE  RestInv'
  BY <1>4 DEF RestInv, Enter, Goto, ControlInv
<1>5. ASSUME NEW t \in Thread, NEW f \in File, SysCall(t, f) PROVE RestInv'
  <2>1. ASSUME NEW count \in ReadCounts, SysRead(t, f, count) PROVE RestInv'
    BY <1>4, <2>1 DEF SysRead, dev, RestInv
  <2>2. ASSUME NEW data \in Payload, SysWrite(t, f, data) PROVE RestInv'
    <3>1. writes' \in 0 .. MaxWrites
      <4>1. writes < MaxWrites /\ writes' = writes + 1 /\ writes \in 0 .. MaxWrites
        BY <2>2 DEF SysWrite, RestInv
      <4>. QED  BY <4>1
    <3>2. CASE UNCHANGED call
      BY <2>2, <3>1, <3>2 DEF SysWrite, dev, call, RestInv
    <3>3. CASE Enter(t, "write_copy", [file |-> f, data |-> data]) /\ got' = got
      BY <1>4, <2>2, <3>1, <3>3 DEF SysWrite, dev
    <3>. QED  BY <2>2, <3>2, <3>3 DEF SysWrite
  <2>3. ASSUME NEW seek \in Seeks, SysLlseek(t, f, seek) PROVE RestInv'
    BY <1>4, <2>3 DEF SysLlseek, dev, RestInv
  <2>4. ASSUME NEW seekto \in Seektos, SysIoctl(t, f, seekto) PROVE RestInv'
    BY <1>4, <2>4 DEF SysIoctl, dev, RestInv
  <2>. QED  BY <1>5, <2>1, <2>2, <2>3, <2>4 DEF SysCall
<1>6. ASSUME NEW t \in Thread, Step(t) PROVE RestInv'
  <2>1. CASE AcquireLock(t)
    <3>1. pc[t] # "idle" /\ Locked[pc[t]] # "idle"
      BY <2>1, LockedLabels DEF AcquireLock
    <3>. QED  BY <1>3, <2>1, <3>1 DEF AcquireLock, dev, RestInv
  <2>2. CASE LockInterrupted(t)
    BY <1>2, <2>2 DEF LockInterrupted, AfterInterrupt, dev, RestInv
  <2>3. CASE StorePos(t)
    <3>1. f_pos' \in [File -> Nat]
      BY <1>1, <2>3 DEF StorePos, RestInv
    <3>. QED  BY <1>2, <2>3, <3>1 DEF StorePos, dev
  <2>4. CASE aesd_read(t)
    <3>. DEFINE found == aesd_circular_buffer_find_entry_offset_for_fpos(buffer, pos[t])
                entry == buffer.entry[found.slot]
                copied == bytes_to_copy(entry.size - found.byte, arg[t].count)
                x == SubSeq(Block(entry.buffptr), found.byte + 1, found.byte + copied)
    <3>1. /\ pc[t] = "read" /\ UNCHANGED <<buff_size, opened, f_pos, writes>>
          /\ \/ Goto(t, "return") /\ UNCHANGED <<arg, pos, got>>
             \/ Leave(t)
             \/ /\ found # NULL /\ Goto(t, "return") /\ UNCHANGED arg
                /\ got' = [got EXCEPT ![t] = x]
                /\ pos' = [pos EXCEPT ![t] = @ + copied]
      BY <2>4 DEF aesd_read, dev
    <3>2. loaded /\ arg[t].count \in Nat /\ pos[t] \in Nat
      BY <3>1, HolderAlone, LockedLabels DEF ArgInv, RestInv
    <3>3. found # NULL => copied \in Nat /\ x \in Seq(Byte)
      BY <3>2, ReadCopies
    <3>. HIDE DEF copied, x, found
    <3>4. pos \in [Thread -> Nat] /\ got \in [Thread -> Seq(Byte)] /\ buff_size \in Nat /\ f_pos \in [File -> Nat]
      BY DEF RestInv
    <3>5. CASE Goto(t, "return") /\ UNCHANGED <<arg, pos, got>>
      BY <1>3, <3>1, <3>4, <3>5
    <3>6. CASE Leave(t)
      BY <1>2, <3>1, <3>4, <3>6
    <3>7. CASE /\ found # NULL /\ Goto(t, "return") /\ UNCHANGED arg
               /\ got' = [got EXCEPT ![t] = x]
               /\ pos' = [pos EXCEPT ![t] = @ + copied]
      <4>1. got' \in [Thread -> Seq(Byte)]
        BY <3>3, <3>4, <3>7
      <4>2. pos' \in [Thread -> Nat]
        BY <3>2, <3>3, <3>4, <3>7
      <4>. QED  BY <1>3, <3>1, <3>4, <3>7, <4>1, <4>2
    <3>. QED  BY <3>1, <3>5, <3>6, <3>7
  <2>5. CASE WriteCopy(t)
    BY <1>2, <1>3, <2>5 DEF WriteCopy, dev, RestInv
  <2>6. CASE WriteReserve(t)
    BY <1>3, <2>6 DEF WriteReserve, RestInv
  <2>7. CASE WriteReserveFails(t)
    BY <1>2, <2>7 DEF WriteReserveFails, RestInv
  <2>8. CASE WriteAppend(t)
    <3>1. pc[t] = "write_append" /\ Goto(t, "return") /\ UNCHANGED <<arg, opened, f_pos, writes, got>>
          /\ pos' = [pos EXCEPT ![t] = @ + append_index(t)]
      BY <2>8 DEF WriteAppend, retval
    <3>2. Block(write_data[t]) \in Seq(Byte)
      BY <3>1 DEF MemInv, DataInv, WriteLabels
    <3>3. append_index(t) \in Nat /\ write_buffer_size \in Nat /\ buff_size \in Nat
      BY <3>2, AppendIndexIs, AppendLenIs DEF MemInv, DeviceType, RestInv
    <3>4. buff_size' \in Nat
      BY <2>8, <3>3 DEF WriteAppend, CompleteCommand, buff_size_increment
    <3>5. pos' \in [Thread -> Nat] /\ got' \in [Thread -> Seq(Byte)]
      BY <3>1, <3>3 DEF RestInv
    <3>. QED  BY <1>3, <3>1, <3>4, <3>5
  <2>9. CASE aesd_llseek(t)
    <3>1. f_pos' \in [File -> Nat]
      BY <2>9 DEF aesd_llseek, RestInv
    <3>. QED  BY <1>2, <2>9, <3>1 DEF aesd_llseek, dev
  <2>10. CASE aesd_ioctl(t)
    BY <1>2, <1>3, <2>10 DEF aesd_ioctl, dev, RestInv
  <2>11. CASE aesd_adjust_file_offset(t)
    <3>. DEFINE cmd == arg[t].seekto.write_cmd
                off == arg[t].seekto.write_cmd_offset
                f == [i \in Slots |-> buffer.entry[i].size]
    <3>1. cmd \in Nat /\ off \in Nat
      BY <2>11, DriverAssumption DEF aesd_adjust_file_offset, ArgInv
    <3>2. f \in [Slots -> Nat]
      <4>1. buffer.entry \in [Slots -> Entry(Pointer)]
        BY BufferFields DEF MemInv, DeviceType
      <4>. QED  BY <4>1 DEF Entry
    <3>. HIDE DEF f
    <3>3. cmd < N => SumBelow(f, cmd) \in Nat
      BY <3>1, <3>2, SumBelowNat, NAssumption
    <3>4. updated_fpos_offset(cmd) = SumBelow(f, cmd)
      BY DEF updated_fpos_offset, f
    <3>5. f_pos' = IF cmd < N /\ off < buffer.entry[cmd].size
                   THEN [f_pos EXCEPT ![arg[t].file] = SumBelow(f, cmd) + off]
                   ELSE f_pos
      BY <2>11, <3>4 DEF aesd_adjust_file_offset
    <3>. HIDE DEF cmd, off
    <3>6. f_pos' \in [File -> Nat]
      <4>1. f_pos \in [File -> Nat]
        BY DEF RestInv
      <4>2. cmd < N => SumBelow(f, cmd) + off \in Nat
        BY <3>1, <3>3
      <4>. QED  BY <3>5, <4>1, <4>2
    <3>. QED  BY <1>2, <2>11, <3>6 DEF aesd_adjust_file_offset, dev
  <2>. QED  BY <1>6, <2>1, <2>2, <2>3, <2>4, <2>5, <2>6, <2>7, <2>8, <2>9, <2>10, <2>11 DEF Step
<1>7. CASE aesd_init_module \/ aesd_cleanup_module
  <2>1. UNCHANGED <<opened, f_pos, pc, arg, pos, got, writes>> /\ buff_size' \in {0, buff_size}
    BY <1>7 DEF aesd_init_module, aesd_cleanup_module, dev, call
  <2>. QED  BY <2>1 DEF RestInv
<1>8. ASSUME NEW f \in File, Open(f) \/ Release(f) PROVE RestInv'
  BY <1>8 DEF Open, Release, dev, call, RestInv
<1>9. CASE UNCHANGED vars
  BY <1>9 DEF vars, dev, call, RestInv
<1>. QED  BY <1>5, <1>6, <1>7, <1>8, <1>9 DEF Next

\* A block behind write_buffer is never left with nothing written to it.
LEMMA AppendGrows ==
  ASSUME MemInv, NEW t \in Thread, NEW x, AppendEffect(t, x), ~newline_found(t), write_buffer \in Addr
  PROVE  write_buffer_size' > 0
<1>1. pc[t] = "write_append" /\ write_buffer_size' = write_buffer_size + append_index(t)
  BY DEF AppendEffect
<1>. DEFINE d == Block(write_data[t])
<1>2. d \in Seq(Byte)
  BY <1>1 DEF MemInv, DataInv, WriteLabels
<1>3. append_index(t) = Len(d)
  BY DEF append_index
<1>4. write_buffer_size > 0 \/ d # << >>
  BY <1>1 DEF MemInv, AppendInv
<1>5. write_buffer_size \in Nat
  BY DEF MemInv, DeviceType
<1>. HIDE DEF d
<1>6. (d # << >> => Len(d) > 0) /\ Len(d) \in Nat
  BY <1>2, EmptySeq
<1>. QED  BY <1>1, <1>3, <1>4, <1>5, <1>6

\* Between two commands write_buffer still points to the last one stored.
StaleInv ==
  loaded /\ ~Pending /\ write_buffer \in Addr =>
    \E i \in Slots : buffer.entry[i].buffptr = write_buffer

\* There is no write_buffer at first.
LEMMA InitStale == Init => StaleInv
  BY DEF Init, StaleInv

\* The step that completes a command leaves write_buffer pointing to the
\* block it has just stored, the newest entry, which is evicted last.
LEMMA EffectStale == ControlInv /\ MemInv /\ StaleInv /\ Effect => StaleInv'
<1>. SUFFICES ASSUME ControlInv, MemInv, StaleInv, Effect, loaded', ~Pending', write_buffer' \in Addr
              PROVE  \E i \in Slots : buffer'.entry[i].buffptr = write_buffer'
  BY DEF StaleInv
<1>. USE DriverAssumption
<1>1. CASE CallEffect
  <2>1. Pending' <=> Pending
    BY <1>1 DEF Pending, Appending, CallEffect, WriteLabels
  <2>. QED  BY <1>1, <2>1 DEF CallEffect, StaleInv
<1>2. ASSUME NEW t \in Thread, NEW p, DataEffect(t, p)
      PROVE  \E i \in Slots : buffer'.entry[i].buffptr = write_buffer'
  <2>1. Pending' <=> Pending
    BY <1>2 DEF Pending, Appending, DataEffect
  <2>2. write_buffer' = write_buffer
    BY <1>2 DEF DataEffect, WriteReserveFails
  <2>. QED  BY <1>2, <2>1, <2>2 DEF DataEffect, StaleInv
<1>3. ASSUME NEW t \in Thread, NEW x, ReserveEffect(t, x) PROVE FALSE
  BY <1>3 DEF ReserveEffect, Goto, Pending, Appending, ControlInv
<1>4. ASSUME NEW t \in Thread, NEW x, AppendEffect(t, x)
      PROVE  \E i \in Slots : buffer'.entry[i].buffptr = write_buffer'
  <2>1. pc[t] = "write_append" /\ write_buffer' = write_buffer
    BY <1>4 DEF AppendEffect
  <2>2. CASE newline_found(t)
    <3>. DEFINE e == [buffptr |-> write_buffer, size |-> write_buffer_size + append_index(t)]
    <3>1. buffer' = aesd_circular_buffer_add_entry(buffer, e)
      BY <1>4, <2>2 DEF AppendEffect
    <3>2. buffer.entry \in [Slots -> Entry(Pointer)] /\ buffer.in_offs \in Slots
      BY BufferFields DEF MemInv, DeviceType
    <3>. HIDE DEF e
    <3>3. buffer'.entry = [buffer.entry EXCEPT ![buffer.in_offs] = e]
      BY <3>1 DEF aesd_circular_buffer_add_entry
    <3>4. buffer'.entry[buffer.in_offs] = e
      BY <3>2, <3>3
    <3>. QED  BY <2>1, <3>2, <3>4 DEF e
  <2>3. CASE ~newline_found(t)
    <3>1. write_buffer_size' > 0
      BY <1>4, <2>1, <2>3, AppendGrows
    <3>. QED  BY <3>1 DEF Pending
  <2>. QED  BY <2>2, <2>3
<1>5. CASE aesd_init_module \/ aesd_cleanup_module
  BY <1>5 DEF aesd_init_module, aesd_cleanup_module
<1>. QED  BY <1>1, <1>2, <1>3, <1>4, <1>5 DEF Effect

\* Only the debug output of a completed command sets the flag.
LEMMA NextOverread ==
  ASSUME overread \in BOOLEAN, [Next]_vars
  PROVE  overread' \in BOOLEAN
<1>1. ASSUME NEW t \in Thread, Step(t) PROVE overread' \in BOOLEAN
  BY <1>1 DEF Step, AcquireLock, LockInterrupted, StorePos, aesd_read, WriteCopy, WriteReserve,
              WriteReserveFails, WriteAppend, CompleteCommand, PrintBuffer, aesd_llseek,
              aesd_ioctl, aesd_adjust_file_offset
<1>2. ASSUME NEW t \in Thread, NEW f \in File, SysCall(t, f) PROVE UNCHANGED overread
  BY <1>2 DEF SysCall, SysRead, SysWrite, SysLlseek, SysIoctl
<1>3. ASSUME NEW f \in File, Open(f) \/ Release(f) PROVE UNCHANGED overread
  BY <1>3 DEF Open, Release
<1>4. CASE aesd_init_module \/ aesd_cleanup_module \/ UNCHANGED vars
  BY <1>4 DEF aesd_init_module, aesd_cleanup_module, vars
<1>. QED  BY <1>1, <1>2, <1>3, <1>4 DEF Next

(***************************************************************************)
(* The inductive invariant of the driver.                                  *)
(***************************************************************************)
IInv == ControlInv /\ ArgInv /\ MemInv /\ RestInv /\ StaleInv /\ overread \in BOOLEAN

\* The inductive invariant holds initially.
LEMMA InitIInv == Init => IInv
<1>1. Init => overread \in BOOLEAN
  BY DEF Init
<1>. QED  BY <1>1, InitControl, InitArg, InitMem, InitRest, InitStale DEF IInv

\* Every step preserves it.
LEMMA NextIInv == IInv /\ [Next]_vars => IInv'
  BY NextControl, NextArg, NextEffect, EffectMem, EffectStale, NextRest, NextOverread DEF IInv

\* Type correctness: for any threads, files, memory, payloads, seeks and
\* failing kernel calls the state of main.c stays within its types; in
\* particular a position, a size and buff_size never become negative.
THEOREM TypeCorrect == Spec => []TypeOK
<1>1. IInv => TypeOK
  BY DEF IInv, ControlInv, MemInv, HeapType, DeviceType, CallType, RestInv, TypeOK
<1>. QED  BY <1>1, InitIInv, NextIInv, PTL DEF Spec

\* A set whose elements are all the same has at most one.
LEMMA AtMostOne ==
  ASSUME NEW S, \A x, y \in S : x = y
  PROVE  Cardinality(S) <= 1
<1>1. CASE S = {}
  BY <1>1, FS_EmptySet
<1>2. CASE S # {}
  <2>1. PICK x \in S : TRUE
    BY <1>2
  <2>2. S = {x}
    BY <2>1
  <2>. QED  BY <2>2, FS_Singleton
<1>. QED  BY <1>1, <1>2

\* What it takes to be an owner of a block.
LEMMA OwnersAre ==
  ASSUME NEW a \in Addr, NEW o
  PROVE  o \in Owners(a) <=>
           \/ \E i \in Slots : o = <<"entry", i>> /\ loaded /\ buffer.entry[i].buffptr = a
           \/ o = <<"write_buffer", a>> /\ loaded /\ Pending /\ write_buffer = a
           \/ \E t \in Thread : o = <<"write_data", t>> /\ write_data[t] = a
  BY DEF Owners

\* No block has two owners, and what has an owner is allocated.
LEMMA OwnersApart ==
  ASSUME IInv, NEW a \in Addr
  PROVE  /\ \A x, y \in Owners(a) : x = y
         /\ Owners(a) # {} => heap[a] \in Seq(Byte)
<1>. USE DriverAssumption
<1>1. \A i \in Slots : loaded /\ buffer.entry[i].buffptr = a =>
        /\ heap[a] \in Seq(Byte)
        /\ \A j \in Slots : buffer.entry[j].buffptr = a => i = j
        /\ \A t \in Thread : write_data[t] # a
  BY DEF IInv, MemInv, EntryInv, ZeroEntry
<1>2. loaded /\ Pending /\ write_buffer = a =>
        /\ heap[a] \in Seq(Byte)
        /\ \A i \in Slots : buffer.entry[i].buffptr # a
        /\ \A t \in Thread : write_data[t] # a
  BY DEF IInv, MemInv, PendingInv
<1>3. \A t \in Thread : write_data[t] = a =>
        /\ heap[a] \in Seq(Byte)
        /\ \A u \in Thread : write_data[u] = a => t = u
  BY DEF IInv, MemInv, DataInv, Block
<1>4. \A x, y \in Owners(a) : x = y
  <2>. SUFFICES ASSUME NEW x \in Owners(a), NEW y \in Owners(a) PROVE x = y
    OBVIOUS
  <2>1. \/ \E i \in Slots : x = <<"entry", i>> /\ loaded /\ buffer.entry[i].buffptr = a
        \/ x = <<"write_buffer", a>> /\ loaded /\ Pending /\ write_buffer = a
        \/ \E t \in Thread : x = <<"write_data", t>> /\ write_data[t] = a
    BY OwnersAre
  <2>2. \/ \E i \in Slots : y = <<"entry", i>> /\ loaded /\ buffer.entry[i].buffptr = a
        \/ y = <<"write_buffer", a>> /\ loaded /\ Pending /\ write_buffer = a
        \/ \E t \in Thread : y = <<"write_data", t>> /\ write_data[t] = a
    BY OwnersAre
  <2>. QED  BY <1>1, <1>2, <1>3, <2>1, <2>2
<1>5. Owners(a) # {} => heap[a] \in Seq(Byte)
  BY <1>1, <1>2, <1>3, OwnersAre
<1>. QED  BY <1>4, <1>5

\* Memory safety follows from the inductive invariant.
LEMMA HeapSafeFollows == IInv => HeapSafe
<1>. SUFFICES ASSUME IInv, loaded PROVE HeapSafe
  BY DEF HeapSafe
<1>1. \A a \in Addr : Cardinality(Owners(a)) <= 1
  BY OwnersApart, AtMostOne
<1>2. \A a \in Addr : Owners(a) # {} => heap[a] # FREE
  BY OwnersApart, DriverAssumption
<1>3. \A i \in Slots : buffer.entry[i].buffptr # NULL =>
                          buffer.entry[i].size \in 1 .. Len(Block(buffer.entry[i].buffptr))
  BY DEF IInv, MemInv, EntryInv, ZeroEntry, Block
<1>4. write_buffer \in Addr /\ write_buffer_size > 0 => write_buffer_size <= Len(Block(write_buffer))
  BY DEF IInv, MemInv, PendingInv, Pending, Block
<1>5. \A t \in Thread : pc[t] = "write_append" =>
                          write_buffer_size + append_index(t) <= Len(Block(write_buffer))
  BY DEF IInv, MemInv, AppendInv
<1>. QED  BY <1>1, <1>2, <1>3, <1>4, <1>5 DEF HeapSafe

\* Memory safety of main.c: no double free, no use after kfree and no copy by
\* size that leaves its block, whatever the interleaving of the calls and
\* whichever of the kernel's calls fail, a krealloc that fails in the middle of
\* a command and leaves write_buffer_size behind included.  The debug output's
\* read of a string is not one of these (ReadsStayInside).
THEOREM HeapSafety == Spec => []HeapSafe
  BY InitIInv, NextIInv, HeapSafeFollows, PTL DEF Spec

\* A step after which an allocated block has no owner is one of the three.
LEMMA LeakStep ==
  ASSUME IInv, IInv', Effect, NEW a \in Addr,
         heap[a] # FREE, Owners(a) # {}, heap'[a] # FREE, Owners(a)' = {}
  PROVE  LostByInterrupt(a) \/ LostByKrealloc(a) \/ LostByUnload(a)
<1>. USE DriverAssumption
<1>1. PICK o : o \in Owners(a)
  OBVIOUS
<1>2. /\ \A i \in Slots : ~(loaded' /\ buffer'.entry[i].buffptr = a)
      /\ ~(loaded' /\ Pending' /\ write_buffer' = a)
      /\ \A t \in Thread : write_data'[t] # a
  <2>1. \A p : p \notin (Owners(a))'
    OBVIOUS
  <2>2. ASSUME NEW i \in Slots, loaded', buffer'.entry[i].buffptr = a PROVE FALSE
    <3>1. <<"entry", i>> \in (Owners(a))'
      BY <2>2 DEF Owners
    <3>. QED  BY <2>1, <3>1
  <2>3. ASSUME loaded', Pending', write_buffer' = a PROVE FALSE
    <3>1. <<"write_buffer", a>> \in (Owners(a))'
      BY <2>3 DEF Owners
    <3>. QED  BY <2>1, <3>1
  <2>4. ASSUME NEW t \in Thread, write_data'[t] = a PROVE FALSE
    <3>1. <<"write_data", t>> \in (Owners(a))'
      BY <2>4 DEF Owners
    <3>. QED  BY <2>1, <3>1
  <2>. QED  BY <2>2, <2>3, <2>4
<1>3. CASE CallEffect
  <2>1. Pending' <=> Pending
    BY <1>3 DEF Pending, Appending, CallEffect, WriteLabels
  <2>. QED  BY <1>1, <1>2, <1>3, <2>1, OwnersAre DEF CallEffect
<1>4. ASSUME NEW t \in Thread, NEW p, DataEffect(t, p)
      PROVE  LostByInterrupt(a) \/ LostByKrealloc(a) \/ LostByUnload(a)
  <2>1. Pending' <=> Pending
    BY <1>4 DEF Pending, Appending, DataEffect
  <2>2. UNCHANGED <<loaded, buffer>>
    BY <1>4 DEF DataEffect
  <2>3. CASE loaded /\ Pending /\ write_buffer = a
    <3>1. WriteReserveFails(t)
      BY <1>2, <1>4, <2>1, <2>2, <2>3 DEF DataEffect
    <3>2. pc[t] = "write_reserve" /\ pc'[t] = "idle"
      BY <3>1 DEF WriteReserveFails, Leave, Goto, IInv, ControlInv
    <3>. QED  BY <2>3, <3>2 DEF LostByKrealloc
  <2>4. ASSUME NEW u \in Thread, write_data[u] = a PROVE LostByInterrupt(a)
    <3>1. u = t
      BY <1>2, <1>4, <2>4 DEF DataEffect
    <3>. QED  BY <1>2, <1>4, <2>4, <3>1 DEF DataEffect
  <2>. QED  BY <1>1, <1>2, <2>2, <2>3, <2>4, OwnersAre
<1>5. ASSUME NEW t \in Thread, NEW x, ReserveEffect(t, x) PROVE FALSE
  <2>1. pc[t] = "write_reserve" /\ pc'[t] = "write_append" /\ UNCHANGED <<loaded, buffer, write_data>>
    BY <1>5 DEF ReserveEffect, Goto, IInv, ControlInv
  <2>2. loaded /\ \A u \in Thread : pc[u] # "write_append"
    BY <2>1, HolderAlone, LockedLabels DEF IInv
  <2>3. Pending'
    BY <2>1 DEF Pending, Appending
  <2>4. CASE Pending /\ write_buffer = a
    <3>1. write_buffer_size > 0
      BY <2>2, <2>4 DEF Pending, Appending
    <3>2. write_buffer' # a
      BY <1>2, <2>1, <2>2, <2>3
    <3>. QED  BY <1>5, <2>4, <3>1, <3>2 DEF ReserveEffect
  <2>. QED  BY <1>1, <1>2, <2>1, <2>4, OwnersAre
<1>6. ASSUME NEW t \in Thread, NEW x, AppendEffect(t, x) PROVE FALSE
  <2>1. pc[t] = "write_append" /\ UNCHANGED <<loaded, write_buffer>>
    BY <1>6 DEF AppendEffect
  <2>2. loaded
    BY <2>1, HolderAlone, LockedLabels DEF IInv
  <2>3. a # write_data[t] /\ a # Evicted(t)
    BY <1>6 DEF AppendEffect
  <2>4. \A u \in Thread : write_data[u] # a
    BY <1>2, <1>6, <2>3 DEF AppendEffect
  <2>. DEFINE e == [buffptr |-> write_buffer, size |-> write_buffer_size + append_index(t)]
  <2>5. newline_found(t) =>
          \A i \in Slots : buffer'.entry[i] = IF i = buffer.in_offs THEN e ELSE buffer.entry[i]
    <3>. SUFFICES ASSUME newline_found(t), NEW i \in Slots
                  PROVE  buffer'.entry[i] = IF i = buffer.in_offs THEN e ELSE buffer.entry[i]
      OBVIOUS
    <3>1. buffer' = aesd_circular_buffer_add_entry(buffer, e)
      BY <1>6 DEF AppendEffect
    <3>2. buffer.entry \in [Slots -> Entry(Pointer)]
      BY BufferFields DEF IInv, MemInv, DeviceType
    <3>. HIDE DEF e
    <3>3. buffer'.entry = [buffer.entry EXCEPT ![buffer.in_offs] = e]
      BY <3>1 DEF aesd_circular_buffer_add_entry
    <3>. QED  BY <3>2, <3>3
  <2>6. buffer.in_offs \in Slots
    BY BufferFields DEF IInv, MemInv, DeviceType
  <2>7. CASE write_buffer = a
    <3>1. CASE newline_found(t)
      BY <1>2, <2>1, <2>2, <2>5, <2>6, <2>7, <3>1
    <3>2. CASE ~newline_found(t)
      <4>5. write_buffer_size' > 0
        BY <1>6, <2>7, <3>2, AppendGrows DEF IInv
      <4>. QED  BY <1>2, <2>1, <2>2, <2>7, <4>5 DEF Pending
    <3>. QED  BY <3>1, <3>2
  <2>8. ASSUME NEW i \in Slots, buffer.entry[i].buffptr = a PROVE FALSE
    <3>1. CASE ~newline_found(t)
      <4>1. buffer' = buffer
        BY <1>6, <3>1 DEF AppendEffect
      <4>. QED  BY <1>2, <2>1, <2>2, <2>8, <4>1
    <3>2. CASE newline_found(t)
      <4>1. i = buffer.in_offs
        BY <1>2, <2>1, <2>2, <2>5, <2>8, <3>2
      <4>2. buffer.entry[i] # ZeroEntry
        BY <2>8 DEF ZeroEntry
      <4>3. buffer.full
        BY <4>1, <4>2, BufferFields DEF IInv, MemInv, DeviceType, BufferInv, Slots
      <4>. QED  BY <2>3, <2>8, <3>2, <4>1, <4>3 DEF Evicted
    <3>. QED  BY <3>1, <3>2
  <2>. QED  BY <1>1, <2>4, <2>7, <2>8, OwnersAre
<1>7. CASE aesd_init_module \/ aesd_cleanup_module
  <2>1. UNCHANGED write_data
    BY <1>7 DEF aesd_init_module, aesd_cleanup_module, call
  <2>2. loaded
    BY <1>1, <1>2, <2>1, OwnersAre
  <2>3. aesd_cleanup_module
    BY <1>7, <2>2 DEF aesd_init_module
  <2>4. \A i \in Slots : buffer.entry[i].buffptr # a
    BY <2>3 DEF aesd_cleanup_module
  <2>5. Pending /\ write_buffer = a
    BY <1>1, <1>2, <2>1, <2>4, OwnersAre
  <2>6. ~Appending
    BY <2>3 DEF aesd_cleanup_module, Appending, IInv, ControlInv
  <2>. QED  BY <2>2, <2>3, <2>5, <2>6 DEF aesd_cleanup_module, Pending, LostByUnload
<1>. QED  BY <1>3, <1>4, <1>5, <1>6, <1>7 DEF Effect

\* Memory is lost in three places of main.c only: a write interrupted at the
\* mutex, a krealloc that fails, an unload with an unfinished command.
THEOREM Leaks == Spec => LeaksOnlyWhereKnown
<1>1. ASSUME IInv, IInv', [Next]_vars
      PROVE  [\A a \in Addr :
                heap[a] # FREE /\ Owners(a) # {} /\ heap'[a] # FREE /\ Owners(a)' = {}
                  => LostByInterrupt(a) \/ LostByKrealloc(a) \/ LostByUnload(a)]_vars
  BY <1>1, NextEffect, LeakStep DEF IInv
<1>. QED  BY <1>1, InitIInv, NextIInv, PTL DEF Spec, LeaksOnlyWhereKnown

\* The block behind write_buffer is allocated at all times, and nobody's write_data.
LEMMA WriteBufferLive ==
  ASSUME IInv, loaded, write_buffer \in Addr
  PROVE  heap[write_buffer] \in Seq(Byte) /\ \A t \in Thread : write_data[t] # write_buffer
<1>1. CASE Pending
  BY <1>1 DEF IInv, MemInv, PendingInv
<1>2. CASE ~Pending
  <2>1. PICK i \in Slots : buffer.entry[i].buffptr = write_buffer
    BY <1>2 DEF IInv, StaleInv
  <2>2. buffer.entry[i] # ZeroEntry
    BY <2>1, DriverAssumption DEF ZeroEntry
  <2>. QED  BY <2>1, <2>2 DEF IInv, MemInv, EntryInv
<1>. QED  BY <1>1, <1>2

\* Every step but a krealloc that fails in the middle of a command keeps
\* write_buffer_size at the number of bytes written to write_buffer.
LEMMA AmountStep ==
  ASSUME IInv, Effect, AmountStored, ~AmountStored'
  PROVE  \E t \in Thread : WriteReserveFails(t) /\ write_buffer_size > 0
<1>. USE DriverAssumption
<1>0. write_buffer_size \in Nat
  BY DEF IInv, MemInv, DeviceType
<1>1. loaded'
  BY DEF AmountStored
<1>2. CASE CallEffect
  BY <1>2 DEF CallEffect, AmountStored, Block
<1>3. ASSUME NEW t \in Thread, NEW p, DataEffect(t, p)
      PROVE  WriteReserveFails(t) /\ write_buffer_size > 0
  <2>1. UNCHANGED <<loaded, write_buffer_size>>
    BY <1>3 DEF DataEffect
  <2>2. CASE WriteReserveFails(t)
    <3>1. (Block(write_buffer))' = << >>
      BY <2>2 DEF WriteReserveFails, Block
    <3>2. write_buffer_size # 0
      BY <2>1, <3>1 DEF AmountStored
    <3>. QED  BY <1>0, <2>2, <3>2
  <2>3. CASE ~WriteReserveFails(t)
    <3>1. write_buffer' = write_buffer
      BY <1>3, <2>3 DEF DataEffect
    <3>2. write_buffer \in Addr => heap'[write_buffer] = heap[write_buffer]
      BY <1>1, <1>3, <2>1, WriteBufferLive DEF DataEffect
    <3>3. (Block(write_buffer))' = Block(write_buffer)
      BY <3>1, <3>2 DEF Block
    <3>. QED  BY <2>1, <3>3 DEF AmountStored
  <2>. QED  BY <2>2, <2>3
<1>4. ASSUME NEW t \in Thread, NEW x, ReserveEffect(t, x) PROVE FALSE
  <2>1. UNCHANGED <<loaded, write_buffer_size>> /\ x \in Seq(Byte) /\ Len(x) \in Nat
    BY <1>4 DEF ReserveEffect
  <2>2. Len((Block(write_buffer))') = Len(x) /\ (write_buffer' \in Addr => (Block(write_buffer))' = x)
    BY <1>4 DEF ReserveEffect, Block
  <2>3. pc[t] = "write_reserve" /\ write_buffer_size + append_index(t) <= Len(x)
    BY <1>4 DEF ReserveEffect
  <2>4. append_index(t) \in Nat
    <3>1. Block(write_data[t]) \in Seq(Byte)
      BY <2>3 DEF IInv, MemInv, DataInv, WriteLabels
    <3>. QED  BY <3>1, AppendIndexIs, AppendLenIs
  <2>5. write_buffer_size <= Len(x)
    BY <1>0, <2>1, <2>3, <2>4
  <2>6. PICK i \in 1 .. write_buffer_size : (Block(write_buffer))'[i] = Junk
    BY <2>1, <2>2, <2>5 DEF AmountStored
  <2>7. write_buffer_size > 0 /\ Len(x) > 0
    BY <1>0, <2>1, <2>5, <2>6
  <2>8. (Block(write_buffer))' = x
    BY <1>4, <2>2, <2>7 DEF ReserveEffect
  <2>9. write_buffer_size <= Len(Block(write_buffer)) /\ Block(write_buffer)[i] # Junk
    BY <1>1, <2>1 DEF AmountStored
  <2>10. Len(Block(write_buffer)) \in Nat
    <3>1. Block(write_buffer) \in Seq(Byte)
      BY <1>1, <2>1, WriteBufferLive DEF Block
    <3>. QED  BY <3>1
  <2>11. i <= Len(Block(write_buffer))
    BY <1>0, <2>9, <2>10
  <2>12. x[i] = Block(write_buffer)[i]
    BY <1>4, <2>7, <2>11 DEF ReserveEffect
  <2>. QED  BY <2>6, <2>8, <2>9, <2>12
<1>5. ASSUME NEW t \in Thread, NEW x, AppendEffect(t, x) PROVE FALSE
  <2>1. pc[t] = "write_append" /\ UNCHANGED <<loaded, write_buffer>> /\ x \in Seq(Byte) /\ Len(x) = Len(Block(write_buffer)) /\ Len(x) \in Nat
    BY <1>5 DEF AppendEffect
  <2>2. /\ Block(write_data[t]) \in Seq(Byte) /\ Block(write_data[t]) = arg[t].data
        /\ arg[t].data \in Payload
    BY <2>1 DEF IInv, MemInv, DataInv, ArgInv, WriteLabels
  <2>3. append_index(t) \in 0 .. Len(Block(write_data[t])) /\ append_index(t) \in Nat
    BY <2>2, AppendIndexIs, AppendLenIs
  <2>. DEFINE n == write_buffer_size + append_index(t)
  <2>4. n \in Nat /\ n <= Len(x)
    BY <1>0, <2>1, <2>3 DEF IInv, MemInv, AppendInv
  <2>5. (Block(write_buffer))' = IF write_buffer \in Addr THEN x ELSE << >>
    <3>1. CASE write_buffer \in Addr
      <4>1. \A u \in Thread : write_data[u] # write_buffer
        BY <1>1, <2>1, <3>1, WriteBufferLive
      <4>2. \A i \in Slots : buffer.entry[i].buffptr # write_buffer
        BY <1>1, <2>1, <3>1 DEF IInv, MemInv, PendingInv, Pending, Appending
      <4>3. Evicted(t) # write_buffer
        BY <1>1, <2>1, <3>1, <4>2, EvictedIs DEF IInv
      <4>. QED  BY <1>5, <2>1, <3>1, <4>1, <4>3 DEF AppendEffect, Block
    <3>2. CASE write_buffer \notin Addr
      BY <2>1, <3>2 DEF Block
    <3>. QED  BY <3>1, <3>2
  <2>6. Len((Block(write_buffer))') = Len(x)
    BY <2>1, <2>5 DEF Block
  <2>7. CASE newline_found(t)
    <3>1. write_buffer_size' = 0
      BY <1>5, <2>7 DEF AppendEffect
    <3>. QED  BY <2>1, <2>6, <3>1 DEF AmountStored
  <2>8. CASE ~newline_found(t)
    <3>1. write_buffer_size' = n
      BY <1>5, <2>8 DEF AppendEffect
    <3>. HIDE DEF n
    <3>2. PICK i \in 1 .. n : (Block(write_buffer))'[i] = Junk
      BY <2>4, <2>6, <3>1 DEF AmountStored
    <3>3. i \in 1 .. Len(x) /\ Len(x) > 0
      BY <2>1, <2>4, <3>2
    <3>4. (Block(write_buffer))' = x
      BY <2>1, <2>5, <3>3 DEF Block
    <3>5. x[i] = IF i \in write_buffer_size + 1 .. write_buffer_size + append_index(t)
                 THEN Block(write_data[t])[i - write_buffer_size]
                 ELSE Block(write_buffer)[i]
      BY <1>5, <3>3 DEF AppendEffect
    <3>6. CASE i \in write_buffer_size + 1 .. write_buffer_size + append_index(t)
      <4>1. i - write_buffer_size \in 1 .. Len(arg[t].data)
        BY <1>0, <2>2, <2>3, <3>6
      <4>. QED  BY <2>2, <3>2, <3>4, <3>5, <3>6, <4>1, PayloadType
    <3>7. CASE i \notin write_buffer_size + 1 .. write_buffer_size + append_index(t)
      <4>1. i \in 1 .. write_buffer_size
        BY <1>0, <2>3, <3>2, <3>7 DEF n
      <4>2. Block(write_buffer)[i] # Junk
        BY <1>1, <2>1, <4>1 DEF AmountStored
      <4>. QED  BY <3>2, <3>4, <3>5, <3>7, <4>2
    <3>. QED  BY <3>6, <3>7
  <2>. QED  BY <2>7, <2>8
<1>6. CASE aesd_init_module \/ aesd_cleanup_module
  <2>1. aesd_init_module
    BY <1>1, <1>6 DEF aesd_cleanup_module
  <2>2. (Block(write_buffer))' = << >> /\ write_buffer_size' = 0
    BY <2>1 DEF aesd_init_module, Block
  <2>. QED  BY <2>2 DEF AmountStored
<1>. QED  BY <1>2, <1>3, <1>4, <1>5, <1>6 DEF Effect

\* write_buffer_size is the amount of data in write_buffer, as aesdchar.h
\* says, until a krealloc fails in the middle of a command.
THEOREM Amount == Spec => AmountStoredUnlessKreallocFails
<1>1. ASSUME IInv, [Next]_vars
      PROVE  [AmountStored /\ ~AmountStored'
                => \E t \in Thread : WriteReserveFails(t) /\ write_buffer_size > 0]_vars
  BY <1>1, NextEffect, AmountStep DEF IInv
<1>. QED  BY <1>1, InitIInv, NextIInv, PTL DEF Spec, AmountStoredUnlessKreallocFails

=============================================================================
