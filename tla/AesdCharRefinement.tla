------------------------- MODULE AesdCharRefinement -------------------------
(***************************************************************************)
(* Proofs that the driver does what programs are told it does: it keeps a  *)
(* log of commands, reads return the bytes of the log, buff_size covers    *)
(* them, and to programs whose calls on one open file do not overlap every *)
(* call happens at once.                                                   *)
(***************************************************************************)
EXTENDS AesdCharProofs

\* The first n bytes of a string.
LEMMA PrefixIs ==
  ASSUME NEW S, NEW s \in Seq(S), NEW n \in 0 .. Len(s)
  PROVE  /\ SubSeq(s, 1, n) \in Seq(S) /\ Len(SubSeq(s, 1, n)) = n
         /\ \A i \in 1 .. n : SubSeq(s, 1, n)[i] = s[i]
<1>1. Len(s) \in Nat /\ \A i \in 1 .. n : s[i] \in S
  <2>1. Len(s) \in Nat
    BY LenProperties
  <2>. QED  BY <2>1, ElementOfSeq
<1>2. /\ SubSeq(s, 1, n) \in Seq(S)
      /\ Len(SubSeq(s, 1, n)) = IF 1 <= n THEN n - 1 + 1 ELSE 0
      /\ \A i \in 1 .. n - 1 + 1 : SubSeq(s, 1, n)[i] = s[1 + i - 1]
  <2>1. n \in Int
    BY <1>1
  <2>. QED  BY <1>1, <2>1, SubSeqProperties
<1>3. n - 1 + 1 = n /\ n \in Nat /\ (IF 1 <= n THEN n ELSE 0) = n /\ \A i \in 1 .. n : 1 + i - 1 = i
  BY <1>1
<1>. QED  BY <1>2, <1>3

(***************************************************************************)
(* The stored commands, as a function of memory and of the buffer.         *)
(***************************************************************************)
BytesIn(h, e) == SubSeq(IF e.buffptr \in Addr THEN h[e.buffptr] ELSE << >>, 1, e.size)

\* Commands before and after a step.
LEMMA CommandsAre ==
  /\ Commands = [k \in 1 .. Count(buffer) |-> BytesIn(heap, Contents(buffer)[k])]
  /\ Commands' = [k \in 1 .. Count(buffer') |-> BytesIn(heap', Contents(buffer')[k])]
  BY DEF Commands, EntryBytes, Block, BytesIn

\* The stored commands are the bytes of the entries in use, oldest first.
LEMMA StoredCommands ==
  ASSUME IInv, loaded
  PROVE  /\ Count(buffer) \in 0 .. N /\ (Count(buffer) = N <=> buffer.full)
         /\ Commands \in Seq(Seq(Byte)) /\ Len(Commands) = Count(buffer)
         /\ \A k \in 1 .. Count(buffer) :
              LET e == Contents(buffer)[k]
              IN  /\ ScanSlot(buffer, k - 1) \in Slots
                  /\ e = buffer.entry[ScanSlot(buffer, k - 1)] /\ e # ZeroEntry
                  /\ e.buffptr \in Addr /\ heap[e.buffptr] \in Seq(Byte)
                  /\ e.size \in 1 .. Len(heap[e.buffptr])
                  /\ Commands[k] = BytesIn(heap, e)
                  /\ Commands[k] \in Seq(Byte) /\ Len(Commands[k]) = e.size
<1>1. buffer \in Buffer(Entry(Pointer)) /\ BufferInv
  BY DEF IInv, MemInv, DeviceType
<1>. DEFINE c == Contents(buffer)
            n == Count(buffer)
<1>2. /\ N \in Nat \ {0} /\ buffer.in_offs \in 0 .. N - 1 /\ buffer.out_offs \in 0 .. N - 1
      /\ buffer.full \in BOOLEAN
  BY <1>1, BufferFields
<1>3. /\ n \in 0 .. N /\ (n = N <=> buffer.full)
      /\ \A k \in 1 .. n : c[k] = buffer.entry[ScanSlot(buffer, k - 1)]
  BY <1>1, CountType
<1>4. ASSUME NEW k \in 1 .. n
      PROVE  ScanSlot(buffer, k - 1) \in Slots /\ c[k] # ZeroEntry
  <2>. DEFINE i == ScanSlot(buffer, k - 1)
  <2>1. k - 1 \in 0 .. N - 1
    BY <1>2, <1>3
  <2>2. i \in Slots /\ i = IF buffer.out_offs + (k - 1) < N THEN buffer.out_offs + (k - 1)
                           ELSE buffer.out_offs + (k - 1) - N
    BY <1>1, <2>1, ScanSlotValue, Zenon
  <2>3. buffer.entry[i] = ZeroEntry <=> ~buffer.full /\ i >= buffer.in_offs
    BY <1>1, <2>2, Zenon DEF BufferInv
  <2>. HIDE DEF i
  <2>4. ~buffer.full => buffer.out_offs = 0
    BY <1>1 DEF BufferInv
  <2>5. ~buffer.full => n = buffer.in_offs
    BY <1>2, <2>4 DEF Count
  <2>6. ~buffer.full => i = k - 1 /\ k - 1 < buffer.in_offs
    BY <1>2, <2>1, <2>2, <2>4, <2>5
  <2>7. buffer.entry[i] # ZeroEntry
    BY <1>2, <2>1, <2>3, <2>6
  <2>. QED  BY <1>3, <2>2, <2>7 DEF i
<1>5. ASSUME NEW k \in 1 .. n
      PROVE  /\ c[k].buffptr \in Addr /\ heap[c[k].buffptr] \in Seq(Byte)
             /\ c[k].size \in 1 .. Len(heap[c[k].buffptr])
  BY <1>3, <1>4 DEF IInv, MemInv, EntryInv
<1>6. ASSUME NEW k \in 1 .. n
      PROVE  BytesIn(heap, c[k]) \in Seq(Byte) /\ Len(BytesIn(heap, c[k])) = c[k].size
  <2>. DEFINE s == heap[c[k].buffptr]
              m == c[k].size
  <2>1. s \in Seq(Byte) /\ m \in 1 .. Len(s) /\ BytesIn(heap, c[k]) = SubSeq(s, 1, m)
    BY <1>5 DEF BytesIn
  <2>. HIDE DEF s, m
  <2>2. m \in 0 .. Len(s)
    BY <2>1
  <2>3. SubSeq(s, 1, m) \in Seq(Byte) /\ Len(SubSeq(s, 1, m)) = m
    BY <2>1, <2>2, PrefixIs
  <2>. QED  BY <2>1, <2>3 DEF m
<1>. HIDE DEF c, n
<1>7. Commands = [k \in 1 .. n |-> BytesIn(heap, c[k])]
  BY CommandsAre DEF c, n
<1>8. Commands \in [1 .. n -> Seq(Byte)] /\ n \in Nat
  BY <1>2, <1>3, <1>6, <1>7
<1>9. Commands \in Seq(Seq(Byte)) /\ Len(Commands) = n
  <2>. DEFINE s == Commands
  <2>. HIDE DEF s
  <2>1. s \in [1 .. n -> Seq(Byte)]
    BY <1>8 DEF s
  <2>2. s \in Seq(Seq(Byte)) /\ Len(s) = n
    BY <1>8, <2>1, SeqDef, LenProperties
  <2>. QED  BY <2>2 DEF s
<1>10. \A k \in 1 .. n : Commands[k] = BytesIn(heap, c[k])
  BY <1>7
<1>. QED  BY <1>3, <1>4, <1>5, <1>6, <1>9, <1>10, Zenon DEF c, n

\* A step that touches no entry and no block of one leaves the commands alone.
LEMMA CommandsKept ==
  ASSUME IInv, loaded, buffer' = buffer,
         \A i \in Slots : buffer.entry[i] # ZeroEntry =>
                            heap'[buffer.entry[i].buffptr] = heap[buffer.entry[i].buffptr]
  PROVE  Commands' = Commands
<1>1. \A k \in 1 .. Count(buffer) : BytesIn(heap', Contents(buffer)[k]) = BytesIn(heap, Contents(buffer)[k])
  <2>. TAKE k \in 1 .. Count(buffer)
  <2>1. heap'[Contents(buffer)[k].buffptr] = heap[Contents(buffer)[k].buffptr]
    BY StoredCommands
  <2>. QED  BY <2>1 DEF BytesIn
<1>. QED  BY <1>1, CommandsAre

\* The bytes in write_buffer once thread t's bytes were appended.
NewSize(t) == write_buffer_size + append_index(t)

\* What an append does to the block behind write_buffer.
LEMMA AppendWrites ==
  ASSUME IInv, NEW t \in Thread, NEW x, AppendEffect(t, x)
  PROVE  /\ loaded /\ loaded' /\ pc[t] = "write_append"
         /\ write_buffer_size \in Nat /\ append_index(t) \in Nat
         /\ x \in Seq(Byte) /\ NewSize(t) \in 0 .. Len(x)
         /\ write_buffer' = write_buffer
         /\ NewSize(t) > 0 => write_buffer \in Addr
         /\ write_buffer \in Addr => /\ heap'[write_buffer] = x
                                     /\ \A i \in Slots : buffer.entry[i].buffptr # write_buffer
<1>1. /\ pc[t] = "write_append" /\ UNCHANGED <<loaded, write_buffer>>
      /\ x \in Seq(Byte) /\ Len(x) = Len(Block(write_buffer))
  BY DEF AppendEffect
<1>2. loaded
  BY <1>1, HolderAlone, LockedLabels DEF IInv
<1>3. write_buffer_size \in Nat /\ append_index(t) \in Nat
  <2>1. Block(write_data[t]) \in Seq(Byte)
    BY <1>1 DEF IInv, MemInv, DataInv, WriteLabels
  <2>2. append_index(t) \in 0 .. Len(Block(write_data[t]))
    BY <2>1, AppendIndexIs, AppendLenIs
  <2>3. Len(Block(write_data[t])) \in Nat
    BY <2>1, LenProperties
  <2>. QED  BY <2>2, <2>3 DEF IInv, MemInv, DeviceType
<1>4. NewSize(t) <= Len(x)
  BY <1>1 DEF IInv, MemInv, AppendInv, NewSize
<1>5. Len(x) \in Nat /\ NewSize(t) \in Nat
  BY <1>1, <1>3, LenProperties DEF NewSize
<1>6. NewSize(t) > 0 => write_buffer \in Addr
  <2>1. write_buffer \notin Addr => Len(x) = 0
    BY <1>1 DEF Block
  <2>. QED  BY <1>4, <1>5, <2>1
<1>7. ASSUME write_buffer \in Addr
      PROVE  heap'[write_buffer] = x /\ \A i \in Slots : buffer.entry[i].buffptr # write_buffer
  <2>1. /\ \A u \in Thread : write_data[u] # write_buffer
        /\ \A i \in Slots : buffer.entry[i].buffptr # write_buffer
    BY <1>1, <1>2, <1>7 DEF IInv, MemInv, PendingInv, Pending, Appending
  <2>2. Evicted(t) # write_buffer
    BY <1>2, <1>7, <2>1, EvictedIs, DriverAssumption DEF IInv
  <2>. QED  BY <1>7, <2>1, <2>2 DEF AppendEffect
<1>. QED  BY <1>1, <1>2, <1>3, <1>4, <1>5, <1>6, <1>7

\* Memory of the entries that stay is not touched by an append.
LEMMA AppendKeepsEntries ==
  ASSUME IInv, NEW t \in Thread, NEW x, AppendEffect(t, x), NEW i \in Slots,
         buffer.entry[i] # ZeroEntry,
         newline_found(t) /\ buffer.full => i # buffer.in_offs
  PROVE  heap'[buffer.entry[i].buffptr] = heap[buffer.entry[i].buffptr]
<1>. DEFINE p == buffer.entry[i].buffptr
<1>1. loaded /\ pc[t] = "write_append"
  BY AppendWrites
<1>2. /\ p \in Addr /\ \A j \in Slots : buffer.entry[j].buffptr = p => i = j
      /\ \A u \in Thread : write_data[u] # p
  BY <1>1 DEF IInv, MemInv, EntryInv
<1>3. p # write_buffer
  BY <1>2, AppendWrites
<1>4. Evicted(t) # p
  BY <1>1, <1>2, EvictedIs, DriverAssumption DEF IInv
<1>. QED  BY <1>2, <1>3, <1>4 DEF AppendEffect

(***************************************************************************)
(* A newline stores the command: the bytes in write_buffer become the last *)
(* of the stored commands and, once the buffer is full, the oldest goes.   *)
(***************************************************************************)
LEMMA CommandsGrow ==
  ASSUME IInv, IInv', NEW t \in Thread, NEW x, AppendEffect(t, x), newline_found(t)
  PROVE  Commands' = Append(IF Len(Commands) < N THEN Commands ELSE Tail(Commands),
                            SubSeq(x, 1, NewSize(t)))
<1>. DEFINE n == NewSize(t)
            e == [buffptr |-> write_buffer, size |-> n]
            c == Contents(buffer)
            cc == Contents(buffer')
            m == Count(buffer)
            mm == Count(buffer')
            y == SubSeq(x, 1, n)
<1>1. loaded /\ loaded' /\ x \in Seq(Byte) /\ n \in 0 .. Len(x)
  BY AppendWrites
<1>2. n > 0
  <2>1. Block(write_data[t]) \in Seq(Byte)
    BY AppendWrites DEF IInv, MemInv, DataInv, WriteLabels
  <2>2. append_index(t) >= 1
    BY <2>1, AppendIndexIs, AppendLenIs
  <2>. QED  BY <2>2, AppendWrites DEF NewSize
<1>3. write_buffer \in Addr /\ heap'[write_buffer] = x
  BY <1>2, AppendWrites
<1>4. /\ buffer \in Buffer(Entry(Pointer)) /\ Coherent(buffer) /\ e \in Entry(Pointer)
      /\ buffer' \in Buffer(Entry(Pointer)) /\ buffer' = aesd_circular_buffer_add_entry(buffer, e)
  <2>1. n \in Nat
    BY <1>1
  <2>2. e \in Entry(Pointer)
    BY <1>3, <2>1 DEF Entry, Pointer
  <2>3. buffer' = aesd_circular_buffer_add_entry(buffer, e)
    BY DEF AppendEffect, NewSize
  <2>. QED  BY <2>2, <2>3 DEF IInv, MemInv, DeviceType, BufferInv
<1>5. BytesIn(heap', e) = y /\ y \in Seq(Byte)
  <2>1. y \in Seq(Byte)
    BY <1>1, PrefixIs
  <2>. QED  BY <1>3, <2>1 DEF BytesIn
<1>6. /\ m \in 0 .. N /\ N \in Nat \ {0} /\ (m = N <=> buffer.full)
      /\ Commands \in Seq(Seq(Byte)) /\ Len(Commands) = m
      /\ c \in Seq(Entry(Pointer)) /\ Len(c) = m
  BY <1>1, <1>4, StoredCommands, CountType, NAssumption
<1>7. cc \in Seq(Entry(Pointer)) /\ Len(cc) = mm /\ mm \in 0 .. N
  BY <1>4, CountType
<1>8. cc = IF m < N THEN Append(c, e) ELSE Append(Tail(c), e)
  BY <1>4, <1>6, AddEntryStores
<1>9. ASSUME NEW k \in 1 .. m, k > 1 \/ ~buffer.full
      PROVE  BytesIn(heap', c[k]) = Commands[k]
  <2>. DEFINE i == ScanSlot(buffer, k - 1)
  <2>1. i \in Slots /\ c[k] = buffer.entry[i] /\ c[k] # ZeroEntry /\ Commands[k] = BytesIn(heap, c[k])
    BY <1>1, StoredCommands
  <2>2. buffer.full => i # buffer.in_offs
    <3>. SUFFICES ASSUME buffer.full PROVE i # buffer.in_offs
      OBVIOUS
    <3>1. buffer.in_offs = buffer.out_offs /\ buffer.out_offs \in 0 .. N - 1
      BY <1>4, BufferFields DEF Coherent
    <3>2. k - 1 \in 0 .. N - 1 /\ k - 1 > 0
      BY <1>6, <1>9
    <3>3. i = IF buffer.out_offs + (k - 1) < N THEN buffer.out_offs + (k - 1)
              ELSE buffer.out_offs + (k - 1) - N
      BY <1>4, <3>2, ScanSlotValue, Zenon
    <3>. HIDE DEF i
    <3>. QED  BY <1>6, <3>1, <3>2, <3>3
  <2>. HIDE DEF i
  <2>3. heap'[c[k].buffptr] = heap[c[k].buffptr]
    BY <2>1, <2>2, AppendKeepsEntries
  <2>. QED  BY <2>1, <2>3 DEF BytesIn
<1>10. Commands' = [k \in 1 .. mm |-> BytesIn(heap', cc[k])]
  BY CommandsAre
<1>. HIDE DEF c, cc, m, mm, e, y, n
<1>11. CASE m < N
  <2>1. /\ cc = Append(c, e) /\ mm = m + 1 /\ cc[m + 1] = e
        /\ \A k \in 1 .. m : cc[k] = c[k]
    BY <1>4, <1>6, <1>7, <1>8, <1>11, AppendProperties
  <2>. DEFINE z == Append(Commands, y)
  <2>2. /\ z \in Seq(Seq(Byte)) /\ Len(z) = m + 1 /\ z[m + 1] = y
        /\ \A k \in 1 .. m : z[k] = Commands[k]
    BY <1>5, <1>6, AppendProperties
  <2>3. z = [k \in 1 .. m + 1 |-> z[k]]
    BY <2>2, LenProperties
  <2>. HIDE DEF z
  <2>4. \A k \in 1 .. m + 1 : BytesIn(heap', cc[k]) = z[k]
    <3>. TAKE k \in 1 .. m + 1
    <3>1. CASE k = m + 1
      BY <1>5, <2>1, <2>2, <3>1
    <3>2. CASE k # m + 1
      <4>1. k \in 1 .. m /\ ~buffer.full
        BY <1>6, <1>11, <3>2
      <4>2. BytesIn(heap', c[k]) = Commands[k]
        BY <1>9, <4>1
      <4>. QED  BY <2>1, <2>2, <4>1, <4>2
    <3>. QED  BY <3>1, <3>2
  <2>5. Commands' = z
    BY <1>10, <2>1, <2>3, <2>4
  <2>. QED  BY <1>6, <1>11, <2>5 DEF z, y, n
<1>12. CASE ~(m < N)
  <2>1. m = N /\ m > 0 /\ c # << >> /\ Commands # << >>
    BY <1>6, <1>12, EmptySeq
  <2>2. /\ Tail(c) \in Seq(Entry(Pointer)) /\ Len(Tail(c)) = m - 1
        /\ \A k \in 1 .. m - 1 : Tail(c)[k] = c[k + 1]
    BY <1>6, <2>1, HeadTailProperties
  <2>3. /\ cc = Append(Tail(c), e) /\ mm = m /\ cc[m] = e
        /\ \A k \in 1 .. m - 1 : cc[k] = c[k + 1]
    <3>1. cc = Append(Tail(c), e)
      BY <1>8, <1>12
    <3>2. Len(cc) = (m - 1) + 1 /\ cc[(m - 1) + 1] = e /\ \A k \in 1 .. m - 1 : cc[k] = Tail(c)[k]
      BY <1>4, <2>2, <3>1, AppendProperties
    <3>3. (m - 1) + 1 = m
      BY <1>6
    <3>. QED  BY <1>7, <2>2, <3>1, <3>2, <3>3, Zenon
  <2>. DEFINE z == Append(Tail(Commands), y)
  <2>4. /\ Tail(Commands) \in Seq(Seq(Byte)) /\ Len(Tail(Commands)) = m - 1
        /\ \A k \in 1 .. m - 1 : Tail(Commands)[k] = Commands[k + 1]
    <3>. DEFINE s == Commands
    <3>1. s \in Seq(Seq(Byte)) /\ s # << >> /\ Len(s) = m
      BY <1>6, <2>1
    <3>. HIDE DEF s
    <3>2. /\ Tail(s) \in Seq(Seq(Byte)) /\ Len(Tail(s)) = m - 1
          /\ \A k \in 1 .. Len(Tail(s)) : Tail(s)[k] = s[k + 1]
      BY <3>1, HeadTailProperties
    <3>. QED  BY <3>2 DEF s
  <2>5. /\ z \in Seq(Seq(Byte)) /\ Len(z) = m /\ z[m] = y
        /\ \A k \in 1 .. m - 1 : z[k] = Tail(Commands)[k]
    <3>. DEFINE s == Tail(Commands)
    <3>1. s \in Seq(Seq(Byte)) /\ Len(s) = m - 1
      BY <2>4
    <3>. HIDE DEF s
    <3>2. /\ Append(s, y) \in Seq(Seq(Byte)) /\ Len(Append(s, y)) = (m - 1) + 1
          /\ Append(s, y)[(m - 1) + 1] = y
          /\ \A k \in 1 .. m - 1 : Append(s, y)[k] = s[k]
      BY <1>5, <3>1, AppendProperties
    <3>3. (m - 1) + 1 = m
      BY <1>6
    <3>. QED  BY <3>2, <3>3, Zenon DEF s
  <2>6. z = [k \in 1 .. m |-> z[k]]
    BY <2>5, LenProperties
  <2>. HIDE DEF z
  <2>7. \A k \in 1 .. m : BytesIn(heap', cc[k]) = z[k]
    <3>. TAKE k \in 1 .. m
    <3>1. CASE k = m
      BY <1>5, <2>3, <2>5, <3>1
    <3>2. CASE k # m
      <4>1. k \in 1 .. m - 1 /\ k + 1 \in 1 .. m /\ k + 1 > 1
        BY <1>6, <3>2
      <4>2. BytesIn(heap', c[k + 1]) = Commands[k + 1]
        BY <1>9, <4>1
      <4>. QED  BY <2>3, <2>4, <2>5, <4>1, <4>2, Zenon
    <3>. QED  BY <3>1, <3>2
  <2>8. Commands' = z
    BY <1>10, <2>3, <2>6, <2>7
  <2>. QED  BY <1>6, <1>12, <2>8 DEF z, y, n
<1>. QED  BY <1>11, <1>12

\* What a step does to the stored commands and to buff_size.
LEMMA CommandsStep ==
  ASSUME IInv, IInv', Effect, loaded, loaded'
  PROVE  \/ Commands' = Commands /\ UNCHANGED <<buffer, buff_size>>
         \/ \E t \in Thread : \E x :
              /\ AppendEffect(t, x) /\ newline_found(t)
              /\ buff_size' = buff_size + NewSize(t)
              /\ Commands' = Append(IF Len(Commands) < N THEN Commands ELSE Tail(Commands),
                                    SubSeq(x, 1, NewSize(t)))
<1>1. CASE CallEffect
  BY <1>1, CommandsKept DEF CallEffect
<1>2. ASSUME NEW t \in Thread, NEW p, DataEffect(t, p)
      PROVE  Commands' = Commands /\ UNCHANGED <<buffer, buff_size>>
  <2>1. \A i \in Slots : buffer.entry[i] # ZeroEntry =>
                            heap'[buffer.entry[i].buffptr] = heap[buffer.entry[i].buffptr]
    <3>. SUFFICES ASSUME NEW i \in Slots, buffer.entry[i] # ZeroEntry
                  PROVE  heap'[buffer.entry[i].buffptr] = heap[buffer.entry[i].buffptr]
      OBVIOUS
    <3>1. /\ buffer.entry[i].buffptr \in Addr /\ heap[buffer.entry[i].buffptr] \in Seq(Byte)
          /\ write_data[t] # buffer.entry[i].buffptr
      BY DEF IInv, MemInv, EntryInv
    <3>. QED  BY <1>2, <3>1, DriverAssumption DEF DataEffect
  <2>. QED  BY <1>2, <2>1, CommandsKept DEF DataEffect
<1>3. ASSUME NEW t \in Thread, NEW x, ReserveEffect(t, x)
      PROVE  Commands' = Commands /\ UNCHANGED <<buffer, buff_size>>
  <2>1. \A i \in Slots : buffer.entry[i] # ZeroEntry =>
                            heap'[buffer.entry[i].buffptr] = heap[buffer.entry[i].buffptr]
    <3>. SUFFICES ASSUME NEW i \in Slots, buffer.entry[i] # ZeroEntry
                  PROVE  heap'[buffer.entry[i].buffptr] = heap[buffer.entry[i].buffptr]
      OBVIOUS
    <3>. DEFINE p == buffer.entry[i].buffptr
    <3>1. p \in Addr /\ heap[p] # FREE
      BY DriverAssumption DEF IInv, MemInv, EntryInv
    <3>2. write_buffer_size > 0 => p # write_buffer
      BY <3>1 DEF IInv, MemInv, PendingInv, Pending
    <3>3. p # write_buffer'
      BY <1>3, <3>1, <3>2 DEF ReserveEffect
    <3>. QED  BY <1>3, <3>1, <3>2, <3>3 DEF ReserveEffect
  <2>. QED  BY <1>3, <2>1, CommandsKept DEF ReserveEffect
<1>4. ASSUME NEW t \in Thread, NEW x, AppendEffect(t, x), newline_found(t)
      PROVE  /\ buff_size' = buff_size + NewSize(t)
             /\ Commands' = Append(IF Len(Commands) < N THEN Commands ELSE Tail(Commands),
                                   SubSeq(x, 1, NewSize(t)))
  BY <1>4, CommandsGrow DEF AppendEffect, NewSize
<1>5. ASSUME NEW t \in Thread, NEW x, AppendEffect(t, x), ~newline_found(t)
      PROVE  Commands' = Commands /\ UNCHANGED <<buffer, buff_size>>
  <2>1. \A i \in Slots : buffer.entry[i] # ZeroEntry =>
                            heap'[buffer.entry[i].buffptr] = heap[buffer.entry[i].buffptr]
    BY <1>5, AppendKeepsEntries
  <2>. QED  BY <1>5, <2>1, CommandsKept DEF AppendEffect
<1>6. ~aesd_init_module /\ ~aesd_cleanup_module
  BY DEF aesd_init_module, aesd_cleanup_module
<1>. QED  BY <1>1, <1>2, <1>3, <1>4, <1>5, <1>6 DEF Effect

\* When the module is loaded nothing is stored.
LEMMA LoadedEmpty ==
  ASSUME aesd_init_module
  PROVE  Commands' = << >> /\ Partial' = << >> /\ buff_size' = 0 /\ ~loaded
<1>1. Count(buffer') = 0
  BY DEF aesd_init_module, aesd_circular_buffer_init, Count
<1>2. [k \in 1 .. 0 |-> BytesIn(heap', Contents(buffer')[k])] = << >>
  OBVIOUS
<1>. QED  BY <1>1, <1>2, CommandsAre DEF aesd_init_module, Partial

\* buff_size against the stored commands, step by step.
LEMMA BuffSizeStep ==
  ASSUME IInv, IInv', Effect, BuffSizeCoversStream
  PROVE  BuffSizeCoversStream'
<1>. SUFFICES ASSUME loaded'
              PROVE  /\ buff_size' >= Len(Stream')
                     /\ ~buffer'.full => buff_size' = Len(Stream')
  BY DEF BuffSizeCoversStream
<1>1. CASE ~loaded
  <2>1. aesd_init_module
    BY <1>1 DEF Effect, CallEffect, DataEffect, ReserveEffect, AppendEffect, aesd_cleanup_module
  <2>2. Stream' = << >> /\ buff_size' = 0
    BY <2>1, LoadedEmpty, FlattenEmpty DEF Stream
  <2>. QED  BY <2>2
<1>2. CASE loaded
  <2>0. buff_size \in Nat
    BY DEF IInv, RestInv
  <2>1. CASE Commands' = Commands /\ UNCHANGED <<buffer, buff_size>>
    BY <1>2, <2>1 DEF BuffSizeCoversStream, Stream
  <2>2. ASSUME NEW t \in Thread, NEW x, AppendEffect(t, x), newline_found(t),
               buff_size' = buff_size + NewSize(t),
               Commands' = Append(IF Len(Commands) < N THEN Commands ELSE Tail(Commands),
                                  SubSeq(x, 1, NewSize(t)))
        PROVE  /\ buff_size' >= Len(Stream')
               /\ ~buffer'.full => buff_size' = Len(Stream')
    <3>. DEFINE y == SubSeq(x, 1, NewSize(t))
                s == Commands
                tl == IF Len(s) < N THEN s ELSE Tail(s)
                n == NewSize(t)
    <3>1. y \in Seq(Byte) /\ Len(y) = n /\ n \in Nat
      <4>1. x \in Seq(Byte) /\ n \in 0 .. Len(x) /\ n \in Nat
        BY <2>2, AppendWrites DEF NewSize
      <4>. HIDE DEF n
      <4>. QED  BY <4>1, PrefixIs DEF n
    <3>2. s \in Seq(Seq(Byte)) /\ Len(s) \in 0 .. N /\ (Len(s) = N <=> buffer.full) /\ N \in Nat \ {0}
      BY <1>2, StoredCommands, NAssumption
    <3>3. buffer.full => buffer'.full
      <4>1. /\ buffer' = aesd_circular_buffer_add_entry(buffer, [buffptr |-> write_buffer, size |-> n])
        BY <2>2 DEF AppendEffect, NewSize
      <4>. HIDE DEF n
      <4>. QED  BY <4>1 DEF aesd_circular_buffer_add_entry
    <3>4. Stream = FlattenSeq(s) /\ Stream' = FlattenSeq(Append(tl, y))
      BY <2>2 DEF Stream
    <3>5. buff_size >= Len(FlattenSeq(s)) /\ (~buffer.full => buff_size = Len(FlattenSeq(s)))
      BY <1>2, <3>4 DEF BuffSizeCoversStream
    <3>. HIDE DEF y, s, n, tl
    <3>6. /\ tl \in Seq(Seq(Byte)) /\ Len(FlattenSeq(tl)) \in Nat
          /\ Len(FlattenSeq(tl)) <= Len(FlattenSeq(s))
          /\ ~buffer.full => tl = s
      <4>0. FlattenSeq(s) \in Seq(Byte) /\ Len(FlattenSeq(s)) \in Nat
        BY <3>2, FlattenType, LenProperties, Zenon
      <4>1. CASE Len(s) < N
        <5>1. tl = s
          BY <4>1 DEF tl
        <5>. QED  BY <3>2, <4>0, <5>1
      <4>2. CASE ~(Len(s) < N)
        <5>1. tl = Tail(s) /\ buffer.full /\ Len(s) = N /\ Len(s) # 0
          BY <3>2, <4>2 DEF tl
        <5>2. s # << >>
          BY <5>1
        <5>3. tl \in Seq(Seq(Byte))
          BY <3>2, <5>1, <5>2, HeadTailProperties, Zenon
        <5>4. FlattenSeq(tl) \in Seq(Byte) /\ Len(FlattenSeq(tl)) \in Nat
          BY <5>3, FlattenType, LenProperties, Zenon
        <5>5. Len(FlattenSeq(s)) = Len(s[1]) + Len(FlattenSeq(tl))
          BY <3>2, <5>1, <5>2, FlattenTailLen, Zenon
        <5>6. Len(s[1]) \in Nat
          <6>1. 1 \in 1 .. Len(s)
            BY <3>2, <5>1
          <6>. QED  BY <3>2, <6>1, ElementOfSeq, LenProperties, Zenon
        <5>7. Len(FlattenSeq(tl)) <= Len(FlattenSeq(s))
          BY <5>4, <5>5, <5>6
        <5>. QED  BY <5>1, <5>3, <5>4, <5>7
      <4>. QED  BY <4>1, <4>2
    <3>7. Len(Stream') = Len(FlattenSeq(tl)) + n
      <4>1. FlattenSeq(Append(tl, y)) = FlattenSeq(tl) \o y /\ FlattenSeq(tl) \in Seq(Byte)
        BY <3>1, <3>6, FlattenAppend, FlattenType, Zenon
      <4>2. Len(FlattenSeq(tl) \o y) = Len(FlattenSeq(tl)) + Len(y)
        BY <3>1, <4>1, ConcatProperties, Zenon
      <4>. QED  BY <3>1, <3>4, <4>1, <4>2, Zenon
    <3>. DEFINE ft == Len(FlattenSeq(tl))
                fs == Len(FlattenSeq(s))
    <3>8. /\ ft \in Nat /\ ft <= fs /\ (~buffer.full => ft = fs) /\ buff_size >= fs
          /\ (~buffer.full => buff_size = fs) /\ fs \in Nat /\ Len(Stream') = ft + n
          /\ buff_size' = buff_size + n
      <4>1. fs \in Nat
        BY <3>2, FlattenType, LenProperties, Zenon
      <4>. QED  BY <2>2, <3>5, <3>6, <3>7, <4>1 DEF n
    <3>. HIDE DEF ft, fs
    <3>9. ft + n <= buff_size + n /\ (~buffer.full => ft + n = buff_size + n)
      BY <2>0, <3>1, <3>8
    <3>. QED  BY <3>3, <3>8, <3>9, <2>0, <3>1
  <2>. QED  BY <1>2, <2>1, <2>2, CommandsStep
<1>. QED  BY <1>1, <1>2

(***************************************************************************)
(* buff_size, which lseek uses as the end of the device, covers the stored *)
(* bytes for any number of slots, threads and commands, and is exact until *)
(* the first eviction, whichever calls fail.                               *)
(***************************************************************************)
THEOREM BuffSizeCovers == Spec => []BuffSizeCoversStream
<1>1. Init => BuffSizeCoversStream
  BY DEF Init, BuffSizeCoversStream
<1>2. IInv /\ BuffSizeCoversStream /\ [Next]_vars => BuffSizeCoversStream'
  <2>. SUFFICES ASSUME IInv, BuffSizeCoversStream, [Next]_vars PROVE BuffSizeCoversStream'
    OBVIOUS
  <2>1. IInv' /\ Effect
    BY NextIInv, NextEffect DEF IInv
  <2>. QED  BY <2>1, BuffSizeStep
<1>. QED  BY <1>1, <1>2, InitIInv, NextIInv, PTL DEF Spec

-----------------------------------------------------------------------------
(***************************************************************************)
(* As long as krealloc does not fail, an unfinished command has its bytes. *)
(***************************************************************************)
KeptInv == loaded /\ write_buffer_size > 0 => write_buffer \in Addr

\* Every step keeps them.
LEMMA KeptStep ==
  ASSUME IInv, Effect, KeptInv, "krealloc" \notin Faults
  PROVE  KeptInv'
<1>. SUFFICES ASSUME loaded', write_buffer_size' > 0 PROVE write_buffer' \in Addr
  BY DEF KeptInv
<1>0. write_buffer_size \in Nat
  BY DEF IInv, MemInv, DeviceType
<1>1. CASE CallEffect
  BY <1>1 DEF CallEffect, KeptInv
<1>2. ASSUME NEW t \in Thread, NEW p, DataEffect(t, p) PROVE write_buffer' \in Addr
  <2>1. UNCHANGED <<loaded, write_buffer_size>>
    BY <1>2 DEF DataEffect
  <2>2. ~WriteReserveFails(t)
    <3>1. write_buffer_size # 0
      BY <1>0, <2>1
    <3>. QED  BY <3>1, Zenon DEF WriteReserveFails
  <2>. QED  BY <1>2, <2>1, <2>2 DEF DataEffect, KeptInv
<1>3. ASSUME NEW t \in Thread, NEW x, ReserveEffect(t, x) PROVE write_buffer' \in Addr
  <2>1. pc[t] = "write_reserve" /\ write_buffer_size' = write_buffer_size /\ write_buffer_size + append_index(t) <= Len(x)
    BY <1>3 DEF ReserveEffect
  <2>2. Block(write_data[t]) \in Seq(Byte)
    BY <2>1 DEF IInv, MemInv, DataInv, WriteLabels
  <2>3. append_index(t) \in 0 .. Len(Block(write_data[t])) /\ Len(Block(write_data[t])) \in Nat
    BY <2>2, AppendIndexIs, AppendLenIs, LenProperties
  <2>4. write_buffer_size + append_index(t) > 0
    BY <1>0, <2>1, <2>3
  <2>5. Len(x) # 0
    BY <1>0, <2>1, <2>3, <2>4
  <2>. QED  BY <1>3, <2>5 DEF ReserveEffect
<1>4. ASSUME NEW t \in Thread, NEW x, AppendEffect(t, x) PROVE write_buffer' \in Addr
  <2>1. write_buffer_size' = 0 \/ write_buffer_size' = NewSize(t)
    BY <1>4 DEF AppendEffect, NewSize
  <2>. QED  BY <1>4, <2>1, AppendWrites
<1>5. CASE aesd_init_module \/ aesd_cleanup_module
  BY <1>5 DEF aesd_init_module, aesd_cleanup_module
<1>. QED  BY <1>1, <1>2, <1>3, <1>4, <1>5 DEF Effect

\* The bytes of the unfinished command.
PartialHeld ==
  /\ write_buffer_size \in Nat
  /\ Partial \in Seq(Byte) /\ Len(Partial) = write_buffer_size
  /\ \A i \in 1 .. write_buffer_size : Partial[i] = Block(write_buffer)[i]

\* They are in write_buffer.
LEMMA PartialIs == IInv /\ loaded /\ KeptInv => PartialHeld
<1>. SUFFICES ASSUME IInv, loaded, KeptInv PROVE PartialHeld
  OBVIOUS
<1>0. write_buffer_size \in Nat
  BY DEF IInv, MemInv, DeviceType
<1>1. CASE write_buffer_size > 0
  <2>. DEFINE s == Block(write_buffer)
              n == write_buffer_size
  <2>1. s \in Seq(Byte) /\ n <= Len(s)
    BY <1>1 DEF KeptInv, IInv, MemInv, PendingInv, Pending, Block
  <2>2. n \in 0 .. Len(s) /\ Partial = SubSeq(s, 1, n)
    BY <1>0, <1>1, <2>1 DEF Partial
  <2>. HIDE DEF s, n
  <2>3. /\ SubSeq(s, 1, n) \in Seq(Byte) /\ Len(SubSeq(s, 1, n)) = n
        /\ \A i \in 1 .. n : SubSeq(s, 1, n)[i] = s[i]
    BY <2>1, <2>2, PrefixIs
  <2>. QED  BY <1>0, <2>2, <2>3 DEF s, n, PartialHeld
<1>2. CASE ~(write_buffer_size > 0)
  <2>1. Partial = << >> /\ write_buffer_size = 0
    BY <1>0, <1>2 DEF Partial
  <2>. QED  BY <2>1, EmptySeq DEF PartialHeld
<1>. QED  BY <1>1, <1>2

\* Also after a step.
LEMMA PartialIsAfter == (IInv /\ loaded /\ KeptInv)' => PartialHeld'
  BY PartialIs, PTL

\* After an append, write_buffer holds the unfinished command and what aesd_write
\* accepts of the user's data.
LEMMA AppendedBytes ==
  ASSUME IInv, KeptInv, NEW t \in Thread, NEW x, AppendEffect(t, x)
  PROVE  /\ arg[t].data \in Payload /\ arg[t].data \in Seq(Byte)
         /\ newline_found(t) <=> Contains(arg[t].data, NewLine)
         /\ SubSeq(x, 1, NewSize(t)) = Partial \o Accepted(arg[t].data)
         /\ Partial \in Seq(Byte) /\ Accepted(arg[t].data) \in Seq(Byte)
         /\ Len(Accepted(arg[t].data)) = append_index(t)
<1>. DEFINE d == Block(write_data[t])
            a == Accepted(d)
            n == NewSize(t)
            b == write_buffer_size
            z == SubSeq(x, 1, n)
            s == Block(write_buffer)
            pr == Partial
<1>1. /\ loaded /\ pc[t] = "write_append" /\ b \in Nat /\ append_index(t) \in Nat
      /\ x \in Seq(Byte) /\ n \in 0 .. Len(x) /\ n = b + append_index(t)
  BY AppendWrites DEF NewSize
<1>2. d \in Seq(Byte) /\ d = arg[t].data /\ arg[t].data \in Payload
  BY <1>1 DEF IInv, MemInv, DataInv, ArgInv, WriteLabels
<1>3. a \in Seq(Byte) /\ Len(a) = append_index(t) /\ \A i \in 1 .. Len(a) : a[i] = d[i]
  BY <1>2, AcceptedIs, AppendLenIs, AppendIndexIs
<1>4. /\ pr \in Seq(Byte) /\ Len(pr) = b
      /\ \A i \in 1 .. b : pr[i] = s[i]
  BY <1>1, PartialIs DEF PartialHeld
<1>5. \A i \in 1 .. Len(x) : x[i] = IF i \in b + 1 .. b + append_index(t) THEN d[i - b] ELSE s[i]
  BY DEF AppendEffect
<1>6. newline_found(t) <=> Contains(d, NewLine)
  BY AppendIndexIs
<1>. HIDE DEF d, a, b, n, s, z, pr
<1>7. /\ z \in Seq(Byte) /\ Len(z) = n /\ \A i \in 1 .. n : z[i] = x[i]
  BY <1>1, PrefixIs DEF z
<1>8. /\ pr \o a \in Seq(Byte) /\ Len(pr \o a) = b + append_index(t)
      /\ \A i \in 1 .. b + append_index(t) : (pr \o a)[i] = IF i <= b THEN pr[i] ELSE a[i - b]
  <2>1. /\ pr \o a \in Seq(Byte) /\ Len(pr \o a) = Len(pr) + Len(a)
        /\ \A i \in 1 .. Len(pr) + Len(a) : (pr \o a)[i] = IF i <= Len(pr) THEN pr[i] ELSE a[i - Len(pr)]
    BY <1>3, <1>4, ConcatProperties
  <2>. QED  BY <1>3, <1>4, <2>1, Zenon
<1>. DEFINE w == pr \o a
<1>9. \A i \in 1 .. n : z[i] = w[i]
  <2>. TAKE i \in 1 .. n
  <2>1. i \in 1 .. Len(x) /\ z[i] = x[i]
    <3>1. Len(x) \in Nat
      BY <1>1, LenProperties
    <3>. QED  BY <1>1, <1>7, <3>1
  <2>2. w[i] = IF i <= b THEN pr[i] ELSE a[i - b]
    BY <1>1, <1>8
  <2>. HIDE DEF w
  <2>3. CASE i <= b
    <3>1. i \in 1 .. b /\ i \notin b + 1 .. b + append_index(t)
      BY <1>1, <2>3
    <3>. QED  BY <1>4, <1>5, <2>1, <2>2, <2>3, <3>1, Zenon
  <2>4. CASE ~(i <= b)
    <3>1. i - b \in 1 .. append_index(t) /\ i \in b + 1 .. b + append_index(t)
      BY <1>1, <2>4
    <3>2. i - b \in 1 .. Len(a)
      BY <1>3, <3>1
    <3>. QED  BY <1>3, <1>5, <2>1, <2>2, <2>4, <3>1, <3>2, Zenon
  <2>. QED  BY <2>3, <2>4
<1>10. z = w
  <2>1. w \in Seq(Byte) /\ Len(w) = Len(z)
    BY <1>1, <1>7, <1>8
  <2>. HIDE DEF w
  <2>. QED  BY <1>7, <1>9, <2>1, SeqEqual
<1>. QED  BY <1>2, <1>3, <1>4, <1>6, <1>10 DEF a, z, n, pr

\* The bytes in write_buffer outlive every step but an append.
LEMMA PartialKept ==
  ASSUME IInv, IInv', KeptInv, KeptInv', loaded, loaded',
         write_buffer_size' = write_buffer_size,
         \A i \in 1 .. write_buffer_size : (Block(write_buffer))'[i] = Block(write_buffer)[i]
  PROVE  Partial' = Partial
<1>1. /\ write_buffer_size \in Nat
      /\ Partial \in Seq(Byte) /\ Len(Partial) = write_buffer_size
      /\ \A i \in 1 .. write_buffer_size : Partial[i] = Block(write_buffer)[i]
  BY PartialIs DEF PartialHeld
<1>2. /\ Partial' \in Seq(Byte) /\ Len(Partial') = write_buffer_size
      /\ \A i \in 1 .. write_buffer_size : (Partial')[i] = (Block(write_buffer))'[i]
  BY PartialIsAfter DEF PartialHeld
<1>3. \A i \in 1 .. write_buffer_size : (Partial')[i] = Partial[i]
  BY <1>1, <1>2, Zenon
<1>. QED  BY <1>1, <1>2, <1>3, SeqEqual

\* What a step does to the unfinished command.
LEMMA PartialStep ==
  ASSUME IInv, IInv', KeptInv, KeptInv', Effect, loaded, loaded'
  PROVE  \/ Partial' = Partial /\ \A t \in Thread : \A x : ~AppendEffect(t, x)
         \/ \E t \in Thread : \E x :
              /\ AppendEffect(t, x)
              /\ Partial' = IF newline_found(t) THEN << >> ELSE SubSeq(x, 1, NewSize(t))
<1>. USE DriverAssumption
<1>0. write_buffer_size \in Nat
  BY DEF IInv, MemInv, DeviceType
<1>1. ASSUME write_buffer' = write_buffer, write_buffer_size' = write_buffer_size,
             write_buffer_size > 0 => heap'[write_buffer] = heap[write_buffer]
      PROVE  Partial' = Partial
  <2>1. write_buffer_size > 0 => (Block(write_buffer))' = Block(write_buffer)
    BY <1>1 DEF Block
  <2>2. \A i \in 1 .. write_buffer_size : (Block(write_buffer))'[i] = Block(write_buffer)[i]
    BY <1>0, <2>1
  <2>. QED  BY <1>1, <2>2, PartialKept
<1>2. ASSUME CallEffect PROVE Partial' = Partial
  BY <1>1, <1>2 DEF CallEffect
<1>3. ASSUME NEW t \in Thread, NEW p, DataEffect(t, p) PROVE Partial' = Partial
  <2>1. write_buffer_size' = write_buffer_size
    BY <1>3 DEF DataEffect
  <2>2. CASE write_buffer_size = 0
    BY <2>1, <2>2 DEF Partial
  <2>3. CASE write_buffer_size # 0
    <3>1. write_buffer_size > 0
      BY <1>0, <2>3
    <3>2. write_buffer \in Addr /\ write_buffer' \in Addr
      BY <2>1, <3>1 DEF KeptInv
    <3>3. write_buffer' = write_buffer
      BY <1>3, <3>2 DEF DataEffect, WriteReserveFails
    <3>4. heap[write_buffer] # FREE /\ write_data[t] # write_buffer
      BY <3>1, <3>2 DEF IInv, MemInv, PendingInv, Pending
    <3>5. heap'[write_buffer] = heap[write_buffer]
      BY <1>3, <3>2, <3>4 DEF DataEffect
    <3>. QED  BY <1>1, <2>1, <3>3, <3>5
  <2>. QED  BY <2>2, <2>3
<1>4. ASSUME NEW t \in Thread, NEW x, ReserveEffect(t, x) PROVE Partial' = Partial
  <2>1. write_buffer_size' = write_buffer_size /\ x \in Seq(Byte)
    BY <1>4 DEF ReserveEffect
  <2>2. CASE write_buffer_size = 0
    BY <2>1, <2>2 DEF Partial
  <2>3. CASE write_buffer_size # 0
    <3>1. write_buffer_size > 0
      BY <1>0, <2>3
    <3>2. write_buffer \in Addr /\ write_buffer' \in Addr
      BY <2>1, <3>1 DEF KeptInv
    <3>3. (Block(write_buffer))' = x
      BY <1>4, <3>2 DEF ReserveEffect, Block
    <3>4. Block(write_buffer) \in Seq(Byte) /\ write_buffer_size <= Len(Block(write_buffer))
      BY <3>1, <3>2 DEF IInv, MemInv, PendingInv, Pending, Block
    <3>5. \A i \in 1 .. write_buffer_size : i <= Len(Block(write_buffer))
      <4>1. Len(Block(write_buffer)) \in Nat
        BY <3>4, LenProperties
      <4>. QED  BY <1>0, <3>4, <4>1
    <3>6. \A i \in 1 .. write_buffer_size : x[i] = Block(write_buffer)[i]
      BY <1>4, <3>1, <3>5 DEF ReserveEffect
    <3>. QED  BY <2>1, <3>3, <3>6, PartialKept
  <2>. QED  BY <2>2, <2>3
<1>5. ASSUME NEW t \in Thread, NEW x, AppendEffect(t, x)
      PROVE  Partial' = IF newline_found(t) THEN << >> ELSE SubSeq(x, 1, NewSize(t))
  <2>1. CASE newline_found(t)
    <3>1. write_buffer_size' = 0
      BY <1>5, <2>1 DEF AppendEffect
    <3>. QED  BY <2>1, <3>1 DEF Partial
  <2>2. CASE ~newline_found(t)
    <3>1. write_buffer_size' = NewSize(t) /\ NewSize(t) \in Nat /\ x \in Seq(Byte)
      <4>1. write_buffer_size' = NewSize(t)
        BY <1>5, <2>2 DEF AppendEffect, NewSize
      <4>2. write_buffer_size \in Nat /\ append_index(t) \in Nat /\ x \in Seq(Byte)
        BY <1>5, AppendWrites
      <4>. QED  BY <4>1, <4>2 DEF NewSize
    <3>2. CASE NewSize(t) = 0
      <4>1. SubSeq(x, 1, 0) = << >>
        BY <3>1, SubSeqEmpty
      <4>. QED  BY <2>2, <3>1, <3>2, <4>1 DEF Partial
    <3>3. CASE NewSize(t) # 0
      <4>1. NewSize(t) > 0
        BY <3>1, <3>3
      <4>2. (Block(write_buffer))' = x
        BY <1>5, <4>1, AppendWrites DEF Block
      <4>. QED  BY <2>2, <3>1, <4>1, <4>2 DEF Partial
    <3>. QED  BY <3>2, <3>3
  <2>. QED  BY <2>1, <2>2
<1>6. ~aesd_init_module /\ ~aesd_cleanup_module
  BY DEF aesd_init_module, aesd_cleanup_module
<1>7. \/ \E t \in Thread : \E x : AppendEffect(t, x)
      \/ \A t \in Thread : \A x : ~AppendEffect(t, x)
  OBVIOUS
<1>. QED  BY <1>2, <1>3, <1>4, <1>5, <1>6, <1>7 DEF Effect

\* The log's own copies of operators of the community modules.
LEMMA SameAccepted ==
  /\ \A d : Log!Contains(d, NewLine) <=> Contains(d, NewLine)
  /\ \A d \in Seq(Byte) : Log!Accepted(d) = Accepted(d)
<1>1. \A d : Log!Contains(d, NewLine) <=> Contains(d, NewLine)
  BY DEF Log!Contains, Contains
<1>2. ASSUME NEW d \in Seq(Byte) PROVE Log!Accepted(d) = Accepted(d)
  <2>. DEFINE I == {i \in 1 .. Len(d) : d[i] = NewLine}
              k == SelectInSeq(d, LAMBDA c : c = NewLine)
              l == Log!SelectInSeq(d, LAMBDA c : c = NewLine)
  <2>1. k = IF I # {} THEN Min(I) ELSE 0
    BY DEF SelectInSeq
  <2>2. l = IF I # {} THEN Log!Min(I) ELSE 0
    BY DEF Log!SelectInSeq
  <2>3. Log!Min(I) = Min(I)
    BY DEF Log!Min, Min
  <2>4. k = l
    BY <2>1, <2>2, <2>3
  <2>5. I # {} <=> Contains(d, NewLine)
    BY DEF Contains
  <2>6. I # {} => k # 0
    <3>1. I \in SUBSET Nat /\ \A i \in I : i # 0
      OBVIOUS
    <3>. HIDE DEF I, k
    <3>. QED  BY <2>1, <3>1, MinIs
  <2>7. Log!Accepted(d) = IF l = 0 THEN d ELSE SubSeq(d, 1, l)
    BY DEF Log!Accepted
  <2>8. Accepted(d) = IF Contains(d, NewLine) THEN SubSeq(d, 1, k) ELSE d
    BY DEF Accepted
  <2>9. I = {} => k = 0
    BY <2>1
  <2>. HIDE DEF I, k, l
  <2>. QED  BY <2>4, <2>5, <2>6, <2>7, <2>8, <2>9
<1>. QED  BY <1>1, <1>2

\* The log and the unfinished command of a device that is loaded or not.
LEMMA LogStep ==
  ASSUME IInv, IInv', KeptInv, KeptInv', Effect
  PROVE  [Log!Next]_(Log!vars)
<1>. DEFINE lg == IF loaded THEN Commands ELSE << >>
            pt == IF loaded THEN Partial ELSE << >>
<1>b. loaded \in BOOLEAN /\ loaded' \in BOOLEAN
  BY DEF IInv, ControlInv
<1>1. CASE ~loaded'
  <2>1. CASE loaded
    BY <1>1, <2>1 DEF Log!Next, Log!Unload
  <2>2. CASE ~loaded
    <3>1. loaded' = loaded
      BY <1>1, <1>b, <2>2
    <3>. QED  BY <1>1, <2>2, <3>1 DEF Log!vars
  <2>. QED  BY <2>1, <2>2
<1>2. CASE ~loaded /\ loaded'
  <2>1. aesd_init_module
    BY <1>2 DEF Effect, CallEffect, DataEffect, ReserveEffect, AppendEffect, aesd_cleanup_module
  <2>. QED  BY <1>2, <2>1, LoadedEmpty DEF Log!Next, Log!Load
<1>3. CASE loaded /\ loaded'
  <2>0. loaded' = loaded
    BY <1>3, <1>b
  <2>1. CASE Partial' = Partial /\ \A t \in Thread : \A x : ~AppendEffect(t, x)
    <3>1. Commands' = Commands
      BY <1>3, <2>1, CommandsStep
    <3>. QED  BY <1>3, <2>0, <2>1, <3>1 DEF Log!vars
  <2>2. ASSUME NEW t \in Thread, NEW x, AppendEffect(t, x),
               Partial' = IF newline_found(t) THEN << >> ELSE SubSeq(x, 1, NewSize(t))
        PROVE  \E data \in Payload : Log!Write(data)
    <3>. DEFINE data == arg[t].data
    <3>1. /\ data \in Payload /\ data \in Seq(Byte)
          /\ newline_found(t) <=> Log!Contains(data, NewLine)
          /\ SubSeq(x, 1, NewSize(t)) = Partial \o Log!Accepted(data)
      BY <2>2, AppendedBytes, SameAccepted
    <3>2. CASE newline_found(t)
      <4>1. /\ Commands' = Append(IF Len(Commands) < N THEN Commands ELSE Tail(Commands),
                                  Partial \o Log!Accepted(data))
            /\ Partial' = << >>
        BY <2>2, <3>1, <3>2, CommandsGrow
      <4>. QED  BY <1>3, <2>0, <3>1, <3>2, <4>1 DEF Log!Write
    <3>3. CASE ~newline_found(t)
      <4>1. Commands' = Commands
        <5>1. \A i \in Slots : buffer.entry[i] # ZeroEntry =>
                                  heap'[buffer.entry[i].buffptr] = heap[buffer.entry[i].buffptr]
          BY <2>2, <3>3, AppendKeepsEntries
        <5>. QED  BY <1>3, <2>2, <3>3, <5>1, CommandsKept DEF AppendEffect
      <4>2. Partial' = Partial \o Log!Accepted(data)
        BY <2>2, <3>1, <3>3
      <4>. QED  BY <1>3, <2>0, <3>1, <3>3, <4>1, <4>2 DEF Log!Write
    <3>. QED  BY <3>2, <3>3
  <2>. QED  BY <1>3, <2>1, <2>2, PartialStep DEF Log!Next
<1>. QED  BY <1>1, <1>2, <1>3 DEF IInv, ControlInv

(***************************************************************************)
(* The driver implements the log of commands, for any number of threads,   *)
(* slots, open files and writes, as long as krealloc does not fail (after  *)
(* which the bytes of the unfinished command are lost, see                 *)
(* AmountStoredUnlessKreallocFails); all other failures are allowed.       *)
(***************************************************************************)
THEOREM LogImplemented ==
  ASSUME "krealloc" \notin Faults
  PROVE  Spec => RefinesCommandLog
<1>1. Init => KeptInv
  BY DEF Init, KeptInv
<1>2. IInv /\ KeptInv /\ [Next]_vars => KeptInv'
  <2>. SUFFICES ASSUME IInv, KeptInv, [Next]_vars PROVE KeptInv'
    OBVIOUS
  <2>. QED  BY NextEffect, KeptStep DEF IInv
<1>3. Init => Log!Init
  BY DEF Init, Log!Init
<1>4. IInv /\ IInv' /\ KeptInv /\ KeptInv' /\ [Next]_vars => [Log!Next]_(Log!vars)
  <2>. SUFFICES ASSUME IInv, IInv', KeptInv, KeptInv', [Next]_vars PROVE [Log!Next]_(Log!vars)
    OBVIOUS
  <2>. QED  BY NextEffect, LogStep DEF IInv
<1>. QED  BY <1>1, <1>2, <1>3, <1>4, InitIInv, NextIInv, PTL DEF Spec, RefinesCommandLog, Log!Spec

-----------------------------------------------------------------------------
(***************************************************************************)
(* The concatenation of the stored commands, byte by byte.                 *)
(***************************************************************************)
LEMMA StreamIs ==
  ASSUME IInv, loaded
  PROVE  /\ Stream \in Seq(Byte)
         /\ AccumulatedBytes(buffer, Count(buffer)) \in Nat
         /\ Len(Stream) = AccumulatedBytes(buffer, Count(buffer))
         /\ \A k \in 1 .. Count(buffer) :
              LET e == buffer.entry[ScanSlot(buffer, k - 1)]
              IN  \A m \in 1 .. e.size :
                    /\ AccumulatedBytes(buffer, k - 1) + m \in 1 .. Len(Stream)
                    /\ Stream[AccumulatedBytes(buffer, k - 1) + m] = heap[e.buffptr][m]
<1>. DEFINE n == Count(buffer)
            c == Contents(buffer)
            f == Sizes(buffer)
            s == Commands
<1>1. /\ n \in 0 .. N /\ s \in Seq(Seq(Byte)) /\ Len(s) = n
      /\ \A k \in 1 .. n : /\ c[k] = buffer.entry[ScanSlot(buffer, k - 1)]
                           /\ s[k] = BytesIn(heap, c[k]) /\ Len(s[k]) = c[k].size
                           /\ c[k].buffptr \in Addr /\ heap[c[k].buffptr] \in Seq(Byte)
                           /\ c[k].size \in 1 .. Len(heap[c[k].buffptr])
  BY StoredCommands
<1>2. f \in [Slots -> Nat]
  BY FindFinds DEF IInv, MemInv, DeviceType, BufferInv, Entry
<1>3. N \in Nat \ {0}
  BY NAssumption
<1>4. \A k \in 1 .. n : k - 1 \in Slots /\ f[k - 1] = c[k].size
  <2>. TAKE k \in 1 .. n
  <2>1. k - 1 \in Slots
    BY <1>1, <1>3 DEF Slots
  <2>. QED  BY <1>1, <2>1 DEF Sizes
<1>5. \A j : AccumulatedBytes(buffer, j) = SumBelow(f, j)
  BY DEF AccumulatedBytes, Sizes
<1>6. Stream = FlattenSeq(s)
  BY DEF Stream
<1>. HIDE DEF n, c, f, s
<1>7. FlattenSeq(s) \in Seq(Byte)
  BY <1>1, FlattenType, Zenon
<1>8. Len(s) <= N /\ \A i \in 1 .. Len(s) : Len(s[i]) = f[i - 1]
  <2>1. Len(s) <= N
    BY <1>1, <1>3
  <2>2. \A i \in 1 .. n : Len(s[i]) = f[i - 1]
    BY <1>1, <1>4, Zenon
  <2>. QED  BY <1>1, <2>1, <2>2, Zenon
<1>9. /\ Len(FlattenSeq(s)) = SumBelow(f, Len(s))
      /\ \A k \in 1 .. Len(s) : \A m \in 1 .. Len(s[k]) :
             /\ SumBelow(f, k - 1) + m \in 1 .. Len(FlattenSeq(s))
             /\ FlattenSeq(s)[SumBelow(f, k - 1) + m] = s[k][m]
  <2>1. s \in Seq(Seq(Byte))
    BY <1>1
  <2>. QED  BY <1>2, <1>8, <2>1, FlattenBytes
<1>10. SumBelow(f, n) \in Nat
  BY <1>1, <1>2, SumBelowNat, Zenon
<1>11. ASSUME NEW k \in 1 .. n, NEW m \in 1 .. c[k].size PROVE s[k][m] = heap[c[k].buffptr][m]
  <2>. DEFINE h == heap[c[k].buffptr]
              z == c[k].size
  <2>1. h \in Seq(Byte) /\ z \in 1 .. Len(h) /\ s[k] = SubSeq(h, 1, z) /\ m \in 1 .. z
    BY <1>1 DEF BytesIn
  <2>. HIDE DEF h, z
  <2>2. z \in 0 .. Len(h)
    BY <2>1
  <2>3. SubSeq(h, 1, z)[m] = h[m]
    BY <2>1, <2>2, PrefixIs
  <2>. QED  BY <2>1, <2>3 DEF h
<1>12. ASSUME NEW k \in 1 .. n, NEW m \in 1 .. c[k].size
       PROVE  /\ SumBelow(f, k - 1) + m \in 1 .. Len(Stream)
              /\ Stream[SumBelow(f, k - 1) + m] = heap[c[k].buffptr][m]
  <2>1. k \in 1 .. Len(s) /\ m \in 1 .. Len(s[k])
    BY <1>1
  <2>2. /\ SumBelow(f, k - 1) + m \in 1 .. Len(FlattenSeq(s))
        /\ FlattenSeq(s)[SumBelow(f, k - 1) + m] = s[k][m]
    BY <1>9, <2>1, Zenon
  <2>3. s[k][m] = heap[c[k].buffptr][m]
    BY <1>11, Zenon
  <2>. QED  BY <1>6, <2>2, <2>3, Zenon
<1>13. ASSUME NEW k \in 1 .. n, NEW m \in 1 .. buffer.entry[ScanSlot(buffer, k - 1)].size
       PROVE  /\ AccumulatedBytes(buffer, k - 1) + m \in 1 .. Len(Stream)
              /\ Stream[AccumulatedBytes(buffer, k - 1) + m]
                   = heap[buffer.entry[ScanSlot(buffer, k - 1)].buffptr][m]
  <2>1. c[k] = buffer.entry[ScanSlot(buffer, k - 1)] /\ m \in 1 .. c[k].size
    BY <1>1, Zenon
  <2>2. AccumulatedBytes(buffer, k - 1) = SumBelow(f, k - 1)
    BY <1>5, Zenon
  <2>. QED  BY <1>12, <2>1, <2>2, Zenon
<1>14. /\ AccumulatedBytes(buffer, n) \in Nat /\ Stream \in Seq(Byte)
       /\ Len(Stream) = AccumulatedBytes(buffer, n)
  BY <1>1, <1>5, <1>6, <1>7, <1>9, <1>10, Zenon
<1>. QED  BY <1>13, <1>14, Zenon DEF n

\* Only a thread that has read has an answer.
GotInv == \A t \in Thread : pc[t] # "return" => got[t] = << >>

\* Every step keeps it so.
LEMMA NextGot == IInv /\ GotInv /\ [Next]_vars => GotInv'
<1>. SUFFICES ASSUME IInv, GotInv, [Next]_vars PROVE GotInv'
  OBVIOUS
<1>0. pc \in [Thread -> Labels] /\ got \in [Thread -> Seq(Byte)]
  BY DEF IInv, ControlInv, RestInv
<1>. USE DEF GotInv
<1>1. CASE UNCHANGED <<pc, got>>
  BY <1>1
<1>2. ASSUME NEW t \in Thread, Leave(t) PROVE GotInv'
  BY <1>0, <1>2 DEF Leave, Goto
<1>3. ASSUME NEW t \in Thread, NEW l, Goto(t, l), UNCHANGED got, pc[t] # "return" PROVE GotInv'
  BY <1>0, <1>3 DEF Goto
<1>4. ASSUME NEW t \in Thread, NEW f \in File, SysCall(t, f) PROVE GotInv'
  <2>1. CASE UNCHANGED call
    BY <1>1, <2>1 DEF call
  <2>2. CASE \E l, args : Enter(t, l, args) /\ UNCHANGED got
    BY <1>3, <2>2 DEF Enter
  <2>. QED  BY <1>4, <2>1, <2>2 DEF SysCall, SysRead, SysWrite, SysLlseek, SysIoctl
<1>5. ASSUME NEW t \in Thread, aesd_read(t) PROVE GotInv'
  <2>1. CASE Leave(t)
    BY <1>2, <2>1
  <2>2. CASE ~Leave(t)
    <3>1. pc' = [pc EXCEPT ![t] = "return"] /\ \A u \in Thread \ {t} : got'[u] = got[u]
      BY <1>0, <1>5, <2>2 DEF aesd_read, Goto
    <3>. QED  BY <1>0, <3>1
  <2>. QED  BY <2>1, <2>2
<1>6. ASSUME NEW t \in Thread, Step(t) PROVE GotInv'
  <2>1. CASE AcquireLock(t)
    BY <1>3, <2>1, LockedLabels DEF AcquireLock
  <2>2. CASE LockInterrupted(t)
    BY <1>2, <2>2 DEF LockInterrupted, AfterInterrupt
  <2>3. CASE StorePos(t)
    BY <1>2, <2>3 DEF StorePos
  <2>4. CASE WriteCopy(t)
    BY <1>2, <1>3, <2>4 DEF WriteCopy
  <2>5. CASE WriteReserve(t)
    BY <1>3, <2>5 DEF WriteReserve
  <2>6. CASE WriteReserveFails(t)
    BY <1>2, <2>6 DEF WriteReserveFails
  <2>7. CASE WriteAppend(t)
    BY <1>3, <2>7 DEF WriteAppend
  <2>8. CASE aesd_llseek(t)
    BY <1>2, <2>8 DEF aesd_llseek
  <2>9. CASE aesd_ioctl(t)
    BY <1>2, <1>3, <2>9 DEF aesd_ioctl
  <2>10. CASE aesd_adjust_file_offset(t)
    BY <1>2, <2>10 DEF aesd_adjust_file_offset
  <2>. QED  BY <1>5, <1>6, <2>1, <2>2, <2>3, <2>4, <2>5, <2>6, <2>7, <2>8, <2>9, <2>10 DEF Step
<1>7. CASE aesd_init_module \/ aesd_cleanup_module
  BY <1>1, <1>7 DEF aesd_init_module, aesd_cleanup_module, call
<1>8. ASSUME NEW f \in File, Open(f) \/ Release(f) PROVE GotInv'
  BY <1>1, <1>8 DEF Open, Release, call
<1>9. CASE UNCHANGED vars
  BY <1>1, <1>9 DEF vars, call
<1>. QED  BY <1>4, <1>6, <1>7, <1>8, <1>9 DEF Next

\* The n bytes of a string that follow the first b.
LEMMA MiddleIs ==
  ASSUME NEW S, NEW s \in Seq(S), NEW b \in Nat, NEW n \in Nat, b + n <= Len(s)
  PROVE  /\ SubSeq(s, b + 1, b + n) \in Seq(S) /\ Len(SubSeq(s, b + 1, b + n)) = n
         /\ \A i \in 1 .. n : SubSeq(s, b + 1, b + n)[i] = s[b + i]
<1>. DEFINE lo == b + 1
            hi == b + n
<1>1. lo \in Int /\ hi \in Int /\ \A i \in lo .. hi : s[i] \in S
  <2>1. Len(s) \in Nat
    BY LenProperties
  <2>2. \A i \in lo .. hi : i \in 1 .. Len(s)
    BY <2>1
  <2>. QED  BY <2>2, ElementOfSeq
<1>2. /\ (IF lo <= hi THEN hi - lo + 1 ELSE 0) = n
      /\ \A i \in 1 .. n : i \in 1 .. hi - lo + 1 /\ lo + i - 1 = b + i
  BY DEF lo, hi
<1>. HIDE DEF lo, hi
<1>3. /\ SubSeq(s, lo, hi) \in Seq(S)
      /\ Len(SubSeq(s, lo, hi)) = IF lo <= hi THEN hi - lo + 1 ELSE 0
      /\ \A i \in 1 .. hi - lo + 1 : SubSeq(s, lo, hi)[i] = s[lo + i - 1]
  BY <1>1, SubSeqProperties
<1>4. Len(SubSeq(s, lo, hi)) = n
  BY <1>2, <1>3
<1>5. \A i \in 1 .. n : SubSeq(s, lo, hi)[i] = s[b + i]
  BY <1>2, <1>3, Zenon
<1>. QED  BY <1>3, <1>4, <1>5 DEF lo, hi

\* One string starts with another if it agrees with it byte by byte.
LEMMA PrefixByBytes ==
  ASSUME NEW S, NEW u \in Seq(S), NEW v \in Seq(S), Len(u) <= Len(v),
         \A i \in 1 .. Len(u) : u[i] = v[i]
  PROVE  IsPrefix(u, v)
<1>. DEFINE n == Len(u)
<1>1. n \in Nat /\ n \in 0 .. Len(u) /\ n \in 0 .. Len(v)
  BY LenProperties
<1>2. /\ SubSeq(u, 1, n) \in Seq(S) /\ Len(SubSeq(u, 1, n)) = n
      /\ \A i \in 1 .. n : SubSeq(u, 1, n)[i] = u[i]
  BY <1>1, PrefixIs
<1>3. /\ SubSeq(v, 1, n) \in Seq(S) /\ Len(SubSeq(v, 1, n)) = n
      /\ \A i \in 1 .. n : SubSeq(v, 1, n)[i] = v[i]
  BY <1>1, PrefixIs
<1>4. \A i \in 1 .. n : SubSeq(u, 1, n)[i] = SubSeq(v, 1, n)[i]
  BY <1>2, <1>3, Zenon
<1>5. SubSeq(u, 1, n) = SubSeq(v, 1, n)
  BY <1>2, <1>3, <1>4, SeqEqual
<1>. QED  BY <1>5 DEF IsPrefix

\* A read that finds an entry returns bytes of the stream from its position on.
LEMMA ReadIsPrefix ==
  ASSUME IInv, loaded, NEW off \in Nat, NEW count \in Nat,
         aesd_circular_buffer_find_entry_offset_for_fpos(buffer, off) # NULL
  PROVE  LET found == aesd_circular_buffer_find_entry_offset_for_fpos(buffer, off)
             entry == buffer.entry[found.slot]
             copied == bytes_to_copy(entry.size - found.byte, count)
             bytes == SubSeq(Block(entry.buffptr), found.byte + 1, found.byte + copied)
         IN  /\ IsPrefix(bytes, SubSeq(Stream, off + 1, Len(Stream)))
             /\ Len(bytes) = copied /\ copied \in Nat /\ copied <= count
             /\ bytes = << >> => count = 0
<1>. DEFINE found == aesd_circular_buffer_find_entry_offset_for_fpos(buffer, off)
            entry == buffer.entry[found.slot]
            copied == bytes_to_copy(entry.size - found.byte, count)
            s == Block(entry.buffptr)
            bytes == SubSeq(s, found.byte + 1, found.byte + copied)
            rest == SubSeq(Stream, off + 1, Len(Stream))
            acc(j) == AccumulatedBytes(buffer, j)
<1>1. PICK j \in 0 .. Count(buffer) - 1 :
               /\ found = [slot |-> ScanSlot(buffer, j), byte |-> off - AccumulatedBytes(buffer, j)]
               /\ found.slot \in Slots /\ found.byte \in Nat /\ entry # ZeroEntry
               /\ entry.buffptr \in Addr /\ Block(entry.buffptr) \in Seq(Byte)
               /\ entry.size \in Nat /\ found.byte < entry.size
               /\ entry.size <= Len(Block(entry.buffptr))
               /\ copied \in Nat /\ copied <= count /\ found.byte + copied <= entry.size
               /\ copied = count \/ copied = entry.size - found.byte
               /\ bytes \in Seq(Byte)
               /\ Len(bytes) = copied
  BY ReadCopies DEF IInv
<1>. DEFINE b == found.byte
            a == acc(j)
            z == entry.size
            T == Len(Stream)
<1>2. /\ found.slot = ScanSlot(buffer, j) /\ b = off - a
      /\ Count(buffer) \in 0 .. N /\ N \in Nat /\ j + 1 \in 1 .. Count(buffer) /\ (j + 1) - 1 = j
  <2>1. Count(buffer) \in 0 .. N /\ N \in Nat
    BY StoredCommands, NAssumption
  <2>2. j + 1 \in 1 .. Count(buffer) /\ (j + 1) - 1 = j
    BY <2>1
  <2>3. found.slot = ScanSlot(buffer, j) /\ b = off - a
    <3>. HIDE DEF found, acc
    <3>. QED  BY <1>1 DEF acc
  <2>. QED  BY <2>1, <2>2, <2>3
<1>3. Stream \in Seq(Byte) /\ T \in Nat
  BY StreamIs, LenProperties
<1>4. \A m \in 1 .. z : a + m \in 1 .. T /\ Stream[a + m] = s[m]
  <2>1. entry = buffer.entry[ScanSlot(buffer, (j + 1) - 1)] /\ s = heap[entry.buffptr]
    BY <1>1, <1>2 DEF Block
  <2>2. \A k \in 1 .. Count(buffer) :
              LET e == buffer.entry[ScanSlot(buffer, k - 1)]
              IN  \A m \in 1 .. e.size :
                    /\ AccumulatedBytes(buffer, k - 1) + m \in 1 .. Len(Stream)
                    /\ Stream[AccumulatedBytes(buffer, k - 1) + m] = heap[e.buffptr][m]
    BY StreamIs
  <2>. HIDE DEF entry, s
  <2>. QED  BY <1>2, <2>1, <2>2, Zenon DEF acc
<1>5. a \in Nat
  <2>1. j \in 0 .. N
    BY <1>2
  <2>2. Sizes(buffer) \in [Slots -> Nat]
    BY FindFinds DEF IInv, MemInv, DeviceType, BufferInv, Entry
  <2>. QED  BY <2>1, <2>2, SumBelowNat DEF AccumulatedBytes, Sizes
<1>6. /\ b \in Nat /\ z \in Nat /\ b < z /\ z <= Len(s) /\ s \in Seq(Byte) /\ Len(s) \in Nat
      /\ copied \in Nat /\ copied <= count /\ b + copied <= z
      /\ copied = count \/ copied = z - b
      /\ bytes \in Seq(Byte) /\ Len(bytes) = copied
  BY <1>1, LenProperties
<1>. HIDE DEF a, b, z, T, s, copied, entry, found, acc
<1>7. off = a + b /\ off + copied <= T /\ off <= T
  <2>1. z \in 1 .. z
    BY <1>6
  <2>2. a + z \in 1 .. T
    BY <1>4, <2>1
  <2>. QED  BY <1>2, <1>3, <1>5, <1>6, <2>2
<1>8. \A i \in 1 .. copied : bytes[i] = s[b + i]
  <2>1. b + copied <= Len(s)
    BY <1>6
  <2>a. s \in Seq(Byte) /\ b \in Nat /\ copied \in Nat
    BY <1>6
  <2>2. \A i \in 1 .. copied : SubSeq(s, b + 1, b + copied)[i] = s[b + i]
    BY ONLY <2>1, <2>a, MiddleIs, Zenon
  <2>. QED  BY <2>2 DEF b
<1>9. rest \in Seq(Byte) /\ Len(rest) = T - off /\ \A i \in 1 .. T - off : rest[i] = Stream[off + i]
  <2>. DEFINE w == T - off
  <2>1. w \in Nat /\ off + w = T /\ off + w <= Len(Stream)
    BY <1>3, <1>7 DEF T
  <2>. HIDE DEF w
  <2>2. /\ SubSeq(Stream, off + 1, off + w) \in Seq(Byte) /\ Len(SubSeq(Stream, off + 1, off + w)) = w
        /\ \A i \in 1 .. w : SubSeq(Stream, off + 1, off + w)[i] = Stream[off + i]
    BY <1>3, <2>1, MiddleIs
  <2>. QED  BY <2>1, <2>2 DEF w, T
<1>. HIDE DEF rest, bytes
<1>10. \A i \in 1 .. Len(bytes) : bytes[i] = rest[i]
  <2>. TAKE i \in 1 .. Len(bytes)
  <2>1. /\ i \in 1 .. copied /\ b + i \in 1 .. z /\ a + (b + i) = off + i
        /\ i \in 1 .. T - off
    BY <1>3, <1>5, <1>6, <1>7
  <2>. QED  BY <1>4, <1>8, <1>9, <2>1, Zenon
<1>11. IsPrefix(bytes, rest)
  <2>1. Len(bytes) <= Len(rest)
    BY <1>3, <1>6, <1>7, <1>9
  <2>. QED  BY <1>6, <1>9, <1>10, <2>1, PrefixByBytes
<1>12. bytes = << >> => count = 0
  <2>1. bytes = << >> => copied = 0
    BY <1>6
  <2>. QED  BY <1>6, <2>1
<1>. QED  BY <1>6, <1>11, <1>12 DEF rest, bytes, T, s, copied, entry, found

\* The answer of a read, whether or not it finds an entry.
LEMMA ReadStep ==
  ASSUME IInv, GotInv, NEW t \in Thread, aesd_read(t), pc'[t] = "return"
  PROVE  LET rest == SubSeq(Stream, pos[t] + 1, Len(Stream))
         IN  /\ IsPrefix(got'[t], rest)
             /\ Len(got'[t]) <= arg[t].count
             /\ got'[t] = << >> => rest = << >> \/ arg[t].count = 0
             /\ pos'[t] = pos[t] + Len(got'[t])
<1>. DEFINE found == aesd_circular_buffer_find_entry_offset_for_fpos(buffer, pos[t])
            entry == buffer.entry[found.slot]
            copied == bytes_to_copy(entry.size - found.byte, arg[t].count)
            bytes == SubSeq(Block(entry.buffptr), found.byte + 1, found.byte + copied)
            rest == SubSeq(Stream, pos[t] + 1, Len(Stream))
<1>1. pc[t] = "read"
  BY DEF aesd_read
<1>2. /\ loaded /\ pos[t] \in Nat /\ arg[t].count \in Nat
      /\ pos \in [Thread -> Nat] /\ got \in [Thread -> Seq(Byte)] /\ pc \in [Thread -> Labels]
  <2>1. loaded
    BY <1>1, HolderAlone, LockedLabels DEF IInv
  <2>. QED  BY <1>1, <2>1, DriverAssumption DEF IInv, RestInv, ArgInv, ControlInv
<1>3. ~Leave(t)
  BY <1>2 DEF Leave, Goto
<1>4. \/ found = NULL /\ UNCHANGED <<pos, got>>
      \/ found # NULL /\ got' = [got EXCEPT ![t] = bytes] /\ pos' = [pos EXCEPT ![t] = @ + copied]
  BY <1>3 DEF aesd_read
<1>5. CASE found = NULL /\ UNCHANGED <<pos, got>>
  <2>1. got'[t] = << >> /\ pos'[t] = pos[t]
    BY <1>1, <1>5 DEF GotInv
  <2>2. AccumulatedBytes(buffer, Count(buffer)) <= pos[t]
    <3>1. /\ buffer \in Buffer(Entry(Pointer)) /\ Coherent(buffer)
          /\ \A e \in Entry(Pointer) : e.size \in Nat
      BY DEF IInv, MemInv, DeviceType, BufferInv, Entry
    <3>. QED  BY <1>2, <1>5, <3>1, FindFinds
  <2>3. rest = << >>
    <3>1. Len(Stream) \in Nat /\ Len(Stream) <= pos[t]
      BY <1>2, <2>2, StreamIs
    <3>2. pos[t] + 1 \in Int /\ Len(Stream) \in Int /\ Len(Stream) < pos[t] + 1
      BY <1>2, <3>1
    <3>. QED  BY <3>2, SubSeqEmpty
  <2>4. IsPrefix(<< >>, << >>) /\ Len(<< >>) = 0
    BY DEF IsPrefix
  <2>. HIDE DEF rest
  <2>5. 0 <= arg[t].count /\ pos[t] = pos[t] + 0
    BY <1>2
  <2>. QED  BY <2>1, <2>3, <2>4, <2>5 DEF rest
<1>6. CASE found # NULL /\ got' = [got EXCEPT ![t] = bytes] /\ pos' = [pos EXCEPT ![t] = @ + copied]
  <2>1. /\ IsPrefix(bytes, rest)
        /\ Len(bytes) = copied /\ copied \in Nat /\ copied <= arg[t].count
        /\ bytes = << >> => arg[t].count = 0
    BY <1>2, <1>6, ReadIsPrefix
  <2>. HIDE DEF bytes, copied, rest
  <2>2. got'[t] = bytes /\ pos'[t] = pos[t] + copied
    BY <1>2, <1>6
  <2>. QED  BY <2>1, <2>2 DEF rest
<1>. QED  BY <1>4, <1>5, <1>6

\* A thread inside a call only moves by a step of its own.
LEMMA StepOfItsOwn ==
  ASSUME IInv, [Next]_vars, NEW t \in Thread, pc[t] # "idle", pc'[t] # pc[t]
  PROVE  Step(t)
<1>0. pc \in [Thread -> Labels]
  BY DEF IInv, ControlInv
<1>1. ~UNCHANGED pc
  OBVIOUS
<1>2. ASSUME NEW u \in Thread, NEW l, Goto(u, l), u # t PROVE FALSE
  BY <1>0, <1>2 DEF Goto
<1>3. ASSUME NEW u \in Thread, NEW f \in File, SysCall(u, f) PROVE FALSE
  BY <1>0, <1>1, <1>2, <1>3
     DEF SysCall, SysRead, SysWrite, SysLlseek, SysIoctl, Enter, call
<1>4. ASSUME NEW u \in Thread, Step(u) PROVE u = t
  BY <1>2, <1>4 DEF Step, Leave, AcquireLock, LockInterrupted, AfterInterrupt, StorePos, WriteCopy,
     WriteReserve, WriteReserveFails, WriteAppend, aesd_llseek, aesd_ioctl,
     aesd_adjust_file_offset, aesd_read
<1>5. ~(aesd_init_module \/ aesd_cleanup_module)
  BY <1>1 DEF aesd_init_module, aesd_cleanup_module, call
<1>6. \A f \in File : ~(Open(f) \/ Release(f))
  BY <1>1 DEF Open, Release, call
<1>7. ~UNCHANGED vars
  BY <1>1 DEF vars, call
<1>. QED  BY <1>3, <1>4, <1>5, <1>6, <1>7 DEF Next

\* What a thread does next is determined by its label.
LEMMA StepAtLabel ==
  ASSUME NEW t \in Thread, Step(t)
  PROVE  /\ pc[t] = "read" => aesd_read(t)
         /\ pc[t] = "adjust" => aesd_adjust_file_offset(t)
  BY LockedLabels
     DEF Step, AcquireLock, LockInterrupted, StorePos, WriteCopy, WriteReserve, WriteReserveFails,
         WriteAppend, aesd_llseek, aesd_ioctl, aesd_adjust_file_offset, aesd_read

(***************************************************************************)
(* Reads return the stream: whatever other threads write, evict, seek or   *)
(* fail at meanwhile, aesd_read hands out the bytes that follow its        *)
(* position in the concatenation of the commands stored at that moment,    *)
(* and moves the position by as many.                                      *)
(***************************************************************************)
THEOREM ReadsReturnStream == Spec => ReadReturnsStream
<1>1. Init => GotInv
  BY DEF Init, GotInv
<1>2. ASSUME IInv, GotInv, [Next]_vars
      PROVE  [\A t \in Thread :
               pc[t] = "read" /\ pc'[t] = "return" =>
                 LET rest == SubSeq(Stream, pos[t] + 1, Len(Stream))
                 IN  /\ IsPrefix(got'[t], rest)
                     /\ Len(got'[t]) <= arg[t].count
                     /\ got'[t] = << >> => rest = << >> \/ arg[t].count = 0
                     /\ pos'[t] = pos[t] + Len(got'[t])]_vars
  BY <1>2, StepOfItsOwn, StepAtLabel, ReadStep
<1>. QED  BY <1>1, <1>2, NextGot, InitIInv, NextIInv, PTL DEF Spec, ReadReturnsStream

\* What the debug output of a completed command reads is the block that the
\* command is stored in.
LEMMA PrintedBlock ==
  ASSUME IInv, NEW t \in Thread, WriteAppend(t), newline_found(t), NEW x, AppendEffect(t, x),
         NewSize(t) > 0
  PROVE  Appended(heap, t)[write_buffer] = x
<1>. DEFINE h == Appended(heap, t)
<1>1. write_buffer \in Addr /\ heap'[write_buffer] = x /\ x \in Seq(Byte)
  BY AppendWrites
<1>2. x # FREE
  BY <1>1, DriverAssumption
<1>3. heap' = Kfree(OldestFreed(h), write_data[t])
  BY DEF WriteAppend, CompleteCommand
<1>. HIDE DEF h
<1>4. ASSUME NEW g, NEW p, Kfree(g, p)[write_buffer] # FREE, write_buffer \in DOMAIN g
      PROVE  Kfree(g, p)[write_buffer] = g[write_buffer]
  BY <1>4 DEF Kfree
<1>5. DOMAIN h = Addr
  BY DEF h, Appended, Put, IInv, MemInv, HeapType
<1>6. DOMAIN OldestFreed(h) = Addr
  BY <1>5 DEF OldestFreed, Kfree
<1>7. OldestFreed(h)[write_buffer] = x
  BY <1>1, <1>2, <1>3, <1>4, <1>6
<1>8. h[write_buffer] = x
  BY <1>1, <1>2, <1>4, <1>5, <1>7 DEF OldestFreed
<1>. QED  BY <1>8 DEF h

\* Only a write that completes a command prints one.
LEMMA OverreadStep ==
  ASSUME IInv, [Next]_vars, overread' # overread
  PROVE  \E t \in Thread : /\ WriteAppend(t) /\ newline_found(t)
                           /\ ~Contains(Appended(heap, t)[write_buffer], NUL)
<1>1. ASSUME NEW t \in Thread, Step(t)
      PROVE  /\ WriteAppend(t) /\ newline_found(t)
             /\ ~Contains(Appended(heap, t)[write_buffer], NUL)
  BY <1>1 DEF Step, AcquireLock, LockInterrupted, StorePos, aesd_read, WriteCopy, WriteReserve,
              WriteReserveFails, WriteAppend, CompleteCommand, PrintBuffer, aesd_llseek,
              aesd_ioctl, aesd_adjust_file_offset
<1>2. ASSUME NEW t \in Thread, NEW f \in File, SysCall(t, f) PROVE FALSE
  BY <1>2 DEF SysCall, SysRead, SysWrite, SysLlseek, SysIoctl
<1>3. ASSUME NEW f \in File, Open(f) \/ Release(f) PROVE FALSE
  BY <1>3 DEF Open, Release
<1>4. ~(aesd_init_module \/ aesd_cleanup_module \/ UNCHANGED vars)
  BY DEF aesd_init_module, aesd_cleanup_module, vars
<1>. QED  BY <1>1, <1>2, <1>3, <1>4 DEF Next

(***************************************************************************)
(* The debug output at main.c:203 reads past the end of a block only when  *)
(* the command it prints, which is the newest of the log from then on, has *)
(* no NUL in it: for any threads, payloads and failing calls.              *)
(***************************************************************************)
THEOREM Overreads == Spec => OverreadsOnlyUnterminated
<1>1. ASSUME IInv, IInv', [Next]_vars, overread' # overread
      PROVE  Commands' # << >> /\ ~Contains(Last(Commands'), NUL)
  <2>1. PICK t \in Thread : /\ WriteAppend(t) /\ newline_found(t)
                            /\ ~Contains(Appended(heap, t)[write_buffer], NUL)
    BY <1>1, OverreadStep
  <2>2. PICK x : AppendEffect(t, x)
    BY <1>1, <2>1, WriteAppendEffect DEF IInv
  <2>3. loaded /\ x \in Seq(Byte) /\ NewSize(t) \in 0 .. Len(x)
    BY <1>1, <2>2, AppendWrites
  <2>4. NewSize(t) > 0
    <3>1. Block(write_data[t]) \in Seq(Byte)
      BY <1>1, <2>2, AppendWrites DEF IInv, MemInv, DataInv, WriteLabels
    <3>2. append_index(t) >= 1
      BY <2>1, <3>1, AppendIndexIs, AppendLenIs
    <3>. QED  BY <1>1, <2>2, <3>2, AppendWrites DEF NewSize
  <2>5. ~Contains(x, NUL)
    BY <1>1, <2>1, <2>2, <2>4, PrintedBlock
  <2>. DEFINE y == SubSeq(x, 1, NewSize(t))
              c == IF Len(Commands) < N THEN Commands ELSE Tail(Commands)
  <2>6. Commands' = Append(c, y)
    BY <1>1, <2>1, <2>2, CommandsGrow
  <2>7. y \in Seq(Byte) /\ ~Contains(y, NUL)
    <3>1. y \in Seq(Byte) /\ Len(y) = NewSize(t) /\ \A i \in 1 .. NewSize(t) : y[i] = x[i]
      BY <2>3, PrefixIs
    <3>. QED  BY <2>3, <2>5, <3>1, LenProperties DEF Contains
  <2>8. c \in Seq(Seq(Byte))
    <3>1. Commands \in Seq(Seq(Byte)) /\ N \in Nat \ {0}
      BY <1>1, <2>3, StoredCommands, NAssumption
    <3>. QED  BY <3>1, HeadTailProperties
  <2>. HIDE DEF y, c
  <2>9. /\ Append(c, y) # << >>
        /\ Append(c, y)[Len(Append(c, y))] = y
    BY <2>7, <2>8, AppendProperties
  <2>. QED  BY <2>6, <2>7, <2>9 DEF Last
<1>. QED  BY <1>1, InitIInv, NextIInv, PTL DEF Spec, OverreadsOnlyUnterminated

(***************************************************************************)
(* The position AESDCHAR_IOCSEEKTO computes is that of the byte asked for, *)
(* counted from the oldest command, while that is in the first slot.       *)
(***************************************************************************)
LEMMA SeekStep ==
  ASSUME IInv, NEW t \in Thread, aesd_adjust_file_offset(t), buffer.out_offs = 0
  PROVE  SeekedTo(t)
<1>. DEFINE cmd == arg[t].seekto.write_cmd
            off == arg[t].seekto.write_cmd_offset
            f == [i \in Slots |-> buffer.entry[i].size]
<1>. SUFFICES ASSUME cmd < Count(buffer), off < Len(Commands[cmd + 1])
              PROVE  f_pos'[arg[t].file] = Len(FlattenSeq(SubSeq(Commands, 1, cmd))) + off
  BY DEF SeekedTo
<1>1. pc[t] = "adjust" /\ loaded
  <2>1. pc[t] = "adjust"
    BY DEF aesd_adjust_file_offset
  <2>. QED  BY <2>1, HolderAlone, LockedLabels DEF IInv
<1>2. cmd \in Nat /\ off \in Nat /\ arg[t].file \in File /\ f_pos \in [File -> Nat]
  <2>1. arg[t].seekto \in Seektos /\ arg[t].seekto.cmd = "AESDCHAR_IOCSEEKTO"
    BY <1>1 DEF IInv, ArgInv
  <2>2. arg[t].file \in File /\ f_pos \in [File -> Nat]
    BY <1>1 DEF IInv, RestInv, ControlInv
  <2>. QED  BY <2>1, <2>2, DriverAssumption
<1>3. /\ Count(buffer) \in 0 .. N /\ N \in Nat \ {0} /\ Commands \in Seq(Seq(Byte)) /\ Len(Commands) = Count(buffer)
      /\ \A k \in 1 .. Count(buffer) : Len(Commands[k]) = buffer.entry[ScanSlot(buffer, k - 1)].size
  BY <1>1, StoredCommands, NAssumption
<1>4. /\ \A j \in 0 .. N - 1 : ScanSlot(buffer, j) = j
      /\ f \in [Slots -> Nat]
  <2>1. /\ buffer \in Buffer(Entry(Pointer))
        /\ \A e \in Entry(Pointer) : e.size \in Nat
    BY DEF IInv, MemInv, DeviceType, Entry
  <2>2. buffer.entry \in [Slots -> Entry(Pointer)]
    BY <2>1, BufferFields
  <2>3. \A j \in 0 .. N - 1 : ScanSlot(buffer, j) = j
    <3>. TAKE j \in 0 .. N - 1
    <3>1. ScanSlot(buffer, j) = IF buffer.out_offs + j < N THEN buffer.out_offs + j
                                ELSE buffer.out_offs + j - N
      BY <2>1, ScanSlotValue, Zenon
    <3>. QED  BY <1>3, <3>1
  <2>. QED  BY <2>1, <2>2, <2>3
<1>5. \A k \in 1 .. Count(buffer) : Len(Commands[k]) = f[k - 1] /\ k - 1 \in Slots
  <2>. TAKE k \in 1 .. Count(buffer)
  <2>1. k - 1 \in 0 .. N - 1 /\ k - 1 \in Slots
    BY <1>3 DEF Slots
  <2>2. ScanSlot(buffer, k - 1) = k - 1
    BY <1>4, <2>1
  <2>. QED  BY <1>3, <2>1, <2>2
<1>. HIDE DEF cmd, off, f
<1>6. cmd < N /\ off < buffer.entry[cmd].size
  <2>1. cmd + 1 \in 1 .. Count(buffer) /\ (cmd + 1) - 1 = cmd /\ cmd < N
    BY <1>2, <1>3
  <2>2. Len(Commands[cmd + 1]) = f[cmd] /\ cmd \in Slots
    BY <1>5, <2>1
  <2>. QED  BY <2>1, <2>2 DEF f
<1>7. f_pos'[arg[t].file] = SumBelow(f, cmd) + off
  <2>1. f_pos' = [f_pos EXCEPT ![arg[t].file] = updated_fpos_offset(cmd) + off]
    BY <1>6 DEF aesd_adjust_file_offset, cmd, off
  <2>2. updated_fpos_offset(cmd) = SumBelow(f, cmd)
    BY DEF updated_fpos_offset, f
  <2>. QED  BY <1>2, <2>1, <2>2
<1>8. Len(FlattenSeq(SubSeq(Commands, 1, cmd))) = SumBelow(f, cmd)
  <2>. DEFINE c == Commands
              s == SubSeq(c, 1, cmd)
  <2>1. c \in Seq(Seq(Byte)) /\ cmd \in 0 .. Len(c)
    BY <1>2, <1>3
  <2>. HIDE DEF c
  <2>2. s \in Seq(Seq(Byte)) /\ Len(s) = cmd /\ \A i \in 1 .. cmd : s[i] = c[i]
    BY <2>1, PrefixIs
  <2>. HIDE DEF s
  <2>3. \A i \in 1 .. cmd : i \in 1 .. Count(buffer)
    BY <1>2, <1>3
  <2>4. \A i \in 1 .. cmd : Len(s[i]) = f[i - 1]
    BY <1>5, <2>2, <2>3, Zenon DEF c
  <2>5. Len(s) <= N /\ \A i \in 1 .. Len(s) : Len(s[i]) = f[i - 1]
    <3>1. cmd <= N
      BY <1>2, <1>3
    <3>. QED  BY <2>2, <2>4, <3>1, Zenon
  <2>6. Len(FlattenSeq(s)) = SumBelow(f, Len(s))
    BY <1>4, <2>2, <2>5, FlattenBytes
  <2>. QED  BY <2>2, <2>6 DEF s, c
<1>. QED  BY <1>7, <1>8 DEF off

(***************************************************************************)
(* AESDCHAR_IOCSEEKTO is right, for every buffer and every command and     *)
(* offset, until the oldest command leaves the first slot.  (After that it *)
(* is not: SeekToIsZeroReferenced is violated.)                            *)
(***************************************************************************)
THEOREM SeekToUnwrapped == Spec => SeekToIsZeroReferencedUnwrapped
<1>1. ASSUME IInv, [Next]_vars
      PROVE  [\A t \in Thread : pc[t] = "adjust" /\ pc'[t] = "idle" /\ buffer.out_offs = 0
                                  => SeekedTo(t)]_vars
  BY <1>1, StepOfItsOwn, StepAtLabel, SeekStep
<1>. QED  BY <1>1, InitIInv, NextIInv, PTL DEF Spec, SeekToIsZeroReferencedUnwrapped

-----------------------------------------------------------------------------
\* The abstract device's own copies of the operators of AesdDevice are the same.
LEMMA SameOperators ==
  /\ \A d, x : Atomic!DeviceWrite(d, x) = DeviceWrite(d, x)
  /\ \A x : Atomic!Accepted(x) = Accepted(x)
  /\ \A d, p, n : Atomic!DeviceRead(d, p, n) = DeviceRead(d, p, n)
  /\ \A d, p, s : Atomic!DeviceSeekto(d, p, s) = DeviceSeekto(d, p, s)
  /\ \A d, p, s : Atomic!DeviceLlseek(d, p, s) = DeviceLlseek(d, p, s)
  /\ Atomic!NewDevice = NewDevice
<1>1. \A x : Atomic!Contains(x, NewLine) <=> Contains(x, NewLine)
  BY DEF Atomic!Contains, Contains
<1>2. \A T : Atomic!Min(T) = Min(T)
  BY DEF Atomic!Min, Min
<1>3. \A x : Atomic!Accepted(x) = Accepted(x)
  <2>. TAKE x
  <2>. DEFINE I == {i \in 1 .. Len(x) : x[i] = NewLine}
  <2>1. SelectInSeq(x, LAMBDA c : c = NewLine) = IF I # {} THEN Min(I) ELSE 0
    BY DEF SelectInSeq
  <2>2. Atomic!SelectInSeq(x, LAMBDA c : c = NewLine) = IF I # {} THEN Atomic!Min(I) ELSE 0
    BY DEF Atomic!SelectInSeq
  <2>3. Atomic!SelectInSeq(x, LAMBDA c : c = NewLine) = SelectInSeq(x, LAMBDA c : c = NewLine)
    BY <1>2, <2>1, <2>2
  <2>. QED  BY <1>1, <2>3 DEF Atomic!Accepted, Accepted
<1>4. \A b, e : Atomic!aesd_circular_buffer_add_entry(b, e) = aesd_circular_buffer_add_entry(b, e)
  BY DEF Atomic!aesd_circular_buffer_add_entry, aesd_circular_buffer_add_entry
<1>5. \A d, x : Atomic!DeviceWrite(d, x) = DeviceWrite(d, x)
  BY <1>1, <1>3, <1>4 DEF Atomic!DeviceWrite, DeviceWrite, Atomic!Command, Command
<1>6. \A f, j : Atomic!SumBelow(f, j) = SumBelow(f, j)
  BY DEF Atomic!SumBelow, SumBelow
<1>7. \A b, p : Atomic!aesd_circular_buffer_find_entry_offset_for_fpos(b, p)
                  = aesd_circular_buffer_find_entry_offset_for_fpos(b, p)
  <2>. TAKE b, p
  <2>1. \A j : Atomic!ScanSlot(b, j) = ScanSlot(b, j)
    BY DEF Atomic!ScanSlot, ScanSlot
  <2>2. \A j : Atomic!AccumulatedBytes(b, j) = AccumulatedBytes(b, j)
    BY <1>6, <2>1 DEF Atomic!AccumulatedBytes, AccumulatedBytes, Atomic!Slots, Slots
  <2>3. \A j : Atomic!LoopEntered(b, j) <=> LoopEntered(b, j)
    BY <2>1 DEF Atomic!LoopEntered, LoopEntered, Atomic!ScanLimit, ScanLimit
  <2>. DEFINE H == {j \in 0 .. N : /\ \A k \in 0 .. j : LoopEntered(b, k)
                                   /\ AccumulatedBytes(b, j) + b.entry[ScanSlot(b, j)].size > p}
              A == {j \in 0 .. N : /\ \A k \in 0 .. j : Atomic!LoopEntered(b, k)
                                   /\ Atomic!AccumulatedBytes(b, j) + b.entry[Atomic!ScanSlot(b, j)].size > p}
  <2>4. A = H
    BY <2>1, <2>2, <2>3
  <2>5. aesd_circular_buffer_find_entry_offset_for_fpos(b, p)
          = IF H = {} THEN NULL ELSE [slot |-> ScanSlot(b, Min(H)), byte |-> p - AccumulatedBytes(b, Min(H))]
    BY Zenon DEF aesd_circular_buffer_find_entry_offset_for_fpos, ScanLimit
  <2>6. Atomic!aesd_circular_buffer_find_entry_offset_for_fpos(b, p)
          = IF A = {} THEN NULL ELSE [slot |-> Atomic!ScanSlot(b, Atomic!Min(A)),
                                      byte |-> p - Atomic!AccumulatedBytes(b, Atomic!Min(A))]
    BY Zenon DEF Atomic!aesd_circular_buffer_find_entry_offset_for_fpos, Atomic!ScanLimit
  <2>. HIDE DEF A, H
  <2>. QED  BY <1>2, <2>1, <2>2, <2>4, <2>5, <2>6
<1>8. \A d, p, n : Atomic!DeviceRead(d, p, n) = DeviceRead(d, p, n)
  BY <1>2, <1>7 DEF Atomic!DeviceRead, DeviceRead
<1>9. \A d, p, s : Atomic!DeviceSeekto(d, p, s) = DeviceSeekto(d, p, s)
  BY <1>6 DEF Atomic!DeviceSeekto, DeviceSeekto, Atomic!SizesBelow, SizesBelow, Atomic!Slots, Slots
<1>10. \A d, p, s : Atomic!DeviceLlseek(d, p, s) = DeviceLlseek(d, p, s)
  BY DEF Atomic!DeviceLlseek, DeviceLlseek, Atomic!fixed_size_llseek, fixed_size_llseek
<1>11. Atomic!NewDevice = NewDevice
  BY DEF Atomic!NewDevice, NewDevice, Atomic!aesd_circular_buffer_init, aesd_circular_buffer_init,
     Atomic!ZeroEntry, ZeroEntry, Atomic!Slots, Slots
<1>. QED  BY <1>3, <1>5, <1>8, <1>9, <1>10, <1>11

(***************************************************************************)
(* What the mapping shows of the state: the device, and the positions.     *)
(***************************************************************************)
DeviceSeen == IF loaded THEN DeviceNow ELSE NewDevice
PosSeen    == [f \in File |-> PosNow(f)]

\* No file is in two calls, a call that has not returned works on the position
\* its file still has, and a file that is not open is at 0.
ApartInv ==
  /\ \A t, u \in Thread : pc[t] # "idle" /\ pc[u] # "idle" /\ arg[t].file = arg[u].file => t = u
  /\ \A t \in Thread : pc[t] \notin {"idle", "return"} => pos[t] = f_pos[arg[t].file]
  /\ \A f \in File \ opened : f_pos[f] = 0

\* The types the proofs about positions need.
LEMMA CallTypes ==
  ASSUME IInv
  PROVE  /\ pc \in [Thread -> Labels] /\ DOMAIN arg = Thread
         /\ f_pos \in [File -> Nat] /\ pos \in [Thread -> Nat] /\ got \in [Thread -> Seq(Byte)]
         /\ write_data \in [Thread -> Pointer] /\ opened \subseteq File
         /\ \A t \in Thread : pc[t] # "idle" => arg[t].file \in opened /\ arg[t].file \in File
         /\ \A t \in Thread : pc[t] = "idle" => arg[t].file = NULL
         /\ NULL \notin File
  BY DriverAssumption DEF IInv, ControlInv, RestInv, MemInv, CallType

\* A file's position is in its struct file, or on its way there.
LEMMA PosIs ==
  ASSUME IInv, ApartInv, NEW f \in File
  PROVE  /\ \A t \in Thread : pc[t] = "return" /\ arg[t].file = f => PosNow(f) = pos[t]
         /\ (\A t \in Thread : ~(pc[t] = "return" /\ arg[t].file = f)) => PosNow(f) = f_pos[f]
<1>1. ASSUME NEW t \in Thread, pc[t] = "return", arg[t].file = f PROVE PosNow(f) = pos[t]
  <2>. DEFINE u == CHOOSE u \in Thread : pc[u] = "return" /\ arg[u].file = f
  <2>1. u \in Thread /\ pc[u] = "return" /\ arg[u].file = f
    BY <1>1
  <2>2. PosNow(f) = pos[u]
    BY <1>1 DEF PosNow
  <2>. HIDE DEF u
  <2>. QED  BY <1>1, <2>1, <2>2 DEF ApartInv
<1>2. ASSUME \A t \in Thread : ~(pc[t] = "return" /\ arg[t].file = f) PROVE PosNow(f) = f_pos[f]
  BY <1>2 DEF PosNow
<1>. QED  BY <1>1, <1>2

\* Also after a step.
LEMMA PosIsAfter ==
  ASSUME IInv', ApartInv', NEW f \in File
  PROVE  /\ \A t \in Thread : pc'[t] = "return" /\ arg'[t].file = f => PosNow(f)' = pos'[t]
         /\ (\A t \in Thread : ~(pc'[t] = "return" /\ arg'[t].file = f)) => PosNow(f)' = f_pos'[f]
<1>1. ASSUME NEW t \in Thread, pc'[t] = "return", arg'[t].file = f PROVE PosNow(f)' = pos'[t]
  <2>. DEFINE u == CHOOSE u \in Thread : pc'[u] = "return" /\ arg'[u].file = f
  <2>1. u \in Thread /\ pc'[u] = "return" /\ arg'[u].file = f
    BY <1>1
  <2>2. PosNow(f)' = pos'[u]
    BY <1>1 DEF PosNow
  <2>. HIDE DEF u
  <2>. QED  BY <1>1, <2>1, <2>2 DEF ApartInv
<1>2. ASSUME \A t \in Thread : ~(pc'[t] = "return" /\ arg'[t].file = f) PROVE PosNow(f)' = f_pos'[f]
  BY <1>2 DEF PosNow
<1>. QED  BY <1>1, <1>2

\* Steps that leave the struct files and the calls that return alone.
LEMMA PosKept ==
  ASSUME IInv, IInv', ApartInv, ApartInv', UNCHANGED f_pos,
         \A u \in Thread : /\ pc'[u] = "return" <=> pc[u] = "return"
                           /\ pc[u] = "return" => arg'[u] = arg[u] /\ pos'[u] = pos[u]
  PROVE  PosSeen' = PosSeen
<1>1. \A f \in File : PosNow(f)' = PosNow(f)
  <2>. TAKE f \in File
  <2>1. CASE \E t \in Thread : pc[t] = "return" /\ arg[t].file = f
    BY <2>1, PosIs, PosIsAfter
  <2>2. CASE \A t \in Thread : ~(pc[t] = "return" /\ arg[t].file = f)
    BY <2>2, PosIs, PosIsAfter
  <2>. QED  BY <2>1, <2>2
<1>. QED  BY <1>1 DEF PosSeen

\* Steps that move the position of one file, f.
LEMMA PosMoved ==
  ASSUME IInv, IInv', ApartInv, ApartInv', NEW f \in File,
         \A g \in File \ {f} : f_pos'[g] = f_pos[g],
         \A u \in Thread : \/ arg'[u].file = arg[u].file /\ pos'[u] = pos[u]
                              /\ (pc'[u] = "return" <=> pc[u] = "return")
                           \/ /\ pc[u] = "return" => arg[u].file = f
                              /\ pc'[u] = "return" => arg'[u].file = f
  PROVE  PosSeen' = [PosSeen EXCEPT ![f] = PosNow(f)']
<1>1. \A g \in File \ {f} : PosNow(g)' = PosNow(g)
  <2>. TAKE g \in File \ {f}
  <2>1. CASE \E t \in Thread : pc[t] = "return" /\ arg[t].file = g
    BY <2>1, PosIs, PosIsAfter
  <2>2. CASE \A t \in Thread : ~(pc[t] = "return" /\ arg[t].file = g)
    <3>1. \A t \in Thread : ~(pc'[t] = "return" /\ arg'[t].file = g)
      BY <2>2
    <3>. QED  BY <2>2, <3>1, PosIs, PosIsAfter
  <2>. QED  BY <2>1, <2>2
<1>. QED  BY <1>1 DEF PosSeen

\* Calls on one file at a time keep it so.
LEMMA NextApart == IInv /\ IInv' /\ ApartInv /\ [ExclusiveNext]_vars => ApartInv'
<1>. SUFFICES ASSUME IInv, IInv', ApartInv, [ExclusiveNext]_vars PROVE ApartInv'
  OBVIOUS
<1>0. /\ pc \in [Thread -> Labels] /\ DOMAIN arg = Thread
      /\ f_pos \in [File -> Nat] /\ pos \in [Thread -> Nat] /\ opened \subseteq File
      /\ \A t \in Thread : pc[t] # "idle" => arg[t].file \in opened /\ arg[t].file \in File
  BY CallTypes
<1>1. ASSUME UNCHANGED <<opened, f_pos, pc, arg, pos>> PROVE ApartInv'
  BY <1>1 DEF ApartInv
<1>2. ASSUME NEW t \in Thread, Leave(t), UNCHANGED opened, pc[t] # "idle",
             \A g \in File : g # arg[t].file => f_pos'[g] = f_pos[g]
      PROVE  ApartInv'
  <2>1. /\ pc'[t] = "idle"
        /\ \A u \in Thread \ {t} : pc'[u] = pc[u] /\ arg'[u] = arg[u] /\ pos'[u] = pos[u]
    BY <1>0, <1>2 DEF Leave, Goto
  <2>2. \A u \in Thread \ {t} : pc[u] # "idle" => arg[u].file # arg[t].file /\ arg[u].file \in File
    BY <1>0, <1>2 DEF ApartInv
  <2>3. \A g \in File \ opened : f_pos'[g] = f_pos[g]
    BY <1>0, <1>2
  <2>4. \A u, v \in Thread : pc'[u] # "idle" /\ pc'[v] # "idle" /\ arg'[u].file = arg'[v].file => u = v
    BY <2>1 DEF ApartInv
  <2>5. \A u \in Thread : pc'[u] \notin {"idle", "return"} => pos'[u] = f_pos'[arg'[u].file]
    BY <1>2, <2>1, <2>2 DEF ApartInv
  <2>. QED  BY <1>2, <2>3, <2>4, <2>5 DEF ApartInv
<1>3. ASSUME NEW t \in Thread, NEW l, Goto(t, l), pc[t] # "idle", UNCHANGED <<opened, f_pos, arg>>,
             pos' = pos \/ (l = "return" /\ \A u \in Thread \ {t} : pos'[u] = pos[u]),
             pc[t] = "return" => l = "return"
      PROVE  ApartInv'
  <2>1. pc'[t] = l /\ \A u \in Thread \ {t} : pc'[u] = pc[u]
    BY <1>0, <1>3 DEF Goto
  <2>2. \A u, v \in Thread : pc'[u] # "idle" /\ pc'[v] # "idle" /\ arg'[u].file = arg'[v].file => u = v
    BY <1>3, <2>1 DEF ApartInv
  <2>3. \A u \in Thread : pc'[u] \notin {"idle", "return"} => pos'[u] = f_pos'[arg'[u].file]
    BY <1>3, <2>1 DEF ApartInv
  <2>. QED  BY <1>3, <2>2, <2>3 DEF ApartInv
<1>4. ASSUME NEW t \in Thread, NEW f \in File, ~InUse(f), NEW l, NEW args, args.file = f,
             Enter(t, l, args), UNCHANGED <<opened, f_pos>>
      PROVE  ApartInv'
  <2>1. /\ pc'[t] = l /\ arg'[t] = args /\ pos'[t] = f_pos[f]
        /\ \A u \in Thread \ {t} : pc'[u] = pc[u] /\ arg'[u] = arg[u] /\ pos'[u] = pos[u]
    BY <1>0, <1>4 DEF Enter, Goto
  <2>2. \A u \in Thread \ {t} : pc[u] # "idle" => arg[u].file # f
    BY <1>4 DEF InUse
  <2>3. \A u, v \in Thread : pc'[u] # "idle" /\ pc'[v] # "idle" /\ arg'[u].file = arg'[v].file => u = v
    BY <1>4, <2>1, <2>2 DEF ApartInv
  <2>4. \A u \in Thread : pc'[u] \notin {"idle", "return"} => pos'[u] = f_pos'[arg'[u].file]
    BY <1>4, <2>1 DEF ApartInv
  <2>. QED  BY <1>4, <2>3, <2>4 DEF ApartInv
<1>5. ASSUME NEW t \in Thread, NEW f \in File, ~InUse(f), SysCall(t, f) PROVE ApartInv'
  <2>1. CASE \E count \in ReadCounts : SysRead(t, f, count)
    <3>1. PICK count \in ReadCounts : SysRead(t, f, count)
      BY <2>1
    <3>. QED  BY <1>4, <1>5, <3>1 DEF SysRead
  <2>2. CASE \E data \in Payload : SysWrite(t, f, data)
    <3>1. PICK data \in Payload : SysWrite(t, f, data)
      BY <2>2
    <3>2. CASE UNCHANGED call
      BY <1>1, <3>1, <3>2 DEF SysWrite, call
    <3>3. CASE Enter(t, "write_copy", [file |-> f, data |-> data])
      BY <1>4, <1>5, <3>1, <3>3 DEF SysWrite
    <3>. QED  BY <3>1, <3>2, <3>3 DEF SysWrite
  <2>3. CASE \E seek \in Seeks : SysLlseek(t, f, seek)
    <3>1. PICK seek \in Seeks : SysLlseek(t, f, seek)
      BY <2>3
    <3>. QED  BY <1>4, <1>5, <3>1 DEF SysLlseek
  <2>4. CASE \E seekto \in Seektos : SysIoctl(t, f, seekto)
    <3>1. PICK seekto \in Seektos : SysIoctl(t, f, seekto)
      BY <2>4
    <3>. QED  BY <1>4, <1>5, <3>1 DEF SysIoctl
  <2>. QED  BY <1>5, <2>1, <2>2, <2>3, <2>4 DEF SysCall
<1>6. ASSUME NEW t \in Thread, Step(t) PROVE ApartInv'
  <2>0. "idle" \notin Waiting /\ "return" \notin Waiting
    BY LockedLabels
  <2>1. CASE AcquireLock(t)
    BY <1>3, <2>0, <2>1 DEF AcquireLock
  <2>2. CASE LockInterrupted(t)
    BY <1>2, <2>0, <2>2 DEF LockInterrupted, AfterInterrupt
  <2>3. CASE StorePos(t)
    BY <1>0, <1>2, <2>3 DEF StorePos
  <2>4. CASE aesd_read(t)
    <3>1. CASE Leave(t)
      BY <1>2, <2>4, <3>1 DEF aesd_read
    <3>2. CASE ~Leave(t)
      <4>1. pc[t] = "read" /\ Goto(t, "return") /\ UNCHANGED <<opened, f_pos, arg>>
        BY <2>4, <3>2 DEF aesd_read
      <4>2. \A u \in Thread \ {t} : pos'[u] = pos[u]
        BY <1>0, <2>4, <3>2 DEF aesd_read
      <4>. QED  BY <1>3, <4>1, <4>2
    <3>. QED  BY <3>1, <3>2
  <2>5. CASE WriteCopy(t)
    BY <1>2, <1>3, <2>5 DEF WriteCopy
  <2>6. CASE WriteReserve(t)
    BY <1>3, <2>6 DEF WriteReserve
  <2>7. CASE WriteReserveFails(t)
    BY <1>2, <2>7 DEF WriteReserveFails
  <2>8. CASE WriteAppend(t)
    <3>1. \A u \in Thread \ {t} : pos'[u] = pos[u]
      BY <1>0, <2>8 DEF WriteAppend
    <3>. QED  BY <1>3, <2>8, <3>1 DEF WriteAppend
  <2>9. CASE aesd_llseek(t)
    BY <1>0, <1>2, <2>9 DEF aesd_llseek
  <2>10. CASE aesd_ioctl(t)
    BY <1>2, <1>3, <2>10 DEF aesd_ioctl
  <2>11. CASE aesd_adjust_file_offset(t)
    BY <1>0, <1>2, <2>11 DEF aesd_adjust_file_offset
  <2>. QED  BY <1>6, <2>1, <2>2, <2>3, <2>4, <2>5, <2>6, <2>7, <2>8, <2>9, <2>10, <2>11 DEF Step
<1>7. ASSUME NEW f \in File, Open(f) \/ Release(f) PROVE ApartInv'
  <2>1. /\ UNCHANGED <<pc, arg, pos>> /\ f_pos' = [f_pos EXCEPT ![f] = 0]
        /\ opened' = opened \cup {f} \/ opened' = opened \ {f}
    BY <1>7 DEF Open, Release, call
  <2>2. \A u \in Thread : pc[u] # "idle" => arg[u].file # f
    BY <1>0, <1>7 DEF Open, Release
  <2>3. \A u \in Thread : pc'[u] \notin {"idle", "return"} => pos'[u] = f_pos'[arg'[u].file]
    BY <1>0, <2>1, <2>2 DEF ApartInv
  <2>4. \A g \in File \ opened' : f_pos'[g] = 0
    BY <1>0, <2>1 DEF ApartInv
  <2>. QED  BY <2>1, <2>3, <2>4 DEF ApartInv
<1>8. CASE aesd_init_module \/ aesd_cleanup_module \/ UNCHANGED vars
  BY <1>1, <1>8 DEF aesd_init_module, aesd_cleanup_module, call, vars
<1>. QED  BY <1>5, <1>6, <1>7, <1>8 DEF ExclusiveNext

\* A buffer whose entries hold their bytes, in place of pointers into memory h.
ShownEntry(h, e) == IF e = ZeroEntry THEN e ELSE [buffptr |-> BytesIn(h, e), size |-> e.size]
Shown(h, b) == [b EXCEPT !.entry = [i \in Slots |-> ShownEntry(h, b.entry[i])]]

\* The device that programs see, before and after a step.
LEMMA DeviceIs ==
  /\ DeviceNow = [buffer |-> Shown(heap, buffer), partial |-> Partial, buff_size |-> buff_size]
  /\ DeviceNow' = [buffer |-> Shown(heap', buffer'), partial |-> Partial', buff_size |-> buff_size']
  BY DEF DeviceNow, Shown, ShownEntry, EntryBytes, BytesIn, Block

\* The fields of a buffer that is shown.
LEMMA ShownFields ==
  ASSUME NEW S, NEW b \in Buffer(S), NEW h
  PROVE  /\ Shown(h, b) = [entry    |-> [i \in Slots |-> ShownEntry(h, b.entry[i])],
                           in_offs  |-> b.in_offs, out_offs |-> b.out_offs, full |-> b.full]
         /\ \A i \in Slots : Shown(h, b).entry[i] = ShownEntry(h, b.entry[i])
  BY DEF Shown, Buffer

\* A step that touches no entry and no block of one shows the same buffer.
LEMMA ShownKept ==
  ASSUME IInv, buffer' = buffer,
         \A i \in Slots : buffer.entry[i] # ZeroEntry =>
                            heap'[buffer.entry[i].buffptr] = heap[buffer.entry[i].buffptr]
  PROVE  Shown(heap', buffer') = Shown(heap, buffer)
<1>1. \A i \in Slots : ShownEntry(heap', buffer.entry[i]) = ShownEntry(heap, buffer.entry[i])
  BY DEF ShownEntry, BytesIn
<1>. QED  BY <1>1 DEF Shown

\* What every step but an append and a change of the module leaves alone.
LEMMA EntriesKept ==
  ASSUME IInv, loaded,
         CallEffect \/ (\E t \in Thread : \E p : DataEffect(t, p))
                    \/ (\E t \in Thread : \E x : ReserveEffect(t, x))
  PROVE  /\ UNCHANGED <<buffer, buff_size>>
         /\ \A i \in Slots : buffer.entry[i] # ZeroEntry =>
                               heap'[buffer.entry[i].buffptr] = heap[buffer.entry[i].buffptr]
<1>1. CASE CallEffect
  BY <1>1 DEF CallEffect
<1>2. ASSUME NEW t \in Thread, NEW p, DataEffect(t, p), NEW i \in Slots, buffer.entry[i] # ZeroEntry
      PROVE  heap'[buffer.entry[i].buffptr] = heap[buffer.entry[i].buffptr]
  <2>1. /\ buffer.entry[i].buffptr \in Addr /\ heap[buffer.entry[i].buffptr] \in Seq(Byte)
        /\ write_data[t] # buffer.entry[i].buffptr
    BY <1>2 DEF IInv, MemInv, EntryInv
  <2>. QED  BY <1>2, <2>1, DriverAssumption DEF DataEffect
<1>3. ASSUME NEW t \in Thread, NEW x, ReserveEffect(t, x), NEW i \in Slots, buffer.entry[i] # ZeroEntry
      PROVE  heap'[buffer.entry[i].buffptr] = heap[buffer.entry[i].buffptr]
  <2>. DEFINE p == buffer.entry[i].buffptr
  <2>1. p \in Addr /\ heap[p] # FREE
    BY <1>3, DriverAssumption DEF IInv, MemInv, EntryInv
  <2>2. write_buffer_size > 0 => p # write_buffer
    BY <1>3, <2>1 DEF IInv, MemInv, PendingInv, Pending
  <2>3. p # write_buffer'
    BY <1>3, <2>1, <2>2 DEF ReserveEffect
  <2>. QED  BY <1>3, <2>1, <2>2, <2>3 DEF ReserveEffect
<1>4. (\E t \in Thread : \E p : DataEffect(t, p)) => UNCHANGED <<buffer, buff_size>>
  BY DEF DataEffect
<1>5. (\E t \in Thread : \E x : ReserveEffect(t, x)) => UNCHANGED <<buffer, buff_size>>
  BY DEF ReserveEffect
<1>. QED  BY <1>1, <1>2, <1>3, <1>4, <1>5

\* An append is a write to the device.
LEMMA DeviceWritten ==
  ASSUME IInv, IInv', KeptInv, KeptInv', NEW t \in Thread, NEW x, AppendEffect(t, x)
  PROVE  /\ DeviceSeen' = DeviceWrite(DeviceSeen, arg[t].data)
         /\ arg[t].data \in Payload /\ Len(Accepted(arg[t].data)) = append_index(t)
<1>. DEFINE d == arg[t].data
            n == NewSize(t)
            z == SubSeq(x, 1, n)
<1>1. /\ loaded /\ loaded' /\ write_buffer_size \in Nat /\ append_index(t) \in Nat
      /\ x \in Seq(Byte) /\ n \in 0 .. Len(x) /\ n = write_buffer_size + append_index(t)
      /\ n > 0 => write_buffer \in Addr
      /\ write_buffer \in Addr => heap'[write_buffer] = x
  BY AppendWrites DEF NewSize
<1>2. /\ d \in Payload /\ d \in Seq(Byte)
      /\ newline_found(t) <=> Contains(d, NewLine)
      /\ z = Partial \o Accepted(d)
      /\ Len(Accepted(d)) = append_index(t)
  BY AppendedBytes
<1>3. Len(z) = n
  BY <1>1, PrefixIs
<1>4. /\ DeviceSeen = [buffer |-> Shown(heap, buffer), partial |-> Partial, buff_size |-> buff_size]
      /\ DeviceSeen' = [buffer |-> Shown(heap', buffer'), partial |-> Partial', buff_size |-> buff_size']
  BY <1>1, DeviceIs DEF DeviceSeen
<1>5. Partial' = IF newline_found(t) THEN << >> ELSE z
  <2>1. CASE newline_found(t)
    <3>1. write_buffer_size' = 0
      BY <2>1 DEF AppendEffect
    <3>. QED  BY <2>1, <3>1 DEF Partial
  <2>2. CASE ~newline_found(t)
    <3>1. write_buffer_size' = n
      BY <2>2 DEF AppendEffect, NewSize
    <3>2. CASE n = 0
      <4>1. SubSeq(x, 1, 0) = << >>
        BY <1>1, SubSeqEmpty
      <4>. QED  BY <2>2, <3>1, <3>2, <4>1 DEF Partial
    <3>3. CASE n # 0
      <4>1. n > 0
        BY <1>1, <3>3
      <4>2. (Block(write_buffer))' = x
        BY <1>1, <4>1, AppendWrites DEF Block
      <4>. QED  BY <2>2, <3>1, <4>1, <4>2 DEF Partial
    <3>. QED  BY <3>2, <3>3
  <2>. QED  BY <2>1, <2>2
<1>6. CASE newline_found(t)
  <2>. DEFINE e == [buffptr |-> write_buffer, size |-> n]
              g == [buffptr |-> z, size |-> n]
              b == Shown(heap, buffer)
  <2>1. buffer' = aesd_circular_buffer_add_entry(buffer, e) /\ buff_size' = buff_size + n
    BY <1>6 DEF AppendEffect, NewSize
  <2>2. n > 0
    <3>1. append_index(t) >= 1
      BY <1>2, <1>6, AcceptedIs
    <3>. QED  BY <1>1, <3>1
  <2>3. buffer \in Buffer(Entry(Pointer)) /\ BufferInv /\ buffer' \in Buffer(Entry(Pointer))
    BY DEF IInv, MemInv, DeviceType
  <2>4. ShownEntry(heap', e) = g
    <3>1. e # ZeroEntry
      BY <2>2 DEF ZeroEntry
    <3>. QED  BY <1>1, <2>2, <3>1 DEF ShownEntry, BytesIn
  <2>5. \A i \in Slots : i # buffer.in_offs =>
             ShownEntry(heap', buffer.entry[i]) = ShownEntry(heap, buffer.entry[i])
    BY AppendKeepsEntries DEF ShownEntry, BytesIn
  <2>6. /\ buffer.in_offs \in Slots /\ buffer.entry \in [Slots -> Entry(Pointer)]
    BY <2>3, BufferFields
  <2>7. /\ b = [entry    |-> [i \in Slots |-> ShownEntry(heap, buffer.entry[i])],
                in_offs  |-> buffer.in_offs, out_offs |-> buffer.out_offs, full |-> buffer.full]
        /\ Shown(heap', buffer') = [entry |-> [i \in Slots |-> ShownEntry(heap', buffer'.entry[i])],
                in_offs  |-> buffer'.in_offs, out_offs |-> buffer'.out_offs, full |-> buffer'.full]
    BY <2>3, ShownFields
  <2>8. /\ buffer'.entry = [buffer.entry EXCEPT ![buffer.in_offs] = e]
        /\ buffer'.in_offs = (buffer.in_offs + 1) % N
        /\ buffer'.out_offs = IF buffer.full THEN buffer'.in_offs ELSE buffer.out_offs
        /\ buffer'.full = (buffer'.in_offs = buffer'.out_offs)
    BY <2>1 DEF aesd_circular_buffer_add_entry
  <2>9. [i \in Slots |-> ShownEntry(heap', buffer'.entry[i])]
          = [[i \in Slots |-> ShownEntry(heap, buffer.entry[i])] EXCEPT ![buffer.in_offs] = g]
    <3>1. \A i \in Slots : ShownEntry(heap', buffer'.entry[i])
                             = IF i = buffer.in_offs THEN g ELSE ShownEntry(heap, buffer.entry[i])
      <4>. HIDE DEF e, g
      <4>. QED  BY <2>4, <2>5, <2>6, <2>8
    <3>. QED  BY <2>6, <3>1, Zenon
  <2>. HIDE DEF e, g
  <2>10. Shown(heap', buffer') = aesd_circular_buffer_add_entry(b, g)
    BY <2>7, <2>8, <2>9 DEF aesd_circular_buffer_add_entry
  <2>. HIDE DEF b, z, n, d
  <2>11. DeviceWrite(DeviceSeen, d) = [buffer |-> aesd_circular_buffer_add_entry(b, [buffptr |-> z, size |-> Len(z)]),
                                       partial |-> << >>, buff_size |-> buff_size + Len(z)]
    BY <1>2, <1>4, <1>6 DEF DeviceWrite, Command, b
  <2>. QED  BY <1>2, <1>3, <1>4, <1>5, <1>6, <2>1, <2>10, <2>11 DEF g, d
<1>7. CASE ~newline_found(t)
  <2>1. UNCHANGED <<buffer, buff_size>>
    BY <1>7 DEF AppendEffect
  <2>2. \A i \in Slots : buffer.entry[i] # ZeroEntry =>
                            heap'[buffer.entry[i].buffptr] = heap[buffer.entry[i].buffptr]
    BY <1>7, AppendKeepsEntries
  <2>3. Shown(heap', buffer') = Shown(heap, buffer)
    BY <2>1, <2>2, ShownKept
  <2>. HIDE DEF z, n, d
  <2>. QED  BY <1>2, <1>4, <1>5, <1>7, <2>1, <2>3 DEF DeviceWrite, Command, d
<1>. QED  BY <1>6, <1>7

\* A device that is not loaded, or just was, is new.
LEMMA DeviceLoaded ==
  ASSUME aesd_init_module
  PROVE  DeviceSeen = NewDevice /\ DeviceSeen' = NewDevice
<1>1. DeviceSeen = NewDevice
  BY DEF aesd_init_module, DeviceSeen
<1>2. CASE loaded'
  <2>1. buffer' = aesd_circular_buffer_init /\ buff_size' = 0 /\ Partial' = << >>
    BY DEF aesd_init_module, Partial
  <2>2. Shown(heap', buffer') = aesd_circular_buffer_init
    <3>1. \A i \in Slots : aesd_circular_buffer_init.entry[i] = ZeroEntry
      BY DEF aesd_circular_buffer_init
    <3>2. [i \in Slots |-> ShownEntry(heap', aesd_circular_buffer_init.entry[i])] = [i \in Slots |-> ZeroEntry]
      BY <3>1 DEF ShownEntry
    <3>3. aesd_circular_buffer_init \in Buffer({ZeroEntry})
      BY NAssumption DEF aesd_circular_buffer_init, Buffer, Slots
    <3>. QED  BY <2>1, <3>2, <3>3, ShownFields DEF aesd_circular_buffer_init
  <2>. QED  BY <1>1, <1>2, <2>1, <2>2, DeviceIs DEF DeviceSeen, NewDevice
<1>3. CASE ~loaded'
  BY <1>1, <1>3 DEF DeviceSeen
<1>. QED  BY <1>1, <1>2, <1>3

\* Every other step but unloading the module leaves the device as it is.
LEMMA DeviceKept ==
  ASSUME IInv, IInv', KeptInv, KeptInv', Effect, loaded, loaded',
         \A t \in Thread : \A x : ~AppendEffect(t, x)
  PROVE  DeviceSeen' = DeviceSeen
<1>1. Partial' = Partial
  BY PartialStep
<1>2. ~aesd_init_module /\ ~aesd_cleanup_module
  BY DEF aesd_init_module, aesd_cleanup_module
<1>3. /\ UNCHANGED <<buffer, buff_size>>
      /\ \A i \in Slots : buffer.entry[i] # ZeroEntry =>
                            heap'[buffer.entry[i].buffptr] = heap[buffer.entry[i].buffptr]
  BY <1>2, EntriesKept DEF Effect
<1>4. Shown(heap', buffer') = Shown(heap, buffer)
  BY <1>3, ShownKept
<1>. QED  BY <1>1, <1>3, <1>4, DeviceIs DEF DeviceSeen

\* The lookup only looks at the sizes, which are shown as they are.
LEMMA ShownFind ==
  ASSUME NEW S, NEW b \in Buffer(S), NEW h, NEW off
  PROVE  /\ aesd_circular_buffer_find_entry_offset_for_fpos(Shown(h, b), off)
              = aesd_circular_buffer_find_entry_offset_for_fpos(b, off)
         /\ \A i \in Slots : Shown(h, b).entry[i].size = b.entry[i].size
<1>. DEFINE c == Shown(h, b)
<1>1. /\ N \in Nat \ {0} /\ b.out_offs \in 0 .. N - 1
  BY BufferFields
<1>2. /\ c.in_offs = b.in_offs /\ c.out_offs = b.out_offs /\ c.full = b.full
      /\ \A i \in Slots : c.entry[i] = ShownEntry(h, b.entry[i])
  BY ShownFields
<1>3. \A i \in Slots : c.entry[i].size = b.entry[i].size
  <2>1. \A e : ShownEntry(h, e).size = e.size
    BY DEF ShownEntry
  <2>. HIDE DEF c
  <2>. QED  BY <1>2, <2>1
<1>. HIDE DEF c
<1>4. \A j : ScanSlot(c, j) = ScanSlot(b, j)
  BY <1>2 DEF ScanSlot
<1>5. \A j \in 0 .. N : ScanSlot(b, j) \in Slots
  BY <1>1 DEF ScanSlot, Slots
<1>6. \A j : LoopEntered(c, j) <=> LoopEntered(b, j)
  BY <1>2, <1>4 DEF LoopEntered
<1>7. \A j \in 0 .. N : c.entry[ScanSlot(c, j)].size = b.entry[ScanSlot(b, j)].size
  BY <1>3, <1>4, <1>5
<1>8. [k \in Slots |-> c.entry[ScanSlot(c, k)].size] = [k \in Slots |-> b.entry[ScanSlot(b, k)].size]
  <2>1. \A k \in Slots : k \in 0 .. N
    BY <1>1 DEF Slots
  <2>. QED  BY <1>7, <2>1, Zenon
<1>9. \A j : AccumulatedBytes(c, j) = AccumulatedBytes(b, j)
  BY <1>8 DEF AccumulatedBytes
<1>. DEFINE H(x) == {j \in 0 .. N : /\ \A k \in 0 .. j : LoopEntered(x, k)
                                    /\ AccumulatedBytes(x, j) + x.entry[ScanSlot(x, j)].size > off}
<1>10. H(c) = H(b)
  BY <1>6, <1>7, <1>9
<1>11. \A x : aesd_circular_buffer_find_entry_offset_for_fpos(x, off)
                = IF H(x) = {} THEN NULL
                  ELSE [slot |-> ScanSlot(x, Min(H(x))), byte |-> off - AccumulatedBytes(x, Min(H(x)))]
  BY Zenon DEF aesd_circular_buffer_find_entry_offset_for_fpos, ScanLimit
<1>. HIDE DEF H
<1>12. aesd_circular_buffer_find_entry_offset_for_fpos(c, off)
         = aesd_circular_buffer_find_entry_offset_for_fpos(b, off)
  BY <1>4, <1>9, <1>10, <1>11
<1>. QED  BY <1>3, <1>12 DEF c

\* A read copies what the device that programs see would give.
LEMMA ReadAgrees ==
  ASSUME IInv, loaded, NEW off \in Nat, NEW count \in Nat
  PROVE  LET found == aesd_circular_buffer_find_entry_offset_for_fpos(buffer, off)
             entry == buffer.entry[found.slot]
             copied == bytes_to_copy(entry.size - found.byte, count)
         IN  IF found = NULL
             THEN DeviceRead(DeviceSeen, off, count) = << >>
             ELSE /\ DeviceRead(DeviceSeen, off, count)
                       = SubSeq(Block(entry.buffptr), found.byte + 1, found.byte + copied)
                  /\ Len(SubSeq(Block(entry.buffptr), found.byte + 1, found.byte + copied)) = copied
<1>. DEFINE found == aesd_circular_buffer_find_entry_offset_for_fpos(buffer, off)
            entry == buffer.entry[found.slot]
            copied == bytes_to_copy(entry.size - found.byte, count)
            s == Block(entry.buffptr)
            bytes == DeviceSeen.buffer.entry[found.slot].buffptr
<1>1. buffer \in Buffer(Entry(Pointer))
  BY DEF IInv, MemInv, DeviceType
<1>2. DeviceSeen.buffer = Shown(heap, buffer)
  BY DeviceIs DEF DeviceSeen
<1>3. aesd_circular_buffer_find_entry_offset_for_fpos(DeviceSeen.buffer, off) = found
  BY <1>1, <1>2, ShownFind
<1>4. DeviceRead(DeviceSeen, off, count)
        = IF found = NULL THEN << >>
          ELSE SubSeq(bytes, found.byte + 1, Min({found.byte + count, Len(bytes)}))
  BY <1>3, Zenon DEF DeviceRead
<1>5. CASE found = NULL
  <2>. HIDE DEF found
  <2>. QED  BY <1>4, <1>5 DEF found
<1>6. CASE found # NULL
  <2>1. /\ found.slot \in Slots /\ found.byte \in Nat /\ entry # ZeroEntry
        /\ entry.buffptr \in Addr /\ s \in Seq(Byte)
        /\ entry.size \in Nat /\ found.byte < entry.size /\ entry.size <= Len(s)
        /\ copied \in Nat /\ copied <= count /\ found.byte + copied <= entry.size
        /\ copied = count \/ copied = entry.size - found.byte
        /\ Len(SubSeq(s, found.byte + 1, found.byte + copied)) = copied
    BY <1>6, ReadCopies DEF IInv
  <2>2. bytes = SubSeq(s, 1, entry.size)
    <3>1. bytes = ShownEntry(heap, entry).buffptr
      BY <1>1, <1>2, <2>1, ShownFields
    <3>. QED  BY <2>1, <3>1 DEF ShownEntry, BytesIn, Block
  <2>. DEFINE b == found.byte
              z == entry.size
  <2>3. /\ b \in Nat /\ z \in Nat /\ b < z /\ s \in Seq(Byte) /\ Len(s) \in Nat /\ z <= Len(s) /\ copied \in Nat
        /\ copied <= count /\ b + copied <= z
        /\ copied = count \/ copied = z - b
    BY <2>1, LenProperties
  <2>4. bytes = SubSeq(s, 1, z) /\ Len(SubSeq(s, b + 1, b + copied)) = copied
    BY <2>1, <2>2
  <2>. HIDE DEF found, entry, copied, s, bytes, b, z
  <2>5. /\ bytes \in Seq(Byte) /\ Len(bytes) = z /\ \A i \in 1 .. z : bytes[i] = s[i]
    <3>1. z \in 0 .. Len(s)
      BY <2>3
    <3>. QED  BY <2>3, <2>4, <3>1, PrefixIs
  <2>6. Min({b + count, Len(bytes)}) = b + copied
    <3>. DEFINE T == {b + count, Len(bytes)}
    <3>1. T \in SUBSET Nat /\ T # {} /\ b + count \in T /\ Len(bytes) \in T
      BY <2>3, <2>5
    <3>2. \A k \in T : k = b + count \/ k = Len(bytes)
      OBVIOUS
    <3>. HIDE DEF T
    <3>3. Min(T) \in T /\ \A k \in T : Min(T) <= k
      BY <3>1, MinIs
    <3>4. Min(T) = b + copied
      <4>. DEFINE m == Min(T)
      <4>1. (m = b + count \/ m = z) /\ m <= b + count /\ m <= z
        BY <2>5, <3>1, <3>2, <3>3
      <4>. HIDE DEF m
      <4>2. m = b + copied
        BY <2>3, <4>1
      <4>. QED  BY <4>2 DEF m
    <3>. QED  BY <3>4 DEF T
  <2>7. SubSeq(bytes, b + 1, b + copied) = SubSeq(s, b + 1, b + copied)
    <3>. DEFINE u == SubSeq(bytes, b + 1, b + copied)
                v == SubSeq(s, b + 1, b + copied)
    <3>1. u \in Seq(Byte) /\ Len(u) = copied /\ \A i \in 1 .. copied : u[i] = bytes[b + i]
      <4>1. b + copied <= Len(bytes)
        BY <2>3, <2>5
      <4>. QED  BY <2>3, <2>5, <4>1, MiddleIs
    <3>2. v \in Seq(Byte) /\ Len(v) = copied /\ \A i \in 1 .. copied : v[i] = s[b + i]
      <4>1. b + copied <= Len(s)
        BY <2>3
      <4>. QED  BY <2>3, <4>1, MiddleIs
    <3>. HIDE DEF u, v
    <3>3. \A i \in 1 .. copied : u[i] = v[i]
      <4>. TAKE i \in 1 .. copied
      <4>1. b + i \in 1 .. z
        BY <2>3
      <4>. QED  BY <2>5, <3>1, <3>2, <4>1
    <3>4. u = v
      BY <3>1, <3>2, <3>3, SeqEqual
    <3>. QED  BY <3>4 DEF u, v
  <2>. QED  BY <1>4, <1>6, <2>4, <2>6, <2>7 DEF found, entry, copied, s, b
<1>. QED  BY <1>5, <1>6

\* The driver's own step is the only one that appends.
LEMMA DeviceStep ==
  ASSUME IInv, IInv', KeptInv, KeptInv', [Next]_vars,
         ~aesd_cleanup_module, \A t \in Thread : ~WriteAppend(t)
  PROVE  DeviceSeen' = DeviceSeen
<1>1. Effect
  BY NextEffect DEF IInv
<1>2. ASSUME NEW t \in Thread, NEW x, AppendEffect(t, x) PROVE FALSE
  <2>1. pc[t] = "write_append" /\ pc'[t] = "return"
    BY <1>2 DEF AppendEffect
  <2>2. Step(t)
    BY <2>1, StepOfItsOwn
  <2>. QED  BY <2>1, <2>2, LockedLabels
            DEF Step, AcquireLock, LockInterrupted, StorePos, WriteCopy, WriteReserve,
                WriteReserveFails, aesd_llseek, aesd_ioctl, aesd_adjust_file_offset, aesd_read
<1>3. CASE aesd_init_module
  BY <1>3, DeviceLoaded
<1>4. CASE ~aesd_init_module
  <2>1. loaded' = loaded
    BY <1>1, <1>4 DEF Effect, CallEffect, DataEffect, ReserveEffect, AppendEffect
  <2>2. CASE loaded
    BY <1>1, <1>2, <2>1, <2>2, DeviceKept
  <2>3. CASE ~loaded
    BY <2>1, <2>3 DEF DeviceSeen
  <2>. QED  BY <2>2, <2>3
<1>. QED  BY <1>3, <1>4

\* A thread that leaves its call without an answer.
LEMMA NoAnswer ==
  ASSUME IInv, GotInv, NEW t \in Thread, Leave(t), pc[t] # "return"
  PROVE  got' = got
<1>1. got \in [Thread -> Seq(Byte)] /\ got[t] = << >> /\ got' = [got EXCEPT ![t] = << >>]
  BY CallTypes DEF GotInv, Leave
<1>. QED  BY <1>1

\* The abstract device's actions, in terms of what the mapping shows.
LEMMA AtomicActions ==
  /\ DeviceSeen' = DeviceSeen /\ PosSeen' = PosSeen /\ got' = got => UNCHANGED Atomic!vars
  /\ DeviceSeen' = NewDevice /\ PosSeen = [f \in File |-> 0] /\ PosSeen' = PosSeen /\ got' = got
       => Atomic!Unload
  /\ \A t : DeviceSeen' = DeviceSeen /\ PosSeen' = PosSeen /\ got' = [got EXCEPT ![t] = << >>]
              => Atomic!Use(t)
  /\ \A f, p : DeviceSeen' = DeviceSeen /\ PosSeen' = [PosSeen EXCEPT ![f] = p] /\ got' = got
              => Atomic!MoveTo(f, p)
  /\ \A f, d : /\ DeviceSeen' = DeviceWrite(DeviceSeen, d)
               /\ PosSeen' = [PosSeen EXCEPT ![f] = @ + Len(Accepted(d))]
               /\ got' = got
              => Atomic!Write(f, d)
  /\ \A t, f, n : /\ DeviceSeen' = DeviceSeen
                  /\ got' = [got EXCEPT ![t] = DeviceRead(DeviceSeen, PosSeen[f], n)]
                  /\ PosSeen' = [PosSeen EXCEPT ![f] = @ + Len(got'[t])]
              => Atomic!Read(t, f, n)
<1>1. DeviceSeen' = DeviceSeen /\ PosSeen' = PosSeen /\ got' = got => UNCHANGED Atomic!vars
  BY DEF Atomic!vars, DeviceSeen, PosSeen
<1>2. DeviceSeen' = NewDevice /\ PosSeen = [f \in File |-> 0] /\ PosSeen' = PosSeen /\ got' = got
       => Atomic!Unload
  BY SameOperators DEF Atomic!Unload, DeviceSeen, PosSeen
<1>3. \A t : DeviceSeen' = DeviceSeen /\ PosSeen' = PosSeen /\ got' = [got EXCEPT ![t] = << >>]
              => Atomic!Use(t)
  BY DEF Atomic!Use, DeviceSeen, PosSeen
<1>4. \A f, p : DeviceSeen' = DeviceSeen /\ PosSeen' = [PosSeen EXCEPT ![f] = p] /\ got' = got
              => Atomic!MoveTo(f, p)
  BY DEF Atomic!MoveTo, DeviceSeen, PosSeen
<1>5. \A f, d : /\ DeviceSeen' = DeviceWrite(DeviceSeen, d)
                /\ PosSeen' = [PosSeen EXCEPT ![f] = @ + Len(Accepted(d))]
                /\ got' = got
              => Atomic!Write(f, d)
  BY SameOperators DEF Atomic!Write, DeviceSeen, PosSeen
<1>6. \A t, f, n : /\ DeviceSeen' = DeviceSeen
                   /\ got' = [got EXCEPT ![t] = DeviceRead(DeviceSeen, PosSeen[f], n)]
                   /\ PosSeen' = [PosSeen EXCEPT ![f] = @ + Len(got'[t])]
              => Atomic!Read(t, f, n)
  BY SameOperators DEF Atomic!Read, DeviceSeen, PosSeen
<1>. QED  BY <1>1, <1>2, <1>3, <1>4, <1>5, <1>6

\* What a step has to show for it to be a step of the abstract device.
LEMMA AtomicSteps ==
  /\ DeviceSeen' = DeviceSeen /\ PosSeen' = PosSeen /\ got' = got => UNCHANGED Atomic!vars
  /\ DeviceSeen' = NewDevice /\ PosSeen = [f \in File |-> 0] /\ PosSeen' = PosSeen /\ got' = got
       => Atomic!Next
  /\ \A t \in Thread :
       DeviceSeen' = DeviceSeen /\ PosSeen' = PosSeen /\ got' = [got EXCEPT ![t] = << >>]
      => Atomic!Next
  /\ \A f \in File, d \in Payload :
       /\ DeviceSeen' = DeviceWrite(DeviceSeen, d)
       /\ PosSeen' = [PosSeen EXCEPT ![f] = @ + Len(Accepted(d))]
       /\ got' = got
      => Atomic!Next
  /\ \A t \in Thread, f \in File, n \in ReadCounts :
       /\ DeviceSeen' = DeviceSeen
       /\ got' = [got EXCEPT ![t] = DeviceRead(DeviceSeen, PosSeen[f], n)]
       /\ PosSeen' = [PosSeen EXCEPT ![f] = @ + Len(got'[t])]
      => Atomic!Next
  /\ \A f \in File : \A p :
       /\ DeviceSeen' = DeviceSeen /\ PosSeen' = [PosSeen EXCEPT ![f] = p] /\ got' = got
       /\ \/ p = 0
          \/ \E s \in Seeks : p = DeviceLlseek(DeviceSeen, PosSeen[f], s)
          \/ \E s \in Seektos : p = DeviceSeekto(DeviceSeen, PosSeen[f], s)
      => Atomic!Next
<1>1. DeviceSeen' = DeviceSeen /\ PosSeen' = PosSeen /\ got' = got => UNCHANGED Atomic!vars
  BY AtomicActions
<1>2. DeviceSeen' = NewDevice /\ PosSeen = [f \in File |-> 0] /\ PosSeen' = PosSeen /\ got' = got
       => Atomic!Next
  BY AtomicActions DEF Atomic!Next
<1>3. ASSUME NEW t \in Thread,
             DeviceSeen' = DeviceSeen, PosSeen' = PosSeen, got' = [got EXCEPT ![t] = << >>]
      PROVE  Atomic!Next
  <2>1. Atomic!Use(t)
    BY <1>3, AtomicActions
  <2>. QED  BY <2>1 DEF Atomic!Next
<1>4. ASSUME NEW f \in File, NEW d \in Payload,
             DeviceSeen' = DeviceWrite(DeviceSeen, d),
             PosSeen' = [PosSeen EXCEPT ![f] = @ + Len(Accepted(d))], got' = got
      PROVE  Atomic!Next
  <2>1. Atomic!Write(f, d)
    BY <1>4, AtomicActions
  <2>. QED  BY <2>1 DEF Atomic!Next
<1>5. ASSUME NEW t \in Thread, NEW f \in File, NEW n \in ReadCounts, DeviceSeen' = DeviceSeen,
             got' = [got EXCEPT ![t] = DeviceRead(DeviceSeen, PosSeen[f], n)],
             PosSeen' = [PosSeen EXCEPT ![f] = @ + Len(got'[t])]
      PROVE  Atomic!Next
  <2>1. Atomic!Read(t, f, n)
    BY <1>5, AtomicActions
  <2>. QED  BY <2>1 DEF Atomic!Next
<1>6. ASSUME NEW f \in File, NEW p, DeviceSeen' = DeviceSeen,
             PosSeen' = [PosSeen EXCEPT ![f] = p], got' = got,
             \/ p = 0
             \/ \E s \in Seeks : p = DeviceLlseek(DeviceSeen, PosSeen[f], s)
             \/ \E s \in Seektos : p = DeviceSeekto(DeviceSeen, PosSeen[f], s)
      PROVE  Atomic!Next
  <2>1. Atomic!MoveTo(f, p)
    BY <1>6, AtomicActions
  <2>2. CASE p = 0
    BY <2>1, <2>2 DEF Atomic!Next
  <2>3. CASE \E s \in Seeks : p = DeviceLlseek(DeviceSeen, PosSeen[f], s)
    <3>1. PICK s \in Seeks : p = DeviceLlseek(DeviceSeen, PosSeen[f], s)
      BY <2>3
    <3>2. p = Atomic!DeviceLlseek(IF loaded THEN DeviceNow ELSE NewDevice, [g \in File |-> PosNow(g)][f], s)
      BY <3>1, SameOperators DEF DeviceSeen, PosSeen
    <3>. QED  BY <2>1, <3>2 DEF Atomic!Next
  <2>4. CASE \E s \in Seektos : p = DeviceSeekto(DeviceSeen, PosSeen[f], s)
    <3>1. PICK s \in Seektos : p = DeviceSeekto(DeviceSeen, PosSeen[f], s)
      BY <2>4
    <3>2. p = Atomic!DeviceSeekto(IF loaded THEN DeviceNow ELSE NewDevice, [g \in File |-> PosNow(g)][f], s)
      BY <3>1, SameOperators DEF DeviceSeen, PosSeen
    <3>. QED  BY <2>1, <3>2 DEF Atomic!Next
  <2>. QED  BY <1>6, <2>2, <2>3, <2>4
<1>. QED  BY <1>1, <1>2, <1>3, <1>4, <1>5, <1>6

(***************************************************************************)
(* Every step of the driver is a step of the abstract device or changes    *)
(* nothing that programs see.  Writes, reads and seeks take effect when    *)
(* they release the mutex.                                                 *)
(***************************************************************************)
LEMMA AtomicStep ==
  ASSUME IInv, IInv', KeptInv, KeptInv', GotInv, ApartInv, ApartInv', [ExclusiveNext]_vars
  PROVE  [Atomic!Next]_(Atomic!vars)
<1>0. /\ pc \in [Thread -> Labels] /\ DOMAIN arg = Thread
      /\ f_pos \in [File -> Nat] /\ pos \in [Thread -> Nat] /\ got \in [Thread -> Seq(Byte)]
      /\ opened \subseteq File
      /\ \A t \in Thread : pc[t] # "idle" => arg[t].file \in opened /\ arg[t].file \in File
      /\ \A t \in Thread : pc[t] = "idle" => arg[t].file = NULL
      /\ NULL \notin File
  BY CallTypes
<1>1. [Next]_vars
  BY DEF ExclusiveNext, Next
<1>2. CASE aesd_cleanup_module
  <2>1. /\ opened = {} /\ ~loaded' /\ UNCHANGED <<f_pos, pc, arg, pos, got>>
    BY <1>2 DEF aesd_cleanup_module, call
  <2>2. \A f \in File : PosNow(f) = 0
    <3>1. \A f \in File : f_pos[f] = 0
      BY <2>1 DEF ApartInv
    <3>2. \A t \in Thread : pc[t] # "return"
      BY <1>0, <2>1
    <3>. QED  BY <3>1, <3>2, PosIs
  <2>3. PosSeen = [f \in File |-> 0]
    BY <2>2 DEF PosSeen
  <2>4. PosSeen' = PosSeen
    BY <2>1, PosKept
  <2>5. DeviceSeen' = NewDevice
    BY <2>1 DEF DeviceSeen, NewDevice, aesd_circular_buffer_init
  <2>. QED  BY <2>1, <2>3, <2>4, <2>5, AtomicSteps
<1>3. ASSUME NEW t \in Thread, WriteAppend(t) PROVE [Atomic!Next]_(Atomic!vars)
  <2>. DEFINE d == arg[t].data
  <2>0. PICK f \in File : f = arg[t].file
    BY <1>0, <1>3 DEF WriteAppend
  <2>1. PICK x : AppendEffect(t, x)
    BY <1>3, WriteAppendEffect DEF IInv
  <2>2. /\ DeviceSeen' = DeviceWrite(DeviceSeen, d)
        /\ d \in Payload /\ Len(Accepted(d)) = append_index(t)
    BY <2>1, DeviceWritten
  <2>3. /\ pc[t] = "write_append" /\ UNCHANGED <<f_pos, arg, got>>
        /\ pc'[t] = "return" /\ pos'[t] = pos[t] + append_index(t)
        /\ \A u \in Thread \ {t} : pc'[u] = pc[u] /\ pos'[u] = pos[u]
    BY <1>0, <1>3 DEF WriteAppend, Goto, retval
  <2>4. PosSeen' = [PosSeen EXCEPT ![f] = PosNow(f)']
    BY <2>0, <2>3, PosMoved
  <2>5. PosNow(f)' = PosSeen[f] + append_index(t)
    <3>1. PosNow(f)' = pos'[t]
      BY <2>0, <2>3, PosIsAfter
    <3>2. PosNow(f) = f_pos[f] /\ pos[t] = f_pos[f]
      <4>1. \A u \in Thread : ~(pc[u] = "return" /\ arg[u].file = f)
        BY <2>0, <2>3 DEF ApartInv
      <4>. QED  BY <2>0, <2>3, <4>1, PosIs DEF ApartInv
    <3>3. PosSeen[f] = PosNow(f)
      BY <2>3 DEF PosSeen
    <3>. QED  BY <2>3, <3>1, <3>2, <3>3
  <2>. HIDE DEF d
  <2>6. PosSeen' = [PosSeen EXCEPT ![f] = @ + Len(Accepted(d))]
    BY <2>2, <2>4, <2>5
  <2>. QED  BY <2>2, <2>3, <2>6, AtomicSteps
<1>4. ASSUME ~aesd_cleanup_module, \A t \in Thread : ~WriteAppend(t)
      PROVE  [Atomic!Next]_(Atomic!vars)
  <2>1. DeviceSeen' = DeviceSeen
    BY <1>1, <1>4, DeviceStep
  <2>2. ASSUME PosSeen' = PosSeen, got' = got PROVE [Atomic!Next]_(Atomic!vars)
    BY <2>1, <2>2, AtomicSteps
  \* Calls that start, or that go on without a result.
  <2>3. ASSUME NEW t \in Thread, NEW l, Goto(t, l), pc[t] # "return", l # "return",
               UNCHANGED <<f_pos, got>>,
               \A u \in Thread \ {t} : arg'[u] = arg[u] /\ pos'[u] = pos[u]
        PROVE  [Atomic!Next]_(Atomic!vars)
    <3>1. pc'[t] = l /\ \A u \in Thread \ {t} : pc'[u] = pc[u]
      BY <1>0, <2>3 DEF Goto
    <3>2. PosSeen' = PosSeen
      BY <2>3, <3>1, PosKept
    <3>. QED  BY <2>2, <2>3, <3>2
  \* Calls that fail.
  <2>4. ASSUME NEW t \in Thread, Leave(t), pc[t] # "return", UNCHANGED f_pos
        PROVE  [Atomic!Next]_(Atomic!vars)
    <3>1. got' = got
      BY <2>4, NoAnswer
    <3>2. \A u \in Thread \ {t} : arg'[u] = arg[u] /\ pos'[u] = pos[u]
      BY <1>0, <2>4 DEF Leave
    <3>. QED  BY <2>3, <2>4, <3>1, <3>2 DEF Leave
  \* Calls that move the position of their file.
  <2>5. ASSUME NEW t \in Thread, Leave(t), pc[t] \notin {"idle", "return"}, NEW p \in Nat,
               f_pos' = [f_pos EXCEPT ![arg[t].file] = p],
               \/ \E s \in Seeks : p = DeviceLlseek(DeviceSeen, f_pos[arg[t].file], s)
               \/ \E s \in Seektos : p = DeviceSeekto(DeviceSeen, f_pos[arg[t].file], s)
        PROVE  [Atomic!Next]_(Atomic!vars)
    <3>0. PICK f \in File : f = arg[t].file
      BY <1>0, <2>5
    <3>1. got' = got
      BY <2>5, NoAnswer
    <3>2. /\ pc'[t] = "idle" /\ f_pos'[f] = p
          /\ \A g \in File \ {f} : f_pos'[g] = f_pos[g]
          /\ \A u \in Thread \ {t} : pc'[u] = pc[u] /\ arg'[u] = arg[u] /\ pos'[u] = pos[u]
      BY <1>0, <2>5, <3>0 DEF Leave, Goto
    <3>3. \A u \in Thread : ~(pc[u] = "return" /\ arg[u].file = f)
      BY <2>5, <3>0 DEF ApartInv
    <3>4. \A u \in Thread : ~(pc'[u] = "return" /\ arg'[u].file = f)
      BY <3>2, <3>3
    <3>5. PosSeen[f] = f_pos[f] /\ PosNow(f)' = p
      <4>1. PosNow(f) = f_pos[f]
        BY <3>3, PosIs
      <4>2. PosNow(f)' = f_pos'[f]
        BY <3>2, <3>4, PosIsAfter
      <4>. QED  BY <3>2, <4>1, <4>2 DEF PosSeen
    <3>6. PosSeen' = [PosSeen EXCEPT ![f] = PosNow(f)']
      <4>1. pc[t] # "return" /\ pc'[t] # "return"
        BY <2>5, <3>2
      <4>. QED  BY <3>2, <4>1, PosMoved
    <3>. QED  BY <2>1, <2>5, <3>0, <3>1, <3>5, <3>6, AtomicSteps
  <2>6. CASE aesd_init_module \/ UNCHANGED vars
    <3>1. UNCHANGED <<f_pos, pc, arg, pos, got>>
      BY <2>6 DEF aesd_init_module, vars, call
    <3>2. PosSeen' = PosSeen
      BY <3>1, PosKept
    <3>. QED  BY <2>2, <3>1, <3>2
  <2>7. ASSUME NEW f \in File, Open(f) PROVE [Atomic!Next]_(Atomic!vars)
    <3>1. UNCHANGED <<pc, arg, pos, got>> /\ f_pos' = [f_pos EXCEPT ![f] = 0] /\ f_pos[f] = 0
      BY <2>7 DEF Open, call, ApartInv
    <3>2. f_pos' = f_pos
      BY <1>0, <3>1
    <3>3. PosSeen' = PosSeen
      BY <3>1, <3>2, PosKept
    <3>. QED  BY <2>2, <3>1, <3>3
  <2>8. ASSUME NEW f \in File, Release(f) PROVE [Atomic!Next]_(Atomic!vars)
    <3>1. /\ UNCHANGED <<pc, arg, pos, got>> /\ f_pos'[f] = 0
          /\ \A g \in File \ {f} : f_pos'[g] = f_pos[g]
          /\ \A u \in Thread : arg[u].file # f
      BY <1>0, <2>8 DEF Release, call
    <3>2. PosSeen' = [PosSeen EXCEPT ![f] = PosNow(f)']
      BY <3>1, PosMoved
    <3>3. PosNow(f)' = 0
      BY <3>1, PosIsAfter
    <3>. QED  BY <2>1, <3>1, <3>2, <3>3, AtomicSteps
  <2>9. ASSUME NEW t \in Thread, NEW f \in File, SysCall(t, f) PROVE [Atomic!Next]_(Atomic!vars)
    <3>1. ASSUME NEW l, l # "return", NEW args, Enter(t, l, args), UNCHANGED <<f_pos, got>>
          PROVE  [Atomic!Next]_(Atomic!vars)
      <4>1. /\ pc[t] # "return" /\ Goto(t, l)
            /\ \A u \in Thread \ {t} : arg'[u] = arg[u] /\ pos'[u] = pos[u]
        BY <1>0, <3>1 DEF Enter
      <4>. QED  BY <2>3, <3>1, <4>1
    <3>2. CASE \E count \in ReadCounts : SysRead(t, f, count)
      BY <3>1, <3>2 DEF SysRead
    <3>3. CASE \E data \in Payload : SysWrite(t, f, data)
      <4>1. PICK data \in Payload : SysWrite(t, f, data)
        BY <3>3
      <4>2. CASE UNCHANGED call
        <5>1. UNCHANGED <<f_pos, pc, arg, pos, got>>
          BY <4>1, <4>2 DEF SysWrite, call
        <5>2. PosSeen' = PosSeen
          BY <5>1, PosKept
        <5>. QED  BY <2>2, <5>1, <5>2
      <4>3. CASE Enter(t, "write_copy", [file |-> f, data |-> data]) /\ got' = got
        BY <3>1, <4>1, <4>3 DEF SysWrite
      <4>. QED  BY <4>1, <4>2, <4>3 DEF SysWrite
    <3>4. CASE \E seek \in Seeks : SysLlseek(t, f, seek)
      BY <3>1, <3>4 DEF SysLlseek
    <3>5. CASE \E seekto \in Seektos : SysIoctl(t, f, seekto)
      BY <3>1, <3>5 DEF SysIoctl
    <3>. QED  BY <2>9, <3>2, <3>3, <3>4, <3>5 DEF SysCall
  <2>10. ASSUME NEW t \in Thread, StorePos(t) PROVE [Atomic!Next]_(Atomic!vars)
    <3>0. PICK f \in File : f = arg[t].file
      BY <1>0, <2>10 DEF StorePos
    <3>1. /\ pc[t] = "return" /\ f_pos'[f] = pos[t]
          /\ pc'[t] = "idle" /\ got' = [got EXCEPT ![t] = << >>]
          /\ \A g \in File \ {f} : f_pos'[g] = f_pos[g]
          /\ \A u \in Thread \ {t} : pc'[u] = pc[u] /\ arg'[u] = arg[u] /\ pos'[u] = pos[u]
      BY <1>0, <2>10, <3>0 DEF StorePos, Leave, Goto
    <3>2. \A u \in Thread : ~(pc'[u] = "return" /\ arg'[u].file = f)
      BY <3>0, <3>1 DEF ApartInv
    <3>3. PosNow(f)' = PosNow(f)
      BY <3>0, <3>1, <3>2, PosIs, PosIsAfter
    <3>4. PosSeen' = [PosSeen EXCEPT ![f] = PosNow(f)']
      BY <3>0, <3>1, PosMoved
    <3>5. PosSeen' = PosSeen
      BY <3>1, <3>3, <3>4 DEF PosSeen
    <3>. QED  BY <2>1, <3>1, <3>5, AtomicSteps
  <2>11. ASSUME NEW t \in Thread, aesd_read(t) PROVE [Atomic!Next]_(Atomic!vars)
    <3>1. CASE Leave(t)
      BY <2>4, <2>11, <3>1 DEF aesd_read
    <3>2. CASE ~Leave(t)
      <4>0. PICK f \in File : f = arg[t].file
        BY <1>0, <2>11 DEF aesd_read
      <4>. DEFINE n == arg[t].count
                  found == aesd_circular_buffer_find_entry_offset_for_fpos(buffer, pos[t])
                  entry == buffer.entry[found.slot]
                  copied == bytes_to_copy(entry.size - found.byte, n)
                  s == SubSeq(Block(entry.buffptr), found.byte + 1, found.byte + copied)
      <4>1. /\ pc[t] = "read" /\ pc' = [pc EXCEPT ![t] = "return"] /\ UNCHANGED <<f_pos, arg>>
            /\ \/ found = NULL /\ UNCHANGED <<pos, got>>
               \/ /\ found # NULL /\ got' = [got EXCEPT ![t] = s]
                  /\ pos' = [pos EXCEPT ![t] = @ + copied]
        BY <2>11, <3>2 DEF aesd_read, Goto
      <4>2. loaded /\ n \in ReadCounts /\ n \in Nat /\ got[t] = << >>
        <5>1. loaded
          BY <1>0, <4>1 DEF IInv, ControlInv
        <5>2. n \in ReadCounts
          BY <4>1 DEF IInv, ArgInv
        <5>. QED  BY <1>0, <4>1, <5>1, <5>2, DriverAssumption DEF GotInv
      <4>3. pos[t] \in Nat /\ pos[t] = f_pos[f] /\ PosNow(f) = f_pos[f]
        <5>1. \A u \in Thread : ~(pc[u] = "return" /\ arg[u].file = f)
          BY <4>0, <4>1 DEF ApartInv
        <5>. QED  BY <1>0, <4>0, <4>1, <5>1, PosIs DEF ApartInv
      <4>4. IF found = NULL THEN DeviceRead(DeviceSeen, pos[t], n) = << >>
            ELSE DeviceRead(DeviceSeen, pos[t], n) = s /\ Len(s) = copied
        BY <4>2, <4>3, ReadAgrees
      <4>5. PosSeen[f] = pos[t]
        BY <4>2, <4>3 DEF PosSeen
      <4>6. /\ got' = [got EXCEPT ![t] = DeviceRead(DeviceSeen, pos[t], n)]
            /\ pos'[t] = pos[t] + Len(got'[t])
            /\ \A u \in Thread \ {t} : pos'[u] = pos[u]
        <5>. HIDE DEF found, s, copied, n
        <5>1. CASE found = NULL
          <6>1. DeviceRead(DeviceSeen, pos[t], n) = << >> /\ UNCHANGED <<pos, got>> /\ got[t] = << >>
            BY <4>1, <4>2, <4>4, <5>1
          <6>2. got' = [got EXCEPT ![t] = DeviceRead(DeviceSeen, pos[t], n)]
            BY <1>0, <6>1
          <6>3. got'[t] = << >> /\ Len(got'[t]) = 0
            BY <6>1
          <6>4. pos'[t] = pos[t] + Len(got'[t])
            BY <4>3, <6>1, <6>3
          <6>. QED  BY <6>1, <6>2, <6>4, Zenon
        <5>2. CASE found # NULL
          BY <1>0, <4>1, <4>4, <5>2
        <5>. QED  BY <5>1, <5>2
      <4>7. /\ pc'[t] = "return" /\ arg' = arg /\ f_pos' = f_pos /\ f = arg[t].file
            /\ \A u \in Thread \ {t} : pc'[u] = pc[u] /\ pos'[u] = pos[u]
        BY <1>0, <4>0, <4>1, <4>6
      <4>. HIDE DEF found, s, copied, entry, n
      <4>8. PosSeen' = [PosSeen EXCEPT ![f] = PosNow(f)']
        BY <4>1, <4>7, PosMoved
      <4>9. PosNow(f)' = pos'[t]
        BY <4>7, PosIsAfter
      <4>10. PosSeen' = [PosSeen EXCEPT ![f] = @ + Len(got'[t])]
        BY <4>5, <4>6, <4>8, <4>9
      <4>. QED  BY <2>1, <4>2, <4>5, <4>6, <4>7, <4>10, AtomicSteps
    <3>. QED  BY <3>1, <3>2
  <2>12. ASSUME NEW t \in Thread, aesd_llseek(t) PROVE [Atomic!Next]_(Atomic!vars)
    <3>. DEFINE f == arg[t].file
                s == arg[t].seek
                target == fixed_size_llseek(f_pos[f], s, buff_size)
    <3>1. /\ pc[t] = "llseek" /\ Leave(t)
          /\ f_pos' = IF target \in 0 .. buff_size THEN [f_pos EXCEPT ![f] = target] ELSE f_pos
      BY <2>12 DEF aesd_llseek
    <3>2. s \in Seeks /\ f \in File /\ loaded /\ buff_size \in Nat
      BY <1>0, <3>1 DEF IInv, ArgInv, ControlInv, RestInv
    <3>3. DeviceSeen.buff_size = buff_size
      BY <3>2 DEF DeviceSeen, DeviceNow
    <3>4. DeviceLlseek(DeviceSeen, f_pos[f], s) = IF target \in 0 .. buff_size THEN target ELSE f_pos[f]
      BY <3>3 DEF DeviceLlseek
    <3>5. CASE target \in 0 .. buff_size
      <4>. HIDE DEF target
      <4>1. target \in Nat /\ f_pos' = [f_pos EXCEPT ![f] = target]
        BY <3>1, <3>2, <3>5
      <4>2. target = DeviceLlseek(DeviceSeen, f_pos[f], s)
        BY <3>4, <3>5
      <4>. QED  BY <2>5, <3>1, <3>2, <4>1, <4>2
    <3>6. CASE target \notin 0 .. buff_size
      BY <2>4, <3>1, <3>6
    <3>. QED  BY <3>5, <3>6
  <2>13. ASSUME NEW t \in Thread, aesd_adjust_file_offset(t) PROVE [Atomic!Next]_(Atomic!vars)
    <3>. DEFINE f == arg[t].file
                s == arg[t].seekto
                e == buffer.entry
                p == SumBelow([i \in Slots |-> e[i].size], s.write_cmd) + s.write_cmd_offset
    <3>1. /\ pc[t] = "adjust" /\ Leave(t)
          /\ f_pos' = IF s.write_cmd < N /\ s.write_cmd_offset < e[s.write_cmd].size
                      THEN [f_pos EXCEPT ![f] = p] ELSE f_pos
      BY <2>13 DEF aesd_adjust_file_offset, updated_fpos_offset
    <3>2. /\ s \in Seektos /\ s.cmd = "AESDCHAR_IOCSEEKTO" /\ f \in File /\ loaded
          /\ buffer \in Buffer(Entry(Pointer)) /\ s.write_cmd \in Nat /\ s.write_cmd_offset \in Nat
      BY <1>0, <3>1, DriverAssumption DEF IInv, ArgInv, ControlInv, MemInv, DeviceType
    <3>3. \A i \in Slots : DeviceSeen.buffer.entry[i].size = e[i].size
      <4>1. DeviceSeen.buffer = Shown(heap, buffer)
        BY <3>2, DeviceIs DEF DeviceSeen
      <4>. QED  BY <3>2, <4>1, ShownFind
    <3>4. CASE s.write_cmd < N /\ s.write_cmd_offset < e[s.write_cmd].size
      <4>1. s.write_cmd \in Slots
        BY <3>2, <3>4, NAssumption DEF Slots
      <4>2. [i \in Slots |-> DeviceSeen.buffer.entry[i].size] = [i \in Slots |-> e[i].size]
        BY <3>3, Zenon
      <4>3. p = DeviceSeekto(DeviceSeen, f_pos[f], s)
        <5>1. SizesBelow(DeviceSeen.buffer, s.write_cmd) = SumBelow([i \in Slots |-> e[i].size], s.write_cmd)
          BY <4>2 DEF SizesBelow
        <5>2. s.write_cmd_offset < DeviceSeen.buffer.entry[s.write_cmd].size
          BY <3>3, <3>4, <4>1
        <5>. QED  BY <3>2, <3>4, <5>1, <5>2 DEF DeviceSeekto
      <4>4. p \in Nat
        <5>1. /\ f_pos' \in [File -> Nat] /\ f_pos' = [f_pos EXCEPT ![f] = p]
          BY <3>1, <3>4, CallTypes DEF IInv, RestInv
        <5>. HIDE DEF p
        <5>2. f_pos'[f] = p
          BY <1>0, <3>2, <5>1
        <5>. QED  BY <3>2, <5>1, <5>2
      <4>. HIDE DEF p
      <4>5. f_pos' = [f_pos EXCEPT ![f] = p]
        BY <3>1, <3>4
      <4>. QED  BY <2>5, <3>1, <3>2, <4>3, <4>4, <4>5
    <3>5. CASE ~(s.write_cmd < N /\ s.write_cmd_offset < e[s.write_cmd].size)
      BY <2>4, <3>1, <3>5
    <3>. QED  BY <3>4, <3>5
  <2>14. ASSUME NEW t \in Thread, Step(t) PROVE [Atomic!Next]_(Atomic!vars)
    <3>1. CASE AcquireLock(t)
      <4>1. pc[t] # "return" /\ Locked[pc[t]] # "return"
        BY <3>1, LockedLabels DEF AcquireLock, Holding
      <4>. QED  BY <2>3, <3>1, <4>1 DEF AcquireLock
    <3>2. CASE LockInterrupted(t)
      BY <2>4, <3>2, LockedLabels DEF LockInterrupted, AfterInterrupt
    <3>3. CASE WriteCopy(t)
      BY <2>3, <2>4, <3>3 DEF WriteCopy
    <3>4. CASE WriteReserve(t)
      BY <2>3, <3>4 DEF WriteReserve
    <3>5. CASE WriteReserveFails(t)
      BY <2>4, <3>5 DEF WriteReserveFails
    <3>6. CASE aesd_ioctl(t)
      BY <2>3, <2>4, <3>6 DEF aesd_ioctl
    <3>. QED  BY <1>4, <2>10, <2>11, <2>12, <2>13, <2>14, <3>1, <3>2, <3>3, <3>4, <3>5, <3>6 DEF Step
  <2>. QED  BY <1>4, <2>6, <2>7, <2>8, <2>9, <2>14 DEF ExclusiveNext
<1>. QED  BY <1>2, <1>3, <1>4

(***************************************************************************)
(* Programs that do not make two calls on one open file at once see a      *)
(* device on which every call happens at once, for any number of programs, *)
(* files, slots and writes, as long as krealloc does not fail: although    *)
(* aesd_read and aesd_write work on a copy of the position, which the      *)
(* kernel stores back after the mutex was released, and although a write   *)
(* is put together in memory in several steps.                             *)
(***************************************************************************)
THEOREM AtomicDeviceImplemented ==
  ASSUME "krealloc" \notin Faults
  PROVE  ExclusiveSpec => RefinesAtomicDevice
<1>1. Init => KeptInv /\ GotInv /\ ApartInv
  BY DEF Init, KeptInv, GotInv, ApartInv
<1>2. [ExclusiveNext]_vars => [Next]_vars
  BY DEF ExclusiveNext, Next
<1>3. IInv /\ KeptInv /\ [Next]_vars => KeptInv'
  <2>. SUFFICES ASSUME IInv, KeptInv, [Next]_vars PROVE KeptInv'
    OBVIOUS
  <2>. QED  BY NextEffect, KeptStep DEF IInv
<1>4. Init => Atomic!Init
  <2>. SUFFICES ASSUME Init PROVE Atomic!Init
    OBVIOUS
  <2>1. \A f \in File : PosNow(f) = 0
    BY DEF Init, PosNow
  <2>. QED  BY <2>1, SameOperators DEF Init, Atomic!Init
<1>5. IInv /\ IInv' /\ KeptInv /\ KeptInv' /\ GotInv /\ ApartInv /\ ApartInv' /\ [ExclusiveNext]_vars
        => [Atomic!Next]_(Atomic!vars)
  BY AtomicStep
<1>. QED  BY <1>1, <1>2, <1>3, <1>4, <1>5, InitIInv, NextIInv, NextGot, NextApart, PTL
          DEF ExclusiveSpec, RefinesAtomicDevice, Atomic!Spec

=============================================================================
