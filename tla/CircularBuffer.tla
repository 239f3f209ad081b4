--------------------------- MODULE CircularBuffer ---------------------------
(***************************************************************************)
(* The circular buffer of aesd-char-driver/aesd-circular-buffer.{h,c}: an  *)
(* array of N entries, each a pointer and a byte count, with the slot the  *)
(* next write goes to, the slot reading starts from and a "full" flag.     *)
(*                                                                         *)
(* The module has no state of its own.  A struct aesd_circular_buffer is a *)
(* record and each function of the C file is an operator on it, so that    *)
(* both the stand-alone specification (CircularBufferSpec) and the driver  *)
(* (AesdChar) use the same definitions.                                    *)
(***************************************************************************)
EXTENDS Integers, Sequences, FiniteSetsExt

CONSTANTS N,     \* AESDCHAR_MAX_WRITE_OPERATIONS_SUPPORTED
          NULL   \* the null pointer

Slots == 0 .. N - 1

ASSUME NAssumption == N \in Nat \ {0}

\* The null pointer does not point to a byte of an entry.
ASSUME NullAssumption == NULL \notin [slot : Slots, byte : Nat]

\* What a loop that adds up f[0], f[1], ... has reached before iteration j.
SumBelow(f, j) ==
  LET sum[k \in 0 .. N] == IF k = 0 THEN 0 ELSE sum[k - 1] + f[k - 1]
  IN  sum[j]

(***************************************************************************)
(* struct aesd_buffer_entry with buffptr from the set Pointers, and        *)
(* struct aesd_circular_buffer over a set of entries.                      *)
(***************************************************************************)
Entry(Pointers) == [buffptr : Pointers, size : Nat]

Buffer(Entries) ==
  [entry : [Slots -> Entries], in_offs : Slots, out_offs : Slots, full : BOOLEAN]

\* The entry that memset(0) leaves behind.
ZeroEntry == [buffptr |-> NULL, size |-> 0]

aesd_circular_buffer_init ==
  [entry    |-> [i \in Slots |-> ZeroEntry],
   in_offs  |-> 0,
   out_offs |-> 0,
   full     |-> FALSE]

\* Mutant: in_offs is not wrapped.
add_entryUnwrapped(b, add_entry) ==
  [entry    |-> [b.entry EXCEPT ![b.in_offs] = add_entry],
   in_offs  |-> b.in_offs + 1,
   out_offs |-> b.out_offs,
   full     |-> b.in_offs + 1 = N]

\* Mutant: the full flag is not set when in_offs meets out_offs.
add_entryNeverFull(b, add_entry) ==
  [entry    |-> [b.entry EXCEPT ![b.in_offs] = add_entry],
   in_offs  |-> (b.in_offs + 1) % N,
   out_offs |-> b.out_offs,
   full     |-> FALSE]

aesd_circular_buffer_add_entry(b, add_entry) ==
  LET in  == (b.in_offs + 1) % N
      out == IF b.full THEN in ELSE b.out_offs
  IN  [entry    |-> [b.entry EXCEPT ![b.in_offs] = add_entry],
       in_offs  |-> in,
       out_offs |-> out,
       full     |-> in = out]

(***************************************************************************)
(* aesd_circular_buffer_find_entry_offset_for_fpos walks the array from    *)
(* out_offs.  In the loop's j-th iteration it looks at ScanSlot(b, j) and  *)
(* has accumulated the sizes of the j slots before it.  It stops at        *)
(* in_offs unless the buffer is full, and in any case after 10 iterations. *)
(* The 10 is a literal in the C code that has to agree with N.             *)
(***************************************************************************)
\* Mutant: the literal is one too small.
ScanLimitShort == N - 1

ScanLimit == N

ScanSlot(b, j) == (b.out_offs + j) % N

AccumulatedBytes(b, j) == SumBelow([k \in Slots |-> b.entry[ScanSlot(b, k)].size], j)

LoopEntered(b, j) == (ScanSlot(b, j) # b.in_offs \/ b.full) /\ j < ScanLimit

\* The slot found and the byte within it, or NULL.
aesd_circular_buffer_find_entry_offset_for_fpos(b, char_offset) ==
  LET hits == {j \in 0 .. ScanLimit :
                 /\ \A k \in 0 .. j : LoopEntered(b, k)
                 /\ AccumulatedBytes(b, j) + b.entry[ScanSlot(b, j)].size > char_offset}
      hit  == Min(hits)
  IN  IF hits = {}
      THEN NULL
      ELSE [slot |-> ScanSlot(b, hit), byte |-> char_offset - AccumulatedBytes(b, hit)]

-----------------------------------------------------------------------------
(***************************************************************************)
(* What the three fields in_offs, out_offs and full say of the entries:    *)
(* how many of them are stored, and which they are, oldest first.          *)
(***************************************************************************)
Count(b) ==
  IF b.full THEN N
  ELSE IF b.in_offs >= b.out_offs THEN b.in_offs - b.out_offs
  ELSE b.in_offs - b.out_offs + N

Contents(b) == [k \in 1 .. Count(b) |-> b.entry[ScanSlot(b, k - 1)]]

=============================================================================
