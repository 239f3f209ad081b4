------------------------ MODULE CircularBufferProofs ------------------------
(***************************************************************************)
(* Proofs about the circular buffer, for every number of slots N and every *)
(* set of entries.                                                         *)
(***************************************************************************)
EXTENDS CircularBufferSpec, CircularBufferTheorems

-----------------------------------------------------------------------------
(***************************************************************************)
(* The inductive invariant: the offsets stay within the array, and "full"  *)
(* is only ever set where they meet.  Without the second part an add to a  *)
(* full buffer could overwrite an entry that is not the oldest.            *)
(***************************************************************************)
IInv == TypeOK /\ FullMeansMet

\* aesd_circular_buffer_init establishes the inductive invariant.
LEMMA InitIInv == Init => IInv
  BY NAssumption DEF Init, IInv, TypeOK, FullMeansMet, Buffer, Slots,
                     aesd_circular_buffer_init

\* Initialising again and adding an entry both preserve it.
LEMMA NextIInv == IInv /\ [Next]_vars => IInv'
<1>. SUFFICES ASSUME IInv, [Next]_vars PROVE IInv'
  OBVIOUS
<1>1. CASE InitBuffer
  BY <1>1, InitIInv, NAssumption
     DEF InitBuffer, Called, IInv, TypeOK, FullMeansMet, Buffer, Slots,
         aesd_circular_buffer_init
<1>2. ASSUME NEW e \in Entries, AddEntry(e)
      PROVE  IInv'
  BY <1>2, AddEntryType DEF AddEntry, Called, IInv, TypeOK, FullMeansMet, Coherent
<1>3. CASE UNCHANGED vars
  BY <1>3 DEF vars, IInv, TypeOK, FullMeansMet
<1>. QED  BY <1>1, <1>2, <1>3 DEF Next

(***************************************************************************)
(* The buffer stays well-formed under any sequence of calls of             *)
(* aesd_circular_buffer_init and aesd_circular_buffer_add_entry.           *)
(***************************************************************************)
THEOREM TypeCorrect == Spec => []TypeOK
<1>1. IInv => TypeOK
  BY DEF IInv
<1>. QED  BY <1>1, InitIInv, NextIInv, PTL DEF Spec

(***************************************************************************)
(* The array with its two offsets implements the queue of the N most       *)
(* recent entries, oldest first: for every N and every sequence of calls,  *)
(* a call that adds an entry stores it and overwrites nothing but the      *)
(* oldest of N, and only an initialisation empties the buffer.             *)
(***************************************************************************)
THEOREM Refinement == Spec => RefinesRecentWrites
<1>1. Init => Recent!Init
  <2>. SUFFICES ASSUME Init PROVE Contents(buffer) = << >>
    BY DEF Init, Recent!Init
  <2>1. Count(buffer) = 0
    BY DEF Init, Count, aesd_circular_buffer_init
  <2>. QED  BY <2>1 DEF Contents
<1>2. IInv /\ [Next]_vars => [Recent!Next]_(Recent!vars)
  <2>. SUFFICES ASSUME IInv, [Next]_vars PROVE [Recent!Next]_(Recent!vars)
    OBVIOUS
  <2>1. CASE InitBuffer
    <3>1. Count(buffer') = 0
      BY <2>1 DEF InitBuffer, Count, aesd_circular_buffer_init
    <3>2. Contents(buffer') = << >>
      BY <3>1 DEF Contents
    <3>. QED  BY <2>1, <3>2 DEF InitBuffer, Called, Recent!Next, Recent!Clear, Recent!Called
  <2>2. ASSUME NEW e \in Entries, AddEntry(e)
        PROVE  Recent!Store(e)
    BY <2>2, AddEntryStores DEF AddEntry, Called, Recent!Store, Recent!Called, IInv, TypeOK, FullMeansMet, Coherent
  <2>3. CASE UNCHANGED vars
    BY <2>3 DEF vars, Recent!vars
  <2>. QED  BY <2>1, <2>2, <2>3 DEF Next, Recent!Next
<1>. QED  BY <1>1, <1>2, InitIInv, NextIInv, PTL DEF Spec, RefinesRecentWrites, Recent!Spec

\* The instance of RecentWrites has its own copy of the community modules'
\* FlattenSeq; the two are the same operator.
LEMMA SameFlattenSeq == \A s : Recent!FlattenSeq(s) = FlattenSeq(s)
  BY DEF FlattenSeq, Recent!FlattenSeq

(***************************************************************************)
(* The entry and byte that FindFinds describes by sums of sizes are those  *)
(* found by writing all stored strings out one after the other.            *)
(***************************************************************************)
LEMMA FindCorrect == IInv => FindIsConcatenation
<1>. SUFFICES ASSUME IInv, NEW off \in 0 .. Len(Recent!Bytes) + 1
              PROVE  LET found == aesd_circular_buffer_find_entry_offset_for_fpos(buffer, off)
                         want  == Recent!Locate(off)
                     IN  IF want = NULL
                         THEN found = NULL
                         ELSE found = [slot |-> ScanSlot(buffer, want.nth - 1), byte |-> want.byte]
  BY DEF FindIsConcatenation
<1>. DEFINE log == Contents(buffer)
            E == Entries \cup {ZeroEntry}
            P == [nth : Nat, byte : Nat]
            s == [k \in 1 .. Len(log) |-> [i \in 1 .. log[k].size |-> [nth |-> k, byte |-> i - 1]]]
            a(j) == AccumulatedBytes(buffer, j)
            n == Count(buffer)
<1>1. buffer \in Buffer(E) /\ Coherent(buffer) /\ \A e \in E : e.size \in Nat
  BY EntriesAssumption DEF IInv, TypeOK, FullMeansMet, Coherent, ZeroEntry
<1>2. /\ N \in Nat \ {0} /\ n \in 0 .. N /\ Len(log) = n
      /\ \A k \in 1 .. n : log[k] = buffer.entry[ScanSlot(buffer, k - 1)]
  BY <1>1, BufferFields, CountType
<1>3. Sizes(buffer) \in [Slots -> Nat]
  BY <1>1, FindFinds
<1>4. \A k \in 1 .. n : k - 1 \in Slots /\ log[k].size = Sizes(buffer)[k - 1] /\ log[k].size \in Nat
  BY <1>2, <1>3 DEF Sizes, Slots
<1>5. /\ s \in Seq(Seq(P)) /\ Len(s) = n
      /\ \A k \in 1 .. n : Len(s[k]) = Sizes(buffer)[k - 1]
      /\ \A k \in 1 .. n : \A i \in 1 .. log[k].size : s[k][i] = [nth |-> k, byte |-> i - 1]
  <2>1. \A k \in 1 .. n : /\ s[k] \in Seq(P) /\ Len(s[k]) = log[k].size
                          /\ \A i \in 1 .. log[k].size : s[k][i] = [nth |-> k, byte |-> i - 1]
    <3>. TAKE k \in 1 .. n
    <3>. DEFINE w == [i \in 1 .. log[k].size |-> [nth |-> k, byte |-> i - 1]]
    <3>1. s[k] = w
      BY <1>2
    <3>2. log[k].size \in Nat /\ k \in Nat
      BY <1>2, <1>4
    <3>3. \A i \in 1 .. log[k].size : [nth |-> k, byte |-> i - 1] \in P
      BY <3>2
    <3>. HIDE DEF P, log, s
    <3>4. w \in Seq(P) /\ Len(w) = log[k].size
      BY <3>2, <3>3, IsASeq, LenProperties
    <3>. QED  BY <3>1, <3>4
  <2>2. s \in Seq(Seq(P)) /\ Len(s) = n
    <3>1. n \in Nat /\ s = [k \in 1 .. n |-> s[k]]
      BY <1>2
    <3>. HIDE DEF P, s, n
    <3>2. s \in [1 .. n -> Seq(P)]
      BY <2>1, <3>1
    <3>. QED  BY <3>1, <3>2, SeqDef, LenProperties
  <2>. QED  BY <1>4, <2>1, <2>2
<1>6. Recent!Bytes = FlattenSeq(s)
  BY SameFlattenSeq DEF Recent!Bytes
<1>7. \A j : a(j) = SumBelow(Sizes(buffer), j)
  BY DEF AccumulatedBytes, Sizes
<1>. HIDE DEF s, P, log, n, a
<1>8. /\ Len(FlattenSeq(s)) = a(n)
      /\ \A k \in 1 .. n : \A m \in 1 .. Len(s[k]) :
              /\ a(k - 1) + m \in 1 .. Len(FlattenSeq(s))
              /\ FlattenSeq(s)[a(k - 1) + m] = s[k][m]
  <2>. DEFINE f == Sizes(buffer)
  <2>3. f \in [Slots -> Nat] /\ s \in Seq(Seq(P))
    BY <1>3, <1>5
  <2>1. Len(s) <= N /\ \A i \in 1 .. Len(s) : Len(s[i]) = f[i - 1]
    BY <1>2, <1>5
  <2>2. /\ Len(FlattenSeq(s)) = SumBelow(f, Len(s))
        /\ \A k \in 1 .. Len(s) : \A m \in 1 .. Len(s[k]) :
             /\ SumBelow(f, k - 1) + m \in 1 .. Len(FlattenSeq(s))
             /\ FlattenSeq(s)[SumBelow(f, k - 1) + m] = s[k][m]
    <3>. HIDE DEF f
    <3>. QED  BY <2>1, <2>3, FlattenBytes
  <2>. QED  BY <1>5, <1>7, <2>2, Zenon
<1>. DEFINE found == aesd_circular_buffer_find_entry_offset_for_fpos(buffer, off)
<1>9. off \in Nat
  <2>1. a(n) \in Nat
    BY <1>2, <1>3, <1>7, SumBelowNat, Zenon
  <2>. QED  BY <1>6, <1>8, <2>1
<1>10. \/ found = NULL /\ a(n) <= off
       \/ \E j \in 0 .. n - 1 :
            /\ found = [slot |-> ScanSlot(buffer, j), byte |-> off - a(j)]
            /\ a(j) <= off
            /\ off < a(j) + buffer.entry[ScanSlot(buffer, j)].size
  BY <1>1, <1>9, FindFinds DEF a, n
<1>11. CASE found = NULL /\ a(n) <= off
  BY <1>2, <1>3, <1>6, <1>7, <1>8, <1>9, <1>11, SumBelowNat DEF Recent!Locate
<1>12. ASSUME NEW j \in 0 .. n - 1,
              found = [slot |-> ScanSlot(buffer, j), byte |-> off - a(j)],
              a(j) <= off,
              off < a(j) + buffer.entry[ScanSlot(buffer, j)].size
       PROVE  Recent!Locate(off) # NULL /\ Recent!Locate(off) = [nth |-> j + 1, byte |-> off - a(j)]
  <2>1. /\ j + 1 \in 1 .. n /\ (j + 1) - 1 = j /\ a(j) \in Nat
    BY <1>2, <1>3, <1>7, SumBelowNat
  <2>. DEFINE m == (off - a(j)) + 1
  <2>2. log[j + 1].size \in Nat /\ log[j + 1].size = buffer.entry[ScanSlot(buffer, j)].size
    BY <1>2, <1>4, <2>1
  <2>3. m \in 1 .. log[j + 1].size /\ m \in 1 .. Len(s[j + 1]) /\ a(j) + m = off + 1 /\ m - 1 = off - a(j)
    <3>1. Len(s[j + 1]) = log[j + 1].size
      BY <1>4, <1>5, <2>1
    <3>. QED  BY <1>9, <1>12, <2>1, <2>2, <3>1
  <2>. HIDE DEF m
  <2>4. s[j + 1][m] = [nth |-> j + 1, byte |-> off - a(j)]
    BY <1>5, <2>1, <2>3
  <2>5. off + 1 \in 1 .. Len(FlattenSeq(s)) /\ FlattenSeq(s)[off + 1] = s[j + 1][m]
    BY <1>8, <2>1, <2>3
  <2>6. off < Len(FlattenSeq(s))
    BY <1>9, <2>5
  <2>7. Recent!Locate(off) = [nth |-> j + 1, byte |-> off - a(j)]
    BY <1>6, <2>4, <2>5, <2>6 DEF Recent!Locate
  <2>8. [nth |-> j + 1, byte |-> off - a(j)] \in [nth : Nat, byte : Nat]
    BY <1>9, <1>12, <2>1
  <2>. QED  BY <2>7, <2>8, NullIsNoPlace
<1>13. ASSUME NEW j \in 0 .. n - 1,
              found = [slot |-> ScanSlot(buffer, j), byte |-> off - a(j)],
              a(j) <= off,
              off < a(j) + buffer.entry[ScanSlot(buffer, j)].size
       PROVE  found = [slot |-> ScanSlot(buffer, Recent!Locate(off).nth - 1), byte |-> Recent!Locate(off).byte]
  BY <1>12, <1>13, <1>2
<1>. QED  BY <1>10, <1>11, <1>12, <1>13

(***************************************************************************)
(* aesd_circular_buffer_find_entry_offset_for_fpos searches the            *)
(* concatenation of the stored strings: for every number of slots, every   *)
(* sequence of calls and every offset up to one past the end.              *)
(***************************************************************************)
THEOREM FindSearchesConcatenation == Spec => []FindIsConcatenation
  BY InitIInv, NextIInv, FindCorrect, PTL DEF Spec

=============================================================================
