------------------------- MODULE CircularBufferSpec -------------------------
(***************************************************************************)
(* The circular buffer on its own, as its unit tests drive it: a caller    *)
(* initialises the structure and adds entries in any order.  Finding an    *)
(* offset changes nothing; what it returns is the subject of               *)
(* FindIsConcatenation.                                                    *)
(***************************************************************************)
EXTENDS CircularBuffer

CONSTANTS Entries   \* the entries callers add

ASSUME EntriesAssumption == \A e \in Entries : e.size \in Nat

\* The null pointer is not a place within the stored strings.
ASSUME NullIsNoPlace == NULL \notin [nth : Nat, byte : Nat]

VARIABLES buffer,
          call      \* the call the caller made last: its name and its argument

vars == <<buffer, call>>

\* The caller makes a call; `odd` tells it from a repetition of the last one.
Called(op, e) == call' = [op |-> op, entry |-> e, odd |-> ~call.odd]

Init == /\ buffer = aesd_circular_buffer_init
        /\ call = [op |-> "init", entry |-> NULL, odd |-> FALSE]

InitBuffer == Called("init", NULL) /\ buffer' = aesd_circular_buffer_init

AddEntry(e) == Called("add", e) /\ buffer' = aesd_circular_buffer_add_entry(buffer, e)

Next == InitBuffer \/ \E e \in Entries : AddEntry(e)

Spec == Init /\ [][Next]_vars

-----------------------------------------------------------------------------
TypeOK ==
  /\ buffer \in Buffer(Entries \cup {ZeroEntry})
  /\ call \in [op : {"init", "add"}, entry : Entries \cup {NULL}, odd : BOOLEAN]

\* The full flag is only ever set when the two offsets meet; with the offsets
\* equal it is what distinguishes N stored entries from none.
FullMeansMet == buffer.full => buffer.in_offs = buffer.out_offs

Recent == INSTANCE RecentWrites WITH log <- Contents(buffer), Capacity <- N

(***************************************************************************)
(* aesd_circular_buffer_add_entry keeps the most recent N entries in the   *)
(* order they were added, whatever the wrap-around of the two offsets: a   *)
(* call that adds e stores e and drops nothing but the oldest of N entries *)
(* (so `full` is never lost), and only an initialisation empties it.       *)
(***************************************************************************)
RefinesRecentWrites == Recent!Spec

(***************************************************************************)
(* aesd_circular_buffer_find_entry_offset_for_fpos, for every offset up to *)
(* one past the end: the entry and the byte it returns are those of the    *)
(* concatenation of the stored strings, and NULL exactly past its end.     *)
(***************************************************************************)
FindIsConcatenation ==
  \A off \in 0 .. Len(Recent!Bytes) + 1 :
    LET found == aesd_circular_buffer_find_entry_offset_for_fpos(buffer, off)
        want  == Recent!Locate(off)
    IN  IF want = NULL
        THEN found = NULL
        ELSE found = [slot |-> ScanSlot(buffer, want.nth - 1), byte |-> want.byte]

=============================================================================
