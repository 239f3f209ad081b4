---------------------------- MODULE RecentWrites ----------------------------
(***************************************************************************)
(* What the circular buffer promises its callers: "memory allocated for    *)
(* the most recent write operations" (aesd-circular-buffer.h).  It is a    *)
(* queue of at most Capacity entries; storing one more drops the oldest.   *)
(* The call is part of the state, as the caller knows which one it made:   *)
(* only a call that adds e may store e, and only an initialisation may     *)
(* empty the queue.                                                        *)
(***************************************************************************)
EXTENDS Integers, SequencesExt

CONSTANTS Capacity, Entries, NULL

VARIABLES log,    \* the stored entries, oldest first
          call    \* the call made last; `odd` tells a call from its repetition

vars == <<log, call>>

Init == log = << >> /\ call = [op |-> "init", entry |-> NULL, odd |-> FALSE]

Called(op, e) == call' = [op |-> op, entry |-> e, odd |-> ~call.odd]

Store(e) ==
  /\ Called("add", e)
  /\ log' = IF Len(log) < Capacity THEN Append(log, e) ELSE Append(Tail(log), e)

Clear == Called("init", NULL) /\ log' = << >>

Next == Clear \/ \E e \in Entries : Store(e)

Spec == Init /\ [][Next]_vars

(***************************************************************************)
(* Byte `off` of the log is the one at index `off` (from zero) when all    *)
(* stored strings are concatenated end to end.  Bytes lists, for every     *)
(* byte of that concatenation, which entry it belongs to and its place     *)
(* there; Locate is NULL where not enough data was written.                *)
(***************************************************************************)
Bytes == FlattenSeq([k \in 1 .. Len(log) |->
                       [i \in 1 .. log[k].size |-> [nth |-> k, byte |-> i - 1]]])

Locate(off) == IF off < Len(Bytes) THEN Bytes[off + 1] ELSE NULL

=============================================================================
