----------------------------- MODULE CommandLog -----------------------------
(***************************************************************************)
(* What /dev/aesdchar promises to programs that write to it.  A command is *)
(* the bytes up to and including a newline, possibly sent in several       *)
(* writes.  The device keeps the last Capacity complete commands and the   *)
(* bytes of the command being sent; a write is accepted up to its first    *)
(* newline and happens all at once or not at all.                          *)
(***************************************************************************)
EXTENDS Integers, SequencesExt

CONSTANTS Capacity, Payload, NewLine

VARIABLES loaded,   \* the module is in the kernel
          log,      \* the complete commands, oldest first
          partial   \* the bytes received since the last newline

vars == <<loaded, log, partial>>

Init == ~loaded /\ log = << >> /\ partial = << >>

\* The part of data that one write accepts.
Accepted(data) ==
  LET end == SelectInSeq(data, LAMBDA c : c = NewLine)
  IN  IF end = 0 THEN data ELSE SubSeq(data, 1, end)

Write(data) ==
  LET line == partial \o Accepted(data)
  IN  /\ loaded /\ UNCHANGED loaded
      /\ IF Contains(data, NewLine)
         THEN /\ log' = Append(IF Len(log) < Capacity THEN log ELSE Tail(log), line)
              /\ partial' = << >>
         ELSE log' = log /\ partial' = line

Load == ~loaded /\ loaded' /\ UNCHANGED <<log, partial>>

Unload == loaded /\ ~loaded' /\ log' = << >> /\ partial' = << >>

Next == Load \/ Unload \/ \E data \in Payload : Write(data)

Spec == Init /\ [][Next]_vars

=============================================================================
