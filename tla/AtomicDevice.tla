---------------------------- MODULE AtomicDevice ----------------------------
(***************************************************************************)
(* What /dev/aesdchar looks like to programs whose calls on one open file  *)
(* do not overlap: every system call happens at once.  These are the       *)
(* operations AesdSocket is built on; AesdChar implements this module.     *)
(***************************************************************************)
EXTENDS AesdDevice

CONSTANTS Thread, File, Payload, ReadCounts, Seeks, Seektos

VARIABLES dev,      \* the device
          f_pos,    \* the position of every file, 0 while it is not open
          answer    \* what a thread that has read has not used yet

vars == <<dev, f_pos, answer>>

Init ==
  /\ dev = NewDevice
  /\ f_pos = [f \in File |-> 0]
  /\ answer = [t \in Thread |-> << >>]

Write(f, data) ==
  /\ dev' = DeviceWrite(dev, data)
  /\ f_pos' = [f_pos EXCEPT ![f] = @ + Len(Accepted(data))]
  /\ UNCHANGED answer

Read(t, f, count) ==
  /\ answer' = [answer EXCEPT ![t] = DeviceRead(dev, f_pos[f], count)]
  /\ f_pos' = [f_pos EXCEPT ![f] = @ + Len(answer'[t])]
  /\ UNCHANGED dev

Use(t) == answer' = [answer EXCEPT ![t] = << >>] /\ UNCHANGED <<dev, f_pos>>

\* lseek, the seek ioctl, close.
MoveTo(f, position) == f_pos' = [f_pos EXCEPT ![f] = position] /\ UNCHANGED <<dev, answer>>

\* The module is unloaded; nobody has the device open.
Unload ==
  /\ dev' = NewDevice
  /\ f_pos = [f \in File |-> 0]
  /\ UNCHANGED <<f_pos, answer>>

Next ==
  \/ Unload
  \/ \E t \in Thread : Use(t)
  \/ \E f \in File :
       \/ \E data \in Payload : Write(f, data)
       \/ \E t \in Thread, count \in ReadCounts : Read(t, f, count)
       \/ \E seek \in Seeks : MoveTo(f, DeviceLlseek(dev, f_pos[f], seek))
       \/ \E seekto \in Seektos : MoveTo(f, DeviceSeekto(dev, f_pos[f], seekto))
       \/ MoveTo(f, 0)

Spec == Init /\ [][Next]_vars

=============================================================================
