------------------------- MODULE SystemCallsProofs --------------------------
(***************************************************************************)
(* Proofs about the systemcalls example, for any number of calls and any   *)
(* set of failing system calls.                                            *)
(***************************************************************************)
EXTENDS SystemCalls, TLAPS

\* The wait status of a command that exited with 0.
Zero == [code |-> 0, signal |-> 0]

\* Where the child is, given where the caller is.
Phases ==
  /\ parent \in {"system", "open", "fork"} => child = "none" /\ ~succeeded
  /\ parent = "open" => function = "do_exec_redirect"
  /\ parent \in {"fork", "waitpid"} => function \in {"do_exec", "do_exec_redirect"}
  /\ parent = "waitpid" => child \notin {"none", "reaped"}
  /\ child \in {"dup2", "returned"} => function = "do_exec_redirect"

\* What the child's wait status says of its command.
StatusInv ==
  /\ child \in {"dup2", "execv", "running", "returned"} => ~succeeded
  /\ child = "returned" => returned
  /\ child = "dead" =>
       /\ succeeded => status = Zero
       /\ status = Zero => succeeded \/ (function = "do_exec_redirect" /\ returned)

(***************************************************************************)
(* A caller that has returned while its child is still there came from a   *)
(* waitpid that failed, and was told TRUE, so that a command that succeeds *)
(* later does not contradict it.                                           *)
(***************************************************************************)
Abandoned ==
  parent = "idle" /\ child \in {"dup2", "execv", "running", "returned", "dead"} => retval

\* The types.
Types ==
  /\ function \in Functions \cup {"none"}
  /\ parent \in {"idle", "system", "open", "fork", "waitpid"}
  /\ child \in {"none", "dup2", "execv", "running", "returned", "dead", "reaped"}
  /\ status \in Statuses
  /\ retval \in BOOLEAN /\ succeeded \in BOOLEAN /\ returned \in BOOLEAN

\* The inductive invariant.
IInv == Types /\ Phases /\ StatusInv /\ Abandoned /\ SuccessIsReported

\* No call has been made.
LEMMA InitIInv == Init => IInv
<1>. SUFFICES ASSUME Init PROVE IInv
  OBVIOUS
<1>. USE DEF Init
<1>1. Types
  BY DEF Types, Statuses
<1>2. Phases /\ StatusInv /\ Abandoned /\ SuccessIsReported
  BY DEF Phases, StatusInv, Abandoned, SuccessIsReported
<1>. QED  BY <1>1, <1>2 DEF IInv

\* Every step preserves the invariant.
LEMMA NextIInv == IInv /\ [Next]_vars => IInv'
<1>. SUFFICES ASSUME IInv, [Next]_vars PROVE IInv'
  OBVIOUS
<1>0. Types /\ Phases /\ StatusInv /\ Abandoned /\ SuccessIsReported
  BY DEF IInv
<1>b. status.code \in {0, 1} /\ status.signal \in {0, 9}
  BY <1>0 DEF Types, Statuses
<1>. USE <1>0
<1>1. CASE UNCHANGED vars
  BY <1>1 DEF vars, IInv, Types, Phases, StatusInv, Abandoned, SuccessIsReported
<1>2. CASE DoSystem
  <2>1. Types'
    BY <1>2 DEF Types, DoSystem, Return
  <2>2. Phases'
    BY <1>2 DEF Types, Phases, DoSystem, Return
  <2>3. StatusInv'
    BY <1>2, <1>b DEF Types, Phases, StatusInv, Statuses, Zero, DoSystem, Return
  <2>4. Abandoned'
    BY <1>2 DEF Types, Phases, Abandoned, DoSystem, Return
  <2>5. SuccessIsReported'
    BY <1>2, <1>b
       DEF Types, Phases, StatusInv, Abandoned, SuccessIsReported, Zero, DoSystem, Return
  <2>. QED  BY <2>1, <2>2, <2>3, <2>4, <2>5 DEF IInv
<1>3. CASE OpenOutput
  <2>1. Types'
    BY <1>3 DEF Types, OpenOutput, Return
  <2>2. Phases'
    BY <1>3 DEF Types, Phases, OpenOutput, Return
  <2>3. StatusInv'
    BY <1>3, <1>b DEF Types, Phases, StatusInv, Statuses, Zero, OpenOutput, Return
  <2>4. Abandoned'
    BY <1>3 DEF Types, Phases, Abandoned, OpenOutput, Return
  <2>5. SuccessIsReported'
    BY <1>3, <1>b
       DEF Types, Phases, StatusInv, Abandoned, SuccessIsReported, Zero, OpenOutput,
           Return
  <2>. QED  BY <2>1, <2>2, <2>3, <2>4, <2>5 DEF IInv
<1>4. CASE Fork
  <2>1. Types'
    BY <1>4 DEF Types, Fork, Return
  <2>2. Phases'
    BY <1>4 DEF Types, Phases, Fork, Return
  <2>3. StatusInv'
    BY <1>4, <1>b DEF Types, Phases, StatusInv, Statuses, Zero, Fork, Return
  <2>4. Abandoned'
    BY <1>4 DEF Types, Phases, Abandoned, Fork, Return
  <2>5. SuccessIsReported'
    BY <1>4, <1>b
       DEF Types, Phases, StatusInv, Abandoned, SuccessIsReported, Zero, Fork, Return
  <2>. QED  BY <2>1, <2>2, <2>3, <2>4, <2>5 DEF IInv
<1>5. CASE WaitPid
  <2>1. Types'
    BY <1>5 DEF Types, WaitPid, Return, Result, WIFEXITED, WEXITSTATUS
  <2>2. Phases'
    BY <1>5 DEF Types, Phases, WaitPid, Return
  <2>3. StatusInv'
    BY <1>5, <1>b DEF Types, Phases, StatusInv, Statuses, Zero, WaitPid, Return
  <2>4. Abandoned'
    BY <1>5 DEF Types, Phases, Abandoned, WaitPid, Return
  <2>5. SuccessIsReported'
    <3>1. succeeded => status.code = 0 /\ status.signal = 0
      BY <1>5 DEF StatusInv, WaitPid, Zero
    <3>2. succeeded => Result(function, status)
      BY <3>1 DEF Result, WIFEXITED, WEXITSTATUS
    <3>. QED  BY <1>5, <3>2, Zenon DEF WaitPid, Return, SuccessIsReported
  <2>. QED  BY <2>1, <2>2, <2>3, <2>4, <2>5 DEF IInv
<1>6. CASE ChildDup2
  <2>1. Types'
    BY <1>6 DEF Types, ChildDup2
  <2>2. Phases'
    BY <1>6 DEF Types, Phases, ChildDup2
  <2>3. StatusInv'
    BY <1>6, <1>b DEF Types, Phases, StatusInv, Statuses, Zero, ChildDup2
  <2>4. Abandoned'
    BY <1>6 DEF Types, Phases, Abandoned, ChildDup2
  <2>5. SuccessIsReported'
    BY <1>6, <1>b
       DEF Types, Phases, StatusInv, Abandoned, SuccessIsReported, Zero, ChildDup2
  <2>. QED  BY <2>1, <2>2, <2>3, <2>4, <2>5 DEF IInv
<1>7. CASE ChildExecv
  <2>1. Types'
    BY <1>7 DEF Types, ChildExecv, ExitFailure, Statuses
  <2>2. Phases'
    BY <1>7 DEF Types, Phases, ChildExecv, ExitFailure, Statuses
  <2>3. StatusInv'
    BY <1>7, <1>b
       DEF Types, Phases, StatusInv, Statuses, Zero, ChildExecv, ExitFailure
  <2>4. Abandoned'
    BY <1>7 DEF Types, Phases, Abandoned, ChildExecv, ExitFailure, Statuses
  <2>5. SuccessIsReported'
    BY <1>7, <1>b
       DEF Types, Phases, StatusInv, Abandoned, SuccessIsReported, Zero, ChildExecv,
           ExitFailure, Statuses
  <2>. QED  BY <2>1, <2>2, <2>3, <2>4, <2>5 DEF IInv
<1>8. CASE ChildEnds
  <2>1. Types'
    BY <1>8 DEF Types, ChildEnds, Statuses
  <2>2. Phases'
    BY <1>8 DEF Types, Phases, ChildEnds, Statuses
  <2>3. StatusInv'
    BY <1>8, <1>b DEF Types, Phases, StatusInv, Statuses, Zero, ChildEnds
  <2>4. Abandoned'
    BY <1>8 DEF Types, Phases, Abandoned, ChildEnds, Statuses
  <2>5. SuccessIsReported'
    BY <1>8, <1>b
       DEF Types, Phases, StatusInv, Abandoned, SuccessIsReported, Zero, ChildEnds,
           Statuses
  <2>. QED  BY <2>1, <2>2, <2>3, <2>4, <2>5 DEF IInv
<1>9. CASE WaitPidFails
  <2>1. Types'
    BY <1>9 DEF Types, WaitPidFails, Return
  <2>2. Phases'
    BY <1>9 DEF Types, Phases, WaitPidFails, Return
  <2>3. StatusInv'
    BY <1>9, <1>b DEF Types, Phases, StatusInv, Statuses, Zero, WaitPidFails, Return
  <2>4. Abandoned'
    BY <1>9 DEF Types, Phases, Abandoned, WaitPidFails, Return
  <2>5. SuccessIsReported'
    BY <1>9, <1>b
       DEF Types, Phases, StatusInv, Abandoned, SuccessIsReported, Zero, WaitPidFails,
           Return
  <2>. QED  BY <2>1, <2>2, <2>3, <2>4, <2>5 DEF IInv
<1>10. ASSUME NEW f \in Functions, Call(f) PROVE IInv'
  <2>1. Types'
    BY <1>10 DEF Types, Call, Functions
  <2>2. Phases'
    BY <1>10 DEF Types, Phases, Call, Functions
  <2>3. StatusInv'
    BY <1>10, <1>b DEF Types, Phases, StatusInv, Statuses, Zero, Call, Functions
  <2>4. Abandoned'
    BY <1>10 DEF Types, Phases, Abandoned, Call, Functions
  <2>5. SuccessIsReported'
    BY <1>10, <1>b
       DEF Types, Phases, StatusInv, Abandoned, SuccessIsReported, Zero, Call, Functions
  <2>. QED  BY <2>1, <2>2, <2>3, <2>4, <2>5 DEF IInv
<1>. QED  BY <1>1, <1>2, <1>3, <1>4, <1>5, <1>6, <1>7, <1>8, <1>9, <1>10 DEF Next, Step

(***************************************************************************)
(* No call returns false although its command was executed and exited      *)
(* with 0; the command of an abandoned child, which may end at any time    *)
(* after a waitpid that failed, is covered by what that call returned.     *)
(***************************************************************************)
THEOREM SuccessReported == Spec => []SuccessIsReported
<1>1. IInv => SuccessIsReported
  BY DEF IInv
<1>. QED  BY <1>1, InitIInv, NextIInv, PTL DEF Spec

\* The step that returns to the caller returns true only with the reasons that
\* the property lists.
LEMMA ReturnStep ==
  ASSUME IInv, [Next]_vars, parent # "idle", parent' = "idle", retval'
  PROVE  \/ succeeded'
         \/ WaitPidFails
         \/ function = "do_exec_redirect" /\ (~WIFEXITED(status) \/ returned)
<1>1. CASE DoSystem
  BY <1>1 DEF DoSystem, Return
<1>2. CASE WaitPid
  <2>1. Result(function, status) /\ status \in Statuses /\ UNCHANGED succeeded
    BY <1>2 DEF IInv, Types, WaitPid, Return
  <2>2. function \in {"do_exec", "do_exec_redirect"}
    BY <1>2 DEF IInv, Phases, WaitPid
  <2>3. status.code = 0 /\ (function = "do_exec" => status.signal = 0)
    BY <2>1, <2>2 DEF Result, WIFEXITED, WEXITSTATUS
  <2>4. status.signal = 0 => status = Zero
    BY <2>1, <2>3 DEF Statuses, Zero
  <2>5. status = Zero => succeeded \/ (function = "do_exec_redirect" /\ returned)
    BY <1>2 DEF IInv, StatusInv, WaitPid
  <2>. QED  BY <2>1, <2>2, <2>3, <2>4, <2>5 DEF WIFEXITED
<1>3. CASE OpenOutput \/ Fork
  BY <1>3 DEF OpenOutput, Fork, Return
<1>4. CASE UNCHANGED parent
  BY <1>4
<1>5. \A f \in Functions : ~Call(f)
  BY DEF Call
<1>6. ChildDup2 \/ ChildExecv \/ ChildEnds \/ UNCHANGED vars => UNCHANGED parent
  BY DEF ChildDup2, ChildExecv, ChildEnds, vars
<1>. QED  BY <1>1, <1>2, <1>3, <1>4, <1>5, <1>6 DEF Next, Step

(***************************************************************************)
(* true means that the command ran and exited with 0, whichever calls      *)
(* fail, but for the cases of systemcalls.c that the property names: the   *)
(* two promises it breaks, and a child that returned into the caller.      *)
(***************************************************************************)
THEOREM TrueMeans == Spec => WrongTrueOnlyWhereKnown
<1>1. IInv /\ [Next]_vars =>
        [parent # "idle" /\ parent' = "idle" /\ retval' =>
           \/ succeeded'
           \/ WaitPidFails
           \/ function = "do_exec_redirect" /\ (~WIFEXITED(status) \/ returned)]_vars
  BY ReturnStep
<1>. QED  BY <1>1, InitIInv, NextIInv, PTL DEF Spec, WrongTrueOnlyWhereKnown

=============================================================================
