---------------------------- MODULE SystemCalls -----------------------------
(***************************************************************************)
(* do_system, do_exec and do_exec_redirect of                              *)
(* examples/systemcalls/systemcalls.c: a program calls them one after the  *)
(* other; each forks a child, which turns into another program, and waits  *)
(* for it.  Parent and child run side by side.                             *)
(***************************************************************************)
EXTENDS Integers

CONSTANTS Faults,     \* which calls may fail, and "kill": a signal ends the child
          MaxCalls    \* bound on the number of calls

FaultKinds == {"system", "open", "fork", "dup2", "execv", "waitpid", "kill"}

ASSUME CallsAssumption == Faults \subseteq FaultKinds /\ MaxCalls \in Nat

VARIABLES function,    \* the function being called
          parent,      \* where the caller is in it
          child,       \* what the child is doing
          status,      \* the wait status the child left
          retval,      \* what the last call returned
          succeeded,   \* the command of the last call ran and exited with 0
          open_files,  \* output files the caller has open
          returned,    \* the child of the last call returned into the caller's code
          calls

vars == <<function, parent, child, status, retval, succeeded, open_files, returned, calls>>

Functions == {"do_system", "do_exec", "do_exec_redirect"}

\* Wait statuses: the exit code in the high byte, the signal in the low one.
Statuses == [code : {0, 1}, signal : {0, 9}]
WIFEXITED(s)   == s.signal = 0
WEXITSTATUS(s) == s.code

Init ==
  /\ function = "none"
  /\ parent = "idle"
  /\ child = "none"
  /\ status = [code |-> 0, signal |-> 0]
  /\ retval = FALSE
  /\ succeeded = FALSE
  /\ open_files = 0
  /\ returned = FALSE
  /\ calls = 0

Return(value) ==
  /\ parent' = "idle"
  /\ retval' = value

Call(f) ==
  /\ parent = "idle"
  /\ calls < MaxCalls
  /\ calls' = calls + 1
  /\ function' = f
  /\ child' = "none"
  /\ succeeded' = FALSE
  /\ returned' = FALSE
  /\ parent' = CASE f = "do_system" -> "system" [] f = "do_exec" -> "fork"
                 [] f = "do_exec_redirect" -> "open"
  /\ UNCHANGED <<status, retval, open_files>>

\* system() returns the command's wait status, or -1.
DoSystem ==
  /\ parent = "system"
  /\ \/ \E s \in Statuses : /\ s.signal # 0 => "kill" \in Faults
                            /\ succeeded' = (s = [code |-> 0, signal |-> 0])
                            /\ Return(s = [code |-> 0, signal |-> 0])
     \/ "system" \in Faults /\ Return(FALSE) /\ UNCHANGED succeeded
  /\ UNCHANGED <<function, child, status, open_files, returned, calls>>

OpenOutput ==
  /\ parent = "open"
  /\ \/ parent' = "fork" /\ open_files' = open_files + 1 /\ UNCHANGED retval
     \/ "open" \in Faults /\ Return(FALSE) /\ UNCHANGED open_files
  /\ UNCHANGED <<function, child, status, succeeded, returned, calls>>

\* Mutant: the result of fork is not checked.
ForkUnchecked ==
  /\ parent = "fork"
  /\ parent' = "waitpid"
  /\ \/ child' = IF function = "do_exec_redirect" THEN "dup2" ELSE "execv"
     \/ "fork" \in Faults /\ UNCHANGED child
  /\ UNCHANGED <<function, status, retval, succeeded, open_files, returned, calls>>

Fork ==
  /\ parent = "fork"
  /\ \/ /\ parent' = "waitpid"
        /\ child' = IF function = "do_exec_redirect" THEN "dup2" ELSE "execv"
        /\ UNCHANGED retval
     \/ "fork" \in Faults /\ Return(FALSE) /\ UNCHANGED child
  /\ UNCHANGED <<function, status, succeeded, open_files, returned, calls>>

\* A child whose dup2 fails returns false from do_exec_redirect: from there on
\* two processes run the caller's code.  The copy ends when it likes.
ChildDup2 ==
  /\ child = "dup2"
  /\ \/ child' = "execv" /\ UNCHANGED returned
     \/ "dup2" \in Faults /\ child' = "returned" /\ returned' = TRUE
  /\ UNCHANGED <<function, parent, status, retval, succeeded, open_files, calls>>

\* The status of a child whose execv failed: exit(EXIT_FAILURE).
ExitFailure == [code |-> 1, signal |-> 0]

ChildExecv ==
  /\ child = "execv"
  /\ \/ child' = "running" /\ UNCHANGED status
     \/ /\ "execv" \in Faults
        /\ child' = "dead"
        /\ status' = ExitFailure
  /\ UNCHANGED <<function, parent, retval, succeeded, open_files, returned, calls>>

ChildEnds ==
  /\ child \in {"running", "returned"}
  /\ \E s \in Statuses : /\ s.signal # 0 => "kill" \in Faults /\ s.code = 0
                         /\ status' = s
                         /\ succeeded' = (child = "running" /\ s = [code |-> 0, signal |-> 0])
  /\ child' = "dead"
  /\ UNCHANGED <<function, parent, retval, open_files, returned, calls>>

\* Mutants: every child that could be waited for counts as a success; the test
\* of the exit status is inverted.
ResultIgnored(f, s) == TRUE
ResultInverted(f, s) == ~(WIFEXITED(s) /\ WEXITSTATUS(s) = 0)

\* The value returned after waitpid: do_exec_redirect does not look at WIFEXITED.
Result(f, s) ==
  IF f = "do_exec" THEN WIFEXITED(s) /\ WEXITSTATUS(s) = 0 ELSE WEXITSTATUS(s) = 0

WaitPid ==
  /\ parent = "waitpid"
  /\ child = "dead"
  /\ Return(Result(function, status))
  /\ child' = "reaped"
  /\ UNCHANGED <<function, status, succeeded, open_files, returned, calls>>

\* waitpid is interrupted by a signal of the caller, or SIGCHLD is ignored and
\* there is no status to collect.
WaitPidFails ==
  /\ parent = "waitpid"
  /\ "waitpid" \in Faults
  /\ Return(TRUE)
  /\ UNCHANGED <<function, child, status, succeeded, open_files, returned, calls>>

Step ==
  \/ DoSystem \/ OpenOutput \/ Fork \/ WaitPid
  \/ ChildDup2 \/ ChildExecv \/ ChildEnds

Next == Step \/ WaitPidFails \/ \E f \in Functions : Call(f)

Spec == Init /\ [][Next]_vars

\* Both processes are scheduled, and the commands that are run end.  Nothing says
\* that waitpid ever fails.
FairSpec == Spec /\ WF_vars(Step)

-----------------------------------------------------------------------------
(***************************************************************************)
(* "true if the command ... were executed successfully using the execv()   *)
(* call, false if an error occurred, either in invocation of the fork,     *)
(* waitpid, or execv() command, or if a non-zero return value was          *)
(* returned" (systemcalls.c:38-41), for all three functions.  The code     *)
(* does not keep this promise: it returns true after a waitpid that fails, *)
(* and do_exec_redirect returns true for a command that a signal ended.    *)
(***************************************************************************)
TrueMeansSucceeded ==
  [][parent # "idle" /\ parent' = "idle" /\ retval' => succeeded']_vars

(***************************************************************************)
(* Those are the only calls that return true without a command that ran    *)
(* and exited with 0, together with a do_exec_redirect whose child could   *)
(* not redirect its output and came back into the caller's code, which     *)
(* then decides what the child exits with.                                 *)
(***************************************************************************)
WrongTrueOnlyWhereKnown ==
  [][parent # "idle" /\ parent' = "idle" /\ retval' =>
       \/ succeeded'
       \/ WaitPidFails
       \/ function = "do_exec_redirect" /\ (~WIFEXITED(status) \/ returned)]_vars

(***************************************************************************)
(* A call whose command was executed and exited with 0 returns true.       *)
(***************************************************************************)
SuccessIsReported == parent = "idle" /\ succeeded => retval

(***************************************************************************)
(* Every call returns.                                                     *)
(***************************************************************************)
EveryCallReturns == parent # "idle" ~> parent = "idle"

=============================================================================
