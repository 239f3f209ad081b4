----------------------------- MODULE Threading ------------------------------
(***************************************************************************)
(* examples/threading/threading.c: start_thread_obtaining_mutex starts     *)
(* threads that wait, obtain one mutex, hold it for a while and release    *)
(* it, each described by a thread_data block of its own that the joiner    *)
(* frees.  Waiting takes an unspecified time; it may be cut short.         *)
(***************************************************************************)
EXTENDS Integers

CONSTANTS Task,     \* the calls of start_thread_obtaining_mutex
          NULL,
          Faults    \* which library calls may fail

FaultKinds == {"malloc", "pthread_create", "usleep", "pthread_mutex_lock", "pthread_mutex_unlock"}

ASSUME ThreadingAssumption == NULL \notin Task /\ Faults \subseteq FaultKinds

VARIABLES pc, mutex,
          memory,                    \* the thread_data blocks
          thread_complete_success,
          held                       \* the task held the mutex all through its wait

vars == <<pc, mutex, memory, thread_complete_success, held>>

Init ==
  /\ pc = [t \in Task |-> "unborn"]
  /\ mutex = NULL
  /\ memory = [t \in Task |-> "none"]
  /\ thread_complete_success = [t \in Task |-> FALSE]
  /\ held = [t \in Task |-> FALSE]

Goto(t, label) == pc' = [pc EXCEPT ![t] = label]

\* A failure is remembered in the block, and the thread goes on.
Failure(t) == thread_complete_success' = [thread_complete_success EXCEPT ![t] = FALSE]

\* Mutant: the free at the end of the function is not commented out.
start_threadFrees(t) ==
  /\ pc[t] = "unborn"
  /\ Goto(t, "started")
  /\ memory' = [memory EXCEPT ![t] = "freed"]
  /\ UNCHANGED <<mutex, thread_complete_success, held>>

start_thread_obtaining_mutex(t) ==
  /\ pc[t] = "unborn"
  /\ \/ Goto(t, "started") /\ memory' = [memory EXCEPT ![t] = "live"]
     \/ "malloc" \in Faults /\ Goto(t, "refused") /\ UNCHANGED memory
     \/ /\ "pthread_create" \in Faults
        /\ Goto(t, "refused")
        /\ memory' = [memory EXCEPT ![t] = "live"]
  /\ UNCHANGED <<mutex, thread_complete_success, held>>

(***************************************************************************)
(* threadfunc.                                                             *)
(***************************************************************************)
WaitToObtain(t) ==
  /\ pc[t] = "started"
  /\ \/ thread_complete_success' = [thread_complete_success EXCEPT ![t] = TRUE]
     \/ "usleep" \in Faults /\ Failure(t)
  /\ Goto(t, "lock")
  /\ UNCHANGED <<mutex, memory, held>>

Obtained(t) == mutex = NULL /\ mutex' = t

\* Mutant: a lock that failed is not recorded.
LockFailureIgnored(t) == UNCHANGED thread_complete_success

LockFailure(t) == Failure(t)

LockMutex(t) ==
  /\ pc[t] = "lock"
  /\ Obtained(t)
  /\ held' = [held EXCEPT ![t] = TRUE]
  /\ Goto(t, "hold")
  /\ UNCHANGED <<memory, thread_complete_success>>

LockFails(t) ==
  /\ pc[t] = "lock"
  /\ "pthread_mutex_lock" \in Faults
  /\ LockFailure(t)
  /\ Goto(t, "hold")
  /\ UNCHANGED <<mutex, memory, held>>

WaitToRelease(t) ==
  /\ pc[t] = "hold"
  /\ \/ UNCHANGED thread_complete_success
     \/ "usleep" \in Faults /\ Failure(t)
  /\ Goto(t, "unlock")
  /\ UNCHANGED <<mutex, memory, held>>

\* Mutant: the mutex is kept.
ReleasedNever(t) == UNCHANGED <<mutex, held>>

\* pthread_mutex_unlock of a default mutex releases it whoever holds it; a task
\* that has it meanwhile no longer does.
Released(t) ==
  /\ mutex' = NULL
  /\ held' = [u \in Task |-> held[u] /\ (u = t \/ mutex # u)]

UnlockMutex(t) ==
  /\ pc[t] = "unlock"
  /\ \/ Released(t) /\ UNCHANGED thread_complete_success
     \/ "pthread_mutex_unlock" \in Faults /\ Failure(t) /\ UNCHANGED <<mutex, held>>
  /\ Goto(t, "returned")
  /\ UNCHANGED memory

\* The joiner looks at thread_complete_success and frees the block.
Join(t) ==
  /\ pc[t] = "returned"
  /\ memory' = [memory EXCEPT ![t] = "freed"]
  /\ Goto(t, "joined")
  /\ UNCHANGED <<mutex, thread_complete_success, held>>

Step(t) ==
  \/ start_thread_obtaining_mutex(t)
  \/ WaitToObtain(t) \/ LockMutex(t) \/ WaitToRelease(t) \/ UnlockMutex(t) \/ Join(t)

Next == \E t \in Task : Step(t) \/ LockFails(t)

Spec == Init /\ [][Next]_vars

\* Threads are scheduled; a mutex whose holders always release it is obtained.
\* Nothing says that a lock ever fails.
FairSpec == Spec /\ \A t \in Task : WF_vars(Step(t)) /\ SF_vars(LockMutex(t))

-----------------------------------------------------------------------------
\* Besides the types: the block of a thread that runs has not been freed.
TypeOK ==
  /\ pc \in [Task -> {"unborn", "refused", "started", "lock", "hold", "unlock", "returned", "joined"}]
  /\ mutex \in Task \cup {NULL}
  /\ memory \in [Task -> {"none", "live", "freed"}]
  /\ \A t \in Task : pc[t] \in {"started", "lock", "hold", "unlock", "returned"} => memory[t] = "live"
  /\ thread_complete_success \in [Task -> BOOLEAN]
  /\ held \in [Task -> BOOLEAN]

(***************************************************************************)
(* If a thread reports success although the mutex was taken from it while  *)
(* it held it, then some other thread has reported a failure: the joiner   *)
(* of all threads can tell that something went wrong.                      *)
(***************************************************************************)
LossIsReported ==
  \A t \in Task :
    pc[t] \in {"returned", "joined"} /\ thread_complete_success[t] /\ ~held[t] =>
      \E u \in Task \ {t} : pc[u] \in {"returned", "joined"} /\ ~thread_complete_success[u]

(***************************************************************************)
(* Every thread_data block that start_thread_obtaining_mutex allocates is  *)
(* freed by a joiner in the end: every thread, however many there are,     *)
(* gets the mutex, returns its block and is joined.  The exceptions are a  *)
(* block for which pthread_create failed and threads behind one that kept  *)
(* the mutex and reports the failure.                                      *)
(***************************************************************************)
KeptMutex ==
  \E u \in Task : mutex = u /\ pc[u] \in {"returned", "joined"} /\ ~thread_complete_success[u]

BlocksAreFreed ==
  \A t \in Task : memory[t] = "live" ~> memory[t] = "freed" \/ pc[t] = "refused" \/ KeptMutex

=============================================================================
