-------------------------- MODULE ThreadingProofs ---------------------------
(***************************************************************************)
(* Proofs about the threading example, for any number of threads and for   *)
(* any set of failing library calls.                                       *)
(***************************************************************************)
EXTENDS Threading, TLAPS

\* The thread function has returned.
Over == {"returned", "joined"}

\* A joiner can see that something went wrong.
Reported(u) == pc[u] \in Over /\ ~thread_complete_success[u]

(***************************************************************************)
(* The invariant: a thread that has not locked yet does not hold the mutex *)
(* (NotYet), one that believes it has the mutex has it (OwnsIt), and one   *)
(* that was robbed of it, in the middle of its wait or later, was robbed   *)
(* by, or after, a thread that has failed and is over (RobbedInv).         *)
(***************************************************************************)
NotYet == \A t \in Task : pc[t] \in {"unborn", "refused", "started", "lock"} => ~held[t]

OwnsIt == \A t \in Task : pc[t] \in {"hold", "unlock"} /\ held[t] => mutex = t

RobbedInv ==
  \A t \in Task :
    pc[t] \in {"hold", "unlock"} \cup Over /\ thread_complete_success[t] /\ ~held[t] =>
      \E u \in Task \ {t} : Reported(u)

IInv == TypeOK /\ NotYet /\ OwnsIt /\ RobbedInv

\* The invariant holds before any thread has started.
LEMMA InitIInv == Init => IInv
  BY ThreadingAssumption DEF Init, IInv, TypeOK, NotYet, OwnsIt, RobbedInv, Over

\* Every step preserves the invariant.
LEMMA NextIInv == IInv /\ [Next]_vars => IInv'
<1>. SUFFICES ASSUME IInv, [Next]_vars PROVE IInv'
  OBVIOUS
<1>. USE ThreadingAssumption
<1>0. TypeOK /\ NotYet /\ OwnsIt /\ RobbedInv
  BY DEF IInv
<1>1. CASE UNCHANGED vars
  BY <1>0, <1>1 DEF vars, IInv, TypeOK, NotYet, OwnsIt, RobbedInv, Reported
<1>2. ASSUME NEW t \in Task, start_thread_obtaining_mutex(t) PROVE IInv'
  <2>1. TypeOK'
    BY <1>0, <1>2 DEF TypeOK, start_thread_obtaining_mutex, Goto
  <2>2. NotYet' /\ OwnsIt'
    BY <1>0, <1>2 DEF TypeOK, NotYet, OwnsIt, start_thread_obtaining_mutex, Goto
  <2>3. RobbedInv'
    BY <1>0, <1>2 DEF TypeOK, RobbedInv, Reported, Over, start_thread_obtaining_mutex, Goto
  <2>. QED  BY <2>1, <2>2, <2>3 DEF IInv
<1>3. ASSUME NEW t \in Task, WaitToObtain(t) PROVE IInv'
  <2>1. TypeOK'
    BY <1>0, <1>3 DEF TypeOK, WaitToObtain, Failure, Goto
  <2>2. NotYet' /\ OwnsIt'
    BY <1>0, <1>3 DEF TypeOK, NotYet, OwnsIt, WaitToObtain, Goto
  <2>3. RobbedInv'
    BY <1>0, <1>3 DEF TypeOK, RobbedInv, Reported, Over, WaitToObtain, Failure, Goto
  <2>. QED  BY <2>1, <2>2, <2>3 DEF IInv
<1>4. ASSUME NEW t \in Task, LockMutex(t) PROVE IInv'
  <2>1. TypeOK'
    BY <1>0, <1>4 DEF TypeOK, LockMutex, Obtained, Goto
  <2>2. NotYet' /\ OwnsIt'
    BY <1>0, <1>4 DEF TypeOK, NotYet, OwnsIt, LockMutex, Obtained, Goto
  <2>3. RobbedInv'
    BY <1>0, <1>4 DEF TypeOK, RobbedInv, Reported, Over, LockMutex, Goto
  <2>. QED  BY <2>1, <2>2, <2>3 DEF IInv
<1>5. ASSUME NEW t \in Task, LockFails(t) PROVE IInv'
  <2>1. TypeOK'
    BY <1>0, <1>5 DEF TypeOK, LockFails, LockFailure, Failure, Goto
  <2>2. NotYet' /\ OwnsIt'
    BY <1>0, <1>5 DEF TypeOK, NotYet, OwnsIt, LockFails, Goto
  <2>3. RobbedInv'
    BY <1>0, <1>5 DEF TypeOK, RobbedInv, Reported, Over, LockFails, LockFailure, Failure, Goto
  <2>. QED  BY <2>1, <2>2, <2>3 DEF IInv
<1>6. ASSUME NEW t \in Task, WaitToRelease(t) PROVE IInv'
  <2>1. TypeOK'
    BY <1>0, <1>6 DEF TypeOK, WaitToRelease, Failure, Goto
  <2>2. NotYet' /\ OwnsIt'
    BY <1>0, <1>6 DEF TypeOK, NotYet, OwnsIt, WaitToRelease, Goto
  <2>3. RobbedInv'
    BY <1>0, <1>6 DEF TypeOK, RobbedInv, Reported, Over, WaitToRelease, Failure, Goto
  <2>. QED  BY <2>1, <2>2, <2>3 DEF IInv
<1>7. ASSUME NEW t \in Task, UnlockMutex(t) PROVE IInv'
  <2>1. TypeOK'
    BY <1>0, <1>7 DEF TypeOK, UnlockMutex, Released, Failure, Goto
  <2>2. NotYet' /\ OwnsIt'
    BY <1>0, <1>7 DEF TypeOK, NotYet, OwnsIt, UnlockMutex, Released, Failure, Goto
  <2>3. \A u \in Task : Reported(u) => Reported(u)'
    BY <1>0, <1>7 DEF TypeOK, Reported, Over, UnlockMutex, Failure, Goto
  <2>4. pc[t] = "unlock" /\ pc' = [pc EXCEPT ![t] = "returned"]
    BY <1>7 DEF UnlockMutex, Goto
  <2>5. RobbedInv'
    <3>. SUFFICES ASSUME NEW r \in Task,
                         pc'[r] \in {"hold", "unlock"} \cup Over,
                         thread_complete_success'[r], ~held'[r]
                  PROVE  \E u \in Task \ {r} : Reported(u)'
      BY DEF RobbedInv
    <3>1. thread_complete_success[r] /\ pc[r] \in {"hold", "unlock"} \cup Over
      BY <1>0, <1>7, <2>4 DEF TypeOK, UnlockMutex, Failure, Over
    <3>2. CASE ~held[r]
      BY <1>0, <2>3, <3>1, <3>2 DEF RobbedInv
    <3>3. CASE held[r]
      <4>1. r # t /\ mutex = r /\ Released(t) /\ UNCHANGED thread_complete_success
        BY <1>0, <1>7, <3>3 DEF UnlockMutex, Released
      <4>2. CASE thread_complete_success[t]
        <5>1. ~held[t]
          BY <1>0, <2>4, <4>1 DEF OwnsIt
        <5>2. \E u \in Task \ {t} : Reported(u)
          BY <1>0, <2>4, <4>2, <5>1 DEF RobbedInv
        <5>. QED  BY <2>3, <3>1, <5>2 DEF Reported
      <4>3. CASE ~thread_complete_success[t]
        <5>1. Reported(t)'
          BY <1>0, <2>4, <4>1, <4>3 DEF Reported, Over, TypeOK
        <5>. QED  BY <4>1, <5>1
      <4>. QED  BY <4>2, <4>3
    <3>. QED  BY <3>2, <3>3
  <2>. QED  BY <2>1, <2>2, <2>5 DEF IInv
<1>8. ASSUME NEW t \in Task, Join(t) PROVE IInv'
  <2>1. TypeOK'
    BY <1>0, <1>8 DEF TypeOK, Join, Goto
  <2>2. NotYet' /\ OwnsIt'
    BY <1>0, <1>8 DEF TypeOK, NotYet, OwnsIt, Join, Goto
  <2>3. RobbedInv'
    BY <1>0, <1>8 DEF TypeOK, RobbedInv, Reported, Over, Join, Goto
  <2>. QED  BY <2>1, <2>2, <2>3 DEF IInv
<1>. QED  BY <1>1, <1>2, <1>3, <1>4, <1>5, <1>6, <1>7, <1>8 DEF Next, Step

(***************************************************************************)
(* Type correctness; in particular a running thread's block is never freed *)
(* under it, however many threads there are.                               *)
(***************************************************************************)
THEOREM TypeCorrect == Spec => []TypeOK
<1>1. IInv => TypeOK
  BY DEF IInv
<1>. QED  BY <1>1, InitIInv, NextIInv, PTL DEF Spec

(***************************************************************************)
(* If some thread lost the mutex without noticing, another one reports a   *)
(* failure, for any number of threads.                                     *)
(***************************************************************************)
THEOREM LossReported == Spec => []LossIsReported
<1>1. IInv => LossIsReported
  BY DEF IInv, RobbedInv, LossIsReported, Reported, Over
<1>. QED  BY <1>1, InitIInv, NextIInv, PTL DEF Spec

=============================================================================
