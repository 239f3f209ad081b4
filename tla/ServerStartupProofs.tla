------------------------ MODULE ServerStartupProofs -------------------------
(***************************************************************************)
(* Proofs about the start of the server, for any limit on the number of    *)
(* descriptors, any set of standard descriptors closed beforehand, and any *)
(* pattern of failing calls.                                               *)
(***************************************************************************)
EXTENDS ServerStartup, WellFoundedInduction, TLAPS

\* While there is a free descriptor, the one that open and socket return is
\* the lowest of them.
LEMMA LowestFdIsFree ==
  ASSUME NEW table, CanOpen(table)
  PROVE  /\ LowestFd(table) \in Fd /\ table[LowestFd(table)].kind = "closed"
         /\ \A n \in Fd : table[n].kind = "closed" => LowestFd(table) <= n
<1>. DEFINE T == {n \in Fd : table[n].kind = "closed"}
            R == {ss \in Nat \X Nat : ss[1] < ss[2]}
<1>1. T \in SUBSET Nat /\ T # {}
  BY MaxFdAssumption DEF CanOpen, Fd
<1>2. IsWellFoundedOn(R, Nat)
  BY NatLessThanWellFounded DEF OpToRel
<1>3. PICK x \in T : \A y \in T : ~(<<y, x>> \in R)
  <2>. HIDE DEF R, T
  <2>. QED  BY <1>1, <1>2, WFMin
<1>4. \A y \in T : x <= y
  <2>. SUFFICES ASSUME NEW y \in T PROVE x <= y
    OBVIOUS
  <2>1. y \in Nat /\ x \in Nat /\ <<y, x>> \notin R
    BY <1>1, <1>3
  <2>2. ~(y < x)
    BY <2>1
  <2>. QED  BY <2>1, <2>2
<1>5. Min(T) \in T /\ \A y \in T : Min(T) <= y
  BY <1>4 DEF Min
<1>. QED  BY <1>5 DEF LowestFd

\* The calls that run after bind, which gives the addresses back.
AfterAddresses ==
  {"fork", "setsid", "chdir", "open_null", "dup2_0", "dup2_1", "dup2_2", "close_null",
   "setup_time_logging", "listen", "serving"}

\* What whoever started the process left in descriptor n.
Inherited(n) == fds[n] = CLOSED \/ (n \in STDIO /\ fds[n] = Std)

\* The socket is the lowest descriptor that was free.
SocketNumber == sock_fd \in STDIO \/ sock_fd = 3

(***************************************************************************)
(* The table while run_daemon works on it, with /dev/null in the numbers   *)
(* below k: of what was there before, only a socket with number 3 is left. *)
(***************************************************************************)
DaemonTable(k) ==
  \A n \in Fd :
    fds[n] = IF n = 3 /\ sock_fd = 3 THEN Sock ELSE IF n < k THEN DevNull ELSE CLOSED

\* The calls that a daemon makes after run_daemon, and every process after bind.
Last == {"setup_time_logging", "listen", "serving"}

(***************************************************************************)
(* Call by call, what is in the table.  It is the whole of it, because     *)
(* which number a new descriptor gets depends on all the others.           *)
(***************************************************************************)
TableInv ==
  /\ pc \in {"mutex_init", "getaddrinfo", "socket"} => \A n \in Fd : Inherited(n)
  /\ \/ pc \in {"setsockopt", "bind", "fork", "setsid", "chdir"}
     \/ pc \in Last /\ ~daemon_mode
     => /\ SocketNumber /\ sock_fd \in Fd /\ fds[sock_fd] = Sock
        /\ \A n \in Fd \ {sock_fd} : Inherited(n)
  /\ pc \in {"fork", "setsid", "chdir", "open_null", "dup2_0", "dup2_1", "dup2_2", "close_null"}
       => daemon_mode
  /\ pc = "open_null" => SocketNumber /\ DaemonTable(0)
  /\ pc \in {"dup2_0", "dup2_1"} => SocketNumber /\ fd = 0 /\ DaemonTable(1)
  /\ pc = "dup2_2" => SocketNumber /\ fd = 0 /\ DaemonTable(2)
  /\ pc = "close_null" => SocketNumber /\ fd = 0 /\ DaemonTable(3)
  /\ pc \in Last /\ daemon_mode =>
       /\ SocketNumber
       /\ \A n \in Fd : fds[n] = IF n = 3 /\ sock_fd = 3 THEN Sock
                                 ELSE IF n \in {1, 2} THEN DevNull ELSE CLOSED
  /\ pc = "serving" => fds[sock_fd] = Sock

\* The inductive invariant.
IInv ==
  /\ TypeOK
  /\ pc \in AfterAddresses => result = "NULL"
  /\ TableInv

\* The kinds are different, and descriptor 0 exists.
LEMMA Kinds ==
  /\ Std # Sock /\ Std # DevNull /\ Std # CLOSED /\ Sock # DevNull /\ Sock # CLOSED
  /\ DevNull # CLOSED
  /\ CLOSED.kind = "closed" /\ Std.kind # "closed" /\ Sock.kind # "closed"
  /\ DevNull.kind # "closed"
  /\ 0 \in Fd /\ MaxFd \in Nat /\ Fd \subseteq Nat
<1>1. Std.kind = "std" /\ Sock.kind = "socket" /\ DevNull.kind = "/dev/null" /\ CLOSED.kind = "closed"
  BY DEF Std, Sock, DevNull, CLOSED
<1>. QED  BY <1>1, MaxFdAssumption DEF Fd

\* The process starts before the first call of main.
LEMMA InitIInv == Init => IInv
<1>. SUFFICES ASSUME Init PROVE IInv
  OBVIOUS
<1>1. fds \in [Fd -> {Std, Sock, DevNull, CLOSED}]
  BY DEF Init
<1>2. sock_fd \in Fd /\ fd \in Fd
  BY MaxFdAssumption DEF Init, Fd
<1>3. \A n \in Fd : Inherited(n)
  BY DEF Init, Inherited
<1>4. TypeOK
  BY <1>1, <1>2 DEF Init, TypeOK, FallibleCalls
<1>5. TableInv
  BY <1>3 DEF Init, TableInv, Last
<1>. QED  BY <1>4, <1>5 DEF Init, IInv, AfterAddresses

\* Opening a descriptor keeps the table well formed.
LEMMA OpenFdType ==
  ASSUME TypeOK, CanOpen(fds), NEW file \in {Sock, DevNull}
  PROVE  /\ OpenFd(fds, file) \in [Fd -> {Std, Sock, DevNull, CLOSED}]
         /\ LowestFd(fds) \in Fd
  BY LowestFdIsFree DEF TypeOK, OpenFd

\* Every call keeps the types and gives the addresses back in time, whether it
\* succeeds or fails.
LEMMA NextTypes ==
  ASSUME IInv, [Next]_vars
  PROVE  TypeOK' /\ (pc' \in AfterAddresses => result' = "NULL")
<1>. USE DEF IInv, AfterAddresses, FallibleCalls, Succeeds
<1>1. CASE UNCHANGED vars
  BY <1>1 DEF vars, build, TypeOK
<1>2. CASE MutexInit
  BY <1>2 DEF MutexInit, TypeOK, build
<1>3. CASE GetAddrInfo
  BY <1>3 DEF GetAddrInfo, TypeOK, build
<1>4. CASE CreateSocket
  BY <1>4, OpenFdType DEF CreateSocket, TypeOK, build
<1>5. CASE SetSockOpt
  BY <1>5 DEF SetSockOpt, TypeOK, build
<1>6. CASE Bind
  BY <1>6 DEF Bind, AfterBind, free_and_nullify_result, TypeOK, build
<1>7. CASE Fork \/ SetSid
  BY <1>7 DEF Fork, SetSid, TypeOK, build
<1>8. CASE ChDir
  BY <1>8 DEF ChDir, TypeOK, build
<1>9. CASE OpenNull
  BY <1>9, OpenFdType DEF OpenNull, TypeOK, build
<1>10. ASSUME NEW n \in STDIO, Dup(n)
       PROVE  TypeOK' /\ (pc' \in AfterAddresses => result' = "NULL")
  <2>1. /\ pc \in {"dup2_0", "dup2_1", "dup2_2"}
        /\ pc' \in {"dup2_1", "dup2_2", "close_null"}
    BY <1>10 DEF Dup, DupLabel, STDIO
  <2>2. fds[fd] \in {Std, Sock, DevNull, CLOSED}
    BY <2>1, Kinds DEF TypeOK, TableInv
  <2>. QED  BY <1>10, <2>1, <2>2 DEF Dup, TypeOK, build
<1>11. CASE CloseNull
  BY <1>11 DEF CloseNull, CloseFd, AfterBind, TypeOK, build
<1>12. CASE setup_time_logging
  BY <1>12 DEF setup_time_logging, TypeOK
<1>13. CASE TimestampsEnd
  BY <1>13 DEF TimestampsEnd, TypeOK
<1>14. CASE Listen
  BY <1>14 DEF Listen, TypeOK, build
<1>15. ASSUME NEW call \in FallibleCalls, Fails(call)
       PROVE  TypeOK' /\ (pc' \in AfterAddresses => result' = "NULL")
  BY <1>15 DEF Fails, TypeOK, build
<1>16. CASE cleanup_on_exit
  BY <1>16 DEF cleanup_on_exit, CloseDataFile, CloseFd, TypeOK, build
<1>17. CASE JoinTimestamps
  BY <1>17 DEF JoinTimestamps, free_and_nullify_result, TypeOK, build
<1>. QED  BY <1>1, <1>2, <1>3, <1>4, <1>5, <1>6, <1>7, <1>8, <1>9, <1>10, <1>11, <1>12,
             <1>13, <1>14, <1>15, <1>16, <1>17 DEF Next

\* The socket gets number 3 unless a standard descriptor was free.
LEMMA SocketTable ==
  ASSUME TypeOK, TableInv, CreateSocket
  PROVE  TableInv'
<1>1. \A n \in Fd : Inherited(n)
  BY DEF TableInv, CreateSocket, Succeeds
<1>. DEFINE s == LowestFd(fds)
<1>2. /\ s \in Fd /\ fds[s].kind = "closed"
      /\ \A n \in Fd : fds[n].kind = "closed" => s <= n
  BY LowestFdIsFree DEF CreateSocket
<1>3. \A n \in Fd : n > 2 => fds[n].kind = "closed"
  BY <1>1, Kinds DEF Inherited, STDIO
<1>4. s \in STDIO \/ s = 3
  BY <1>2, <1>3, MaxFdAssumption DEF Fd, STDIO
<1>5. sock_fd' = s /\ fds' = [fds EXCEPT ![s] = Sock] /\ pc' = "setsockopt"
  BY DEF CreateSocket, OpenFd, Succeeds
<1>. HIDE DEF s
<1>6. fds'[s] = Sock /\ \A n \in Fd \ {s} : fds'[n] = fds[n]
  BY <1>2, <1>5 DEF TypeOK
<1>. QED  BY <1>1, <1>2, <1>4, <1>5, <1>6 DEF TableInv, SocketNumber, Inherited, Last

\* A step that changes neither the table nor the descriptors stored.
LEMMA SameTable ==
  ASSUME TypeOK, TableInv, UNCHANGED <<fds, sock_fd, fd>>,
         \/ UNCHANGED <<pc, daemon_mode>>
         \/ pc \in {"mutex_init", "getaddrinfo"} /\ pc' \in {"getaddrinfo", "socket"}
         \/ pc = "setsockopt" /\ pc' = "bind"
         \/ pc = "bind" /\ daemon_mode /\ daemon_mode' /\ pc' = "fork"
         \/ pc = "bind" /\ ~daemon_mode /\ ~daemon_mode' /\ pc' \in {"setup_time_logging", "listen"}
         \/ pc = "fork" /\ pc' = "setsid" /\ UNCHANGED daemon_mode
         \/ pc = "setsid" /\ pc' = "chdir" /\ UNCHANGED daemon_mode
         \/ pc = "setup_time_logging" /\ pc' = "listen" /\ UNCHANGED daemon_mode
         \/ pc = "listen" /\ pc' = "serving" /\ UNCHANGED daemon_mode /\ fds[sock_fd] = Sock
  PROVE  TableInv'
<1>. USE DEF TableInv, SocketNumber, Inherited, DaemonTable, Last
<1>1. CASE UNCHANGED <<pc, daemon_mode>>
  BY <1>1
<1>2. CASE pc \in {"mutex_init", "getaddrinfo"} /\ pc' \in {"getaddrinfo", "socket"}
  BY <1>2
<1>3. CASE pc = "setsockopt" /\ pc' = "bind"
  BY <1>3
<1>4. CASE pc = "bind" /\ daemon_mode /\ daemon_mode' /\ pc' = "fork"
  BY <1>4
<1>5. CASE pc = "bind" /\ ~daemon_mode /\ ~daemon_mode' /\ pc' \in {"setup_time_logging", "listen"}
  BY <1>5
<1>6. CASE \/ pc = "fork" /\ pc' = "setsid" /\ UNCHANGED daemon_mode
           \/ pc = "setsid" /\ pc' = "chdir" /\ UNCHANGED daemon_mode
  BY <1>6
<1>7. CASE pc = "setup_time_logging" /\ pc' = "listen" /\ UNCHANGED daemon_mode
  BY <1>7
<1>8. CASE pc = "listen" /\ pc' = "serving" /\ UNCHANGED daemon_mode /\ fds[sock_fd] = Sock
  BY <1>8
<1>. QED  BY <1>1, <1>2, <1>3, <1>4, <1>5, <1>6, <1>7, <1>8

\* A call that fails leaves the part of the program that the table is about.
LEMMA FailsTable ==
  ASSUME NEW call \in FallibleCalls, TableInv, Fails(call)
  PROVE  TableInv'
  BY DEF Fails, TableInv, Last

\* run_daemon closes the three, opens /dev/null as 0, copies it to 1 and 2, and
\* closes 0.
LEMMA DaemonSteps ==
  ASSUME TypeOK, TableInv, ChDir \/ OpenNull \/ (\E n \in STDIO : Dup(n)) \/ CloseNull
  PROVE  TableInv'
<1>. USE DEF Succeeds
<1>1. CASE ChDir
  <2>1. pc = "chdir" /\ pc' = "open_null" /\ daemon_mode' /\ SocketNumber /\ sock_fd' = sock_fd
    BY <1>1 DEF ChDir, TableInv
  <2>2. \A n \in Fd : fds'[n] = IF n = 3 /\ sock_fd = 3 THEN Sock ELSE CLOSED
    BY <1>1, Kinds DEF ChDir, TableInv, Inherited, SocketNumber, STDIO
  <2>3. DaemonTable(0)'
    BY <2>1, <2>2, Kinds DEF DaemonTable
  <2>. QED  BY <2>1, <2>3 DEF TableInv, SocketNumber, Last
<1>2. CASE OpenNull
  <2>1. /\ pc = "open_null" /\ pc' = "dup2_0" /\ daemon_mode' /\ SocketNumber
        /\ sock_fd' = sock_fd /\ DaemonTable(0)
    BY <1>2 DEF OpenNull, TableInv
  <2>2. fds[0] = CLOSED
    BY <2>1, Kinds DEF DaemonTable
  <2>3. LowestFd(fds) = 0
    <3>1. LowestFd(fds) \in Nat /\ LowestFd(fds) <= 0
      BY <1>2, <2>2, LowestFdIsFree, Kinds DEF OpenNull
    <3>. QED  BY <3>1
  <2>4. fd' = 0 /\ fds' = [fds EXCEPT ![0] = DevNull]
    BY <1>2, <2>3 DEF OpenNull, OpenFd
  <2>5. DaemonTable(1)'
    BY <2>1, <2>4, Kinds DEF DaemonTable, TypeOK
  <2>. QED  BY <2>1, <2>4, <2>5 DEF TableInv, SocketNumber, Last
<1>3. ASSUME NEW n \in STDIO, Dup(n) PROVE TableInv'
  <2>1. \/ n = 0 /\ pc = "dup2_0" /\ pc' = "dup2_1"
        \/ n = 1 /\ pc = "dup2_1" /\ pc' = "dup2_2"
        \/ n = 2 /\ pc = "dup2_2" /\ pc' = "close_null"
    BY <1>3 DEF Dup, DupLabel, STDIO
  <2>2. /\ daemon_mode' /\ SocketNumber /\ sock_fd' = sock_fd /\ fd = 0 /\ fd' = 0
        /\ fds' = [fds EXCEPT ![n] = fds[0]]
    BY <1>3, <2>1 DEF Dup, TableInv
  <2>3. n = 0 => DaemonTable(1) /\ DaemonTable(1)'
    BY <2>1, <2>2, Kinds DEF DaemonTable, TableInv, TypeOK
  <2>4. n = 1 => DaemonTable(1) /\ DaemonTable(2)'
    BY <2>1, <2>2, Kinds DEF DaemonTable, TableInv, TypeOK
  <2>5. n = 2 => DaemonTable(2) /\ DaemonTable(3)'
    BY <2>1, <2>2, Kinds DEF DaemonTable, TableInv, TypeOK
  <2>. QED  BY <2>1, <2>2, <2>3, <2>4, <2>5 DEF TableInv, SocketNumber, Last
<1>4. CASE CloseNull
  <2>1. /\ pc = "close_null" /\ pc' \in {"setup_time_logging", "listen"} /\ daemon_mode'
        /\ SocketNumber /\ sock_fd' = sock_fd /\ DaemonTable(3) /\ fd = 0
    BY <1>4 DEF CloseNull, TableInv, AfterBind
  <2>2. fds' = [fds EXCEPT ![0] = CLOSED]
    BY <1>4, <2>1, Kinds DEF CloseNull, CloseFd
  <2>3. \A n \in Fd : fds'[n] = IF n = 3 /\ sock_fd = 3 THEN Sock
                                ELSE IF n \in {1, 2} THEN DevNull ELSE CLOSED
    BY <2>1, <2>2, Kinds DEF DaemonTable, TypeOK
  <2>. QED  BY <2>1, <2>3 DEF TableInv, SocketNumber, Last
<1>. QED  BY <1>1, <1>2, <1>3, <1>4

\* Every call preserves the invariant.
LEMMA NextIInv == IInv /\ [Next]_vars => IInv'
<1>. SUFFICES ASSUME IInv, [Next]_vars PROVE TableInv'
  BY NextTypes DEF IInv
<1>0. TypeOK /\ TableInv
  BY DEF IInv
<1>. USE DEF Succeeds
<1>1. CASE UNCHANGED vars \/ TimestampsEnd
  BY <1>0, <1>1, SameTable DEF vars, TimestampsEnd
<1>2. CASE MutexInit \/ GetAddrInfo
  BY <1>0, <1>2, SameTable DEF MutexInit, GetAddrInfo
<1>3. CASE CreateSocket
  BY <1>0, <1>3, SocketTable
<1>4. CASE SetSockOpt \/ Fork \/ SetSid
  BY <1>0, <1>4, SameTable DEF SetSockOpt, Fork, SetSid
<1>5. CASE Bind
  BY <1>0, <1>5, SameTable DEF Bind, AfterBind, TypeOK
<1>6. CASE ChDir \/ OpenNull \/ (\E n \in STDIO : Dup(n)) \/ CloseNull
  BY <1>0, <1>6, DaemonSteps
<1>7. CASE setup_time_logging \/ Listen
  BY <1>0, <1>7, SameTable DEF setup_time_logging, Listen
<1>8. ASSUME NEW call \in FallibleCalls, Fails(call) PROVE TableInv'
  BY <1>0, <1>8, FailsTable
<1>9. CASE cleanup_on_exit \/ JoinTimestamps
  BY <1>9 DEF cleanup_on_exit, JoinTimestamps, TableInv, Last
<1>. QED  BY <1>1, <1>2, <1>3, <1>4, <1>5, <1>6, <1>7, <1>8, <1>9 DEF Next

(***************************************************************************)
(* Type correctness: every descriptor the process stores is one of its     *)
(* table or the -1 of a socket or an open that failed, and result is NULL  *)
(* or a list that is still allocated.                                      *)
(***************************************************************************)
THEOREM TypeCorrect == Spec => []TypeOK
<1>1. IInv => TypeOK
  BY DEF IInv
<1>. QED  BY <1>1, InitIInv, NextIInv, PTL DEF Spec

(***************************************************************************)
(* Whatever the size of the table, whichever standard descriptors were     *)
(* closed and whichever calls fail, a process that gets to its accept loop *)
(* is in the state from which AesdSocket starts.                           *)
(***************************************************************************)
THEOREM BeginsRight == Spec => []BeginsAsAssumed
<1>1. IInv => BeginsAsAssumed
  <2>. SUFFICES ASSUME IInv, pc = "serving", daemon_mode \/ \A n \in STDIO : fds[n] = Std
                PROVE  /\ sock_fd = 3
                       /\ fds = AcceptTable(daemon_mode, IF daemon_mode THEN DevNull ELSE Std, Sock)
                       /\ result = "NULL"
    BY DEF BeginsAsAssumed
  <2>1. result = "NULL" /\ TypeOK /\ TableInv
    BY DEF IInv, AfterAddresses
  <2>2. SocketNumber /\ fds[sock_fd] = Sock
    BY <2>1 DEF TableInv, Last
  <2>. DEFINE std == IF daemon_mode THEN DevNull ELSE Std
  <2>5. ASSUME sock_fd = 3,
               \A n \in Fd : fds[n] = IF n = 3 THEN Sock
                                      ELSE IF n \in (IF daemon_mode THEN 1 ELSE 0) .. 2 THEN std
                                      ELSE CLOSED
        PROVE  fds = AcceptTable(daemon_mode, std, Sock)
    <3>1. \A n \in Fd : fds[n] = AcceptTable(daemon_mode, std, Sock)[n]
      BY <2>5, Kinds DEF AcceptTable
    <3>2. fds = [n \in Fd |-> fds[n]]
      BY <2>1 DEF TypeOK
    <3>3. AcceptTable(daemon_mode, std, Sock) = [n \in Fd |-> AcceptTable(daemon_mode, std, Sock)[n]]
      BY DEF AcceptTable
    <3>. QED  BY <3>1, <3>2, <3>3, Zenon
  <2>3. CASE daemon_mode
    <3>1. \A n \in Fd : fds[n] = IF n = 3 /\ sock_fd = 3 THEN Sock
                                 ELSE IF n \in {1, 2} THEN DevNull ELSE CLOSED
      BY <2>1, <2>3 DEF TableInv, Last
    <3>2. sock_fd = 3
      <4>1. ASSUME sock_fd \in STDIO PROVE FALSE
        <5>1. sock_fd \in 0 .. 2 /\ sock_fd # 3
          BY <4>1 DEF STDIO
        <5>2. sock_fd \in Fd \cup {ERROR}
          BY <2>1 DEF TypeOK
        <5>3. sock_fd \in Fd
          BY <5>1, <5>2 DEF ERROR
        <5>. QED  BY <2>2, <3>1, <5>1, <5>3, Kinds
      <4>. QED  BY <2>2, <4>1 DEF SocketNumber
    <3>3. \A n \in Fd : n \in {1, 2} <=> n \in 1 .. 2
      BY Kinds
    <3>. QED  BY <2>1, <2>3, <2>5, <3>1, <3>2, <3>3
  <2>4. CASE ~daemon_mode
    <3>1. /\ sock_fd \in Fd
          /\ \A n \in Fd \ {sock_fd} : Inherited(n)
      BY <2>1, <2>4 DEF TableInv, Last
    <3>2. sock_fd = 3
      BY <2>2, <2>4, Kinds DEF SocketNumber
    <3>3. \A n \in Fd : n # 3 /\ n \notin STDIO => fds[n] = CLOSED
      BY <3>1, <3>2 DEF Inherited
    <3>. QED  BY <2>1, <2>2, <2>4, <2>5, <3>2, <3>3 DEF STDIO
  <2>. QED  BY <2>1, <2>3, <2>4
<1>. QED  BY <1>1, InitIInv, NextIInv, PTL DEF Spec

=============================================================================
