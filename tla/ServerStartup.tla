--------------------------- MODULE ServerStartup ----------------------------
(***************************************************************************)
(* How server/aesdsocket.c gets to its accept loop: main, the calls of     *)
(* main_socket_application up to listen, run_daemon between bind and       *)
(* listen, and cleanup_on_exit when one of them fails.  In daemon mode the *)
(* process is the child from fork on; the parent only exits.               *)
(***************************************************************************)
EXTENDS FdTable, Sequences

VARIABLES pc,            \* the call the process makes next
          use_aesd_char_device,   \* the build
          daemon_mode,
          fds, sock_fd,
          fd,            \* run_daemon's descriptor of /dev/null
          result,        \* the list getaddrinfo returned
          timestamps     \* the timestamp thread

build == <<use_aesd_char_device, timestamps>>
vars  == <<pc, build, daemon_mode, fds, sock_fd, fd, result>>

Std     == [kind |-> "std"]
Sock    == [kind |-> "socket"]
DevNull == [kind |-> "/dev/null"]

STDIO == 0 .. 2

\* dataFileDescriptor is a global nobody has assigned yet.
dataFileDescriptor == 0

\* A process is normally started with its three standard descriptors open, but
\* whoever starts it may have closed some.
Init ==
  /\ pc = "mutex_init"
  /\ daemon_mode = FALSE
  /\ \E open \in SUBSET STDIO : fds = [n \in Fd |-> IF n \in open THEN Std ELSE CLOSED]
  /\ sock_fd = 0
  /\ fd = 0
  /\ result = "NULL"
  /\ use_aesd_char_device \in BOOLEAN
  /\ timestamps = "none"

\* A call that can fail: main_socket_application then cleans up and returns.
\* socket and open have stored their -1 by then.
Fails(call) ==
  /\ pc = call
  /\ pc' = IF call = "mutex_init" THEN "exited" ELSE "cleanup"
  /\ sock_fd' = IF call = "socket" THEN ERROR ELSE sock_fd
  /\ fd' = IF call = "open_null" THEN ERROR ELSE fd
  /\ UNCHANGED <<build, daemon_mode, fds, result>>

AfterBind == IF use_aesd_char_device THEN "listen" ELSE "setup_time_logging"

Succeeds(call, next) == pc = call /\ pc' = next

MutexInit ==
  /\ Succeeds("mutex_init", "getaddrinfo")
  /\ daemon_mode' \in BOOLEAN      \* whether getopt finds a -d
  /\ UNCHANGED <<build, fds, sock_fd, fd, result>>

GetAddrInfo ==
  /\ Succeeds("getaddrinfo", "socket")
  /\ result' = "allocated"
  /\ UNCHANGED <<build, daemon_mode, fds, sock_fd, fd>>

CreateSocket ==
  /\ Succeeds("socket", "setsockopt")
  /\ CanOpen(fds)
  /\ fds' = OpenFd(fds, Sock)
  /\ sock_fd' = LowestFd(fds)
  /\ UNCHANGED <<build, daemon_mode, fd, result>>

SetSockOpt ==
  /\ Succeeds("setsockopt", "bind")
  /\ UNCHANGED <<build, daemon_mode, fds, sock_fd, fd, result>>

\* Mutant: the pointer is not set to NULL.
freeaddrinfoOnly == IF result = "allocated" THEN "freed" ELSE result

free_and_nullify_result == "NULL"

Bind ==
  /\ Succeeds("bind", IF daemon_mode THEN "fork" ELSE AfterBind)
  /\ result' = free_and_nullify_result
  /\ UNCHANGED <<build, daemon_mode, fds, sock_fd, fd>>

(***************************************************************************)
(* run_daemon.                                                             *)
(***************************************************************************)
Fork ==
  /\ Succeeds("fork", "setsid")
  /\ UNCHANGED <<build, daemon_mode, fds, sock_fd, fd, result>>

SetSid ==
  /\ Succeeds("setsid", "chdir")
  /\ UNCHANGED <<build, daemon_mode, fds, sock_fd, fd, result>>

ChDir ==
  /\ Succeeds("chdir", "open_null")
  /\ fds' = [n \in Fd |-> IF n \in STDIO THEN CLOSED ELSE fds[n]]
  /\ UNCHANGED <<build, daemon_mode, sock_fd, fd, result>>

OpenNull ==
  /\ Succeeds("open_null", "dup2_0")
  /\ CanOpen(fds)
  /\ fds' = OpenFd(fds, DevNull)
  /\ fd' = LowestFd(fds)
  /\ UNCHANGED <<build, daemon_mode, sock_fd, result>>

DupLabel == [n \in STDIO |-> CASE n = 0 -> "dup2_0" [] n = 1 -> "dup2_1" [] n = 2 -> "dup2_2"]

Dup(n) ==
  /\ Succeeds(DupLabel[n], IF n = 2 THEN "close_null" ELSE DupLabel[n + 1])
  /\ fds' = [fds EXCEPT ![n] = fds[fd]]
  /\ UNCHANGED <<build, daemon_mode, sock_fd, fd, result>>

CloseNull ==
  /\ Succeeds("close_null", AfterBind)
  /\ fds' = CloseFd(fds, fd)
  /\ UNCHANGED <<build, daemon_mode, sock_fd, fd, result>>

(***************************************************************************)
(* setup_time_logging does not notice that pthread_create failed.  The     *)
(* thread writes to dataFileDescriptor every ten seconds and returns when  *)
(* that fails.                                                             *)
(***************************************************************************)
setup_time_logging ==
  /\ Succeeds("setup_time_logging", "listen")
  /\ timestamps' \in {"none", "running"}
  /\ UNCHANGED <<use_aesd_char_device, daemon_mode, fds, sock_fd, fd, result>>

TimestampsEnd ==
  /\ timestamps = "running" /\ ~IsOpen(fds, dataFileDescriptor)
  /\ timestamps' = "returned"
  /\ UNCHANGED <<pc, use_aesd_char_device, daemon_mode, fds, sock_fd, fd, result>>

\* Mutant: the result of listen is not looked at.
ListenUnchecked ==
  /\ Succeeds("listen", "serving")
  /\ UNCHANGED <<build, daemon_mode, fds, sock_fd, fd, result>>

Listen ==
  /\ Succeeds("listen", "serving")
  /\ fds[sock_fd] = Sock
  /\ UNCHANGED <<build, daemon_mode, fds, sock_fd, fd, result>>

(***************************************************************************)
(* cleanup_on_exit.  None of the flags socket_open, client_fd_open and     *)
(* log_open is ever set, so what they guard never happens.                 *)
(***************************************************************************)
\* Mutant: the file is closed last, once the timestamp thread has been joined.
CloseDataFileLate == fds

CloseDataFile == CloseFd(fds, dataFileDescriptor)

cleanup_on_exit ==
  /\ pc = "cleanup"
  /\ fds' = CloseDataFile
  /\ pc' = "join"
  /\ UNCHANGED <<build, daemon_mode, sock_fd, fd, result>>

\* The plain file's build joins the timestamp thread.  pthread_join of one that
\* was never created may do anything.
JoinTimestamps ==
  /\ pc = "join"
  /\ use_aesd_char_device \/ timestamps # "running"
  /\ pc' \in {"exited"} \cup {crash \in {"SIGSEGV"} :
                              ~use_aesd_char_device /\ timestamps = "none"}
  /\ result' = free_and_nullify_result
  /\ UNCHANGED <<build, daemon_mode, fds, sock_fd, fd>>

FallibleCalls == {"mutex_init", "getaddrinfo", "socket", "setsockopt", "bind", "fork", "setsid",
                  "chdir", "open_null", "dup2_0", "dup2_1", "dup2_2", "listen"}

Next ==
  \/ MutexInit \/ GetAddrInfo \/ CreateSocket \/ SetSockOpt \/ Bind
  \/ Fork \/ SetSid \/ ChDir \/ OpenNull \/ (\E n \in STDIO : Dup(n)) \/ CloseNull
  \/ setup_time_logging \/ TimestampsEnd \/ Listen
  \/ \E call \in FallibleCalls : Fails(call)
  \/ cleanup_on_exit \/ JoinTimestamps

Spec == Init /\ [][Next]_vars

FairSpec == Spec /\ WF_vars(Next)

-----------------------------------------------------------------------------
TypeOK ==
  /\ pc \in FallibleCalls 
              \cup {"close_null", "setup_time_logging", "serving", "cleanup", "join", "exited",
                    "SIGSEGV"}
  /\ use_aesd_char_device \in BOOLEAN /\ daemon_mode \in BOOLEAN
  /\ timestamps \in {"none", "running", "returned"}
  /\ fds \in [Fd -> {Std, Sock, DevNull, CLOSED}]
  /\ sock_fd \in Fd \cup {ERROR} /\ fd \in Fd \cup {ERROR}
  /\ result \in {"NULL", "allocated"}

(***************************************************************************)
(* The accept loop begins in the state that AesdSocket's Init assumes, and *)
(* with the addresses given back.  A daemon that gets there does so        *)
(* whichever standard descriptors it was started without: a socket that    *)
(* took the number of one of them is lost to run_daemon's close and dup2,  *)
(* and listen then fails.  Without -d the three have to be open.           *)
(***************************************************************************)
BeginsAsAssumed ==
  pc = "serving" /\ (daemon_mode \/ \A n \in STDIO : fds[n] = Std) =>
    /\ sock_fd = 3
    /\ fds = AcceptTable(daemon_mode, IF daemon_mode THEN DevNull ELSE Std, Sock)
    /\ result = "NULL"

(***************************************************************************)
(* The program ends up serving or gives up; it never stops half way, also  *)
(* when it has to wait for the timestamp thread: closing the data file is  *)
(* what makes that thread return.  Only the build that joins a thread it   *)
(* has not created may crash instead.                                      *)
(***************************************************************************)
Settles ==
  <>(pc \in {"serving", "exited"} \/ (pc = "SIGSEGV" /\ timestamps = "none"))

=============================================================================
