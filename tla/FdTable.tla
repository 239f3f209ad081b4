------------------------------ MODULE FdTable -------------------------------
(***************************************************************************)
(* The file descriptors of a process, as the system calls in src/server    *)
(* use them: a new descriptor is the lowest free number, and the same      *)
(* number can stand for something else after a close.                      *)
(***************************************************************************)
EXTENDS Integers, FiniteSetsExt

CONSTANT MaxFd   \* bound on the number of descriptors

ASSUME MaxFdAssumption == MaxFd \in Nat

Fd == 0 .. MaxFd

ERROR == -1   \* what the calls that make a descriptor return when they fail

CLOSED == [kind |-> "closed"]

IsOpen(fds, fd) == fd \in Fd /\ fds[fd].kind # "closed"

CanOpen(fds) == \E fd \in Fd : fds[fd].kind = "closed"

LowestFd(fds) == Min({fd \in Fd : fds[fd].kind = "closed"})

OpenFd(fds, file) == [fds EXCEPT ![LowestFd(fds)] = file]

\* close of a descriptor that is not open fails with EBADF and does nothing.
CloseFd(fds, fd) == IF fd \in Fd THEN [fds EXCEPT ![fd] = CLOSED] ELSE fds

(***************************************************************************)
(* The table with which main_socket_application goes into its accept loop: *)
(* the socket is descriptor 3, and a daemon has lost descriptor 0, which   *)
(* run_daemon closes last.  AesdSocket starts with it; that the start of   *)
(* the server arrives there is ServerStartup's BeginsAsAssumed.            *)
(***************************************************************************)
AcceptTable(daemon, std, socket) ==
  [n \in Fd |-> CASE n = 3 -> socket
                  [] n \in (IF daemon THEN 1 ELSE 0) .. 2 -> std
                  [] OTHER -> CLOSED]

=============================================================================
