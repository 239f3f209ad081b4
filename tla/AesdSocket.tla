----------------------------- MODULE AesdSocket -----------------------------
(***************************************************************************)
(* The socket server of server/aesdsocket.c: a main thread that accepts    *)
(* connections, one thread per connection that stores what the client      *)
(* sends in DATA_FILE and sends the contents back, and a signal handler    *)
(* that cleans up on whatever thread the signal hits.  As the repository   *)
(* has it (USE_AESD_CHAR_DEVICE) the data file is /dev/aesdchar; without   *)
(* the macro it is a plain file, to which one more thread adds timestamps. *)
(*                                                                         *)
(* The threads share the descriptor dataFileDescriptor, which each of them *)
(* sets, uses and closes without holding the mutex; so the descriptor      *)
(* table is explicit (FdTable).  The device is AesdDevice.                 *)
(***************************************************************************)
EXTENDS AesdDevice, PlainFile, FdTable

CONSTANTS Client,      \* one connection each
          main,        \* the main thread
          timestamps,  \* the timestamp thread
          ThreadId,    \* pthread_t values
          CachedStacks, \* how many stacks of joined threads the C library keeps mapped
          Script,      \* what each client sends: a sequence of packets
          Rude,        \* the clients that may hang up at any time
          Arrival,     \* when a client may connect: see MayConnect
          Scenario,    \* the builds and events to look at: see ServerAssumption
          Faults,      \* which calls may fail
          DESTROYED,   \* the state of a mutex after pthread_mutex_destroy
          BUF_LEN,
          UintWidth,   \* the number of bits of a uint32_t
          Timestamp    \* the line log_timestamps writes

FaultKinds == {"accept", "malloc", "pthread_create", "open", "recv", "write", "read", "clock"}

(***************************************************************************)
(* A packet is what one recv returns: its bytes and, if they start with    *)
(* AESDCHAR_IOCSEEKTO:, the numbers sscanf may store in the aesd_seekto    *)
(* (more than one when they are missing from the packet, because the       *)
(* structure is not initialised).                                          *)
(***************************************************************************)
Packet == [data : Seq(Int), seekto : SUBSET [write_cmd : Int, write_cmd_offset : Int]]

NoPacket == [data |-> << >>, seekto |-> {}]

ASSUME ServerAssumption ==
  /\ main \notin Client /\ timestamps \notin Client \cup {main}
  /\ DESTROYED \notin Client \cup {main, timestamps}
  /\ NULL \notin Client \cup {DESTROYED, main, timestamps}
  /\ CachedStacks \in Nat
  /\ BUF_LEN \in Nat \ {0} /\ UintWidth \in Nat /\ 2 ^ UintWidth \in Nat \ {0}
  /\ (\A c \in Client : Script[c] \in Seq(Packet)) /\ Timestamp \in Seq(Int)
  /\ Scenario \subseteq
       [DATA_FILE : {"/dev/aesdchar", "/var/tmp/aesdsocketdata"},
        daemon    : BOOLEAN,
        signals   : SUBSET {"SIGINT", "SIGTERM"},   \* what the process is sent, each once
        ticks     : Nat]                            \* bound on the number of timestamps
  /\ Rude \subseteq Client
  /\ Arrival \in {"any", "serial", "alone"}
  /\ Faults \subseteq FaultKinds

VARIABLES fds, dataFileDescriptor, lock, dev,
          head, node, memory, isThreadComplete,   \* the list and its nodes
          pc, iter,                               \* main's place, and its loop variable
          fd, threadId, joined,                   \* per connection thread: its clientSocketFd...
          ticks,                                  \* number of timestamps still to come
          receive_buffer, received, send_buffer,  \*   and its locals
          fatal_error_in_progress,
          unsent, handler, spinning,              \* the signal handlers at work
          syslog_lock,                            \* the C library's lock in syslog
          proc,                                   \* how the process ended
          peer, inbox, reply                      \* the clients

Thread == Client \cup {main, timestamps}

files   == <<fds, dataFileDescriptor>>
nodes   == <<head, node, memory, isThreadComplete>>
threads == <<fd, threadId, joined, ticks>>
locals  == <<receive_buffer, received, send_buffer>>
signals == <<fatal_error_in_progress, unsent, handler, spinning, syslog_lock>>
net     == <<peer, inbox, reply>>
vars == <<files, lock, dev, nodes, pc, iter, threads, locals, signals, proc, net>>

(***************************************************************************)
(* Open files.  A data file remembers the thread that opened it, so that   *)
(* properties can tell whose it is.                                        *)
(***************************************************************************)
Std          == [kind |-> "std"]
Listening    == [kind |-> "listening"]
Connection(c) == [kind |-> "client", who |-> c]
DataFile(c, flags, inode) ==
  [kind |-> "data", flags |-> flags, pos |-> 0, by |-> c, inode |-> inode]

Target == IF IsOpen(fds, dataFileDescriptor) THEN fds[dataFileDescriptor] ELSE CLOSED
Socket(c) == IF IsOpen(fds, fd[c]) THEN fds[fd[c]] ELSE CLOSED

SetPos(pos) == [fds EXCEPT ![dataFileDescriptor].pos = pos]

\* dev is the device or the file, by which one tells the builds apart.
use_aesd_char_device == "buffer" \in DOMAIN dev

DataContents ==
  IF use_aesd_char_device THEN DeviceStream(dev) ELSE dev.contents[dev.linked]

\* The steps that begin with a call of syslog (those on an error path aside).
Logging == {"start", "complete", "cl_close", "cl_end", "shutdown", "reap_log", "start_t"}

\* A thread runs its own code only while no signal handler interrupts it.
Runs(t, label) ==
  /\ proc = "running"
  /\ handler[t] = "none" /\ ~spinning[t]
  /\ pc[t] = label
  /\ label \in Logging => syslog_lock = NULL

Goto(t, label) == pc' = [pc EXCEPT ![t] = label]

-----------------------------------------------------------------------------
(***************************************************************************)
(* The clients, which the code does not control.                           *)
(***************************************************************************)
Finished == {"done", "failed"}

\* "any": clients connect when they like.  "serial": each waits until the server
\* has closed every earlier connection.  "alone": until their threads are gone.
MayConnect(c) ==
  \A d \in Client \ {c} : peer[d] = "away" \/
    CASE Arrival = "any"    -> TRUE
      [] Arrival = "serial" -> pc[d] # "none" /\ \A n \in Fd : fds[n] # Connection(d)
      [] Arrival = "alone"  -> pc[d] \in Finished

Connect(c) ==
  /\ proc = "running"
  /\ peer[c] = "away"
  /\ MayConnect(c)
  /\ peer' = [peer EXCEPT ![c] = "queued"]
  /\ inbox' = [inbox EXCEPT ![c] = Script[c]]
  /\ UNCHANGED <<files, lock, dev, nodes, pc, iter, threads, locals, signals,
                 proc, reply>>

HangUp(c) ==
  /\ proc = "running"
  /\ c \in Rude
  /\ peer[c] \in {"queued", "connected"}
  /\ peer' = [peer EXCEPT ![c] = "gone"]
  /\ UNCHANGED <<files, lock, dev, nodes, pc, iter, threads, locals, signals,
                 proc, inbox, reply>>

-----------------------------------------------------------------------------
(***************************************************************************)
(* accept_and_log_client, on the main thread.  The loop's condition is     *)
(* tested before accept blocks, so a client may still get in between the   *)
(* handler setting fatal_error_in_progress and its shutdown of the socket. *)
(***************************************************************************)
signal_caught == \E t \in Thread : handler[t] \notin {"none", "flag", "shutdown"}

Accept(c) ==
  /\ Runs(main, "accept")
  /\ ~signal_caught
  /\ CanOpen(fds)
  /\ peer[c] # "away" /\ fd[c] = ERROR
  /\ fds' = OpenFd(fds, Connection(c))
  /\ fd' = [fd EXCEPT ![c] = LowestFd(fds)]
  /\ peer' = [peer EXCEPT ![c] = IF @ = "queued" THEN "connected" ELSE @]
  /\ iter' = c
  /\ Goto(main, "spawn")
  /\ UNCHANGED <<dataFileDescriptor, lock, dev, nodes, threadId, joined, ticks, locals,
                 signals, proc, inbox, reply>>

\* The loop ends, or accept fails: after the handler's shutdown, because no
\* descriptor is left, or for a reason of its own.
StopAccepting ==
  /\ Runs(main, "accept")
  /\ Goto(main, "cl_close")
  /\ UNCHANGED <<files, lock, dev, nodes, iter, threads, locals, signals, proc,
                 net>>

AcceptStops == (fatal_error_in_progress \/ ~CanOpen(fds)) /\ StopAccepting
AcceptFails == "accept" \in Faults /\ StopAccepting

\* A pthread_t is free again once its thread has been joined.
FreeIds == {id \in ThreadId : \A c \in Client : threadId[c] = id => joined[c]}

\* pthread_create returns a positive number when it fails, which the code does
\* not recognise: the node is used as if the thread existed.
Spawn ==
  LET c == iter
  IN  /\ Runs(main, "spawn")
      /\ \/ /\ memory' = [memory EXCEPT ![c] = "live"]
            /\ isThreadComplete' = [isThreadComplete EXCEPT ![c] = FALSE]
            /\ \/ \E id \in FreeIds :
                    /\ threadId' = [threadId EXCEPT ![c] = id]
                    /\ pc' = [pc EXCEPT ![main] = "insert", ![c] = "start"]
               \/ /\ "pthread_create" \in Faults
                  /\ Goto(main, "insert")
                  /\ UNCHANGED threadId
         \/ /\ "malloc" \in Faults
            /\ Goto(main, "cl_close")
            /\ UNCHANGED <<memory, isThreadComplete, threadId>>
      /\ UNCHANGED <<files, lock, dev, head, node, iter, fd, joined, ticks,
                     locals, signals, proc, net>>

\* Mutant: the list is started anew.
InsertResets ==
  /\ Runs(main, "insert")
  /\ head' = <<iter>>
  /\ Goto(main, "reap")
  /\ UNCHANGED <<files, lock, dev, node, memory, isThreadComplete, iter, threads,
                 locals, signals, proc, net>>

Insert ==
  /\ Runs(main, "insert")
  /\ head' = <<iter>> \o head
  /\ Goto(main, "reap")
  /\ UNCHANGED <<files, lock, dev, node, memory, isThreadComplete, iter, threads,
                 locals, signals, proc, net>>

(***************************************************************************)
(* SLIST_NEXT: the node after c, NULL at the end of the list.  A node that *)
(* a cleanup has taken off the front still points to the one after it.     *)
(***************************************************************************)
NextNode(c) ==
  LET i == IF Contains(head, c) THEN SelectInSeq(head, LAMBDA d : d = c) ELSE 0
  IN  IF i < Len(head) THEN head[i + 1] ELSE NULL

\* The thread pthread_join(threadId[c]) would wait for.
JoinTarget(c) == {d \in Client : threadId[d] = threadId[c] /\ threadId[d] # NULL /\ ~joined[d]}

\* The pthread_t of a joined thread points into its stack.  The C library keeps
\* a few of those stacks for new threads and unmaps the others.
StacksGone == Cardinality({threadId[d] : d \in {d \in Client : joined[d]}}) > CachedStacks

(***************************************************************************)
(* One round of the SLIST_FOREACH.  Nodes stay on the list after they have *)
(* been joined, so later rounds join them again, which is undefined.  If   *)
(* the pthread_t is another thread's by now, main waits for that one; else *)
(* pthread_join fails, with a positive number that the code does not take  *)
(* for an error, or crashes because the stack is gone.                     *)
(***************************************************************************)
Reap ==
  LET c == iter
  IN  /\ Runs(main, "reap")
      /\ \/ /\ c = NULL
            /\ Goto(main, "accept")
            /\ UNCHANGED <<iter, joined, proc>>
         \/ /\ c # NULL
            /\ ~isThreadComplete[c]
            /\ iter' = NextNode(c)
            /\ UNCHANGED <<pc, joined, proc>>
         \/ /\ c # NULL
            /\ isThreadComplete[c] /\ JoinTarget(c) = {}
            /\ proc' \in {proc} \cup {crash \in {"SIGSEGV"} : StacksGone}
            /\ Goto(main, "reap_log")
            /\ UNCHANGED <<iter, joined>>
         \/ /\ c # NULL
            /\ isThreadComplete[c]
            /\ \E d \in JoinTarget(c) :
                 /\ pc[d] \in Finished
                 /\ joined' = [joined EXCEPT ![d] = TRUE]
                 /\ Goto(main, IF pc[d] = "done" THEN "reap_log" ELSE "cl_close")
            /\ UNCHANGED <<iter, proc>>
      /\ UNCHANGED <<files, lock, dev, nodes, fd, threadId, ticks, locals, signals, net>>

\* main logs the join and goes on to the next node.
ReapLog ==
  /\ Runs(main, "reap_log")
  /\ iter' = NextNode(iter)
  /\ Goto(main, "reap")
  /\ UNCHANGED <<files, lock, dev, nodes, threads, locals, signals, proc, net>>

-----------------------------------------------------------------------------
(***************************************************************************)
(* client_data_handler, on the thread of connection c.                     *)
(***************************************************************************)
ClientStart(c) ==
  /\ Runs(c, "start")
  /\ Goto(c, "recv")
  /\ UNCHANGED <<files, lock, dev, nodes, iter, threads, locals, signals, proc, net>>

ioctl_check(c) == receive_buffer[c].seekto # {}

\* recv: a packet, 0 bytes when the peer has hung up (the buffer then keeps what
\* it held), or an error.
Recv(c) ==
  LET sock == Socket(c)
      d    == sock.who
  IN  /\ Runs(c, "recv")
      /\ \/ /\ sock.kind = "client"
            /\ inbox[d] # << >>
            /\ receive_buffer' = [receive_buffer EXCEPT ![c] = Head(inbox[d])]
            /\ received' = [received EXCEPT ![c] = Head(inbox[d]).data]
            /\ inbox' = [inbox EXCEPT ![d] = Tail(@)]
            /\ Goto(c, IF Head(inbox[d]).seekto # {} THEN "seek_open" ELSE "open_w")
         \/ /\ sock.kind = "client"
            /\ inbox[d] = << >> /\ peer[d] = "gone"
            /\ received' = [received EXCEPT ![c] = << >>]
            /\ Goto(c, IF ioctl_check(c) THEN "seek_open" ELSE "open_w")
            /\ UNCHANGED <<receive_buffer, inbox>>
         \/ /\ \/ sock.kind # "client"
               \/ sock.kind = "client" /\ peer[d] = "gone"
            /\ Goto(c, "failed")
            /\ UNCHANGED <<receive_buffer, received, inbox>>
      /\ UNCHANGED <<files, lock, dev, nodes, iter, threads, send_buffer,
                     signals, proc, peer, reply>>

RecvFails(c) ==
  /\ Runs(c, "recv")
  /\ "recv" \in Faults
  /\ Goto(c, "failed")
  /\ UNCHANGED <<files, lock, dev, nodes, iter, threads, locals, signals, proc, net>>

\* open(DATA_FILE, ...) into the global descriptor, "rw" with O_CREAT: ok is where
\* the thread goes on when it succeeds, bad where when it fails.
OpenDataFile(c, flags, ok, bad) ==
  LET file   == IF ~use_aesd_char_device /\ flags = "rw" THEN Create(dev) ELSE dev
      inode  == IF use_aesd_char_device THEN 0 ELSE file.linked
      exists == use_aesd_char_device \/ inode # 0
  IN  /\ \/ /\ CanOpen(fds) /\ exists
            /\ fds' = OpenFd(fds, DataFile(c, flags, inode))
            /\ dataFileDescriptor' = LowestFd(fds)
            /\ dev' = file
            /\ Goto(c, ok)
         \/ /\ ~CanOpen(fds) \/ ~exists \/ "open" \in Faults
            /\ dataFileDescriptor' = ERROR
            /\ Goto(c, bad)
            /\ UNCHANGED <<fds, dev>>
      /\ UNCHANGED <<lock, nodes, iter, threads, locals, signals, proc, net>>

SeekOpen(c) == Runs(c, "seek_open") /\ OpenDataFile(c, "rw", "ioctl", "failed")

\* Where the answer begins: a plain file is rewound first.
Answer == IF use_aesd_char_device THEN "lock_r" ELSE "lseek"

AfterChunk(c) ==
  IF ~Contains(received[c], NewLine) THEN "recv"
  ELSE IF ioctl_check(c) THEN Answer ELSE "open_r"

\* Mutant: the fields of struct aesd_seekto are signed.
uint32_tSigned(n) == n

uint32_t(n) == n % 2 ^ UintWidth

\* The result of ioctl is only logged.  A plain file does not know the request.
Ioctl(c) ==
  /\ Runs(c, "ioctl")
  /\ \/ /\ Target.kind = "data" /\ use_aesd_char_device
        /\ \E seekto \in receive_buffer[c].seekto :
             fds' = SetPos(DeviceSeekto(dev, Target.pos,
                      [cmd              |-> "AESDCHAR_IOCSEEKTO",
                       write_cmd        |-> uint32_t(seekto.write_cmd),
                       write_cmd_offset |-> uint32_t(seekto.write_cmd_offset)]))
     \/ /\ Target.kind # "data" \/ ~use_aesd_char_device
        /\ fds' = fds
  /\ Goto(c, AfterChunk(c))
  /\ UNCHANGED <<dataFileDescriptor, lock, dev, nodes, iter, threads, locals,
                 signals, proc, net>>

\* A descriptor that could not be opened is used all the same.
WriteOpen(c) == Runs(c, "open_w") /\ OpenDataFile(c, "rw", "lock_w", "lock_w")

(***************************************************************************)
(* pthread_mutex_lock and pthread_mutex_unlock.  A mutex that cleanup has  *)
(* destroyed makes both return EINVAL, which the code takes for success.   *)
(***************************************************************************)
Lock(c, from, to) ==
  /\ Runs(c, from)
  /\ \/ lock = NULL /\ lock' = c
     \/ lock = DESTROYED /\ lock' = lock
  /\ Goto(c, to)
  /\ UNCHANGED <<files, dev, nodes, iter, threads, locals, signals, proc, net>>

Unlock(c, from, to) ==
  /\ Runs(c, from)
  /\ lock' = IF lock = DESTROYED THEN lock ELSE NULL
  /\ Goto(c, to)
  /\ UNCHANGED <<files, dev, nodes, iter, threads, locals, signals, proc, net>>

WriteLock(c) == Lock(c, "lock_w", "write")

\* Mutant: the unlock after the write is missing.
WriteUnlockMissing(c) ==
  /\ Runs(c, "unlock_w")
  /\ Goto(c, "close_w")
  /\ UNCHANGED <<files, lock, dev, nodes, iter, threads, locals, signals, proc, net>>

WriteUnlock(c) == Unlock(c, "unlock_w", "close_w")

(***************************************************************************)
(* write to whatever dataFileDescriptor is now.  On an error the thread    *)
(* returns, with the mutex held.  On a socket whose peer is gone the call  *)
(* may succeed, fail, or end the process with a SIGPIPE, which nothing in  *)
(* the server handles or ignores.                                          *)
(***************************************************************************)
WriteData(bytes) ==
  \/ /\ Target.kind = "data" /\ Target.flags = "rw"
     /\ IF use_aesd_char_device
        THEN /\ dev' = DeviceWrite(dev, bytes)
             /\ fds' = SetPos(Target.pos + Len(Accepted(bytes)))
        ELSE /\ dev' = FileWrite(dev, Target.inode, bytes)
             /\ fds' = SetPos(Len(dev'.contents[Target.inode]))
     /\ UNCHANGED reply
  \/ /\ Target.kind = "client"
     /\ reply' = [reply EXCEPT ![Target.who] = @ \o bytes]
     /\ UNCHANGED <<dev, fds>>
  \/ Target.kind = "std" /\ UNCHANGED <<dev, fds, reply>>

Gone(sock) == sock.kind = "client" /\ peer[sock.who] = "gone"

WriteTo(t, bytes, ok) ==
  /\ \/ /\ WriteData(bytes)
        /\ Goto(t, ok)
        /\ UNCHANGED proc
     \/ /\ \/ Target.kind = "data" /\ Target.flags = "ro"
           \/ Target.kind \notin {"data", "client"}
           \/ Gone(Target)
           \/ "write" \in Faults
        /\ Goto(t, "failed")
        /\ UNCHANGED <<dev, fds, reply, proc>>
     \/ /\ Gone(Target) /\ bytes # << >>
        /\ proc' = "SIGPIPE"
        /\ UNCHANGED <<dev, fds, reply, pc>>
  /\ UNCHANGED <<dataFileDescriptor, lock, nodes, iter, threads, locals, signals,
                 peer, inbox>>

Write(c) == Runs(c, "write") /\ WriteTo(c, received[c], "unlock_w")

WriteClose(c) ==
  /\ Runs(c, "close_w")
  /\ fds' = CloseFd(fds, dataFileDescriptor)
  /\ Goto(c, AfterChunk(c))
  /\ UNCHANGED <<dataFileDescriptor, lock, dev, nodes, iter, threads, locals,
                 signals, proc, net>>

\* Mutant: the descriptor of the write is used again.
ReadOpenSkipped(c) ==
  /\ Runs(c, "open_r")
  /\ Goto(c, Answer)
  /\ UNCHANGED <<files, lock, dev, nodes, iter, threads, locals, signals, proc, net>>

ReadOpen(c) == Runs(c, "open_r") /\ OpenDataFile(c, "ro", Answer, "failed")

\* Only the plain file: lseek to its beginning, which fails on anything else.
Rewind(c) ==
  /\ Runs(c, "lseek")
  /\ \/ Target.kind = "data" /\ fds' = SetPos(0) /\ Goto(c, "lock_r")
     \/ Target.kind # "data" /\ fds' = fds /\ Goto(c, "failed")
  /\ UNCHANGED <<dataFileDescriptor, lock, dev, nodes, iter, threads, locals,
                 signals, proc, net>>

ReadLock(c)   == Lock(c, "lock_r", "read")
ReadUnlock(c) == Unlock(c, "unlock_r", "send")

Read(c) ==
  LET d == Target.who
  IN  /\ Runs(c, "read")
      /\ \/ /\ Target.kind = "data"
            /\ LET bytes == IF use_aesd_char_device
                            THEN DeviceRead(dev, Target.pos, BUF_LEN)
                            ELSE FileRead(dev, Target.inode, Target.pos, BUF_LEN)
               IN  /\ send_buffer' = [send_buffer EXCEPT ![c] = bytes]
                   /\ fds' = SetPos(Target.pos + Len(bytes))
            /\ Goto(c, "unlock_r")
            /\ UNCHANGED inbox
         \/ /\ Target.kind = "client"
            /\ \/ /\ inbox[d] # << >>
                  /\ send_buffer' = [send_buffer EXCEPT ![c] = Head(inbox[d]).data]
                  /\ inbox' = [inbox EXCEPT ![d] = Tail(@)]
               \/ /\ inbox[d] = << >> /\ peer[d] = "gone"
                  /\ send_buffer' = [send_buffer EXCEPT ![c] = << >>]
                  /\ UNCHANGED inbox
            /\ Goto(c, "unlock_r")
            /\ UNCHANGED fds
         \/ /\ Target.kind \notin {"data", "client"} \/ "read" \in Faults
            /\ Goto(c, "failed")
            /\ UNCHANGED <<send_buffer, fds, inbox>>
      /\ UNCHANGED <<dataFileDescriptor, lock, dev, nodes, iter, threads,
                     receive_buffer, received, signals, proc, peer, reply>>

\* Mutant: the loop goes on while bytes_from_file >= 0.
AfterSendAlways(c) == "lock_r"

AfterSend(c) == IF send_buffer[c] = << >> THEN "close_c" ELSE "lock_r"

\* A peer that is gone makes send succeed, fail or raise SIGPIPE, like write.
Send(c) ==
  LET sock == Socket(c)
  IN  /\ Runs(c, "send")
      /\ \/ /\ sock.kind = "client"
            /\ reply' = [reply EXCEPT ![sock.who] = @ \o send_buffer[c]]
            /\ Goto(c, AfterSend(c))
            /\ UNCHANGED proc
         \/ /\ sock.kind # "client" \/ Gone(sock)
            /\ Goto(c, "failed")
            /\ UNCHANGED <<reply, proc>>
         \/ /\ Gone(sock) /\ send_buffer[c] # << >>
            /\ proc' = "SIGPIPE"
            /\ UNCHANGED <<reply, pc>>
      /\ UNCHANGED <<files, lock, dev, nodes, iter, threads, locals, signals,
                     peer, inbox>>

ClientClose(c) ==
  /\ Runs(c, "close_c")
  /\ fds' = CloseFd(fds, fd[c])
  /\ Goto(c, "complete")
  /\ UNCHANGED <<dataFileDescriptor, lock, dev, nodes, iter, threads, locals,
                 signals, proc, net>>

Complete(c) ==
  /\ Runs(c, "complete")
  /\ isThreadComplete' = [isThreadComplete EXCEPT ![c] = TRUE]
  /\ Goto(c, "close_d")
  /\ UNCHANGED <<files, lock, dev, head, node, memory, iter, threads, locals,
                 signals, proc, net>>

\* Mutant: the data file stays open.
DataCloseMissing(c) ==
  /\ Runs(c, "close_d")
  /\ Goto(c, "done")
  /\ UNCHANGED <<files, lock, dev, nodes, iter, threads, locals, signals, proc, net>>

DataClose(c) ==
  /\ Runs(c, "close_d")
  /\ fds' = CloseFd(fds, dataFileDescriptor)
  /\ Goto(c, "done")
  /\ UNCHANGED <<dataFileDescriptor, lock, dev, nodes, iter, threads, locals,
                 signals, proc, net>>

\* The steps that go through thread_data_ptr, or through main's loop variable.
\* Once the node is freed they may find anything there: besides going on as
\* before the process may crash.
UsesNode == {"start", "recv", "lock_w", "unlock_w", "lock_r", "unlock_r", "send", "close_c",
             "complete"}

UsesFreedNode(t) ==
  IF t = main
  THEN pc[main] \in {"reap", "reap_log"} /\ iter # NULL /\ memory[iter] = "freed"
  ELSE pc[t] \in UsesNode /\ memory[t] = "freed"

CrashOnFreedNode(t) ==
  /\ Runs(t, pc[t])
  /\ UsesFreedNode(t)
  /\ proc' = "SIGSEGV"
  /\ UNCHANGED <<files, lock, dev, nodes, pc, iter, threads, locals, signals, net>>

ClientStep(c) ==
  \/ ClientStart(c) \/ Recv(c)
  \/ SeekOpen(c) \/ Ioctl(c)
  \/ WriteOpen(c) \/ WriteLock(c) \/ Write(c) \/ WriteUnlock(c) \/ WriteClose(c)
  \/ ReadOpen(c) \/ Rewind(c) \/ ReadLock(c) \/ Read(c) \/ ReadUnlock(c) \/ Send(c)
  \/ ClientClose(c) \/ Complete(c) \/ DataClose(c)
  \/ CrashOnFreedNode(c)

(***************************************************************************)
(* log_timestamps: log, then sleep and write a line to whatever            *)
(* dataFileDescriptor is, a closed descriptor included: then the thread    *)
(* returns, with the mutex held.                                           *)
(***************************************************************************)
Sleep ==
  /\ Runs(timestamps, "sleep")
  /\ ticks > 0
  /\ ticks' = ticks - 1
  /\ Goto(timestamps, "lock_t")
  /\ UNCHANGED <<files, lock, dev, nodes, iter, fd, threadId, joined, locals,
                 signals, proc, net>>

ClockFails ==
  /\ Runs(timestamps, "sleep")
  /\ "clock" \in Faults
  /\ Goto(timestamps, "failed")
  /\ UNCHANGED <<files, lock, dev, nodes, iter, threads, locals, signals, proc, net>>

StampStart ==
  /\ Runs(timestamps, "start_t")
  /\ Goto(timestamps, "sleep")
  /\ UNCHANGED <<files, lock, dev, nodes, iter, threads, locals, signals, proc, net>>

log_timestamps ==
  \/ StampStart \/ Sleep
  \/ Lock(timestamps, "lock_t", "write_t")
  \/ Runs(timestamps, "write_t") /\ WriteTo(timestamps, Timestamp, "unlock_t")
  \/ Unlock(timestamps, "unlock_t", "sleep")

-----------------------------------------------------------------------------
(***************************************************************************)
(* cleanup_on_exit: on the main thread, on the thread that handles a       *)
(* signal, or on both at once.                                             *)
(***************************************************************************)
\* Mutant: the file is closed last, once the timestamp thread has been joined.
CloseDataFileLate == fds

CloseDataFile == CloseFd(fds, dataFileDescriptor)

\* pthread_mutex_destroy refuses a mutex that is locked.
Destroyed == IF lock = NULL THEN DESTROYED ELSE lock

CleanupLabels ==
  {"cl_close", "cl_unlink", "cl_pick", "cl_remove", "cl_free", "cl_null", "cl_join"}

AfterCleanup(at) ==
  CASE at = "cl_close" -> IF use_aesd_char_device THEN "cl_pick" ELSE "cl_unlink"
    [] at \in {"cl_unlink", "cl_null"} -> "cl_pick"
    [] at = "cl_pick" -> IF head # << >> THEN "cl_remove"
                         ELSE IF use_aesd_char_device \/ signal_caught THEN "cl_end"
                         ELSE "cl_join"
    [] at = "cl_remove" -> "cl_free"
    [] at = "cl_free" -> "cl_null"
    [] at = "cl_join" -> "cl_end"

\* Some node on the list has been given back already.
FreedOnList == \E c \in Client : Contains(head, c) /\ memory[c] = "freed"

\* Mutant: a node is freed without being taken off the list.
RemoveNodeForgotten == UNCHANGED <<head, proc>>

\* SLIST_REMOVE of a node that is not on the list runs off its end; with freed
\* nodes on the list it may.
RemoveNode ==
  IF Contains(head, node)
  THEN /\ head' = RemoveFirst(head, node)
       /\ proc' \in {proc} \cup {crash \in {"SIGSEGV"} : FreedOnList}
  ELSE proc' = "SIGSEGV" /\ UNCHANGED head

\* free does nothing with NULL, and aborts if it notices a second free.
FreeNode ==
  IF node = NULL THEN UNCHANGED <<memory, proc>>
  ELSE /\ memory' = [memory EXCEPT ![node] = "freed"]
       /\ proc' \in {proc} \cup {crash \in {"SIGABRT"} : memory[node] = "freed"}

\* The nodes are freed through the global variable node, which two cleanups at
\* once share: each line of the loop reads it anew.
CleanupFrom(at) ==
  \/ /\ at = "cl_close"
     /\ fds' = CloseDataFile
     /\ UNCHANGED <<dev, head, node, memory, lock, proc>>
  \/ /\ at = "cl_unlink"
     /\ dev' = Unlink(dev)
     /\ UNCHANGED <<fds, head, node, memory, lock, proc>>
  \/ /\ at = "cl_pick" /\ head # << >>
     /\ node' = Head(head)
     /\ UNCHANGED <<fds, dev, head, memory, lock, proc>>
  \/ /\ at = "cl_remove"
     /\ RemoveNode
     /\ UNCHANGED <<fds, dev, node, memory, lock>>
  \/ /\ at = "cl_free"
     /\ FreeNode
     /\ UNCHANGED <<fds, dev, head, node, lock>>
  \/ /\ at = "cl_null"
     /\ node' = NULL
     /\ UNCHANGED <<fds, dev, head, memory, lock, proc>>
  \/ /\ at = "cl_pick" /\ head = << >>
     /\ lock' = IF use_aesd_char_device /\ ~signal_caught THEN Destroyed ELSE lock
     /\ UNCHANGED <<fds, dev, head, node, memory, proc>>
  \/ \* pthread_join of a thread that was never created may do anything
     /\ at = "cl_join"
     /\ pc[timestamps] \in Finished \cup {"none"}
     /\ proc' \in {proc} \cup {crash \in {"SIGSEGV"} : pc[timestamps] = "none"}
     /\ lock' = Destroyed
     /\ UNCHANGED <<fds, dev, head, node, memory>>

MainCleanup ==
  \E at \in CleanupLabels :
    /\ Runs(main, at)
    /\ CleanupFrom(at)
    /\ Goto(main, AfterCleanup(at))
    /\ UNCHANGED <<dataFileDescriptor, isThreadComplete, iter, threads, locals, signals, net>>

\* main returns: the process ends, with all its threads.
MainReturns ==
  /\ Runs(main, "cl_end")
  /\ proc' = "exited"
  /\ UNCHANGED <<files, lock, dev, nodes, pc, iter, threads, locals, signals, net>>

(***************************************************************************)
(* handle_termination.  The first signal shuts the listening socket down   *)
(* and cleans up; then the default action ends the process.  A signal that *)
(* comes while fatal_error_in_progress is set is raised again from its own *)
(* handler, so that thread handles it over and over (spinning).            *)
(***************************************************************************)
Alive(t) == t = main \/ pc[t] \notin {"none"} \cup Finished

\* Mutant: the flag is set before it is tested.
OnSignalSwapped(t) ==
  /\ fatal_error_in_progress' = TRUE
  /\ spinning' = [spinning EXCEPT ![t] = TRUE]
  /\ UNCHANGED handler

OnSignal(t) ==
  /\ IF fatal_error_in_progress
     THEN spinning' = [spinning EXCEPT ![t] = TRUE] /\ UNCHANGED handler
     ELSE handler' = [handler EXCEPT ![t] = "flag"] /\ UNCHANGED spinning
  /\ UNCHANGED fatal_error_in_progress

\* The interrupted thread may be inside syslog, and stays there.
handle_termination(t, sig) ==
  /\ proc = "running"
  /\ Alive(t) /\ ~spinning[t]
  /\ unsent' = unsent \ {sig}
  /\ OnSignal(t)
  /\ syslog_lock' \in {syslog_lock} \cup {u \in {t} : Runs(t, pc[t]) /\ pc[t] \in Logging}
  /\ UNCHANGED <<files, lock, dev, nodes, pc, iter, threads, locals, proc, net>>

HandlerRuns(t, label) ==
  /\ proc = "running" /\ ~spinning[t]
  /\ handler[t] = label
  /\ label \in Logging => syslog_lock = NULL

\* The flag is set some time after it was tested, so that two signals may both
\* get past the test.  shutdown makes every accept fail; then signal_caught is set.
HandlerShutdown(t) ==
  /\ \/ /\ HandlerRuns(t, "flag")
        /\ fatal_error_in_progress' = TRUE
        /\ handler' = [handler EXCEPT ![t] = "shutdown"]
     \/ /\ HandlerRuns(t, "shutdown")
        /\ handler' = [handler EXCEPT ![t] = "cl_close"]
        /\ UNCHANGED fatal_error_in_progress
  /\ UNCHANGED <<files, lock, dev, nodes, pc, iter, threads, locals,
                 unsent, spinning, syslog_lock, proc, net>>

HandlerCleanup(t) ==
  \E at \in CleanupLabels :
    /\ HandlerRuns(t, at)
    /\ CleanupFrom(at)
    /\ handler' = [handler EXCEPT ![t] = AfterCleanup(at)]
    /\ UNCHANGED <<dataFileDescriptor, isThreadComplete, pc, iter, threads, locals,
                   fatal_error_in_progress, unsent, spinning, syslog_lock, net>>

HandlerRaises(t) ==
  /\ HandlerRuns(t, "cl_end")
  /\ proc' = "signalled"
  /\ UNCHANGED <<files, lock, dev, nodes, pc, iter, threads, locals, signals, net>>

-----------------------------------------------------------------------------
\* The timestamp thread, in the build that has one; a failing pthread_create is
\* not noticed.
setup_time_logging ==
  IF use_aesd_char_device THEN {"none"}
  ELSE {"start_t"} \cup {ts \in {"none"} : "pthread_create" \in Faults}

\* The state in which main_socket_application enters the accept loop.  As a
\* daemon the process has no descriptor 0 (see ServerStartup).
Init ==
  /\ dataFileDescriptor = 0
  /\ \E s \in Scenario :
       /\ fds = AcceptTable(s.daemon, Std, Listening)
       /\ dev = IF s.DATA_FILE = "/dev/aesdchar" THEN NewDevice ELSE NoFile
       /\ unsent = s.signals
       /\ ticks = s.ticks
  /\ lock = NULL
  /\ head = << >>
  /\ node = NULL
  /\ memory = [c \in Client |-> "none"]
  /\ isThreadComplete = [c \in Client |-> FALSE]
  /\ \E ts \in setup_time_logging :
       pc = [t \in Thread |-> CASE t = main -> "accept" [] t = timestamps -> ts
                                [] OTHER -> "none"]
  /\ iter = NULL
  /\ fd = [c \in Client |-> ERROR]
  /\ threadId = [c \in Client |-> NULL]
  /\ joined = [c \in Client |-> FALSE]
  /\ receive_buffer = [c \in Client |-> NoPacket]
  /\ received = [c \in Client |-> << >>]
  /\ send_buffer = [c \in Client |-> << >>]
  /\ fatal_error_in_progress = FALSE
  /\ handler = [t \in Thread |-> "none"]
  /\ spinning = [t \in Thread |-> FALSE]
  /\ syslog_lock = NULL
  /\ proc = "running"
  /\ peer = [c \in Client |-> "away"]
  /\ inbox = [c \in Client |-> << >>]
  /\ reply = [c \in Client |-> << >>]

MainStep ==
  \/ \E c \in Client : Accept(c)
  \/ AcceptStops \/ Spawn \/ Insert \/ Reap \/ ReapLog \/ CrashOnFreedNode(main)
  \/ MainCleanup \/ MainReturns

HandlerStep(t) == HandlerShutdown(t) \/ HandlerCleanup(t) \/ HandlerRaises(t)

Next ==
  \/ MainStep \/ AcceptFails \/ log_timestamps \/ ClockFails
  \/ \E c \in Client : ClientStep(c) \/ RecvFails(c) \/ Connect(c) \/ HangUp(c)
  \/ \E t \in Thread : HandlerStep(t)
  \/ \E t \in Thread, sig \in unsent : handle_termination(t, sig)

Spec == Init /\ [][Next]_vars

\* Every thread of a running process that can take a step takes one.  An accept
\* or recv that waits is not bound to fail.
FairSpec ==
  /\ Spec
  /\ WF_vars(MainStep) /\ WF_vars(log_timestamps)
  /\ \A c \in Client : WF_vars(ClientStep(c))
  /\ WF_vars(\E t \in Thread : HandlerStep(t))

-----------------------------------------------------------------------------
Critical == {"write", "unlock_w", "read", "unlock_r", "write_t", "unlock_t"}

Labels == UsesNode \cup Critical \cup Finished \cup CleanupLabels
            \cup {"none", "seek_open", "ioctl", "open_w", "close_w", "open_r", "lseek", "close_d",
                  "start_t", "sleep", "lock_t",
                  "accept", "spawn", "insert", "reap", "reap_log", "cl_end"}

TypeOK ==
  /\ fds \in [Fd -> {Std, Listening, CLOSED} \cup {Connection(c) : c \in Client}
                  \cup [kind : {"data"}, flags : {"ro", "rw"}, pos : Nat, by : Client,
                             inode : Nat]]
  /\ dataFileDescriptor \in Fd \cup {ERROR}
  /\ lock \in Client \cup {timestamps, NULL, DESTROYED}
  /\ head \in Seq(Client) /\ IsInjective(head)
  /\ node \in Client \cup {NULL} /\ iter \in Client \cup {NULL}
  /\ memory \in [Client -> {"none", "live", "freed"}]
  /\ isThreadComplete \in [Client -> BOOLEAN]
  /\ pc \in [Thread -> Labels]
  /\ fd \in [Client -> Fd \cup {ERROR}]
  /\ threadId \in [Client -> ThreadId \cup {NULL}]
  /\ joined \in [Client -> BOOLEAN]
  /\ ticks \in Nat
  /\ fatal_error_in_progress \in BOOLEAN
  /\ unsent \subseteq {"SIGINT", "SIGTERM"}
  /\ handler \in [Thread -> CleanupLabels \cup {"none", "flag", "shutdown", "cl_end"}]
  /\ spinning \in [Thread -> BOOLEAN]
  /\ syslog_lock \in Thread \cup {NULL}
  /\ proc \in {"running", "exited", "signalled", "SIGPIPE", "SIGSEGV", "SIGABRT"}
  /\ peer \in [Client -> {"away", "queued", "connected", "gone"}]

(***************************************************************************)
(* Until cleanup destroys it, the mutex is held by every thread that       *)
(* writes or reads the data file, and by a thread that does not only if    *)
(* that thread returned from a write or read that failed (the two returns  *)
(* with the mutex held).                                                   *)
(***************************************************************************)
MutexDiscipline ==
  lock # DESTROYED =>
    \A t \in Thread : /\ pc[t] \in Critical => lock = t
                      /\ lock = t => pc[t] \in Critical \cup {"failed"}

(***************************************************************************)
(* As long as no cleanup has begun, the node of a connection thread that   *)
(* still runs is allocated, and from the insert on it is on the list.      *)
(***************************************************************************)
CleanupBegun ==
  \/ pc[main] \in CleanupLabels \cup {"cl_end"}
  \/ \E t \in Thread : handler[t] # "none"

NodesOutliveThreads ==
  ~CleanupBegun =>
    \A c \in Client : Alive(c) =>
      /\ memory[c] = "live"
      /\ Contains(head, c) \/ (pc[main] = "insert" /\ iter = c)

(***************************************************************************)
(* A thread that uses the data file (write, ioctl, read or close on the    *)
(* global dataFileDescriptor) uses the one it opened itself.               *)
(***************************************************************************)
UsesDataFile == {"ioctl", "write", "close_w", "read", "close_d"}

OwnsDataFile ==
  proc = "running" =>
    \A c \in Client : pc[c] \in UsesDataFile => Target.kind = "data" /\ Target.by = c

(***************************************************************************)
(* What a client has been sent when the server closes its connection is    *)
(* the whole contents of the device, in which its own command comes last;  *)
(* after a seek, the rest of the contents from some byte on.               *)
(***************************************************************************)
Sent(c) == FlattenSeq([i \in DOMAIN Script[c] |-> Script[c][i].data])

ReplyIsContents ==
  \A c \in Client : pc[c] = "close_c" =>
    /\ IsSuffix(reply[c], DataContents)
    /\ ~ioctl_check(c) => /\ reply[c] = DataContents
                          /\ IsSuffix(Sent(c), reply[c])

(***************************************************************************)
(* A connection thread that has returned leaves no descriptor open.        *)
(***************************************************************************)
DescriptorsReturned ==
  \A c \in Client : pc[c] \in Finished =>
    \A n \in Fd : fds[n] # Connection(c) /\ (fds[n].kind = "data" => fds[n].by # c)

(***************************************************************************)
(* A client that connects, sends a line and waits is answered: its thread  *)
(* gets to the end of client_data_handler.                                 *)
(***************************************************************************)
EveryClientServed == \A c \in Client : peer[c] = "queued" ~> pc[c] = "done"

(***************************************************************************)
(* Two things stop threads for good.  A signal that hits a thread inside   *)
(* syslog leaves its handler waiting for the lock that the thread holds,   *)
(* and with it everybody who logs.  A thread whose write or read failed    *)
(* has returned with the mutex.                                            *)
(***************************************************************************)
SyslogStuck  == syslog_lock # NULL
MutexKept(t) == lock = t /\ pc[t] = "failed"

(***************************************************************************)
(* The thread of a connection that is alone ends once it has received a    *)
(* line, whether its client waits for the answer or hangs up.  (One whose  *)
(* client hangs up before that receives 0 bytes for ever.)                 *)
(***************************************************************************)
AnsweringEnds ==
  \A c \in Client : pc[c] = "lock_r" ~>
    pc[c] \in Finished \/ proc # "running" \/ SyslogStuck \/ \E t \in Thread : MutexKept(t)

(***************************************************************************)
(* Once a termination signal is handled, the process ends, unless it came  *)
(* in the middle of syslog.                                                *)
(***************************************************************************)
ShutdownCompletes == fatal_error_in_progress ~> proc # "running" \/ SyslogStuck

(***************************************************************************)
(* When main gives up on its own (accept failed, a thread failed) and no   *)
(* connection is left, the process ends although nobody tells the          *)
(* timestamp thread to: the cleanup has closed the file under it, so its   *)
(* next write fails and main's pthread_join returns.  Only a mutex that a  *)
(* connection thread kept prevents it.                                     *)
(***************************************************************************)
GivingUpEnds ==
  /\ pc[main] = "cl_pick"
  /\ \A c \in Client : ~Alive(c)
  /\ use_aesd_char_device \/ ticks > 0
  ~> proc # "running" \/ SyslogStuck \/ \E c \in Client : MutexKept(c)

(***************************************************************************)
(* The process crashes only where two known weaknesses meet a third party: *)
(* of a SIGSEGV after a cleanup has begun (it frees nodes that threads and *)
(* main still use, and joins a thread that may not exist) or when main     *)
(* joins a second time a thread whose stack is gone; of a double free only *)
(* when two threads clean up at once.  A cleanup that is alone, one that   *)
(* interrupts main's own included, gives every node back once.             *)
(***************************************************************************)
CleansUp(t) ==
  \/ handler[t] \in CleanupLabels \cup {"cl_end"}
  \/ t = main /\ pc[main] \in CleanupLabels \cup {"cl_end"}

TwoCleanUp == \E t, u \in Thread : t # u /\ CleansUp(t) /\ CleansUp(u)

CrashesOnlyWhereKnown ==
  /\ proc = "SIGSEGV" => CleanupBegun \/ StacksGone
  /\ proc = "SIGABRT" => TwoCleanUp

=============================================================================
