------------------------- MODULE AesdSocketProofs --------------------------
(***************************************************************************)
(* Proofs about the socket server, for any number of connections, any      *)
(* scripts of the clients, any arrival, any faults and signals, and both   *)
(* builds: type correctness, the discipline of the mutex, that the nodes   *)
(* of the list outlive the threads that use them until a cleanup begins,   *)
(* and where the process may crash.  For clients that come one at a time,  *)
(* that each thread uses its own data file and returns its descriptors,    *)
(* and that the answer is what the file holds, the client's line last.     *)
(*                                                                         *)
(* The invariant has one part per group of variables.  DataInv is about    *)
(* what goes through the descriptors; Places says which labels each thread *)
(* can be at; ListInv follows a connection from accept to the list;        *)
(* OtherTypes, MutexInv and NodesInv are about the rest of the state, the  *)
(* mutex and the nodes' memory; LoneInv follows a cleanup that is alone    *)
(* through the list.                                                       *)
(***************************************************************************)
EXTENDS AesdSocket, CircularBufferTheorems, TLAPS

(***************************************************************************)
(* What the descriptor table holds.                                        *)
(***************************************************************************)
DataFiles == [kind : {"data"}, flags : {"ro", "rw"}, pos : Nat, by : Client, inode : Nat]

OpenFile == {Std, Listening, CLOSED} \cup {Connection(c) : c \in Client} \cup DataFiles

FileTable == [Fd -> OpenFile]

\* An entry of the device as the server sees it: never used, or a command.
StoredEntry == {ZeroEntry} \cup {[buffptr |-> b, size |-> Len(b)] : b \in Seq(Int)}

DeviceOK(d) ==
  /\ d \in [buffer : Buffer(StoredEntry), partial : Seq(Int), buff_size : Nat]
  /\ Coherent(d.buffer)

FileOK(d) ==
  /\ d \in [contents : Seq(Seq(Int)), linked : Nat]
  /\ d.linked <= Len(d.contents)

\* A descriptor of the plain file has an inode that exists.
InodesOK(table, d) ==
  \A n \in Fd : table[n].kind = "data" => table[n].inode \in 1 .. Len(d.contents)

DataOK(table, d) ==
  IF "buffer" \in DOMAIN d THEN DeviceOK(d) ELSE FileOK(d) /\ InodesOK(table, d)

\* The kinds of files tell the records apart.
LEMMA FileKinds ==
  ASSUME NEW f \in OpenFile
  PROVE  /\ f.kind = "data" => f \in DataFiles
         /\ f.kind = "client" => f.who \in Client
         /\ f.kind = "std" => f = Std
  BY DEF OpenFile, DataFiles, Std, Listening, CLOSED, Connection

\* A new descriptor is one that was free.
LEMMA LowestFdIsFree ==
  ASSUME NEW table, CanOpen(table)
  PROVE  LowestFd(table) \in Fd /\ table[LowestFd(table)].kind = "closed"
<1>. DEFINE T == {n \in Fd : table[n].kind = "closed"}
<1>1. T \in SUBSET Nat /\ T # {}
  BY MaxFdAssumption DEF CanOpen, Fd
<1>2. Min(T) \in T
  <2>. HIDE DEF T
  <2>. QED  BY <1>1, MinIs
<1>. QED  BY <1>2 DEF LowestFd

\* Opening a file keeps the table well formed.
LEMMA OpenFdOK ==
  ASSUME NEW table \in FileTable, NEW d, DataOK(table, d), CanOpen(table), NEW file \in OpenFile,
         file.kind = "data" /\ "buffer" \notin DOMAIN d => file.inode \in 1 .. Len(d.contents)
  PROVE  /\ OpenFd(table, file) \in FileTable /\ DataOK(OpenFd(table, file), d)
         /\ LowestFd(table) \in Fd
<1>1. LowestFd(table) \in Fd
  BY LowestFdIsFree
<1>. DEFINE low == LowestFd(table)
<1>2. OpenFd(table, file) = [table EXCEPT ![low] = file]
  BY DEF OpenFd
<1>. HIDE DEF low
<1>3. OpenFd(table, file) \in FileTable
  BY <1>1, <1>2 DEF FileTable
<1>4. InodesOK(table, d) /\ "buffer" \notin DOMAIN d => InodesOK(OpenFd(table, file), d)
  BY <1>1, <1>2 DEF FileTable, InodesOK
<1>. QED  BY <1>1, <1>3, <1>4 DEF DataOK

\* So does closing a descriptor, open or not.
LEMMA CloseFdOK ==
  ASSUME NEW table \in FileTable, NEW d, DataOK(table, d), NEW n
  PROVE  CloseFd(table, n) \in FileTable /\ DataOK(CloseFd(table, n), d)
<1>1. CLOSED \in OpenFile /\ CLOSED.kind # "data"
  BY DEF OpenFile, CLOSED
<1>. QED  BY <1>1 DEF CloseFd, FileTable, DataOK, InodesOK

\* What the global descriptor stands for is an entry of the table, or closed.
LEMMA TargetIs ==
  ASSUME fds \in FileTable
  PROVE  /\ Target \in OpenFile
         /\ Target.kind # "closed" => dataFileDescriptor \in Fd /\ Target = fds[dataFileDescriptor]
<1>1. CLOSED \in OpenFile /\ CLOSED.kind = "closed"
  BY DEF OpenFile, CLOSED
<1>. QED  BY <1>1 DEF Target, IsOpen, FileTable

\* Moving the position of the data file keeps the table well formed.
LEMMA SetPosOK ==
  ASSUME fds \in FileTable, Target.kind = "data", NEW p \in Nat
  PROVE  /\ SetPos(p) \in FileTable
         /\ \A d : DataOK(fds, d) => DataOK(SetPos(p), d)
<1>1. dataFileDescriptor \in Fd /\ Target = fds[dataFileDescriptor]
  BY TargetIs
<1>2. Target \in DataFiles
  BY TargetIs, FileKinds
<1>. DEFINE new == [Target EXCEPT !.pos = p]
<1>3. SetPos(p) = [fds EXCEPT ![dataFileDescriptor] = new]
  BY <1>1 DEF SetPos, FileTable
<1>4. new \in DataFiles /\ new.inode = Target.inode /\ new.kind = "data"
  BY <1>2 DEF DataFiles
<1>. HIDE DEF new
<1>5. new \in OpenFile
  BY <1>4 DEF OpenFile
<1>6. SetPos(p) \in FileTable
  BY <1>1, <1>3, <1>5 DEF FileTable
<1>7. ASSUME NEW d, InodesOK(fds, d) PROVE InodesOK(SetPos(p), d)
  BY <1>1, <1>3, <1>4, <1>7 DEF InodesOK, FileTable
<1>. QED  BY <1>6, <1>7 DEF DataOK

-----------------------------------------------------------------------------
(***************************************************************************)
(* The operations of the device and of the plain file.                     *)
(***************************************************************************)
\* The part of a buffer that aesd_write takes is a string.
LEMMA AcceptedType ==
  ASSUME NEW data \in Seq(Int)
  PROVE  Accepted(data) \in Seq(Int)
<1>1. CASE ~Contains(data, NewLine)
  BY <1>1 DEF Accepted
<1>2. CASE Contains(data, NewLine)
  <2>. DEFINE T == {i \in 1 .. Len(data) : data[i] = NewLine}
              k == Min(T)
  <2>1. T \in SUBSET Nat /\ T # {}
    BY <1>2 DEF Contains
  <2>2. k \in T
    <3>. HIDE DEF T
    <3>. QED  BY <2>1, MinIs
  <2>3. SelectInSeq(data, LAMBDA c : c = NewLine) = k
    BY <2>1 DEF SelectInSeq
  <2>4. k \in 1 .. Len(data)
    BY <2>2
  <2>. HIDE DEF k
  <2>5. SubSeq(data, 1, k) \in Seq(Int)
    BY <2>4, SubSeqProperties
  <2>. QED  BY <1>2, <2>3, <2>5 DEF Accepted
<1>. QED  BY <1>1, <1>2

\* The device as insmod leaves it.
LEMMA NewDeviceOK == DeviceOK(NewDevice) /\ "buffer" \in DOMAIN NewDevice
<1>1. aesd_circular_buffer_init \in Buffer(StoredEntry) /\ Coherent(aesd_circular_buffer_init)
  BY NAssumption DEF aesd_circular_buffer_init, Buffer, StoredEntry, Slots, Coherent
<1>2. << >> \in Seq(Int)
  BY EmptySeq
<1>. QED  BY <1>1, <1>2 DEF NewDevice, DeviceOK

\* A write leaves the device well formed, whether it completes a command or not.
LEMMA DeviceWriteOK ==
  ASSUME NEW d, DeviceOK(d), NEW data \in Seq(Int)
  PROVE  DeviceOK(DeviceWrite(d, data)) /\ "buffer" \in DOMAIN DeviceWrite(d, data)
<1>. DEFINE line == Command(d, data)
            e    == [buffptr |-> line, size |-> Len(line)]
            b    == aesd_circular_buffer_add_entry(d.buffer, e)
<1>1. line \in Seq(Int)
  BY AcceptedType, ConcatProperties DEF Command, DeviceOK
<1>2. e \in StoredEntry /\ Len(line) \in Nat
  BY <1>1, LenProperties DEF StoredEntry
<1>. HIDE DEF line, e
<1>3. b \in Buffer(StoredEntry) /\ Coherent(b)
  BY <1>2, AddEntryType DEF DeviceOK
<1>. HIDE DEF b
<1>4. DeviceWrite(d, data) = IF Contains(data, NewLine)
                             THEN [buffer |-> b, partial |-> << >>,
                                   buff_size |-> d.buff_size + Len(line)]
                             ELSE [d EXCEPT !.partial = line]
  BY DEF DeviceWrite, line, e, b
<1>5. << >> \in Seq(Int)
  BY EmptySeq
<1>6. d.buff_size + Len(line) \in Nat
  BY <1>2 DEF DeviceOK
<1>7. CASE Contains(data, NewLine)
  BY <1>3, <1>4, <1>5, <1>6, <1>7 DEF DeviceOK
<1>8. CASE ~Contains(data, NewLine)
  BY <1>1, <1>4, <1>8 DEF DeviceOK
<1>. QED  BY <1>7, <1>8

\* A read returns a string: the entry it finds holds a command.
LEMMA DeviceReadType ==
  ASSUME NEW d, DeviceOK(d), NEW pos \in Nat, NEW count \in Nat
  PROVE  DeviceRead(d, pos, count) \in Seq(Int)
<1>. DEFINE found == aesd_circular_buffer_find_entry_offset_for_fpos(d.buffer, pos)
            bytes == d.buffer.entry[found.slot].buffptr
            end   == Min({found.byte + count, Len(bytes)})
<1>1. d.buffer \in Buffer(StoredEntry) /\ Coherent(d.buffer)
  BY DEF DeviceOK
<1>2. \A e \in StoredEntry : e.size \in Nat
  BY LenProperties DEF StoredEntry, ZeroEntry
<1>3. CASE found = NULL
  BY <1>3, EmptySeq DEF DeviceRead
<1>4. CASE found # NULL
  <2>1. PICK j \in 0 .. Count(d.buffer) - 1 :
               /\ found = [slot |-> ScanSlot(d.buffer, j),
                           byte |-> pos - AccumulatedBytes(d.buffer, j)]
               /\ AccumulatedBytes(d.buffer, j) <= pos
               /\ pos < AccumulatedBytes(d.buffer, j) + d.buffer.entry[ScanSlot(d.buffer, j)].size
    BY <1>1, <1>2, <1>4, FindFinds
  <2>2. Count(d.buffer) \in 0 .. N
    BY <1>1, CountType
  <2>3. j \in 0 .. N - 1 /\ N \in Nat
    BY <2>1, <2>2, NAssumption
  <2>4. ScanSlot(d.buffer, j) \in Slots
    BY <1>1, <2>3, ScanSlotValue
  <2>5. d.buffer.entry[ScanSlot(d.buffer, j)] \in StoredEntry
    BY <1>1, <2>4, BufferFields
  <2>6. AccumulatedBytes(d.buffer, j) \in Nat
    <3>1. Sizes(d.buffer) \in [Slots -> Nat]
      BY <1>1, <1>2, FindFinds
    <3>. QED  BY <2>3, <3>1, SumBelowNat DEF AccumulatedBytes, Sizes
  <2>7. found.byte \in Nat /\ found.byte < d.buffer.entry[found.slot].size
    BY <1>2, <2>1, <2>5, <2>6
  <2>8. d.buffer.entry[found.slot] # ZeroEntry
    BY <2>7 DEF ZeroEntry
  <2>9. bytes \in Seq(Int)
    BY <2>1, <2>5, <2>8 DEF StoredEntry
  <2>. HIDE DEF bytes
  <2>10. end \in Int /\ end <= Len(bytes)
    <3>. DEFINE T == {found.byte + count, Len(bytes)}
    <3>1. T \in SUBSET Nat /\ T # {} /\ Len(bytes) \in T
      BY <2>7, <2>9, LenProperties
    <3>. HIDE DEF T
    <3>2. Min(T) \in T /\ Min(T) <= Len(bytes)
      BY <3>1, MinIs
    <3>. QED  BY <3>1, <3>2 DEF T
  <2>. HIDE DEF end
  <2>11. \A i \in found.byte + 1 .. end : bytes[i] \in Int
    BY <2>7, <2>9, <2>10, ElementOfSeq
  <2>12. SubSeq(bytes, found.byte + 1, end) \in Seq(Int)
    <3>1. found.byte + 1 \in Int
      BY <2>7
    <3>. QED  BY <2>10, <2>11, <3>1, SubSeqProperties
  <2>. QED  BY <1>4, <2>12 DEF DeviceRead, bytes, end
<1>. QED  BY <1>3, <1>4

\* A seek ioctl with unsigned numbers does not go below 0.
LEMMA DeviceSeektoNat ==
  ASSUME NEW d, DeviceOK(d), NEW pos \in Nat, NEW cmd, NEW wc \in Nat, NEW off \in Nat
  PROVE  DeviceSeekto(d, pos, [cmd |-> cmd, write_cmd |-> wc, write_cmd_offset |-> off]) \in Nat
<1>. DEFINE f == [i \in Slots |-> d.buffer.entry[i].size]
<1>1. \A e \in StoredEntry : e.size \in Nat
  BY LenProperties DEF StoredEntry, ZeroEntry
<1>2. d.buffer.entry \in [Slots -> StoredEntry]
  BY BufferFields DEF DeviceOK
<1>3. f \in [Slots -> Nat]
  BY <1>1, <1>2
<1>. HIDE DEF f
<1>4. wc < N => wc \in 0 .. N
  BY NAssumption
<1>5. wc < N => SumBelow(f, wc) \in Nat
  BY <1>3, <1>4, SumBelowNat
<1>. QED  BY <1>5 DEF DeviceSeekto, SizesBelow, f

\* The plain file before anybody has created it.
LEMMA NoFileOK ==
  /\ FileOK(NoFile) /\ "buffer" \notin DOMAIN NoFile
  /\ \A table : InodesOK(table, NoFile) <=> \A n \in Fd : table[n].kind # "data"
<1>1. << >> \in Seq(Seq(Int)) /\ Len(<< >>) = 0
  BY EmptySeq
<1>. QED  BY <1>1 DEF NoFile, FileOK, InodesOK

\* O_CREAT links the name to an inode and keeps the others.
LEMMA CreateOK ==
  ASSUME NEW table, NEW d, "buffer" \notin DOMAIN d, DataOK(table, d)
  PROVE  /\ "buffer" \notin DOMAIN Create(d) /\ DataOK(table, Create(d))
         /\ Create(d).linked \in 1 .. Len(Create(d).contents)
<1>1. FileOK(d) /\ InodesOK(table, d)
  BY DEF DataOK
<1>2. CASE d.linked # 0
  BY <1>1, <1>2 DEF Create, FileOK, DataOK
<1>3. CASE d.linked = 0
  <2>. DEFINE e == Append(d.contents, << >>)
  <2>1. << >> \in Seq(Int) /\ d.contents \in Seq(Seq(Int))
    BY <1>1, EmptySeq DEF FileOK
  <2>2. e \in Seq(Seq(Int)) /\ Len(e) = Len(d.contents) + 1 /\ Len(d.contents) \in Nat
    BY <2>1, AppendProperties, LenProperties
  <2>. HIDE DEF e
  <2>3. Create(d) = [contents |-> e, linked |-> Len(d.contents) + 1]
    BY <1>3 DEF Create, e
  <2>4. FileOK(Create(d)) /\ Create(d).linked \in 1 .. Len(Create(d).contents)
    BY <2>2, <2>3 DEF FileOK
  <2>5. InodesOK(table, Create(d))
    BY <1>1, <2>2, <2>3 DEF InodesOK
  <2>. QED  BY <2>3, <2>4, <2>5 DEF DataOK
<1>. QED  BY <1>2, <1>3

\* Unlinking takes no contents away.
LEMMA UnlinkOK ==
  ASSUME NEW table, NEW d, DataOK(table, d)
  PROVE  DataOK(table, Unlink(d)) /\ ("buffer" \in DOMAIN Unlink(d) <=> "buffer" \in DOMAIN d)
  BY DEF DataOK, DeviceOK, FileOK, InodesOK, Unlink

\* Appending to an inode.
LEMMA FileWriteOK ==
  ASSUME NEW table, NEW d, "buffer" \notin DOMAIN d, DataOK(table, d),
         NEW inode \in 1 .. Len(d.contents), NEW data \in Seq(Int)
  PROVE  /\ "buffer" \notin DOMAIN FileWrite(d, inode, data)
         /\ DataOK(table, FileWrite(d, inode, data))
         /\ Len(FileWrite(d, inode, data).contents[inode]) \in Nat
<1>. DEFINE b == d.contents[inode] \o data
            e == [d.contents EXCEPT ![inode] = b]
<1>1. d.contents \in Seq(Seq(Int)) /\ FileOK(d) /\ InodesOK(table, d)
  BY DEF FileOK, DataOK
<1>2. d.contents[inode] \in Seq(Int)
  BY <1>1, ElementOfSeq
<1>3. b \in Seq(Int) /\ Len(b) \in Nat
  BY <1>2, ConcatProperties, LenProperties
<1>4. FileWrite(d, inode, data) = [d EXCEPT !.contents = e]
  BY <1>1 DEF FileWrite, FileOK
<1>. HIDE DEF b
<1>5. e \in Seq(Seq(Int)) /\ Len(e) = Len(d.contents) /\ e[inode] = b
  BY <1>1, <1>3, ExceptSeq
<1>. HIDE DEF e
<1>. QED  BY <1>1, <1>3, <1>4, <1>5 DEF FileOK, InodesOK, DataOK

\* A read of the plain file returns a string.
LEMMA FileReadType ==
  ASSUME NEW d, FileOK(d), NEW inode \in 1 .. Len(d.contents), NEW pos \in Nat, NEW count \in Nat
  PROVE  FileRead(d, inode, pos, count) \in Seq(Int)
<1>. DEFINE bytes == d.contents[inode]
            T     == {pos + count, Len(bytes)}
<1>1. bytes \in Seq(Int)
  BY ElementOfSeq DEF FileOK
<1>. HIDE DEF bytes
<1>2. T \in SUBSET Nat /\ T # {} /\ Len(bytes) \in T
  BY <1>1, LenProperties
<1>. HIDE DEF T
<1>3. Min(T) \in Int /\ Min(T) <= Len(bytes)
  <2>1. Min(T) \in T /\ Min(T) <= Len(bytes)
    BY <1>2, MinIs
  <2>2. Min(T) \in Nat
    BY <1>2, <2>1, Zenon
  <2>. QED  BY <2>1, <2>2
<1>4. \A i \in pos + 1 .. Min(T) : bytes[i] \in Int
  <2>1. \A i \in pos + 1 .. Min(T) : i \in 1 .. Len(bytes)
    BY <1>1, <1>3, LenProperties
  <2>. QED  BY <1>1, <2>1, ElementOfSeq
<1>5. pos + 1 \in Int
  OBVIOUS
<1>6. SubSeq(bytes, pos + 1, Min(T)) \in Seq(Int)
  BY <1>3, <1>4, <1>5, SubSeqProperties
<1>. QED  BY <1>6 DEF FileRead, bytes, T

(***************************************************************************)
(* The data: descriptors, device or file, and what is on its way between   *)
(* them and the clients.                                                   *)
(***************************************************************************)
DataInv ==
  /\ fds \in FileTable
  /\ dataFileDescriptor \in Fd \cup {ERROR}
  /\ DataOK(fds, dev)
  /\ receive_buffer \in [Client -> Packet]
  /\ received \in [Client -> Seq(Int)]
  /\ send_buffer \in [Client -> Seq(Int)]
  /\ inbox \in [Client -> Seq(Packet)]

\* The data the server starts with.
LEMMA InitData == Init => DataInv
<1>. SUFFICES ASSUME Init PROVE DataInv
  OBVIOUS
<1>1. PICK s \in Scenario :
        /\ fds = [n \in Fd |-> CASE n = 3 -> Listening
                                 [] n \in (IF s.daemon THEN 1 ELSE 0) .. 2 -> Std
                                 [] OTHER -> CLOSED]
        /\ dev = IF s.DATA_FILE = "/dev/aesdchar" THEN NewDevice ELSE NoFile
  BY DEF Init, AcceptTable
<1>2. {Std, Listening, CLOSED} \subseteq OpenFile
  BY DEF OpenFile
<1>3. \A n \in Fd : fds[n] \in {Std, Listening, CLOSED}
  BY <1>1
<1>4. fds \in FileTable /\ \A n \in Fd : fds[n].kind # "data"
  BY <1>1, <1>2, <1>3 DEF FileTable, Std, Listening, CLOSED
<1>5. DataOK(fds, dev)
  BY <1>1, <1>4, NewDeviceOK, NoFileOK DEF DataOK
<1>6. << >> \in Seq(Int) /\ << >> \in Seq(Packet) /\ NoPacket \in Packet
  BY EmptySeq DEF NoPacket, Packet
<1>7. dataFileDescriptor \in Fd
  BY MaxFdAssumption DEF Init, Fd
<1>. QED  BY <1>4, <1>5, <1>6, <1>7 DEF Init, DataInv

\* Moving a position, or none.
LEMMA ReadLengthNat ==
  ASSUME DataInv, Target.kind = "data"
  PROVE  /\ use_aesd_char_device => DeviceRead(dev, Target.pos, BUF_LEN) \in Seq(Int)
         /\ ~use_aesd_char_device => FileRead(dev, Target.inode, Target.pos, BUF_LEN) \in Seq(Int)
<1>1. Target \in DataFiles /\ dataFileDescriptor \in Fd /\ Target = fds[dataFileDescriptor]
  BY TargetIs, FileKinds DEF DataInv
<1>2. Target.pos \in Nat /\ BUF_LEN \in Nat
  BY <1>1, ServerAssumption DEF DataFiles
<1>3. CASE use_aesd_char_device
  BY <1>2, <1>3, DeviceReadType DEF use_aesd_char_device, DataInv, DataOK
<1>4. CASE ~use_aesd_char_device
  <2>1. FileOK(dev) /\ Target.inode \in 1 .. Len(dev.contents)
    BY <1>1, <1>4 DEF use_aesd_char_device, DataInv, DataOK, InodesOK, DataFiles
  <2>. QED  BY <1>2, <1>4, <2>1, FileReadType
<1>. QED  BY <1>3, <1>4

\* An open for reading or for writing.
LEMMA OpenDataFileData ==
  ASSUME DataInv, NEW c \in Client, NEW flags \in {"ro", "rw"}, NEW ok, NEW bad,
         OpenDataFile(c, flags, ok, bad)
  PROVE  DataInv'
<1>. DEFINE file   == IF ~use_aesd_char_device /\ flags = "rw" THEN Create(dev) ELSE dev
            inode  == IF use_aesd_char_device THEN 0 ELSE file.linked
            exists == use_aesd_char_device \/ inode # 0
            new    == DataFile(c, flags, inode)
<1>1. UNCHANGED <<locals, inbox>>
  BY DEF OpenDataFile, net, locals
<1>2. \/ /\ CanOpen(fds) /\ exists
         /\ fds' = OpenFd(fds, new)
         /\ dataFileDescriptor' = LowestFd(fds)
         /\ dev' = file
      \/ dataFileDescriptor' = ERROR /\ UNCHANGED <<fds, dev>>
  BY DEF OpenDataFile
<1>3. DataOK(fds, file) /\ ("buffer" \in DOMAIN file <=> use_aesd_char_device)
  BY CreateOK DEF DataInv, use_aesd_char_device
<1>4. inode \in Nat /\ (exists /\ ~use_aesd_char_device => inode \in 1 .. Len(file.contents))
  BY <1>3 DEF DataOK, FileOK
<1>. HIDE DEF file, inode, exists
<1>5. new \in OpenFile /\ new.kind = "data" /\ new.inode = inode
  BY <1>4 DEF DataFile, OpenFile, DataFiles
<1>. HIDE DEF new
<1>6. CASE dataFileDescriptor' = ERROR /\ UNCHANGED <<fds, dev>>
  BY <1>1, <1>6 DEF DataInv, locals
<1>7. CASE /\ CanOpen(fds) /\ exists
           /\ fds' = OpenFd(fds, new)
           /\ dataFileDescriptor' = LowestFd(fds)
           /\ dev' = file
  <2>1. fds \in FileTable
    BY DEF DataInv
  <2>2. fds' \in FileTable /\ DataOK(fds', dev') /\ dataFileDescriptor' \in Fd
    BY <1>3, <1>4, <1>5, <1>7, <2>1, OpenFdOK
  <2>. QED  BY <1>1, <2>2 DEF DataInv, locals
<1>. QED  BY <1>2, <1>6, <1>7

\* A write through the global descriptor.
LEMMA WriteDataData ==
  ASSUME DataInv, NEW bytes \in Seq(Int), WriteData(bytes)
  PROVE  fds' \in FileTable /\ DataOK(fds', dev')
<1>1. CASE UNCHANGED <<dev, fds>>
  BY <1>1 DEF DataInv
<1>2. CASE Target.kind = "data"
  <2>1. Target \in DataFiles /\ dataFileDescriptor \in Fd /\ Target = fds[dataFileDescriptor]
    BY <1>2, TargetIs, FileKinds DEF DataInv
  <2>2. CASE use_aesd_char_device
    <3>1. /\ dev' = DeviceWrite(dev, bytes)
          /\ fds' = SetPos(Target.pos + Len(Accepted(bytes)))
      BY <1>2, <2>2 DEF WriteData
    <3>2. Target.pos + Len(Accepted(bytes)) \in Nat
      BY <2>1, AcceptedType, LenProperties DEF DataFiles
    <3>3. DeviceOK(dev)
      BY <2>2 DEF DataInv, DataOK, use_aesd_char_device
    <3>4. DataOK(fds, dev')
      BY <3>1, <3>3, DeviceWriteOK DEF DataOK
    <3>. QED  BY <1>2, <3>1, <3>2, <3>4, SetPosOK DEF DataInv
  <2>3. CASE ~use_aesd_char_device
    <3>1. /\ dev' = FileWrite(dev, Target.inode, bytes)
          /\ fds' = SetPos(Len(dev'.contents[Target.inode]))
      BY <1>2, <2>3 DEF WriteData
    <3>2. Target.inode \in 1 .. Len(dev.contents)
      BY <2>1, <2>3 DEF use_aesd_char_device, DataInv, DataOK, InodesOK, DataFiles
    <3>3. DataOK(fds, dev') /\ Len(dev'.contents[Target.inode]) \in Nat
      BY <2>3, <3>1, <3>2, FileWriteOK DEF DataInv, use_aesd_char_device
    <3>. QED  BY <1>2, <3>1, <3>3, SetPosOK DEF DataInv
  <2>. QED  BY <2>2, <2>3
<1>. QED  BY <1>1, <1>2 DEF WriteData

\* A write, whether it succeeds, fails or ends the process.
LEMMA WriteToData ==
  ASSUME DataInv, NEW t, NEW bytes \in Seq(Int), NEW ok, WriteTo(t, bytes, ok)
  PROVE  DataInv'
<1>1. UNCHANGED <<dataFileDescriptor, locals, inbox>>
  BY DEF WriteTo
<1>2. WriteData(bytes) \/ UNCHANGED <<dev, fds>>
  BY DEF WriteTo
<1>3. fds' \in FileTable /\ DataOK(fds', dev')
  BY <1>2, WriteDataData DEF DataInv
<1>. QED  BY <1>1, <1>3 DEF DataInv, locals

\* A seek ioctl: the numbers of the packet become unsigned first.
LEMMA IoctlData ==
  ASSUME DataInv, NEW c \in Client, Ioctl(c)
  PROVE  DataInv'
<1>1. UNCHANGED <<dataFileDescriptor, dev, locals, inbox>>
  BY DEF Ioctl, net
<1>2. CASE fds' = fds
  BY <1>1, <1>2 DEF DataInv, locals
<1>3. CASE Target.kind = "data" /\ use_aesd_char_device
  <2>1. PICK seekto \in receive_buffer[c].seekto :
               fds' = SetPos(DeviceSeekto(dev, Target.pos,
                        [cmd              |-> "AESDCHAR_IOCSEEKTO",
                         write_cmd        |-> uint32_t(seekto.write_cmd),
                         write_cmd_offset |-> uint32_t(seekto.write_cmd_offset)]))
    BY <1>3 DEF Ioctl
  <2>2. seekto.write_cmd \in Int /\ seekto.write_cmd_offset \in Int
    BY DEF DataInv, Packet
  <2>3. \A n \in Int : uint32_t(n) \in Nat
    <3>. DEFINE m == 2 ^ UintWidth
    <3>1. m \in Nat \ {0}
      BY ServerAssumption
    <3>. HIDE DEF m
    <3>2. \A n \in Int : n % m \in Nat
      BY <3>1
    <3>. QED  BY <3>2 DEF uint32_t, m
  <2>4. Target.pos \in Nat
    BY <1>3, TargetIs, FileKinds DEF DataInv, DataFiles
  <2>5. DeviceOK(dev)
    BY <1>3 DEF DataInv, DataOK, use_aesd_char_device
  <2>. DEFINE p == DeviceSeekto(dev, Target.pos,
                     [cmd              |-> "AESDCHAR_IOCSEEKTO",
                      write_cmd        |-> uint32_t(seekto.write_cmd),
                      write_cmd_offset |-> uint32_t(seekto.write_cmd_offset)])
  <2>6. p \in Nat
    BY <2>2, <2>3, <2>4, <2>5, DeviceSeektoNat
  <2>. HIDE DEF p
  <2>7. fds' = SetPos(p)
    BY <2>1 DEF p
  <2>8. fds' \in FileTable /\ DataOK(fds', dev)
    BY <1>3, <2>6, <2>7, SetPosOK DEF DataInv
  <2>. QED  BY <1>1, <2>8 DEF DataInv, locals
<1>. QED  BY <1>2, <1>3 DEF Ioctl

\* What a connection thread's own descriptor stands for.
LEMMA SocketIs ==
  ASSUME fds \in FileTable, NEW c
  PROVE  Socket(c) \in OpenFile
<1>1. CLOSED \in OpenFile
  BY DEF OpenFile
<1>. QED  BY <1>1 DEF Socket, IsOpen, FileTable

\* A recv from whatever is at that descriptor.
LEMMA RecvData ==
  ASSUME DataInv, NEW c \in Client, Recv(c)
  PROVE  DataInv'
<1>. DEFINE d == Socket(c).who
<1>1. UNCHANGED <<files, dev, send_buffer>>
  BY DEF Recv
<1>2. CASE /\ UNCHANGED <<receive_buffer, inbox>>
           /\ received' \in {received, [received EXCEPT ![c] = << >>]}
  <2>1. << >> \in Seq(Int)
    BY EmptySeq
  <2>2. received' \in [Client -> Seq(Int)]
    BY <1>2, <2>1 DEF DataInv
  <2>. QED  BY <1>1, <1>2, <2>2 DEF DataInv, files
<1>3. CASE /\ Socket(c).kind = "client"
           /\ inbox[d] # << >>
           /\ receive_buffer' = [receive_buffer EXCEPT ![c] = Head(inbox[d])]
           /\ received' = [received EXCEPT ![c] = Head(inbox[d]).data]
           /\ inbox' = [inbox EXCEPT ![d] = Tail(@)]
  <2>1. d \in Client
    BY <1>3, SocketIs, FileKinds DEF DataInv
  <2>2. inbox[d] \in Seq(Packet)
    BY <2>1 DEF DataInv
  <2>3. Head(inbox[d]) \in Packet /\ Tail(inbox[d]) \in Seq(Packet)
    BY <1>3, <2>2, HeadTailProperties
  <2>4. Head(inbox[d]).data \in Seq(Int)
    BY <2>3 DEF Packet
  <2>. HIDE DEF d
  <2>5. /\ receive_buffer' \in [Client -> Packet]
        /\ received' \in [Client -> Seq(Int)]
        /\ inbox' \in [Client -> Seq(Packet)]
    BY <1>3, <2>1, <2>3, <2>4 DEF DataInv
  <2>. QED  BY <1>1, <2>5 DEF DataInv, files
<1>. QED  BY <1>2, <1>3 DEF Recv

\* A read through the global descriptor, which may have become a connection.
LEMMA ReadData ==
  ASSUME DataInv, NEW c \in Client, Read(c)
  PROVE  DataInv'
<1>. DEFINE d == Target.who
            bytes == IF use_aesd_char_device THEN DeviceRead(dev, Target.pos, BUF_LEN)
                     ELSE FileRead(dev, Target.inode, Target.pos, BUF_LEN)
<1>1. UNCHANGED <<dataFileDescriptor, dev, receive_buffer, received>>
  BY DEF Read
<1>2. CASE UNCHANGED <<send_buffer, fds, inbox>>
  BY <1>1, <1>2 DEF DataInv
<1>3. CASE /\ Target.kind = "data"
           /\ send_buffer' = [send_buffer EXCEPT ![c] = bytes]
           /\ fds' = SetPos(Target.pos + Len(bytes))
           /\ UNCHANGED inbox
  <2>1. bytes \in Seq(Int) /\ Len(bytes) \in Nat
    BY <1>3, ReadLengthNat, LenProperties
  <2>. HIDE DEF bytes
  <2>2. Target.pos \in Nat
    BY <1>3, TargetIs, FileKinds DEF DataInv, DataFiles
  <2>3. Target.pos + Len(bytes) \in Nat
    BY <2>1, <2>2
  <2>4. fds' \in FileTable /\ DataOK(fds', dev)
    BY <1>3, <2>3, SetPosOK DEF DataInv
  <2>5. send_buffer' \in [Client -> Seq(Int)]
    BY <1>3, <2>1 DEF DataInv
  <2>. QED  BY <1>1, <1>3, <2>4, <2>5 DEF DataInv
<1>4. CASE /\ Target.kind = "client"
           /\ \/ /\ inbox[d] # << >>
                 /\ send_buffer' = [send_buffer EXCEPT ![c] = Head(inbox[d]).data]
                 /\ inbox' = [inbox EXCEPT ![d] = Tail(@)]
              \/ /\ send_buffer' = [send_buffer EXCEPT ![c] = << >>]
                 /\ UNCHANGED inbox
           /\ UNCHANGED fds
  <2>1. d \in Client
    BY <1>4, TargetIs, FileKinds DEF DataInv
  <2>2. inbox[d] \in Seq(Packet)
    BY <2>1 DEF DataInv
  <2>3. inbox[d] # << >> => Head(inbox[d]).data \in Seq(Int) /\ Tail(inbox[d]) \in Seq(Packet)
    <3>1. inbox[d] # << >> => Head(inbox[d]) \in Packet /\ Tail(inbox[d]) \in Seq(Packet)
      BY <2>2, HeadTailProperties
    <3>. QED  BY <3>1 DEF Packet
  <2>4. << >> \in Seq(Int)
    BY EmptySeq
  <2>. HIDE DEF d
  <2>5. send_buffer' \in [Client -> Seq(Int)] /\ inbox' \in [Client -> Seq(Packet)]
    BY <1>4, <2>1, <2>3, <2>4 DEF DataInv
  <2>. QED  BY <1>1, <1>4, <2>5 DEF DataInv
<1>. QED  BY <1>2, <1>3, <1>4 DEF Read

\* cleanup_on_exit closes the data file, and unlinks the plain one.
LEMMA CleanupData ==
  ASSUME DataInv, NEW at, CleanupFrom(at), UNCHANGED <<dataFileDescriptor, locals, inbox>>
  PROVE  DataInv'
<1>1. \/ fds' = CloseFd(fds, dataFileDescriptor) /\ UNCHANGED dev
      \/ dev' = Unlink(dev) /\ UNCHANGED fds
      \/ UNCHANGED <<fds, dev>>
  BY DEF CleanupFrom, CloseDataFile
<1>2. fds' \in FileTable /\ DataOK(fds', dev')
  BY <1>1, CloseFdOK, UnlinkOK DEF DataInv
<1>. QED  BY <1>2 DEF DataInv, locals

\* Every step keeps the data well formed.
LEMMA NextData == DataInv /\ [Next]_vars => DataInv'
<1>. SUFFICES ASSUME DataInv, [Next]_vars PROVE DataInv'
  OBVIOUS
<1>1. CASE UNCHANGED vars
  BY <1>1 DEF vars, files, locals, net, DataInv
<1>2. ASSUME NEW c \in Client, Connect(c) PROVE DataInv'
  <2>1. Script[c] \in Seq(Packet)
    BY ServerAssumption
  <2>2. inbox' \in [Client -> Seq(Packet)]
    BY <1>2, <2>1 DEF Connect, DataInv
  <2>. QED  BY <1>2, <2>2 DEF Connect, files, locals, DataInv
<1>3. ASSUME NEW c \in Client, Accept(c) PROVE DataInv'
  <2>1. Connection(c) \in OpenFile /\ Connection(c).kind # "data"
    BY DEF OpenFile, Connection
  <2>2. fds' \in FileTable /\ DataOK(fds', dev)
    BY <1>3, <2>1, OpenFdOK DEF Accept, DataInv
  <2>. QED  BY <1>3, <2>2 DEF Accept, locals, DataInv
<1>4. ASSUME NEW c \in Client, Recv(c) PROVE DataInv'
  BY <1>4, RecvData
<1>5. ASSUME NEW c \in Client, SeekOpen(c) \/ WriteOpen(c) \/ ReadOpen(c) PROVE DataInv'
  BY <1>5, OpenDataFileData DEF SeekOpen, WriteOpen, ReadOpen
<1>6. ASSUME NEW c \in Client, Ioctl(c) PROVE DataInv'
  BY <1>6, IoctlData
<1>7. ASSUME NEW c \in Client, Write(c) PROVE DataInv'
  BY <1>7, WriteToData DEF Write, DataInv
<1>8. ASSUME NEW c \in Client, WriteClose(c) \/ ClientClose(c) \/ DataClose(c) PROVE DataInv'
  <2>1. /\ fds' = CloseFd(fds, dataFileDescriptor) \/ fds' = CloseFd(fds, fd[c])
        /\ UNCHANGED <<dataFileDescriptor, dev, locals, net>>
    BY <1>8 DEF WriteClose, ClientClose, DataClose
  <2>2. fds' \in FileTable /\ DataOK(fds', dev)
    BY <2>1, CloseFdOK DEF DataInv
  <2>. QED  BY <2>1, <2>2 DEF DataInv, locals, net
<1>9. ASSUME NEW c \in Client, Rewind(c) PROVE DataInv'
  <2>1. fds' \in FileTable /\ DataOK(fds', dev)
    BY <1>9, SetPosOK DEF Rewind, DataInv
  <2>. QED  BY <1>9, <2>1 DEF Rewind, DataInv, locals, net
<1>10. ASSUME NEW c \in Client, Read(c) PROVE DataInv'
  BY <1>10, ReadData
<1>11. ASSUME Runs(timestamps, "write_t"), WriteTo(timestamps, Timestamp, "unlock_t") PROVE DataInv'
  BY <1>11, WriteToData, ServerAssumption
<1>12. CASE MainCleanup
  <2>1. \E at \in CleanupLabels : CleanupFrom(at) /\ UNCHANGED <<dataFileDescriptor, locals, inbox>>
    BY <1>12 DEF MainCleanup, net
  <2>. QED  BY <2>1, CleanupData
<1>13. ASSUME NEW t \in Thread, HandlerCleanup(t) PROVE DataInv'
  <2>1. \E at \in CleanupLabels : CleanupFrom(at) /\ UNCHANGED <<dataFileDescriptor, locals, inbox>>
    BY <1>13 DEF HandlerCleanup, net
  <2>. QED  BY <2>1, CleanupData
<1>14. ASSUME UNCHANGED <<files, dev, locals, inbox>> PROVE DataInv'
  BY <1>14 DEF files, locals, DataInv
<1>15. ASSUME \/ StopAccepting \/ Spawn \/ Insert \/ Reap \/ ReapLog \/ MainReturns
              \/ StampStart \/ Sleep \/ ClockFails
       PROVE  UNCHANGED <<files, dev, locals, inbox>>
  BY <1>15 DEF StopAccepting, Spawn, Insert, Reap, ReapLog, MainReturns, StampStart, Sleep,
               ClockFails, net
<1>16. ASSUME NEW c \in Client,
              HangUp(c) \/ ClientStart(c) \/ RecvFails(c) \/ Send(c) \/ Complete(c)
       PROVE  UNCHANGED <<files, dev, locals, inbox>>
  BY <1>16 DEF HangUp, ClientStart, RecvFails, Send, Complete, net
<1>17. ASSUME NEW t, NEW from, NEW to, Lock(t, from, to) \/ Unlock(t, from, to)
       PROVE  UNCHANGED <<files, dev, locals, inbox>>
  BY <1>17 DEF Lock, Unlock, net
<1>18. ASSUME NEW t, NEW sig, \/ CrashOnFreedNode(t) \/ handle_termination(t, sig)
                              \/ HandlerShutdown(t) \/ HandlerRaises(t)
       PROVE  UNCHANGED <<files, dev, locals, inbox>>
  BY <1>18 DEF CrashOnFreedNode, handle_termination, HandlerShutdown, HandlerRaises, net
<1>19. ASSUME MainStep \/ AcceptFails \/ log_timestamps \/ ClockFails PROVE DataInv'
  BY <1>19, <1>3, <1>11, <1>12, <1>14, <1>15, <1>17, <1>18
     DEF MainStep, AcceptStops, AcceptFails, log_timestamps
<1>20. ASSUME NEW c \in Client, ClientStep(c) \/ RecvFails(c) \/ Connect(c) \/ HangUp(c)
       PROVE  DataInv'
  BY <1>20, <1>2, <1>4, <1>5, <1>6, <1>7, <1>8, <1>9, <1>10, <1>14, <1>16, <1>17, <1>18
     DEF ClientStep, WriteLock, WriteUnlock, ReadLock, ReadUnlock
<1>21. ASSUME NEW t \in Thread, HandlerStep(t) \/ \E sig \in unsent : handle_termination(t, sig)
       PROVE  DataInv'
  BY <1>21, <1>13, <1>14, <1>18 DEF HandlerStep
<1>. QED  BY <1>1, <1>19, <1>20, <1>21 DEF Next

-----------------------------------------------------------------------------
(***************************************************************************)
(* Where the threads can be.                                               *)
(***************************************************************************)
ClientLabels ==
  UsesNode \cup Finished
    \cup {"none", "seek_open", "ioctl", "open_w", "write", "close_w", "open_r", "lseek", "read",
          "close_d"}

MainLabels == CleanupLabels \cup {"accept", "spawn", "insert", "reap", "reap_log", "cl_end"}

StampLabels == Finished \cup {"none", "start_t", "sleep", "lock_t", "write_t", "unlock_t"}

Places ==
  /\ pc \in [Thread -> Labels]
  /\ \A c \in Client : pc[c] \in ClientLabels
  /\ pc[main] \in MainLabels
  /\ pc[timestamps] \in StampLabels

\* The three kinds of threads are different threads.
LEMMA Distinct ==
  /\ main \in Thread /\ timestamps \in Thread /\ Client \subseteq Thread
  /\ main \notin Client /\ timestamps \notin Client /\ main # timestamps
  BY ServerAssumption DEF Thread

\* A connection thread moves to one of its labels.
LEMMA GotoClient ==
  ASSUME Places, NEW c \in Client, NEW l \in ClientLabels, Goto(c, l)
  PROVE  Places'
<1>1. ClientLabels \subseteq Labels
  BY DEF ClientLabels, Labels, Critical
<1>. QED  BY <1>1, Distinct DEF Places, Goto

\* The main thread moves to one of its labels.
LEMMA GotoMain ==
  ASSUME Places, NEW l \in MainLabels, Goto(main, l)
  PROVE  Places'
<1>1. MainLabels \subseteq Labels
  BY DEF MainLabels, Labels
<1>. QED  BY <1>1, Distinct DEF Places, Goto

\* The timestamp thread moves to one of its labels.
LEMMA GotoStamp ==
  ASSUME Places, NEW l \in StampLabels, Goto(timestamps, l)
  PROVE  Places'
<1>1. StampLabels \subseteq Labels
  BY DEF StampLabels, Labels, Critical
<1>. QED  BY <1>1, Distinct DEF Places, Goto

\* Where the threads are when main enters the accept loop.
LEMMA InitPlaces == Init => Places
<1>. SUFFICES ASSUME Init PROVE Places
  OBVIOUS
<1>1. PICK ts \in {"none", "start_t"} :
        pc = [t \in Thread |-> CASE t = main -> "accept" [] t = timestamps -> ts [] OTHER -> "none"]
  BY DEF Init, setup_time_logging
<1>2. pc[main] = "accept" /\ pc[timestamps] = ts /\ \A c \in Client : pc[c] = "none"
  BY <1>1, Distinct
<1>3. \A t \in Thread : pc[t] \in {"accept", "none", "start_t"}
  BY <1>2 DEF Thread
<1>4. {"accept", "none", "start_t"} \subseteq Labels
  BY DEF Labels
<1>5. pc \in [Thread -> Labels]
  BY <1>1, <1>3, <1>4
<1>. QED  BY <1>2, <1>5 DEF Places, ClientLabels, MainLabels, StampLabels

\* A cleanup goes on with a cleanup until it has ended.
LEMMA AfterCleanupType ==
  ASSUME NEW at \in CleanupLabels
  PROVE  AfterCleanup(at) \in CleanupLabels \cup {"cl_end"}
  BY DEF CleanupLabels, AfterCleanup

(***************************************************************************)
(* The list of nodes.  A connection is accepted once and its node put on   *)
(* the list once: main's loop variable is a node that is not there yet     *)
(* between accept and SLIST_INSERT_HEAD.                                   *)
(***************************************************************************)
ListInv ==
  /\ head \in Seq(Client) /\ IsInjective(head)
  /\ node \in Client \cup {NULL} /\ iter \in Client \cup {NULL}
  /\ fd \in [Client -> Fd \cup {ERROR}]
  /\ \A c \in Client : fd[c] = ERROR => pc[c] = "none" /\ ~Contains(head, c)
  /\ pc[main] \in {"spawn", "insert"} =>
       iter \in Client /\ fd[iter] # ERROR /\ ~Contains(head, iter)
  /\ pc[main] = "spawn" => pc[iter] = "none"

\* Every step leaves every thread at one of its own places.
LEMMA NextPlaces == Places /\ ListInv /\ [Next]_vars => Places'
<1>. SUFFICES ASSUME Places, ListInv, [Next]_vars PROVE Places'
  OBVIOUS
<1>1. ASSUME UNCHANGED pc PROVE Places'
  BY <1>1 DEF Places
<1>2. ASSUME NEW c \in Client, NEW l, Goto(c, l),
             l \in {"recv", "failed", "seek_open", "open_w", "ioctl", "lock_w", "lseek", "lock_r",
                    "open_r", "write", "close_w", "read", "send", "unlock_w", "unlock_r",
                    "complete", "close_c", "close_d", "done"}
      PROVE  Places'
  <2>1. l \in ClientLabels
    BY <1>2 DEF ClientLabels, UsesNode, Finished
  <2>. QED  BY <1>2, <2>1, GotoClient
<1>3. ASSUME NEW c \in Client, Accept(c) PROVE Places'
  BY <1>3, GotoMain DEF Accept, MainLabels
<1>4. CASE StopAccepting
  BY <1>4, GotoMain DEF StopAccepting, MainLabels, CleanupLabels
<1>5. CASE Spawn
  <2>1. CASE Goto(main, "insert") \/ Goto(main, "cl_close")
    BY <2>1, GotoMain DEF MainLabels, CleanupLabels
  <2>2. CASE pc' = [pc EXCEPT ![main] = "insert", ![iter] = "start"]
    <3>1. /\ "insert" \in Labels /\ "start" \in Labels /\ "insert" \in MainLabels
          /\ "start" \in ClientLabels
      BY DEF Labels, UsesNode, MainLabels, ClientLabels
    <3>2. iter \in Client
      BY <1>5 DEF ListInv, Spawn, Runs
    <3>. QED  BY <2>2, <3>1, <3>2, Distinct DEF Places
  <2>3. \/ Goto(main, "insert") \/ Goto(main, "cl_close")
        \/ pc' = [pc EXCEPT ![main] = "insert", ![iter] = "start"]
    BY <1>5, Zenon DEF Spawn
  <2>. QED  BY <2>1, <2>2, <2>3
<1>6. CASE Insert
  BY <1>6, GotoMain DEF Insert, MainLabels
<1>7. CASE Reap
  <2>1. \/ UNCHANGED pc \/ Goto(main, "accept") \/ Goto(main, "reap_log")
        \/ Goto(main, "cl_close")
    BY <1>7 DEF Reap
  <2>. QED  BY <1>1, <2>1, GotoMain DEF MainLabels, CleanupLabels
<1>8. CASE MainCleanup \/ ReapLog
  BY <1>8, AfterCleanupType, GotoMain DEF MainCleanup, ReapLog, MainLabels
<1>9. ASSUME NEW c \in Client, ClientStart(c) \/ RecvFails(c) \/ Recv(c) \/ Rewind(c) PROVE Places'
  BY <1>2, <1>9 DEF ClientStart, RecvFails, Recv, Rewind
<1>10. ASSUME NEW c \in Client, SeekOpen(c) \/ WriteOpen(c) \/ ReadOpen(c) PROVE Places'
  BY <1>2, <1>10 DEF SeekOpen, WriteOpen, ReadOpen, OpenDataFile, Answer
<1>11. ASSUME NEW c \in Client, Ioctl(c) \/ WriteClose(c) PROVE Places'
  BY <1>2, <1>11 DEF Ioctl, WriteClose, AfterChunk, Answer
<1>12. ASSUME NEW c \in Client, WriteLock(c) \/ WriteUnlock(c) \/ ReadLock(c) \/ ReadUnlock(c)
       PROVE  Places'
  BY <1>2, <1>12 DEF WriteLock, WriteUnlock, ReadLock, ReadUnlock, Lock, Unlock
<1>13. ASSUME NEW c \in Client, Write(c) PROVE Places'
  BY <1>1, <1>2, <1>13 DEF Write, WriteTo
<1>14. ASSUME NEW c \in Client, Read(c) \/ Send(c) PROVE Places'
  <2>1. UNCHANGED pc \/ \E l \in {"unlock_r", "failed", "close_c", "lock_r"} : Goto(c, l)
    BY <1>14 DEF Read, Send, AfterSend
  <2>. QED  BY <1>1, <1>2, <2>1
<1>15. ASSUME NEW c \in Client, ClientClose(c) \/ Complete(c) \/ DataClose(c) PROVE Places'
  BY <1>2, <1>15 DEF ClientClose, Complete, DataClose
<1>16. CASE log_timestamps \/ ClockFails
  <2>1. UNCHANGED pc \/ \E l \in StampLabels : Goto(timestamps, l)
    BY <1>16 DEF log_timestamps, ClockFails, StampStart, Sleep, Lock, Unlock, WriteTo, StampLabels,
                 Finished
  <2>. QED  BY <1>1, <2>1, GotoStamp
<1>17. ASSUME NEW t, NEW sig, NEW c,
              \/ CrashOnFreedNode(t) \/ handle_termination(t, sig) \/ HandlerStep(t)
              \/ MainReturns \/ Connect(c) \/ HangUp(c)
       PROVE  UNCHANGED pc
  BY <1>17 DEF CrashOnFreedNode, handle_termination, HandlerStep, HandlerShutdown, HandlerCleanup,
               HandlerRaises, MainReturns, Connect, HangUp
<1>18. CASE MainStep \/ AcceptFails
  BY <1>18, <1>1, <1>3, <1>4, <1>5, <1>6, <1>7, <1>8, <1>17 DEF MainStep, AcceptStops, AcceptFails
<1>19. ASSUME NEW c \in Client, ClientStep(c) \/ RecvFails(c) \/ Connect(c) \/ HangUp(c)
       PROVE  Places'
  BY <1>19, <1>1, <1>9, <1>10, <1>11, <1>12, <1>13, <1>14, <1>15, <1>17 DEF ClientStep
<1>20. ASSUME NEW t \in Thread, HandlerStep(t) \/ \E sig \in unsent : handle_termination(t, sig)
       PROVE  Places'
  BY <1>20, <1>1, <1>17
<1>. QED  BY <1>1, <1>16, <1>18, <1>19, <1>20 DEF Next, vars

\* What the list operations do.
LEMMA PushedIs ==
  ASSUME NEW s \in Seq(Client), NEW c \in Client
  PROVE  /\ <<c>> \o s \in Seq(Client)
         /\ \A d \in Client : Contains(<<c>> \o s, d) <=> d = c \/ Contains(s, d)
         /\ IsInjective(s) /\ ~Contains(s, c) => IsInjective(<<c>> \o s)
<1>. DEFINE r == <<c>> \o s
<1>1. <<c>> \in Seq(Client) /\ Len(<<c>>) = 1 /\ <<c>>[1] = c /\ Len(s) \in Nat
  BY LenProperties
<1>2. /\ r \in Seq(Client) /\ Len(r) = 1 + Len(s)
      /\ \A i \in 1 .. 1 + Len(s) : r[i] = IF i <= 1 THEN <<c>>[i] ELSE s[i - 1]
  BY <1>1, ConcatProperties
<1>. HIDE DEF r
<1>3. r[1] = c /\ \A i \in 1 .. Len(s) : r[i + 1] = s[i]
  BY <1>1, <1>2
<1>4. \A d \in Client : Contains(r, d) <=> d = c \/ Contains(s, d)
  <2>. SUFFICES ASSUME NEW d \in Client PROVE Contains(r, d) <=> d = c \/ Contains(s, d)
    OBVIOUS
  <2>1. Contains(r, d) => d = c \/ Contains(s, d)
    <3>. SUFFICES ASSUME NEW i \in 1 .. Len(r), r[i] = d, d # c PROVE Contains(s, d)
      BY DEF Contains
    <3>1. i - 1 \in 1 .. Len(s) /\ s[i - 1] = d
      BY <1>1, <1>2
    <3>. QED  BY <3>1 DEF Contains
  <2>2. Contains(s, d) => Contains(r, d)
    <3>. SUFFICES ASSUME NEW i \in 1 .. Len(s), s[i] = d PROVE Contains(r, d)
      BY DEF Contains
    <3>1. i + 1 \in 1 .. Len(r) /\ r[i + 1] = d
      BY <1>1, <1>2, <1>3
    <3>. QED  BY <3>1 DEF Contains
  <2>3. 1 \in 1 .. Len(r)
    BY <1>1, <1>2
  <2>4. d = c => Contains(r, d)
    BY <1>3, <2>3 DEF Contains
  <2>. QED  BY <2>1, <2>2, <2>4
<1>5. ASSUME IsInjective(s), ~Contains(s, c) PROVE IsInjective(r)
  <2>. SUFFICES ASSUME NEW i \in 1 .. Len(r), NEW j \in 1 .. Len(r), r[i] = r[j] PROVE i = j
    BY <1>2, LenProperties DEF IsInjective
  <2>1. \A k \in 1 .. Len(r) : k # 1 => k - 1 \in 1 .. Len(s) /\ r[k] = s[k - 1]
    BY <1>1, <1>2
  <2>2. \A k \in 1 .. Len(s) : s[k] # c
    BY <1>5 DEF Contains
  <2>3. i = 1 <=> j = 1
    BY <1>3, <2>1, <2>2
  <2>4. CASE i # 1 /\ j # 1
    <3>1. i - 1 \in DOMAIN s /\ j - 1 \in DOMAIN s /\ s[i - 1] = s[j - 1]
      BY <2>1, <2>4, LenProperties
    <3>2. i - 1 = j - 1
      BY <1>5, <3>1 DEF IsInjective
    <3>. QED  BY <1>2, <3>2
  <2>. QED  BY <2>3, <2>4
<1>. QED  BY <1>2, <1>4, <1>5 DEF r

\* SLIST_REMOVE of a node that is on the list.
LEMMA RemovedIs ==
  ASSUME NEW s \in Seq(Client), NEW c \in Client, Contains(s, c)
  PROVE  /\ RemoveFirst(s, c) \in Seq(Client)
         /\ \A d : Contains(RemoveFirst(s, c), d) => Contains(s, d)
         /\ IsInjective(s) => IsInjective(RemoveFirst(s, c)) /\ ~Contains(RemoveFirst(s, c), c)
<1>. DEFINE T == {i \in 1 .. Len(s) : s[i] = c}
            k == Min(T)
            a == SubSeq(s, 1, k - 1)
            b == SubSeq(s, k + 1, Len(s))
            r == a \o b
            f(i) == IF i < k THEN i ELSE i + 1
<1>1. T \in SUBSET Nat /\ T # {}
  BY DEF Contains
<1>2. k \in T
  <2>. HIDE DEF T
  <2>. QED  BY <1>1, MinIs
<1>3. k \in 1 .. Len(s) /\ Len(s) \in Nat
  BY <1>2, LenProperties
<1>4. SelectInSeq(s, LAMBDA v : v = c) = k
  BY <1>1 DEF SelectInSeq
<1>5. RemoveFirst(s, c) = r
  BY <1>4 DEF RemoveFirst, RemoveAt, Contains
<1>. HIDE DEF k
<1>6. \A i \in 1 .. Len(s) : s[i] \in Client
  BY ElementOfSeq
<1>7. /\ a \in Seq(Client) /\ Len(a) = k - 1 /\ \A i \in 1 .. k - 1 : a[i] = s[i]
  <2>1. \A i \in 1 .. k - 1 : s[i] \in Client
    BY <1>3, <1>6
  <2>2. 1 \in Int /\ k - 1 \in Int
    BY <1>3
  <2>3. /\ a \in Seq(Client)
        /\ Len(a) = IF 1 <= k - 1 THEN (k - 1) - 1 + 1 ELSE 0
        /\ \A i \in 1 .. (k - 1) - 1 + 1 : a[i] = s[1 + i - 1]
    BY <2>1, <2>2, SubSeqProperties
  <2>. HIDE DEF a
  <2>. QED  BY <1>3, <2>3
<1>8. /\ b \in Seq(Client) /\ Len(b) = Len(s) - k /\ \A i \in 1 .. Len(s) - k : b[i] = s[k + i]
  <2>1. \A i \in k + 1 .. Len(s) : s[i] \in Client
    BY <1>3, <1>6
  <2>2. k + 1 \in Int /\ Len(s) \in Int
    BY <1>3
  <2>3. /\ b \in Seq(Client)
        /\ Len(b) = IF k + 1 <= Len(s) THEN Len(s) - (k + 1) + 1 ELSE 0
        /\ \A i \in 1 .. Len(s) - (k + 1) + 1 : b[i] = s[(k + 1) + i - 1]
    BY <2>1, <2>2, SubSeqProperties
  <2>. HIDE DEF b
  <2>. QED  BY <1>3, <2>3
<1>. HIDE DEF a, b
<1>9. /\ r \in Seq(Client) /\ Len(r) = Len(a) + Len(b)
      /\ \A i \in 1 .. Len(a) + Len(b) : r[i] = IF i <= Len(a) THEN a[i] ELSE b[i - Len(a)]
  BY <1>7, <1>8, ConcatProperties
<1>. HIDE DEF r
<1>10. Len(r) = Len(s) - 1 /\ \A i \in 1 .. Len(s) - 1 : f(i) \in 1 .. Len(s) /\ r[i] = s[f(i)]
  <2>1. Len(a) + Len(b) = Len(s) - 1 /\ Len(r) = Len(s) - 1
    BY <1>3, <1>7, <1>8, <1>9
  <2>. SUFFICES ASSUME NEW i \in 1 .. Len(s) - 1
                PROVE  f(i) \in 1 .. Len(s) /\ r[i] = s[f(i)]
    BY <2>1
  <2>2. r[i] = IF i <= k - 1 THEN a[i] ELSE b[i - (k - 1)]
    BY <1>7, <1>9, <2>1, Zenon
  <2>3. CASE i < k
    <3>1. i \in 1 .. k - 1 /\ i <= k - 1
      BY <1>3, <2>3
    <3>. QED  BY <1>3, <1>7, <2>2, <2>3, <3>1
  <2>4. CASE ~(i < k)
    <3>1. i - (k - 1) \in 1 .. Len(s) - k /\ k + (i - (k - 1)) = i + 1 /\ ~(i <= k - 1)
      BY <1>3, <2>4
    <3>2. b[i - (k - 1)] = s[k + (i - (k - 1))]
      BY <1>8, <3>1, Zenon
    <3>. QED  BY <1>3, <2>2, <2>4, <3>1, <3>2
  <2>. QED  BY <2>3, <2>4
<1>11. \A i, j \in 1 .. Len(s) - 1 : f(i) = f(j) => i = j
  BY <1>3
<1>. HIDE DEF f
<1>12. \A d : Contains(r, d) => Contains(s, d)
  BY <1>10 DEF Contains
<1>13. ASSUME IsInjective(s) PROVE IsInjective(r)
  <2>1. DOMAIN r = 1 .. Len(s) - 1 /\ DOMAIN s = 1 .. Len(s)
    BY <1>9, <1>10, LenProperties
  <2>. QED  BY <1>10, <1>11, <1>13, <2>1 DEF IsInjective
<1>14. ASSUME IsInjective(s) PROVE ~Contains(r, c)
  <2>1. DOMAIN s = 1 .. Len(s) /\ s[k] = c
    BY <1>2, LenProperties
  <2>2. \A i \in 1 .. Len(s) - 1 : f(i) # k
    BY <1>3 DEF f
  <2>3. \A i \in 1 .. Len(s) - 1 : s[f(i)] # c
    BY <1>3, <1>10, <1>14, <2>1, <2>2 DEF IsInjective
  <2>. QED  BY <1>10, <2>3 DEF Contains
<1>. QED  BY <1>5, <1>9, <1>12, <1>13, <1>14

\* The list starts empty.
LEMMA InitList == Init => ListInv
<1>. SUFFICES ASSUME Init PROVE ListInv
  OBVIOUS
<1>1. Places
  BY InitPlaces
<1>2. head = << >> /\ head \in Seq(Client) /\ Len(head) = 0 /\ DOMAIN head = {}
  BY EmptySeq, LenProperties DEF Init
<1>3. IsInjective(head) /\ \A c \in Client : ~Contains(head, c)
  BY <1>2 DEF IsInjective, Contains
<1>4. pc[main] = "accept" /\ \A c \in Client : pc[c] = "none"
  BY Distinct DEF Init
<1>. QED  BY <1>2, <1>3, <1>4 DEF Init, ListInv

(***************************************************************************)
(* What the steps of a connection thread and of the timestamp thread have  *)
(* in common: the thread runs, only its own place changes, and the list    *)
(* and the nodes' memory stay as they are.                                 *)
(***************************************************************************)
LocalStep(t) ==
  /\ Alive(t) /\ pc[t] # "none" /\ proc = "running"
  /\ UNCHANGED pc \/ \E l : Goto(t, l)
  /\ UNCHANGED <<head, node, memory, iter, fd, handler, fatal_error_in_progress, peer>>

\* Every step of a connection thread is such a step.
LEMMA ClientStepLocal ==
  ASSUME NEW c \in Client, ClientStep(c) \/ RecvFails(c)
  PROVE  LocalStep(c)
<1>. USE DEF LocalStep, Runs, Alive, Finished, files, nodes, threads, locals, signals, net
<1>1. CASE ClientStart(c) \/ RecvFails(c) \/ Rewind(c)
  BY <1>1 DEF ClientStart, RecvFails, Rewind
<1>2. CASE Recv(c)
  BY <1>2 DEF Recv
<1>3. CASE SeekOpen(c) \/ WriteOpen(c) \/ ReadOpen(c)
  BY <1>3 DEF SeekOpen, WriteOpen, ReadOpen, OpenDataFile
<1>4. CASE Ioctl(c) \/ WriteClose(c) \/ ClientClose(c) \/ DataClose(c) \/ Complete(c)
  BY <1>4 DEF Ioctl, WriteClose, ClientClose, DataClose, Complete
<1>5. CASE WriteLock(c) \/ ReadLock(c) \/ WriteUnlock(c) \/ ReadUnlock(c)
  BY <1>5 DEF WriteLock, ReadLock, WriteUnlock, ReadUnlock, Lock, Unlock
<1>6. CASE Write(c)
  BY <1>6 DEF Write, WriteTo
<1>7. CASE Read(c)
  BY <1>7 DEF Read
<1>8. CASE Send(c)
  BY <1>8 DEF Send
<1>9. CASE CrashOnFreedNode(c)
  BY <1>9, Distinct DEF CrashOnFreedNode, UsesFreedNode, UsesNode
<1>. QED  BY <1>1, <1>2, <1>3, <1>4, <1>5, <1>6, <1>7, <1>8, <1>9 DEF ClientStep

\* So is every step of the timestamp thread.
LEMMA StampStepLocal ==
  ASSUME log_timestamps \/ ClockFails
  PROVE  LocalStep(timestamps)
<1>. USE DEF LocalStep, Runs, Alive, Finished, files, nodes, threads, locals, signals, net
<1>1. CASE StampStart \/ Sleep \/ ClockFails
  BY <1>1 DEF StampStart, Sleep, ClockFails
<1>2. CASE Lock(timestamps, "lock_t", "write_t")
  BY <1>2 DEF Lock
<1>3. CASE Unlock(timestamps, "unlock_t", "sleep")
  BY <1>3 DEF Unlock
<1>4. CASE Runs(timestamps, "write_t") /\ WriteTo(timestamps, Timestamp, "unlock_t")
  BY <1>4 DEF WriteTo
<1>. QED  BY <1>1, <1>2, <1>3, <1>4 DEF log_timestamps

\* Steps that leave the list alone.
LEMMA ListFrame ==
  ASSUME ListInv, UNCHANGED <<head, node, iter, fd>>,
         pc'[main] = pc[main] \/ pc'[main] \notin {"spawn", "insert"},
         \A c \in Client : pc[c] = "none" => pc'[c] = "none"
  PROVE  ListInv'
  BY DEF ListInv

\* Such a step keeps what is known of the list.
LEMMA LocalList ==
  ASSUME Places, ListInv, NEW t \in Client \cup {timestamps}, LocalStep(t)
  PROVE  ListInv'
<1>1. t # main /\ pc[t] # "none" /\ t \in Thread
  BY Distinct DEF LocalStep
<1>2. pc'[main] = pc[main] /\ \A c \in Client : pc[c] = "none" => pc'[c] = "none"
  BY <1>1, Distinct DEF LocalStep, Goto, Places
<1>. QED  BY <1>2, ListFrame DEF LocalStep

\* Removing nodes.
LEMMA CleanupList ==
  ASSUME Places, ListInv, NEW at, CleanupFrom(at), UNCHANGED <<iter, fd>>,
         pc'[main] = pc[main] \/ pc'[main] \notin {"spawn", "insert"},
         \A c \in Client : pc'[c] = pc[c]
  PROVE  ListInv'
<1>1. CASE UNCHANGED <<head, node>>
  BY <1>1, ListFrame
<1>2. CASE head # << >> /\ node' = Head(head) /\ UNCHANGED head
  <2>1. node' \in Client
    BY <1>2, HeadTailProperties DEF ListInv
  <2>. QED  BY <1>2, <2>1 DEF ListInv
<1>3. CASE node' = NULL /\ UNCHANGED head
  BY <1>3 DEF ListInv
<1>4. CASE Contains(head, node) /\ head' = RemoveFirst(head, node) /\ UNCHANGED node
  <2>1. node \in Client
    BY <1>4, ElementOfSeq DEF ListInv, Contains
  <2>2. /\ head' \in Seq(Client) /\ IsInjective(head')
        /\ \A d : Contains(head', d) => Contains(head, d)
    BY <1>4, <2>1, RemovedIs DEF ListInv
  <2>. QED  BY <1>4, <2>2 DEF ListInv
<1>. QED  BY <1>1, <1>2, <1>3, <1>4 DEF CleanupFrom, RemoveNode

\* The node after any, also after one that has left the list.
LEMMA NextNodeType ==
  ASSUME ListInv, NEW c
  PROVE  NextNode(c) \in Client \cup {NULL}
<1>. DEFINE T == {i \in 1 .. Len(head) : head[i] = c}
            i == IF Contains(head, c) THEN SelectInSeq(head, LAMBDA d : d = c) ELSE 0
<1>1. NextNode(c) = IF i < Len(head) THEN head[i + 1] ELSE NULL
  BY DEF NextNode
<1>2. i \in 0 .. Len(head) /\ Len(head) \in Nat
  <2>1. Len(head) \in Nat
    BY LenProperties DEF ListInv
  <2>2. CASE Contains(head, c)
    <3>1. T \in SUBSET Nat /\ T # {}
      BY <2>2 DEF Contains
    <3>2. Min(T) \in T
      <4>. HIDE DEF T
      <4>. QED  BY <3>1, MinIs
    <3>3. SelectInSeq(head, LAMBDA d : d = c) = Min(T)
      BY <3>1 DEF SelectInSeq
    <3>. QED  BY <2>1, <2>2, <3>2, <3>3
  <2>. QED  BY <2>1, <2>2
<1>. HIDE DEF i
<1>3. i < Len(head) => i + 1 \in 1 .. Len(head)
  BY <1>2
<1>. QED  BY <1>1, <1>3, ElementOfSeq DEF ListInv

\* Every step keeps what is known of the list.
LEMMA NextList == Places /\ ListInv /\ DataInv /\ [Next]_vars => ListInv'
<1>. SUFFICES ASSUME Places, ListInv, DataInv, [Next]_vars PROVE ListInv'
  OBVIOUS
<1>1. ASSUME UNCHANGED <<head, node, iter, fd, pc>> PROVE ListInv'
  BY <1>1 DEF ListInv
<1>2. ASSUME NEW c \in Client, Accept(c) PROVE ListInv'
  <2>1. /\ CanOpen(fds) /\ fd[c] = ERROR /\ iter' = c /\ UNCHANGED <<head, node>>
        /\ fd' = [fd EXCEPT ![c] = LowestFd(fds)] /\ pc' = [pc EXCEPT ![main] = "spawn"]
    BY <1>2 DEF Accept, Goto, nodes
  <2>2. LowestFd(fds) \in Fd /\ LowestFd(fds) # ERROR
    BY <2>1, LowestFdIsFree, MaxFdAssumption DEF Fd, ERROR
  <2>3. \A d \in Client : pc'[d] = pc[d]
    BY <2>1, Distinct DEF Places
  <2>4. pc[c] = "none" /\ ~Contains(head, c)
    BY <2>1 DEF ListInv
  <2>. QED  BY <2>1, <2>2, <2>3, <2>4 DEF ListInv
<1>3. CASE StopAccepting
  <2>1. UNCHANGED <<head, node, iter, fd>> /\ pc' = [pc EXCEPT ![main] = "cl_close"]
    BY <1>3 DEF StopAccepting, Goto, nodes, threads
  <2>. QED  BY <2>1, ListFrame, Distinct DEF Places
<1>4. CASE Spawn
  <2>1. pc[main] = "spawn" /\ UNCHANGED <<head, node, iter, fd>>
    BY <1>4 DEF Spawn, Runs
  <2>2. \/ pc' = [pc EXCEPT ![main] = "insert"]
        \/ pc' = [pc EXCEPT ![main] = "cl_close"]
        \/ pc' = [pc EXCEPT ![main] = "insert", ![iter] = "start"]
    BY <1>4, Zenon DEF Spawn, Goto
  <2>3. iter \in Client /\ fd[iter] # ERROR /\ ~Contains(head, iter)
    BY <2>1 DEF ListInv
  <2>4. pc'[main] # "spawn" /\ \A c \in Client : c # iter => pc'[c] = pc[c]
    BY <2>2, <2>3, Distinct DEF Places
  <2>. QED  BY <2>1, <2>3, <2>4 DEF ListInv
<1>5. CASE Insert
  <2>1. /\ pc[main] = "insert" /\ UNCHANGED <<node, iter, fd>> /\ head' = <<iter>> \o head
        /\ pc' = [pc EXCEPT ![main] = "reap"]
    BY <1>5 DEF Insert, Runs, Goto, threads
  <2>2. iter \in Client /\ fd[iter] # ERROR /\ ~Contains(head, iter)
    BY <2>1 DEF ListInv
  <2>3. /\ head' \in Seq(Client) /\ IsInjective(head')
        /\ \A d \in Client : Contains(head', d) <=> d = iter \/ Contains(head, d)
    BY <2>1, <2>2, PushedIs DEF ListInv
  <2>4. pc'[main] = "reap" /\ \A c \in Client : pc'[c] = pc[c]
    BY <2>1, Distinct DEF Places
  <2>. QED  BY <2>1, <2>2, <2>3, <2>4 DEF ListInv
<1>6. CASE Reap \/ ReapLog
  <2>1. /\ pc[main] \in {"reap", "reap_log"} /\ UNCHANGED <<head, node, fd>>
        /\ UNCHANGED iter \/ iter' = NextNode(iter)
        /\ \/ UNCHANGED pc
           \/ \E l \in {"accept", "reap", "reap_log", "cl_close"} : pc' = [pc EXCEPT ![main] = l]
    BY <1>6 DEF Reap, ReapLog, Runs, Goto, nodes, threads
  <2>2. iter' \in Client \cup {NULL}
    BY <2>1, NextNodeType DEF ListInv
  <2>3. pc'[main] \notin {"spawn", "insert"} /\ \A c \in Client : pc'[c] = pc[c]
    BY <2>1, Distinct DEF Places
  <2>. QED  BY <2>1, <2>2, <2>3 DEF ListInv
<1>7. CASE MainCleanup
  <2>1. PICK at \in CleanupLabels : /\ CleanupFrom(at) /\ Goto(main, AfterCleanup(at))
                                    /\ UNCHANGED <<iter, fd>>
    BY <1>7 DEF MainCleanup, threads
  <2>2. pc'[main] \notin {"spawn", "insert"} /\ \A c \in Client : pc'[c] = pc[c]
    BY <2>1, AfterCleanupType, Distinct DEF Goto, Places, CleanupLabels
  <2>. QED  BY <2>1, <2>2, CleanupList
<1>8. ASSUME NEW t \in Thread, HandlerCleanup(t) PROVE ListInv'
  <2>1. PICK at \in CleanupLabels : CleanupFrom(at) /\ UNCHANGED <<pc, iter, fd>>
    BY <1>8 DEF HandlerCleanup, threads
  <2>. QED  BY <2>1, CleanupList
<1>9. ASSUME NEW c \in Client, ClientStep(c) \/ RecvFails(c) PROVE ListInv'
  BY <1>9, ClientStepLocal, LocalList
<1>10. CASE log_timestamps \/ ClockFails
  BY <1>10, StampStepLocal, LocalList
<1>11. ASSUME NEW t, NEW sig, NEW c,
              \/ CrashOnFreedNode(t) \/ handle_termination(t, sig) \/ HandlerShutdown(t)
              \/ HandlerRaises(t) \/ MainReturns \/ Connect(c) \/ HangUp(c) \/ UNCHANGED vars
       PROVE  UNCHANGED <<head, node, iter, fd, pc>>
  BY <1>11 DEF CrashOnFreedNode, handle_termination, HandlerShutdown, HandlerRaises, MainReturns,
               Connect, HangUp, vars, nodes, threads
<1>12. CASE MainStep \/ AcceptFails
  BY <1>12, <1>1, <1>2, <1>3, <1>4, <1>5, <1>6, <1>7, <1>11 DEF MainStep, AcceptStops, AcceptFails
<1>13. ASSUME NEW c \in Client, ClientStep(c) \/ RecvFails(c) \/ Connect(c) \/ HangUp(c)
       PROVE  ListInv'
  BY <1>13, <1>1, <1>9, <1>11
<1>14. ASSUME NEW t \in Thread, HandlerStep(t) \/ \E sig \in unsent : handle_termination(t, sig)
       PROVE  ListInv'
  BY <1>14, <1>1, <1>8, <1>11 DEF HandlerStep
<1>15. CASE UNCHANGED vars
  BY <1>1, <1>11, <1>15
<1>. QED  BY <1>10, <1>12, <1>13, <1>14, <1>15 DEF Next

-----------------------------------------------------------------------------
(***************************************************************************)
(* The types of what is left.                                              *)
(***************************************************************************)
HandlerLabels == CleanupLabels \cup {"none", "flag", "shutdown", "cl_end"}

OtherTypes ==
  /\ memory \in [Client -> {"none", "live", "freed"}]
  /\ isThreadComplete \in [Client -> BOOLEAN]
  /\ threadId \in [Client -> ThreadId \cup {NULL}]
  /\ joined \in [Client -> BOOLEAN]
  /\ ticks \in Nat
  /\ fatal_error_in_progress \in BOOLEAN
  /\ unsent \subseteq {"SIGINT", "SIGTERM"}
  /\ handler \in [Thread -> HandlerLabels]
  /\ spinning \in [Thread -> BOOLEAN]
  /\ syslog_lock \in Thread \cup {NULL}
  /\ proc \in {"running", "exited", "signalled", "SIGPIPE", "SIGSEGV", "SIGABRT"}
  /\ peer \in [Client -> {"away", "queued", "connected", "gone"}]

\* The initial values have their types.
LEMMA InitOther == Init => OtherTypes
<1>. SUFFICES ASSUME Init PROVE OtherTypes
  OBVIOUS
<1>1. ticks \in Nat /\ unsent \subseteq {"SIGINT", "SIGTERM"}
  BY ServerAssumption DEF Init
<1>. QED  BY <1>1 DEF Init, OtherTypes, HandlerLabels

OtherVars == <<memory, isThreadComplete, threadId, joined, ticks, fatal_error_in_progress, unsent,
               handler, spinning, syslog_lock, proc, peer>>

\* What cleanup_on_exit does to the nodes and the process.
LEMMA CleanupOther ==
  ASSUME OtherTypes, NEW at, CleanupFrom(at)
  PROVE  /\ memory' \in [Client -> {"none", "live", "freed"}]
         /\ proc' \in {"running", "exited", "signalled", "SIGPIPE", "SIGSEGV", "SIGABRT"}
  BY DEF CleanupFrom, RemoveNode, FreeNode, OtherTypes

\* Every step keeps these types.
LEMMA NextOther == OtherTypes /\ [Next]_vars => OtherTypes'
<1>. SUFFICES ASSUME OtherTypes, [Next]_vars PROVE OtherTypes'
  OBVIOUS
<1>1. ASSUME UNCHANGED OtherVars PROVE OtherTypes'
  BY <1>1 DEF OtherVars, OtherTypes
<1>2. ASSUME NEW c \in Client, Connect(c) \/ HangUp(c) PROVE OtherTypes'
  BY <1>2 DEF Connect, HangUp, OtherTypes, nodes, threads, signals
<1>3. ASSUME NEW c \in Client, Accept(c) PROVE OtherTypes'
  BY <1>3 DEF Accept, OtherTypes, nodes, signals
<1>4. CASE Spawn
  <2>1. /\ memory' = memory \/ memory' = [memory EXCEPT ![iter] = "live"]
        /\ \/ isThreadComplete' = isThreadComplete
           \/ isThreadComplete' = [isThreadComplete EXCEPT ![iter] = FALSE]
        /\ threadId' = threadId \/ \E id \in FreeIds : threadId' = [threadId EXCEPT ![iter] = id]
        /\ UNCHANGED <<joined, ticks, signals, proc, peer>>
    BY <1>4 DEF Spawn, net
  <2>2. FreeIds \subseteq ThreadId
    BY DEF FreeIds
  <2>3. /\ memory' \in [Client -> {"none", "live", "freed"}]
        /\ isThreadComplete' \in [Client -> BOOLEAN]
    BY <2>1 DEF OtherTypes
  <2>4. threadId' \in [Client -> ThreadId \cup {NULL}]
    BY <2>1, <2>2 DEF OtherTypes
  <2>. QED  BY <2>1, <2>3, <2>4 DEF OtherTypes, signals
<1>5. CASE Reap
  <2>1. /\ UNCHANGED <<nodes, threadId, ticks, signals, peer>>
        /\ proc' = proc \/ proc' = "SIGSEGV"
        /\ joined' = joined \/ \E d : joined' = [joined EXCEPT ![d] = TRUE]
    BY <1>5 DEF Reap, net
  <2>. QED  BY <2>1 DEF OtherTypes, nodes, signals
<1>6. ASSUME NEW c \in Client, Complete(c) PROVE OtherTypes'
  BY <1>6 DEF Complete, OtherTypes, threads, signals, net
<1>7. ASSUME UNCHANGED <<nodes, threads, signals, peer>>,
             proc' \in {proc, "SIGPIPE", "SIGSEGV", "exited", "signalled"}
      PROVE  OtherTypes'
  BY <1>7 DEF OtherTypes, nodes, threads, signals
<1>8. ASSUME NEW c, Write(c) \/ Send(c) \/ CrashOnFreedNode(c) PROVE OtherTypes'
  BY <1>7, <1>8 DEF Write, WriteTo, Send, CrashOnFreedNode, net
<1>9. CASE MainReturns
  BY <1>7, <1>9 DEF MainReturns, net
<1>10. CASE log_timestamps \/ ClockFails
  <2>1. CASE Sleep
    BY <2>1 DEF Sleep, OtherTypes, nodes, signals, net
  <2>2. CASE WriteTo(timestamps, Timestamp, "unlock_t")
    BY <1>7, <2>2 DEF WriteTo
  <2>3. CASE \/ Lock(timestamps, "lock_t", "write_t") \/ Unlock(timestamps, "unlock_t", "sleep")
             \/ StampStart \/ ClockFails
    BY <1>7, <2>3 DEF Lock, Unlock, StampStart, ClockFails, net
  <2>. QED  BY <1>10, <2>1, <2>2, <2>3 DEF log_timestamps
<1>11. CASE MainCleanup
  <2>1. PICK at \in CleanupLabels :
          CleanupFrom(at) /\ UNCHANGED <<isThreadComplete, threads, signals, peer>>
    BY <1>11 DEF MainCleanup, net
  <2>. QED  BY <2>1, CleanupOther DEF OtherTypes, threads, signals
<1>12. ASSUME NEW t \in Thread, HandlerCleanup(t) PROVE OtherTypes'
  <2>1. PICK at \in CleanupLabels :
           /\ CleanupFrom(at)
           /\ handler' = [handler EXCEPT ![t] = AfterCleanup(at)]
           /\ UNCHANGED <<isThreadComplete, threads, fatal_error_in_progress, unsent, spinning,
                          syslog_lock, peer>>
    BY <1>12 DEF HandlerCleanup, net
  <2>2. AfterCleanup(at) \in HandlerLabels
    BY AfterCleanupType DEF HandlerLabels
  <2>. QED  BY <2>1, <2>2, CleanupOther DEF OtherTypes, threads
<1>13. ASSUME NEW t \in Thread, HandlerShutdown(t) PROVE OtherTypes'
  BY <1>13 DEF HandlerShutdown, OtherTypes, HandlerLabels, CleanupLabels, nodes, threads, net
<1>14. ASSUME NEW t \in Thread, HandlerRaises(t) PROVE OtherTypes'
  BY <1>7, <1>14 DEF HandlerRaises, net
<1>15. ASSUME NEW t \in Thread, NEW sig \in unsent, handle_termination(t, sig) PROVE OtherTypes'
  <2>1. /\ unsent' = unsent \ {sig} /\ syslog_lock' \in {syslog_lock, t}
        /\ UNCHANGED <<nodes, threads, fatal_error_in_progress, proc, net>>
    BY <1>15 DEF handle_termination, OnSignal
  <2>2. spinning' \in [Thread -> BOOLEAN] /\ handler' \in [Thread -> HandlerLabels]
    BY <1>15 DEF handle_termination, OnSignal, OtherTypes, HandlerLabels
  <2>. QED  BY <2>1, <2>2 DEF OtherTypes, nodes, threads, net
<1>16. ASSUME StopAccepting \/ Insert \/ ReapLog PROVE UNCHANGED OtherVars
  BY <1>16 DEF StopAccepting, Insert, ReapLog, OtherVars, nodes, threads, signals, net
<1>17. ASSUME NEW c \in Client,
              \/ ClientStart(c) \/ RecvFails(c) \/ Rewind(c) \/ Recv(c) \/ Read(c)
              \/ SeekOpen(c) \/ WriteOpen(c) \/ ReadOpen(c) \/ Ioctl(c)
       PROVE  UNCHANGED OtherVars
  BY <1>17 DEF ClientStart, RecvFails, Rewind, Recv, Read, SeekOpen, WriteOpen, ReadOpen,
               OpenDataFile,
               Ioctl, OtherVars, nodes, threads, signals, net
<1>18. ASSUME NEW c \in Client,
              \/ WriteLock(c) \/ ReadLock(c) \/ WriteUnlock(c) \/ ReadUnlock(c)
              \/ WriteClose(c) \/ ClientClose(c) \/ DataClose(c)
       PROVE  UNCHANGED OtherVars
  BY <1>18 DEF WriteLock, ReadLock, WriteUnlock, ReadUnlock, Lock, Unlock, WriteClose, ClientClose,
               DataClose, OtherVars, nodes, threads, signals, net
<1>19. CASE MainStep \/ AcceptFails
  BY <1>19, <1>1, <1>3, <1>4, <1>5, <1>8, <1>9, <1>11, <1>16 DEF MainStep, AcceptStops, AcceptFails
<1>20. ASSUME NEW c \in Client, ClientStep(c) \/ RecvFails(c) \/ Connect(c) \/ HangUp(c)
       PROVE  OtherTypes'
  BY <1>20, <1>1, <1>2, <1>6, <1>8, <1>17, <1>18 DEF ClientStep
<1>21. ASSUME NEW t \in Thread, HandlerStep(t) \/ \E sig \in unsent : handle_termination(t, sig)
       PROVE  OtherTypes'
  BY <1>21, <1>12, <1>13, <1>14, <1>15 DEF HandlerStep
<1>22. CASE UNCHANGED vars
  BY <1>1, <1>22 DEF vars, OtherVars, nodes, threads, signals, net
<1>. QED  BY <1>10, <1>19, <1>20, <1>21, <1>22 DEF Next

-----------------------------------------------------------------------------
(***************************************************************************)
(* The mutex.                                                              *)
(***************************************************************************)
MutexInv ==
  /\ lock \in Client \cup {timestamps, NULL, DESTROYED}
  /\ MutexDiscipline

\* NULL and DESTROYED are not threads.
LEMMA NotThreads == NULL \notin Thread /\ DESTROYED \notin Thread /\ NULL # DESTROYED
  BY ServerAssumption DEF Thread

\* A thread moves on without touching the mutex.
LEMMA MutexMove ==
  ASSUME Places, MutexInv, UNCHANGED lock, NEW t \in Thread, NEW l, Goto(t, l), pc[t] # "failed",
         \/ l \in Critical <=> pc[t] \in Critical
         \/ pc[t] \in Critical /\ l = "failed"
  PROVE  MutexInv'
<1>1. "failed" \notin Critical
  BY DEF Critical
<1>2. pc'[t] = l /\ \A u \in Thread : u # t => pc'[u] = pc[u]
  BY DEF Goto, Places
<1>. QED  BY <1>1, <1>2 DEF MutexInv, MutexDiscipline

\* A thread locks the mutex, or believes so because it is destroyed.
LEMMA MutexLock ==
  ASSUME Places, MutexInv, NEW t \in Client \cup {timestamps}, NEW from, NEW to \in Critical,
         Lock(t, from, to)
  PROVE  MutexInv'
<1>1. t \in Thread /\ pc[t] = from /\ pc' = [pc EXCEPT ![t] = to]
  BY Distinct DEF Lock, Runs, Goto
<1>2. pc'[t] = to /\ \A u \in Thread : u # t => pc'[u] = pc[u]
  BY <1>1 DEF Places
<1>3. CASE lock = NULL /\ lock' = t
  BY <1>1, <1>2, <1>3, NotThreads DEF MutexInv, MutexDiscipline
<1>4. CASE lock = DESTROYED /\ lock' = lock
  BY <1>4 DEF MutexInv, MutexDiscipline
<1>. QED  BY <1>3, <1>4 DEF Lock

\* A thread unlocks it.
LEMMA MutexUnlock ==
  ASSUME Places, MutexInv, NEW t \in Thread, NEW from \in Critical, NEW to, to \notin Critical,
         Unlock(t, from, to)
  PROVE  MutexInv'
<1>1. /\ pc[t] = from /\ pc' = [pc EXCEPT ![t] = to]
      /\ lock' = IF lock = DESTROYED THEN lock ELSE NULL
  BY DEF Unlock, Runs, Goto
<1>2. pc'[t] = to /\ \A u \in Thread : u # t => pc'[u] = pc[u]
  BY <1>1 DEF Places
<1>. QED  BY <1>1, <1>2, NotThreads DEF MutexInv, MutexDiscipline

\* Destroying it, or not.
LEMMA MutexDestroy ==
  ASSUME Places, MutexInv, NEW at, CleanupFrom(at),
         \A t \in Thread : \/ pc'[t] = pc[t]
                           \/ /\ pc[t] \notin Critical \cup {"failed"}
                              /\ pc'[t] \notin Critical \cup {"failed"}
  PROVE  MutexInv'
<1>1. lock' = lock \/ lock' = DESTROYED
  BY DEF CleanupFrom, Destroyed
<1>2. CASE lock' = DESTROYED
  BY <1>2 DEF MutexInv, MutexDiscipline
<1>3. CASE lock' = lock
  BY <1>3 DEF MutexInv, MutexDiscipline
<1>. QED  BY <1>1, <1>2, <1>3

\* The mutex starts free.
LEMMA InitMutex == Init => MutexInv
<1>. SUFFICES ASSUME Init PROVE MutexInv
  OBVIOUS
<1>1. lock = NULL /\ \A t \in Thread : pc[t] \notin Critical
  BY DEF Init, setup_time_logging, Critical
<1>. QED  BY <1>1, NotThreads DEF MutexInv, MutexDiscipline

\* Every step keeps the discipline of the mutex.
LEMMA NextMutex == Places /\ ListInv /\ MutexInv /\ [Next]_vars => MutexInv'
<1>. SUFFICES ASSUME Places, ListInv, MutexInv, [Next]_vars PROVE MutexInv'
  OBVIOUS
<1>1. ASSUME UNCHANGED <<lock, pc>> PROVE MutexInv'
  BY <1>1 DEF MutexInv, MutexDiscipline
<1>2. ASSUME NEW c \in Client, NEW l, Goto(c, l), UNCHANGED lock,
             pc[c] \in ClientLabels \ (Critical \cup {"failed"}), l \notin Critical
      PROVE  MutexInv'
  BY <1>2, MutexMove, Distinct
<1>3. ASSUME NEW l, NEW t \in Thread, Goto(t, l), UNCHANGED lock, pc[t] \in Critical,
             l \in Critical \cup {"failed"}
      PROVE  MutexInv'
  <2>1. pc[t] # "failed"
    BY <1>3 DEF Critical
  <2>. QED  BY <1>3, <2>1, MutexMove
<1>4. ASSUME NEW l \in MainLabels, Goto(main, l), UNCHANGED lock PROVE MutexInv'
  <2>1. pc[main] \notin Critical \cup {"failed"} /\ l \notin Critical
    BY DEF Places, MainLabels, CleanupLabels, Critical
  <2>. QED  BY <1>4, <2>1, MutexMove, Distinct
<1>5. ASSUME NEW c, Accept(c) \/ StopAccepting \/ Insert PROVE MutexInv'
  BY <1>4, <1>5 DEF Accept, StopAccepting, Insert, MainLabels, CleanupLabels
<1>6. CASE Spawn
  <2>1. UNCHANGED lock
    BY <1>6 DEF Spawn
  <2>2. CASE Goto(main, "insert") \/ Goto(main, "cl_close")
    BY <1>4, <2>1, <2>2 DEF MainLabels, CleanupLabels
  <2>3. CASE pc' = [pc EXCEPT ![main] = "insert", ![iter] = "start"]
    <3>0. iter \in Client /\ pc[iter] = "none"
      BY <1>6 DEF ListInv, Spawn, Runs
    <3>1. \A t \in Thread : \/ pc'[t] = pc[t]
                            \/ /\ pc[t] \notin Critical \cup {"failed"}
                               /\ pc'[t] \notin Critical \cup {"failed"}
      BY <2>3, <3>0, Distinct DEF Places, MainLabels, CleanupLabels, Critical
    <3>. QED  BY <2>1, <3>1 DEF MutexInv, MutexDiscipline
  <2>4. \/ Goto(main, "insert") \/ Goto(main, "cl_close")
        \/ pc' = [pc EXCEPT ![main] = "insert", ![iter] = "start"]
    BY <1>6, Zenon DEF Spawn
  <2>. QED  BY <2>2, <2>3, <2>4
<1>7. CASE Reap \/ ReapLog
  BY <1>1, <1>4, <1>7 DEF Reap, ReapLog, MainLabels, CleanupLabels
<1>8. CASE MainCleanup
  <2>1. PICK at \in CleanupLabels : CleanupFrom(at) /\ Goto(main, AfterCleanup(at))
    BY <1>8 DEF MainCleanup
  <2>2. /\ AfterCleanup(at) \notin Critical \cup {"failed"}
        /\ pc[main] \notin Critical \cup {"failed"}
    BY AfterCleanupType DEF Places, MainLabels, CleanupLabels, Critical
  <2>3. \A t \in Thread : \/ pc'[t] = pc[t]
                          \/ /\ pc[t] \notin Critical \cup {"failed"}
                             /\ pc'[t] \notin Critical \cup {"failed"}
    BY <2>1, <2>2 DEF Goto, Places
  <2>. QED  BY <2>1, <2>3, MutexDestroy
<1>9. ASSUME NEW t \in Thread, HandlerCleanup(t) PROVE MutexInv'
  <2>1. PICK at \in CleanupLabels : CleanupFrom(at) /\ UNCHANGED pc
    BY <1>9 DEF HandlerCleanup
  <2>. QED  BY <2>1, MutexDestroy
<1>10. ASSUME NEW c \in Client, ClientStart(c) \/ RecvFails(c) \/ Rewind(c) \/ Recv(c)
       PROVE  MutexInv'
  BY <1>2, <1>10 DEF ClientStart, RecvFails, Rewind, Recv, Runs, ClientLabels, UsesNode, Critical
<1>11. ASSUME NEW c \in Client, SeekOpen(c) \/ WriteOpen(c) \/ ReadOpen(c) PROVE MutexInv'
  BY <1>2, <1>11
     DEF SeekOpen, WriteOpen, ReadOpen, OpenDataFile, Answer, Runs, ClientLabels, UsesNode, Critical
<1>12. ASSUME NEW c \in Client, Ioctl(c) \/ WriteClose(c) PROVE MutexInv'
  <2>1. AfterChunk(c) \notin Critical
    BY DEF AfterChunk, Answer, Critical
  <2>. QED  BY <1>2, <1>12, <2>1 DEF Ioctl, WriteClose, Runs, ClientLabels, Critical
<1>13. ASSUME NEW c \in Client, ClientClose(c) \/ Complete(c) \/ DataClose(c) PROVE MutexInv'
  BY <1>2, <1>13 DEF ClientClose, Complete, DataClose, Runs, ClientLabels, UsesNode, Critical
<1>14. ASSUME NEW c \in Client, WriteLock(c) \/ ReadLock(c) PROVE MutexInv'
  BY <1>14, MutexLock DEF WriteLock, ReadLock, Critical
<1>15. ASSUME NEW c \in Client, WriteUnlock(c) \/ ReadUnlock(c) PROVE MutexInv'
  BY <1>15, MutexUnlock, Distinct DEF WriteUnlock, ReadUnlock, Critical
<1>16. ASSUME NEW c \in Client, Write(c) PROVE MutexInv'
  BY <1>1, <1>3, <1>16, Distinct DEF Write, WriteTo, Runs, Critical
<1>17. ASSUME NEW c \in Client, Read(c) PROVE MutexInv'
  <2>1. /\ pc[c] = "read" /\ UNCHANGED lock
        /\ Goto(c, "unlock_r") \/ Goto(c, "failed")
    BY <1>17 DEF Read, Runs
  <2>. QED  BY <1>3, <2>1, Distinct DEF Critical
<1>18. ASSUME NEW c \in Client, Send(c) PROVE MutexInv'
  <2>1. /\ pc[c] = "send" /\ UNCHANGED lock
        /\ UNCHANGED pc \/ \E l \in {"failed", "close_c", "lock_r"} : Goto(c, l)
    BY <1>18 DEF Send, Runs, AfterSend
  <2>. QED  BY <1>1, <1>2, <2>1 DEF ClientLabels, UsesNode, Critical
<1>19. CASE log_timestamps \/ ClockFails
  <2>1. CASE StampStart \/ Sleep \/ ClockFails
    <3>1. /\ pc[timestamps] \in {"start_t", "sleep"} /\ UNCHANGED lock
          /\ \E l \in {"sleep", "lock_t", "failed"} : Goto(timestamps, l)
      BY <2>1 DEF StampStart, Sleep, ClockFails, Runs
    <3>. QED  BY <3>1, MutexMove, Distinct DEF Critical
  <2>2. CASE Lock(timestamps, "lock_t", "write_t")
    BY <2>2, MutexLock DEF Critical
  <2>3. CASE Unlock(timestamps, "unlock_t", "sleep")
    BY <2>3, MutexUnlock, Distinct DEF Critical
  <2>4. CASE Runs(timestamps, "write_t") /\ WriteTo(timestamps, Timestamp, "unlock_t")
    BY <1>1, <1>3, <2>4, Distinct DEF WriteTo, Runs, Critical
  <2>. QED  BY <1>19, <2>1, <2>2, <2>3, <2>4 DEF log_timestamps
<1>20. ASSUME NEW t, NEW sig, NEW c,
              \/ CrashOnFreedNode(t) \/ handle_termination(t, sig) \/ HandlerShutdown(t)
              \/ HandlerRaises(t) \/ MainReturns \/ Connect(c) \/ HangUp(c) \/ UNCHANGED vars
       PROVE  UNCHANGED <<lock, pc>>
  BY <1>20 DEF CrashOnFreedNode, handle_termination, HandlerShutdown, HandlerRaises, MainReturns,
               Connect, HangUp, vars
<1>21. CASE MainStep \/ AcceptFails
  BY <1>21, <1>1, <1>5, <1>6, <1>7, <1>8, <1>20 DEF MainStep, AcceptStops, AcceptFails
<1>22. ASSUME NEW c \in Client, ClientStep(c) \/ RecvFails(c) \/ Connect(c) \/ HangUp(c)
       PROVE  MutexInv'
  BY <1>22, <1>1, <1>10, <1>11, <1>12, <1>13, <1>14, <1>15, <1>16, <1>17, <1>18, <1>20
     DEF ClientStep
<1>23. ASSUME NEW t \in Thread, HandlerStep(t) \/ \E sig \in unsent : handle_termination(t, sig)
       PROVE  MutexInv'
  BY <1>23, <1>1, <1>9, <1>20 DEF HandlerStep
<1>24. CASE UNCHANGED vars
  BY <1>1, <1>20, <1>24
<1>. QED  BY <1>19, <1>21, <1>22, <1>23, <1>24 DEF Next

(***************************************************************************)
(* How the handlers move on.  A handler does not get past its test of      *)
(* fatal_error_in_progress once the flag is set.                           *)
(***************************************************************************)
LEMMA HandlerMoves ==
  ASSUME OtherTypes, [Next]_vars
  PROVE  /\ fatal_error_in_progress => fatal_error_in_progress'
         /\ \A u \in Thread :
              \/ handler'[u] = handler[u]
              \/ handler'[u] = "flag" /\ ~fatal_error_in_progress
              \/ handler'[u] = "shutdown" /\ handler[u] = "flag" /\ fatal_error_in_progress'
              \/ /\ handler[u] \in CleanupLabels \cup {"shutdown"}
                 /\ handler'[u] \in CleanupLabels \cup {"cl_end"}
<1>. DEFINE Goal == /\ fatal_error_in_progress => fatal_error_in_progress'
                    /\ \A u \in Thread :
                         \/ handler'[u] = handler[u]
                         \/ handler'[u] = "flag" /\ ~fatal_error_in_progress
                         \/ /\ handler'[u] = "shutdown" /\ handler[u] = "flag"
                            /\ fatal_error_in_progress'
                         \/ /\ handler[u] \in CleanupLabels \cup {"shutdown"}
                            /\ handler'[u] \in CleanupLabels \cup {"cl_end"}
<1>. SUFFICES Goal
  OBVIOUS
<1>1. ASSUME UNCHANGED <<handler, fatal_error_in_progress>> PROVE Goal
  BY <1>1
<1>2. ASSUME NEW t \in Thread, HandlerShutdown(t) PROVE Goal
  <2>1. \/ /\ handler[t] = "flag" /\ fatal_error_in_progress'
           /\ handler' = [handler EXCEPT ![t] = "shutdown"]
        \/ /\ handler[t] = "shutdown" /\ UNCHANGED fatal_error_in_progress
           /\ handler' = [handler EXCEPT ![t] = "cl_close"]
    BY <1>2 DEF HandlerShutdown, HandlerRuns
  <2>. QED  BY <2>1 DEF OtherTypes, CleanupLabels
<1>3. ASSUME NEW t \in Thread, HandlerCleanup(t) PROVE Goal
  <2>1. PICK at \in CleanupLabels : /\ handler[t] = at /\ UNCHANGED fatal_error_in_progress
                                    /\ handler' = [handler EXCEPT ![t] = AfterCleanup(at)]
    BY <1>3 DEF HandlerCleanup, HandlerRuns
  <2>. QED  BY <2>1, AfterCleanupType DEF OtherTypes
<1>4. ASSUME NEW t \in Thread, HandlerRaises(t) PROVE Goal
  BY <1>1, <1>4 DEF HandlerRaises, signals
<1>5. ASSUME NEW t \in Thread, NEW sig, handle_termination(t, sig) PROVE Goal
  <2>1. /\ UNCHANGED fatal_error_in_progress
        /\ \/ UNCHANGED handler
           \/ ~fatal_error_in_progress /\ handler' = [handler EXCEPT ![t] = "flag"]
    BY <1>5 DEF handle_termination, OnSignal
  <2>. QED  BY <2>1 DEF OtherTypes
<1>6. ASSUME NEW c \in Client, ClientStep(c) \/ RecvFails(c) \/ Connect(c) \/ HangUp(c)
      PROVE  UNCHANGED <<handler, fatal_error_in_progress>>
  BY <1>6, ClientStepLocal DEF LocalStep, Connect, HangUp, signals
<1>7. ASSUME log_timestamps \/ ClockFails PROVE UNCHANGED <<handler, fatal_error_in_progress>>
  BY <1>7, StampStepLocal DEF LocalStep
<1>8. ASSUME NEW c, \/ Accept(c) \/ StopAccepting \/ Spawn \/ Insert \/ Reap \/ ReapLog
                    \/ CrashOnFreedNode(main) \/ MainCleanup \/ MainReturns
      PROVE  UNCHANGED <<handler, fatal_error_in_progress>>
  BY <1>8 DEF Accept, StopAccepting, Spawn, Insert, Reap, ReapLog, CrashOnFreedNode, MainCleanup,
              MainReturns, signals
<1>9. CASE MainStep \/ AcceptFails
  BY <1>1, <1>8, <1>9 DEF MainStep, AcceptStops, AcceptFails
<1>10. UNCHANGED vars => UNCHANGED <<handler, fatal_error_in_progress>>
  BY DEF vars, signals
<1>11. ASSUME NEW t \in Thread, HandlerStep(t) \/ \E sig \in unsent : handle_termination(t, sig)
       PROVE  Goal
  BY <1>2, <1>3, <1>4, <1>5, <1>11 DEF HandlerStep
<1>. HIDE DEF Goal
<1>12. ASSUME NEW c \in Client, ClientStep(c) \/ RecvFails(c) \/ Connect(c) \/ HangUp(c)
       PROVE  Goal
  BY <1>1, <1>6, <1>12
<1>13. CASE log_timestamps \/ ClockFails
  BY <1>1, <1>7, <1>13
<1>14. CASE UNCHANGED vars
  BY <1>1, <1>10, <1>14
<1>. QED  BY <1>9, <1>11, <1>12, <1>13, <1>14 DEF Next

\* A cleanup on main goes on as long as the process runs.
LEMMA MainCleanupStays ==
  ASSUME Places, [Next]_vars, pc[main] \in CleanupLabels \cup {"cl_end"}
  PROVE  pc'[main] \in CleanupLabels \cup {"cl_end"}
<1>1. ASSUME UNCHANGED pc PROVE pc'[main] \in CleanupLabels \cup {"cl_end"}
  BY <1>1
<1>2. ASSUME NEW t \in Client \cup {timestamps}, LocalStep(t) PROVE pc'[main] = pc[main]
  BY <1>2, Distinct DEF LocalStep, Goto, Places
<1>3. CASE MainCleanup
  BY <1>3, AfterCleanupType, Distinct DEF MainCleanup, Goto, Places
<1>4. ASSUME NEW c, Accept(c) \/ StopAccepting \/ Spawn \/ Insert \/ Reap \/ ReapLog
      PROVE  FALSE
  BY <1>4 DEF Accept, StopAccepting, Spawn, Insert, Reap, ReapLog, Runs, CleanupLabels
<1>5. ASSUME NEW t, NEW sig, NEW c,
             \/ CrashOnFreedNode(t) \/ handle_termination(t, sig) \/ HandlerStep(t)
             \/ MainReturns \/ Connect(c) \/ HangUp(c) \/ UNCHANGED vars
      PROVE  UNCHANGED pc
  BY <1>5 DEF CrashOnFreedNode, handle_termination, HandlerStep, HandlerShutdown, HandlerCleanup,
              HandlerRaises, MainReturns, Connect, HangUp, vars
<1>6. CASE MainStep \/ AcceptFails
  BY <1>1, <1>3, <1>4, <1>5, <1>6 DEF MainStep, AcceptStops, AcceptFails
<1>7. ASSUME NEW c \in Client, ClientStep(c) \/ RecvFails(c) \/ Connect(c) \/ HangUp(c)
      PROVE  pc'[main] \in CleanupLabels \cup {"cl_end"}
  BY <1>1, <1>2, <1>5, <1>7, ClientStepLocal
<1>8. CASE log_timestamps \/ ClockFails
  BY <1>2, <1>8, StampStepLocal
<1>9. CASE \/ \E t \in Thread : HandlerStep(t)
           \/ (\E t \in Thread : \E sig \in unsent : handle_termination(t, sig))
           \/ UNCHANGED vars
  BY <1>1, <1>5, <1>9
<1>. QED  BY <1>6, <1>7, <1>8, <1>9 DEF Next

(***************************************************************************)
(* Once a cleanup has begun, it has begun for good.                        *)
(***************************************************************************)
LEMMA CleanupStays ==
  ASSUME Places, OtherTypes, CleanupBegun, [Next]_vars
  PROVE  CleanupBegun'
<1>1. ASSUME NEW u \in Thread, handler[u] # "none" PROVE handler'[u] # "none"
  BY <1>1, HandlerMoves DEF CleanupLabels
<1>. QED  BY <1>1, MainCleanupStays DEF CleanupBegun

(***************************************************************************)
(* Nodes are freed by a cleanup only, and until one begins every           *)
(* connection thread that runs has its node.                               *)
(***************************************************************************)
NodesInv ==
  /\ \A c \in Client : memory[c] = "freed" => CleanupBegun
  /\ NodesOutliveThreads

\* There are no nodes yet.
LEMMA InitNodes == Init => NodesInv
<1>. SUFFICES ASSUME Init PROVE NodesInv
  OBVIOUS
<1>1. \A c \in Client : pc[c] = "none" /\ memory[c] # "freed" /\ c # main
  BY Distinct DEF Init
<1>. QED  BY <1>1 DEF NodesInv, NodesOutliveThreads, Alive

\* Every step keeps the nodes of the threads that run.
LEMMA NextNodes == Places /\ ListInv /\ OtherTypes /\ NodesInv /\ [Next]_vars => NodesInv'
<1>. SUFFICES ASSUME Places, ListInv, OtherTypes, NodesInv, [Next]_vars PROVE NodesInv'
  OBVIOUS
<1>1. CASE CleanupBegun \/ CleanupBegun'
  BY <1>1, CleanupStays DEF NodesInv, NodesOutliveThreads
<1>2. CASE ~CleanupBegun /\ ~CleanupBegun'
  <2>1. /\ \A c \in Client : memory[c] # "freed"
        /\ \A c \in Client : Alive(c) => /\ memory[c] = "live"
                                         /\ Contains(head, c) \/ (pc[main] = "insert" /\ iter = c)
    BY <1>2 DEF NodesInv, NodesOutliveThreads
  <2>. SUFFICES /\ \A c \in Client : memory'[c] # "freed"
                /\ \A c \in Client : Alive(c)' =>
                     /\ memory'[c] = "live"
                     /\ Contains(head', c) \/ (pc'[main] = "insert" /\ iter' = c)
    BY DEF NodesInv, NodesOutliveThreads
  <2>. DEFINE Goal == /\ \A c \in Client : memory'[c] # "freed"
                      /\ \A c \in Client : Alive(c)' =>
                           /\ memory'[c] = "live"
                           /\ Contains(head', c) \/ (pc'[main] = "insert" /\ iter' = c)
  <2>2. ASSUME UNCHANGED <<head, memory>>, \A c \in Client : pc'[c] = pc[c],
               pc[main] = "insert" => UNCHANGED <<iter, pc>>
        PROVE  Goal
    BY <2>1, <2>2, Distinct DEF Alive
  <2>3. ASSUME NEW t \in Client \cup {timestamps}, LocalStep(t) PROVE Goal
    <3>1. /\ UNCHANGED <<head, memory, iter>> /\ pc'[main] = pc[main]
          /\ \A c \in Client : c # t => pc'[c] = pc[c]
          /\ Alive(t)
      BY <2>3, Distinct DEF LocalStep, Goto, Places
    <3>. QED  BY <2>1, <3>1, Distinct DEF Alive
  <2>4. ASSUME NEW c, Accept(c) \/ StopAccepting \/ Reap \/ ReapLog PROVE Goal
    <3>1. /\ UNCHANGED <<head, memory>> /\ pc[main] # "insert"
          /\ UNCHANGED pc \/ \E l : pc' = [pc EXCEPT ![main] = l]
      BY <2>4 DEF Accept, StopAccepting, Reap, ReapLog, Runs, Goto, nodes
    <3>2. \A d \in Client : pc'[d] = pc[d]
      BY <3>1, Distinct DEF Places
    <3>. QED  BY <2>2, <3>1, <3>2
  <2>5. CASE Spawn
    <3>1. pc[main] = "spawn" /\ iter \in Client /\ pc[iter] = "none"
      BY <2>5 DEF Spawn, Runs, ListInv
    <3>2. /\ UNCHANGED <<head, iter>>
          /\ \/ /\ memory' = [memory EXCEPT ![iter] = "live"]
                /\ \/ pc' = [pc EXCEPT ![main] = "insert"]
                   \/ pc' = [pc EXCEPT ![main] = "insert", ![iter] = "start"]
             \/ memory' = memory /\ pc' = [pc EXCEPT ![main] = "cl_close"]
      BY <2>5, Zenon DEF Spawn, Goto
    <3>3. /\ \A c \in Client : c # iter => pc'[c] = pc[c] /\ memory'[c] = memory[c]
          /\ \/ memory'[iter] = "live" /\ pc'[main] = "insert"
             \/ UNCHANGED memory /\ pc'[iter] = "none"
      BY <3>1, <3>2, Distinct DEF Places, OtherTypes
    <3>. QED  BY <2>1, <3>1, <3>2, <3>3, Distinct DEF Alive
  <2>6. CASE Insert
    <3>1. /\ pc[main] = "insert" /\ head' = <<iter>> \o head /\ UNCHANGED <<iter, memory>>
          /\ pc' = [pc EXCEPT ![main] = "reap"]
      BY <2>6 DEF Insert, Runs, Goto
    <3>2. iter \in Client /\ head \in Seq(Client)
      BY <3>1 DEF ListInv
    <3>3. \A c \in Client : Contains(head', c) <=> c = iter \/ Contains(head, c)
      BY <3>1, <3>2, PushedIs
    <3>4. \A c \in Client : pc'[c] = pc[c]
      BY <3>1, Distinct DEF Places
    <3>. QED  BY <2>1, <3>1, <3>3, <3>4 DEF Alive
  <2>7. ~MainCleanup /\ \A t \in Thread : ~HandlerCleanup(t) /\ ~HandlerShutdown(t)
    BY <1>2 DEF MainCleanup, HandlerCleanup, HandlerShutdown, HandlerRuns, Runs, CleanupBegun,
                CleanupLabels
  <2>8. ASSUME NEW t, NEW sig, NEW c,
               \/ CrashOnFreedNode(t) \/ handle_termination(t, sig) \/ HandlerRaises(t)
               \/ MainReturns \/ Connect(c) \/ HangUp(c) \/ UNCHANGED vars
        PROVE  UNCHANGED <<head, memory, iter, pc>>
    BY <2>8 DEF CrashOnFreedNode, handle_termination, HandlerRaises, MainReturns, Connect, HangUp,
                vars,
                nodes
  <2>9. CASE MainStep \/ AcceptFails
    BY <2>2, <2>4, <2>5, <2>6, <2>7, <2>8, <2>9 DEF MainStep, AcceptStops, AcceptFails
  <2>10. ASSUME NEW c \in Client, ClientStep(c) \/ RecvFails(c) \/ Connect(c) \/ HangUp(c)
         PROVE  Goal
    BY <2>2, <2>3, <2>8, <2>10, ClientStepLocal
  <2>11. CASE log_timestamps \/ ClockFails
    BY <2>3, <2>11, StampStepLocal
  <2>12. ASSUME NEW t \in Thread, HandlerStep(t) \/ \E sig \in unsent : handle_termination(t, sig)
         PROVE  Goal
    BY <2>2, <2>7, <2>8, <2>12 DEF HandlerStep
  <2>13. CASE UNCHANGED vars
    BY <2>2, <2>8, <2>13
  <2>. QED  BY <2>9, <2>10, <2>11, <2>12, <2>13 DEF Next
<1>. QED  BY <1>1, <1>2

(***************************************************************************)
(* One cleanup at a time.  As long as only one thread cleans up, every     *)
(* node on the list is allocated, the node it is about to take off is on   *)
(* the list, and the one it is about to free is allocated and off the      *)
(* list; main's accept loop, which may go on meanwhile, does not put that  *)
(* one back.  A handler on main leaves main's own cleanup where it was.    *)
(***************************************************************************)
CleanupAt(t) == IF t = main /\ handler[t] = "none" THEN pc[main] ELSE handler[t]

LiveList ==
  /\ \A c \in Client : Contains(head, c) => memory[c] = "live"
  /\ pc[main] = "insert" => memory[iter] = "live"

LoneCleanup(t) ==
  /\ CleanupAt(t) = "cl_remove" => Contains(head, node)
  /\ CleanupAt(t) = "cl_free" =>
       /\ node \in Client /\ memory[node] = "live" /\ ~Contains(head, node) /\ fd[node] # ERROR
       /\ pc[main] \in {"spawn", "insert"} => iter # node

LoneInv ==
  /\ \A t \in Thread : handler[t] \notin {"none", "flag"} => fatal_error_in_progress
  /\ ~TwoCleanUp => LiveList /\ \A t \in Thread : LoneCleanup(t)

\* Nobody cleans up yet, and there are no nodes.
LEMMA InitLone == Init => LoneInv
<1>. SUFFICES ASSUME Init PROVE LoneInv
  OBVIOUS
<1>1. \A c \in Client : ~Contains(head, c)
  BY EmptySeq DEF Init, Contains
<1>2. pc[main] = "accept" /\ \A t \in Thread : handler[t] = "none"
  BY Distinct DEF Init
<1>. QED  BY <1>1, <1>2 DEF LoneInv, LiveList, LoneCleanup, CleanupAt

\* A thread that cleans up does so until the process ends.
LEMMA CleansUpStays ==
  ASSUME Places, OtherTypes, LoneInv, [Next]_vars, NEW t \in Thread, CleansUp(t)
  PROVE  CleansUp(t)'
<1>1. CASE handler[t] \in CleanupLabels \cup {"cl_end"}
  <2>1. fatal_error_in_progress
    BY <1>1 DEF LoneInv, CleanupLabels
  <2>2. handler'[t] \in CleanupLabels \cup {"cl_end"}
    BY <1>1, <2>1, HandlerMoves DEF CleanupLabels
  <2>. QED  BY <2>2 DEF CleansUp
<1>2. CASE t = main /\ pc[main] \in CleanupLabels \cup {"cl_end"}
  BY <1>2, MainCleanupStays DEF CleansUp
<1>. QED  BY <1>1, <1>2 DEF CleansUp

\* So do two.
LEMMA TwoStay ==
  ASSUME Places, OtherTypes, LoneInv, [Next]_vars, TwoCleanUp
  PROVE  TwoCleanUp'
  BY CleansUpStays DEF TwoCleanUp

\* A step of the only cleanup, on thread t.
LEMMA LoneStep ==
  ASSUME Places, ListInv, OtherTypes, LiveList, \A u \in Thread : LoneCleanup(u),
         NEW t \in Thread, NEW at \in CleanupLabels, CleanupAt(t) = at, CleanupFrom(at),
         CleanupAt(t)' = AfterCleanup(at),
         \A u \in Thread \ {t} : CleanupAt(u)' \notin {"cl_remove", "cl_free"},
         UNCHANGED <<iter, fd>>, pc'[main] = pc[main] \/ pc'[main] \notin {"spawn", "insert"}
  PROVE  LiveList' /\ \A u \in Thread : LoneCleanup(u)'
<1>1. /\ AfterCleanup(at) = "cl_remove" => at = "cl_pick" /\ head # << >>
      /\ AfterCleanup(at) = "cl_free" => at = "cl_remove"
  BY DEF AfterCleanup, CleanupLabels
<1>. SUFFICES LiveList' /\ LoneCleanup(t)'
  BY DEF LoneCleanup
<1>2. CASE at = "cl_remove"
  <2>1. /\ Contains(head, node) /\ node \in Client
        /\ head' = RemoveFirst(head, node) /\ UNCHANGED <<node, memory>>
    <3>1. Contains(head, node)
      BY <1>2 DEF LoneCleanup
    <3>2. node \in Client
      BY <3>1, ElementOfSeq DEF ListInv, Contains
    <3>. QED  BY <1>2, <3>1, <3>2 DEF CleanupFrom, RemoveNode
  <2>2. ~Contains(head', node) /\ \A d : Contains(head', d) => Contains(head, d)
    BY <2>1, RemovedIs DEF ListInv
  <2>3. memory[node] = "live" /\ fd[node] # ERROR
    BY <2>1 DEF LiveList, ListInv
  <2>4. pc[main] \in {"spawn", "insert"} => iter # node
    BY <2>1 DEF ListInv
  <2>5. LiveList'
    BY <2>1, <2>2 DEF LiveList
  <2>6. LoneCleanup(t)'
    BY <1>1, <1>2, <2>1, <2>2, <2>3, <2>4 DEF LoneCleanup
  <2>. QED  BY <2>5, <2>6
<1>3. CASE at = "cl_free"
  <2>1. /\ node \in Client /\ ~Contains(head, node)
        /\ pc[main] \in {"spawn", "insert"} => iter # node
    BY <1>3 DEF LoneCleanup
  <2>2. memory' = [memory EXCEPT ![node] = "freed"] /\ UNCHANGED <<head, node>>
    BY <1>3, <2>1, ServerAssumption DEF CleanupFrom, FreeNode
  <2>3. LiveList'
    BY <2>1, <2>2 DEF LiveList, OtherTypes
  <2>4. AfterCleanup(at) = "cl_null"
    BY <1>3 DEF AfterCleanup
  <2>. QED  BY <2>3, <2>4 DEF LoneCleanup
<1>4. CASE at = "cl_pick" /\ head # << >>
  <2>1. node' = Head(head) /\ UNCHANGED <<head, memory>>
    BY <1>4 DEF CleanupFrom
  <2>2. Contains(head, Head(head))
    <3>1. 1 \in 1 .. Len(head) /\ Head(head) = head[1]
      BY <1>4, EmptySeq, LenProperties, HeadTailProperties DEF ListInv
    <3>. QED  BY <3>1 DEF Contains
  <2>3. LiveList'
    BY <2>1 DEF LiveList
  <2>4. AfterCleanup(at) # "cl_free"
    BY <1>1, <1>4
  <2>. QED  BY <2>1, <2>2, <2>3, <2>4 DEF LoneCleanup
<1>5. CASE at \notin {"cl_remove", "cl_free"} /\ ~(at = "cl_pick" /\ head # << >>)
  <2>1. UNCHANGED <<head, memory>>
    BY <1>5 DEF CleanupFrom
  <2>2. LiveList'
    BY <2>1 DEF LiveList
  <2>3. AfterCleanup(at) \notin {"cl_remove", "cl_free"}
    BY <1>1, <1>5
  <2>. QED  BY <2>2, <2>3 DEF LoneCleanup
<1>. QED  BY <1>2, <1>3, <1>4, <1>5

\* Every step keeps what is known of a cleanup that is alone.
LEMMA NextLone == Places /\ ListInv /\ OtherTypes /\ LoneInv /\ [Next]_vars => LoneInv'
<1>. SUFFICES ASSUME Places, ListInv, OtherTypes, LoneInv, [Next]_vars PROVE LoneInv'
  OBVIOUS
<1>1. \A t \in Thread : handler'[t] \notin {"none", "flag"} => fatal_error_in_progress'
  BY HandlerMoves DEF LoneInv, CleanupLabels
<1>. DEFINE Goal == LiveList' /\ \A t \in Thread : LoneCleanup(t)'
<1>. SUFFICES ASSUME ~TwoCleanUp' PROVE Goal
  BY <1>1 DEF LoneInv
<1>2. ~TwoCleanUp /\ LiveList /\ \A t \in Thread : LoneCleanup(t)
  BY TwoStay DEF LoneInv
<1>3. ASSUME UNCHANGED <<head, node, memory, iter, fd>>, pc'[main] = pc[main],
             \A t \in Thread : \/ handler'[t] = handler[t]
                               \/ handler'[t] \notin {"none", "cl_remove", "cl_free"}
      PROVE  Goal
  <2>1. LiveList'
    BY <1>2, <1>3 DEF LiveList
  <2>2. ASSUME NEW t \in Thread PROVE LoneCleanup(t)'
    <3>1. CleanupAt(t)' \in {"cl_remove", "cl_free"} => CleanupAt(t)' = CleanupAt(t)
      BY <1>3 DEF CleanupAt
    <3>. QED  BY <1>2, <1>3, <3>1 DEF LoneCleanup
  <2>. QED  BY <2>1, <2>2
<1>4. ASSUME NEW t \in Client \cup {timestamps}, LocalStep(t) PROVE Goal
  <2>1. pc'[main] = pc[main]
    BY <1>4, Distinct DEF LocalStep, Goto, Places
  <2>. QED  BY <1>3, <1>4, <2>1 DEF LocalStep
<1>5. ASSUME UNCHANGED <<head, node, handler>>,
             pc[main] \notin {"cl_remove", "cl_free"}, pc'[main] \notin {"cl_remove", "cl_free"},
             \A c \in Client : memory[c] = "live" => memory'[c] = "live",
             \A c \in Client : fd[c] # ERROR => fd'[c] # ERROR,
             pc'[main] = "insert" => memory'[iter'] = "live",
             \/ pc'[main] \notin {"spawn", "insert"}
             \/ pc[main] \in {"spawn", "insert"} /\ UNCHANGED iter
             \/ iter' \in Client /\ fd[iter'] = ERROR
      PROVE  Goal
  <2>1. LiveList'
    BY <1>2, <1>5 DEF LiveList
  <2>2. ASSUME NEW t \in Thread PROVE LoneCleanup(t)'
    <3>1. CleanupAt(t)' \in {"cl_remove", "cl_free"} => CleanupAt(t)' = CleanupAt(t)
      BY <1>5 DEF CleanupAt
    <3>. QED  BY <1>2, <1>5, <3>1 DEF LoneCleanup
  <2>. QED  BY <2>1, <2>2
<1>6. ASSUME NEW c \in Client, Accept(c) PROVE Goal
  <2>1. /\ pc[main] = "accept" /\ pc'[main] = "spawn" /\ iter' = c /\ fd[c] = ERROR
        /\ fd' = [fd EXCEPT ![c] = LowestFd(fds)] /\ UNCHANGED <<head, node, memory, handler>>
    BY <1>6, Distinct DEF Accept, Runs, Goto, Places, nodes, signals
  <2>2. \A d \in Client : fd[d] # ERROR => fd'[d] # ERROR
    BY <2>1 DEF ListInv
  <2>. QED  BY <1>5, <2>1, <2>2
<1>7. CASE StopAccepting \/ Reap \/ ReapLog
  <2>1. /\ pc[main] \in {"accept", "reap", "reap_log"}
        /\ UNCHANGED <<head, node, memory, fd, handler>>
        /\ \/ UNCHANGED pc
           \/ \E l \in {"accept", "reap", "reap_log", "cl_close"} : Goto(main, l)
    BY <1>7 DEF StopAccepting, Reap, ReapLog, Runs, nodes, threads, signals
  <2>2. pc'[main] \in {"accept", "reap", "reap_log", "cl_close"}
    BY <2>1, Distinct DEF Goto, Places
  <2>. QED  BY <1>5, <2>1, <2>2
<1>8. CASE Spawn
  <2>1. /\ pc[main] = "spawn" /\ iter \in Client
        /\ UNCHANGED <<head, node, iter, fd, handler>>
    BY <1>8 DEF Spawn, Runs, ListInv, signals
  <2>2. \/ /\ memory' = [memory EXCEPT ![iter] = "live"]
           /\ \/ pc' = [pc EXCEPT ![main] = "insert"]
              \/ pc' = [pc EXCEPT ![main] = "insert", ![iter] = "start"]
        \/ memory' = memory /\ pc' = [pc EXCEPT ![main] = "cl_close"]
    BY <1>8, Zenon DEF Spawn, Goto
  <2>3. \/ pc'[main] = "insert" /\ memory'[iter] = "live"
        \/ pc'[main] = "cl_close"
    BY <2>1, <2>2, Distinct DEF Places, OtherTypes
  <2>4. \A c \in Client : memory[c] = "live" => memory'[c] = "live"
    BY <2>2 DEF OtherTypes
  <2>. QED  BY <1>5, <2>1, <2>3, <2>4
<1>9. CASE Insert
  <2>1. /\ pc[main] = "insert" /\ head' = <<iter>> \o head
        /\ UNCHANGED <<node, memory, iter, fd, handler>> /\ pc'[main] = "reap"
    BY <1>9, Distinct DEF Insert, Runs, Goto, Places, threads, signals
  <2>2. iter \in Client /\ head \in Seq(Client) /\ memory[iter] = "live"
    BY <1>2, <2>1 DEF ListInv, LiveList
  <2>3. \A c \in Client : Contains(head', c) <=> c = iter \/ Contains(head, c)
    BY <2>1, <2>2, PushedIs
  <2>4. Contains(head, node) => node \in Client
    BY ElementOfSeq DEF ListInv, Contains
  <2>5. LiveList'
    BY <1>2, <2>1, <2>2, <2>3 DEF LiveList
  <2>6. ASSUME NEW t \in Thread PROVE LoneCleanup(t)'
    <3>1. CleanupAt(t)' \in {"cl_remove", "cl_free"} => CleanupAt(t)' = CleanupAt(t)
      BY <2>1 DEF CleanupAt
    <3>. QED  BY <1>2, <2>1, <2>3, <2>4, <3>1 DEF LoneCleanup
  <2>. QED  BY <2>5, <2>6
<1>10. CASE MainCleanup
  <2>1. PICK at \in CleanupLabels : /\ pc[main] = at /\ handler[main] = "none" /\ CleanupFrom(at)
                                    /\ Goto(main, AfterCleanup(at)) /\ UNCHANGED <<iter, fd, handler>>
    BY <1>10 DEF MainCleanup, Runs, threads, signals
  <2>2. pc'[main] = AfterCleanup(at) /\ pc'[main] \in CleanupLabels \cup {"cl_end"}
    BY <2>1, AfterCleanupType, Distinct DEF Goto, Places
  <2>3. CleanupAt(main) = at /\ CleanupAt(main)' = AfterCleanup(at)
    BY <2>1, <2>2 DEF CleanupAt
  <2>4. \A u \in Thread \ {main} : CleanupAt(u)' \notin {"cl_remove", "cl_free"}
    BY <2>2, Distinct DEF TwoCleanUp, CleansUp, CleanupAt, CleanupLabels
  <2>5. pc'[main] \notin {"spawn", "insert"}
    BY <2>2 DEF CleanupLabels
  <2>. QED  BY <1>2, <2>1, <2>3, <2>4, <2>5, LoneStep, Distinct
<1>11. ASSUME NEW t \in Thread, HandlerCleanup(t) PROVE Goal
  <2>1. PICK at \in CleanupLabels : /\ handler[t] = at /\ CleanupFrom(at) /\ UNCHANGED <<pc, iter, fd>>
                                    /\ handler' = [handler EXCEPT ![t] = AfterCleanup(at)]
    BY <1>11 DEF HandlerCleanup, HandlerRuns, threads
  <2>2. /\ handler'[t] = AfterCleanup(at) /\ handler'[t] \in CleanupLabels \cup {"cl_end"}
        /\ \A u \in Thread \ {t} : handler'[u] = handler[u]
    BY <2>1, AfterCleanupType DEF OtherTypes
  <2>3. CleanupAt(t) = at /\ CleanupAt(t)' = AfterCleanup(at)
    BY <2>1, <2>2 DEF CleanupAt, CleanupLabels
  <2>4. \A u \in Thread \ {t} : CleanupAt(u)' \notin {"cl_remove", "cl_free"}
    BY <2>2 DEF TwoCleanUp, CleansUp, CleanupAt, CleanupLabels
  <2>. QED  BY <1>2, <2>1, <2>3, <2>4, LoneStep
<1>12. ASSUME NEW t \in Thread, NEW sig, HandlerShutdown(t) \/ handle_termination(t, sig) PROVE Goal
  <2>1. /\ UNCHANGED <<head, node, memory, iter, fd, pc>>
        /\ UNCHANGED handler \/ \E l \in {"flag", "shutdown", "cl_close"} :
                                  handler' = [handler EXCEPT ![t] = l]
    BY <1>12 DEF HandlerShutdown, handle_termination, OnSignal, nodes, threads
  <2>2. \A u \in Thread : \/ handler'[u] = handler[u]
                          \/ handler'[u] \notin {"none", "cl_remove", "cl_free"}
    BY <2>1 DEF OtherTypes
  <2>. QED  BY <1>3, <2>1, <2>2
<1>13. ASSUME NEW t, NEW c, \/ CrashOnFreedNode(t) \/ HandlerRaises(t) \/ MainReturns
                           \/ Connect(c) \/ HangUp(c) \/ UNCHANGED vars
       PROVE  Goal
  <2>1. UNCHANGED <<head, node, memory, iter, fd, pc, handler>>
    BY <1>13 DEF CrashOnFreedNode, HandlerRaises, MainReturns, Connect, HangUp, vars, nodes,
                 threads, signals
  <2>. QED  BY <1>3, <2>1
<1>. HIDE DEF Goal
<1>14. CASE MainStep \/ AcceptFails
  BY <1>6, <1>7, <1>8, <1>9, <1>10, <1>13, <1>14 DEF MainStep, AcceptStops, AcceptFails
<1>15. ASSUME NEW c \in Client, ClientStep(c) \/ RecvFails(c) \/ Connect(c) \/ HangUp(c)
       PROVE  Goal
  BY <1>4, <1>13, <1>15, ClientStepLocal
<1>16. CASE log_timestamps \/ ClockFails
  BY <1>4, <1>16, StampStepLocal
<1>17. ASSUME NEW t \in Thread, HandlerStep(t) \/ \E sig \in unsent : handle_termination(t, sig)
       PROVE  Goal
  BY <1>11, <1>12, <1>13, <1>17 DEF HandlerStep
<1>18. CASE UNCHANGED vars
  BY <1>13, <1>18
<1>. QED  BY <1>14, <1>15, <1>16, <1>17, <1>18 DEF Next

\* When the process has ended nothing changes any more.
LEMMA Halted ==
  ASSUME proc # "running"
  PROVE  ~Next
<1>1. \A t, l : ~Runs(t, l) /\ ~HandlerRuns(t, l)
  BY DEF Runs, HandlerRuns
<1>2. \A c : ~Accept(c) /\ ~Connect(c) /\ ~HangUp(c)
  BY <1>1 DEF Accept, Connect, HangUp
<1>3. ~MainStep /\ ~AcceptFails
  BY <1>1, <1>2 DEF MainStep, AcceptStops, AcceptFails, StopAccepting, Spawn, Insert, Reap,
                    ReapLog, CrashOnFreedNode,
                    MainCleanup, MainReturns
<1>4. ~log_timestamps /\ ~ClockFails
  BY <1>1 DEF log_timestamps, StampStart, Sleep, Lock, Unlock, ClockFails
<1>5. \A c \in Client : ~ClientStep(c) /\ ~RecvFails(c)
  BY ClientStepLocal DEF LocalStep
<1>6. \A t \in Thread : ~HandlerStep(t) /\ \A sig : ~handle_termination(t, sig)
  BY <1>1 DEF HandlerStep, HandlerShutdown, HandlerCleanup, HandlerRaises, handle_termination
<1>. QED  BY <1>2, <1>3, <1>4, <1>5, <1>6 DEF Next

\* The C library's cache of stacks depends on the threads that main has joined.
LEMMA StacksSame ==
  ASSUME UNCHANGED <<threadId, joined>>
  PROVE  StacksGone' <=> StacksGone
  BY Zenon DEF StacksGone

\* Every step that ends the process has one of the known reasons.
LEMMA NextCrashes ==
  /\ Places /\ ListInv /\ OtherTypes /\ NodesInv /\ LoneInv
  /\ CrashesOnlyWhereKnown /\ [Next]_vars
  => CrashesOnlyWhereKnown'
<1>. SUFFICES ASSUME Places, ListInv, OtherTypes, NodesInv, LoneInv, CrashesOnlyWhereKnown,
                     [Next]_vars
              PROVE  CrashesOnlyWhereKnown'
  OBVIOUS
<1>1. CASE UNCHANGED vars
  <2>1. UNCHANGED <<proc, pc, handler, threadId, joined>>
    BY <1>1 DEF vars, signals, threads
  <2>2. StacksGone' <=> StacksGone
    BY <2>1, StacksSame
  <2>. QED  BY <2>1, <2>2 DEF CrashesOnlyWhereKnown, CleanupBegun, TwoCleanUp, CleansUp
<1>2. CASE proc = "running" /\ Next
  <2>1. ASSUME proc' \notin {"SIGSEGV", "SIGABRT"} PROVE CrashesOnlyWhereKnown'
    BY <2>1 DEF CrashesOnlyWhereKnown
  <2>2. ASSUME proc' = "SIGSEGV", CleanupBegun PROVE CrashesOnlyWhereKnown'
    BY <2>2, CleanupStays DEF CrashesOnlyWhereKnown
  <2>3. ASSUME proc' = "SIGABRT", TwoCleanUp PROVE CrashesOnlyWhereKnown'
    BY <2>3, TwoStay DEF CrashesOnlyWhereKnown
  <2>4. ASSUME NEW t \in Client \cup {main}, CrashOnFreedNode(t) PROVE CrashesOnlyWhereKnown'
    <3>1. \E c \in Client : memory[c] = "freed"
      BY <2>4, Distinct DEF CrashOnFreedNode, UsesFreedNode, ListInv
    <3>2. CleanupBegun /\ proc' = "SIGSEGV"
      BY <2>4, <3>1 DEF NodesInv, CrashOnFreedNode
    <3>. QED  BY <2>2, <3>2
  <2>5. ASSUME NEW t \in Thread, NEW at \in CleanupLabels, CleanupAt(t) = at, CleanupFrom(at),
               CleanupBegun
        PROVE  CrashesOnlyWhereKnown'
    <3>1. proc' \in {"running", "SIGSEGV"} \/ (at = "cl_free" /\ FreeNode)
      BY <1>2, <2>5 DEF CleanupFrom, RemoveNode
    <3>2. CASE at = "cl_free" /\ FreeNode /\ ~TwoCleanUp
      <4>1. node \in Client /\ memory[node] = "live"
        BY <2>5, <3>2 DEF LoneInv, LoneCleanup
      <4>2. proc' = "running"
        BY <1>2, <3>2, <4>1, ServerAssumption DEF FreeNode
      <4>. QED  BY <2>1, <4>2
    <3>3. CASE at = "cl_free" /\ FreeNode /\ TwoCleanUp
      <4>1. proc' \in {"running", "SIGABRT"}
        BY <1>2, <3>3 DEF FreeNode
      <4>. QED  BY <2>1, <2>3, <3>3, <4>1
    <3>. QED  BY <2>1, <2>2, <2>5, <3>1, <3>2, <3>3
  <2>6. CASE MainCleanup
    <3>1. PICK at \in CleanupLabels : /\ pc[main] = at /\ handler[main] = "none"
                                      /\ CleanupFrom(at)
      BY <2>6 DEF MainCleanup, Runs
    <3>. QED  BY <2>5, <3>1, Distinct DEF CleanupAt, CleanupBegun
  <2>7. ASSUME NEW t \in Thread, HandlerCleanup(t) PROVE CrashesOnlyWhereKnown'
    <3>1. PICK at \in CleanupLabels : handler[t] = at /\ CleanupFrom(at)
      BY <2>7 DEF HandlerCleanup, HandlerRuns
    <3>. QED  BY <2>5, <3>1 DEF CleanupAt, CleanupBegun, CleanupLabels
  <2>8. CASE Reap
    <3>1. \/ UNCHANGED proc
          \/ proc' = "SIGSEGV" /\ StacksGone /\ UNCHANGED <<threadId, joined>>
      BY <2>8 DEF Reap
    <3>2. CASE proc' = "SIGSEGV" /\ StacksGone /\ UNCHANGED <<threadId, joined>>
      BY <3>2, StacksSame DEF CrashesOnlyWhereKnown
    <3>. QED  BY <1>2, <2>1, <3>1, <3>2
  <2>9. ASSUME NEW t, NEW bytes, NEW ok, WriteTo(t, bytes, ok) PROVE CrashesOnlyWhereKnown'
    BY <1>2, <2>1, <2>9 DEF WriteTo
  <2>10. ASSUME NEW c \in Client, Write(c) \/ Send(c) PROVE CrashesOnlyWhereKnown'
    BY <1>2, <2>1, <2>9, <2>10 DEF Write, Send
  <2>11. CASE MainReturns \/ \E t \in Thread : HandlerRaises(t)
    BY <2>1, <2>11 DEF MainReturns, HandlerRaises
  <2>12. ASSUME NEW t, NEW sig, NEW c,
                \/ handle_termination(t, sig) \/ HandlerShutdown(t) \/ Connect(c) \/ HangUp(c)
                \/ Accept(c) \/ StopAccepting \/ Spawn \/ Insert \/ ReapLog
         PROVE  UNCHANGED proc
    BY <2>12 DEF handle_termination, HandlerShutdown, Connect, HangUp, Accept, StopAccepting, Spawn,
                 Insert, ReapLog
  <2>13. ASSUME NEW c \in Client,
                \/ ClientStart(c) \/ RecvFails(c) \/ Rewind(c) \/ Recv(c) \/ Read(c) \/ Ioctl(c)
                \/ SeekOpen(c) \/ WriteOpen(c) \/ ReadOpen(c) \/ Complete(c)
                \/ WriteClose(c) \/ ClientClose(c) \/ DataClose(c)
         PROVE  UNCHANGED proc
    BY <2>13 DEF ClientStart, RecvFails, Rewind, Recv, Read, Ioctl, SeekOpen, WriteOpen, ReadOpen,
                 OpenDataFile, Complete, WriteClose, ClientClose, DataClose
  <2>14. ASSUME NEW t, NEW from, NEW to,
                Lock(t, from, to) \/ Unlock(t, from, to) \/ StampStart \/ Sleep \/ ClockFails
         PROVE  UNCHANGED proc
    BY <2>14 DEF Lock, Unlock, StampStart, Sleep, ClockFails
  <2>15. ASSUME UNCHANGED proc PROVE CrashesOnlyWhereKnown'
    BY <1>2, <2>1, <2>15
  <2>16. CASE MainStep \/ AcceptFails
    BY <2>4, <2>6, <2>8, <2>11, <2>12, <2>15, <2>16 DEF MainStep, AcceptStops, AcceptFails
  <2>17. ASSUME NEW c \in Client, ClientStep(c) \/ RecvFails(c) \/ Connect(c) \/ HangUp(c)
         PROVE  CrashesOnlyWhereKnown'
    BY <2>4, <2>10, <2>12, <2>13, <2>14, <2>15, <2>17
       DEF ClientStep, WriteLock, ReadLock, WriteUnlock, ReadUnlock
  <2>18. CASE log_timestamps \/ ClockFails
    BY <2>9, <2>14, <2>15, <2>18 DEF log_timestamps
  <2>19. ASSUME NEW t \in Thread, HandlerStep(t) \/ \E sig \in unsent : handle_termination(t, sig)
         PROVE  CrashesOnlyWhereKnown'
    BY <2>7, <2>11, <2>12, <2>15, <2>19 DEF HandlerStep
  <2>. QED  BY <1>2, <2>16, <2>17, <2>18, <2>19 DEF Next
<1>. QED  BY <1>1, <1>2, Halted

-----------------------------------------------------------------------------
\* The inductive invariant.
IInv == /\ Places /\ ListInv /\ DataInv /\ OtherTypes /\ MutexInv /\ NodesInv /\ LoneInv
        /\ CrashesOnlyWhereKnown

\* The invariant holds in every reachable state.
LEMMA Inductive == Spec => []IInv
<1>1. Init => IInv
  <2>1. Init => CrashesOnlyWhereKnown
    BY DEF Init, CrashesOnlyWhereKnown
  <2>. QED  BY <2>1, InitPlaces, InitList, InitData, InitOther, InitMutex, InitNodes, InitLone DEF IInv
<1>2. IInv /\ [Next]_vars => IInv'
  BY NextPlaces, NextList, NextData, NextOther, NextMutex, NextNodes, NextLone, NextCrashes DEF IInv
<1>. QED  BY <1>1, <1>2, PTL DEF Spec

(***************************************************************************)
(* Type correctness, for any number of connections and whatever fails: in  *)
(* particular positions never become negative, although the numbers of a   *)
(* seek command may be anything, and a node is on the list at most once.   *)
(***************************************************************************)
THEOREM TypeCorrect == Spec => []TypeOK
<1>1. IInv => TypeOK
  BY DEF IInv, TypeOK, DataInv, FileTable, OpenFile, DataFiles, MutexInv, ListInv, OtherTypes,
         HandlerLabels, Places
<1>. QED  BY <1>1, Inductive, PTL

(***************************************************************************)
(* Until a cleanup destroys it, the mutex protects every read and write of *)
(* the data file, and only a failed read or write leaves it locked.        *)
(***************************************************************************)
THEOREM MutexDisciplineHolds == Spec => []MutexDiscipline
<1>1. IInv => MutexDiscipline
  BY DEF IInv, MutexInv
<1>. QED  BY <1>1, Inductive, PTL

(***************************************************************************)
(* Until a cleanup begins, every connection thread that runs has its node, *)
(* and the node is on the list that main goes through.                     *)
(***************************************************************************)
THEOREM NodesOutlive == Spec => []NodesOutliveThreads
<1>1. IInv => NodesOutliveThreads
  BY DEF IInv, NodesInv
<1>. QED  BY <1>1, Inductive, PTL

(***************************************************************************)
(* The process is killed by a SIGSEGV only once a cleanup has begun or     *)
(* main has joined a thread again whose stack is gone, and by a double     *)
(* free only when two threads clean up at once.                            *)
(***************************************************************************)
THEOREM CrashesKnown == Spec => []CrashesOnlyWhereKnown
<1>1. IInv => CrashesOnlyWhereKnown
  BY DEF IInv
<1>. QED  BY <1>1, Inductive, PTL

-----------------------------------------------------------------------------
(***************************************************************************)
(* Clients that come one at a time: each waits until the thread of the one *)
(* before it has returned.  Nobody hangs up, no signal comes, no call      *)
(* fails on a connection's path (pthread_create and the clock may), three  *)
(* descriptors are left, and a seek command arrives with its newline.  The *)
(* scripts, their number and both builds are arbitrary.  The run           *)
(* server_alone is such an instance.                                       *)
(***************************************************************************)
\* A seek command arrives whole.
WholeSeek(p) == p.seekto # {} => Contains(p.data, NewLine)

ServesAlone ==
  /\ Arrival = "alone" /\ Rude = {} /\ Faults \subseteq {"pthread_create", "clock"}
  /\ \A s \in Scenario : s.signals = {}
  /\ MaxFd >= 6
  /\ \A c \in Client : \A i \in 1 .. Len(Script[c]) : WholeSeek(Script[c][i])

WriteLabels  == {"lock_w", "write", "unlock_w", "close_w"}
ReadLabels   == {"lseek", "lock_r", "read", "unlock_r", "send", "close_c", "complete", "close_d"}
HasFile      == {"ioctl"} \cup WriteLabels \cup ReadLabels
SocketClosed == {"complete", "close_d", "done"}

\* What the threads do when nothing fails and nobody is in a hurry.
QuietInv ==
  /\ unsent = {} /\ ~fatal_error_in_progress /\ \A t \in Thread : handler[t] = "none"
  /\ pc[main] \in {"accept", "spawn", "insert", "reap", "reap_log"}
  /\ \A c \in Client : pc[c] # "failed" /\ peer[c] # "gone" /\ (peer[c] = "away" => fd[c] = ERROR)
  /\ \A c \in Client : \A d \in Client :
       c # d /\ peer[c] # "away" /\ peer[d] # "away" => pc[c] = "done" \/ pc[d] = "done"

\* What they know of the packet they are working on, and of the file's name.
PacketInv ==
  /\ \A c \in Client : \A i \in 1 .. Len(inbox[c]) : WholeSeek(inbox[c][i])
  /\ \A c \in Client : pc[c] \in {"open_w"} \cup WriteLabels => ~ioctl_check(c)
  /\ \A c \in Client : pc[c] \in {"seek_open", "ioctl"} =>
                         ioctl_check(c) /\ Contains(received[c], NewLine)
  /\ \A c \in Client : pc[c] \in WriteLabels \cup {"open_r"} /\ ~use_aesd_char_device =>
                         dev.linked # 0

\* The data file that dataFileDescriptor stands for is c's.
OwnFile(c) ==
  /\ dataFileDescriptor \in Fd
  /\ fds[dataFileDescriptor].kind = "data" /\ fds[dataFileDescriptor].by = c
  /\ pc[c] \in WriteLabels => fds[dataFileDescriptor].flags = "rw"

\* Which descriptors are open.
OpenInv ==
  /\ \A n \in Fd : fds[n].kind \in {"std", "listening"} => n \in 0 .. 3
  /\ \A n \in Fd : \A c \in Client : fds[n] = Connection(c) =>
       n = fd[c] /\ pc[c] \notin SocketClosed
  /\ \A n \in Fd : fds[n].kind = "data" => n = dataFileDescriptor /\ pc[fds[n].by] \in HasFile
  /\ \A c \in Client : fd[c] # ERROR /\ pc[c] \notin SocketClosed => fds[fd[c]] = Connection(c)
  /\ \A c \in Client : pc[c] \in HasFile => OwnFile(c)

\* The inductive invariant when clients come one at a time.
AloneInv == IInv /\ QuietInv /\ PacketInv /\ OpenInv

\* It holds when main enters the accept loop.
LEMMA InitAlone ==
  ASSUME ServesAlone, Init
  PROVE  QuietInv /\ PacketInv /\ OpenInv
<1>1. pc[main] = "accept" /\ \A c \in Client : pc[c] = "none"
  BY Distinct DEF Init
<1>2. unsent = {}
  BY DEF Init, ServesAlone
<1>3. QuietInv
  BY <1>1, <1>2 DEF Init, QuietInv
<1>4. PacketInv
  <2>1. \A c \in Client : inbox[c] = << >> /\ Len(inbox[c]) = 0
    BY DEF Init
  <2>2. \A c \in Client : \A i \in 1 .. Len(inbox[c]) : FALSE
    BY <2>1
  <2>. QED  BY <1>1, <2>2 DEF PacketInv, WriteLabels
<1>5. \A n \in Fd : fds[n] \in {Std, Listening, CLOSED} /\ (fds[n] # CLOSED => n \in 0 .. 3)
  <2>1. PICK s \in Scenario :
          fds = [n \in Fd |-> CASE n = 3 -> Listening
                                [] n \in (IF s.daemon THEN 1 ELSE 0) .. 2 -> Std
                                [] OTHER -> CLOSED]
    BY DEF Init, AcceptTable
  <2>. QED  BY <2>1
<1>6. \A n \in Fd : /\ fds[n].kind \in {"std", "listening", "closed"}
                    /\ (fds[n].kind # "closed" => n \in 0 .. 3)
  BY <1>5 DEF Std, Listening, CLOSED
<1>7. \A c \in Client : Connection(c).kind = "client" /\ fd[c] = ERROR
  BY DEF Connection, Init
<1>8. OpenInv
  BY <1>1, <1>6, <1>7 DEF OpenInv, HasFile, WriteLabels, ReadLabels
<1>. QED  BY <1>3, <1>4, <1>8

\* Two clients that are not done with are the same client.
LEMMA OneClient ==
  ASSUME AloneInv, NEW c \in Client, NEW d \in Client, fd[c] # ERROR, fd[d] # ERROR,
         pc[c] # "done", pc[d] # "done"
  PROVE  c = d
  BY DEF AloneInv, QuietInv

\* A thread that has started belongs to a connection.
LEMMA StartedAccepted ==
  ASSUME AloneInv, NEW c \in Client, pc[c] # "none"
  PROVE  fd[c] # ERROR /\ peer[c] # "away"
  BY DEF AloneInv, IInv, ListInv, QuietInv

\* There is always a descriptor left.
LEMMA OneLeft ==
  ASSUME AloneInv, ServesAlone
  PROVE  CanOpen(fds)
<1>1. SUFFICES ASSUME \A n \in Fd : fds[n].kind # "closed" PROVE FALSE
  BY DEF CanOpen
<1>2. 4 \in Fd /\ 5 \in Fd /\ 6 \in Fd
  BY MaxFdAssumption DEF ServesAlone, Fd
<1>3. ASSUME NEW n \in {4, 5, 6}
      PROVE  fds[n].kind = "data" \/ \E c \in Client : fds[n] = Connection(c)
  <2>1. n \in Fd /\ n \notin 0 .. 3
    BY <1>2
  <2>2. fds[n] \in OpenFile
    BY <2>1 DEF AloneInv, IInv, DataInv, FileTable
  <2>3. fds[n].kind \notin {"std", "listening", "closed"}
    BY <1>1, <2>1 DEF AloneInv, OpenInv
  <2>. QED  BY <2>2, <2>3 DEF OpenFile, DataFiles, Std, Listening, CLOSED
<1>4. ASSUME NEW n \in {4, 5, 6}, NEW m \in {4, 5, 6}, fds[n].kind = "data", fds[m].kind = "data"
      PROVE  n = m
  BY <1>2, <1>4 DEF AloneInv, OpenInv
<1>5. ASSUME NEW n \in {4, 5, 6}, NEW m \in {4, 5, 6}, NEW c \in Client, NEW d \in Client,
             fds[n] = Connection(c), fds[m] = Connection(d)
      PROVE  n = m
  <2>1. n = fd[c] /\ pc[c] # "done" /\ m = fd[d] /\ pc[d] # "done"
    BY <1>2, <1>5 DEF AloneInv, OpenInv, SocketClosed
  <2>2. fd[c] # ERROR /\ fd[d] # ERROR
    BY <2>1 DEF ERROR
  <2>. QED  BY <2>1, <2>2, OneClient
<1>. QED  BY <1>3, <1>4, <1>5

\* The steps that do not happen.
LEMMA QuietSteps ==
  ASSUME AloneInv, ServesAlone, Next
  PROVE  \/ Spawn \/ Insert \/ Reap \/ ReapLog \/ log_timestamps \/ ClockFails
         \/ \E c \in Client : \/ Accept(c) \/ Connect(c)
                              \/ ClientStep(c) /\ ~CrashOnFreedNode(c)
<1>1. ~AcceptStops /\ ~AcceptFails
  BY OneLeft DEF AcceptStops, AcceptFails, AloneInv, QuietInv, ServesAlone
<1>2. ~CleanupBegun
  BY DEF CleanupBegun, AloneInv, QuietInv, CleanupLabels
<1>3. \A t \in Client \cup {main} : ~CrashOnFreedNode(t)
  BY <1>2, Distinct DEF CrashOnFreedNode, UsesFreedNode, AloneInv, IInv, NodesInv, ListInv
<1>4. ~MainCleanup /\ ~MainReturns
  BY <1>2 DEF MainCleanup, MainReturns, Runs, CleanupBegun
<1>5. \A t \in Thread : ~HandlerStep(t)
  BY DEF HandlerStep, HandlerShutdown, HandlerCleanup, HandlerRaises, HandlerRuns, AloneInv,
         QuietInv,
         CleanupLabels
<1>6. \A c \in Client : ~HangUp(c) /\ ~RecvFails(c)
  BY DEF HangUp, RecvFails, ServesAlone
<1>7. \A t \in Thread : \A sig \in unsent : FALSE
  BY DEF AloneInv, QuietInv
<1>. QED  BY <1>1, <1>3, <1>4, <1>5, <1>6, <1>7 DEF Next, MainStep

\* No descriptor is opened, closed or reopened: at most a position moves.
SameFiles ==
  \A n \in Fd : \/ fds'[n] = fds[n]
                \/ /\ fds[n].kind = "data" /\ fds'[n].kind = "data"
                   /\ fds'[n].by = fds[n].by /\ fds'[n].flags = fds[n].flags

\* Moving a position is such a step.
LEMMA SetPosSame ==
  ASSUME fds \in FileTable, Target.kind = "data", NEW p, fds' = SetPos(p)
  PROVE  SameFiles
<1>1. dataFileDescriptor \in Fd /\ fds[dataFileDescriptor].kind = "data"
  BY TargetIs
<1>2. fds[dataFileDescriptor] \in DataFiles
  BY <1>1, FileKinds DEF FileTable
<1>. QED  BY <1>1, <1>2 DEF SameFiles, SetPos, FileTable, DataFiles

\* It keeps what is known of the descriptors, if no thread opens or closes.
LEMMA KeepsOpen ==
  ASSUME OpenInv, UNCHANGED <<fd, dataFileDescriptor>>, SameFiles,
         fd \in [Client -> Fd \cup {ERROR}],
         \A d \in Client : /\ pc'[d] \in HasFile <=> pc[d] \in HasFile
                           /\ pc'[d] \in SocketClosed <=> pc[d] \in SocketClosed
                           /\ pc'[d] \in WriteLabels => pc[d] \in WriteLabels,
         \A n \in Fd : fds[n].kind = "data" => fds[n].by \in Client
  PROVE  OpenInv'
<1>1. \A n \in Fd : /\ fds'[n].kind = fds[n].kind
                    /\ fds[n].kind = "data" =>
                         fds'[n].by = fds[n].by /\ fds'[n].flags = fds[n].flags
  BY DEF SameFiles
<1>2. \A n \in Fd : \A c \in Client : fds'[n] = Connection(c) <=> fds[n] = Connection(c)
  BY <1>1 DEF SameFiles, Connection
<1>3. (\A n \in Fd : fds[n].kind \in {"std", "listening"} => n \in 0 .. 3)'
  BY <1>1 DEF OpenInv
<1>4. (\A n \in Fd : \A c \in Client : fds[n] = Connection(c) =>
          n = fd[c] /\ pc[c] \notin SocketClosed)'
  BY <1>2 DEF OpenInv
<1>5. (\A n \in Fd : fds[n].kind = "data" => n = dataFileDescriptor /\ pc[fds[n].by] \in HasFile)'
  BY <1>1 DEF OpenInv
<1>6. (\A c \in Client : fd[c] # ERROR /\ pc[c] \notin SocketClosed => fds[fd[c]] = Connection(c))'
  BY <1>2 DEF OpenInv
<1>7. (\A c \in Client : pc[c] \in HasFile => OwnFile(c))'
  BY <1>1 DEF OpenInv, OwnFile
<1>. QED  BY <1>3, <1>4, <1>5, <1>6, <1>7 DEF OpenInv

\* The thread c opens the data file.
LEMMA OpensData ==
  ASSUME AloneInv, NEW c \in Client, NEW flags, NEW inode, NEW l, CanOpen(fds),
         pc[c] \in {"seek_open", "open_w", "open_r"}, l \in HasFile, l \notin SocketClosed,
         l \in WriteLabels => flags = "rw", Goto(c, l), UNCHANGED fd,
         fds' = OpenFd(fds, DataFile(c, flags, inode)), dataFileDescriptor' = LowestFd(fds)
  PROVE  OpenInv'
<1>. DEFINE low == LowestFd(fds)
            file == DataFile(c, flags, inode)
<1>1. low \in Fd /\ fds[low].kind = "closed"
  BY LowestFdIsFree
<1>2. fds' = [fds EXCEPT ![low] = file] /\ dataFileDescriptor' = low
  BY DEF OpenFd
<1>3. file.kind = "data" /\ file.by = c /\ file.flags = flags /\ \A d : file # Connection(d)
  BY DEF DataFile, Connection
<1>4. /\ fds \in FileTable /\ fds \in [Fd -> OpenFile]
      /\ pc \in [Thread -> Labels] /\ c \in Thread
      /\ fd \in [Client -> Fd \cup {ERROR}]
  BY Distinct DEF AloneInv, IInv, DataInv, Places, FileTable, ListInv
<1>5. pc'[c] = l /\ \A d \in Client : d # c => pc'[d] = pc[d]
  BY <1>4 DEF Goto
<1>. HIDE DEF low, file
<1>6. fds'[low] = file /\ \A n \in Fd : n # low => fds'[n] = fds[n]
  BY <1>1, <1>2, <1>4
<1>7. pc[c] \notin HasFile \cup SocketClosed \cup {"none", "done"}
  BY DEF HasFile, WriteLabels, ReadLabels, SocketClosed
<1>8. fd[c] # ERROR
  BY <1>7, StartedAccepted
<1>9. \A d \in Client : pc[d] \in HasFile => d = c
  <2>1. \A d \in Client : pc[d] \in HasFile => pc[d] # "none" /\ pc[d] # "done"
    BY DEF HasFile, WriteLabels, ReadLabels
  <2>. QED  BY <2>1, <1>7, <1>8, StartedAccepted, OneClient
<1>10. \A d \in Client : pc[d] \notin HasFile
  BY <1>9, <1>7
<1>11. \A n \in Fd : fds[n].kind # "data"
  <2>1. \A n \in Fd : fds[n].kind = "data" => fds[n].by \in Client
    BY <1>4, FileKinds DEF DataFiles
  <2>. QED  BY <2>1, <1>10 DEF AloneInv, OpenInv
<1>12. (\A n \in Fd : fds[n].kind \in {"std", "listening"} => n \in 0 .. 3)'
  BY <1>3, <1>6 DEF AloneInv, OpenInv
<1>13. (\A n \in Fd : \A d \in Client : fds[n] = Connection(d) =>
           n = fd[d] /\ pc[d] \notin SocketClosed)'
  BY <1>3, <1>5, <1>6 DEF AloneInv, OpenInv
<1>14. (\A n \in Fd : fds[n].kind = "data" => n = dataFileDescriptor /\ pc[fds[n].by] \in HasFile)'
  BY <1>2, <1>3, <1>5, <1>6, <1>11
<1>15. (\A d \in Client : fd[d] # ERROR /\ pc[d] \notin SocketClosed => fds[fd[d]] = Connection(d))'
  <2>1. \A d \in Client : fd[d] # ERROR /\ pc'[d] \notin SocketClosed => fds[fd[d]] = Connection(d)
    BY <1>5, <1>7 DEF AloneInv, OpenInv
  <2>2. \A d \in Client : Connection(d).kind = "client"
    BY DEF Connection
  <2>3. \A d \in Client : fd[d] # ERROR /\ pc'[d] \notin SocketClosed => fd[d] \in Fd /\ fd[d] # low
    BY <2>1, <2>2, <1>1, <1>4
  <2>. QED  BY <2>1, <2>3, <1>6
<1>16. (\A d \in Client : pc[d] \in HasFile => OwnFile(d))'
  <2>1. \A d \in Client : pc'[d] \in HasFile => d = c
    BY <1>5, <1>10
  <2>. QED  BY <2>1, <1>1, <1>2, <1>3, <1>5, <1>6 DEF OwnFile
<1>. QED  BY <1>12, <1>13, <1>14, <1>15, <1>16 DEF OpenInv

\* The thread c closes the data file.
LEMMA ClosesData ==
  ASSUME AloneInv, NEW c \in Client, NEW l,
         pc[c] \in {"close_w", "close_d"}, l \notin HasFile,
         l \in SocketClosed <=> pc[c] \in SocketClosed, Goto(c, l),
         UNCHANGED <<fd, dataFileDescriptor>>,
         fds' = CloseFd(fds, dataFileDescriptor)
  PROVE  OpenInv'
<1>. DEFINE low == dataFileDescriptor
<1>1. pc[c] \in HasFile /\ pc[c] \notin {"none", "done"}
  BY DEF HasFile, WriteLabels, ReadLabels
<1>2. low \in Fd /\ fds[low].kind = "data" /\ fds[low].by = c
  BY <1>1 DEF AloneInv, OpenInv, OwnFile
<1>4. /\ fds \in [Fd -> OpenFile] /\ pc \in [Thread -> Labels] /\ c \in Thread
      /\ fd \in [Client -> Fd \cup {ERROR}]
  BY Distinct DEF AloneInv, IInv, DataInv, Places, FileTable, ListInv
<1>5. pc'[c] = l /\ \A d \in Client : d # c => pc'[d] = pc[d]
  BY <1>4 DEF Goto
<1>. HIDE DEF low
<1>6. fds'[low] = CLOSED /\ \A n \in Fd : n # low => fds'[n] = fds[n]
  BY <1>2, <1>4 DEF CloseFd, low
<1>7. /\ CLOSED.kind = "closed"
      /\ \A d \in Client : Connection(d) # CLOSED /\ Connection(d).kind = "client"
  BY DEF CLOSED, Connection
<1>8. fd[c] # ERROR
  BY <1>1, StartedAccepted
<1>9. \A d \in Client : pc[d] \in HasFile => d = c
  <2>1. \A d \in Client : pc[d] \in HasFile => pc[d] # "none" /\ pc[d] # "done"
    BY DEF HasFile, WriteLabels, ReadLabels
  <2>. QED  BY <2>1, <1>1, <1>8, StartedAccepted, OneClient
<1>12. (\A n \in Fd : fds[n].kind \in {"std", "listening"} => n \in 0 .. 3)'
  BY <1>7, <1>6 DEF AloneInv, OpenInv
<1>13. (\A n \in Fd : \A d \in Client : fds[n] = Connection(d) =>
           n = fd[d] /\ pc[d] \notin SocketClosed)'
  BY <1>7, <1>5, <1>6 DEF AloneInv, OpenInv
<1>14. (\A n \in Fd : fds[n].kind = "data" => n = dataFileDescriptor /\ pc[fds[n].by] \in HasFile)'
  <2>1. \A n \in Fd : fds[n].kind = "data" => n = low
    BY DEF AloneInv, OpenInv, low
  <2>. QED  BY <1>7, <1>6, <2>1
<1>15. (\A d \in Client : fd[d] # ERROR /\ pc[d] \notin SocketClosed => fds[fd[d]] = Connection(d))'
  <2>1. \A d \in Client : fd[d] # ERROR /\ pc'[d] \notin SocketClosed => fds[fd[d]] = Connection(d)
    BY <1>5 DEF AloneInv, OpenInv
  <2>3. \A d \in Client : fd[d] # ERROR /\ pc'[d] \notin SocketClosed => fd[d] \in Fd /\ fd[d] # low
    BY <2>1, <1>7, <1>2, <1>4
  <2>. QED  BY <2>1, <2>3, <1>6
<1>16. (\A d \in Client : pc[d] \in HasFile => OwnFile(d))'
  BY <1>5, <1>9
<1>. QED  BY <1>12, <1>13, <1>14, <1>15, <1>16 DEF OpenInv

\* The thread c closes its connection.
LEMMA ClosesSocket ==
  ASSUME AloneInv, NEW c \in Client, ClientClose(c)
  PROVE  OpenInv'
<1>. DEFINE low == fd[c]
<1>1. pc[c] = "close_c" /\ Goto(c, "complete") /\ UNCHANGED <<fd, dataFileDescriptor>>
  BY DEF ClientClose, Runs, threads
<1>2. fd[c] # ERROR /\ pc[c] \notin SocketClosed
  BY <1>1, StartedAccepted DEF SocketClosed
<1>4. /\ fds \in [Fd -> OpenFile] /\ pc \in [Thread -> Labels] /\ c \in Thread
      /\ fd \in [Client -> Fd \cup {ERROR}]
  BY Distinct DEF AloneInv, IInv, DataInv, Places, FileTable, ListInv
<1>3. low \in Fd /\ fds[low] = Connection(c)
  BY <1>2, <1>4 DEF AloneInv, OpenInv
<1>5. pc'[c] = "complete" /\ \A d \in Client : d # c => pc'[d] = pc[d]
  BY <1>1, <1>4 DEF Goto
<1>. HIDE DEF low
<1>6. fds'[low] = CLOSED /\ \A n \in Fd : n # low => fds'[n] = fds[n]
  BY <1>3, <1>4 DEF CloseFd, low, ClientClose
<1>7. /\ CLOSED.kind = "closed"
      /\ \A d \in Client : Connection(d) # CLOSED /\ Connection(d).kind = "client"
  BY DEF CLOSED, Connection
<1>8. \A d \in Client : /\ pc'[d] \in HasFile <=> pc[d] \in HasFile
                        /\ pc'[d] \in WriteLabels => pc[d] \in WriteLabels
  BY <1>1, <1>5 DEF HasFile, WriteLabels, ReadLabels
<1>12. (\A n \in Fd : fds[n].kind \in {"std", "listening"} => n \in 0 .. 3)'
  BY <1>7, <1>6 DEF AloneInv, OpenInv
<1>13. (\A n \in Fd : \A d \in Client : fds[n] = Connection(d) =>
           n = fd[d] /\ pc[d] \notin SocketClosed)'
  BY <1>1, <1>7, <1>5, <1>6 DEF AloneInv, OpenInv, low
<1>14. (\A n \in Fd : fds[n].kind = "data" => n = dataFileDescriptor /\ pc[fds[n].by] \in HasFile)'
  <2>1. \A n \in Fd : fds[n].kind = "data" => fds[n].by \in Client
    BY <1>4, FileKinds DEF DataFiles
  <2>. QED  BY <1>1, <1>7, <1>6, <1>8, <2>1 DEF AloneInv, OpenInv
<1>15. (\A d \in Client : fd[d] # ERROR /\ pc[d] \notin SocketClosed => fds[fd[d]] = Connection(d))'
  <2>1. \A d \in Client : fd[d] # ERROR /\ pc'[d] \notin SocketClosed =>
          d # c /\ fds[fd[d]] = Connection(d)
    BY <1>5 DEF AloneInv, OpenInv, SocketClosed
  <2>2. \A d \in Client : Connection(d).who = d
    BY DEF Connection
  <2>3. \A d \in Client : fd[d] # ERROR /\ pc'[d] \notin SocketClosed => fd[d] \in Fd /\ fd[d] # low
    BY <2>1, <2>2, <1>3, <1>4
  <2>. QED  BY <2>1, <2>3, <1>1, <1>6
<1>16. (\A d \in Client : pc[d] \in HasFile => OwnFile(d))'
  BY <1>1, <1>3, <1>6, <1>7, <1>8 DEF AloneInv, OpenInv, OwnFile
<1>. QED  BY <1>12, <1>13, <1>14, <1>15, <1>16 DEF OpenInv

\* The main thread accepts a connection.
LEMMA AcceptOpens ==
  ASSUME AloneInv, NEW c \in Client, Accept(c)
  PROVE  OpenInv'
<1>. DEFINE low == LowestFd(fds)
<1>1. low \in Fd /\ fds[low].kind = "closed"
  BY LowestFdIsFree DEF Accept
<1>2. /\ fds' = [fds EXCEPT ![low] = Connection(c)] /\ fd' = [fd EXCEPT ![c] = low]
      /\ fd[c] = ERROR /\ Goto(main, "spawn") /\ UNCHANGED dataFileDescriptor
  BY DEF Accept, OpenFd
<1>4. fds \in [Fd -> OpenFile] /\ pc \in [Thread -> Labels] /\ fd \in [Client -> Fd \cup {ERROR}]
  BY DEF AloneInv, IInv, DataInv, Places, FileTable, ListInv
<1>5. \A d \in Client : pc'[d] = pc[d]
  BY <1>2, <1>4, Distinct DEF Goto
<1>3. pc[c] = "none" /\ pc[c] \notin SocketClosed
  BY <1>2 DEF AloneInv, IInv, ListInv, SocketClosed
<1>. HIDE DEF low
<1>6. fds'[low] = Connection(c) /\ \A n \in Fd : n # low => fds'[n] = fds[n]
  BY <1>1, <1>2, <1>4
<1>7. fd'[c] = low /\ \A d \in Client : d # c => fd'[d] = fd[d]
  BY <1>2, <1>4
<1>8. \A d \in Client : Connection(d).kind = "client" /\ Connection(d).who = d
  BY DEF Connection
<1>9. \A n \in Fd : fds[n] # Connection(c)
  BY <1>2 DEF AloneInv, OpenInv, ERROR, Fd
<1>12. (\A n \in Fd : fds[n].kind \in {"std", "listening"} => n \in 0 .. 3)'
  BY <1>8, <1>6 DEF AloneInv, OpenInv
<1>13. (\A n \in Fd : \A d \in Client : fds[n] = Connection(d) =>
           n = fd[d] /\ pc[d] \notin SocketClosed)'
  <2>1. ASSUME NEW n \in Fd, NEW d \in Client, fds'[n] = Connection(d)
        PROVE  n = fd'[d] /\ pc'[d] \notin SocketClosed
    <3>1. CASE d = c
      BY <2>1, <3>1, <1>3, <1>5, <1>6, <1>7, <1>9
    <3>2. CASE d # c
      <4>1. n # low
        BY <3>2, <2>1, <1>6, <1>8
      <4>. QED  BY <2>1, <3>2, <4>1, <1>5, <1>6, <1>7 DEF AloneInv, OpenInv
    <3>. QED  BY <3>1, <3>2
  <2>. QED  BY <2>1
<1>14. (\A n \in Fd : fds[n].kind = "data" => n = dataFileDescriptor /\ pc[fds[n].by] \in HasFile)'
  <2>1. \A n \in Fd : fds[n].kind = "data" => fds[n].by \in Client
    BY <1>4, FileKinds DEF DataFiles
  <2>. QED  BY <1>2, <1>5, <1>6, <1>8, <2>1 DEF AloneInv, OpenInv
<1>15. (\A d \in Client : fd[d] # ERROR /\ pc[d] \notin SocketClosed => fds[fd[d]] = Connection(d))'
  <2>1. \A d \in Client : d # c /\ fd[d] # ERROR /\ pc'[d] \notin SocketClosed =>
                            fds[fd[d]] = Connection(d) /\ fd[d] \in Fd
    BY <1>4, <1>5 DEF AloneInv, OpenInv
  <2>3. \A d \in Client : d # c /\ fd[d] # ERROR /\ pc'[d] \notin SocketClosed => fd[d] # low
    BY <2>1, <1>1, <1>8
  <2>. QED  BY <2>1, <2>3, <1>6, <1>7
<1>16. (\A d \in Client : pc[d] \in HasFile => OwnFile(d))'
  <2>1. \A d \in Client : pc[d] \in HasFile => dataFileDescriptor # low
    BY <1>1 DEF AloneInv, OpenInv, OwnFile
  <2>. QED  BY <2>1, <1>2, <1>5, <1>6 DEF AloneInv, OpenInv, OwnFile
<1>. QED  BY <1>12, <1>13, <1>14, <1>15, <1>16 DEF OpenInv

\* What a thread at label l knows of its packet.
Known(c, l) ==
  /\ l \in {"open_w"} \cup WriteLabels => ~ioctl_check(c)
  /\ l \in {"seek_open", "ioctl"} => ioctl_check(c) /\ Contains(received[c], NewLine)

\* The labels at which the plain file has its name.
Linked == WriteLabels \cup {"open_r"}

\* A step that receives nothing keeps what the threads know.
LEMMA PacketFrame ==
  ASSUME PacketInv, UNCHANGED <<receive_buffer, received, inbox, use_aesd_char_device>>,
         \A d \in Client : pc'[d] = pc[d] \/ Known(d, pc'[d]),
         ~use_aesd_char_device =>
           \/ dev'.linked # 0
           \/ /\ dev'.linked = dev.linked
              /\ \A d \in Client : pc'[d] \in Linked => pc[d] \in Linked
  PROVE  PacketInv'
<1>1. \A d \in Client : ioctl_check(d)' = ioctl_check(d)
  BY DEF ioctl_check
<1>2. (\A c \in Client : \A i \in 1 .. Len(inbox[c]) : WholeSeek(inbox[c][i]))'
  BY DEF PacketInv
<1>3. (\A c \in Client : pc[c] \in {"open_w"} \cup WriteLabels => ~ioctl_check(c))'
  BY <1>1 DEF PacketInv, Known
<1>4. (\A c \in Client : pc[c] \in {"seek_open", "ioctl"} =>
                           ioctl_check(c) /\ Contains(received[c], NewLine))'
  BY <1>1 DEF PacketInv, Known
<1>5. (\A c \in Client : pc[c] \in WriteLabels \cup {"open_r"} /\ ~use_aesd_char_device =>
                           dev.linked # 0)'
  BY DEF PacketInv, Linked
<1>. QED  BY <1>2, <1>3, <1>4, <1>5 DEF PacketInv

\* The data file of a thread that has opened it.
LEMMA OwnTarget ==
  ASSUME AloneInv, NEW c \in Client, pc[c] \in HasFile
  PROVE  /\ Target.kind = "data" /\ Target.by = c
         /\ pc[c] \in WriteLabels => Target.flags = "rw"
<1>1. OwnFile(c)
  BY DEF AloneInv, OpenInv
<1>2. Target = fds[dataFileDescriptor]
  BY <1>1 DEF OwnFile, Target, IsOpen
<1>. QED  BY <1>1, <1>2 DEF OwnFile

\* The connection of a thread that has not closed it.
LEMMA OwnSocket ==
  ASSUME AloneInv, NEW c \in Client, pc[c] # "none", pc[c] \notin SocketClosed
  PROVE  /\ Socket(c).kind = "client" /\ Socket(c).who = c /\ peer[c] # "gone"
<1>1. fd[c] # ERROR
  BY StartedAccepted
<1>2. fd[c] \in Fd /\ fds[fd[c]] = Connection(c)
  BY <1>1 DEF AloneInv, OpenInv, IInv, ListInv
<1>3. Socket(c) = Connection(c)
  BY <1>2 DEF Socket, IsOpen, Connection
<1>. QED  BY <1>3 DEF Connection, AloneInv, QuietInv

\* An open that the file's existence does not prevent succeeds.
LEMMA OpenSucceeds ==
  ASSUME AloneInv, ServesAlone, NEW c \in Client, NEW flags \in {"ro", "rw"}, NEW ok, NEW bad,
         OpenDataFile(c, flags, ok, bad),
         flags = "ro" /\ ~use_aesd_char_device => dev.linked # 0
  PROVE  /\ Goto(c, ok) /\ CanOpen(fds)
         /\ \E inode : fds' = OpenFd(fds, DataFile(c, flags, inode))
         /\ dataFileDescriptor' = LowestFd(fds)
         /\ UNCHANGED <<fd, receive_buffer, received, inbox, use_aesd_char_device, peer>>
         /\ ~use_aesd_char_device => dev'.linked # 0
<1>. DEFINE file   == IF ~use_aesd_char_device /\ flags = "rw" THEN Create(dev) ELSE dev
            inode  == IF use_aesd_char_device THEN 0 ELSE file.linked
<1>1. CanOpen(fds)
  BY OneLeft
<1>2. DataOK(fds, dev)
  BY DEF AloneInv, IInv, DataInv
<1>3. CASE use_aesd_char_device
  <2>1. /\ dev' = dev /\ Goto(c, ok) /\ fds' = OpenFd(fds, DataFile(c, flags, inode))
        /\ dataFileDescriptor' = LowestFd(fds)
    BY <1>1, <1>3, Zenon DEF OpenDataFile, ServesAlone
  <2>2. UNCHANGED <<fd, receive_buffer, received, inbox, peer>>
    BY DEF OpenDataFile, threads, locals, net
  <2>. QED  BY <2>1, <2>2, <1>1, <1>3 DEF use_aesd_char_device
<1>4. CASE ~use_aesd_char_device
  <2>1. "buffer" \notin DOMAIN file /\ file.linked # 0
    <3>1. CASE flags = "rw"
      BY <3>1, <1>4, <1>2, CreateOK DEF use_aesd_char_device
    <3>2. CASE flags = "ro"
      BY <3>2, <1>4 DEF use_aesd_char_device
    <3>. QED  BY <3>1, <3>2
  <2>2. inode # 0
    BY <2>1, <1>4
  <2>3. /\ dev' = file /\ Goto(c, ok) /\ fds' = OpenFd(fds, DataFile(c, flags, inode))
        /\ dataFileDescriptor' = LowestFd(fds)
    BY <1>1, <1>4, <2>2, Zenon DEF OpenDataFile, ServesAlone
  <2>4. UNCHANGED <<fd, receive_buffer, received, inbox, peer>>
    BY DEF OpenDataFile, threads, locals, net
  <2>. QED  BY <2>1, <2>3, <2>4, <1>1, <1>4 DEF use_aesd_char_device
<1>. QED  BY <1>3, <1>4

\* A write to the data file keeps the files open and the name linked.
LEMMA WriteKeeps ==
  ASSUME AloneInv, NEW bytes, WriteData(bytes)
  PROVE  /\ SameFiles /\ UNCHANGED use_aesd_char_device
         /\ ~use_aesd_char_device => dev'.linked = dev.linked
<1>1. CASE UNCHANGED <<dev, fds>>
  BY <1>1 DEF SameFiles, use_aesd_char_device
<1>2. CASE /\ Target.kind = "data" /\ use_aesd_char_device
           /\ dev' = DeviceWrite(dev, bytes)
           /\ fds' = SetPos(Target.pos + Len(Accepted(bytes)))
  <2>1. SameFiles
    BY <1>2, SetPosSame DEF AloneInv, IInv, DataInv
  <2>2. "buffer" \in DOMAIN DeviceWrite(dev, bytes)
    BY <1>2 DEF use_aesd_char_device, DeviceWrite
  <2>. QED  BY <1>2, <2>1, <2>2 DEF use_aesd_char_device
<1>3. CASE /\ Target.kind = "data" /\ ~use_aesd_char_device
           /\ dev' = FileWrite(dev, Target.inode, bytes)
           /\ fds' = SetPos(Len(dev'.contents[Target.inode]))
  <2>1. SameFiles
    BY <1>3, SetPosSame DEF AloneInv, IInv, DataInv
  <2>2. FileOK(dev)
    BY <1>3 DEF AloneInv, IInv, DataInv, DataOK, use_aesd_char_device
  <2>3. /\ "buffer" \notin DOMAIN FileWrite(dev, Target.inode, bytes)
        /\ FileWrite(dev, Target.inode, bytes).linked = dev.linked
    BY <2>2 DEF FileOK, FileWrite
  <2>. QED  BY <1>3, <2>1, <2>3 DEF use_aesd_char_device
<1>. QED  BY <1>1, <1>2, <1>3 DEF WriteData

\* A thread moves on and leaves the descriptors open as they are.
LEMMA StayMove ==
  ASSUME AloneInv, NEW c \in Client, NEW l, Goto(c, l), SameFiles,
         UNCHANGED <<fd, dataFileDescriptor, receive_buffer, received, inbox,
                     use_aesd_char_device>>,
         ~use_aesd_char_device => dev'.linked = dev.linked,
         l \in HasFile <=> pc[c] \in HasFile,
         l \in SocketClosed <=> pc[c] \in SocketClosed,
         l \in WriteLabels => pc[c] \in WriteLabels,
         l \in Linked => pc[c] \in Linked,
         Known(c, l)
  PROVE  OpenInv' /\ PacketInv'
<1>1. pc \in [Thread -> Labels] /\ c \in Thread /\ Client \subseteq Thread
  BY Distinct DEF AloneInv, IInv, Places
<1>2. pc'[c] = l /\ \A d \in Client : d # c => pc'[d] = pc[d]
  BY <1>1 DEF Goto
<1>3. \A n \in Fd : fds[n].kind = "data" => fds[n].by \in Client
  BY FileKinds DEF AloneInv, IInv, DataInv, FileTable, DataFiles
<1>4. fd \in [Client -> Fd \cup {ERROR}]
  BY DEF AloneInv, IInv, ListInv
<1>5. OpenInv'
  BY <1>2, <1>3, <1>4, KeepsOpen DEF AloneInv
<1>6. PacketInv'
  BY <1>2, PacketFrame DEF AloneInv
<1>. QED  BY <1>5, <1>6

\* A thread opens the data file and moves on.
LEMMA OpenMove ==
  ASSUME AloneInv, ServesAlone, NEW c \in Client, NEW flags \in {"ro", "rw"}, NEW ok, NEW bad,
         OpenDataFile(c, flags, ok, bad),
         flags = "ro" /\ ~use_aesd_char_device => dev.linked # 0,
         pc[c] \in {"seek_open", "open_w", "open_r"}, ok \in HasFile, ok \notin SocketClosed,
         ok \in WriteLabels => flags = "rw", Known(c, ok)
  PROVE  OpenInv' /\ PacketInv' /\ Goto(c, ok)
<1>1. pc \in [Thread -> Labels] /\ c \in Thread /\ Client \subseteq Thread
  BY Distinct DEF AloneInv, IInv, Places
<1>2. /\ Goto(c, ok) /\ CanOpen(fds)
      /\ \E inode : fds' = OpenFd(fds, DataFile(c, flags, inode))
      /\ dataFileDescriptor' = LowestFd(fds)
      /\ UNCHANGED <<fd, receive_buffer, received, inbox, use_aesd_char_device>>
      /\ ~use_aesd_char_device => dev'.linked # 0
  BY OpenSucceeds
<1>3. pc'[c] = ok /\ \A d \in Client : d # c => pc'[d] = pc[d]
  BY <1>1, <1>2 DEF Goto
<1>4. OpenInv'
  BY <1>2, OpensData
<1>5. PacketInv'
  BY <1>2, <1>3, PacketFrame DEF AloneInv
<1>. QED  BY <1>2, <1>4, <1>5

\* A thread receives a packet: from its own client, which is there.
LEMMA RecvMove ==
  ASSUME AloneInv, ServesAlone, NEW c \in Client, Recv(c)
  PROVE  OpenInv' /\ PacketInv' /\ \E l \in {"seek_open", "open_w"} : Goto(c, l)
<1>. DEFINE p == Head(inbox[c])
            l == IF p.seekto # {} THEN "seek_open" ELSE "open_w"
<1>1. pc \in [Thread -> Labels] /\ c \in Thread /\ Client \subseteq Thread
  BY Distinct DEF AloneInv, IInv, Places
<1>2. pc[c] = "recv"
  BY DEF Recv, Runs
<1>3. Socket(c).kind = "client" /\ Socket(c).who = c /\ peer[c] # "gone"
  BY <1>2, OwnSocket DEF SocketClosed
<1>4. /\ inbox[c] # << >>
      /\ receive_buffer' = [receive_buffer EXCEPT ![c] = p]
      /\ received' = [received EXCEPT ![c] = p.data]
      /\ inbox' = [inbox EXCEPT ![c] = Tail(@)]
      /\ Goto(c, l)
  BY <1>3 DEF Recv
<1>5. UNCHANGED <<fds, fd, dataFileDescriptor, dev>>
  BY DEF Recv, files, threads
<1>6. /\ inbox \in [Client -> Seq(Packet)] /\ receive_buffer \in [Client -> Packet]
      /\ received \in [Client -> Seq(Int)]
  BY DEF AloneInv, IInv, DataInv
<1>7. pc'[c] = l /\ \A d \in Client : d # c => pc'[d] = pc[d]
  BY <1>1, <1>4 DEF Goto
<1>8. /\ receive_buffer'[c] = p /\ received'[c] = p.data /\ inbox'[c] = Tail(inbox[c])
      /\ \A d \in Client : d # c => /\ receive_buffer'[d] = receive_buffer[d]
                                    /\ received'[d] = received[d] /\ inbox'[d] = inbox[d]
  BY <1>4, <1>6
<1>9. WholeSeek(p) /\ \A i \in 1 .. Len(Tail(inbox[c])) : WholeSeek(Tail(inbox[c])[i])
  <2>1. \A i \in 1 .. Len(inbox[c]) : WholeSeek(inbox[c][i])
    BY DEF AloneInv, PacketInv
  <2>2. inbox[c] \in Seq(Packet) /\ inbox[c] # << >>
    BY <1>4, <1>6
  <2>3. p = inbox[c][1] /\ 1 \in 1 .. Len(inbox[c])
    BY <2>2
  <2>4. \A i \in 1 .. Len(Tail(inbox[c])) :
          i + 1 \in 1 .. Len(inbox[c]) /\ Tail(inbox[c])[i] = inbox[c][i + 1]
    BY <2>2
  <2>. QED  BY <2>1, <2>3, <2>4, Zenon
<1>. HIDE DEF p, l
<1>10. OpenInv'
  <2>1. l \in {"seek_open", "open_w"}
    BY DEF l
  <2>2. \A d \in Client : /\ pc'[d] \in HasFile <=> pc[d] \in HasFile
                          /\ pc'[d] \in SocketClosed <=> pc[d] \in SocketClosed
                          /\ pc'[d] \in WriteLabels => pc[d] \in WriteLabels
    BY <1>2, <1>7, <2>1 DEF HasFile, WriteLabels, ReadLabels, SocketClosed
  <2>3. \A n \in Fd : fds[n].kind = "data" => fds[n].by \in Client
    BY FileKinds DEF AloneInv, IInv, DataInv, FileTable, DataFiles
  <2>4. fd \in [Client -> Fd \cup {ERROR}]
    BY DEF AloneInv, IInv, ListInv
  <2>5. SameFiles
    BY <1>5 DEF SameFiles
  <2>. QED  BY <1>5, <2>2, <2>3, <2>4, <2>5, KeepsOpen DEF AloneInv
<1>11. ASSUME NEW d \in Client PROVE \A i \in 1 .. Len(inbox'[d]) : WholeSeek(inbox'[d][i])
  BY <1>8, <1>9 DEF AloneInv, PacketInv
<1>12. ASSUME NEW d \in Client, pc'[d] \in {"open_w"} \cup WriteLabels PROVE ~ioctl_check(d)'
  BY <1>7, <1>8, <1>12 DEF AloneInv, PacketInv, ioctl_check, l, WriteLabels
<1>13. ASSUME NEW d \in Client, pc'[d] \in {"seek_open", "ioctl"}
       PROVE  ioctl_check(d)' /\ Contains(received'[d], NewLine)
  BY <1>7, <1>8, <1>9, <1>13 DEF AloneInv, PacketInv, ioctl_check, l, WholeSeek
<1>14. ASSUME NEW d \in Client, pc'[d] \in WriteLabels \cup {"open_r"}, ~use_aesd_char_device'
       PROVE  dev'.linked # 0
  BY <1>5, <1>7, <1>14 DEF AloneInv, PacketInv, use_aesd_char_device, l, WriteLabels
<1>15. PacketInv'
  BY <1>11, <1>12, <1>13, <1>14 DEF PacketInv
<1>. QED  BY <1>4, <1>10, <1>15 DEF l

\* Where a thread goes after a chunk of data.
LEMMA AfterChunkIs ==
  ASSUME AloneInv, NEW c \in Client
  PROVE  /\ pc[c] = "ioctl" => AfterChunk(c) \in {"lock_r", "lseek"}
         /\ pc[c] = "close_w" => AfterChunk(c) \in {"recv", "open_r"}
  BY DEF AloneInv, PacketInv, AfterChunk, Answer, WriteLabels

\* What a connection thread does, by label.
LEMMA ClientMoves ==
  ASSUME AloneInv, ServesAlone, NEW c \in Client, ClientStep(c), ~CrashOnFreedNode(c)
  PROVE  OpenInv' /\ PacketInv' /\ \E l : Goto(c, l) /\ l # "failed"
<1>. DEFINE Goal == OpenInv' /\ PacketInv' /\ \E l : Goto(c, l) /\ l # "failed"
<1>0. fds \in FileTable
  BY DEF AloneInv, IInv, DataInv
<1>s. ASSUME UNCHANGED fds PROVE SameFiles
  BY <1>s DEF SameFiles
<1>d. ASSUME UNCHANGED dev
      PROVE  UNCHANGED use_aesd_char_device /\ (~use_aesd_char_device => dev'.linked = dev.linked)
  BY <1>d DEF use_aesd_char_device
<1>1. CASE ClientStart(c)
  <2>1. /\ pc[c] = "start" /\ Goto(c, "recv")
        /\ UNCHANGED <<fds, dataFileDescriptor, dev, fd, receive_buffer, received, inbox>>
    BY <1>1 DEF ClientStart, Runs, files, threads, locals, net
  <2>. QED  BY <2>1, <1>s, <1>d, StayMove
               DEF HasFile, WriteLabels, ReadLabels, SocketClosed, Linked, Known
<1>2. CASE Recv(c)
  BY <1>2, RecvMove
<1>3. CASE SeekOpen(c)
  <2>1. pc[c] = "seek_open" /\ OpenDataFile(c, "rw", "ioctl", "failed")
    BY <1>3 DEF SeekOpen, Runs
  <2>2. Known(c, "ioctl")
    BY <2>1 DEF AloneInv, PacketInv, Known, WriteLabels
  <2>. QED  BY <2>1, <2>2, OpenMove DEF HasFile, WriteLabels, SocketClosed
<1>4. CASE Ioctl(c)
  <2>1. /\ pc[c] = "ioctl" /\ Goto(c, AfterChunk(c))
        /\ UNCHANGED <<dataFileDescriptor, dev, fd, receive_buffer, received, inbox>>
    BY <1>4 DEF Ioctl, Runs, threads, locals, net
  <2>2. SameFiles
    <3>1. \/ UNCHANGED fds
          \/ Target.kind = "data" /\ \E p : fds' = SetPos(p)
      BY <1>4, Zenon DEF Ioctl
    <3>. QED  BY <3>1, <1>0, <1>s, SetPosSame
  <2>3. AfterChunk(c) \in {"lock_r", "lseek"}
    BY <2>1, AfterChunkIs
  <2>. QED  BY <2>1, <2>2, <2>3, <1>d, StayMove
               DEF HasFile, WriteLabels, ReadLabels, SocketClosed, Linked, Known
<1>5. CASE WriteOpen(c)
  <2>1. pc[c] = "open_w" /\ OpenDataFile(c, "rw", "lock_w", "lock_w")
    BY <1>5 DEF WriteOpen, Runs
  <2>2. Known(c, "lock_w")
    BY <2>1 DEF AloneInv, PacketInv, Known
  <2>. QED  BY <2>1, <2>2, OpenMove DEF HasFile, WriteLabels, SocketClosed
<1>6. ASSUME NEW from, NEW to, Lock(c, from, to) \/ Unlock(c, from, to),
             <<from, to>> \in {<<"lock_w", "write">>, <<"unlock_w", "close_w">>,
                               <<"lock_r", "read">>, <<"unlock_r", "send">>}
      PROVE  Goal
  <2>1. /\ pc[c] = from /\ Goto(c, to)
        /\ UNCHANGED <<fds, dataFileDescriptor, dev, fd, receive_buffer, received, inbox>>
    BY <1>6 DEF Lock, Unlock, Runs, files, threads, locals, net
  <2>2. Known(c, to)
    BY <1>6, <2>1 DEF AloneInv, PacketInv, Known, WriteLabels
  <2>. QED  BY <1>6, <2>1, <2>2, <1>s, <1>d, StayMove
               DEF HasFile, WriteLabels, ReadLabels, SocketClosed, Linked
<1>7. CASE Write(c)
  <2>1. pc[c] = "write" /\ WriteTo(c, received[c], "unlock_w")
    BY <1>7 DEF Write, Runs
  <2>2. Target.kind = "data" /\ Target.flags = "rw"
    BY <2>1, OwnTarget DEF HasFile, WriteLabels
  <2>3. WriteData(received[c]) /\ Goto(c, "unlock_w")
    BY <2>1, <2>2 DEF WriteTo, Gone, ServesAlone
  <2>4. UNCHANGED <<dataFileDescriptor, fd, receive_buffer, received, inbox>>
    BY <2>1 DEF WriteTo, threads, locals
  <2>5. Known(c, "unlock_w")
    BY <2>1 DEF AloneInv, PacketInv, Known, WriteLabels
  <2>6. /\ SameFiles /\ UNCHANGED use_aesd_char_device
        /\ (~use_aesd_char_device => dev'.linked = dev.linked)
    BY <2>3, WriteKeeps
  <2>. QED  BY <2>1, <2>3, <2>4, <2>5, <2>6, StayMove
               DEF HasFile, WriteLabels, ReadLabels, SocketClosed, Linked
<1>8. CASE WriteClose(c)
  <2>1. /\ pc[c] = "close_w" /\ Goto(c, AfterChunk(c)) /\ fds' = CloseFd(fds, dataFileDescriptor)
        /\ UNCHANGED <<dataFileDescriptor, dev, fd, receive_buffer, received, inbox>>
    BY <1>8 DEF WriteClose, Runs, threads, locals, net
  <2>2. AfterChunk(c) \in {"recv", "open_r"}
    BY <2>1, AfterChunkIs
  <2>3. OpenInv'
    BY <2>1, <2>2, ClosesData DEF HasFile, WriteLabels, ReadLabels, SocketClosed
  <2>4. PacketInv'
    <3>1. pc \in [Thread -> Labels] /\ c \in Thread /\ Client \subseteq Thread
      BY Distinct DEF AloneInv, IInv, Places
    <3>2. pc'[c] = AfterChunk(c) /\ \A d \in Client : d # c => pc'[d] = pc[d]
      BY <2>1, <3>1 DEF Goto
    <3>3. \A d \in Client : pc'[d] = pc[d] \/ Known(d, pc'[d])
      BY <2>2, <3>2 DEF Known, WriteLabels
    <3>4. \A d \in Client : pc'[d] \in Linked => pc[d] \in Linked
      BY <2>1, <3>2 DEF Linked, WriteLabels
    <3>. QED  BY <2>1, <3>3, <3>4, <1>d, PacketFrame DEF AloneInv
  <2>. QED  BY <2>1, <2>2, <2>3, <2>4
<1>9. CASE ReadOpen(c)
  <2>1. pc[c] = "open_r" /\ OpenDataFile(c, "ro", Answer, "failed")
    BY <1>9 DEF ReadOpen, Runs
  <2>2. Answer \in {"lock_r", "lseek"}
    BY DEF Answer
  <2>3. ~use_aesd_char_device => dev.linked # 0
    BY <2>1 DEF AloneInv, PacketInv
  <2>4. /\ Known(c, Answer) /\ Answer \in HasFile /\ Answer \notin SocketClosed
        /\ Answer \notin WriteLabels /\ Answer # "failed"
    BY <2>2 DEF Known, WriteLabels, HasFile, ReadLabels, SocketClosed
  <2>. QED  BY <2>1, <2>3, <2>4, OpenMove
<1>10. CASE Rewind(c)
  <2>1. /\ pc[c] = "lseek"
        /\ UNCHANGED <<dataFileDescriptor, dev, fd, receive_buffer, received, inbox>>
    BY <1>10 DEF Rewind, Runs, threads, locals, net
  <2>2. Target.kind = "data"
    BY <2>1, OwnTarget DEF HasFile, ReadLabels
  <2>3. fds' = SetPos(0) /\ Goto(c, "lock_r")
    BY <1>10, <2>2 DEF Rewind
  <2>4. SameFiles
    BY <2>2, <2>3, <1>0, SetPosSame
  <2>. QED  BY <2>1, <2>3, <2>4, <1>d, StayMove
               DEF HasFile, WriteLabels, ReadLabels, SocketClosed, Linked, Known
<1>11. CASE Read(c)
  <2>1. pc[c] = "read" /\ UNCHANGED <<dataFileDescriptor, dev, fd, receive_buffer, received>>
    BY <1>11 DEF Read, Runs, threads
  <2>2. Target.kind = "data"
    BY <2>1, OwnTarget DEF HasFile, ReadLabels
  <2>3. Goto(c, "unlock_r") /\ UNCHANGED inbox /\ \E p : fds' = SetPos(p)
    BY <1>11, <2>2, Zenon DEF Read, ServesAlone
  <2>4. SameFiles
    BY <2>2, <2>3, <1>0, SetPosSame
  <2>. QED  BY <2>1, <2>3, <2>4, <1>d, StayMove
               DEF HasFile, WriteLabels, ReadLabels, SocketClosed, Linked, Known
<1>12. CASE Send(c)
  <2>1. /\ pc[c] = "send"
        /\ UNCHANGED <<fds, dataFileDescriptor, dev, fd, receive_buffer, received, inbox>>
    BY <1>12 DEF Send, Runs, files, threads, locals
  <2>2. Socket(c).kind = "client" /\ ~Gone(Socket(c))
    BY <2>1, OwnSocket DEF SocketClosed, Gone
  <2>3. Goto(c, AfterSend(c)) /\ AfterSend(c) \in {"close_c", "lock_r"}
    BY <1>12, <2>2 DEF Send, AfterSend
  <2>. QED  BY <2>1, <2>3, <1>s, <1>d, StayMove
               DEF HasFile, WriteLabels, ReadLabels, SocketClosed, Linked, Known
<1>13. CASE ClientClose(c)
  <2>1. /\ pc[c] = "close_c" /\ Goto(c, "complete")
        /\ UNCHANGED <<dev, receive_buffer, received, inbox>>
    BY <1>13 DEF ClientClose, Runs, locals, net
  <2>2. PacketInv'
    <3>1. pc \in [Thread -> Labels] /\ c \in Thread /\ Client \subseteq Thread
      BY Distinct DEF AloneInv, IInv, Places
    <3>2. pc'[c] = "complete" /\ \A d \in Client : d # c => pc'[d] = pc[d]
      BY <2>1, <3>1 DEF Goto
    <3>3. \A d \in Client : pc'[d] = pc[d] \/ Known(d, pc'[d])
      BY <3>2 DEF Known, WriteLabels
    <3>4. \A d \in Client : pc'[d] \in Linked => pc[d] \in Linked
      BY <3>2 DEF Linked, WriteLabels
    <3>. QED  BY <2>1, <3>3, <3>4, <1>d, PacketFrame DEF AloneInv
  <2>. QED  BY <1>13, <2>1, <2>2, ClosesSocket
<1>14. CASE Complete(c)
  <2>1. /\ pc[c] = "complete" /\ Goto(c, "close_d")
        /\ UNCHANGED <<fds, dataFileDescriptor, dev, fd, receive_buffer, received, inbox>>
    BY <1>14 DEF Complete, Runs, files, threads, locals, net
  <2>. QED  BY <2>1, <1>s, <1>d, StayMove
               DEF HasFile, WriteLabels, ReadLabels, SocketClosed, Linked, Known
<1>15. CASE DataClose(c)
  <2>1. /\ pc[c] = "close_d" /\ Goto(c, "done") /\ fds' = CloseFd(fds, dataFileDescriptor)
        /\ UNCHANGED <<dataFileDescriptor, dev, fd, receive_buffer, received, inbox>>
    BY <1>15 DEF DataClose, Runs, threads, locals, net
  <2>2. OpenInv'
    BY <2>1, ClosesData DEF HasFile, WriteLabels, ReadLabels, SocketClosed
  <2>3. PacketInv'
    <3>1. pc \in [Thread -> Labels] /\ c \in Thread /\ Client \subseteq Thread
      BY Distinct DEF AloneInv, IInv, Places
    <3>2. pc'[c] = "done" /\ \A d \in Client : d # c => pc'[d] = pc[d]
      BY <2>1, <3>1 DEF Goto
    <3>3. \A d \in Client : pc'[d] = pc[d] \/ Known(d, pc'[d])
      BY <3>2 DEF Known, WriteLabels
    <3>4. \A d \in Client : pc'[d] \in Linked => pc[d] \in Linked
      BY <3>2 DEF Linked, WriteLabels
    <3>. QED  BY <2>1, <3>3, <3>4, <1>d, PacketFrame DEF AloneInv
  <2>. QED  BY <2>1, <2>2, <2>3
<1>16. CASE WriteLock(c)
  BY <1>16, <1>6 DEF WriteLock
<1>17. CASE WriteUnlock(c)
  BY <1>17, <1>6 DEF WriteUnlock
<1>18. CASE ReadLock(c)
  BY <1>18, <1>6 DEF ReadLock
<1>19. CASE ReadUnlock(c)
  BY <1>19, <1>6 DEF ReadUnlock
<1>. QED
  BY <1>1, <1>2, <1>3, <1>4, <1>5, <1>7, <1>8, <1>9, <1>10, <1>11, <1>12, <1>13, <1>14, <1>15,
     <1>16, <1>17, <1>18, <1>19 DEF ClientStep

\* A step of a thread that does not fail keeps the peace.
LEMMA QuietFrame ==
  ASSUME QuietInv, UNCHANGED <<unsent, fatal_error_in_progress, handler, peer, fd>>,
         pc'[main] \in {"accept", "spawn", "insert", "reap"},
         \A c \in Client : pc'[c] # "failed" /\ (pc[c] = "done" => pc'[c] = "done")
  PROVE  QuietInv'
  BY DEF QuietInv

\* Steps that move no connection thread, except from "none" to "start".
LEMMA OthersMove ==
  ASSUME AloneInv, SameFiles,
         UNCHANGED <<fd, dataFileDescriptor, receive_buffer, received, inbox,
                     use_aesd_char_device>>,
         ~use_aesd_char_device => dev'.linked = dev.linked,
         \A d \in Client : pc'[d] = pc[d] \/ (pc[d] = "none" /\ pc'[d] = "start")
  PROVE  OpenInv' /\ PacketInv'
<1>1. \A d \in Client : /\ pc'[d] \in HasFile <=> pc[d] \in HasFile
                        /\ pc'[d] \in SocketClosed <=> pc[d] \in SocketClosed
                        /\ pc'[d] \in WriteLabels => pc[d] \in WriteLabels
                        /\ pc'[d] \in Linked => pc[d] \in Linked
                        /\ pc'[d] = pc[d] \/ Known(d, pc'[d])
  BY DEF HasFile, WriteLabels, ReadLabels, SocketClosed, Linked, Known
<1>3. \A n \in Fd : fds[n].kind = "data" => fds[n].by \in Client
  BY FileKinds DEF AloneInv, IInv, DataInv, FileTable, DataFiles
<1>4. fd \in [Client -> Fd \cup {ERROR}]
  BY DEF AloneInv, IInv, ListInv
<1>5. OpenInv'
  BY <1>1, <1>3, <1>4, KeepsOpen DEF AloneInv
<1>6. PacketInv'
  BY <1>1, PacketFrame DEF AloneInv
<1>. QED  BY <1>5, <1>6

\* The main thread creates a thread, lists its node and goes through the list.
LEMMA MainMoves ==
  ASSUME AloneInv, ServesAlone, Spawn \/ Insert \/ Reap \/ ReapLog
  PROVE  QuietInv' /\ PacketInv' /\ OpenInv'
<1>1. pc \in [Thread -> Labels] /\ main \in Thread /\ Client \subseteq Thread /\ main \notin Client
  BY Distinct DEF AloneInv, IInv, Places
<1>2. UNCHANGED <<fds, dataFileDescriptor, dev, fd, receive_buffer, received, inbox,
                  unsent, fatal_error_in_progress, handler, peer>>
  BY DEF Spawn, Insert, Reap, ReapLog, files, threads, locals, signals, net
<1>3. /\ pc'[main] \in {"accept", "insert", "reap", "reap_log"}
      /\ \A d \in Client : pc'[d] = pc[d] \/ (pc[d] = "none" /\ pc'[d] = "start")
  <2>1. CASE Spawn
    <3>1. pc[main] = "spawn" /\ iter \in Client /\ pc[iter] = "none"
      BY <2>1 DEF Spawn, Runs, AloneInv, IInv, ListInv
    <3>2. \/ Goto(main, "insert")
          \/ pc' = [pc EXCEPT ![main] = "insert", ![iter] = "start"]
      BY <2>1 DEF Spawn, ServesAlone
    <3>3. CASE Goto(main, "insert")
      BY <1>1, <3>3 DEF Goto
    <3>4. CASE pc' = [pc EXCEPT ![main] = "insert", ![iter] = "start"]
      <4>1. pc'[main] = "insert" /\ pc'[iter] = "start"
        BY <1>1, <3>1, <3>4
      <4>2. \A d \in Client : d # iter => pc'[d] = pc[d]
        BY <1>1, <3>1, <3>4
      <4>. QED  BY <3>1, <4>1, <4>2
    <3>. QED  BY <3>2, <3>3, <3>4
  <2>2. CASE Insert \/ ReapLog
    <3>1. Goto(main, "reap")
      BY <2>2 DEF Insert, ReapLog
    <3>. QED  BY <1>1, <3>1 DEF Goto
  <2>3. CASE Reap
    <3>1. pc[main] = "reap" /\ \A d \in Client : pc[d] # "failed"
      BY <2>3 DEF Reap, Runs, AloneInv, QuietInv
    <3>2. UNCHANGED pc \/ Goto(main, "accept") \/ Goto(main, "reap_log")
      BY <2>3, <3>1 DEF Reap, JoinTarget, Finished
    <3>3. CASE UNCHANGED pc
      BY <3>1, <3>3
    <3>4. CASE Goto(main, "accept") \/ Goto(main, "reap_log")
      BY <1>1, <3>4 DEF Goto
    <3>. QED  BY <3>2, <3>3, <3>4
  <2>. QED  BY <2>1, <2>2, <2>3
<1>4. QuietInv'
  BY <1>2, <1>3, QuietFrame DEF AloneInv, QuietInv
<1>5. OpenInv' /\ PacketInv'
  BY <1>2, <1>3, OthersMove DEF SameFiles, use_aesd_char_device
<1>. QED  BY <1>4, <1>5

\* The timestamp thread writes to whatever it finds, and opens or closes nothing.
LEMMA StampMoves ==
  ASSUME AloneInv, log_timestamps \/ ClockFails
  PROVE  QuietInv' /\ PacketInv' /\ OpenInv'
<1>1. UNCHANGED <<dataFileDescriptor, fd, receive_buffer, received, inbox,
                  unsent, fatal_error_in_progress, handler, peer>>
  BY DEF log_timestamps, ClockFails, StampStart, Sleep, Lock, Unlock, WriteTo, files, threads,
         locals, signals, net
<1>2. /\ SameFiles /\ UNCHANGED use_aesd_char_device
      /\ ~use_aesd_char_device => dev'.linked = dev.linked
  <2>1. UNCHANGED <<dev, fds>> \/ WriteData(Timestamp)
    BY DEF log_timestamps, ClockFails, StampStart, Sleep, Lock, Unlock, WriteTo, files
  <2>. QED  BY <2>1, WriteKeeps DEF SameFiles, use_aesd_char_device
<1>3. \A t \in Thread : t # timestamps => pc'[t] = pc[t]
  <2>1. UNCHANGED pc \/ \E l : Goto(timestamps, l)
    BY StampStepLocal DEF LocalStep
  <2>. QED  BY <2>1 DEF Goto, AloneInv, IInv, Places
<1>4. pc'[main] = pc[main] /\ \A d \in Client : pc'[d] = pc[d]
  BY <1>3, Distinct
<1>5. QuietInv'
  BY <1>1, <1>4, QuietFrame DEF AloneInv, QuietInv
<1>6. OpenInv' /\ PacketInv'
  BY <1>1, <1>2, <1>4, OthersMove
<1>. QED  BY <1>5, <1>6

\* A client is accepted.
LEMMA AcceptMoves ==
  ASSUME AloneInv, NEW c \in Client, Accept(c)
  PROVE  QuietInv' /\ PacketInv' /\ OpenInv'
<1>1. pc \in [Thread -> Labels] /\ main \in Thread /\ Client \subseteq Thread /\ main \notin Client
  BY Distinct DEF AloneInv, IInv, Places
<1>2. /\ UNCHANGED <<dev, receive_buffer, received, inbox, unsent, fatal_error_in_progress,
                     handler>>
      /\ Goto(main, "spawn") /\ peer[c] # "away"
      /\ peer' = [peer EXCEPT ![c] = IF @ = "queued" THEN "connected" ELSE @]
      /\ fd' = [fd EXCEPT ![c] = LowestFd(fds)]
  BY DEF Accept, locals, signals
<1>3. pc'[main] = "spawn" /\ \A d \in Client : pc'[d] = pc[d]
  BY <1>1, <1>2 DEF Goto
<1>4. /\ peer \in [Client -> {"away", "queued", "connected", "gone"}]
      /\ fd \in [Client -> Fd \cup {ERROR}]
  BY DEF AloneInv, IInv, OtherTypes, ListInv
<1>5. \A d \in Client : /\ peer'[d] = "away" <=> peer[d] = "away"
                        /\ peer'[d] = "gone" <=> peer[d] = "gone"
                        /\ peer[d] = "away" => fd'[d] = fd[d]
  BY <1>2, <1>4
<1>6. QuietInv'
  BY <1>2, <1>3, <1>5 DEF AloneInv, QuietInv
<1>7. PacketInv'
  BY <1>2, <1>3, PacketFrame DEF AloneInv, use_aesd_char_device
<1>. QED  BY <1>6, <1>7, AcceptOpens

\* A client connects, when all others are away or done.
LEMMA ConnectMoves ==
  ASSUME AloneInv, ServesAlone, NEW c \in Client, Connect(c)
  PROVE  QuietInv' /\ PacketInv' /\ OpenInv'
<1>1. /\ UNCHANGED <<fds, dataFileDescriptor, fd, dev, pc, receive_buffer, received,
                     unsent, fatal_error_in_progress, handler>>
      /\ peer[c] = "away" /\ MayConnect(c)
      /\ peer' = [peer EXCEPT ![c] = "queued"] /\ inbox' = [inbox EXCEPT ![c] = Script[c]]
  BY DEF Connect, files, threads, locals, signals
<1>2. /\ peer \in [Client -> {"away", "queued", "connected", "gone"}]
      /\ inbox \in [Client -> Seq(Packet)]
  BY DEF AloneInv, IInv, OtherTypes, DataInv
<1>3. peer'[c] = "queued" /\ \A d \in Client : d # c => peer'[d] = peer[d]
  BY <1>1, <1>2
<1>4. \A d \in Client : d # c => peer[d] = "away" \/ pc[d] = "done"
  <2>1. \A d \in Client : d # c => peer[d] = "away" \/ pc[d] \in Finished
    BY <1>1 DEF MayConnect, ServesAlone
  <2>. QED  BY <2>1 DEF AloneInv, QuietInv, Finished
<1>5. QuietInv'
  <2>1. \A d \in Client : /\ pc'[d] # "failed" /\ peer'[d] # "gone"
                          /\ (peer'[d] = "away" => fd'[d] = ERROR)
    BY <1>1, <1>3 DEF AloneInv, QuietInv
  <2>2. \A d \in Client : \A e \in Client :
          d # e /\ peer'[d] # "away" /\ peer'[e] # "away" => pc'[d] = "done" \/ pc'[e] = "done"
    BY <1>1, <1>3, <1>4 DEF AloneInv, QuietInv
  <2>. QED  BY <1>1, <2>1, <2>2 DEF AloneInv, QuietInv
<1>6. PacketInv'
  <2>1. inbox'[c] = Script[c] /\ \A d \in Client : d # c => inbox'[d] = inbox[d]
    BY <1>1, <1>2
  <2>2. \A d \in Client : \A i \in 1 .. Len(inbox'[d]) : WholeSeek(inbox'[d][i])
    BY <2>1 DEF ServesAlone, AloneInv, PacketInv
  <2>. QED  BY <1>1, <2>2 DEF AloneInv, PacketInv, ioctl_check, use_aesd_char_device
<1>7. OpenInv'
  BY <1>1 DEF AloneInv, OpenInv, OwnFile
<1>. QED  BY <1>5, <1>6, <1>7

\* The invariant holds in every reachable state.
LEMMA AloneInductive ==
  ASSUME ServesAlone
  PROVE  Spec => []AloneInv
<1>1. Init => QuietInv /\ PacketInv /\ OpenInv
  BY InitAlone
<1>2. AloneInv /\ [Next]_vars => (QuietInv /\ PacketInv /\ OpenInv)'
  <2>. SUFFICES ASSUME AloneInv, [Next]_vars PROVE QuietInv' /\ PacketInv' /\ OpenInv'
    OBVIOUS
  <2>1. CASE UNCHANGED vars
    BY <2>1 DEF vars, files, threads, locals, signals, net, AloneInv, QuietInv, PacketInv, OpenInv,
                OwnFile, ioctl_check, use_aesd_char_device
  <2>2. ASSUME NEW c \in Client, ClientStep(c), ~CrashOnFreedNode(c)
        PROVE  QuietInv' /\ PacketInv' /\ OpenInv'
    <3>1. OpenInv' /\ PacketInv' /\ \E l : Goto(c, l) /\ l # "failed"
      BY <2>2, ClientMoves
    <3>2. PICK l : Goto(c, l) /\ l # "failed"
      BY <3>1
    <3>3. pc[c] # "done" /\ UNCHANGED <<fd, handler, peer>>
      BY <2>2, ClientStepLocal, Distinct DEF LocalStep, Alive, Finished
    <3>4. UNCHANGED <<unsent, fatal_error_in_progress>>
      BY <2>2 DEF ClientStep, ClientStart, Recv, SeekOpen, Ioctl, WriteOpen, ReadOpen, OpenDataFile,
                  WriteLock, WriteUnlock, ReadLock, ReadUnlock, Lock, Unlock, Write, WriteTo,
                  WriteClose, Rewind, Read, Send, ClientClose, Complete, DataClose, signals
    <3>5. pc'[main] = pc[main] /\ pc'[c] = l /\ \A d \in Client : d # c => pc'[d] = pc[d]
      BY <3>2, Distinct DEF Goto, AloneInv, IInv, Places
    <3>6. QuietInv'
      BY <3>2, <3>3, <3>4, <3>5, QuietFrame DEF AloneInv, QuietInv
    <3>. QED  BY <3>1, <3>6
  <2>3. CASE Next
    BY <2>2, <2>3, QuietSteps, MainMoves, StampMoves, AcceptMoves, ConnectMoves
  <2>. QED  BY <2>1, <2>3
<1>. QED  BY <1>1, <1>2, Inductive, PTL DEF Spec, AloneInv

(***************************************************************************)
(* Clients that come one at a time use the data file they opened: nobody   *)
(* else sets, closes or reuses the global dataFileDescriptor under them,   *)
(* in either build and with the timestamp thread running.                  *)
(***************************************************************************)
THEOREM OwnsDataFileAlone ==
  ASSUME ServesAlone
  PROVE  Spec => []OwnsDataFile
<1>1. AloneInv => OwnsDataFile
  BY OwnTarget DEF OwnsDataFile, UsesDataFile, HasFile, WriteLabels, ReadLabels
<1>. QED  BY <1>1, AloneInductive, PTL

(***************************************************************************)
(* The threads of such clients leave no descriptor open behind them, so    *)
(* that any number of them can be served.                                  *)
(***************************************************************************)
THEOREM DescriptorsReturnedAlone ==
  ASSUME ServesAlone
  PROVE  Spec => []DescriptorsReturned
<1>1. ASSUME AloneInv PROVE DescriptorsReturned
  <2>1. \A c \in Client : pc[c] \in Finished => pc[c] = "done"
    BY <1>1 DEF AloneInv, QuietInv, Finished
  <2>. QED  BY <1>1, <2>1
               DEF AloneInv, OpenInv, DescriptorsReturned, SocketClosed, HasFile, WriteLabels,
                   ReadLabels
<1>. QED  BY <1>1, AloneInductive, PTL

-----------------------------------------------------------------------------
(***************************************************************************)
(* What clients that come one at a time are sent.  The invariant follows a *)
(* connection's bytes into the data file and out of it again: SentInv says *)
(* how much of the script is behind whatever was there, AnswerInv that     *)
(* what the client has been sent, what its thread has in hand and what it  *)
(* has not read yet are the contents.                                      *)
(***************************************************************************)
(***************************************************************************)
(* Strings that end with others.                                           *)
(***************************************************************************)
EndsWith(t, s) == \E p \in Seq(Int) : t = p \o s

\* Which is what IsSuffix says, by turning both around.
LEMMA EndsWithIsSuffix ==
  ASSUME NEW s \in Seq(Int), NEW t \in Seq(Int), EndsWith(t, s)
  PROVE  IsSuffix(s, t)
<1>1. PICK p \in Seq(Int) : t = p \o s
  BY DEF EndsWith
<1>. DEFINE n == Len(s)
            r == Reverse(s)
            u == Reverse(t)
<1>2. Len(t) = Len(p) + n /\ n \in Nat /\ Len(p) \in Nat
  BY <1>1, ConcatProperties, LenProperties
<1>3. r \in Seq(Int) /\ Len(r) = n /\ u \in Seq(Int) /\ Len(u) = Len(t)
  BY <1>2 DEF Reverse
<1>4. \A i \in 1 .. n : r[i] = u[i]
  <2>. TAKE i \in 1 .. n
  <2>1. r[i] = s[(Len(s) - i) + 1]
    BY DEF Reverse
  <2>2. u[i] = t[(Len(t) - i) + 1]
    BY <1>2 DEF Reverse
  <2>3. (Len(t) - i) + 1 = Len(p) + ((Len(s) - i) + 1) /\ (Len(s) - i) + 1 \in 1 .. Len(s)
    BY <1>2
  <2>. QED  BY <1>1, <2>1, <2>2, <2>3, ConcatProperties
<1>. HIDE DEF r, u
<1>5. SubSeq(r, 1, n) = SubSeq(u, 1, n)
  BY <1>2, <1>3, <1>4, SubSeqProperties, SeqEqual
<1>. QED  BY <1>2, <1>3, <1>5 DEF IsSuffix, IsPrefix, r, u

\* Every string ends with the empty one.
LEMMA EndsEmpty ==
  ASSUME NEW t \in Seq(Int)
  PROVE  EndsWith(t, << >>)
  BY ConcatEmptySeq DEF EndsWith

\* And with itself.
LEMMA EndsSelf ==
  ASSUME NEW t \in Seq(Int)
  PROVE  EndsWith(t, t)
  BY ConcatEmptySeq, EmptySeq DEF EndsWith

\* Appending to both.
LEMMA EndsAppend ==
  ASSUME NEW t \in Seq(Int), NEW s \in Seq(Int), NEW u \in Seq(Int), EndsWith(t, s)
  PROVE  EndsWith(t \o u, s \o u)
<1>1. PICK p \in Seq(Int) : t = p \o s
  BY DEF EndsWith
<1>2. (p \o s) \o u = p \o (s \o u)
  BY ConcatAssociative
<1>. QED  BY <1>1, <1>2 DEF EndsWith

\* More in front makes no difference.
LEMMA EndsPrepend ==
  ASSUME NEW t \in Seq(Int), NEW s \in Seq(Int), NEW q \in Seq(Int), EndsWith(t, s)
  PROVE  EndsWith(q \o t, s)
<1>1. PICK p \in Seq(Int) : t = p \o s
  BY DEF EndsWith
<1>2. (q \o p) \o s = q \o (p \o s)
  BY ConcatAssociative
<1>3. q \o p \in Seq(Int)
  BY ConcatProperties
<1>. QED  BY <1>1, <1>2, <1>3 DEF EndsWith

\* What is left of a string from position p on, none of it beyond the end.
From(S, p) == SubSeq(S, p + 1, Len(S))

\* It is the end of the string.
LEMMA FromIs ==
  ASSUME NEW S \in Seq(Int), NEW p \in Nat
  PROVE  /\ From(S, p) \in Seq(Int) /\ EndsWith(S, From(S, p))
         /\ From(S, 0) = S
         /\ p >= Len(S) => From(S, p) = << >>
<1>0. Len(S) \in Nat
  BY LenProperties
<1>1. From(S, 0) = S
  BY SubSeqFull DEF From
<1>2. CASE p >= Len(S)
  <2>1. From(S, p) = << >>
    BY <1>0, <1>2, SubSeqEmpty DEF From
  <2>. QED  BY <1>1, <2>1, EndsEmpty, EmptySeq
<1>3. CASE p < Len(S)
  <2>1. \A i \in p + 1 .. Len(S) : S[i] \in Int
    BY <1>0, ElementOfSeq
  <2>2. From(S, p) \in Seq(Int)
    BY <1>0, <2>1, SubSeqProperties DEF From
  <2>3. SubSeq(S, 1, p) \in Seq(Int)
    BY <1>0, <1>3, SubSeqProperties, ElementOfSeq
  <2>4. SubSeq(S, 1, p) \o From(S, p) = SubSeq(S, 1, Len(S))
    <3>1. 1 \in 1 .. Len(S) + 1 /\ p \in 1 - 1 .. Len(S) /\ Len(S) \in p .. Len(S)
      BY <1>0, <1>3
    <3>. QED  BY <3>1, ConcatAdjacentSubSeq DEF From
  <2>5. SubSeq(S, 1, Len(S)) = S
    BY SubSeqFull
  <2>6. EndsWith(S, From(S, p))
    BY <2>3, <2>4, <2>5, Zenon DEF EndsWith
  <2>. QED  BY <1>0, <1>1, <1>3, <2>2, <2>6
<1>. QED  BY <1>0, <1>2, <1>3

\* A read takes a piece off it.
LEMMA FromSplit ==
  ASSUME NEW S \in Seq(Int), NEW p \in Nat, NEW e \in Nat, p <= e, e <= Len(S)
  PROVE  From(S, p) = SubSeq(S, p + 1, e) \o From(S, e)
<1>1. PICK m \in Nat : m = p + 1
  OBVIOUS
<1>2. m \in 1 .. Len(S) + 1 /\ e \in m - 1 .. Len(S) /\ Len(S) \in e .. Len(S)
  BY <1>1, LenProperties
<1>3. SubSeq(S, m, e) \o SubSeq(S, e + 1, Len(S)) = SubSeq(S, m, Len(S))
  BY <1>2, ConcatAdjacentSubSeq
<1>. QED  BY <1>1, <1>3 DEF From

\* The bytes of the first k packets of c.
Bytes(c, k) == FlattenSeq([i \in 1 .. k |-> Script[c][i].data])

\* They grow by one packet at a time, to all that c sends.
LEMMA BytesIs ==
  ASSUME NEW c \in Client
  PROVE  /\ Script[c] \in Seq(Packet) /\ Len(Script[c]) \in Nat
         /\ Bytes(c, 0) = << >> /\ Bytes(c, Len(Script[c])) = Sent(c)
         /\ \A k \in 0 .. Len(Script[c]) : Bytes(c, k) \in Seq(Int)
         /\ \A k \in 1 .. Len(Script[c]) : /\ Script[c][k].data \in Seq(Int)
                                           /\ Bytes(c, k) = Bytes(c, k - 1) \o Script[c][k].data
<1>. DEFINE n == Len(Script[c])
            P(k) == [i \in 1 .. k |-> Script[c][i].data]
<1>1. Script[c] \in Seq(Packet) /\ n \in Nat
  BY ServerAssumption, LenProperties
<1>2. \A k \in 1 .. n : Script[c][k].data \in Seq(Int)
  <2>1. \A k \in 1 .. n : Script[c][k] \in Packet
    BY <1>1, ElementOfSeq
  <2>. QED  BY <2>1 DEF Packet
<1>3. Bytes(c, 0) = << >>
  <2>1. P(0) = << >>
    OBVIOUS
  <2>. QED  BY <2>1, FlattenEmpty DEF Bytes
<1>4. Bytes(c, n) = Sent(c)
  <2>1. DOMAIN Script[c] = 1 .. n
    BY <1>1
  <2>. QED  BY <2>1 DEF Bytes, Sent
<1>5. \A k \in 0 .. n : P(k) \in Seq(Seq(Int)) /\ Len(P(k)) = k
  BY <1>1, <1>2
<1>6. \A k \in 0 .. n : Bytes(c, k) \in Seq(Int)
  <2>. SUFFICES ASSUME NEW k \in 0 .. n PROVE FlattenSeq(P(k)) \in Seq(Int)
    BY DEF Bytes
  <2>. HIDE DEF P
  <2>. QED  BY <1>5, FlattenType, Zenon
<1>7. ASSUME NEW k \in 1 .. n PROVE Bytes(c, k) = Bytes(c, k - 1) \o Script[c][k].data
  <2>1. k - 1 \in 0 .. n /\ k \in 0 .. n
    BY <1>1
  <2>2. P(k) = Append(P(k - 1), Script[c][k].data)
    <3>1. P(k - 1) \in Seq(Seq(Int)) /\ Len(P(k - 1)) = k - 1
      BY <1>5, <2>1, Zenon
    <3>2. /\ Append(P(k - 1), Script[c][k].data) \in Seq(Seq(Int))
          /\ Len(Append(P(k - 1), Script[c][k].data)) = k
      BY <1>2, <3>1, AppendProperties
    <3>3. \A i \in 1 .. k : Append(P(k - 1), Script[c][k].data)[i] = P(k)[i]
      BY <1>2, <3>1, AppendProperties
    <3>4. P(k) \in Seq(Seq(Int)) /\ Len(P(k)) = k
      BY <1>5, <2>1
    <3>. HIDE DEF P
    <3>. QED  BY <3>2, <3>3, <3>4, SeqEqual
  <2>3. P(k - 1) \in Seq(Seq(Int))
    BY <1>5, <2>1
  <2>4. FlattenSeq(P(k)) = FlattenSeq(P(k - 1)) \o Script[c][k].data
    <3>. HIDE DEF P
    <3>. QED  BY <1>2, <2>2, <2>3, FlattenAppend
  <2>. QED  BY <2>4 DEF Bytes
<1>. QED  BY <1>1, <1>2, <1>3, <1>4, <1>6, <1>7

(***************************************************************************)
(* Every entry between out_offs and in_offs is a command.                  *)
(***************************************************************************)
IsCommand(e) == e.buffptr \in Seq(Int) /\ e.size = Len(e.buffptr)

HoldsCommands(d) == \A k \in 1 .. Count(d.buffer) : IsCommand(Contents(d.buffer)[k])

\* The commands of the device, one after the other, by position.
LEMMA DeviceStreamIs ==
  ASSUME NEW d, DeviceOK(d), HoldsCommands(d)
  PROVE  /\ DeviceStream(d) \in Seq(Int)
         /\ Len(DeviceStream(d)) = AccumulatedBytes(d.buffer, Count(d.buffer))
         /\ \A k \in 1 .. Count(d.buffer) :
              /\ IsCommand(d.buffer.entry[ScanSlot(d.buffer, k - 1)])
              /\ AccumulatedBytes(d.buffer, k - 1) \in Nat
              /\ \A m \in 1 .. d.buffer.entry[ScanSlot(d.buffer, k - 1)].size :
                   /\ AccumulatedBytes(d.buffer, k - 1) + m \in 1 .. Len(DeviceStream(d))
                   /\ DeviceStream(d)[AccumulatedBytes(d.buffer, k - 1) + m] =
                        d.buffer.entry[ScanSlot(d.buffer, k - 1)].buffptr[m]
<1>. DEFINE b == d.buffer
            n == Count(b)
            c == Contents(b)
            f == Sizes(b)
            s == [k \in 1 .. n |-> c[k].buffptr]
<1>1. b \in Buffer(StoredEntry) /\ Coherent(b) /\ \A e \in StoredEntry : e.size \in Nat
  BY LenProperties DEF DeviceOK, StoredEntry, ZeroEntry
<1>2. f \in [Slots -> Nat]
  BY <1>1, FindFinds
<1>3. N \in Nat \ {0}
  BY NAssumption
<1>4. n \in 0 .. N /\ \A k \in 1 .. n : c[k] = b.entry[ScanSlot(b, k - 1)] /\ IsCommand(c[k])
  BY <1>1, CountType DEF HoldsCommands
<1>5. \A k \in 1 .. n : k - 1 \in Slots /\ f[k - 1] = c[k].size
  <2>. TAKE k \in 1 .. n
  <2>1. k - 1 \in Slots
    BY <1>3, <1>4 DEF Slots
  <2>. QED  BY <1>4, <2>1 DEF Sizes
<1>6. \A j : AccumulatedBytes(b, j) = SumBelow(f, j)
  BY DEF AccumulatedBytes, Sizes
<1>7. DeviceStream(d) = FlattenSeq(s)
  BY DEF DeviceStream
<1>. HIDE DEF n, c, f
<1>8. s \in Seq(Seq(Int)) /\ Len(s) = n /\ \A k \in 1 .. n : s[k] = c[k].buffptr
  BY <1>3, <1>4 DEF IsCommand
<1>. HIDE DEF s
<1>9. FlattenSeq(s) \in Seq(Int)
  BY <1>8, FlattenType, Zenon
<1>10. Len(s) <= N /\ \A i \in 1 .. Len(s) : Len(s[i]) = f[i - 1]
  <2>1. Len(s) <= N
    BY <1>3, <1>4, <1>8
  <2>2. \A i \in 1 .. n : Len(s[i]) = f[i - 1]
    BY <1>4, <1>5, <1>8 DEF IsCommand
  <2>. QED  BY <1>8, <2>1, <2>2, Zenon
<1>11. /\ Len(FlattenSeq(s)) = SumBelow(f, Len(s))
       /\ \A k \in 1 .. Len(s) : \A m \in 1 .. Len(s[k]) :
             /\ SumBelow(f, k - 1) + m \in 1 .. Len(FlattenSeq(s))
             /\ FlattenSeq(s)[SumBelow(f, k - 1) + m] = s[k][m]
  <2>1. s \in Seq(Seq(Int))
    BY <1>8
  <2>. QED  BY <1>2, <1>10, <2>1, FlattenBytes
<1>12. \A k \in 1 .. n : SumBelow(f, k - 1) \in Nat
  <2>1. \A k \in 1 .. n : k - 1 \in 0 .. N
    BY <1>3, <1>4
  <2>. QED  BY <1>2, <2>1, SumBelowNat
<1>13. ASSUME NEW k \in 1 .. n
       PROVE  /\ IsCommand(b.entry[ScanSlot(b, k - 1)])
              /\ AccumulatedBytes(b, k - 1) \in Nat
              /\ \A m \in 1 .. b.entry[ScanSlot(b, k - 1)].size :
                   /\ AccumulatedBytes(b, k - 1) + m \in 1 .. Len(DeviceStream(d))
                   /\ DeviceStream(d)[AccumulatedBytes(b, k - 1) + m] =
                        b.entry[ScanSlot(b, k - 1)].buffptr[m]
  <2>1. c[k] = b.entry[ScanSlot(b, k - 1)] /\ IsCommand(c[k]) /\ s[k] = c[k].buffptr
    BY <1>4, <1>8
  <2>2. Len(s[k]) = c[k].size
    BY <2>1 DEF IsCommand
  <2>3. AccumulatedBytes(b, k - 1) = SumBelow(f, k - 1) /\ SumBelow(f, k - 1) \in Nat
    BY <1>6, <1>12
  <2>4. \A m \in 1 .. Len(s[k]) :
          /\ SumBelow(f, k - 1) + m \in 1 .. Len(FlattenSeq(s))
          /\ FlattenSeq(s)[SumBelow(f, k - 1) + m] = s[k][m]
    BY <1>8, <1>11, Zenon
  <2>5. ASSUME NEW m \in 1 .. c[k].size
        PROVE  /\ AccumulatedBytes(b, k - 1) + m \in 1 .. Len(DeviceStream(d))
               /\ DeviceStream(d)[AccumulatedBytes(b, k - 1) + m] = c[k].buffptr[m]
    BY <1>7, <2>1, <2>2, <2>3, <2>4, Zenon
  <2>. HIDE DEF b
  <2>6. \A m \in 1 .. b.entry[ScanSlot(b, k - 1)].size :
          /\ AccumulatedBytes(b, k - 1) + m \in 1 .. Len(DeviceStream(d))
          /\ DeviceStream(d)[AccumulatedBytes(b, k - 1) + m] =
               b.entry[ScanSlot(b, k - 1)].buffptr[m]
    BY <2>1, <2>5, Zenon
  <2>. QED  BY <2>1, <2>3, <2>6, Zenon
<1>14. DeviceStream(d) \in Seq(Int) /\ Len(DeviceStream(d)) = AccumulatedBytes(b, n)
  BY <1>6, <1>7, <1>8, <1>9, <1>11
<1>. HIDE DEF b
<1>15. \A k \in 1 .. n :
         /\ IsCommand(b.entry[ScanSlot(b, k - 1)])
         /\ AccumulatedBytes(b, k - 1) \in Nat
         /\ \A m \in 1 .. b.entry[ScanSlot(b, k - 1)].size :
              /\ AccumulatedBytes(b, k - 1) + m \in 1 .. Len(DeviceStream(d))
              /\ DeviceStream(d)[AccumulatedBytes(b, k - 1) + m] =
                   b.entry[ScanSlot(b, k - 1)].buffptr[m]
  BY <1>13
<1>. QED  BY <1>14, <1>15 DEF n, b

\* A read takes the bytes from its position on off the device, and none only at the end.
LEMMA DeviceReadIs ==
  ASSUME NEW d, DeviceOK(d), HoldsCommands(d), NEW pos \in Nat, NEW count \in Nat \ {0}
  PROVE  LET bytes == DeviceRead(d, pos, count)
         IN  /\ From(DeviceStream(d), pos) = bytes \o From(DeviceStream(d), pos + Len(bytes))
             /\ bytes = << >> => From(DeviceStream(d), pos) = << >>
<1>. DEFINE b     == d.buffer
            S     == DeviceStream(d)
            found == aesd_circular_buffer_find_entry_offset_for_fpos(b, pos)
            bytes == DeviceRead(d, pos, count)
<1>1. b \in Buffer(StoredEntry) /\ Coherent(b) /\ \A e \in StoredEntry : e.size \in Nat
  BY LenProperties DEF DeviceOK, StoredEntry, ZeroEntry
<1>2. S \in Seq(Int) /\ Len(S) \in Nat /\ Len(S) = AccumulatedBytes(b, Count(b))
  BY DeviceStreamIs, LenProperties
<1>3. \/ found = NULL /\ AccumulatedBytes(b, Count(b)) <= pos
      \/ \E j \in 0 .. Count(b) - 1 :
           /\ found = [slot |-> ScanSlot(b, j), byte |-> pos - AccumulatedBytes(b, j)]
           /\ found # NULL
           /\ AccumulatedBytes(b, j) <= pos
           /\ pos < AccumulatedBytes(b, j) + b.entry[ScanSlot(b, j)].size
  BY <1>1, FindFinds
<1>4. CASE found = NULL /\ AccumulatedBytes(b, Count(b)) <= pos
  <2>1. bytes = << >> /\ Len(bytes) = 0
    BY <1>4 DEF DeviceRead
  <2>2. From(S, pos) = << >>
    BY <1>2, <1>4, FromIs
  <2>3. << >> \o From(S, pos) = << >> /\ pos + 0 = pos
    BY <2>2, ConcatEmptySeq, EmptySeq
  <2>. QED  BY <2>1, <2>2, <2>3
<1>5. ASSUME NEW j \in 0 .. Count(b) - 1,
             found = [slot |-> ScanSlot(b, j), byte |-> pos - AccumulatedBytes(b, j)],
             found # NULL,
             AccumulatedBytes(b, j) <= pos,
             pos < AccumulatedBytes(b, j) + b.entry[ScanSlot(b, j)].size
      PROVE  /\ From(S, pos) = bytes \o From(S, pos + Len(bytes))
             /\ bytes = << >> => From(S, pos) = << >>
  <2>. DEFINE e   == b.entry[ScanSlot(b, j)]
              w   == e.buffptr
              a   == AccumulatedBytes(b, j)
  <2>1. Count(b) \in 0 .. N /\ N \in Nat
    BY <1>1, CountType, NAssumption
  <2>2. PICK k \in 1 .. Count(b) : k - 1 = j
    <3>1. j + 1 \in 1 .. Count(b) /\ (j + 1) - 1 = j
      BY <2>1
    <3>. QED  BY <3>1
  <2>3. IsCommand(e) /\ a \in Nat
        /\ \A m \in 1 .. e.size : a + m \in 1 .. Len(S) /\ S[a + m] = w[m]
    BY <2>2, DeviceStreamIs
  <2>4. w \in Seq(Int) /\ Len(w) \in Nat /\ e.size = Len(w)
    BY <2>3, LenProperties DEF IsCommand
  <2>5. pos - a \in Nat /\ pos - a < Len(w)
    <3>. HIDE DEF b, w, a
    <3>. QED  BY <1>5, <2>3, <2>4 DEF a, e
  <2>6. PICK o \in Nat : o = pos - a
    BY <2>5
  <2>7. bytes = SubSeq(w, o + 1, Min({o + count, Len(w)}))
    <3>1. found.slot = ScanSlot(b, j) /\ found.byte = pos - a
      BY <1>5
    <3>. HIDE DEF found
    <3>. QED  BY <1>5, <2>6, <3>1 DEF DeviceRead, found
  <2>. DEFINE T   == {o + count, Len(w)}
              end == Min(T)
  <2>. HIDE DEF b, e, w, a
  <2>8. end \in Nat /\ end <= Len(w) /\ end > o
    <3>1. T \in SUBSET Nat /\ T # {} /\ Len(w) \in T
      BY <2>4
    <3>. HIDE DEF T
    <3>2. Min(T) \in T /\ Min(T) <= Len(w)
      BY <3>1, MinIs
    <3>. QED  BY <2>4, <2>5, <2>6, <3>1, <3>2 DEF T
  <2>9. bytes = SubSeq(w, o + 1, end)
    BY <2>7
  <2>. HIDE DEF T, end, bytes, S
  <2>10. \A i \in o + 1 .. end : w[i] \in Int
    BY <2>4, <2>8, ElementOfSeq
  <2>11. /\ bytes \in Seq(Int) /\ Len(bytes) = end - o
         /\ \A i \in 1 .. end - o : bytes[i] = w[o + i]
    <3>1. PICK z \in Int : z = o + 1
      OBVIOUS
    <3>2. /\ bytes \in Seq(Int)
          /\ Len(bytes) = IF z <= end THEN end - z + 1 ELSE 0
          /\ \A i \in 1 .. end - z + 1 : bytes[i] = w[z + i - 1]
      BY <2>8, <2>9, <2>10, <3>1, SubSeqProperties
    <3>3. end - z + 1 = end - o /\ \A i \in Int : z + i - 1 = o + i
      BY <2>8, <3>1
    <3>. QED  BY <2>8, <3>1, <3>2, <3>3
  <2>12. PICK q \in Nat : q = pos + Len(bytes)
    BY <2>8, <2>11
  <2>13. pos = a + o /\ q = a + end /\ a \in Nat
    BY <2>3, <2>6, <2>8, <2>11, <2>12
  <2>14. pos <= q /\ q <= Len(S)
    <3>1. end \in 1 .. e.size
      BY <2>4, <2>8
    <3>2. a + end <= Len(S)
      BY <1>2, <2>3, <3>1
    <3>. QED  BY <1>2, <2>8, <2>13, <3>2
  <2>15. bytes = SubSeq(S, pos + 1, q)
    <3>1. \A i \in pos + 1 .. q : S[i] \in Int
      BY <1>2, <2>14, ElementOfSeq
    <3>2. PICK z \in Int : z = pos + 1
      OBVIOUS
    <3>3. /\ SubSeq(S, z, q) \in Seq(Int)
          /\ Len(SubSeq(S, z, q)) = IF z <= q THEN q - z + 1 ELSE 0
          /\ \A i \in 1 .. q - z + 1 : SubSeq(S, z, q)[i] = S[z + i - 1]
      BY <3>1, <3>2, SubSeqProperties
    <3>4. q - z + 1 = end - o /\ z <= q
      BY <2>8, <2>13, <3>2
    <3>5. Len(SubSeq(S, z, q)) = Len(bytes)
      BY <2>11, <3>3, <3>4
    <3>6. ASSUME NEW i \in 1 .. Len(bytes) PROVE bytes[i] = SubSeq(S, z, q)[i]
      <4>1. i \in 1 .. q - z + 1 /\ z + i - 1 = a + (o + i)
        BY <2>8, <2>11, <2>13, <3>2, <3>4
      <4>2. o + i \in 1 .. e.size
        <5>1. i \in 1 .. end - o /\ e.size \in Nat /\ end <= e.size
          BY <2>4, <2>8, <2>11
        <5>. QED  BY <2>8, <5>1
      <4>3. SubSeq(S, z, q)[i] = S[a + (o + i)]
        BY <3>3, <4>1
      <4>4. bytes[i] = w[o + i]
        BY <2>11
      <4>. QED  BY <2>3, <4>2, <4>3, <4>4
    <3>7. bytes = SubSeq(S, z, q)
      BY <2>11, <3>3, <3>5, <3>6, SeqEqual
    <3>. QED  BY <3>2, <3>7
  <2>16. From(S, pos) = SubSeq(S, pos + 1, q) \o From(S, q)
    BY <1>2, <2>14, FromSplit
  <2>17. bytes # << >>
    BY <2>8, <2>11
  <2>. QED  BY <2>12, <2>15, <2>16, <2>17
<1>. QED  BY <1>3, <1>4, <1>5

\* A read of the plain file does the same.
LEMMA FileReadIs ==
  ASSUME NEW d, FileOK(d), NEW inode \in 1 .. Len(d.contents), NEW pos \in Nat,
         NEW count \in Nat \ {0}
  PROVE  LET bytes == FileRead(d, inode, pos, count)
             S     == d.contents[inode]
         IN  /\ From(S, pos) = bytes \o From(S, pos + Len(bytes))
             /\ bytes = << >> => From(S, pos) = << >>
<1>. DEFINE S     == d.contents[inode]
            T     == {pos + count, Len(S)}
            end   == Min(T)
            bytes == FileRead(d, inode, pos, count)
<1>1. S \in Seq(Int) /\ Len(S) \in Nat
  BY ElementOfSeq, LenProperties DEF FileOK
<1>2. bytes = SubSeq(S, pos + 1, end)
  BY DEF FileRead
<1>. HIDE DEF S
<1>3. T \in SUBSET Nat /\ T # {} /\ Len(S) \in T
  BY <1>1
<1>4. end \in T /\ end <= Len(S)
  <2>. HIDE DEF T
  <2>. QED  BY <1>3, MinIs
<1>5. end \in Nat /\ (end = pos + count \/ end = Len(S))
  BY <1>1, <1>4
<1>. HIDE DEF T, end
<1>6. CASE pos >= Len(S)
  <2>1. bytes = << >>
    BY <1>1, <1>2, <1>4, <1>5, <1>6, SubSeqEmpty
  <2>2. From(S, pos) = << >> /\ Len(<< >>) = 0 /\ pos + 0 = pos
    BY <1>1, <1>6, FromIs
  <2>3. << >> \o << >> = << >>
    BY ConcatEmptySeq, EmptySeq
  <2>. QED  BY <2>1, <2>2, <2>3 DEF S
<1>7. CASE pos < Len(S)
  <2>1. pos < end
    BY <1>1, <1>5, <1>7
  <2>2. \A i \in pos + 1 .. end : S[i] \in Int
    BY <1>1, <1>4, <1>5, ElementOfSeq
  <2>3. PICK z \in Int : z = pos + 1
    OBVIOUS
  <2>4. Len(SubSeq(S, z, end)) = IF z <= end THEN end - z + 1 ELSE 0
    BY <1>5, <2>2, <2>3, SubSeqProperties
  <2>. HIDE DEF bytes
  <2>5. Len(bytes) = end - pos
    BY <1>2, <1>5, <2>1, <2>3, <2>4
  <2>6. pos + Len(bytes) = end /\ bytes # << >>
    BY <1>5, <2>1, <2>5
  <2>7. From(S, pos) = SubSeq(S, pos + 1, end) \o From(S, end)
    BY <1>1, <1>4, <1>5, <2>1, FromSplit
  <2>. QED  BY <1>2, <2>6, <2>7 DEF S, bytes
<1>. QED  BY <1>1, <1>6, <1>7

(***************************************************************************)
(* The data file in either build: what it holds for a reader, and what the *)
(* next write is put behind (the command that is not complete yet, or all  *)
(* of the plain file).                                                     *)
(***************************************************************************)
Held(d) == IF "buffer" \in DOMAIN d THEN DeviceStream(d) ELSE d.contents[d.linked]

Behind(d) ==
  IF "buffer" \in DOMAIN d THEN d.partial
  ELSE IF d.linked = 0 THEN << >> ELSE d.contents[d.linked]

StoreOK(d) == IF "buffer" \in DOMAIN d THEN DeviceOK(d) /\ HoldsCommands(d) ELSE FileOK(d)

\* There is something to read.
Readable(d) == "buffer" \in DOMAIN d \/ d.linked # 0

\* Both are strings.
LEMMA StoreTypes ==
  ASSUME NEW d, StoreOK(d)
  PROVE  Behind(d) \in Seq(Int) /\ (Readable(d) => Held(d) \in Seq(Int))
<1>1. CASE "buffer" \in DOMAIN d
  BY <1>1, DeviceStreamIs DEF StoreOK, Held, Behind, DeviceOK
<1>2. CASE "buffer" \notin DOMAIN d
  <2>1. d.linked \in Nat /\ d.linked <= Len(d.contents) /\ d.contents \in Seq(Seq(Int))
    BY <1>2 DEF StoreOK, FileOK
  <2>2. d.linked # 0 => d.contents[d.linked] \in Seq(Int)
    <3>1. d.linked # 0 => d.linked \in 1 .. Len(d.contents)
      BY <2>1, LenProperties
    <3>. QED  BY <2>1, <3>1, ElementOfSeq
  <2>. QED  BY <1>2, <2>2, EmptySeq DEF Held, Behind, Readable
<1>. QED  BY <1>1, <1>2

\* A write to the device: a part of a command is kept back, the rest of one completes it.
LEMMA DeviceWriteIs ==
  ASSUME NEW d, DeviceOK(d), HoldsCommands(d), NEW data \in Seq(Int)
  PROVE  /\ HoldsCommands(DeviceWrite(d, data))
         /\ IF Contains(data, NewLine)
            THEN EndsWith(DeviceStream(DeviceWrite(d, data)), d.partial \o Accepted(data))
            ELSE DeviceWrite(d, data).partial = d.partial \o data
<1>. DEFINE line == Command(d, data)
            e    == [buffptr |-> line, size |-> Len(line)]
            b    == d.buffer
            g    == aesd_circular_buffer_add_entry(b, e)
            X    == IF Len(Contents(b)) < N THEN Contents(b) ELSE Tail(Contents(b))
            Y    == [k \in 1 .. Len(X) |-> X[k].buffptr]
<1>1. line \in Seq(Int) /\ line = d.partial \o Accepted(data)
  BY AcceptedType, ConcatProperties DEF Command, DeviceOK
<1>2. CASE ~Contains(data, NewLine)
  <2>1. DeviceWrite(d, data) = [d EXCEPT !.partial = d.partial \o data]
    BY <1>2 DEF DeviceWrite, Command, Accepted
  <2>2. DeviceWrite(d, data).partial = d.partial \o data /\ DeviceWrite(d, data).buffer = b
    BY <2>1 DEF DeviceOK
  <2>. QED  BY <1>2, <2>2 DEF HoldsCommands
<1>3. CASE Contains(data, NewLine)
  <2>1. DeviceWrite(d, data).buffer = g
    BY <1>3 DEF DeviceWrite
  <2>2. e \in StoredEntry /\ b \in Buffer(StoredEntry) /\ Coherent(b) /\ N \in Nat \ {0}
    BY <1>1, NAssumption DEF StoredEntry, DeviceOK
  <2>3. IsCommand(e)
    BY <1>1 DEF IsCommand
  <2>. HIDE DEF e, line
  <2>4. g \in Buffer(StoredEntry)
    BY <2>2, AddEntryType
  <2>5. Contents(g) = Append(X, e)
    <3>1. Contents(g) = IF Len(Contents(b)) < N THEN Append(Contents(b), e)
                        ELSE Append(Tail(Contents(b)), e)
      BY <2>2, AddEntryStores
    <3>. QED  BY <3>1
  <2>. HIDE DEF g
  <2>6. /\ Contents(b) \in Seq(StoredEntry) /\ Len(Contents(b)) = Count(b) /\ Count(b) \in 0 .. N
        /\ \A k \in 1 .. Count(b) : IsCommand(Contents(b)[k])
    BY <2>2, CountType DEF HoldsCommands
  <2>7. X \in Seq(StoredEntry) /\ Len(X) \in Nat /\ \A k \in 1 .. Len(X) : IsCommand(X[k])
    <3>. DEFINE C == Contents(b)
    <3>. HIDE DEF b, C
    <3>1. CASE Len(C) < N
      BY <2>6, <3>1, LenProperties DEF C
    <3>2. CASE ~(Len(C) < N)
      <4>1. C # << >> /\ C \in Seq(StoredEntry) /\ Len(C) \in Nat
        BY <2>2, <2>6, <3>2 DEF C
      <4>2. /\ Tail(C) \in Seq(StoredEntry) /\ Len(Tail(C)) = Len(C) - 1
            /\ \A i \in 1 .. Len(Tail(C)) : Tail(C)[i] = C[i + 1]
        BY <4>1, HeadTailProperties
      <4>3. \A i \in 1 .. Len(Tail(C)) : i + 1 \in 1 .. Len(C)
        BY <4>1, <4>2
      <4>4. \A k \in 1 .. Len(C) : IsCommand(C[k])
        BY <2>6 DEF C
      <4>5. X = Tail(C)
        BY <3>2 DEF C
      <4>. QED  BY <4>2, <4>3, <4>4, <4>5, LenProperties
    <3>. QED  BY <3>1, <3>2
  <2>. HIDE DEF X
  <2>8. /\ Len(Append(X, e)) = Len(X) + 1
        /\ \A k \in 1 .. Len(X) + 1 : Append(X, e)[k] = IF k <= Len(X) THEN X[k] ELSE e
    BY <2>2, <2>7, AppendProperties
  <2>9. Count(g) = Len(X) + 1
    <3>1. Len(Contents(g)) = Count(g)
      BY <2>4, CountType
    <3>. QED  BY <2>5, <2>8, <3>1
  <2>10. \A k \in 1 .. Count(g) : IsCommand(Contents(g)[k])
    BY <2>3, <2>5, <2>7, <2>8, <2>9
  <2>11. Y \in Seq(Seq(Int)) /\ Len(Y) = Len(X)
    BY <2>7 DEF IsCommand
  <2>12. [k \in 1 .. Count(g) |-> Contents(g)[k].buffptr] = Append(Y, line)
    <3>. DEFINE W == [k \in 1 .. Count(g) |-> Contents(g)[k].buffptr]
    <3>1. W \in Seq(Seq(Int)) /\ Len(W) = Len(X) + 1
      BY <2>7, <2>9, <2>10 DEF IsCommand
    <3>2. \A k \in 1 .. Len(X) + 1 : W[k] = IF k <= Len(X) THEN X[k].buffptr ELSE line
      BY <2>5, <2>8, <2>9 DEF e
    <3>3. \A k \in 1 .. Len(X) : Y[k] = X[k].buffptr
      OBVIOUS
    <3>. HIDE DEF W, Y
    <3>4. /\ Append(Y, line) \in Seq(Seq(Int)) /\ Len(Append(Y, line)) = Len(X) + 1
          /\ \A k \in 1 .. Len(X) + 1 : Append(Y, line)[k] = IF k <= Len(X) THEN Y[k] ELSE line
      BY <1>1, <2>11, AppendProperties
    <3>5. \A k \in 1 .. Len(X) + 1 : Append(Y, line)[k] = W[k]
      BY <2>7, <3>2, <3>3, <3>4
    <3>6. W = Append(Y, line)
      BY <3>1, <3>4, <3>5, SeqEqual
    <3>. QED  BY <3>6 DEF W
  <2>. HIDE DEF Y
  <2>13. FlattenSeq(Append(Y, line)) = FlattenSeq(Y) \o line /\ FlattenSeq(Y) \in Seq(Int)
    BY <1>1, <2>11, FlattenAppend, FlattenType
  <2>14. EndsWith(FlattenSeq(Append(Y, line)), line)
    BY <2>13 DEF EndsWith
  <2>. QED  BY <1>1, <1>3, <2>1, <2>10, <2>12, <2>14 DEF HoldsCommands, DeviceStream
<1>. QED  BY <1>2, <1>3

\* A write in either build.
Written(d, data) ==
  IF "buffer" \in DOMAIN d THEN DeviceWrite(d, data) ELSE FileWrite(d, d.linked, data)

\* It lengthens what is there, and ends the contents with it if it completes a line.
LEMMA WriteAdds ==
  ASSUME NEW d, StoreOK(d), Readable(d), NEW data \in Seq(Int)
  PROVE  LET w == Written(d, data)
         IN  /\ "buffer" \in DOMAIN w => HoldsCommands(w)
             /\ ~Contains(data, NewLine) => Behind(w) = Behind(d) \o data
             /\ Contains(data, NewLine) /\ Accepted(data) = data =>
                  EndsWith(Held(w), Behind(d) \o data)
<1>1. CASE "buffer" \in DOMAIN d
  <2>1. DeviceOK(d) /\ HoldsCommands(d)
    BY <1>1 DEF StoreOK
  <2>2. "buffer" \in DOMAIN DeviceWrite(d, data)
    BY <2>1, DeviceWriteOK
  <2>. QED  BY <1>1, <2>1, <2>2, DeviceWriteIs DEF Written, Held, Behind
<1>2. CASE "buffer" \notin DOMAIN d
  <2>. DEFINE b == d.contents[d.linked]
              w == FileWrite(d, d.linked, data)
  <2>1. FileOK(d) /\ d.linked # 0
    BY <1>2 DEF StoreOK, Readable
  <2>2. d.linked \in 1 .. Len(d.contents) /\ d.contents \in Seq(Seq(Int))
    BY <2>1, LenProperties DEF FileOK
  <2>3. b \in Seq(Int)
    BY <2>2, ElementOfSeq
  <2>4. /\ "buffer" \notin DOMAIN w /\ w.linked = d.linked
        /\ w.contents[d.linked] = b \o data
    BY <2>1, <2>2 DEF FileWrite, FileOK
  <2>. HIDE DEF b, w
  <2>5. b \o data \in Seq(Int)
    BY <2>3, ConcatProperties
  <2>6. Behind(w) = b \o data /\ Held(w) = b \o data /\ Behind(d) = b
    BY <1>2, <2>1, <2>4 DEF Behind, Held, b
  <2>. QED  BY <1>2, <2>4, <2>5, <2>6, EndsSelf DEF Written, w
<1>. QED  BY <1>1, <1>2

\* A read in either build.
Reading(d, pos) ==
  IF "buffer" \in DOMAIN d THEN DeviceRead(d, pos, BUF_LEN) ELSE FileRead(d, d.linked, pos, BUF_LEN)

\* It returns the next bytes, and none only at the end.
LEMMA ReadTakes ==
  ASSUME NEW d, StoreOK(d), Readable(d), NEW pos \in Nat
  PROVE  LET bytes == Reading(d, pos)
         IN  /\ bytes \in Seq(Int)
             /\ From(Held(d), pos) = bytes \o From(Held(d), pos + Len(bytes))
             /\ bytes = << >> => From(Held(d), pos) = << >>
<1>0. BUF_LEN \in Nat \ {0}
  BY ServerAssumption
<1>1. CASE "buffer" \in DOMAIN d
  BY <1>0, <1>1, DeviceReadIs, DeviceReadType DEF StoreOK, Reading, Held
<1>2. CASE "buffer" \notin DOMAIN d
  <2>1. FileOK(d) /\ d.linked # 0
    BY <1>2 DEF StoreOK, Readable
  <2>2. d.linked \in 1 .. Len(d.contents)
    BY <2>1, LenProperties DEF FileOK
  <2>. QED  BY <1>0, <1>2, <2>1, <2>2, FileReadIs, FileReadType DEF Reading, Held
<1>. QED  BY <1>1, <1>2

\* O_CREAT adds nothing to what is there.
LEMMA CreateAdds ==
  ASSUME NEW d, "buffer" \notin DOMAIN d, FileOK(d)
  PROVE  Behind(Create(d)) = Behind(d) /\ "buffer" \notin DOMAIN Create(d)
<1>1. CASE d.linked # 0
  BY <1>1 DEF Create
<1>2. CASE d.linked = 0
  <2>. DEFINE e == Append(d.contents, << >>)
  <2>1. d.contents \in Seq(Seq(Int)) /\ << >> \in Seq(Int) /\ Len(d.contents) \in Nat
    BY EmptySeq, LenProperties DEF FileOK
  <2>2. e[Len(d.contents) + 1] = << >>
    BY <2>1, AppendProperties
  <2>3. Create(d) = [contents |-> e, linked |-> Len(d.contents) + 1]
    BY <1>2 DEF Create
  <2>. HIDE DEF e
  <2>4. /\ "buffer" \notin DOMAIN Create(d) /\ Create(d).linked # 0
        /\ Create(d).contents[Create(d).linked] = << >>
    BY <2>1, <2>2, <2>3
  <2>. QED  BY <1>2, <2>4 DEF Behind
<1>. QED  BY <1>1, <1>2

(***************************************************************************)
(* A client sends at most one line and nothing after it, in any number of  *)
(* packets, and no timestamp is written in between: the build has no       *)
(* timestamp thread, or its first timestamp is still to come.  Without     *)
(* either the property fails: the device drops what follows a newline, and *)
(* a timestamp comes after the client's line.  server_alone is an instance.*)
(***************************************************************************)
LineAtEnd(s) ==
  \A i \in 1 .. Len(s) : Contains(s[i].data, NewLine) =>
                           i = Len(s) /\ Accepted(s[i].data) = s[i].data

AnswersAlone ==
  /\ ServesAlone
  /\ \A s \in Scenario : s.DATA_FILE = "/dev/aesdchar" \/ s.ticks = 0
  /\ \A c \in Client : LineAtEnd(Script[c])

AnswerLabels == {"lock_r", "read", "unlock_r", "send", "close_c"}
FileLabels   == {"ioctl", "lseek"} \cup WriteLabels \cup AnswerLabels
AskLabels    == {"none", "start", "recv", "seek_open", "ioctl", "open_w", "open_r", "lseek"}
                  \cup WriteLabels

\* The number of packets that c's thread has received.
Taken(c) == Len(Script[c]) - Len(inbox[c])

\* What is on its way to c is the end of its script.
InboxInv(c) ==
  IF peer[c] = "away" THEN pc[c] = "none"
  ELSE /\ Len(inbox[c]) <= Len(Script[c])
       /\ \A i \in 1 .. Len(inbox[c]) : inbox[c][i] = Script[c][Taken(c) + i]
       /\ pc[c] \in {"none", "start"} => Taken(c) = 0

\* What c has sent so far is in the data file, behind whatever was there.
SentInv(c) ==
  /\ pc[c] = "recv" => EndsWith(Behind(dev), Bytes(c, Taken(c)))
  /\ pc[c] \in {"open_w"} \cup WriteLabels =>
       Taken(c) > 0 /\ received[c] = Script[c][Taken(c)].data
  /\ pc[c] \in {"open_w", "lock_w", "write"} => EndsWith(Behind(dev), Bytes(c, Taken(c) - 1))
  /\ pc[c] \in {"unlock_w", "close_w"} =>
       IF Contains(received[c], NewLine) THEN EndsWith(Held(dev), Sent(c))
       ELSE EndsWith(Behind(dev), Bytes(c, Taken(c)))
  /\ pc[c] \in AnswerLabels \cup {"open_r", "lseek"} /\ ~ioctl_check(c) =>
       EndsWith(Held(dev), Sent(c))

\* Bytes that c's thread has read and not sent yet, and those it has not read.
InHand(c) == IF pc[c] \in {"unlock_r", "send"} THEN send_buffer[c] ELSE << >>
Rest      == From(Held(dev), Target.pos)

\* What c has been sent, what is in hand and the rest are the contents.
AnswerInv(c) ==
  /\ pc[c] \in AskLabels => reply[c] = << >>
  /\ pc[c] \in FileLabels /\ ~use_aesd_char_device => Target.inode = dev.linked
  /\ pc[c] \in AnswerLabels =>
       IF ioctl_check(c) THEN EndsWith(Held(dev), (reply[c] \o InHand(c)) \o Rest)
       ELSE Held(dev) = (reply[c] \o InHand(c)) \o Rest
  /\ pc[c] \in {"unlock_r", "send"} /\ send_buffer[c] = << >> => Rest = << >>
  /\ pc[c] = "close_c" => Rest = << >>

ReplyInv(c) == InboxInv(c) /\ SentInv(c) /\ AnswerInv(c)

StoreInv ==
  /\ \/ pc[timestamps] \in {"none", "failed"}
     \/ pc[timestamps] \in {"start_t", "sleep"} /\ ticks = 0
  /\ use_aesd_char_device => HoldsCommands(dev)
  /\ reply \in [Client -> Seq(Int)]

AnswersInv == AloneInv /\ StoreInv /\ \A c \in Client : ReplyInv(c)

\* The data file is well formed.
LEMMA StoreIs ==
  ASSUME AnswersInv
  PROVE  StoreOK(dev) /\ fds \in FileTable
  BY DEF AnswersInv, AloneInv, IInv, DataInv, StoreInv, DataOK, StoreOK, use_aesd_char_device

\* The data file of a thread between open and close has a name and a position.
LEMMA FileAtHand ==
  ASSUME AnswersInv, NEW c \in Client, pc[c] \in FileLabels
  PROVE  /\ Target.kind = "data" /\ Target.pos \in Nat
         /\ Readable(dev) /\ Held(dev) \in Seq(Int)
         /\ ~use_aesd_char_device => Target.inode = dev.linked
<1>1. Target.kind = "data"
  BY OwnTarget DEF AnswersInv, FileLabels, AnswerLabels, HasFile, ReadLabels
<1>2. Target \in DataFiles /\ dataFileDescriptor \in Fd /\ Target = fds[dataFileDescriptor]
  BY <1>1, StoreIs, TargetIs, FileKinds
<1>3. ~use_aesd_char_device => Target.inode = dev.linked
  BY DEF AnswersInv, ReplyInv, AnswerInv
<1>4. ~use_aesd_char_device => Target.inode \in 1 .. Len(dev.contents)
  BY <1>1, <1>2 DEF AnswersInv, AloneInv, IInv, DataInv, DataOK, InodesOK, use_aesd_char_device
<1>5. Readable(dev)
  BY <1>3, <1>4 DEF Readable, use_aesd_char_device
<1>. QED  BY <1>1, <1>2, <1>3, <1>5, StoreIs, StoreTypes DEF DataFiles

\* Moving the position moves nothing else.
LEMMA MovesTarget ==
  ASSUME fds \in FileTable, Target.kind = "data", NEW p, fds' = SetPos(p),
         UNCHANGED dataFileDescriptor
  PROVE  /\ Target'.pos = p /\ Target'.inode = Target.inode
         /\ dataFileDescriptor \in Fd /\ Target' = fds'[dataFileDescriptor] /\ Target'.kind = "data"
<1>1. dataFileDescriptor \in Fd /\ Target = fds[dataFileDescriptor]
  BY TargetIs
<1>2. Target \in DataFiles
  BY TargetIs, FileKinds
<1>3. fds' = [fds EXCEPT ![dataFileDescriptor] = [Target EXCEPT !.pos = p]]
  BY <1>1 DEF SetPos, FileTable
<1>4. fds'[dataFileDescriptor] = [Target EXCEPT !.pos = p]
  BY <1>1, <1>3 DEF FileTable
<1>5. /\ [Target EXCEPT !.pos = p].kind = "data" /\ [Target EXCEPT !.pos = p].pos = p
      /\ [Target EXCEPT !.pos = p].inode = Target.inode
  BY <1>2 DEF DataFiles
<1>6. Target' = IF dataFileDescriptor \in Fd /\ fds'[dataFileDescriptor].kind # "closed"
                THEN fds'[dataFileDescriptor] ELSE CLOSED
  BY DEF Target, IsOpen
<1>7. Target' = fds'[dataFileDescriptor]
  BY <1>1, <1>4, <1>5, <1>6
<1>. QED  BY <1>1, <1>4, <1>5, <1>7

\* A thread that opens the data file finds it as it was, and starts at its beginning.
LEMMA OpensAtStart ==
  ASSUME AnswersInv, ServesAlone, NEW c \in Client, NEW flags \in {"ro", "rw"}, NEW ok, NEW bad,
         OpenDataFile(c, flags, ok, bad),
         flags = "ro" /\ ~use_aesd_char_device => dev.linked # 0
  PROVE  /\ Goto(c, ok) /\ Target'.pos = 0
         /\ ~use_aesd_char_device => Target'.inode = dev'.linked
         /\ Behind(dev') = Behind(dev) /\ (flags = "ro" => UNCHANGED dev)
         /\ use_aesd_char_device => UNCHANGED dev
         /\ UNCHANGED <<receive_buffer, received, send_buffer, inbox, reply, peer,
                        use_aesd_char_device>>
<1>. DEFINE file  == IF ~use_aesd_char_device /\ flags = "rw" THEN Create(dev) ELSE dev
            inode == IF use_aesd_char_device THEN 0 ELSE file.linked
            low   == LowestFd(fds)
<1>1. AloneInv
  BY DEF AnswersInv
<1>2. /\ Goto(c, ok) /\ CanOpen(fds) /\ dataFileDescriptor' = low
      /\ UNCHANGED <<receive_buffer, received, inbox, peer, use_aesd_char_device>>
      /\ ~use_aesd_char_device => dev'.linked # 0
  BY <1>1, OpenSucceeds
<1>3. UNCHANGED <<send_buffer, reply>>
  BY DEF OpenDataFile, locals, net
<1>4. dev' = file /\ fds' = OpenFd(fds, DataFile(c, flags, inode))
  <2>1. low # ERROR
    BY <1>2, LowestFdIsFree, MaxFdAssumption DEF Fd, ERROR
  <2>. QED  BY <1>2, <2>1, Zenon DEF OpenDataFile
<1>5. low \in Fd /\ fds \in FileTable
  BY <1>2, LowestFdIsFree, StoreIs
<1>6. fds'[low] = DataFile(c, flags, inode)
  BY <1>4, <1>5 DEF OpenFd, FileTable
<1>. HIDE DEF inode, low, file
<1>7. Target' = DataFile(c, flags, inode)
  <2>1. Target' = IF dataFileDescriptor' \in Fd /\ fds'[dataFileDescriptor'].kind # "closed"
                  THEN fds'[dataFileDescriptor'] ELSE CLOSED
    BY DEF Target, IsOpen
  <2>. QED  BY <1>2, <1>5, <1>6, <2>1 DEF DataFile
<1>8. Target'.pos = 0 /\ Target'.inode = inode
  BY <1>7 DEF DataFile
<1>9. ~use_aesd_char_device => FileOK(dev)
  BY StoreIs DEF StoreOK, use_aesd_char_device
<1>10. Behind(dev') = Behind(dev)
  <2>1. CASE ~use_aesd_char_device /\ flags = "rw"
    BY <1>4, <1>9, <2>1, CreateAdds DEF file, use_aesd_char_device
  <2>2. CASE ~(~use_aesd_char_device /\ flags = "rw")
    BY <1>4, <2>2 DEF file
  <2>. QED  BY <2>1, <2>2
<1>. QED  BY <1>2, <1>3, <1>4, <1>8, <1>10 DEF file, inode

\* The packets of a connection that has a thread.
LEMMA InboxIs ==
  ASSUME AnswersInv, NEW c \in Client, pc[c] # "none"
  PROVE  /\ peer[c] # "away" /\ inbox[c] \in Seq(Packet) /\ Len(inbox[c]) \in Nat
         /\ Taken(c) \in 0 .. Len(Script[c]) /\ Len(Script[c]) \in Nat
         /\ Len(inbox[c]) = Len(Script[c]) - Taken(c)
         /\ \A i \in 1 .. Len(inbox[c]) : inbox[c][i] = Script[c][Taken(c) + i]
         /\ pc[c] = "start" => Taken(c) = 0
<1>1. peer[c] # "away"
  BY StartedAccepted DEF AnswersInv
<1>2. inbox[c] \in Seq(Packet) /\ Len(inbox[c]) \in Nat
  BY LenProperties DEF AnswersInv, AloneInv, IInv, DataInv
<1>3. Len(Script[c]) \in Nat
  BY BytesIs
<1>4. InboxInv(c)
  BY DEF AnswersInv, ReplyInv
<1>5. /\ Len(inbox[c]) <= Len(Script[c])
      /\ \A i \in 1 .. Len(inbox[c]) : inbox[c][i] = Script[c][Taken(c) + i]
      /\ pc[c] = "start" => Taken(c) = 0
  BY <1>1, <1>4 DEF InboxInv
<1>6. Taken(c) \in 0 .. Len(Script[c]) /\ Len(inbox[c]) = Len(Script[c]) - Taken(c)
  <2>. DEFINE m == Len(inbox[c])
              n == Len(Script[c])
  <2>1. m \in Nat /\ n \in Nat /\ m <= n /\ Taken(c) = n - m
    BY <1>2, <1>3, <1>5 DEF Taken
  <2>. HIDE DEF m, n
  <2>2. Taken(c) \in 0 .. n /\ m = n - Taken(c)
    BY <2>1
  <2>. QED  BY <2>2 DEF m, n
<1>. QED  BY <1>1, <1>2, <1>3, <1>5, <1>6

\* A thread that receives nothing.
LEMMA InboxKept ==
  ASSUME AnswersInv, NEW c \in Client, pc[c] # "none", UNCHANGED <<inbox, peer>>,
         pc'[c] \notin {"none", "start"}
  PROVE  InboxInv(c)' /\ Taken(c)' = Taken(c)
<1>1. Taken(c)' = Taken(c)
  BY DEF Taken
<1>2. peer[c] # "away" /\ InboxInv(c)
  BY InboxIs DEF AnswersInv, ReplyInv
<1>. QED  BY <1>1, <1>2 DEF InboxInv

\* What a step of c's thread has to show.
Answered(c) ==
  /\ ReplyInv(c)' /\ (use_aesd_char_device => HoldsCommands(dev))'
  /\ reply' \in [Client -> Seq(Int)]
  /\ \A d \in Client : d # c => inbox'[d] = inbox[d] /\ reply'[d] = reply[d]

\* A step that changes neither the data file nor what is on its way.
LEMMA AnsweredSame ==
  ASSUME AnswersInv, NEW c \in Client, pc[c] # "none", pc'[c] \notin {"none", "start"},
         UNCHANGED <<dev, inbox, reply, peer>>, SentInv(c)', AnswerInv(c)'
  PROVE  Answered(c)
<1>1. InboxInv(c)'
  BY InboxKept
<1>2. (use_aesd_char_device => HoldsCommands(dev))' /\ reply' \in [Client -> Seq(Int)]
  BY DEF AnswersInv, StoreInv, use_aesd_char_device
<1>. QED  BY <1>1, <1>2 DEF Answered, ReplyInv

\* Where c's thread is after it has gone to a label.
LEMMA Arrives ==
  ASSUME AnswersInv, NEW c \in Client, NEW l, Goto(c, l)
  PROVE  pc'[c] = l
  BY Distinct DEF Goto, AnswersInv, AloneInv, IInv, Places

\* The thread starts to receive.
LEMMA StartAnswered ==
  ASSUME AnswersInv, NEW c \in Client, ClientStart(c)
  PROVE  Answered(c)
<1>1. /\ pc[c] = "start" /\ pc'[c] = "recv"
      /\ UNCHANGED <<dev, inbox, reply, peer>>
  BY Arrives DEF ClientStart, Runs, net
<1>2. Taken(c)' = 0 /\ Bytes(c, 0) = << >>
  BY <1>1, InboxIs, InboxKept, BytesIs
<1>3. EndsWith(Behind(dev), << >>)
  BY StoreIs, StoreTypes, EndsEmpty
<1>4. SentInv(c)'
  BY <1>1, <1>2, <1>3 DEF SentInv, WriteLabels, AnswerLabels
<1>5. AnswerInv(c)'
  BY <1>1 DEF AnswersInv, ReplyInv, AnswerInv, AskLabels, FileLabels, WriteLabels, AnswerLabels
<1>. QED  BY <1>1, <1>4, <1>5, AnsweredSame

\* It locks or unlocks the mutex.
LEMMA LockAnswered ==
  ASSUME AnswersInv, NEW c \in Client, NEW from, NEW to, Lock(c, from, to) \/ Unlock(c, from, to),
         <<from, to>> \in {<<"lock_w", "write">>, <<"unlock_w", "close_w">>,
                           <<"lock_r", "read">>, <<"unlock_r", "send">>}
  PROVE  Answered(c)
<1>1. /\ pc[c] = from /\ pc'[c] = to
      /\ UNCHANGED <<fds, dataFileDescriptor, dev, receive_buffer, received, send_buffer, inbox,
                     reply, peer>>
  BY Arrives DEF Lock, Unlock, Runs, files, locals, net
<1>3. Taken(c)' = Taken(c) /\ pc[c] # "none" /\ pc'[c] \notin {"none", "start"}
  BY <1>1, InboxKept
<1>4. UNCHANGED <<Target, Rest, ioctl_check(c), use_aesd_char_device>>
  BY <1>1 DEF Target, Rest, ioctl_check, use_aesd_char_device
<1>5. SentInv(c) /\ AnswerInv(c)
  BY DEF AnswersInv, ReplyInv
<1>6. SentInv(c)'
  BY <1>1, <1>3, <1>4, <1>5 DEF SentInv, WriteLabels, AnswerLabels
<1>7. InHand(c)' = InHand(c)
  BY <1>1 DEF InHand
<1>8. AnswerInv(c)'
  BY <1>1, <1>4, <1>5, <1>7 DEF AnswerInv, AskLabels, FileLabels, WriteLabels, AnswerLabels
<1>. QED  BY <1>1, <1>3, <1>6, <1>8, AnsweredSame

\* It receives the next packet of the script.
LEMMA RecvAnswered ==
  ASSUME AnswersInv, NEW c \in Client, Recv(c)
  PROVE  Answered(c)
<1>. DEFINE p == Head(inbox[c])
            l == IF p.seekto # {} THEN "seek_open" ELSE "open_w"
<1>1. pc[c] = "recv"
  BY DEF Recv, Runs
<1>2. Socket(c).kind = "client" /\ Socket(c).who = c /\ peer[c] # "gone"
  BY <1>1, OwnSocket DEF AnswersInv, SocketClosed
<1>3. /\ inbox[c] # << >>
      /\ receive_buffer' = [receive_buffer EXCEPT ![c] = p]
      /\ received' = [received EXCEPT ![c] = p.data]
      /\ inbox' = [inbox EXCEPT ![c] = Tail(@)]
      /\ Goto(c, l)
  BY <1>2 DEF Recv
<1>4. UNCHANGED <<dev, peer, reply>>
  BY DEF Recv
<1>5. inbox \in [Client -> Seq(Packet)] /\ received \in [Client -> Seq(Int)]
  BY DEF AnswersInv, AloneInv, IInv, DataInv
<1>6. /\ inbox'[c] = Tail(inbox[c]) /\ received'[c] = p.data
      /\ \A d \in Client : d # c => inbox'[d] = inbox[d]
  BY <1>3, <1>5
<1>7. pc'[c] = l /\ l \in {"seek_open", "open_w"}
  BY <1>3, Arrives
<1>. DEFINE k == Taken(c)
            n == Len(Script[c])
<1>8. /\ k \in 0 .. n /\ n \in Nat /\ Len(inbox[c]) = n - k /\ peer[c] # "away"
      /\ \A i \in 1 .. Len(inbox[c]) : inbox[c][i] = Script[c][k + i]
  BY <1>1, InboxIs
<1>9. /\ Len(inbox'[c]) = n - k - 1 /\ k < n
      /\ p = Script[c][k + 1]
      /\ \A i \in 1 .. Len(inbox'[c]) : inbox'[c][i] = Script[c][k + 1 + i]
  <2>1. /\ Len(Tail(inbox[c])) = Len(inbox[c]) - 1 /\ Len(inbox[c]) >= 1 /\ p = inbox[c][1]
        /\ \A i \in 1 .. Len(Tail(inbox[c])) : Tail(inbox[c])[i] = inbox[c][i + 1]
    BY <1>3, <1>5, HeadTailProperties
  <2>. HIDE DEF k, n, p
  <2>2. Len(inbox'[c]) = n - k - 1 /\ k < n
    BY <1>6, <1>8, <2>1
  <2>3. p = Script[c][k + 1]
    <3>1. 1 \in 1 .. Len(inbox[c])
      BY <1>8, <2>1
    <3>. QED  BY <1>8, <2>1, <3>1
  <2>4. ASSUME NEW i \in 1 .. Len(inbox'[c]) PROVE inbox'[c][i] = Script[c][k + 1 + i]
    <3>1. i + 1 \in 1 .. Len(inbox[c]) /\ k + (i + 1) = k + 1 + i
      BY <1>6, <1>8, <2>1
    <3>2. inbox'[c][i] = inbox[c][i + 1]
      BY <1>6, <2>1
    <3>3. inbox[c][i + 1] = Script[c][k + (i + 1)]
      BY <1>8, <3>1
    <3>. QED  BY <3>1, <3>2, <3>3
  <2>. QED  BY <2>2, <2>3, <2>4
<1>10. Taken(c)' = k + 1
  <2>1. Taken(c)' = n - Len(inbox'[c])
    BY DEF Taken
  <2>. HIDE DEF k, n
  <2>. QED  BY <1>8, <1>9, <2>1
<1>11. EndsWith(Behind(dev), Bytes(c, k)) /\ reply[c] = << >>
  BY <1>1 DEF AnswersInv, ReplyInv, SentInv, AnswerInv, AskLabels
<1>. HIDE DEF k, n, p, l
<1>12. InboxInv(c)'
  <2>1. Len(inbox'[c]) <= Len(Script[c]) /\ peer'[c] # "away"
    BY <1>4, <1>8, <1>9 DEF n
  <2>2. \A i \in 1 .. Len(inbox'[c]) : inbox'[c][i] = Script[c][Taken(c)' + i]
    BY <1>9, <1>10
  <2>3. pc'[c] \notin {"none", "start"}
    BY <1>7
  <2>. QED  BY <2>1, <2>2, <2>3 DEF InboxInv
<1>13. SentInv(c)'
  <2>1. Taken(c)' > 0 /\ Taken(c)' - 1 = k
    BY <1>8, <1>10
  <2>2. received'[c] = Script[c][Taken(c)'].data
    BY <1>6, <1>9, <1>10
  <2>3. EndsWith(Behind(dev'), Bytes(c, Taken(c)' - 1))
    BY <1>4, <1>11, <2>1
  <2>. QED  BY <1>7, <2>1, <2>2, <2>3 DEF SentInv, WriteLabels, AnswerLabels
<1>14. AnswerInv(c)'
  BY <1>4, <1>7, <1>11 DEF AnswerInv, FileLabels, WriteLabels, AnswerLabels
<1>15. (use_aesd_char_device => HoldsCommands(dev))' /\ reply' \in [Client -> Seq(Int)]
  BY <1>4 DEF AnswersInv, StoreInv, use_aesd_char_device
<1>. QED  BY <1>4, <1>6, <1>12, <1>13, <1>14, <1>15 DEF Answered, ReplyInv

\* It opens the data file for a seek or for a write.
LEMMA OpenAnswered ==
  ASSUME AnswersInv, AnswersAlone, NEW c \in Client, SeekOpen(c) \/ WriteOpen(c)
  PROVE  Answered(c)
<1>1. PICK ok \in {"ioctl", "lock_w"} :
        /\ OpenDataFile(c, "rw", ok, "failed") \/ OpenDataFile(c, "rw", ok, "lock_w")
        /\ IF ok = "ioctl" THEN pc[c] = "seek_open" ELSE pc[c] = "open_w"
  BY DEF SeekOpen, WriteOpen, Runs
<1>2. /\ Goto(c, ok) /\ Behind(dev') = Behind(dev)
      /\ ~use_aesd_char_device => Target'.inode = dev'.linked
      /\ use_aesd_char_device => UNCHANGED dev
      /\ UNCHANGED <<receive_buffer, received, inbox, reply, peer, use_aesd_char_device>>
  <2>1. "rw" \in {"ro", "rw"} /\ "rw" # "ro" /\ ServesAlone
    BY DEF AnswersAlone
  <2>. QED  BY <1>1, <2>1, OpensAtStart
<1>3. pc'[c] = ok
  BY <1>2, Arrives
<1>4. Taken(c)' = Taken(c) /\ InboxInv(c)'
  BY <1>1, <1>2, <1>3, InboxKept
<1>5. SentInv(c) /\ AnswerInv(c)
  BY DEF AnswersInv, ReplyInv
<1>6. SentInv(c)'
  BY <1>1, <1>2, <1>3, <1>4, <1>5 DEF SentInv, WriteLabels, AnswerLabels
<1>7. AnswerInv(c)'
  BY <1>1, <1>2, <1>3, <1>5 DEF AnswerInv, AskLabels, FileLabels, WriteLabels, AnswerLabels
<1>8. (use_aesd_char_device => HoldsCommands(dev))' /\ reply' \in [Client -> Seq(Int)]
  BY <1>2 DEF AnswersInv, StoreInv
<1>. QED  BY <1>2, <1>4, <1>6, <1>7, <1>8 DEF Answered, ReplyInv

\* Nothing sent and nothing in hand: the rest is all there is.
LEMMA NothingYet ==
  ASSUME NEW s \in Seq(Int)
  PROVE  (<< >> \o << >>) \o s = s
<1>1. << >> \o << >> = << >>
  BY ConcatEmptySeq, EmptySeq
<1>. QED  BY <1>1, ConcatEmptySeq

\* The ioctl moves the position: the contents from there on are the answer.
LEMMA IoctlAnswered ==
  ASSUME AnswersInv, AloneInv', NEW c \in Client, Ioctl(c)
  PROVE  Answered(c)
<1>1. pc[c] = "ioctl" /\ Goto(c, AfterChunk(c))
      /\ UNCHANGED <<dataFileDescriptor, dev, receive_buffer, received, send_buffer, inbox, reply,
                     peer>>
  BY DEF Ioctl, Runs, locals, net
<1>2. /\ Target.kind = "data" /\ Held(dev) \in Seq(Int)
      /\ ~use_aesd_char_device => Target.inode = dev.linked
  BY <1>1, FileAtHand DEF FileLabels
<1>3. ioctl_check(c) /\ Contains(received[c], NewLine)
  BY <1>1 DEF AnswersInv, AloneInv, PacketInv
<1>4. pc'[c] = IF use_aesd_char_device THEN "lock_r" ELSE "lseek"
  BY <1>1, <1>3, Arrives DEF AfterChunk, Answer
<1>5. reply[c] = << >>
  BY <1>1 DEF AnswersInv, ReplyInv, AnswerInv, AskLabels
<1>6. UNCHANGED <<ioctl_check(c), use_aesd_char_device>>
  BY <1>1 DEF ioctl_check, use_aesd_char_device
<1>7. SentInv(c)'
  BY <1>3, <1>4, <1>6 DEF SentInv, WriteLabels, AnswerLabels
<1>8. AnswerInv(c)'
  <2>1. CASE use_aesd_char_device
    <3>1. \E p : fds' = SetPos(p)
      BY <1>2, <2>1, Zenon DEF Ioctl
    <3>2. dataFileDescriptor \in Fd /\ Target' = fds'[dataFileDescriptor] /\ Target'.kind = "data"
      BY <1>1, <1>2, <3>1, StoreIs, MovesTarget
    <3>3. fds' \in FileTable
      BY DEF AloneInv, IInv, DataInv
    <3>4. Target'.pos \in Nat
      BY <3>2, <3>3, FileKinds DEF FileTable, DataFiles
    <3>5. Rest' = From(Held(dev), Target'.pos)
      BY <1>1 DEF Rest
    <3>6. EndsWith(Held(dev), Rest') /\ Rest' \in Seq(Int)
      BY <1>2, <3>4, <3>5, FromIs
    <3>7. pc'[c] = "lock_r" /\ InHand(c)' = << >>
      BY <1>4, <2>1 DEF InHand
    <3>8. EndsWith(Held(dev'), (reply'[c] \o InHand(c)') \o Rest')
      BY <1>1, <1>5, <3>6, <3>7, NothingYet
    <3>. QED  BY <1>3, <1>6, <2>1, <3>7, <3>8
                 DEF AnswerInv, AskLabels, FileLabels, WriteLabels, AnswerLabels
  <2>2. CASE ~use_aesd_char_device
    <3>1. UNCHANGED fds
      BY <2>2 DEF Ioctl
    <3>2. UNCHANGED Target
      BY <1>1, <3>1 DEF Target
    <3>3. pc'[c] = "lseek"
      BY <1>4, <2>2
    <3>. QED  BY <1>1, <1>2, <1>5, <2>2, <3>2, <3>3
                 DEF AnswerInv, AskLabels, FileLabels, WriteLabels, AnswerLabels
  <2>. QED  BY <2>1, <2>2
<1>. QED  BY <1>1, <1>4, <1>7, <1>8, AnsweredSame

\* A write puts the packet behind what c has sent before, and completes the line if it ends it.
LEMMA WriteAnswered ==
  ASSUME AnswersInv, AnswersAlone, NEW c \in Client, Write(c)
  PROVE  Answered(c)
<1>1. pc[c] = "write" /\ WriteTo(c, received[c], "unlock_w")
  BY DEF Write, Runs
<1>2. /\ Target.kind = "data" /\ Target.flags = "rw" /\ Readable(dev)
      /\ ~use_aesd_char_device => Target.inode = dev.linked
  BY <1>1, FileAtHand, OwnTarget DEF AnswersInv, FileLabels, HasFile, WriteLabels
<1>3. WriteData(received[c]) /\ Goto(c, "unlock_w")
  BY <1>1, <1>2 DEF WriteTo, Gone, ServesAlone, AnswersAlone
<1>4. UNCHANGED <<dataFileDescriptor, receive_buffer, received, send_buffer, inbox, peer>>
  BY <1>1 DEF WriteTo, locals
<1>5. /\ dev' = Written(dev, received[c]) /\ UNCHANGED reply
      /\ \E p : fds' = SetPos(p)
  <2>1. CASE use_aesd_char_device
    BY <1>2, <1>3, <2>1, Zenon DEF WriteData, Written, use_aesd_char_device
  <2>2. CASE ~use_aesd_char_device
    <3>1. /\ dev' = FileWrite(dev, Target.inode, received[c]) /\ UNCHANGED reply
          /\ \E p : fds' = SetPos(p)
      BY <1>2, <1>3, <2>2, Zenon DEF WriteData
    <3>. QED  BY <1>2, <2>2, <3>1 DEF Written, use_aesd_char_device
  <2>. QED  BY <2>1, <2>2
<1>6. pc'[c] = "unlock_w"
  BY <1>3, Arrives
<1>7. Target'.inode = Target.inode
  BY <1>2, <1>4, <1>5, StoreIs, MovesTarget
<1>8. Taken(c)' = Taken(c) /\ InboxInv(c)'
  BY <1>1, <1>4, <1>6, InboxKept
<1>9. /\ UNCHANGED use_aesd_char_device /\ (~use_aesd_char_device => dev'.linked = dev.linked)
  BY <1>3, WriteKeeps DEF AnswersInv
<1>. DEFINE k    == Taken(c)
            data == received[c]
<1>10. SentInv(c) /\ AnswerInv(c)
  BY DEF AnswersInv, ReplyInv
<1>11. /\ k > 0 /\ data = Script[c][k].data /\ EndsWith(Behind(dev), Bytes(c, k - 1))
       /\ reply[c] = << >>
  BY <1>1, <1>10 DEF SentInv, AnswerInv, WriteLabels, AskLabels
<1>12. k \in 1 .. Len(Script[c])
  <2>1. k \in 0 .. Len(Script[c]) /\ Len(Script[c]) \in Nat
    BY <1>1, InboxIs
  <2>. QED  BY <1>11, <2>1
<1>13. /\ data \in Seq(Int) /\ Bytes(c, k - 1) \in Seq(Int)
       /\ Bytes(c, k) = Bytes(c, k - 1) \o data
  <2>1. k - 1 \in 0 .. Len(Script[c])
    BY <1>12, BytesIs
  <2>. QED  BY <1>11, <1>12, <2>1, BytesIs
<1>14. StoreOK(dev) /\ Behind(dev) \in Seq(Int)
  BY StoreIs, StoreTypes
<1>. HIDE DEF k, data
<1>15. EndsWith(Behind(dev) \o data, Bytes(c, k))
  BY <1>11, <1>13, <1>14, EndsAppend
<1>16. /\ "buffer" \in DOMAIN dev' => HoldsCommands(dev')
       /\ ~Contains(data, NewLine) => Behind(dev') = Behind(dev) \o data
       /\ Contains(data, NewLine) /\ Accepted(data) = data =>
            EndsWith(Held(dev'), Behind(dev) \o data)
  <2>1. dev' = Written(dev, data)
    BY <1>5 DEF data
  <2>. QED  BY <1>2, <1>13, <1>14, <2>1, WriteAdds
<1>17. ASSUME Contains(data, NewLine) PROVE EndsWith(Held(dev'), Sent(c))
  <2>1. k = Len(Script[c]) /\ Accepted(data) = data
    BY <1>11, <1>12, <1>17 DEF AnswersAlone, LineAtEnd
  <2>2. PICK q \in Seq(Int) : Held(dev') = q \o (Behind(dev) \o data)
    BY <1>16, <1>17, <2>1 DEF EndsWith
  <2>3. Behind(dev) \o data \in Seq(Int) /\ Bytes(c, k) \in Seq(Int)
    BY <1>13, <1>14, ConcatProperties
  <2>4. Bytes(c, k) = Sent(c)
    BY <2>1, BytesIs
  <2>. QED  BY <1>15, <2>2, <2>3, <2>4, EndsPrepend
<1>18. SentInv(c)'
  <2>1. /\ Taken(c)' = k /\ received'[c] = data
    BY <1>4, <1>8 DEF k, data
  <2>. QED  BY <1>6, <1>11, <1>15, <1>16, <1>17, <2>1 DEF SentInv, WriteLabels, AnswerLabels
<1>19. AnswerInv(c)'
  BY <1>2, <1>5, <1>6, <1>7, <1>9, <1>11
     DEF AnswerInv, AskLabels, FileLabels, WriteLabels, AnswerLabels
<1>20. (use_aesd_char_device => HoldsCommands(dev))' /\ reply' \in [Client -> Seq(Int)]
  BY <1>5, <1>16 DEF AnswersInv, StoreInv, use_aesd_char_device
<1>. QED  BY <1>4, <1>5, <1>8, <1>18, <1>19, <1>20 DEF Answered, ReplyInv

\* It closes the file and receives on, or begins the answer.
LEMMA WriteCloseAnswered ==
  ASSUME AnswersInv, NEW c \in Client, WriteClose(c)
  PROVE  Answered(c)
<1>1. /\ pc[c] = "close_w" /\ Goto(c, AfterChunk(c))
      /\ UNCHANGED <<dev, receive_buffer, received, send_buffer, inbox, reply, peer>>
  BY DEF WriteClose, Runs, locals, net
<1>2. ~ioctl_check(c)
  BY <1>1 DEF AnswersInv, AloneInv, PacketInv, WriteLabels
<1>3. pc'[c] = IF Contains(received[c], NewLine) THEN "open_r" ELSE "recv"
  BY <1>1, <1>2, Arrives DEF AfterChunk
<1>4. Taken(c)' = Taken(c)
  BY <1>1, <1>3, InboxKept
<1>5. SentInv(c) /\ AnswerInv(c)
  BY DEF AnswersInv, ReplyInv
<1>6. SentInv(c)'
  BY <1>1, <1>3, <1>4, <1>5 DEF SentInv, WriteLabels, AnswerLabels
<1>7. AnswerInv(c)'
  BY <1>1, <1>3, <1>5 DEF AnswerInv, AskLabels, FileLabels, WriteLabels, AnswerLabels
<1>. QED  BY <1>1, <1>3, <1>6, <1>7, AnsweredSame

\* A thread about to read from the beginning has the whole answer before it.
LEMMA AtBeginning ==
  ASSUME AnswersInv, NEW c \in Client, pc[c] \in {"open_r", "lseek"}, pc'[c] = "lock_r",
         Readable(dev), UNCHANGED <<dev, receive_buffer, inbox, reply, peer>>,
         Target'.pos = 0, ~use_aesd_char_device => Target'.inode = dev.linked
  PROVE  Answered(c)
<1>1. reply[c] = << >> /\ SentInv(c)
  BY DEF AnswersInv, ReplyInv, AnswerInv, AskLabels
<1>2. Held(dev) \in Seq(Int)
  BY StoreIs, StoreTypes
<1>3. Rest' = Held(dev)
  <2>1. Rest' = From(Held(dev), 0)
    BY DEF Rest
  <2>. QED  BY <1>2, <2>1, FromIs
<1>4. InHand(c)' = << >>
  BY DEF InHand
<1>5. (reply'[c] \o InHand(c)') \o Rest' = Held(dev')
  BY <1>1, <1>2, <1>3, <1>4, NothingYet
<1>6. EndsWith(Held(dev'), Held(dev'))
  BY <1>2, EndsSelf
<1>7. UNCHANGED <<ioctl_check(c), use_aesd_char_device>>
  BY DEF ioctl_check, use_aesd_char_device
<1>8. SentInv(c)'
  BY <1>1, <1>7 DEF SentInv, WriteLabels, AnswerLabels
<1>9. AnswerInv(c)'
  BY <1>5, <1>6, <1>7 DEF AnswerInv, AskLabels, FileLabels, WriteLabels, AnswerLabels
<1>. QED  BY <1>8, <1>9, AnsweredSame

\* It opens the data file for the answer.
LEMMA ReadOpenAnswered ==
  ASSUME AnswersInv, AnswersAlone, NEW c \in Client, ReadOpen(c)
  PROVE  Answered(c)
<1>1. pc[c] = "open_r" /\ OpenDataFile(c, "ro", Answer, "failed")
  BY DEF ReadOpen, Runs
<1>2. ~use_aesd_char_device => dev.linked # 0
  BY <1>1 DEF AnswersInv, AloneInv, PacketInv
<1>3. /\ Goto(c, Answer) /\ Target'.pos = 0 /\ UNCHANGED dev
      /\ ~use_aesd_char_device => Target'.inode = dev'.linked
      /\ UNCHANGED <<receive_buffer, received, send_buffer, inbox, reply, peer,
                     use_aesd_char_device>>
  <2>1. "ro" \in {"ro", "rw"} /\ ServesAlone
    BY DEF AnswersAlone
  <2>. QED  BY <1>1, <1>2, <2>1, OpensAtStart
<1>4. pc'[c] = IF use_aesd_char_device THEN "lock_r" ELSE "lseek"
  BY <1>3, Arrives DEF Answer
<1>5. CASE use_aesd_char_device
  BY <1>1, <1>3, <1>4, <1>5, AtBeginning DEF Readable, use_aesd_char_device
<1>6. CASE ~use_aesd_char_device
  <2>1. SentInv(c) /\ AnswerInv(c)
    BY DEF AnswersInv, ReplyInv
  <2>2. UNCHANGED ioctl_check(c)
    BY <1>3 DEF ioctl_check
  <2>3. SentInv(c)'
    BY <1>1, <1>3, <1>4, <1>6, <2>1, <2>2 DEF SentInv, WriteLabels, AnswerLabels
  <2>4. AnswerInv(c)'
    BY <1>1, <1>3, <1>4, <1>6, <2>1 DEF AnswerInv, AskLabels, FileLabels, WriteLabels, AnswerLabels
  <2>. QED  BY <1>1, <1>3, <1>4, <1>6, <2>3, <2>4, AnsweredSame
<1>. QED  BY <1>5, <1>6

\* The plain file is rewound.
LEMMA RewindAnswered ==
  ASSUME AnswersInv, NEW c \in Client, Rewind(c)
  PROVE  Answered(c)
<1>1. /\ pc[c] = "lseek"
      /\ UNCHANGED <<dataFileDescriptor, dev, receive_buffer, inbox, reply, peer>>
  BY DEF Rewind, Runs, locals, net
<1>2. /\ Target.kind = "data" /\ Readable(dev)
      /\ ~use_aesd_char_device => Target.inode = dev.linked
  BY <1>1, FileAtHand DEF FileLabels
<1>3. fds' = SetPos(0) /\ Goto(c, "lock_r")
  BY <1>2 DEF Rewind
<1>4. Target'.pos = 0 /\ Target'.inode = Target.inode
  BY <1>1, <1>2, <1>3, StoreIs, MovesTarget
<1>5. pc'[c] = "lock_r"
  BY <1>3, Arrives
<1>. QED  BY <1>1, <1>2, <1>4, <1>5, AtBeginning

\* Bytes read and not yet sent may be counted to either side.
LEMMA PutTogether ==
  ASSUME NEW s \in Seq(Int), NEW t \in Seq(Int), NEW u \in Seq(Int)
  PROVE  (s \o t) \o u = s \o (t \o u)
  BY ConcatAssociative

\* A read takes the next bytes off the rest.
LEMMA ReadAnswered ==
  ASSUME AnswersInv, AnswersAlone, NEW c \in Client, Read(c)
  PROVE  Answered(c)
<1>. DEFINE S     == Held(dev)
            pos   == Target.pos
            bytes == Reading(dev, pos)
<1>1. /\ pc[c] = "read"
      /\ UNCHANGED <<dataFileDescriptor, dev, receive_buffer, received, reply, peer>>
  BY DEF Read, Runs
<1>2. /\ Target.kind = "data" /\ pos \in Nat /\ Readable(dev) /\ S \in Seq(Int)
      /\ ~use_aesd_char_device => Target.inode = dev.linked
  BY <1>1, FileAtHand DEF FileLabels, AnswerLabels
<1>3. /\ send_buffer' = [send_buffer EXCEPT ![c] = bytes]
      /\ fds' = SetPos(pos + Len(bytes))
      /\ Goto(c, "unlock_r") /\ UNCHANGED inbox
  <2>1. bytes = IF use_aesd_char_device THEN DeviceRead(dev, Target.pos, BUF_LEN)
                ELSE FileRead(dev, Target.inode, Target.pos, BUF_LEN)
    BY <1>2 DEF Reading, use_aesd_char_device
  <2>2. "read" \notin Faults
    BY DEF AnswersAlone, ServesAlone
  <2>. HIDE DEF bytes
  <2>. QED  BY <1>2, <2>1, <2>2 DEF Read
<1>4. pc'[c] = "unlock_r"
  BY <1>3, Arrives
<1>5. send_buffer'[c] = bytes
  BY <1>3 DEF AnswersInv, AloneInv, IInv, DataInv
<1>6. Target'.pos = pos + Len(bytes) /\ Target'.inode = Target.inode
  BY <1>1, <1>2, <1>3, StoreIs, MovesTarget
<1>7. /\ bytes \in Seq(Int) /\ From(S, pos) = bytes \o From(S, pos + Len(bytes))
      /\ bytes = << >> => From(S, pos) = << >>
  BY <1>2, StoreIs, ReadTakes
<1>8. Rest = From(S, pos) /\ Rest' = From(S, pos + Len(bytes))
  BY <1>1, <1>6 DEF Rest
<1>. HIDE DEF S, pos, bytes
<1>9. Rest = bytes \o Rest' /\ (bytes = << >> => Rest = << >>)
  BY <1>7, <1>8
<1>10. pos + Len(bytes) \in Nat
  BY <1>2, <1>7, LenProperties
<1>11. Rest' \in Seq(Int) /\ reply[c] \in Seq(Int)
  BY <1>2, <1>8, <1>10, FromIs DEF AnswersInv, StoreInv
<1>12. bytes = << >> => Rest' = << >>
  BY <1>9, <1>11, ConcatEmptySeq
<1>13. InHand(c) = << >> /\ InHand(c)' = bytes
  BY <1>1, <1>4, <1>5 DEF InHand
<1>14. (reply[c] \o InHand(c)) \o Rest = (reply'[c] \o InHand(c)') \o Rest'
  <2>1. reply[c] \o << >> = reply[c]
    BY <1>11, ConcatEmptySeq
  <2>2. PICK r \in Seq(Int) : r = Rest'
    BY <1>11
  <2>3. (reply[c] \o bytes) \o r = reply[c] \o (bytes \o r)
    BY <1>7, <1>11, PutTogether
  <2>. QED  BY <1>1, <1>9, <1>13, <2>1, <2>2, <2>3
<1>15. UNCHANGED <<ioctl_check(c), use_aesd_char_device>>
  BY <1>1 DEF ioctl_check, use_aesd_char_device
<1>16. SentInv(c) /\ AnswerInv(c)
  BY DEF AnswersInv, ReplyInv
<1>17. SentInv(c)'
  BY <1>1, <1>4, <1>15, <1>16 DEF SentInv, WriteLabels, AnswerLabels
<1>18. AnswerInv(c)'
  BY <1>1, <1>2, <1>4, <1>5, <1>6, <1>12, <1>14, <1>15, <1>16
     DEF AnswerInv, AskLabels, FileLabels, WriteLabels, AnswerLabels
<1>. QED  BY <1>1, <1>3, <1>4, <1>17, <1>18, AnsweredSame

\* What was in hand goes to c.
LEMMA SendAnswered ==
  ASSUME AnswersInv, NEW c \in Client, Send(c)
  PROVE  Answered(c)
<1>1. /\ pc[c] = "send"
      /\ UNCHANGED <<fds, dataFileDescriptor, dev, receive_buffer, received, send_buffer, inbox,
                     peer>>
  BY DEF Send, Runs, files, locals
<1>2. Socket(c).kind = "client" /\ Socket(c).who = c /\ ~Gone(Socket(c))
  BY <1>1, OwnSocket DEF AnswersInv, SocketClosed, Gone
<1>3. reply' = [reply EXCEPT ![c] = @ \o send_buffer[c]] /\ Goto(c, AfterSend(c))
  BY <1>2 DEF Send
<1>4. pc'[c] = IF send_buffer[c] = << >> THEN "close_c" ELSE "lock_r"
  BY <1>3, Arrives DEF AfterSend
<1>5. reply \in [Client -> Seq(Int)] /\ send_buffer[c] \in Seq(Int)
  BY DEF AnswersInv, AloneInv, IInv, DataInv, StoreInv
<1>6. reply[c] \o send_buffer[c] \in Seq(Int)
  BY <1>5, ConcatProperties
<1>7. /\ reply'[c] = reply[c] \o send_buffer[c] /\ reply' \in [Client -> Seq(Int)]
      /\ \A d \in Client : d # c => reply'[d] = reply[d]
  BY <1>3, <1>5, <1>6
<1>8. UNCHANGED <<Target, Rest, ioctl_check(c), use_aesd_char_device>>
  BY <1>1 DEF Target, Rest, ioctl_check, use_aesd_char_device
<1>9. reply'[c] \o InHand(c)' = reply[c] \o InHand(c)
  <2>1. InHand(c) = send_buffer[c] /\ InHand(c)' = << >>
    BY <1>1, <1>4 DEF InHand
  <2>. QED  BY <1>6, <1>7, <2>1, ConcatEmptySeq
<1>10. SentInv(c) /\ AnswerInv(c)
  BY DEF AnswersInv, ReplyInv
<1>11. SentInv(c)'
  BY <1>1, <1>4, <1>8, <1>10 DEF SentInv, WriteLabels, AnswerLabels
<1>12. AnswerInv(c)'
  BY <1>1, <1>4, <1>8, <1>9, <1>10
     DEF AnswerInv, AskLabels, FileLabels, WriteLabels, AnswerLabels
<1>13. InboxInv(c)'
  BY <1>1, <1>4, InboxKept
<1>14. (use_aesd_char_device => HoldsCommands(dev))'
  BY <1>1 DEF AnswersInv, StoreInv, use_aesd_char_device
<1>. QED  BY <1>1, <1>7, <1>11, <1>12, <1>13, <1>14 DEF Answered, ReplyInv

\* The end of client_data_handler.
LEMMA EndAnswered ==
  ASSUME AnswersInv, NEW c \in Client, ClientClose(c) \/ Complete(c) \/ DataClose(c)
  PROVE  Answered(c)
<1>1. /\ pc[c] # "none" /\ pc'[c] \in {"complete", "close_d", "done"}
      /\ UNCHANGED <<dev, inbox, reply, peer>>
  BY Arrives DEF ClientClose, Complete, DataClose, Runs, net
<1>2. SentInv(c)'
  BY <1>1 DEF SentInv, WriteLabels, AnswerLabels
<1>3. AnswerInv(c)'
  BY <1>1 DEF AnswerInv, AskLabels, FileLabels, WriteLabels, AnswerLabels
<1>. QED  BY <1>1, <1>2, <1>3, AnsweredSame

\* Every step of a connection thread.
LEMMA ClientAnswers ==
  ASSUME AnswersInv, AnswersAlone, AloneInv', NEW c \in Client, ClientStep(c),
         ~CrashOnFreedNode(c)
  PROVE  Answered(c)
<1>1. CASE WriteLock(c) \/ WriteUnlock(c) \/ ReadLock(c) \/ ReadUnlock(c)
  BY <1>1, LockAnswered DEF WriteLock, WriteUnlock, ReadLock, ReadUnlock
<1>. QED  BY <1>1, StartAnswered, RecvAnswered, OpenAnswered, IoctlAnswered, WriteAnswered,
             WriteCloseAnswered, ReadOpenAnswered, RewindAnswered, ReadAnswered, SendAnswered,
             EndAnswered DEF ClientStep

\* A connection that has no thread, or no longer, is not affected by the others.
LEMMA IdleKeeps ==
  ASSUME NEW d \in Client, ReplyInv(d), pc[d] \in {"none", "done"},
         UNCHANGED <<pc[d], inbox[d], reply[d]>>, peer'[d] = "away" <=> peer[d] = "away"
  PROVE  ReplyInv(d)'
<1>1. Taken(d)' = Taken(d)
  BY DEF Taken
<1>2. InboxInv(d)'
  BY <1>1 DEF ReplyInv, InboxInv
<1>3. SentInv(d)'
  BY DEF SentInv, WriteLabels, AnswerLabels
<1>4. AnswerInv(d)'
  BY DEF ReplyInv, AnswerInv, AskLabels, FileLabels, WriteLabels, AnswerLabels
<1>. QED  BY <1>2, <1>3, <1>4 DEF ReplyInv

\* A step of a connection thread: it is the only one at work.
LEMMA ThreadAnswers ==
  ASSUME AnswersInv, AnswersAlone, AloneInv', NEW c \in Client, ClientStep(c),
         ~CrashOnFreedNode(c)
  PROVE  StoreInv' /\ \A d \in Client : ReplyInv(d)'
<1>1. Answered(c)
  BY ClientAnswers
<1>2. LocalStep(c)
  BY ClientStepLocal
<1>3. pc[c] \notin {"none", "done"} /\ UNCHANGED peer
  BY <1>2, Distinct DEF LocalStep, Alive, Finished
<1>4. \A t \in Thread : t # c => pc'[t] = pc[t]
  BY <1>2 DEF LocalStep, Goto, AnswersInv, AloneInv, IInv, Places
<1>5. ASSUME NEW d \in Client, d # c PROVE ReplyInv(d)'
  <2>1. pc[d] \in {"none", "done"}
    BY <1>3, <1>5, OneClient, StartedAccepted DEF AnswersInv
  <2>2. UNCHANGED <<pc[d], inbox[d], reply[d]>> /\ (peer'[d] = "away" <=> peer[d] = "away")
    BY <1>1, <1>3, <1>4, <1>5, Distinct DEF Answered
  <2>. QED  BY <2>1, <2>2, IdleKeeps DEF AnswersInv
<1>6. pc'[timestamps] = pc[timestamps] /\ UNCHANGED ticks
  <2>1. UNCHANGED ticks
    BY DEF ClientStep, ClientStart, Recv, SeekOpen, Ioctl, WriteOpen, ReadOpen, OpenDataFile,
           WriteLock, WriteUnlock, ReadLock, ReadUnlock, Lock, Unlock, Write, WriteTo,
           WriteClose, Rewind, Read, Send, ClientClose, Complete, DataClose, threads
  <2>. QED  BY <1>4, <2>1, Distinct
<1>7. StoreInv'
  BY <1>1, <1>6 DEF AnswersInv, StoreInv, Answered
<1>. QED  BY <1>1, <1>5, <1>7 DEF Answered

\* Steps of the other threads that leave the connection threads where they are.
LEMMA OthersAnswer ==
  ASSUME AnswersInv,
         UNCHANGED <<fds, dataFileDescriptor, dev, receive_buffer, received, send_buffer, reply>>,
         NEW d \in Client, pc'[d] = pc[d], inbox'[d] = inbox[d],
         peer'[d] = "away" <=> peer[d] = "away"
  PROVE  ReplyInv(d)'
<1>1. Taken(d)' = Taken(d)
  BY DEF Taken
<1>2. UNCHANGED <<Target, Rest, ioctl_check(d), use_aesd_char_device, InHand(d)>>
  BY DEF Target, Rest, ioctl_check, use_aesd_char_device, InHand
<1>3. ReplyInv(d)
  BY DEF AnswersInv
<1>4. InboxInv(d)'
  BY <1>1, <1>3 DEF ReplyInv, InboxInv
<1>5. SentInv(d)'
  BY <1>1, <1>2, <1>3 DEF ReplyInv, SentInv
<1>6. AnswerInv(d)'
  BY <1>2, <1>3 DEF ReplyInv, AnswerInv
<1>. QED  BY <1>4, <1>5, <1>6 DEF ReplyInv

\* The main thread goes through its list.
LEMMA ListAnswers ==
  ASSUME AnswersInv, AnswersAlone, Spawn \/ Insert \/ Reap \/ ReapLog
  PROVE  StoreInv' /\ \A d \in Client : ReplyInv(d)'
<1>1. UNCHANGED <<fds, dataFileDescriptor, dev, receive_buffer, received, send_buffer, reply,
                  inbox, ticks, peer>>
  BY DEF Spawn, Insert, Reap, ReapLog, files, threads, locals, net
<1>2. \A t \in Thread : \/ pc'[t] = pc[t] \/ t = main
                        \/ t \in Client /\ pc[t] = "none" /\ pc'[t] = "start" /\ fd[t] # ERROR
  <2>. SUFFICES ASSUME NEW t \in Thread, t # main
                PROVE  \/ pc'[t] = pc[t]
                       \/ t \in Client /\ pc[t] = "none" /\ pc'[t] = "start" /\ fd[t] # ERROR
    OBVIOUS
  <2>0. pc \in [Thread -> Labels]
    BY DEF AnswersInv, AloneInv, IInv, Places
  <2>1. CASE Spawn
    <3>1. pc[main] = "spawn" /\ iter \in Client /\ pc[iter] = "none" /\ fd[iter] # ERROR
      BY <2>1 DEF Spawn, Runs, AnswersInv, AloneInv, IInv, ListInv
    <3>2. \/ Goto(main, "insert")
          \/ pc' = [pc EXCEPT ![main] = "insert", ![iter] = "start"]
      BY <2>1 DEF Spawn, AnswersAlone, ServesAlone
    <3>3. CASE Goto(main, "insert")
      BY <2>0, <3>3 DEF Goto
    <3>4. CASE pc' = [pc EXCEPT ![main] = "insert", ![iter] = "start"]
      <4>1. iter \in Thread /\ iter # main
        BY <3>1, Distinct
      <4>2. pc'[iter] = "start"
        BY <2>0, <3>4, <4>1
      <4>3. t # iter => pc'[t] = pc[t]
        BY <2>0, <3>4
      <4>. QED  BY <3>1, <4>2, <4>3
    <3>. QED  BY <3>2, <3>3, <3>4
  <2>2. CASE Insert \/ Reap \/ ReapLog
    <3>1. UNCHANGED pc \/ \E l : Goto(main, l)
      BY <2>2 DEF Insert, Reap, ReapLog
    <3>. QED  BY <2>0, <3>1 DEF Goto
  <2>. QED  BY <2>1, <2>2
<1>3. StoreInv'
  <2>1. pc'[timestamps] = pc[timestamps]
    BY <1>2, Distinct
  <2>. QED  BY <1>1, <2>1 DEF AnswersInv, StoreInv, use_aesd_char_device
<1>4. ASSUME NEW d \in Client PROVE ReplyInv(d)'
  <2>1. CASE pc'[d] = pc[d]
    BY <1>1, <2>1, OthersAnswer
  <2>2. CASE pc[d] = "none" /\ pc'[d] = "start" /\ fd[d] # ERROR
    <3>1. ReplyInv(d) /\ peer[d] # "away"
      BY <2>2 DEF AnswersInv, AloneInv, QuietInv
    <3>2. Taken(d)' = Taken(d)
      BY <1>1 DEF Taken
    <3>3. InboxInv(d)'
      BY <1>1, <2>2, <3>1, <3>2 DEF ReplyInv, InboxInv
    <3>4. SentInv(d)'
      BY <2>2 DEF SentInv, WriteLabels, AnswerLabels
    <3>5. AnswerInv(d)'
      BY <1>1, <2>2, <3>1 DEF ReplyInv, AnswerInv, AskLabels, FileLabels, WriteLabels, AnswerLabels
    <3>. QED  BY <3>3, <3>4, <3>5 DEF ReplyInv
  <2>. QED  BY <1>2, <2>1, <2>2, Distinct
<1>. QED  BY <1>3, <1>4

\* A client is accepted: no other connection has a thread at work.
LEMMA AcceptAnswers ==
  ASSUME AnswersInv, NEW c \in Client, Accept(c)
  PROVE  StoreInv' /\ \A d \in Client : ReplyInv(d)'
<1>1. /\ UNCHANGED <<dev, reply, inbox, ticks>> /\ Goto(main, "spawn")
      /\ peer[c] # "away" /\ fd[c] = ERROR
      /\ peer' = [peer EXCEPT ![c] = IF @ = "queued" THEN "connected" ELSE @]
  BY DEF Accept
<1>2. \A t \in Thread : t # main => pc'[t] = pc[t]
  BY <1>1 DEF Goto, AnswersInv, AloneInv, IInv, Places
<1>3. pc[c] = "none"
  BY <1>1 DEF AnswersInv, AloneInv, IInv, ListInv
<1>4. ASSUME NEW d \in Client PROVE ReplyInv(d)'
  <2>1. pc[d] \in {"none", "done"}
    <3>1. CASE d = c
      BY <1>3, <3>1
    <3>2. CASE d # c /\ peer[d] = "away"
      BY <3>2, StartedAccepted DEF AnswersInv
    <3>3. CASE d # c /\ peer[d] # "away"
      BY <1>1, <1>3, <3>3 DEF AnswersInv, AloneInv, QuietInv
    <3>. QED  BY <3>1, <3>2, <3>3
  <2>2. peer'[d] = "away" <=> peer[d] = "away"
    BY <1>1 DEF AnswersInv, AloneInv, IInv, OtherTypes
  <2>3. UNCHANGED <<pc[d], inbox[d], reply[d]>>
    BY <1>1, <1>2, Distinct
  <2>. QED  BY <2>1, <2>2, <2>3, IdleKeeps DEF AnswersInv
<1>5. StoreInv'
  <2>1. pc'[timestamps] = pc[timestamps]
    BY <1>2, Distinct
  <2>. QED  BY <1>1, <2>1 DEF AnswersInv, StoreInv, use_aesd_char_device
<1>. QED  BY <1>4, <1>5

\* A client connects, with its whole script to come.
LEMMA ConnectAnswers ==
  ASSUME AnswersInv, AnswersAlone, NEW c \in Client, Connect(c)
  PROVE  StoreInv' /\ \A d \in Client : ReplyInv(d)'
<1>1. /\ UNCHANGED <<dev, pc, reply, ticks>> /\ peer[c] = "away" /\ MayConnect(c)
      /\ peer' = [peer EXCEPT ![c] = "queued"] /\ inbox' = [inbox EXCEPT ![c] = Script[c]]
  BY DEF Connect, threads
<1>2. /\ inbox \in [Client -> Seq(Packet)]
      /\ peer \in [Client -> {"away", "queued", "connected", "gone"}]
  BY DEF AnswersInv, AloneInv, IInv, DataInv, OtherTypes
<1>3. /\ inbox'[c] = Script[c] /\ peer'[c] = "queued"
      /\ \A d \in Client : d # c => inbox'[d] = inbox[d] /\ peer'[d] = peer[d]
  BY <1>1, <1>2
<1>4. pc[c] = "none" /\ ReplyInv(c)
  BY <1>1 DEF AnswersInv, ReplyInv, InboxInv
<1>5. ReplyInv(c)'
  <2>1. Len(Script[c]) \in Nat
    BY BytesIs
  <2>2. Taken(c)' = Len(Script[c]) - Len(Script[c])
    BY <1>3 DEF Taken
  <2>3. Taken(c)' = 0 /\ \A i \in 1 .. Len(Script[c]) : 0 + i = i
    BY <2>1, <2>2
  <2>4. InboxInv(c)'
    BY <1>3, <2>1, <2>3 DEF InboxInv
  <2>5. SentInv(c)'
    BY <1>1, <1>4 DEF SentInv, WriteLabels, AnswerLabels
  <2>6. AnswerInv(c)'
    BY <1>1, <1>4 DEF ReplyInv, AnswerInv, AskLabels, FileLabels, WriteLabels, AnswerLabels
  <2>. QED  BY <2>4, <2>5, <2>6 DEF ReplyInv
<1>6. ASSUME NEW d \in Client, d # c PROVE ReplyInv(d)'
  <2>1. peer[d] = "away" \/ pc[d] \in Finished
    BY <1>1, <1>6 DEF MayConnect, AnswersAlone, ServesAlone
  <2>2. pc[d] \in {"none", "done"}
    BY <2>1, StartedAccepted DEF AnswersInv, AloneInv, QuietInv, Finished
  <2>. QED  BY <1>1, <1>3, <1>6, <2>2, IdleKeeps DEF AnswersInv
<1>7. StoreInv'
  BY <1>1 DEF AnswersInv, StoreInv, use_aesd_char_device
<1>. QED  BY <1>5, <1>6, <1>7

\* The timestamp thread writes nothing.
LEMMA StampAnswers ==
  ASSUME AnswersInv, log_timestamps \/ ClockFails
  PROVE  StoreInv' /\ \A d \in Client : ReplyInv(d)'
<1>1. StampStart \/ ClockFails
  BY DEF log_timestamps, Sleep, Lock, Unlock, Runs, AnswersInv, StoreInv
<1>2. /\ UNCHANGED <<fds, dataFileDescriptor, dev, receive_buffer, received, send_buffer, reply,
                     inbox, ticks, peer>>
      /\ \/ Goto(timestamps, "failed")
         \/ Goto(timestamps, "sleep") /\ pc[timestamps] = "start_t"
  BY <1>1 DEF StampStart, ClockFails, Runs, files, threads, locals, net
<1>3. /\ pc'[timestamps] = "failed" \/ (pc'[timestamps] = "sleep" /\ pc[timestamps] = "start_t")
      /\ \A d \in Client : pc'[d] = pc[d]
  BY <1>2, Distinct DEF Goto, AnswersInv, AloneInv, IInv, Places
<1>4. StoreInv'
  BY <1>2, <1>3 DEF AnswersInv, StoreInv, use_aesd_char_device
<1>. QED  BY <1>2, <1>3, <1>4, OthersAnswer

\* It holds when main enters the accept loop.
LEMMA InitAnswers ==
  ASSUME AnswersAlone, Init
  PROVE  StoreInv /\ \A d \in Client : ReplyInv(d)
<1>1. \A d \in Client : pc[d] = "none" /\ peer[d] = "away" /\ reply[d] = << >>
  BY Distinct DEF Init
<1>2. \A d \in Client : ReplyInv(d)
  BY <1>1 DEF ReplyInv, InboxInv, SentInv, AnswerInv, AskLabels, FileLabels, WriteLabels,
              AnswerLabels
<1>3. PICK s \in Scenario : /\ dev = IF s.DATA_FILE = "/dev/aesdchar" THEN NewDevice ELSE NoFile
                            /\ ticks = s.ticks
  BY DEF Init
<1>4. PICK ts \in setup_time_logging :
        pc = [t \in Thread |-> CASE t = main -> "accept" [] t = timestamps -> ts [] OTHER -> "none"]
  BY DEF Init
<1>5. pc[timestamps] = ts
  BY <1>4, Distinct
<1>6. CASE s.DATA_FILE = "/dev/aesdchar"
  <2>1. dev = NewDevice /\ use_aesd_char_device
    BY <1>3, <1>6, NewDeviceOK DEF use_aesd_char_device
  <2>2. Count(NewDevice.buffer) = 0
    BY NAssumption DEF NewDevice, aesd_circular_buffer_init, Count
  <2>3. HoldsCommands(dev)
    BY <2>1, <2>2 DEF HoldsCommands
  <2>4. ts = "none"
    BY <1>4, <2>1 DEF setup_time_logging
  <2>. QED  BY <1>2, <1>5, <2>3, <2>4, EmptySeq DEF StoreInv, Init
<1>7. CASE s.DATA_FILE # "/dev/aesdchar"
  <2>1. dev = NoFile /\ ~use_aesd_char_device
    BY <1>3, <1>7, NoFileOK DEF use_aesd_char_device
  <2>2. ticks = 0 /\ ts \in {"none", "start_t"}
    BY <1>3, <1>4, <1>7, <2>1 DEF AnswersAlone, setup_time_logging
  <2>. QED  BY <1>2, <1>5, <2>1, <2>2, EmptySeq DEF StoreInv, Init
<1>. QED  BY <1>6, <1>7

\* The invariant holds in every reachable state.
LEMMA AnswersInductive ==
  ASSUME AnswersAlone
  PROVE  Spec => []AnswersInv
<1>. DEFINE Replies == StoreInv /\ \A d \in Client : ReplyInv(d)
<1>1. Init => Replies
  BY InitAnswers
<1>2. AnswersInv /\ AloneInv' /\ [Next]_vars => Replies'
  <2>. SUFFICES ASSUME AnswersInv, AloneInv', [Next]_vars
                PROVE  StoreInv' /\ \A d \in Client : ReplyInv(d)'
    OBVIOUS
  <2>1. CASE UNCHANGED vars
    <3>1. UNCHANGED <<fds, dataFileDescriptor, dev, receive_buffer, received, send_buffer, reply,
                      inbox, peer, pc, ticks>>
      BY <2>1 DEF vars, files, threads, locals, net
    <3>2. StoreInv'
      BY <3>1 DEF AnswersInv, StoreInv, use_aesd_char_device
    <3>. QED  BY <3>1, <3>2, OthersAnswer
  <2>2. CASE Next
    <3>1. AloneInv /\ ServesAlone
      BY DEF AnswersInv, AnswersAlone
    <3>. QED  BY <2>2, <3>1, QuietSteps, ListAnswers, StampAnswers, AcceptAnswers, ConnectAnswers,
                 ThreadAnswers
  <2>. QED  BY <2>1, <2>2
<1>3. Spec => []AloneInv
  BY AloneInductive DEF AnswersAlone
<1>4. AnswersInv <=> AloneInv /\ Replies
  BY DEF AnswersInv
<1>. HIDE DEF Replies
<1>. QED  BY <1>1, <1>2, <1>3, <1>4, PTL DEF Spec

(***************************************************************************)
(* What client_data_handler has sent when it closes the connection of such *)
(* a client is what the device or the file holds, all of it and the        *)
(* client's own line last; after a seek ioctl, the rest of it from some    *)
(* byte on.                                                                *)
(***************************************************************************)
THEOREM ReplyIsContentsAlone ==
  ASSUME AnswersAlone
  PROVE  Spec => []ReplyIsContents
<1>1. ASSUME AnswersInv PROVE ReplyIsContents
  <2>. SUFFICES ASSUME NEW c \in Client, pc[c] = "close_c"
                PROVE  /\ IsSuffix(reply[c], DataContents)
                       /\ ~ioctl_check(c) => /\ reply[c] = DataContents
                                             /\ IsSuffix(Sent(c), reply[c])
    BY DEF ReplyIsContents
  <2>1. DataContents = Held(dev)
    BY DEF DataContents, Held, use_aesd_char_device
  <2>2. Held(dev) \in Seq(Int) /\ reply[c] \in Seq(Int)
    BY <1>1, FileAtHand DEF AnswersInv, StoreInv, FileLabels, AnswerLabels
  <2>3. Sent(c) \in Seq(Int)
    <3>1. Len(Script[c]) \in 0 .. Len(Script[c])
      BY BytesIs
    <3>. QED  BY <3>1, BytesIs
  <2>4. InHand(c) = << >> /\ Rest = << >> /\ SentInv(c) /\ AnswerInv(c)
    BY <1>1 DEF InHand, AnswersInv, ReplyInv, AnswerInv
  <2>5. (reply[c] \o InHand(c)) \o Rest = reply[c]
    BY <2>2, <2>4, ConcatEmptySeq
  <2>6. IF ioctl_check(c) THEN EndsWith(Held(dev), reply[c]) ELSE Held(dev) = reply[c]
    BY <2>4, <2>5 DEF AnswerInv, AnswerLabels
  <2>7. ~ioctl_check(c) => EndsWith(Held(dev), Sent(c))
    BY <2>4 DEF SentInv, AnswerLabels
  <2>8. EndsWith(Held(dev), reply[c])
    BY <2>2, <2>6, EndsSelf
  <2>. QED  BY <2>1, <2>2, <2>3, <2>6, <2>7, <2>8, EndsWithIsSuffix
<1>. QED  BY <1>1, AnswersInductive, PTL

=============================================================================
