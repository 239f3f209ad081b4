----------------------------- MODULE PlainFile ------------------------------
(***************************************************************************)
(* /var/tmp/aesdsocketdata, the data file of the server when it is built   *)
(* without USE_AESD_CHAR_DEVICE.  The name is linked to one inode at a     *)
(* time; an inode that was unlinked lives on in the descriptors that have  *)
(* it open, and the next open with O_CREAT makes another one.              *)
(***************************************************************************)
EXTENDS Sequences, SequencesExt

NoFile == [contents |-> << >>, linked |-> 0]

Create(file) ==
  IF file.linked # 0 THEN file
  ELSE [contents |-> Append(file.contents, << >>), linked |-> Len(file.contents) + 1]

Unlink(file) == [file EXCEPT !.linked = 0]

\* A write to a descriptor with O_APPEND.
FileWrite(file, inode, data) == [file EXCEPT !.contents[inode] = @ \o data]

FileRead(file, inode, pos, count) ==
  LET bytes == file.contents[inode]
  IN  SubSeq(bytes, pos + 1, Min({pos + count, Len(bytes)}))

=============================================================================
