----------------------------- MODULE AesdDevice -----------------------------
(***************************************************************************)
(* /dev/aesdchar as the programs that use it see it: every system call of  *)
(* aesd-char-driver/main.c happens at once, and an entry's buffptr is the  *)
(* byte string it points to.  That the calls of the real driver are atomic *)
(* and its memory safe is the subject of AesdChar.                         *)
(***************************************************************************)
EXTENDS CircularBuffer, SequencesExt

CONSTANT NewLine

NewDevice == [buffer |-> aesd_circular_buffer_init, partial |-> << >>, buff_size |-> 0]

\* The bytes of data that aesd_write takes: up to the first newline.
Accepted(data) ==
  IF Contains(data, NewLine)
  THEN SubSeq(data, 1, SelectInSeq(data, LAMBDA c : c = NewLine))
  ELSE data

\* Mutant: the bytes of earlier writes are dropped.
CommandDropsPartial(dev, data) == Accepted(data)

\* The command so far, after data was appended.
Command(dev, data) == dev.partial \o Accepted(data)

DeviceWrite(dev, data) ==
  LET line == Command(dev, data)
  IN  IF Contains(data, NewLine)
      THEN [buffer    |-> aesd_circular_buffer_add_entry(dev.buffer,
                            [buffptr |-> line, size |-> Len(line)]),
            partial   |-> << >>,
            buff_size |-> dev.buff_size + Len(line)]
      ELSE [dev EXCEPT !.partial = line]

\* The bytes aesd_read returns: from one entry only, none at the end.
DeviceRead(dev, pos, count) ==
  LET found == aesd_circular_buffer_find_entry_offset_for_fpos(dev.buffer, pos)
      bytes == dev.buffer.entry[found.slot].buffptr
  IN  IF found = NULL
      THEN << >>
      ELSE SubSeq(bytes, found.byte + 1, Min({found.byte + count, Len(bytes)}))

SizesBelow(buffer, write_cmd) == SumBelow([i \in Slots |-> buffer.entry[i].size], write_cmd)

\* The position an ioctl moves a file to, from the position pos.
DeviceSeekto(dev, pos, seekto) ==
  IF /\ seekto.cmd = "AESDCHAR_IOCSEEKTO"
     /\ seekto.write_cmd < N
     /\ seekto.write_cmd_offset < dev.buffer.entry[seekto.write_cmd].size
  THEN SizesBelow(dev.buffer, seekto.write_cmd) + seekto.write_cmd_offset
  ELSE pos

\* The position lseek asks for, and the one it gets: the old one if it asked for
\* a position below 0 or beyond buff_size.
fixed_size_llseek(position, seek, size) ==
  CASE seek.whence = "SEEK_SET" -> seek.offset
    [] seek.whence = "SEEK_CUR" -> position + seek.offset
    [] seek.whence = "SEEK_END" -> size + seek.offset
    [] OTHER -> -1

DeviceLlseek(dev, pos, seek) ==
  LET target == fixed_size_llseek(pos, seek, dev.buff_size)
  IN  IF target \in 0 .. dev.buff_size THEN target ELSE pos

DeviceStream(dev) ==
  FlattenSeq([k \in 1 .. Count(dev.buffer) |-> Contents(dev.buffer)[k].buffptr])

=============================================================================
