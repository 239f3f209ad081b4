----------------------------- MODULE MCAesdChar -----------------------------
(***************************************************************************)
(* Instances of the driver for TLC.  Each configuration picks the calls    *)
(* programs make and the kernel calls that may fail; see README.md for     *)
(* the question each of them answers.                                      *)
(***************************************************************************)
EXTENDS AesdChar, TLC

CONSTANTS a, nl, nul, junk   \* an ordinary character, '\n', '\0', uninitialised memory

Bytes == {a, nl, nul, junk}

\* A write without a newline, one that goes on after it and an empty one.
AllWrites   == {<<nul>>, <<nl, a>>, << >>}
SplitWrites == {<<a>>, <<nl, a>>}
MixedWrites == {<<a>>, <<a, nl>>, <<nl, a>>}

NoSeeks   == {}
SomeSeeks == {[offset |-> 0, whence |-> "SEEK_END"], [offset |-> -1, whence |-> "SEEK_CUR"],
              [offset |-> 1, whence |-> "SEEK_SET"], [offset |-> 0, whence |-> "SEEK_DATA"]}

NoSeektos  == {}
AllSeektos ==
  [cmd : {"AESDCHAR_IOCSEEKTO"}, write_cmd : 0 .. N, write_cmd_offset : 0 .. 1]
    \cup {[cmd |-> "other"]}

SomeSeektos == {[cmd |-> "AESDCHAR_IOCSEEKTO", write_cmd |-> 0, write_cmd_offset |-> 1],
                [cmd |-> "AESDCHAR_IOCSEEKTO", write_cmd |-> 1, write_cmd_offset |-> 0],
                [cmd |-> "other"]}

ThreadSymmetry == Permutations(Thread)
CallerSymmetry == ThreadSymmetry \cup Permutations(File)
=============================================================================
