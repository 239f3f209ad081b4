---------------------------- MODULE MCAesdSocket ----------------------------
(***************************************************************************)
(* Instances of the socket server for TLC.  Bytes are numbers: 0 is the    *)
(* newline, the others are the first letters of the clients' commands.     *)
(***************************************************************************)
EXTENDS AesdSocket, TLC

CONSTANTS c1, c2, c3, t1, t2, t3

Line(b)  == [data |-> <<b, 0>>, seekto |-> {}]
Part(b)  == [data |-> <<b>>, seekto |-> {}]

Seekto(cmd, off) ==
  [data |-> <<9, 0>>, seekto |-> {[write_cmd |-> cmd, write_cmd_offset |-> off]}]

\* Numbers that are negative or missing.
SeektoUnparsed ==
  [data |-> <<9, 0>>, seekto |-> [write_cmd : {0, N}, write_cmd_offset : {0, -1}]]

StampLine == <<8, 0>>

Device(daemons, sigs) ==
  [DATA_FILE : {"/dev/aesdchar"}, daemon : daemons, signals : {sigs}, ticks : {0}]
Plain(daemons, sigs, stamps) ==
  [DATA_FILE : {"/var/tmp/aesdsocketdata"}, daemon : daemons, signals : {sigs},
   ticks : {stamps}]

DeviceOnly   == Device(BOOLEAN, {})
BothBuilds   == Device({TRUE}, {}) \cup Plain({FALSE}, {}, 0)
EndsOfServer == Device({FALSE}, {"SIGTERM"})
                  \cup Plain({TRUE}, {"SIGTERM"}, 0) \cup Plain({TRUE}, {}, 2)

\* A command in two packets, one in a single packet, a seek.
AloneScript   == c1 :> <<Part(1), Line(1)>> @@ c2 :> <<Line(2)>> @@ c3 :> <<Seekto(1, 1)>>
MixedScript   == c1 :> <<Line(1)>> @@ c2 :> <<SeektoUnparsed>>
LinesScript   == c1 :> <<Line(1)>> @@ c2 :> <<Line(2)>> @@ c3 :> <<Line(3)>>
=============================================================================
