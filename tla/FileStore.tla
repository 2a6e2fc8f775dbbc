----------------------------- MODULE FileStore ------------------------------
(***************************************************************************)
(* What the file system promises a program: files that are sequences of    *)
(* words.  A write overwrites the file from its offset and ends it where   *)
(* the write ends; a write that fails may have changed some of the words   *)
(* in its range, but not the size.  A call that goes beyond the first      *)
(* Sure words may stop short there, and says so by the count it returns.   *)
(***************************************************************************)
EXTENDS Integers, Sequences

CONSTANTS Inumbers, Reads, Writes, DataAt,
          Sure   \* how many words of a file a call always gets to

VARIABLES file,  \* for each inode number the words of the file, if any
          ret    \* the answer of the last call

fsVars == <<file, ret>>

NoFile == [exists |-> FALSE, words |-> << >>]
Exists(i) == file[i].exists

FSInit == file = [i \in Inumbers |-> NoFile] /\ ret.op = "none"

Answer(op, i, val, data) ==
  ret' = [op |-> op, inumber |-> i, val |-> val, data |-> data]

(* Calls on the disk as a whole: format takes all files away.              *)
Whole(op, val) == Answer(op, 0, val, << >>) /\ UNCHANGED file

FormatAll == Answer("format", 0, 0, << >>) /\ file' = [i \in Inumbers |-> NoFile]

Refuse(op, i) == Answer(op, i, -1, << >>) /\ UNCHANGED file

Create(i) ==
  /\ Answer("create_file", i, i, << >>)
  /\ ~ Exists(i)
  /\ \A j \in Inumbers : j < i => Exists(j)
  /\ file' = [file EXCEPT ![i] = [exists |-> TRUE, words |-> << >>]]

Remove(i) ==
  /\ Answer("remove_file", i, 0, << >>)
  /\ Exists(i)
  /\ file' = [file EXCEPT ![i] = NoFile]

Size(i) == Len(file[i].words)

Stat(i) ==
  /\ ret'.op = "stat" /\ ret'.inumber = i /\ ret'.val = 0
  /\ Exists(i)
  /\ ret'.data[1] = Size(i)
  /\ UNCHANGED file

MinOf(a, b) == IF a < b THEN a ELSE b

MayEndAt(m, offset, length) == m = length \/ (m \in 0 .. length /\ offset + m >= Sure)

Read(i, offset, length) ==
  /\ ret'.op = "read_i" /\ ret'.inumber = i /\ ret'.val # -1
  /\ Exists(i) /\ offset <= Size(i)
  /\ LET n == MinOf(length, Size(i) - offset)
     IN  /\ MayEndAt(ret'.val, offset, n)
         /\ ret'.data = SubSeq(file[i].words, offset + 1, offset + ret'.val)
  /\ UNCHANGED file

(* The words that a short write leaves out are not determined.             *)
Write(i, offset, length, v) ==
  \E m \in 0 .. length :
    /\ Answer("write_i", i, m, << >>)
    /\ MayEndAt(m, offset, length)
    /\ Exists(i) /\ offset <= Size(i)
    /\ Exists(i)' /\ Size(i)' = offset + length
    /\ SubSeq(file'[i].words, 1, offset + m) =
         SubSeq(file[i].words, 1, offset) \o [j \in 1 .. m |-> v]
    /\ \A j \in Inumbers \ {i} : file'[j] = file[j]

WriteFails(i, offset, length, v) ==
  /\ Answer("write_i", i, -1, << >>)
  /\ Exists(i) /\ offset <= Size(i)
  /\ \E n \in 0 .. length - 1 :
       file' = [file EXCEPT ![i].words =
                  [j \in DOMAIN @ |-> IF j \in offset + 1 .. offset + n THEN v ELSE @[j]]]

FSNext ==
  \/ \E op \in {"write_block", "mount"}, val \in {0, -1} : Whole(op, val)
  \/ FormatAll
  \/ \E i \in Inumbers :
       \/ \E op \in {"create_file", "remove_file", "stat"} : Refuse(op, i) /\ ~ Exists(i)
       \/ Create(i) \/ Remove(i) \/ Stat(i)
       \/ \E range \in Reads :
            \/ Refuse("read_i", i) /\ (~ Exists(i) \/ range[1] > Size(i))
            \/ Read(i, range[1], range[2])
       \/ \E range \in Writes :
            \/ Refuse("write_i", i) /\ (~ Exists(i) \/ range[1] > Size(i))
            \/ \E v \in DataAt[range[1]] :
                 Write(i, range[1], range[2], v) \/ WriteFails(i, range[1], range[2], v)

FSSpec == FSInit /\ [][FSNext]_fsVars
=============================================================================
