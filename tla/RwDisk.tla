------------------------------- MODULE RwDisk -------------------------------
(***************************************************************************)
(* The file functions and the drive test of rwdisk.cpp.  A transfer may be *)
(* short for any reason, a drive may lose what it was given, and the       *)
(* program may be killed between two blocks of a test.  File and drive     *)
(* have the same block size here; a word stands for the sectors between    *)
(* which a transfer can stop.                                              *)
(***************************************************************************)
EXTENDS Integers, Sequences

CONSTANTS
    BlockWords,   \* SIZE_1G / sizeof(int32_t)
    Shift,        \* 1 << 16
    WordSize,     \* values of a uint32_t
    Capacity,     \* words of the drive
    MaxNum        \* bound: blocks of one test

ASSUME DiskAssumption ==
    /\ BlockWords \in Nat \ {0} /\ Shift \in Nat \ {0} /\ WordSize \in Nat \ {0}
    /\ Capacity \in Nat /\ MaxNum \in Nat
    /\ MaxNum * Shift + BlockWords <= WordSize     \* (idx << 16) + i fits

Junk == -1          \* a word of something else
Index == 0 .. BlockWords - 1

VARIABLES
    disk,     \* place -> the word on the drive
    stored,   \* the words of the file
    there,    \* the file exists
    buf,      \* the caller's buffer: index -> word
    test,     \* the drive test that runs: [fn, num, idx, pos], or fn = "none"
    given,    \* the buffer of the last file_write*() that could open
    before,   \* buf, as it was before a read_drive_block() that was the last call
    last      \* the last call that returned: [fn, idx, res]

diskVars == <<disk, stored, there, buf, test, given, before, last>>

NoTest == [fn |-> "none", num |-> 0, idx |-> 0, pos |-> 0]

DiskInit ==
    /\ disk = [w \in 0 .. Capacity - 1 |-> Junk]
    /\ stored = <<>> /\ there = FALSE
    /\ buf = [i \in Index |-> Junk] /\ given = buf /\ before = buf
    /\ test = NoTest
    /\ last = [fn |-> "none", idx |-> 0, res |-> 0]

Return(fn, idx, res) == last' = [fn |-> fn, idx |-> idx, res |-> res]

\* The test pattern of a block.
M_Word(idx, i) == i % WordSize                 \* the same in every block
Word(idx, i) == (idx * Shift + i) % WordSize
Pattern(idx) == [i \in Index |-> Word(idx, i)]

\* buf after a read of k words that are f[0 .. k - 1].
Got(k, f) == [i \in Index |-> IF i < k THEN f[i] ELSE buf[i]]

-----------------------------------------------------------------------------
\* fwrite() and fread() are checked against the size, the calls of the _direct
\* functions only for -1.
Checked == {"file_write", "file_read"}
M_Complete(fn, k, err) == ~err
Complete(fn, k, err) == IF fn \in Checked THEN k = BlockWords ELSE ~err

\* Of the k words that are taken fclose() may lose what fwrite() has kept.
FileWrite(fn) ==
    /\ test.fn = "none"
    /\ UNCHANGED <<disk, buf, test>>
    /\ \/ Return(fn, 0, -1) /\ UNCHANGED <<stored, there, given>>   \* cannot open
       \/ \E k, kept \in 0 .. BlockWords, err \in BOOLEAN :
            /\ kept <= k /\ (fn \notin Checked => kept = k) /\ (err => k = 0)
            /\ given' = buf /\ there' = TRUE
            /\ stored' = [j \in 1 .. kept |-> buf[j - 1]]
            /\ Return(fn, 0, IF Complete(fn, k, err) THEN 0 ELSE -2)

FileRead(fn) ==
    /\ test.fn = "none"
    /\ UNCHANGED <<disk, stored, there, test, given>>
    /\ \/ Return(fn, 0, -1) /\ UNCHANGED buf
       \/ \E k \in 0 .. Len(stored), err \in BOOLEAN :
            /\ there /\ (err => k = 0)
            /\ buf' = Got(k, [i \in 0 .. k - 1 |-> stored[i + 1]])
            /\ Return(fn, 0, IF Complete(fn, k, err) THEN 0 ELSE -2)

file_delete ==
    /\ test.fn = "none"
    /\ \/ there' = FALSE /\ stored' = <<>>
       \/ UNCHANGED <<there, stored>>                            \* not looked at
    /\ Return("file_delete", 0, 0)
    /\ UNCHANGED <<disk, buf, test, given>>

\* The application puts something else into its buffer.
Refill(idx) ==
    /\ test.fn = "none"
    /\ buf' = IF idx = MaxNum THEN [i \in Index |-> Junk] ELSE Pattern(idx)
    /\ Return("none", 0, 0)
    /\ UNCHANGED <<disk, stored, there, test, given>>

-----------------------------------------------------------------------------
\* write2drive() and read_drive(): open the drive, ...
BeginTest(fn, num) ==
    /\ test.fn = "none"
    /\ test' = [fn |-> fn, num |-> num, idx |-> 0, pos |-> 0]
    /\ Return("none", 0, 0)
    /\ UNCHANGED <<disk, stored, there, buf, given>>

EndTest(res) == test' = NoTest /\ Return(test.fn, test.num, res)

OpenFails(fn, num) ==
    /\ test.fn = "none"
    /\ Return(fn, num, -1)
    /\ UNCHANGED <<disk, stored, there, buf, test, given>>

\* ... go from block to block, ...
NextBlock(k) ==
    /\ test' = [test EXCEPT !.idx = @ + 1, !.pos = @ + k]
    /\ UNCHANGED last

\* A write() of k words that the drive stores, or says it has stored.
Onto(pos, k, f) == [w \in DOMAIN disk |->
    IF w \in pos .. pos + k - 1 THEN f[w - pos] ELSE disk[w]]

WriteBlock ==
    /\ test.fn = "write2drive" /\ test.idx < test.num
    /\ buf' = Pattern(test.idx)
    /\ UNCHANGED <<stored, there, given>>
    /\ \E k \in 0 .. BlockWords :
         /\ test.pos + k <= Capacity
         /\ disk' \in {disk, Onto(test.pos, k, buf')}
         /\ IF k = BlockWords THEN NextBlock(k) ELSE EndTest(-1)

ReadBlock ==
    /\ test.fn = "read_drive" /\ test.idx < test.num
    /\ UNCHANGED <<disk, stored, there, given>>
    /\ \/ EndTest(-1) /\ UNCHANGED buf                             \* res < 0
       \/ \E k \in 0 .. BlockWords :
            /\ test.pos + k <= Capacity
            /\ buf' = Got(k, [i \in 0 .. k - 1 |-> disk[test.pos + i]])
            /\ IF buf' = Pattern(test.idx) THEN NextBlock(k) ELSE EndTest(0)

\* ... and report success.
TestDone ==
    /\ test.fn # "none" /\ test.idx = test.num
    /\ EndTest(0)
    /\ UNCHANGED <<disk, stored, there, buf, given>>

Killed ==
    /\ test.fn # "none"
    /\ test' = NoTest
    /\ buf' = [i \in Index |-> Junk]
    /\ UNCHANGED <<disk, stored, there, given, last>>

\* read_drive_block(): what lseek() says is not looked at.
read_drive_block(idx) ==
    /\ test.fn = "none"
    /\ before' = buf
    /\ UNCHANGED <<disk, stored, there, test, given>>
    /\ \/ Return("read_drive_block", idx, -1) /\ UNCHANGED buf
       \/ \E pos \in {0, idx * BlockWords}, k \in 0 .. BlockWords :
            /\ k > 0 => pos + k <= Capacity
            /\ buf' = Got(k, [i \in 0 .. k - 1 |-> disk[pos + i]])
            /\ Return("read_drive_block", idx, IF buf' = Pattern(idx) THEN 0 ELSE -1)

DiskNext ==
    \/ /\ \/ \E fn \in {"file_write", "file_write_direct"} : FileWrite(fn)
          \/ \E fn \in {"file_read", "file_read_direct"} : FileRead(fn)
          \/ file_delete
          \/ \E idx \in 0 .. MaxNum : Refill(idx)
          \/ \E fn \in {"write2drive", "read_drive"}, num \in 0 .. MaxNum :
                BeginTest(fn, num) \/ OpenFails(fn, num)
          \/ WriteBlock \/ ReadBlock \/ TestDone \/ Killed
       /\ before' = buf'
    \/ \E idx \in 0 .. MaxNum - 1 : read_drive_block(idx)

DiskSpec == DiskInit /\ [][DiskNext]_diskVars

-----------------------------------------------------------------------------
(* What read_drive_block() confirms is so, although it does not look at     *)
(* what lseek() and a short read() have done: each word of the block is     *)
(* right on the drive, or was in the buffer before the call.                *)
Verified == last.fn = "read_drive_block" /\ last.res = 0 =>
    \A i \in Index : LET w == last.idx * BlockWords + i IN
        \/ w < Capacity /\ disk[w] = Word(last.idx, i)
        \/ before[i] = Word(last.idx, i)

(* A file_read() that reports success returns all that the last write call  *)
(* was given that could open the file, whatever was short, lost or failed   *)
(* since, in whatever order the functions are mixed.                        *)
ReadsWhole == last.fn = "file_read" /\ last.res = 0 => buf = given
=============================================================================
