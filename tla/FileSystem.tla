----------------------------- MODULE FileSystem -----------------------------
(* The chain-allocated file system of src/file-system/: class FileSystem     *)
(* (fs.cpp, misc.cpp), its files under data/ (persistency.cpp) and the       *)
(* repair of an interrupted operation when it starts (repair.cpp).           *)
(*                                                                           *)
(* The program is sequential.  What is hard is where it may die: every call  *)
(* works on the copy in RAM and writes the data files one after another, so  *)
(* a call here does its work in RAM in one step and leaves in `pending` the  *)
(* files it still has to write; Flush writes the next one, Crash loses the   *)
(* RAM and the rest of `pending`, and starts the program again.  Writing one *)
(* file is taken as atomic, and the bytes of files are left out: memory.txt  *)
(* and memory[] hold data that no decision depends on.                       *)
(*                                                                           *)
(* A call that indexes outside an array ends in `defined = FALSE`: what the  *)
(* program does from there on is not defined.                                *)
EXTENDS Integers, Sequences, FiniteSets

CONSTANTS
    Names,              \* names of the right length (fs.cpp:46)
    Sizes,              \* sizes passed to create, read and write
    NUM_BLOCKS,         \* constants.h:9 has 64
    BLOCK_SIZE,         \* constants.h:6 has 32
    NUM_FILES,          \* constants.h:10 has 16
    NUM_OPENED_FILES    \* constants.h:11 has 8

ASSUME SizesAssumption ==
    /\ Sizes \subseteq Nat
    /\ NUM_BLOCKS \in Nat \ {0}
    /\ BLOCK_SIZE \in Nat \ {0, 1}
    /\ NUM_FILES \in Nat \ {0}
    /\ NUM_OPENED_FILES \in Nat \ {0}

VARIABLES
    fat,                \* fat[b]: the block after b, END_OF_CHAIN or FREE_BLOCK
    fd_table,           \* fd_table[i]: name, starting_block, size
    file_count,
    open_file_fd_table, \* open_file_fd_table[s]: idx, offset
    opened_file_count,
    disk,               \* the files under data/, by the field they hold
    pending,            \* the writes to them that the running call has left
    booting,            \* the running call is the constructor
    defined,            \* no call has left the arrays
    intact              \* history: no rollback, lossy crash or shifting delete yet

ram == <<fat, fd_table, file_count, open_file_fd_table, opened_file_count>>
vars == <<ram, disk, pending, booting, defined, intact>>

FREE_BLOCK == -1
END_OF_CHAIN == -2
NO_OPENED_FILE == -1
NoName == "no name"

Blocks == 0..NUM_BLOCKS - 1
FileSlots == 0..NUM_FILES - 1
OpenSlots == 0..NUM_OPENED_FILES - 1

emptyFileDescriptor == [name |-> NoName, starting_block |-> -1, size |-> -1]
emptyOpenedFile == [idx |-> NO_OPENED_FILE, offset |-> 0]

\* The transaction log matters when in_progress is set: the repair reads its
\* other fields only then, and new_size never.  A call leaves in_progress clear
\* in RAM when it returns, so the log is no variable: its life is in the writes
\* a call makes to the disk.
emptyLog == [in_progress |-> FALSE, file_idx |-> -1,
             last_valid_block |-> -1, first_new_block |-> -1]

-----------------------------------------------------------------------------
(* Blocks and chains                                                         *)

Least(S) == CHOOSE x \in S : \A y \in S : x <= y

\* Slip: any negative entry taken for a free one.
FreeBySign(f) == {b \in Blocks : f[b] < 0}

Free(f) == {b \in Blocks : f[b] = FREE_BLOCK}

\* What n calls of firstFreeBlock() return, each block being taken in turn.
firstFreeBlocks(f, n) ==
    {b \in Free(f) : Cardinality({c \in Free(f) : c < b}) < n}

\* Slip: the last block of a new chain linked on like the others.
LinkOpenEnded(f, S) ==
    [b \in Blocks |->
        IF b \notin S THEN f[b]
        ELSE IF \E c \in S : c > b THEN Least({c \in S : c > b})
        ELSE FREE_BLOCK]

\* The blocks of S linked in ascending order into a chain of their own.
Link(f, S) ==
    [b \in Blocks |->
        IF b \notin S THEN f[b]
        ELSE IF \E c \in S : c > b THEN Least({c \in S : c > b})
        ELSE END_OF_CHAIN]

\* Where following fat from block b leads after n links.  A walk stops at the
\* first value that is not a block.
Walk(f, b) ==
    LET at[n \in 0..NUM_BLOCKS] ==
            IF n = 0 THEN b
            ELSE IF at[n - 1] \in Blocks THEN f[at[n - 1]] ELSE at[n - 1]
    IN  at

WalkAt(f, b, n) == Walk(f, b)[IF n < NUM_BLOCKS THEN n ELSE NUM_BLOCKS]

Chain(f, b) == {Walk(f, b)[n] : n \in 0..NUM_BLOCKS} \cap Blocks

ChainEnd(f, b) == WalkAt(f, b, NUM_BLOCKS)

LastBlock(f, b) == CHOOSE c \in Chain(f, b) : f[c] = END_OF_CHAIN

BlocksFor(size) == (size + BLOCK_SIZE - 1) \div BLOCK_SIZE

-----------------------------------------------------------------------------
(* Files and open files                                                      *)

Files == 0..file_count - 1

duplicateName(n) == \E i \in FileSlots : fd_table[i].name = n

IndicesOf(n) == {i \in Files : fd_table[i].name = n}

\* findFileIndexByName(), where the name is found.
findFileIndexByName(n) == Least(IndicesOf(n))

\* The slots findOpenFileIndexByName() and findOpenFileFreeSlot() look for.
\* Both scan NUM_FILES slots, beyond the end of the table when there is none.
OpenSlotsOf(n) ==
    {s \in OpenSlots : LET i == open_file_fd_table[s].idx
                       IN  i \in Files /\ fd_table[i].name = n}
\* Slip: a scan that takes the first slot whatever it holds.
AnyOpenSlots == OpenSlots

FreeOpenSlots ==
    {s \in OpenSlots : open_file_fd_table[s].idx = NO_OPENED_FILE}

-----------------------------------------------------------------------------
(* The disk                                                                  *)

Put(file, value) == [file |-> file, value |-> value]

\* Slip: saveToDisk() without saveFileCountToDisk().
saveWithoutCount(f, fds, cnt) ==
    <<Put("fat", f), Put("fd_table", fds), Put("log", emptyLog)>>

\* saveToDisk(): the order in which the files are written (persistency.cpp:15-18).
saveToDisk(f, fds, cnt) ==
    <<Put("fat", f), Put("fd_table", fds), Put("log", emptyLog),
      Put("file_count", cnt)>>

\* Slip: the original size worked out from the size found on the disk.
restoreBySubtracting(fds, log) ==
    IF log.file_idx = -1 \/ log.last_valid_block = -1 THEN fds
    ELSE [fds EXCEPT ![log.file_idx].size = @ - BLOCK_SIZE]

\* transactionRollback() on a fat and an fd_table.
restoreOriginalFileSize(fds, log) ==
    IF log.file_idx = -1 \/ log.last_valid_block = -1 THEN fds
    ELSE [fds EXCEPT ![log.file_idx].size =
                         (log.last_valid_block + 1) * BLOCK_SIZE]

clearNewAllocatedBlocks(f, log) ==
    [b \in Blocks |-> IF b \in Chain(f, log.first_new_block)
                      THEN FREE_BLOCK ELSE f[b]]

transactionRollback(f, log) ==
    LET cleared == clearNewAllocatedBlocks(f, log)
    IN  IF log.last_valid_block = -1 THEN cleared
        ELSE [cleared EXCEPT ![log.last_valid_block] = END_OF_CHAIN]

EmptyFat == [b \in Blocks |-> FREE_BLOCK]
EmptyTable == [i \in FileSlots |-> emptyFileDescriptor]

\* What the constructor starts from: restoreFromDisk() and repair().  Files
\* that are missing stand for the default state, which Init puts on the disk:
\* the constructor saves it before any call can be made.
Restored ==
    IF disk.log.in_progress
    THEN [fat |-> transactionRollback(disk.fat, disk.log),
          fd_table |-> restoreOriginalFileSize(disk.fd_table, disk.log),
          file_count |-> disk.file_count]
    ELSE [fat |-> disk.fat, fd_table |-> disk.fd_table,
          file_count |-> disk.file_count]

-----------------------------------------------------------------------------
(* The calls.  A call that returns an error without having changed anything  *)
(* is not a step.                                                            *)

Init ==
    /\ fat = EmptyFat /\ fd_table = EmptyTable /\ file_count = 0
    /\ open_file_fd_table = [s \in OpenSlots |-> emptyOpenedFile]
    /\ opened_file_count = 0
    /\ disk = [fat |-> fat, fd_table |-> fd_table, log |-> emptyLog, file_count |-> 0]
    /\ pending = saveToDisk(fat, fd_table, 0)
    /\ booting = TRUE /\ defined = TRUE /\ intact = TRUE

Ready == defined /\ pending = << >>

\* The program has left its arrays.
Undefined ==
    /\ defined' = FALSE
    /\ UNCHANGED <<ram, disk, pending, booting, intact>>

create(n, size) ==
    LET needed == IF size = 0 THEN 1 ELSE BlocksFor(size)
        new == firstFreeBlocks(fat, needed)
    IN  /\ Ready
        /\ file_count < NUM_FILES
        /\ ~duplicateName(n)
        /\ Cardinality(new) = needed
        /\ fat' = Link(fat, new)
        /\ fd_table' = [fd_table EXCEPT ![file_count] =
               [name |-> n, starting_block |-> Least(new), size |-> size]]
        /\ file_count' = file_count + 1
        /\ pending' = saveToDisk(fat', fd_table', file_count')
        /\ UNCHANGED <<open_file_fd_table, opened_file_count, disk, booting,
                       defined, intact>>

open(n) ==
    /\ Ready
    /\ opened_file_count < NUM_FILES
    /\ IndicesOf(n) # {}
    /\ \/ /\ FreeOpenSlots # {}
          /\ open_file_fd_table' = [open_file_fd_table EXCEPT
                 ![Least(FreeOpenSlots)] =
                     [idx |-> findFileIndexByName(n), offset |-> 0]]
          /\ opened_file_count' = opened_file_count + 1
          /\ UNCHANGED <<fat, fd_table, file_count,
                         disk, pending, booting, defined, intact>>
       \/ FreeOpenSlots = {} /\ Undefined

close(n) ==
    /\ Ready
    /\ \/ /\ OpenSlotsOf(n) # {}
          /\ open_file_fd_table' = [open_file_fd_table EXCEPT
                 ![Least(OpenSlotsOf(n))] = emptyOpenedFile]
          /\ opened_file_count' = opened_file_count - 1
          /\ UNCHANGED <<fat, fd_table, file_count,
                         disk, pending, booting, defined, intact>>
       \/ OpenSlotsOf(n) = {} /\ Undefined

\* The entry read() and write() use for file n: they index the table of open
\* files with the number of the file's descriptor.
EntryIndex(n) == findFileIndexByName(n)
Entry(n) == open_file_fd_table[EntryIndex(n)]

read(n, size) ==
    LET file == fd_table[Entry(n).idx]
        offset == Entry(n).offset
        count == IF offset + size > file.size THEN file.size - offset ELSE size
        hops == offset \div BLOCK_SIZE
        last == (offset + count - 1) \div BLOCK_SIZE
        At(k) == WalkAt(fat, file.starting_block, k)
        outside == \/ \E k \in 0..hops - 1 : At(k) \notin Blocks
                   \/ count > 0 /\ At(hops) \notin Blocks
                   \/ count > 0 /\ \E k \in hops..last : At(k) = FREE_BLOCK
    IN  /\ Ready
        /\ IndicesOf(n) # {}
        /\ \/ EntryIndex(n) \notin OpenSlots /\ Undefined
           \/ /\ EntryIndex(n) \in OpenSlots
              /\ Entry(n).idx # NO_OPENED_FILE
              /\ offset <= file.size
              /\ \/ outside /\ Undefined
                 \/ /\ ~outside
                    /\ open_file_fd_table' = [open_file_fd_table EXCEPT
                           ![EntryIndex(n)].offset = @ + count]
                    /\ UNCHANGED <<fat, fd_table, file_count,
                           opened_file_count, disk, pending,
                           booting, defined, intact>>

\* The second half of write(): copying the bytes along the chain in f, then
\* moving the offset and saving.  `saved` are the writes made so far.
CopyIn(n, size, f, fds, saved) ==
    LET start == fds[Entry(n).idx].starting_block
        offset == Entry(n).offset
        At(k) == WalkAt(f, start, k)
    IN  /\ fat' = f /\ fd_table' = fds
        /\ IF At(offset \div BLOCK_SIZE) = END_OF_CHAIN
           THEN \* FILE_WRITE_EXCEEDS_FILE_SIZE
                /\ pending' = saved
                /\ UNCHANGED <<open_file_fd_table, defined>>
           ELSE /\ open_file_fd_table' = [open_file_fd_table EXCEPT
                       ![EntryIndex(n)].offset = @ + size]
                /\ pending' = saved \o saveToDisk(f, fds, file_count)
                /\ defined' = \A k \in 0..(offset + size - 1) \div BLOCK_SIZE :
                                  At(k) # FREE_BLOCK
        /\ UNCHANGED <<file_count, opened_file_count, disk, booting>>

writeInPlace(n, size) ==
    /\ Entry(n).offset + size <= fd_table[Entry(n).idx].size
    /\ CopyIn(n, size, fat, fd_table, << >>)
    /\ UNCHANGED intact

\* Growing a file: the log goes to disk when the growth starts and again when
\* its first block is known; without enough blocks the growth is taken back in
\* RAM only.
writeExtending(n, size) ==
    LET fd == Entry(n).idx
        start == fd_table[fd].starting_block
        new_size == Entry(n).offset + size
        wanted == BlocksFor(new_size) - BlocksFor(fd_table[fd].size)
        new == firstFreeBlocks(fat, wanted)
        log1 == [in_progress |-> TRUE, file_idx |-> EntryIndex(n),
                 last_valid_block |-> start, first_new_block |-> -1]
        log2 == [log1 EXCEPT !.first_new_block = Least(new)]
        grown == IF new = {} THEN fat
                 ELSE [Link(fat, new) EXCEPT ![LastBlock(fat, start)] = Least(new)]
        log == IF new = {} THEN log1 ELSE log2
        saved == IF new = {} THEN <<Put("log", log1)>>
                 ELSE <<Put("log", log1), Put("log", log2)>>
    IN  /\ new_size > fd_table[fd].size
        /\ \/ new # {} /\ ChainEnd(fat, start) # END_OF_CHAIN /\ Undefined
           \/ /\ new = {} \/ ChainEnd(fat, start) = END_OF_CHAIN
              /\ Cardinality(new) < wanted      \* FILE_WRITE_NO_SPACE
              /\ fat' = transactionRollback(grown, log)
              /\ fd_table' = restoreOriginalFileSize(fd_table, log)
              /\ pending' = saved
              /\ intact' = FALSE
              /\ UNCHANGED <<file_count, open_file_fd_table, opened_file_count,
                             disk, booting, defined>>
           \/ /\ new = {} \/ ChainEnd(fat, start) = END_OF_CHAIN
              /\ Cardinality(new) = wanted
              /\ CopyIn(n, size, grown, [fd_table EXCEPT ![fd].size = new_size],
                        saved)
              /\ UNCHANGED intact

write(n, size) ==
    /\ Ready
    /\ IndicesOf(n) # {}
    /\ \/ EntryIndex(n) \notin OpenSlots /\ Undefined
       \/ /\ EntryIndex(n) \in OpenSlots
          /\ Entry(n).idx # NO_OPENED_FILE
          /\ writeInPlace(n, size) \/ writeExtending(n, size)

\* The slots that delete's last loop closes: its bound shrinks as it goes.
ClosedByDelete(i) ==
    LET M == {s \in OpenSlots : open_file_fd_table[s].idx = i}
    IN  {s \in M : s + Cardinality({r \in M : r < s}) < opened_file_count}

delete_(n) ==
    LET i == findFileIndexByName(n)
        start == fd_table[i].starting_block
    IN  /\ Ready
        /\ IndicesOf(n) # {}
        /\ \/ /\ \/ ChainEnd(fat, start) # END_OF_CHAIN
                 \/ file_count = NUM_FILES  \* fd_table[NUM_FILES] is read
              /\ Undefined
           \/ /\ ChainEnd(fat, start) = END_OF_CHAIN
              /\ file_count < NUM_FILES
              /\ fat' = [b \in Blocks |-> IF b \in Chain(fat, start)
                                          THEN FREE_BLOCK ELSE fat[b]]
              /\ fd_table' = [j \in FileSlots |->
                     IF j < file_count - 1 THEN fd_table[j + 1]
                     ELSE IF j = file_count - 1 THEN emptyFileDescriptor
                     ELSE fd_table[j]]
              /\ file_count' = file_count - 1
              /\ open_file_fd_table' = [s \in OpenSlots |->
                     IF s \in ClosedByDelete(i) THEN emptyOpenedFile
                     ELSE open_file_fd_table[s]]
              /\ opened_file_count' =
                     opened_file_count - Cardinality(ClosedByDelete(i))
              /\ pending' = saveToDisk(fat', fd_table', file_count')
              /\ intact' = (intact /\ i = 0)
              /\ UNCHANGED <<disk, booting, defined>>

-----------------------------------------------------------------------------
(* The disk and the life of the program                                      *)

Flush ==
    /\ defined
    /\ pending # << >>
    /\ disk' = [disk EXCEPT ![Head(pending).file] = Head(pending).value]
    /\ pending' = Tail(pending)
    /\ booting' = (booting /\ Len(pending) > 1)
    /\ UNCHANGED <<ram, defined, intact>>

\* The program dies and is started again: the constructor.
Crash ==
    /\ defined
    /\ fat' = Restored.fat
    /\ fd_table' = Restored.fd_table
    /\ file_count' = Restored.file_count
    /\ open_file_fd_table' = [s \in OpenSlots |-> emptyOpenedFile]
    /\ opened_file_count' = 0
    /\ pending' = saveToDisk(fat', fd_table', file_count')
    /\ booting' = TRUE
    /\ intact' = (intact /\ (pending = << >> \/ booting))
    /\ UNCHANGED <<disk, defined>>

Next ==
    \/ \E n \in Names :
           \/ \E size \in Sizes : create(n, size)
           \/ open(n)
           \/ close(n)
           \/ \E size \in Sizes \ {0} : read(n, size) \/ write(n, size)
           \/ delete_(n)
    \/ Flush
    \/ Crash

Spec == Init /\ [][Next]_vars

-----------------------------------------------------------------------------
(* Properties                                                                *)

Descriptor == [name : Names \cup {NoName}, starting_block : Blocks \cup {-1},
               size : Int]

\* Every field has its type, in RAM; opened_file_count counts the slots in use,
\* although open, close and delete_ each keep it on their own and delete_ shifts
\* the descriptors that they stand for (fs.cpp:118, 136, 327).
TypeOK ==
    /\ fat \in [Blocks -> Blocks \cup {FREE_BLOCK, END_OF_CHAIN}]
    /\ fd_table \in [FileSlots -> Descriptor]
    /\ file_count \in 0..NUM_FILES
    /\ open_file_fd_table \in [OpenSlots -> [idx : FileSlots \cup {-1}, offset : Nat]]
    /\ opened_file_count = Cardinality(OpenSlots \ FreeOpenSlots)
    /\ defined \in BOOLEAN /\ intact \in BOOLEAN /\ booting \in BOOLEAN

\* Following the table from any block comes to an end: the loops over a chain
\* in write, delete_ and the rollback stop, whatever calls and crashes there
\* have been (fs.cpp:238, 311; repair.cpp:15).
ChainsEnd == \A b \in Blocks : ChainEnd(fat, b) \notin Blocks

\* As long as nothing was rolled back, only the first file was ever deleted
\* and no crash fell between two writes to the disk, the files divide up the
\* used blocks: no two files share a block, no used block is lost, each chain
\* ends properly and is long enough for the size of its file, names are unique.
FilesPartitionBlocks ==
    LET C(i) == Chain(fat, fd_table[i].starting_block)
    IN  intact /\ defined =>
        /\ \A i \in Files :
               /\ ChainEnd(fat, fd_table[i].starting_block) = END_OF_CHAIN
               /\ Cardinality(C(i)) >= BlocksFor(fd_table[i].size)
        /\ \A i, j \in Files :
               i # j => /\ C(i) \cap C(j) = {}
                        /\ fd_table[i].name # fd_table[j].name
        /\ Blocks \ Free(fat) = UNION {C(i) : i \in Files}

\* The files: their descriptors, the blocks of each, and the free blocks.
Contents ==
    <<[i \in Files |-> <<fd_table[i], Chain(fat, fd_table[i].starting_block)>>],
      Free(fat)>>

\* As long as no write had to be rolled back, a program that dies between two
\* calls comes back with the files it had: every call that changed them has
\* saved all of them, and the log it leaves calls for no repair.
DurableBetweenCalls ==
    [][Crash /\ intact /\ pending = << >> => UNCHANGED Contents]_vars

\* A program that dies while it is starting up repairs the disk again with the
\* same result (fs.cpp:10-12, 38).
RepairIdempotent ==
    [][Crash /\ booting => UNCHANGED <<fat, fd_table, file_count>>]_vars

\* delete_ removes the descriptor of the file it is given: "shift remaining
\* files in fd_table to fill gap" (readme.md:177-179).
DeleteRemovesNamed ==
    [][\A n \in Names : delete_(n) /\ defined' =>
           \A i \in 0..file_count' - 1 : fd_table'[i].name # n]_vars
=============================================================================
