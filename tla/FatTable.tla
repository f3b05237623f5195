------------------------------ MODULE FatTable ------------------------------
(***************************************************************************)
(* The file allocation table of drivers/fat/fat_table.c: on a disk, behind *)
(* one buffer of one sector (FAT_BUFFERS, FAT_BUFFER_SECTORS) that is      *)
(* written back when another sector is needed or on fatfs_fat_purge.  Any  *)
(* access to the disk may fail.  The sector with the hint (FSINFO) goes    *)
(* through the same buffer.                                                *)
(***************************************************************************)
EXTENDS FatOps

CONSTANTS
  Fat16,      \* the type of the file system is FAT16
  FsInfo,     \* the sector with the hint
  Invalid     \* the address of a buffer without a sector

ASSUME SectorAssumption ==
  /\ Fat16 \in BOOLEAN
  /\ FsInfo \notin Int /\ Invalid \notin Int /\ FsInfo # Invalid

Sector == 0 .. FatSectors - 1
SectorOf(c) == c \div PerSector

VARIABLES
  disk,     \* the table on the disk
  buf,      \* fat_buffers[0]: the address, the entries of that sector, dirty
  hint,     \* next_free_cluster has been set to "unknown"
  op        \* the operation in progress

fatVars == <<disk, buf, hint, op>>

Blank == [c \in Entry |-> 0]
Table(b, d) == [c \in Entry |-> IF SectorOf(c) = b.at THEN b.data[c] ELSE d[c]]
SectorData(s, d) == [c \in Entry |-> IF SectorOf(c) = s THEN d[c] ELSE 0]

fatfs_fat_init == [at |-> Invalid, data |-> Blank, dirty |-> FALSE]

FatInit ==
  /\ disk \in [Entry -> Value] /\ disk[0] # 0 /\ disk[1] # 0
  /\ buf = fatfs_fat_init
  /\ hint = FALSE
  /\ op = Idle

(* fatfs_fat_writeback                                                     *)
Saved == IF buf.dirty THEN Table(buf, disk) ELSE disk

(* fatfs_fat_read_sector, with the accesses that fail.  The buffer is kept *)
(* if it cannot be written back, and given up if the sector cannot be read.*)
(* Faulty forms: no write-back; the address kept after a failed read.      *)
Fetched(s) == [at |-> s, data |-> SectorData(s, Saved), dirty |-> FALSE]
FetchDropsDirty(s, bad) ==
  IF buf.at = s THEN [ok |-> TRUE, buf |-> buf, disk |-> disk]
  ELSE IF "read" \in bad THEN [ok |-> FALSE, buf |-> fatfs_fat_init, disk |-> disk]
  ELSE [ok |-> TRUE, buf |-> [at |-> s, data |-> SectorData(s, disk), dirty |-> FALSE],
        disk |-> disk]
FetchKeepsAddress(s, bad) ==
  IF buf.at = s THEN [ok |-> TRUE, buf |-> buf, disk |-> disk]
  ELSE IF buf.dirty /\ "write" \in bad THEN [ok |-> FALSE, buf |-> buf, disk |-> disk]
  ELSE IF "read" \in bad
  THEN [ok |-> FALSE, buf |-> [fatfs_fat_init EXCEPT !.at = s], disk |-> Saved]
  ELSE [ok |-> TRUE, buf |-> Fetched(s), disk |-> Saved]
Fetch(s, bad) ==
  IF buf.at = s THEN [ok |-> TRUE, buf |-> buf, disk |-> disk]
  ELSE IF buf.dirty /\ "write" \in bad THEN [ok |-> FALSE, buf |-> buf, disk |-> disk]
  ELSE IF "read" \in bad THEN [ok |-> FALSE, buf |-> fatfs_fat_init, disk |-> Saved]
  ELSE [ok |-> TRUE, buf |-> Fetched(s), disk |-> Saved]

Faults == SUBSET {"read", "write"}

(* Reading an entry, and what an operation makes of it.                    *)
Got(f, c) == IF f.ok THEN f.buf.data[c] ELSE FAIL
ReadEntry(c, After(_, _)) ==
  \E bad \in Faults :
    LET f == Fetch(SectorOf(c), bad)
    IN  /\ op' = After(op, Got(f, c))
        /\ buf' = f.buf /\ disk' = f.disk
        /\ UNCHANGED hint

(* fatfs_fat_set_cluster, whose result nobody looks at.                    *)
WithEntry(b, c, v) == [b EXCEPT !.data[c] = v, !.dirty = TRUE]
fatfs_fat_set_cluster(c, v) ==
  \E bad \in Faults :
    LET f == Fetch(SectorOf(c), bad)
    IN  /\ buf' = IF f.ok THEN WithEntry(f.buf, c, v) ELSE f.buf
        /\ disk' = f.disk
        /\ UNCHANGED hint

Start ==
  /\ op = Idle
  /\ \/ op' = NewChain
     \/ \E c \in Data : op' \in {Extend(c), Free(c)} \cup {Grow(c, n) : n \in 1 .. MaxGrow}
  /\ UNCHANGED <<disk, buf, hint>>

(* fatfs_set_fs_info_next_free_cluster, unless the hint is unknown already:*)
(* the sector goes into the buffer, to the disk, and out of the buffer.    *)
(* Faulty form: the buffer is still dirty then.                            *)
HintStaysDirty(b) == [b EXCEPT !.at = Invalid, !.dirty = TRUE]
HintDone(b) == [b EXCEPT !.at = Invalid, !.data = Blank, !.dirty = FALSE]
Hint ==
  /\ op.pc = "hint"
  /\ op' = [op EXCEPT !.pc = "scan"]
  /\ IF Fat16 \/ hint THEN UNCHANGED <<disk, buf, hint>>
     ELSE \E bad \in Faults :
            LET f == Fetch(FsInfo, bad)
            IN  /\ buf' = IF f.ok THEN HintDone(f.buf) ELSE f.buf
                /\ disk' = f.disk
                /\ hint' = f.ok

Scan == op.pc = "scan" /\ ReadEntry(op.cur, Scanned)
Follow == op.pc = "follow" /\ ReadEntry(op.cur, Followed)
Link ==
  /\ op.pc = "link" /\ op' = Linked(op)
  /\ fatfs_fat_set_cluster(op.from, op.new)
End ==
  /\ op.pc = "end" /\ op' = Ended(op)
  /\ fatfs_fat_set_cluster(op.new, LAST)
Look == op.pc = "next" /\ ReadEntry(op.cur, Nexted)
Clear ==
  /\ op.pc = "clear" /\ op' = Cleared(op)
  /\ fatfs_fat_set_cluster(op.cur, 0)

(* fatfs_find_next_cluster, called to walk a chain.                        *)
Walk ==
  /\ op = Idle
  /\ \E c \in Data : ReadEntry(c, LAMBDA o, v : o)

(* A purge that fails leaves everything as it was.  Faulty form: nothing is *)
(* written.                                                                *)
PurgeForgets == IF buf.dirty THEN UNCHANGED disk /\ buf' = [buf EXCEPT !.dirty = FALSE]
                ELSE UNCHANGED <<disk, buf>>
fatfs_fat_purge ==
  IF buf.dirty THEN disk' = Saved /\ buf' = [buf EXCEPT !.dirty = FALSE]
  ELSE UNCHANGED <<disk, buf>>
Purge == op = Idle /\ fatfs_fat_purge /\ UNCHANGED <<hint, op>>

FatNext ==
  \/ Start \/ Hint \/ Scan \/ Follow \/ Link \/ End \/ Look \/ Clear
  \/ Walk \/ Purge

FatSpec == FatInit /\ [][FatNext]_fatVars
-----------------------------------------------------------------------------
(* Types of the variables.                                                 *)
FatTypeOK ==
  /\ disk \in [Entry -> Value]
  /\ buf \in [at : Sector \cup {FsInfo, Invalid}, data : [Entry -> Value],
              dirty : BOOLEAN]
  /\ hint \in BOOLEAN
  /\ op \in Op

(* What waits to be written is a sector of the table: the write-back never *)
(* puts other data on the disk, nor the table at another address.          *)
DirtyIsTable == buf.dirty => buf.at \in Sector

(* A buffer that has not been changed is what the disk holds, so giving it *)
(* up loses nothing.                                                       *)
CleanIsDisk == ~buf.dirty => Table(buf, disk) = disk

(* The cluster that was found blank stays blank until it is linked: it is  *)
(* not handed out twice, whatever is written back and read in between.     *)
BlankUntilLinked ==
  op.pc \in {"follow", "link"} => Table(buf, disk)[op.new] = 0

(* Behind its buffer and with accesses that fail, the table on the disk is *)
(* the map that the operations take it for (fat_table.c:117-195).          *)
FM == INSTANCE FatMap WITH fat <- Table(buf, disk)
ImplementsFatMap == FM!MapSpec

(* A purge that succeeds leaves the disk with the whole table.             *)
PurgeSaves == [][Purge => disk' = Table(buf, disk)]_fatVars
=============================================================================
