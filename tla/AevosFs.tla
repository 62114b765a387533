------------------------------ MODULE AevosFs ------------------------------
(***************************************************************************)
(* The log-structured file system of kernel/fs/aevosfs.c: blocks are only  *)
(* ever taken from the head of the log, a write puts the changed block at  *)
(* a new place and records it, inodes live in memory, and a checkpoint     *)
(* writes them and the superblock.  fs_lock makes each call one step.      *)
(*                                                                         *)
(* A block holds AEVOSFS_BLOCK_SIZE units of data or EntriesPerBlock       *)
(* directory entries, or junk: what was there before the file system, and  *)
(* also log entries and inodes, which take a block each and which no       *)
(* function reads back.  A unit of data is the number of its write.  A     *)
(* call meets at most one failing transfer, of a kind in Faults.  A failing *)
(* write of a directory's new block is not modelled: the code then goes on *)
(* with what is unknown.  A crash loses the memory.                        *)
(*                                                                         *)
(* A name is the sequence of the pieces that resolve_path_internal takes   *)
(* it for: one piece, or several when it is longer than AEVOSFS_MAX_NAME   *)
(* allows.                                                                 *)
(***************************************************************************)
EXTENDS Integers, Sequences, FiniteSets, SequencesExt, FiniteSetsExt

CONSTANTS AEVOSFS_BLOCK_SIZE, AEVOSFS_DIRECT_BLOCKS, AEVOSFS_MAX_INODES,
          EntriesPerBlock, total_blocks, Names, Faults,
          Extents,                \* what is written: pairs of an offset and a size
          MaxIds, MaxWrites, MaxCrashes   \* bounds: inode numbers, writes, crashes

VARIABLES sb,                     \* the superblock in memory
          inode_table, next_inode_id,
          disk, disk_sb,          \* the blocks, and block 0
          mounted,
          writes, crashes,        \* calls of aevosfs_write, and crashes, so far
          written,                \* per inode and offset: the write it was last written by,
                                  \* 0 for none or one that was lost
          created,                \* what aevosfs_create has reported as created
          saved                   \* the same, at the last checkpoint

vars == <<sb, inode_table, next_inode_id, disk, disk_sb, mounted, writes, crashes,
          written, created, saved>>

Index  == 0 .. AEVOSFS_DIRECT_BLOCKS - 1
Units  == 0 .. AEVOSFS_BLOCK_SIZE - 1
Offset == 0 .. AEVOSFS_DIRECT_BLOCKS * AEVOSFS_BLOCK_SIZE - 1
Slots  == 1 .. AEVOSFS_MAX_INODES

NoInode == [id |-> 0, type |-> "FILE", size |-> 0, block_list |-> [b \in Index |-> 0]]
Junk    == [t |-> "junk"]
Data(d) == [t |-> "data", d |-> d]
Dir(e)  == [t |-> "dir", e |-> e]
NoFault == <<"none", 0>>
NoSb    == [valid |-> FALSE, root_inode |-> 0, log_head |-> 0, free_blocks |-> 0]

UnitsOf(c)   == IF c.t = "data" THEN c.d ELSE [u \in Units |-> 0]
EntriesOf(c) == IF c.t = "dir" THEN c.e ELSE << >>

Init == /\ sb = NoSb /\ disk_sb = NoSb
        /\ inode_table = [s \in Slots |-> NoInode] /\ next_inode_id = 1
        /\ disk = [b \in 1 .. total_blocks - 1 |-> Junk]
        /\ mounted = FALSE /\ writes = 0 /\ crashes = 0
        /\ written = [id \in 1 .. MaxIds |-> [o \in Offset |-> 0]]
        /\ created = << >> /\ saved = << >>

(* Mutation: the head of the log stays where it is.                         *)
alloc_block_Stays(s) == IF s.free_blocks = 0 THEN s ELSE [s EXCEPT !.free_blocks = @ - 1]

(* The superblock after the block at the head of the log was taken, and     *)
(* that block, 0 when there is none.                                        *)
alloc_block(s) == IF s.free_blocks = 0 THEN s
                  ELSE [s EXCEPT !.log_head = @ + 1, !.free_blocks = @ - 1]
Allocated(s)   == IF s.free_blocks = 0 THEN 0 ELSE s.log_head

SlotOf(id)   == {s \in Slots : inode_table[s].id = id}
find_inode(id) == IF SlotOf(id) = {} THEN 0 ELSE Min(SlotOf(id))

(* The data blocks of an inode up to the first that is missing.             *)
BlocksOf(ino) == SelectSeq([b \in 1 .. AEVOSFS_DIRECT_BLOCKS |->
                             IF \A c \in 0 .. b - 1 : ino.block_list[c] # 0
                             THEN ino.block_list[b - 1] ELSE 0], LAMBDA b : b # 0)

(* Block bad cannot be read and is passed over; there is none with 0.       *)
aevosfs_list_dir(ino, bad) ==
  LET bl == SelectSeq(BlocksOf(ino), LAMBDA b : b # bad)
  IN FlattenSeq([i \in 1 .. Len(bl) |-> EntriesOf(disk[bl[i]])])

(* One component of a path: the slot of the first entry of that name.       *)
Step(slot, name, bad) ==
  LET es == aevosfs_list_dir(inode_table[slot], bad)
      hits == {i \in 1 .. Len(es) : es[i].name = name}
  IN IF slot = 0 \/ inode_table[slot].type # "DIR" \/ hits = {} THEN 0
     ELSE find_inode(es[Min(hits)].id)

resolve_path_internal(path, bad) ==
  FoldLeft(LAMBDA slot, name : Step(slot, name, bad), find_inode(sb.root_inode), FlattenSeq(path))

-----------------------------------------------------------------------------
(* A block 0 that cannot be read counts as one without a superblock.        *)
aevosfs_mount(readable) ==
  /\ ~mounted /\ mounted' = TRUE
  /\ readable \/ "super" \in Faults
  /\ next_inode_id' = 2
  /\ IF readable /\ disk_sb.valid
     THEN /\ sb' = disk_sb
          /\ inode_table' = [inode_table EXCEPT ![1] = [NoInode EXCEPT !.id = disk_sb.root_inode,
                                                                       !.type = "DIR"]]
          /\ UNCHANGED <<disk, disk_sb, saved>>
     ELSE /\ sb' = [valid |-> TRUE, root_inode |-> 1, log_head |-> 2,
                    free_blocks |-> total_blocks - 2]
          /\ inode_table' = [inode_table EXCEPT ![1] = [NoInode EXCEPT !.id = 1, !.type = "DIR",
                                                                       !.block_list[0] = 1]]
          /\ disk' = [disk EXCEPT ![1] = Dir(<< >>)]
          /\ disk_sb' = sb' /\ saved' = << >>
  /\ UNCHANGED <<writes, crashes, written, created>>

(* The memory is lost; aevosfs_init starts from an empty inode table.       *)
Crash ==
  /\ mounted /\ crashes < MaxCrashes
  /\ mounted' = FALSE /\ crashes' = crashes + 1
  /\ sb' = NoSb /\ inode_table' = [s \in Slots |-> NoInode] /\ next_inode_id' = 1
  /\ written' = [id \in 1 .. MaxIds |-> [o \in Offset |-> 0]] /\ created' = << >>
  /\ UNCHANGED <<disk, disk_sb, writes, saved>>

Entered(es, e) == Append(es, e)

(* add_dir_entry: the entry goes into the first block that can be read and  *)
(* has room, else into a new block.  The result says whether that worked.   *)
add_dir_entry(slot, e, failing, bad) ==
  LET ino  == inode_table[slot]
      bl   == BlocksOf(ino)
      room == {i \in 1 .. Len(bl) : bl[i] # bad /\ Len(EntriesOf(disk[bl[i]])) < EntriesPerBlock}
      b    == bl[Min(room)]
      new  == Allocated(sb)
  IN IF room # {}
     THEN [ok |-> ~failing, sb |-> sb, ino |-> ino,
           disk |-> IF failing THEN disk
                    ELSE [disk EXCEPT ![b] = Dir(Entered(EntriesOf(@), e))]]
     ELSE IF Len(bl) = AEVOSFS_DIRECT_BLOCKS \/ new = 0
     THEN [ok |-> FALSE, sb |-> sb, ino |-> ino, disk |-> disk]
     ELSE [ok |-> TRUE, sb |-> alloc_block(sb),
           ino |-> [ino EXCEPT !.block_list[Len(bl)] = new],
           disk |-> [disk EXCEPT ![new] = Dir(<< e >>)]]

(* aevosfs_create does not look whether the name exists, and cuts it to one *)
(* piece.                                                                   *)
aevosfs_create(path, name, type, failing, bad) ==
  LET p    == resolve_path_internal(path, bad)
      free == {s \in Slots : inode_table[s].id = 0}
      r    == add_dir_entry(p, [name |-> name[1], id |-> next_inode_id, type |-> type],
                            failing, bad)
  IN /\ mounted /\ next_inode_id <= MaxIds
     /\ failing => "dir" \in Faults /\ bad = 0
     /\ bad # 0 => "dirread" \in Faults
     /\ p # 0 /\ inode_table[p].type = "DIR" /\ free # {}
     /\ next_inode_id' = next_inode_id + 1
     /\ sb' = r.sb /\ disk' = r.disk
     /\ inode_table' = [inode_table EXCEPT
                          ![p] = r.ino,
                          ![Min(free)] = IF r.ok THEN [NoInode EXCEPT !.id = next_inode_id,
                                                                      !.type = type]
                                         ELSE NoInode]
     /\ created' = IF r.ok THEN Append(created, [dir |-> inode_table[p].id, name |-> name[1],
                                                 id |-> next_inode_id, bad |-> bad]) ELSE created
     /\ UNCHANGED <<disk_sb, mounted, writes, crashes, written, saved>>

-----------------------------------------------------------------------------
(* A block with n units from bo on replaced by those of write w.            *)
Merged(old, bo, n, w) == [u \in Units |-> IF u >= bo /\ u < bo + n THEN w ELSE UnitsOf(old)[u]]

(* One round of the loop of aevosfs_write.  st has the superblock, the      *)
(* disk, the block list and the units done so far; stop is set by an early  *)
(* return.  The fault is that in round fault[2] the data block cannot be    *)
(* written or, in a partial write, the old one cannot be read, which turns  *)
(* the rest of the block to zeros.  The block of the log entry is taken if  *)
(* there is one; nothing depends on its writing.                            *)
Round(st, k, offset, size, w, fault) ==
  LET pos == offset + st.done
      bi  == pos \div AEVOSFS_BLOCK_SIZE
      bo  == pos % AEVOSFS_BLOCK_SIZE
      n   == Min({AEVOSFS_BLOCK_SIZE - bo, size - st.done})
      s1  == IF st.bl[bi] = 0 THEN alloc_block(st.sb) ELSE st.sb
      b1  == IF st.bl[bi] = 0 THEN Allocated(st.sb) ELSE st.bl[bi]
      bl1 == [st.bl EXCEPT ![bi] = b1]
      b2  == Allocated(s1)
      s2  == alloc_block(s1)
      partial == bo # 0 \/ size - st.done < AEVOSFS_BLOCK_SIZE
      unread  == partial /\ fault = <<"read", k>>
      d2  == [st.disk EXCEPT ![b2] = Data(Merged(IF unread THEN Junk ELSE st.disk[b1], bo, n, w))]
  IN IF st.stop \/ st.done = size THEN st
     ELSE IF bi \notin Index \/ b1 = 0 THEN [st EXCEPT !.stop = TRUE]
     ELSE IF b2 = 0 THEN [st EXCEPT !.stop = TRUE, !.sb = s1, !.bl = bl1]
     ELSE IF fault = <<"data", k>> THEN [st EXCEPT !.stop = TRUE, !.sb = s2, !.bl = bl1]
     ELSE [st EXCEPT !.sb = alloc_block(s2), !.bl = [bl1 EXCEPT ![bi] = b2], !.done = @ + n,
                     !.disk = d2,
                     !.lost = @ \cup {o \in Offset : unread /\ o \div AEVOSFS_BLOCK_SIZE = bi}]

(* aevosfs_write: an early return leaves the size as it was.                *)
aevosfs_write(slot, offset, size, fault) ==
  LET w   == writes + 1
      ino == inode_table[slot]
      st  == FoldLeft(LAMBDA s, k : Round(s, k, offset, size, w, fault),
                      [sb |-> sb, disk |-> disk, bl |-> ino.block_list, done |-> 0, stop |-> FALSE,
                       lost |-> {}],
                      [k \in 1 .. size |-> k])
      end == offset + st.done
  IN /\ mounted /\ writes < MaxWrites
     /\ ino.id # 0 /\ ino.type = "FILE"
     /\ fault = NoFault \/ fault[1] \in Faults
     /\ writes' = w
     /\ sb' = st.sb /\ disk' = st.disk
     /\ inode_table' = [inode_table EXCEPT
                          ![slot].block_list = st.bl,
                          ![slot].size = IF ~st.stop /\ end > @ THEN end ELSE @]
     /\ written' = [written EXCEPT ![ino.id] =
                      [o \in Offset |-> IF o >= offset /\ o < end THEN w
                                         ELSE IF o \in st.lost THEN 0 ELSE @[o]]]
     /\ UNCHANGED <<next_inode_id, disk_sb, mounted, crashes, created, saved>>

(* The unit at an offset; 0 when the read ends before it.                   *)
aevosfs_read(ino, offset) ==
  LET blk == ino.block_list[offset \div AEVOSFS_BLOCK_SIZE]
  IN IF offset >= ino.size \/ blk = 0 THEN 0
     ELSE UnitsOf(disk[blk])[offset % AEVOSFS_BLOCK_SIZE]

(* aevosfs_checkpoint: a block per inode, then the superblock; the writing  *)
(* of inode number `upto' fails unless that is past the last.               *)
aevosfs_checkpoint(upto) ==
  LET live == Cardinality({s \in Slots : inode_table[s].id # 0})
      tried == IF upto <= live THEN upto ELSE live
      n == Min({tried, sb.free_blocks})
      ok == n = live /\ upto > live
  IN /\ mounted
     /\ upto \in 1 .. live + 1 /\ (upto <= live => "data" \in Faults)
     /\ sb' = [sb EXCEPT !.log_head = @ + n, !.free_blocks = @ - n]
     /\ disk_sb' = IF ok THEN sb' ELSE disk_sb
     /\ saved' = IF ok THEN created ELSE saved
     /\ UNCHANGED <<inode_table, next_inode_id, disk, mounted, writes, crashes, written, created>>

DirBlocks == UNION {Range(BlocksOf(inode_table[s])) : s \in {t \in Slots : inode_table[t].type = "DIR"}}

Next ==
  \/ \E readable \in BOOLEAN : aevosfs_mount(readable)
  \/ Crash
  \/ \E path \in {<< >>} \cup {<<n>> : n \in Names}, name \in Names, type \in {"FILE", "DIR"},
        failing \in BOOLEAN, bad \in {0} \cup DirBlocks : aevosfs_create(path, name, type, failing, bad)
  \/ \E slot \in Slots, e \in Extents, fault \in {NoFault} \cup ({"data", "read"} \X (1 .. 2)) :
        aevosfs_write(slot, e[1], e[2], fault)
  \/ \E upto \in 1 .. AEVOSFS_MAX_INODES + 1 : aevosfs_checkpoint(upto)

Spec == Init /\ [][Next]_vars

-----------------------------------------------------------------------------
(* Whatever was written reads back: each unit inside the size of a file is  *)
(* from the last write that covered it, through partial writes, writes that *)
(* stop early and the moves of blocks; excepted are units that a failing    *)
(* read in a partial write has turned to zero.                              *)
ReadsBack ==
  \A s \in Slots : inode_table[s].id # 0 =>
    \A o \in Offset : (written[inode_table[s].id][o] # 0 /\ o < inode_table[s].size) =>
      aevosfs_read(inode_table[s], o) = written[inode_table[s].id][o]

(* No block belongs to two places of files and directories, each was taken  *)
(* from the log, and taken and free blocks make up the device.              *)
BlocksOnce ==
  LET used == {p \in Slots \X Index : inode_table[p[1]].block_list[p[2]] # 0}
      blk(p) == inode_table[p[1]].block_list[p[2]]
  IN mounted => /\ \A p, q \in used : blk(p) = blk(q) => p = q
                /\ \A p \in used : blk(p) \in 1 .. sb.log_head - 1
                /\ sb.log_head + sb.free_blocks = total_blocks

(* Directories list what was created in them, each once, in order, and a    *)
(* name resolves to the first inode created under it.  In a directory with  *)
(* a block that could not be read when something was created the order may  *)
(* differ, and a name resolves to some inode that was created under it.     *)
(* Names count as cut.                                                      *)
NamesResolve ==
  \A s \in Slots : inode_table[s].id # 0 /\ inode_table[s].type = "DIR" =>
    LET mine == SelectSeq(created, LAMBDA c : c.dir = inode_table[s].id)
        es   == aevosfs_list_dir(inode_table[s], 0)
        whole == \A i \in DOMAIN mine : mine[i].bad = 0
        Ids(q) == [i \in 1 .. Len(q) |-> q[i].id]
        First(i) == \A j \in 1 .. i - 1 : mine[j].name # mine[i].name
    IN /\ Len(es) = Len(mine) /\ Range(Ids(es)) = Range(Ids(mine))
       /\ whole => Ids(es) = Ids(mine)
       /\ \A i \in DOMAIN mine :
            \E j \in DOMAIN mine :
              /\ mine[j].name = mine[i].name /\ (whole => First(j))
              /\ Step(s, mine[i].name, 0) = find_inode(mine[j].id) /\ find_inode(mine[j].id) # 0

(* What a mounted volume promises of data, blocks and names.                *)
VolumeExact == ReadsBack /\ BlocksOnce /\ NamesResolve

(* A mount that finds a superblock brings back the root directory: the      *)
(* names in it at the last checkpoint resolve.                              *)
RootRebuilt ==
  mounted /\ disk_sb.valid /\ crashes > 0 /\ created = << >> =>
    \A i \in 1 .. Len(saved) : saved[i].dir = sb.root_inode
                                 => resolve_path_internal(<< <<saved[i].name>> >>, 0) # 0
============================================================================
