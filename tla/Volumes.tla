------------------------------- MODULE Volumes -------------------------------
(***************************************************************************)
(* The volumes on the block device: kernel/fs/storage_automount.c, which   *)
(* looks for them, kernel/fs/fs_ext4.c, which reads one of them, and       *)
(* tools/mkfs_aevos.c, which writes the disk image with its volumes.       *)
(***************************************************************************)
EXTENDS Integers, FiniteSets, SequencesExt, FiniteSetsExt

(* kernel/fs/storage_automount.c: looking for a FAT32, an ext4 and an NTFS  *)
(* volume on the block device, at its start or through the MBR partition    *)
(* table (probe_partition, ext4_try_mount with probe_mbr, probe_ntfs).      *)
(*                                                                          *)
(* A sector is what the probes tell apart: its signature, which boot        *)
(* sector it is, the entries of its partition table (in the boot sector of  *)
(* a partition, whatever its boot code is), and the superblock that lies    *)
(* 1024 bytes behind its start: that of an ext4 volume, or of one whose     *)
(* root cannot be read or has no extents of depth 0, as with ext2 and ext3, *)
(* or none.  A buffer is a sector too.                                      *)
CONSTANTS Tables,                 \* partition tables in sector 0: Seqs of [typ, lba]
          Code,                   \* what other boot sectors have in their place
          Supers                  \* the superblocks: [sectors -> "ext4", "other" or "none"]

VARIABLES disk,                   \* [sectors -> contents]
          unreadable,             \* the sectors that cannot be read
          mounts                  \* [file systems mounted -> [lba, live]]

mountvars == <<disk, unreadable, mounts>>

Lbas  == 0 .. 2
Boots == {"none", "fat", "ntfs"}

DiskInit ==
  /\ \E t \in Tables, c \in Code, sig \in BOOLEAN, b \in [Lbas -> Boots], sb \in Supers :
       disk = [l \in Lbas |-> [sig   |-> IF l = 0 THEN sig ELSE b[l] # "none",
                               boot  |-> b[l], table |-> IF l = 0 THEN t ELSE c,
                               super |-> sb[l]]]
  /\ unreadable \in {{}} \cup {{l} : l \in Lbas}
  /\ mounts = << >>

Readable(lba) == lba \in Lbas \ unreadable

parse_fat32_bpb(sec) == sec.boot = "fat"

(* The protective table of a GPT disk has type 0xEE in its first entry.     *)
IsMbr(sec) == sec.sig /\ sec.table[1].typ # "gpt"

(* Mutation: a sector that could not be parsed is mounted.                  *)
Accepted_Always(sec) == TRUE

Accepted(sec) == parse_fat32_bpb(sec)

(* From entry i on.  The candidate is read over the buffer that holds the   *)
(* table; the entries after it are read from there.  Without a hit, the     *)
(* buffer is parsed as sector 0.                                            *)
RECURSIVE FatScan(_, _)
FatScan(sec, i) ==
  IF i > Len(sec.table) THEN IF parse_fat32_bpb(sec) THEN {0} ELSE {}
  ELSE LET e == sec.table[i] IN
       IF e.typ # "fat" \/ ~Readable(e.lba) THEN FatScan(sec, i + 1)
       ELSE IF Accepted(disk[e.lba]) THEN {e.lba}
       ELSE FatScan(disk[e.lba], i + 1)

(* The partitions that the probes find: none or one.                        *)
probe_partition ==
  IF ~Readable(0) THEN {}
  ELSE IF IsMbr(disk[0]) THEN FatScan(disk[0], 1)
  ELSE IF parse_fat32_bpb(disk[0]) THEN {0} ELSE {}

read_super(lba) == Readable(lba) /\ disk[lba].super # "none"

(* The table stays in its own buffer.                                       *)
probe_mbr ==
  LET hits == {i \in DOMAIN disk[0].table : LET l == disk[0].table[i].lba IN l # 0 /\ read_super(l)}
  IN IF ~Readable(0) \/ ~disk[0].sig \/ hits = {} THEN {}
     ELSE {disk[0].table[CHOOSE i \in hits : \A j \in hits : i <= j].lba}

(* The search ends with the first superblock, also when its root is refused. *)
ext4_try_mount ==
  {l \in IF read_super(0) THEN {0} ELSE probe_mbr : disk[l].super = "ext4"}

boot_is_ntfs(sec) == sec.boot = "ntfs"

RECURSIVE NtfsScan(_, _)
NtfsScan(sec, i) ==
  IF i > Len(sec.table) THEN {}
  ELSE LET e == sec.table[i] IN
       IF e.typ # "ntfs" \/ ~Readable(e.lba) THEN NtfsScan(sec, i + 1)
       ELSE IF boot_is_ntfs(disk[e.lba]) THEN {e.lba}
       ELSE NtfsScan(disk[e.lba], i + 1)

probe_ntfs ==
  IF ~Readable(0) THEN {}
  ELSE IF boot_is_ntfs(disk[0]) THEN {0}
  ELSE IF disk[0].sig THEN NtfsScan(disk[0], 1) ELSE {}

(* The three mounts.  If the node of its root cannot be allocated, a volume *)
(* stays mounted although its context is freed.                             *)
storage_automount_all(nomem) ==
  LET found(fs) == CASE fs = "fat"  -> probe_partition
                     [] fs = "ext4" -> ext4_try_mount
                     [] fs = "ntfs" -> probe_ntfs
      fss == {fs \in {"fat", "ext4", "ntfs"} : found(fs) # {}}
  IN /\ mounts = << >> /\ fss # {}
     /\ mounts' = [fs \in fss |-> [lba |-> CHOOSE l \in found(fs) : TRUE, live |-> fs \notin nomem]]
     /\ UNCHANGED <<disk, unreadable>>

MountNext == \E nomem \in {{}, {"fat"}} : storage_automount_all(nomem)

-----------------------------------------------------------------------------
(* The entries of the table in sector 0 that name a volume, in order.       *)
Wanted(typs) == SelectSeq(disk[0].table, LAMBDA e : e.typ \in typs)

(* Sector 0 and the partitions, in order, where there is a superblock.      *)
WithSuper == SelectSeq(<<0>> \o [i \in DOMAIN disk[0].table |-> disk[0].table[i].lba],
                       LAMBDA l : disk[l].super # "none")

(* What is mounted is a volume of its kind and starts where it was found,   *)
(* although candidates are read over the partition table.  A FAT32 or NTFS  *)
(* partition that comes first of its type in the table is mounted, and so   *)
(* is an ext4 partition wherever it is, unless a volume before it has a     *)
(* superblock and a root that ext4_try_mount refuses.                       *)
MountsVolumes ==
  mounts # << >> =>
    LET At(fs) == IF fs \in DOMAIN mounts THEN {mounts[fs].lba} ELSE {}
        fat  == Wanted({"fat"})
        ntfs == Wanted({"ntfs"})
    IN /\ \A l \in At("fat")  : disk[l].boot = "fat"
       /\ \A l \in At("ntfs") : disk[l].boot = "ntfs"
       /\ \A l \in At("ext4") : disk[l].super = "ext4"
       /\ unreadable = {} =>
            /\ IsMbr(disk[0]) /\ fat # << >> /\ disk[fat[1].lba].boot = "fat" => At("fat") = {fat[1].lba}
            /\ ~IsMbr(disk[0]) \/ fat = << >> =>
                 At("fat") = IF disk[0].boot = "fat" THEN {0} ELSE {}
            /\ disk[0].sig /\ ntfs # << >> /\ disk[ntfs[1].lba].boot = "ntfs" /\ disk[0].boot # "ntfs"
                 => At("ntfs") = {ntfs[1].lba}
            /\ disk[0].sig /\ WithSuper # << >> =>
                 At("ext4") = {l \in {WithSuper[1]} : disk[l].super = "ext4"}

-----------------------------------------------------------------------------
(* kernel/fs/fs_ext4.c: reading an ext4 volume.  Inodes are found through   *)
(* the group descriptors, a file or directory through the first extent of   *)
(* its inode; every access goes through read_bytes, a sector at a time.     *)
(*                                                                          *)
(* The device is a sequence of words: SectorWords of them in a sector,      *)
(* block_size in a block, inode_size in an inode and one in a group         *)
(* descriptor.  The first word of an inode and of a directory block stands  *)
(* for the whole of it.  Root is the inode 2.                               *)
CONSTANTS SectorWords, block_size, inode_size, inodes_per_group,
          Volumes,                \* the volumes on the device
          Names, MaxSize, Sectors \* names looked up; bound: words read; sectors that may fail

(* A volume has part_lba, first_data_block, itable (a block per group),     *)
(* inodes: [ino -> [dir, size, extents]], an extent being [block, len], and *)
(* entries: [block of a directory -> Seq of [ino, name, dir]].              *)
VARIABLES vol, badsec,            \* the volume; the sectors that cannot be read
          node,                   \* the node in use
          answer                  \* what the last call returned

ext4vars == <<vol, badsec, node, answer>>

NoNode  == [inode |-> 0]
Failed  == [op |-> "failed"]
Data(b, k) == [op |-> "data", block |-> b, word |-> k]

(* The word at an address: what the format puts there.                      *)
Start(b) == vol.part_lba * SectorWords + b * block_size

Word(a) ==
  LET gds    == {g \in DOMAIN vol.itable : a = Start(vol.first_data_block + 1) + (g - 1)}
      inos   == {n \in DOMAIN vol.inodes :
                   a = Start(vol.itable[((n - 1) \div inodes_per_group) + 1])
                         + ((n - 1) % inodes_per_group) * inode_size}
      dirs   == {b \in DOMAIN vol.entries : a = Start(b)}
      rel    == a - Start(0)
  IN IF gds # {} THEN [op |-> "gd", itable |-> vol.itable[CHOOSE g \in gds : TRUE]]
     ELSE IF inos # {} THEN [op |-> "inode", i |-> vol.inodes[CHOOSE n \in inos : TRUE]]
     ELSE IF dirs # {} THEN [op |-> "dir", entries |-> vol.entries[CHOOSE b \in dirs : TRUE]]
     ELSE Data(rel \div block_size, rel % block_size)

(* A sector at a time, from the first address to the end of it.             *)
RECURSIVE read_bytes(_, _)
read_bytes(a, len) ==
  LET lba  == a \div SectorWords
      o    == a % SectorWords
      take == IF SectorWords - o > len THEN len ELSE SectorWords - o
      rest == read_bytes(a + take, len - take)
  IN IF len = 0 THEN << >>
     ELSE IF lba \in badsec THEN <<Failed>>
     ELSE [k \in 1 .. take |-> Word(lba * SectorWords + o + k - 1)] \o rest

Ok(words) == Failed \notin Range(words)

InodeIndex(ino) == IF ino > 0 THEN ino - 1 ELSE 0

read_inode_raw(ino) ==
  LET idx == InodeIndex(ino)
      g   == idx \div inodes_per_group
      gd  == read_bytes(vol.part_lba * SectorWords
                          + (vol.first_data_block + 1) * block_size + g, 1)
      at  == vol.part_lba * SectorWords + gd[1].itable * block_size
               + (idx % inodes_per_group) * inode_size
  IN IF ~Ok(gd) THEN <<Failed>> ELSE read_bytes(at, inode_size)

(* The data of an inode: only its first extent is used, and an inode with   *)
(* none, as an empty file has, is no node.                                  *)
extent_root(ino, ft, raw) ==
  IF ~Ok(raw) \/ raw[1].op # "inode" THEN NoNode
  ELSE IF raw[1].i.extents = << >> THEN NoNode
  ELSE [inode |-> ino, size |-> raw[1].i.size, is_dir |-> ft,
        data_block0 |-> raw[1].i.extents[1].block, ee_len |-> raw[1].i.extents[1].len]

Block(b) == read_bytes(vol.part_lba * SectorWords + b * block_size, block_size)

Entries(b) == LET w == Block(b) IN IF Ok(w) /\ w[1].op = "dir" THEN w[1].entries ELSE << >>

(* The first entry in use with this name; entries with inode 0 are deleted. *)
parse_dir_block(b, name) ==
  LET es   == Entries(b)
      hits == {i \in DOMAIN es : es[i].ino # 0 /\ es[i].name = name}
  IN IF hits = {} THEN NoNode
     ELSE LET e == es[CHOOSE i \in hits : \A j \in hits : i <= j]
          IN extent_root(e.ino, e.dir, read_inode_raw(e.ino))

(* The entries of a block that a listing shows, with the sizes of the       *)
(* inodes; the size is 0 when the inode cannot be read.                     *)
walk_dir_all(b) ==
  LET shown == SelectSeq(Entries(b), LAMBDA e : e.ino # 0 /\ e.name \notin {".", ".."})
      SizeOf(ino) == LET raw == read_inode_raw(ino)
                   IN IF Ok(raw) /\ raw[1].op = "inode" THEN raw[1].i.size ELSE 0
  IN [i \in DOMAIN shown |-> [name |-> shown[i].name, dir |-> shown[i].dir,
                              inode |-> shown[i].ino, size |-> SizeOf(shown[i].ino)]]

-----------------------------------------------------------------------------
Root == extent_root(2, TRUE, read_inode_raw(2))

Ext4Init == /\ vol \in Volumes /\ badsec = {} /\ node = Root /\ answer = << >>

(* The node of the mount, read when the volume was mounted.                 *)
Root0 == [inode |-> 2, size |-> vol.inodes[2].size, is_dir |-> TRUE,
          data_block0 |-> vol.inodes[2].extents[1].block, ee_len |-> vol.inodes[2].extents[1].len]

(* In the directory parent, block after block; a path starts at the root.   *)
ext4_lookup(parent, name) ==
  LET Found(n, i) == IF n # NoNode THEN n ELSE parse_dir_block(parent.data_block0 + i - 1, name)
      found == FoldLeft(Found, NoNode, [i \in 1 .. parent.ee_len |-> i])
  IN /\ parent.is_dir
     /\ node' = IF found = NoNode THEN node ELSE found
     /\ answer' = [op |-> "lookup", dir |-> parent.inode, name |-> name, found |-> found]
     /\ UNCHANGED <<vol, badsec>>

Remaining(size, offset, n) ==
  IF offset >= size THEN 0 ELSE IF n > size - offset THEN size - offset ELSE n

ext4_read(offset, size) ==
  LET n == Remaining(node.size, offset, size)
      w == read_bytes(vol.part_lba * SectorWords + node.data_block0 * block_size + offset, n)
  IN /\ ~node.is_dir
     /\ answer' = [op |-> "read", offset |-> offset, size |-> size, words |-> w]
     /\ UNCHANGED <<vol, badsec, node>>

ext4_readdir(max) ==
  LET all == FlattenSeq([i \in 1 .. node.ee_len |-> walk_dir_all(node.data_block0 + i - 1)])
  IN /\ node.is_dir
     /\ answer' = [op |-> "readdir", max |-> max, words |-> SubSeq(all, 1, Min({Len(all), max}))]
     /\ UNCHANGED <<vol, badsec, node>>

BreakSector(s) == /\ badsec = {} /\ badsec' = {s} /\ UNCHANGED <<vol, node, answer>>

(* The caller takes the answer before it makes the next call.               *)
TakeAnswer == answer # << >> /\ answer' = << >> /\ UNCHANGED <<vol, badsec, node>>

Ext4Next ==
  \/ /\ answer = << >>
     /\ \/ \E parent \in {Root0, node}, name \in Names : ext4_lookup(parent, name)
        \/ \E offset \in 0 .. MaxSize, size \in 1 .. MaxSize : ext4_read(offset, size)
        \/ \E max \in 1 .. 3 : ext4_readdir(max)
        \/ \E s \in Sectors : BreakSector(s)
  \/ TakeAnswer

-----------------------------------------------------------------------------
(* The word k of a file through the extents of its inode.                   *)
FileWord(i, k) ==
  LET Before(j) == FoldLeft(LAMBDA a, e : a + e.len, 0, SubSeq(i.extents, 1, j - 1))
      j == CHOOSE e \in DOMAIN i.extents :
             Before(e) * block_size <= k /\ k < (Before(e) + i.extents[e].len) * block_size
      r == k - Before(j) * block_size
  IN Data(i.extents[j].block + (r \div block_size), r % block_size)

(* The entries in use of a directory of one extent, in order.               *)
InUse(ino) ==
  LET x == vol.inodes[ino].extents[1]
  IN FlattenSeq([i \in 1 .. x.len |->
       SelectSeq(vol.entries[x.block + i - 1], LAMBDA e : e.ino # 0)])

Shown(ino) ==
  LET es == SelectSeq(InUse(ino), LAMBDA e : e.name \notin {".", ".."})
  IN [i \in DOMAIN es |-> [name |-> es[i].name, dir |-> es[i].dir, inode |-> es[i].ino,
                           size |-> vol.inodes[es[i].ino].size]]

(* A name is found exactly when an entry in use has it and its inode has    *)
(* data.                                                                    *)
LookupExact ==
  LET hits == {i \in DOMAIN InUse(answer.dir) : InUse(answer.dir)[i].name = answer.name}
      e    == InUse(answer.dir)[CHOOSE i \in hits : TRUE]
  IN IF hits = {} THEN answer.found = NoNode
     ELSE IF vol.inodes[e.ino].extents = << >> THEN answer.found = NoNode
     ELSE /\ answer.found.inode = e.ino
          /\ answer.found.is_dir = vol.inodes[e.ino].dir
          /\ answer.found.size = vol.inodes[e.ino].size

ReadExact ==
  LET i == vol.inodes[node.inode]
  IN \/ Len(i.extents) > 1
     \/ badsec # {} /\ ~Ok(answer.words)
     \/ answer.words = [k \in 1 .. Remaining(i.size, answer.offset, answer.size) |->
                          FileWord(i, answer.offset + k - 1)]

ListExact == answer.words = SubSeq(Shown(node.inode), 1, Min({Len(Shown(node.inode)), answer.max}))

(* What a call returns is what the volume holds, wherever the partition,    *)
(* the inode tables and the data lie and however a read falls on sectors:   *)
(* the node of the entry in use with a name, the entries in use in their    *)
(* order, and the words that the inode's extent maps.  A sector that cannot *)
(* be read makes a read fail and never return other words.  Files of        *)
(* several extents are left out of reads: the code goes on behind the       *)
(* first extent.                                                            *)
Ext4ReturnsVolume ==
  answer # << >> =>
    CASE answer.op = "lookup"  -> badsec = {} => LookupExact
      [] answer.op = "read"    -> ReadExact
      [] answer.op = "readdir" -> badsec = {} => ListExact

-----------------------------------------------------------------------------
(* tools/mkfs_aevos.c: writing the disk image.  The image is a function     *)
(* from sectors to what they hold, zero at first; the steps of main write   *)
(* the partition tables, the FAT32 system partition with its files and the  *)
(* superblock of the data partition, in this order, each over what is       *)
(* there.                                                                   *)
(*                                                                          *)
(* A sector of a FAT holds FatEntries entries (128 in the code) and a file  *)
(* is measured in sectors.  The sizes of the parts are constants; the       *)
(* expressions that place them are those of the code.                       *)
CONSTANTS EFI_PART_START_LBA, EspSectors, GPT_ENTRIES_SECTORS, Reserved,
          FAT32_SECTORS_PER_CLUSTER, FatEntries,
          Totals,       \* sectors of the disk
          Sizes         \* sectors of a file given to the tool

GPT_HEADER_LBA  == 1
GPT_ENTRIES_LBA == 2
JsonSectors     == 1
EOC             == 0 - 1
Zero            == [is |-> "zero"]

VARIABLES total_sectors, files,       \* the arguments: boot, kernel and model
          img,                        \* the sectors written
          dirents, next_cluster,      \* the root directory; the next free cluster
          pc

imgvars == <<total_sectors, files, img, dirents, next_cluster, pc>>

Write(m, lba, v) == [s \in DOMAIN m \cup {lba} |-> IF s = lba THEN v ELSE m[s]]
Written(m, lba, vs) == [s \in DOMAIN m \cup {lba + i - 1 : i \in DOMAIN vs} |->
                          IF s - lba + 1 \in DOMAIN vs THEN vs[s - lba + 1] ELSE m[s]]
Sector(m, s) == IF s \in DOMAIN m THEN m[s] ELSE Zero

esp_end    == EFI_PART_START_LBA + EspSectors - 1
data_start == esp_end + 1
data_end   == total_sectors - GPT_ENTRIES_SECTORS - 2

(* fat_size, the sectors of a FAT, and where the FATs and the clusters are. *)
fat_size        == Max({1, (EspSectors + FatEntries - 1) \div FatEntries})
Fat(k)          == EFI_PART_START_LBA + Reserved + k * fat_size
ClusterLba(c)   == EFI_PART_START_LBA + Reserved + 2 * fat_size
                     + (c - 2) * FAT32_SECTORS_PER_CLUSTER

(* An entry of both FATs; a sector of a FAT is a function to its entries.   *)
SetEntry(m, k, c, v) ==
  LET s   == Fat(k) + (c \div FatEntries)
      old == IF Sector(m, s) = Zero THEN [i \in 0 .. FatEntries - 1 |-> 0] ELSE Sector(m, s).fat
  IN Write(m, s, [is |-> "fat", fat |-> [old EXCEPT ![c % FatEntries] = v]])

SetBoth(m, c, v) == SetEntry(SetEntry(m, 0, c, v), 1, c, v)

Clusters(n) == (n + FAT32_SECTORS_PER_CLUSTER - 1) \div FAT32_SECTORS_PER_CLUSTER

RECURSIVE Chain(_, _, _, _)
Chain(m, first, n, c) ==
  IF c = n THEN m
  ELSE Chain(SetBoth(m, first + c, IF c = n - 1 THEN EOC ELSE first + c + 1), first, n, c + 1)

Advance(n) == next_cluster + Clusters(n)

-----------------------------------------------------------------------------
MkImageInit ==
  /\ total_sectors \in Totals
  /\ files \in [boot : Sizes, kernel : Sizes, model : Sizes \cup {EOC}]
  /\ img = << >> /\ dirents = << >> /\ next_cluster = 3 /\ pc = "mbr"

write_protective_mbr ==
  /\ pc = "mbr" /\ pc' = "gpt"
  /\ img' = Write(img, 0, [is |-> "mbr", start |-> 1, size |-> total_sectors - 1])
  /\ UNCHANGED <<total_sectors, files, dirents, next_cluster>>

Table(i) == [is |-> "entries", part |-> i,
             esp  |-> <<EFI_PART_START_LBA, esp_end>>, data |-> <<data_start, data_end>>]

Header(my, other, entries) ==
  [is |-> "gpt", my_lba |-> my, alternate_lba |-> other, partition_entry_lba |-> entries,
   first_usable_lba |-> GPT_ENTRIES_LBA + GPT_ENTRIES_SECTORS,
   last_usable_lba |-> total_sectors - GPT_ENTRIES_SECTORS - 2]

(* The header and the entries, and at the end of the disk the backup.       *)
write_gpt ==
  LET backup_lba == total_sectors - 1
      backup_entries_lba == backup_lba - GPT_ENTRIES_SECTORS
      entries == [i \in 1 .. GPT_ENTRIES_SECTORS |-> Table(i)]
      m1 == Write(img, GPT_HEADER_LBA, Header(GPT_HEADER_LBA, backup_lba, GPT_ENTRIES_LBA))
      m2 == Written(Written(m1, GPT_ENTRIES_LBA, entries), backup_entries_lba, entries)
  IN /\ pc = "gpt" /\ pc' = "esp"
     /\ img' = Write(m2, backup_lba, Header(backup_lba, GPT_HEADER_LBA, backup_entries_lba))
     /\ UNCHANGED <<total_sectors, files, dirents, next_cluster>>

(* write_fat32_esp up to the files: the boot sector, the first entries of   *)
(* the FATs and the volume label.                                           *)
write_esp_tables ==
  LET m == Write(img, EFI_PART_START_LBA,
                 [is |-> "bpb", hidden |-> EFI_PART_START_LBA, total |-> EspSectors,
                  reserved |-> Reserved, fat_size_32 |-> fat_size, num_fats |-> 2,
                  root_cluster |-> 2, sectors_per_cluster |-> FAT32_SECTORS_PER_CLUSTER])
  IN /\ pc = "esp" /\ pc' = "boot"
     /\ img' = SetBoth(SetBoth(SetBoth(m, 0, EOC), 1, EOC), 2, EOC)
     /\ dirents' = <<[name |-> "label", first |-> 0, size |-> 0]>>
     /\ UNCHANGED <<total_sectors, files, next_cluster>>

(* A file of the command line: its entry, its sectors and its chain.        *)
Put(name, n) ==
  /\ dirents' = Append(dirents, [name |-> name, first |-> next_cluster, size |-> n])
  /\ img' = Chain(Written(img, ClusterLba(next_cluster),
                          [i \in 1 .. n |-> [is |-> "file", name |-> name, k |-> i]]),
                  next_cluster, Clusters(n), 0)
  /\ UNCHANGED <<total_sectors, files>>

write_boot   == pc = "boot" /\ pc' = "kernel" /\ Put("boot", files.boot)
                  /\ next_cluster' = Advance(files.boot)
write_kernel == pc = "kernel" /\ pc' = "model" /\ Put("kernel", files.kernel)
                  /\ next_cluster' = Advance(files.kernel)

(* The model, when there is one; next_cluster stays where it is.            *)
write_model  == /\ pc = "model" /\ pc' = "json"
                /\ \/ files.model # EOC /\ Put("model", files.model) /\ UNCHANGED next_cluster
                   \/ files.model = EOC /\ UNCHANGED <<total_sectors, files, img, dirents, next_cluster>>

write_json   == pc = "json" /\ pc' = "super" /\ Put("boot.json", JsonSectors)
                  /\ UNCHANGED next_cluster

write_aevosfs_super ==
  /\ pc = "super" /\ pc' = "done"
  /\ img' = Write(img, data_start, [is |-> "aevosfs", sectors |-> data_end - data_start + 1])
  /\ UNCHANGED <<total_sectors, files, dirents, next_cluster>>

MkImageNext ==
  \/ write_protective_mbr \/ write_gpt \/ write_esp_tables
  \/ write_boot \/ write_kernel \/ write_model \/ write_json
  \/ write_aevosfs_super

-----------------------------------------------------------------------------
(* A reader that knows only the formats: the sectors of a file along the    *)
(* chain of FAT k, at the places the boot sector gives.                     *)
RECURSIVE Follow(_, _, _)
Follow(k, c, n) ==
  IF n <= 0 \/ c < 2 THEN << >>
  ELSE LET b    == img[EFI_PART_START_LBA]
           base == b.hidden + b.reserved + b.num_fats * b.fat_size_32
           s    == b.hidden + b.reserved + k * b.fat_size_32 + (c \div FatEntries)
           here == [i \in 1 .. Min({n, b.sectors_per_cluster}) |->
                      Sector(img, base + (c - 2) * b.sectors_per_cluster + i - 1)]
       IN here \o Follow(k, Sector(img, s).fat[c % FatEntries], n - b.sectors_per_cluster)

FileSectors(name, n) == [i \in 1 .. n |-> [is |-> "file", name |-> name, k |-> i]]

Fits == Clusters(files.boot) + Clusters(files.kernel) + Clusters(Max({0, files.model})) + 1
          <= (EspSectors - Reserved - 2 * fat_size) \div FAT32_SECTORS_PER_CLUSTER - 1

(* Read back from the finished image, the boot program, the kernel and      *)
(* boot.json are what was given, by either FAT, both copies of the          *)
(* partition table agree and name partitions that overlap neither each      *)
(* other nor the tables, and the data partition starts with its             *)
(* superblock, as long as the files fit the system partition.  The model is *)
(* not among the files: boot.json is written over its first cluster.        *)
ImageReadBack ==
  pc = "done" /\ Fits =>
    /\ \A e \in {dirents[i] : i \in DOMAIN dirents} : e.name \in {"boot", "kernel", "boot.json"} =>
         \A k \in 0 .. 1 : Follow(k, e.first, e.size) = FileSectors(e.name, e.size)
    /\ LET h == img[1]
           b == img[h.alternate_lba]
           t == img[h.partition_entry_lba]
       IN /\ b.my_lba = h.alternate_lba /\ b.alternate_lba = 1
          /\ \A i \in 0 .. GPT_ENTRIES_SECTORS - 1 :
               /\ Sector(img, h.partition_entry_lba + i).is = "entries"
               /\ Sector(img, h.partition_entry_lba + i) = Sector(img, b.partition_entry_lba + i)
          /\ h.first_usable_lba <= t.esp[1] /\ t.esp[2] < t.data[1]
          /\ t.data[2] <= h.last_usable_lba /\ h.last_usable_lba < b.partition_entry_lba
          /\ img[t.esp[1]].is = "bpb" /\ img[t.data[1]].is = "aevosfs"
==============================================================================
