------------------------------ MODULE MCStorage ------------------------------
(***************************************************************************)
(* The storage stack, its layers explored side by side: an NVMe queue pair *)
(* and the AHCI port below block_dev.c, AevosFS, the FAT32 and ext4        *)
(* readers, the search for volumes to mount, the virtual file system and   *)
(* the tool that writes the disk image.                                    *)
(***************************************************************************)
EXTENDS Nvme, TLC

VARIABLES part,                   \* what is explored
          pc, transfer, chunk, header, ci, is_err, executing, halted, executed, okay, late, stalls,
          sb, inode_table, next_inode_id, disk, disk_sb, mounted, fswrites, crashes,
          written, created, saved,
          chain, clusters, size, call, cl, file_pos, out, fpc, failed,
          nodes, fd_table, content, writes, ret,
          sectors, unreadable, mounts,
          vol, badsec, node, answer,
          total_sectors, files, img, dirents, next_cluster, ipc

ahcivars == <<pc, transfer, chunk, header, ci, is_err, executing, halted, executed, okay, late, stalls>>
fsvars   == <<sb, inode_table, next_inode_id, disk, disk_sb, mounted, fswrites, crashes,
              written, created, saved>>
fatvars  == <<chain, clusters, size, call, cl, file_pos, out, fpc, failed>>
vfsvars  == <<nodes, fd_table, content, writes, ret>>
diskvars == <<sectors, unreadable, mounts>>
ext4vars == <<vol, badsec, node, answer>>
imgvars  == <<total_sectors, files, img, dirents, next_cluster, ipc>>
lower    == <<vars, ahcivars, fsvars, fatvars, vfsvars>>
readers  == <<diskvars, ext4vars, imgvars>>

Sata == INSTANCE Ahci WITH timeouts <- stalls, Chunks <- 2, MaxTransfers <- 3, MaxTimeouts <- 2

(* AevosFs with writes that fill the device, with a restart and few files,  *)
(* and with directories of more than one block.                             *)
AFs == INSTANCE AevosFs WITH
         writes <- fswrites,
         AEVOSFS_BLOCK_SIZE <- 2, AEVOSFS_DIRECT_BLOCKS <- 2, AEVOSFS_MAX_INODES <- 3,
         EntriesPerBlock <- 1, total_blocks <- 10, Names <- {<<"a">>},
         Faults <- {"data", "read", "dir", "super"}, Extents <- {<<1, 2>>, <<3, 2>>},
         MaxIds <- 3, MaxWrites <- 2, MaxCrashes <- 0

Restart == INSTANCE AevosFs WITH
         writes <- fswrites,
         AEVOSFS_BLOCK_SIZE <- 2, AEVOSFS_DIRECT_BLOCKS <- 2, AEVOSFS_MAX_INODES <- 3,
         EntriesPerBlock <- 1, total_blocks <- 8, Names <- {<<"a">>, <<"b">>},
         Faults <- {"data", "read", "dir", "super"}, Extents <- {<<1, 2>>, <<3, 2>>},
         MaxIds <- 2, MaxWrites <- 2, MaxCrashes <- 1

Dirs == INSTANCE AevosFs WITH
         writes <- fswrites,
         AEVOSFS_BLOCK_SIZE <- 2, AEVOSFS_DIRECT_BLOCKS <- 2, AEVOSFS_MAX_INODES <- 4,
         EntriesPerBlock <- 2, total_blocks <- 5, Names <- {<<"a">>, <<"b">>, <<"a", "b">>},
         Faults <- {"dir", "dirread"}, Extents <- {},
         MaxIds <- 4, MaxWrites <- 0, MaxCrashes <- 0

Fat == INSTANCE Fat32 WITH
         content <- clusters, pc <- fpc,
         total_clusters <- 3, ClusterBytes <- 2, ClusterEntries <- 2, Name <- {"a", "b"}

Files == INSTANCE Vfs WITH
           MAX_OPEN_FILES <- 2,
           Mounts <- << <<"dev", << <<"dev">> >> >>, <<"disk", << <<"fat">> >> >>,
                        <<"rw", << <<"m">> >> >> >>,
           Path <- {<< <<"dev">>, <<"zero">> >>, << <<"fat">>, <<"f">> >>, << <<"m">>, <<"x">> >>,
                    << <<"m">>, <<"..">>, <<"x">> >>, << <<"m">>, <<"x", "y">> >>},
           Flags <- {{"CREAT", "EXCL"}, {"CREAT", "APPEND"}, {"TRUNC"}},
           DiskFiles <- {"f"}, DiskSize <- 2,
           MaxNodes <- 6, MaxWrites <- 2, MaxPos <- 2

(* Partition tables of two entries, one of them that of a GPT disk, and     *)
(* what other sectors have in the place of a table.                         *)
Entry(typ, lba) == [typ |-> typ, lba |-> lba]
Tables == [1 .. 2 -> {Entry(t, l) : t \in {"fat", "ntfs", "other"}, l \in 1 .. 2}]
            \cup {<<Entry("gpt", 1), Entry("fat", 2)>>}
Superblocks ==
  {<<"none", "none", "none">>, <<"ext4", "none", "none">>, <<"none", "none", "ext4">>,
   <<"other", "ext4", "none">>, <<"none", "other", "ext4">>}
Code   == {<<Entry("other", 0), Entry(t, l)>> : t \in {"fat", "ntfs"}, l \in {0, 2}}

(* Volumes with a directory of one or two blocks, deleted entries, an empty *)
(* file and a file of one extent or two.                                    *)
DirEntry(name, ino, dir) == [name |-> name, ino |-> ino, dir |-> dir]
Dots(ino) == <<DirEntry(".", ino, TRUE), DirEntry("..", 2, TRUE)>>
Extent(b, n) == [block |-> b, len |-> n]
Inode(dir, bytes, extents) == [dir |-> dir, size |-> bytes, extents |-> extents]
MCVolumes ==
  {[part_lba |-> lba, first_data_block |-> f, itable |-> it,
    inodes   |-> <<Inode(FALSE, 0, << >>), Inode(TRUE, 4 * n, <<Extent(5, n)>>),
                   Inode(TRUE, 8, <<Extent(7, 2)>>), Inode(FALSE, bytes, ex)>>,
    entries  |-> 5 :> Dots(2) \o <<DirEntry("y", 0, FALSE), DirEntry("x", 4, FALSE)>>
              @@ 6 :> <<DirEntry("d", 3, TRUE), DirEntry("e", 1, FALSE)>>
              @@ 7 :> Dots(3) \o <<DirEntry("y", 0, FALSE)>>
              @@ 8 :> <<DirEntry("z", 0, FALSE), DirEntry("y", 4, FALSE)>>]
   : lba \in {0, 3}, f \in {0, 1}, it \in {<<3, 4>>, <<4, 3>>}, n \in {1, 2}, bytes \in {5, 8},
     ex \in {<<Extent(9, 2)>>, <<Extent(9, 1), Extent(11, 1)>>}}

Disk == INSTANCE Volumes WITH
          disk <- sectors, Supers <- {[l \in 0 .. 2 |-> s[l + 1]] : s \in Superblocks},
          Volumes <- MCVolumes, SectorWords <- 2, block_size <- 4, inode_size <- 2, inodes_per_group <- 2,
          Names <- {"x", "y", "d", "e"}, MaxSize <- 8, Sectors <- {4, 9, 13, 15, 19, 20, 22},
          pc <- ipc, EFI_PART_START_LBA <- 5, EspSectors <- 32, GPT_ENTRIES_SECTORS <- 2,
          Reserved <- 1, FAT32_SECTORS_PER_CLUSTER <- 2, FatEntries <- 8,
          Totals <- {44, 47}, Sizes <- 0 .. 5

StorageInit ==
  /\ part \in {"nvme", "ahci", "aevosfs", "restart", "dirs", "fat", "vfs",
               "mount", "ext4", "image"}
  /\ Init /\ Sata!Init /\ Files!Init
  /\ CASE part = "restart" -> Restart!Init
       [] part = "dirs"    -> Dirs!Init
       [] OTHER            -> AFs!Init
  /\ IF part = "fat" THEN Fat!Init
     ELSE /\ chain = << >> /\ clusters = << >> /\ size = 0 /\ call = [op |-> "none"] /\ cl = 0
          /\ file_pos = 0 /\ out = << >> /\ fpc = "none" /\ failed = FALSE
  /\ IF part = "mount" THEN Disk!DiskInit
     ELSE sectors = << >> /\ unreadable = {} /\ mounts = << >>
  /\ IF part = "ext4" THEN Disk!Ext4Init
     ELSE vol = << >> /\ badsec = {} /\ node = << >> /\ answer = << >>
  /\ IF part = "image" THEN Disk!MkImageInit
     ELSE /\ total_sectors = 0 /\ files = << >> /\ img = << >> /\ dirents = << >>
          /\ next_cluster = 0 /\ ipc = "none"

LowerNext ==
  \/ part = "nvme"    /\ Next       /\ UNCHANGED <<ahcivars, fsvars, fatvars, vfsvars>>
  \/ part = "ahci"    /\ Sata!Next  /\ UNCHANGED <<vars, fsvars, fatvars, vfsvars>>
  \/ part = "aevosfs" /\ AFs!Next   /\ UNCHANGED <<vars, ahcivars, fatvars, vfsvars>>
  \/ part = "restart" /\ Restart!Next /\ UNCHANGED <<vars, ahcivars, fatvars, vfsvars>>
  \/ part = "dirs"    /\ Dirs!Next  /\ UNCHANGED <<vars, ahcivars, fatvars, vfsvars>>
  \/ part = "fat"     /\ Fat!Next   /\ UNCHANGED <<vars, ahcivars, fsvars, vfsvars>>
  \/ part = "vfs"     /\ Files!Next /\ UNCHANGED <<vars, ahcivars, fsvars, fatvars>>

ReadersNext ==
  \/ part = "mount" /\ Disk!MountNext /\ UNCHANGED <<ext4vars, imgvars>>
  \/ part = "ext4"  /\ Disk!Ext4Next     /\ UNCHANGED <<diskvars, imgvars>>
  \/ part = "image" /\ Disk!MkImageNext  /\ UNCHANGED <<diskvars, ext4vars>>

StorageNext == \/ LowerNext   /\ UNCHANGED <<part, readers>>
               \/ ReadersNext /\ UNCHANGED <<part, lower>>

StorageSpec == StorageInit /\ [][StorageNext]_<<part, lower, readers>>

-----------------------------------------------------------------------------
(* The properties of the layers, where they are explained.                  *)
TransferWhole   == part = "ahci" => Sata!TransferWhole
MountsVolumes   == part = "mount" => Disk!MountsVolumes
VolumeExact     == /\ part = "aevosfs" => AFs!VolumeExact
                   /\ part = "restart" => Restart!VolumeExact
                   /\ part = "dirs"    => Dirs!VolumeExact
                   /\ part = "vfs"     => Files!NoNodeHidden
AppendKeepsData == Files!AppendKeepsData
RootRebuilt     == part = "restart" => Restart!RootRebuilt

(* What is read is what the disk holds: by the readers of FAT32 and ext4    *)
(* and from the image that the tool has written.                            *)
ReadsExact == /\ part = "fat"   => Fat!CallReturnsDisk
              /\ part = "ext4"  => Disk!Ext4ReturnsVolume
              /\ part = "image" => Disk!ImageReadBack
==============================================================================
