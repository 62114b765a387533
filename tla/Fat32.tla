------------------------------- MODULE Fat32 -------------------------------
(***************************************************************************)
(* The read-only FAT32 driver, kernel/fs/fs_fat32.c: reading a part of a    *)
(* file, finding a name in a directory and listing a directory, each a walk *)
(* along a chain of clusters, on a device whose reads may fail.  One step   *)
(* is one cluster.  The chain is that of the file or directory of the call, *)
(* on a consistent volume.                                                  *)
(***************************************************************************)
EXTENDS Integers, Sequences, FiniteSets, SequencesExt, FiniteSetsExt

CONSTANTS total_clusters, ClusterBytes, ClusterEntries, Name

VARIABLES chain,       \* the clusters of the file or directory, in order
          content,     \* what the clusters of the chain hold
          size,        \* the size of the file
          call,        \* the call: its operation and arguments
          cl,          \* the current cluster, or EOC
          file_pos,    \* bytes of the clusters passed over
          out,         \* the bytes or names returned so far
          pc,          \* "skip", "copy", "scan", "done"
          failed       \* whether the device failed a read

vars == <<chain, content, size, call, cl, file_pos, out, pc, failed>>

Cluster == 2 .. total_clusters + 1
EOC     == 0 - 1                            \* 0x0FFFFFF8 and above
EIO     == << 0 >>                          \* an error in place of bytes
Chains  == {s \in SeqOf(Cluster, 3) : s # << >> /\ IsInjective(s)}

(* An entry is a name, one that is passed over (deleted, long name, volume) *)
(* or the zero entry after which a directory has only zero entries.         *)
Entry == Name \cup {"skipped", "end"}
IsDirectory(es) ==
  /\ \A i, j \in DOMAIN es : i < j /\ es[i] = "end" => es[j] = "end"
  /\ \A i, j \in DOMAIN es : es[i] \in Name /\ es[i] = es[j] => i = j

Init == /\ chain \in Chains
        /\ cl = chain[1] /\ file_pos = 0 /\ out = << >> /\ failed = FALSE
        /\ \/ /\ pc = "skip"
              /\ content = [i \in 1 .. Len(chain) * ClusterBytes |-> i]
              /\ size \in Len(content) - ClusterBytes + 1 .. Len(content)
              /\ call \in [op : {"read"}, offset : 0 .. Len(content), size : 1 .. Len(content)]
           \/ /\ pc = "scan"
              /\ Len(chain) <= 2
              /\ content \in {es \in [1 .. Len(chain) * ClusterEntries -> Entry] : IsDirectory(es)}
              /\ size = 0
              /\ call \in [op : {"find"}, name : Name] \cup [op : {"list"}, max : 1 .. 2]

(* Where in content the current cluster starts.                             *)
Index(per) == (CHOOSE i \in DOMAIN chain : chain[i] = cl) * per - per

(* fat_next: the entry of the table, or EOC when the read of it fails.      *)
fat_next(fails) ==
  IF cl \notin Cluster \/ fails THEN EOC
  ELSE LET i == CHOOSE i \in DOMAIN chain : chain[i] = cl
       IN IF i = Len(chain) THEN EOC ELSE chain[i + 1]

Finish(f) == pc' = "done" /\ out' = f /\ UNCHANGED <<chain, content, size, call, cl, file_pos>>

Remaining == Min({call.size, size - call.offset})

(* fat32_read: the loop over the clusters before the one with the offset.   *)
SkipMore == file_pos + ClusterBytes <= call.offset /\ cl # EOC

SkipCluster(fails) ==
  /\ pc = "skip"
  /\ failed' = (failed \/ fails)
  /\ IF call.offset >= size THEN Finish(<< >>) /\ ~fails
     ELSE IF SkipMore
          THEN /\ file_pos' = file_pos + ClusterBytes /\ cl' = fat_next(fails)
               /\ UNCHANGED <<chain, content, size, call, out, pc>>
          ELSE ~fails /\ pc' = "copy" /\ UNCHANGED <<chain, content, size, call, cl, file_pos, out>>

(* The bytes of the current cluster that are copied: those from the offset  *)
(* on, in the first one, and no more than are asked for.                    *)
(* Mutation: every cluster is copied from where the first one was.          *)
Taken_Again == LET skip == call.offset % ClusterBytes
                   from == Index(ClusterBytes) + skip + 1
                   n == Min({ClusterBytes - skip, Remaining - Len(out)})
               IN SubSeq(content, from, from + n - 1)

Taken == LET skip == IF out = << >> THEN call.offset - file_pos ELSE 0
             from == Index(ClusterBytes) + skip + 1
             n == Min({ClusterBytes - skip, Remaining - Len(out)})
         IN SubSeq(content, from, from + n - 1)

CopyCluster(fault) ==
  /\ pc = "copy"
  /\ failed' = (failed \/ fault # "none")
  /\ IF Len(out) >= Remaining \/ cl = EOC THEN fault = "none" /\ Finish(out)
     ELSE IF fault = "data" THEN Finish(EIO)
     ELSE /\ out' = out \o Taken /\ cl' = fat_next(fault = "fat")
          /\ UNCHANGED <<chain, content, size, call, file_pos, pc>>

(* scan_dir_cluster and list_dir_cluster: the entries of a cluster that     *)
(* count.  An unreadable sector ends the cluster, as the zero entry does.   *)
Live(fault) ==
  IF fault = "data" THEN << >>
  ELSE SelectSeq(SubSeq(content, Index(ClusterEntries) + 1, Index(ClusterEntries) + ClusterEntries),
                 LAMBDA e : e \in Name)

(* readdir_cb takes names as long as there is room.                         *)
Listed(names) == SubSeq(out \o names, 1, Min({call.max, Len(out \o names)}))

(* find_in_dir and fat32_readdir: one cluster, then the next one.           *)
ScanCluster(fault) ==
  LET live == Live(fault)
      now  == IF call.op = "list" THEN Listed(live)
              ELSE SelectSeq(live, LAMBDA e : e = call.name)
      next == fat_next(fault = "fat")
  IN /\ pc = "scan"
     /\ failed' = (failed \/ fault # "none")
     /\ IF \/ call.op = "find" /\ now # << >>
           \/ next = EOC
           \/ call.op = "list" /\ Len(now) >= call.max
        THEN Finish(now)
        ELSE cl' = next /\ out' = now /\ UNCHANGED <<chain, content, size, call, file_pos, pc>>

Next == \/ \E f \in BOOLEAN : SkipCluster(f)
        \/ \E f \in {"none", "data", "fat"} : CopyCluster(f) \/ ScanCluster(f)

Spec == Init /\ [][Next]_vars

-----------------------------------------------------------------------------
Names == SelectSeq(content, LAMBDA e : e \in Name)

(* A call returns what the disk holds.  A read returns the bytes of the     *)
(* file from its offset on, wherever the offset and the end fall in the     *)
(* clusters.  Looking a name up finds it just when listing the directory    *)
(* reports it, in whichever cluster it is.  After a failed read of the      *)
(* table there may be fewer bytes or names, and never others.               *)
CallReturnsDisk ==
  pc = "done" =>
    CASE call.op = "read" -> out # EIO =>
           LET n == IF call.offset >= size THEN 0 ELSE Remaining
           IN /\ out = SubSeq(content, call.offset + 1, call.offset + Len(out))
              /\ IF failed THEN Len(out) <= n ELSE Len(out) = n
      [] call.op = "find" ->
           LET there == Contains(Names, call.name)
           IN IF failed THEN out # << >> => there ELSE out # << >> <=> there
      [] call.op = "list" ->
           IF failed THEN ToSet(out) \subseteq ToSet(Names) /\ IsInjective(out)
           ELSE out = SubSeq(Names, 1, Min({call.max, Len(Names)}))
============================================================================
