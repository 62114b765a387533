-------------------------------- MODULE Vfs --------------------------------
(***************************************************************************)
(* The virtual file system of kernel/fs/vfs.c under posix/posix_io.c: the  *)
(* tree of nodes, mounts, and the table of open descriptors.  Three file   *)
(* systems may be mounted: "dev" is kernel/fs/devfs.c (procfs.c resolves   *)
(* names in the same way), "disk" stands for the readers of FAT32, ext4    *)
(* and NTFS, whose lookup puts a node into the tree, and "rw" for one that *)
(* implements write, which the kernel mounts nowhere yet.  Coroutines do   *)
(* not yield inside a call, so each call is one step.                      *)
(*                                                                         *)
(* Nodes are numbered as they are allocated; 0 is NULL and 1 the root.  A  *)
(* component of a path is the sequence of the pieces that vfs_walk_path    *)
(* takes it for: one, or several when it is longer than VFS_NAME_MAX       *)
(* allows.  Paths longer than VFS_PATH_MAX are left out.                   *)
(***************************************************************************)
EXTENDS Integers, Sequences, FiniteSets, SequencesExt, FiniteSetsExt

CONSTANTS MAX_OPEN_FILES,
          Mounts,                 \* the mounts at start-up: a sequence of <<fs, path>>
          Path,                   \* the paths of calls, as sequences of components
          DiskFiles, DiskSize,    \* the names in the root of "disk", and their size
          Flags,                  \* the sets of flags of calls of open
          MaxNodes, MaxWrites, MaxPos  \* bounds

VARIABLES nodes, fd_table,
          content,                \* per node of "rw" and position: the write it is from
          writes,                 \* writes so far
          ret                     \* the last call, if it was a write, and its result

vars == <<nodes, fd_table, content, writes, ret>>

Fd    == 0 .. MAX_OPEN_FILES - 1
Pos   == 0 .. MaxPos - 1          \* positions of a file
None  == "none"
Ok    == [op |-> None, fd |-> 0, n |-> 0]
Closed == [in_use |-> FALSE, node |-> 0, append |-> FALSE, offset |-> 0]

(* ops and mount are the file systems whose functions node->ops and         *)
(* node->mount_ops are; data is what node->fs_data says of the node.  The   *)
(* name of the node is the first piece of the one it is created under.      *)
create_node(name, type, parent, ops, data) ==
  [name |-> name[1], cut |-> Len(name) > 1, type |-> type, parent |-> parent, ops |-> ops, mount |-> None,
   data |-> data, size |-> 0]

find_child(ns, parent, name) ==
  LET hits == {i \in 1 .. Len(ns) : ns[i].parent = parent /\ ns[i].name = name}
  IN IF hits = {} THEN 0 ELSE Max(hits)

OwnOps(n) == IF n.mount # None THEN n.mount ELSE n.ops

(* get_ops: the functions of the nearest node up the tree that has some.    *)
get_ops(ns, i) ==
  LET up[k \in 0 .. Len(ns)] == IF k = 0 THEN None
                                ELSE IF OwnOps(ns[k]) # None THEN OwnOps(ns[k])
                                ELSE up[ns[k].parent]
  IN up[i]

(* dev_resolve: the kind of a node of devfs; the mount point is its root.   *)
dev_resolve(n) == IF n.data # None THEN n.data
                  ELSE IF n.mount = "dev" THEN "root" ELSE None

DevNames == {"null", "zero"}

(* The lookup functions.  devfs_lookup leaves the parent of its node NULL   *)
(* and copies node->ops, which a mount point does not have; the readers of  *)
(* disks use vfs_make_child.                                                *)
lookup(ns, i, name) ==
  LET fs == get_ops(ns, i)
  IN IF fs = "dev" /\ dev_resolve(ns[i]) = "root" /\ name \in DevNames
     THEN <<create_node(<<name>>, "DEVICE", 0, ns[i].ops, name)>>
     ELSE IF fs = "disk" /\ ns[i].data = "root" /\ name \in DiskFiles
     THEN <<create_node(<<name>>, "FILE", i, None, "file")>>
     ELSE << >>

(* vfs_walk_path over the components of a path: st has the nodes and the    *)
(* current one.                                                             *)
WalkStep(st, name) ==
  LET c == find_child(st.nodes, st.cur, name)
      new == lookup(st.nodes, st.cur, name)
  IN IF st.cur = 0 THEN st
     ELSE IF name = ".." THEN [st EXCEPT !.cur = IF st.nodes[@].parent # 0
                                                 THEN st.nodes[@].parent ELSE @]
     ELSE IF c # 0 THEN [st EXCEPT !.cur = c]
     ELSE [nodes |-> st.nodes \o new, cur |-> IF new = << >> THEN 0 ELSE Len(st.nodes) + 1]

vfs_walk_path(ns, path) == FoldLeft(WalkStep, [nodes |-> ns, cur |-> 1], FlattenSeq(path))

-----------------------------------------------------------------------------
(* A child that exists is taken, else a directory is created.               *)
MakeDir(st, name) ==
  LET c == find_child(st.nodes, st.cur, name)
  IN IF c # 0 THEN [st EXCEPT !.cur = c]
     ELSE [nodes |-> Append(st.nodes, create_node(<<name>>, "DIR", st.cur, None, None)),
           cur |-> Len(st.nodes) + 1]

(* vfs_mount, and the root that the readers of disks put at the mount point.*)
vfs_mount(ns, m) ==
  LET w  == vfs_walk_path(ns, m[2])
      st == IF w.cur # 0 THEN w
            ELSE FoldLeft(MakeDir, [nodes |-> w.nodes, cur |-> 1], FlattenSeq(m[2]))
  IN [st.nodes EXCEPT ![st.cur].mount = m[1],
                      ![st.cur].data = IF m[1] = "disk" THEN "root" ELSE @]

(* vfs_init, and the mounts of the start-up.                                *)
Init == /\ nodes = FoldLeft(vfs_mount, << create_node(<<"/">>, "DIR", 0, None, None) >>, Mounts)
        /\ fd_table = [fd \in Fd |-> Closed]
        /\ content = [i \in 1 .. MaxNodes |-> [p \in Pos |-> 0]]
        /\ writes = 0 /\ ret = Ok

FreeFds == {fd \in Fd : ~fd_table[fd].in_use}

alloc_fd == Min(FreeFds)

(* The node that vfs_open creates when the walk w found none: in the root,  *)
(* or in the directory that the rest of the path names.                     *)
Created(w, path) ==
  LET p == IF Len(path) = 1 THEN [nodes |-> w.nodes, cur |-> 1]
           ELSE vfs_walk_path(w.nodes, Front(path))
  IN IF p.cur = 0 \/ p.nodes[p.cur].type # "DIR" THEN [nodes |-> p.nodes, cur |-> 0]
     ELSE [nodes |-> Append(p.nodes, create_node(Last(path), "FILE", p.cur,
                                IF Len(path) = 1 THEN None ELSE p.nodes[p.cur].ops, None)),
           cur |-> Len(p.nodes) + 1]

(* vfs_open: a node that was created stays when no descriptor is free.      *)
vfs_open(ns, path, flags) ==
  LET w  == vfs_walk_path(ns, path)
      st == IF w.cur = 0 /\ "CREAT" \in flags THEN Created(w, path) ELSE w
  IN /\ Len(st.nodes) <= MaxNodes
     /\ ret' = Ok
     /\ UNCHANGED <<content, writes>>
     /\ IF st.cur = 0 \/ FreeFds = {}
        THEN nodes' = st.nodes /\ UNCHANGED fd_table
        ELSE /\ fd_table' = [fd_table EXCEPT ![alloc_fd] =
                               [in_use |-> TRUE, node |-> st.cur, offset |-> 0,
                                append |-> "APPEND" \in flags]]
             /\ nodes' = IF "TRUNC" \in flags THEN [st.nodes EXCEPT ![st.cur].size = 0]
                         ELSE st.nodes

(* Whether stat of a node succeeds: the file systems of the kernel refuse a *)
(* node without fs_data, which is what vfs_open and vfs_mkdir create.       *)
StatOk(ns, i) ==
  LET fs == get_ops(ns, i)
  IN CASE fs = "dev"  -> dev_resolve(ns[i]) # None
       [] fs = "disk" -> ns[i].data # None
       [] OTHER -> TRUE

(* vfs_stat walks the path, which may allocate nodes.                       *)
vfs_stat(path) ==
  LET w == vfs_walk_path(nodes, path)
  IN /\ Len(w.nodes) <= MaxNodes
     /\ nodes' = w.nodes /\ ret' = Ok
     /\ UNCHANGED <<fd_table, content, writes>>

(* posix_open: O_EXCL asks vfs_stat first.                                  *)
posix_open(path, flags) ==
  LET w == vfs_walk_path(nodes, path)
  IN IF ~({"CREAT", "EXCL"} \subseteq flags) THEN vfs_open(nodes, path, flags)
     ELSE IF w.cur # 0 /\ StatOk(w.nodes, w.cur) THEN vfs_stat(path)
     ELSE vfs_open(w.nodes, path, flags)

vfs_close(fd) ==
  /\ fd_table[fd].in_use
  /\ fd_table' = [fd_table EXCEPT ![fd] = Closed]
  /\ ret' = Ok
  /\ UNCHANGED <<nodes, content, writes>>

(* What the read function of a node returns: a count, or -1 for an error.   *)
ReadResult(i, offset, size) ==
  LET fs  == get_ops(nodes, i)
      upto(n) == IF offset >= n THEN 0 ELSE Min({size, n - offset})
  IN CASE fs = "dev"  /\ dev_resolve(nodes[i]) = "null" -> 0
       [] fs = "dev"  /\ dev_resolve(nodes[i]) = "zero" -> size
       [] fs = "disk" /\ nodes[i].data = "file" -> upto(DiskSize)
       [] fs = "rw"   /\ nodes[i].type = "FILE" -> upto(nodes[i].size)
       [] OTHER -> -1

vfs_read(fd, size) ==
  LET e == fd_table[fd]
      n == ReadResult(e.node, e.offset, size)
  IN /\ e.in_use
     /\ e.offset + size <= MaxPos
     /\ fd_table' = [fd_table EXCEPT ![fd].offset = @ + Max({n, 0})]
     /\ ret' = Ok /\ UNCHANGED <<nodes, content, writes>>

(* What the write function of a node returns.                               *)
WriteResult(i, size) ==
  LET fs == get_ops(nodes, i)
  IN IF \/ fs = "dev" /\ dev_resolve(nodes[i]) \in {"null", "zero"}
        \/ fs = "rw"  /\ nodes[i].type = "FILE"
     THEN size ELSE -1

(* Mutation: an appending descriptor keeps its own offset.                  *)
WriteAt_Own(e) == e.offset

WriteAt(e) == IF e.append THEN nodes[e.node].size ELSE e.offset

(* vfs_write: O_APPEND moves the offset only when there is a write function.*)
vfs_write(fd, size) ==
  LET e  == fd_table[fd]
      n  == WriteResult(e.node, size)
      at == IF get_ops(nodes, e.node) \in {"dev", "rw"} THEN WriteAt(e) ELSE e.offset
  IN /\ e.in_use
     /\ writes < MaxWrites /\ at + size <= MaxPos
     /\ writes' = writes + 1
     /\ fd_table' = [fd_table EXCEPT ![fd].offset = at + Max({n, 0})]
     /\ nodes' = [nodes EXCEPT ![e.node].size = IF n > 0 THEN Max({@, at + n}) ELSE @]
     /\ content' = IF n > 0 /\ get_ops(nodes, e.node) = "rw"
                   THEN [content EXCEPT ![e.node] = [p \in Pos |->
                           IF p \in at .. at + n - 1 THEN writes + 1 ELSE @[p]]]
                   ELSE content
     /\ ret' = [op |-> "write", fd |-> fd, n |-> n]

vfs_mkdir(path) ==
  LET w == vfs_walk_path(nodes, path)
      p == vfs_walk_path(w.nodes, Front(path))
      new == IF w.cur # 0 \/ p.cur = 0 THEN << >>
             ELSE IF p.nodes[p.cur].type # "DIR" THEN << >>
             ELSE << create_node(Last(path), "DIR", p.cur, p.nodes[p.cur].ops, None) >>
  IN /\ Len(p.nodes \o new) <= MaxNodes
     /\ nodes' = IF w.cur # 0 THEN w.nodes ELSE p.nodes \o new
     /\ ret' = Ok /\ UNCHANGED <<fd_table, content, writes>>

vfs_lseek(fd, offset, whence) ==
  LET e == fd_table[fd]
      new == offset + CASE whence = "SET" -> 0
                        [] whence = "CUR" -> e.offset
                        [] whence = "END" -> nodes[e.node].size
  IN /\ e.in_use
     /\ new <= MaxPos
     /\ fd_table' = IF new < 0 THEN fd_table ELSE [fd_table EXCEPT ![fd].offset = new]
     /\ ret' = Ok /\ UNCHANGED <<nodes, content, writes>>

Next == \/ \E path \in Path : vfs_stat(path) \/ vfs_mkdir(path)
        \/ \E path \in Path, flags \in Flags : posix_open(path, flags)
        \/ \E fd \in Fd : \/ vfs_close(fd)
                          \/ vfs_read(fd, 1) \/ vfs_write(fd, 1)
                          \/ \E o \in {-1, 0}, w \in {"SET", "CUR", "END"} : vfs_lseek(fd, o, w)

Spec == Init /\ [][Next]_vars

-----------------------------------------------------------------------------
(* Names stay unique in a directory whatever opens, creates and lookups put *)
(* there, so no node of the tree is hidden behind another and every node is *)
(* what a walk along its own path arrives at (vfs_walk_path, add_child).    *)
(* Only a node created under a name that had to be cut can hide another.    *)
NoNodeHidden ==
  \A i, j \in 1 .. Len(nodes) :
     i < j /\ nodes[i].parent # 0 /\ nodes[i].parent = nodes[j].parent /\ ~nodes[j].cut
       => nodes[i].name # nodes[j].name

(* A write through a descriptor opened with O_APPEND leaves alone whatever  *)
(* any descriptor has written to the file and O_TRUNC has not discarded.    *)
AppendKeepsData ==
  [][\A fd \in Fd : ret'.op = "write" /\ ret'.fd = fd /\ fd_table[fd].append
       => LET i == fd_table[fd].node
          IN \A p \in Pos : p < nodes[i].size => content'[i][p] = content[i][p]]_vars
============================================================================
