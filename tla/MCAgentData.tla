----------------------------- MODULE MCAgentData -----------------------------
(***************************************************************************)
(* The stores of an agent, which do not touch each other, explored side by *)
(* side: the initial state says which one is used and the others keep      *)
(* their initial state.  The history appears twice: with a ring large      *)
(* enough for an index of three levels, and with a small one that is also  *)
(* saved, restored and rolled back; its texts, which are compressed, are a *)
(* part of their own.  The database appears twice as well: its sessions    *)
(* and messages, and its rows of memories and skills.                      *)
(***************************************************************************)
EXTENDS Mailbox, History

VARIABLES part,                   \* what is explored
          r_ring, r_head, r_tail, r_tokens, r_seq, r_bpt, r_heap, r_image, r_ckpt,
          entry, got,
          m_entries, m_count, m_next, m_index, failures, forgotten,
          tab, hand, clock, c_lost, touched, given,
          type, dist, lists, centroids, stored, moved,
          sessions, next_session_id, messages, next_msg_id, mem_entries, rows, d_lost,
          pushed, kept, queued,
          skills, s_next, registry_by_name, running, outcomes

restorevars == <<r_ring, r_head, r_tail, r_tokens, r_seq, r_bpt, r_heap, r_image, r_ckpt>>

Restore == INSTANCE History WITH
             HIST_RING_SIZE <- 2, max_tokens <- 4, Texts <- {1, 3}, MaxSeq <- 3,
             ring <- r_ring, head <- r_head, tail <- r_tail, window_tokens <- r_tokens,
             next_seq <- r_seq, bpt <- r_bpt, heap <- r_heap,
             image <- r_image, ckpt <- r_ckpt

(* Bytes of two bits.  Texts are up to four free bytes, a run of one byte,  *)
(* and up to five free bytes: longer than the window of 16 positions.       *)
Free(n)   == UNION {[1 .. k -> {0, 1}] : k \in 0 .. n}
Run(b, k) == [i \in 1 .. k |-> b]
Text == INSTANCE Lz4 WITH
          LZ4_MIN_MATCH <- 4, NIBBLE <- 1, BYTE <- 3, LZ4_HASH_SIZE <- 5, BufSizes <- {3, 30},
          Texts <- {a \o Run(b, k) \o c : a \in Free(4), b \in {0, 1}, k \in 0 .. 9, c \in Free(5)}

Mem == INSTANCE Memory WITH
         HNSW_M <- 1, HNSW_M0 <- 2, HNSW_EF_CONSTRUCT <- 3, HNSW_EF_SEARCH <- 2,
         HNSW_MAX_LEVEL <- 2, MEM_INITIAL_CAP <- 2, MEM_MAX_ENTRIES <- 4,
         TopK <- 2, MaxId <- 3, MaxFailures <- 1,
         entries <- m_entries, count <- m_count, next_id <- m_next, index <- m_index,
         Queries <- {1, 2, 3}, Packs <- {1, 2}, l1_slots <- 2, l2_slots <- 2, l3_slots <- 2,
         MaxClock <- 4, MaxLost <- 1, lost <- c_lost

Db == INSTANCE AevosDb WITH
        DB_MAX_SESSIONS <- 2, DB_MAX_MESSAGES <- 4, DB_MAX_MEM_ENTRIES <- 2,
        DB_MAX_SKILLS <- 2, Stack <- 3, Names <- {"a", "b", "c"}, Contents <- {1, 2},
        MaxMsg <- 4, MaxSession <- 2, MaxLost <- 1, skills <- rows, lost <- d_lost,
        Ids <- {1, 2, 3}, Vectors <- {-2, 0, 3}, nlist <- 2, IVF_DEFAULT_NPROBE <- 1,
        KMEANS_MAX_ITERS <- 3, MaxTraining <- 3, MaxMoved <- 1

Skills == INSTANCE Skill WITH
            MAX_SKILLS <- 3, SKILL_MIN_CALLS_EVAL <- 2, Threshold <- <<1, 2>>,
            Names <- {"a", "b"}, Tasks <- {"t"}, MaxCalls <- 2, MaxId <- 3, next_id <- s_next

textvars   == <<entry, got>>
memvars    == <<m_entries, m_count, m_next, m_index, failures, forgotten>>
cachevars  == <<tab, hand, clock, c_lost, touched, given>>
vecvars    == <<type, dist, lists, centroids, stored, moved>>
dbvars     == <<sessions, next_session_id, messages, next_msg_id, mem_entries, rows, d_lost,
                pushed, kept, queued>>
skillvars  == <<skills, s_next, registry_by_name, running, outcomes>>
storevars  == <<vars, logvars, histvars, restorevars, textvars>>
enginevars == <<memvars, cachevars, vecvars, dbvars, skillvars>>

DataInit ==
  /\ part \in {"mailbox", "log", "history", "restore", "text",
               "memory", "cache", "vectors", "tree", "rows", "skills"}
  /\ mailbox_init /\ eventlog_init /\ RestoreInit /\ Restore!RestoreInit /\ Text!Init
  /\ Mem!memory_init /\ Mem!hms_cache_init /\ Db!vecindex_create
  /\ Db!aevos_db_open /\ Skills!skill_init
  /\ part # "cache" => \A t \in 1 .. 3 : tab[t] # << >>
  /\ part # "vectors" => type = "flat" /\ dist = "L2"

StoresNext ==
  \/ part = "mailbox" /\ Next          /\ UNCHANGED <<logvars, histvars, restorevars, textvars>>
  \/ part = "log"     /\ LogNext       /\ UNCHANGED <<vars, histvars, restorevars, textvars>>
  \/ part = "history" /\ HistoryNext   /\ UNCHANGED <<vars, logvars, image, ckpt, restorevars, textvars>>
  \/ part = "restore" /\ Restore!RestoreNext /\ UNCHANGED <<vars, logvars, histvars, textvars>>
  \/ part = "text"    /\ Text!TextNext /\ UNCHANGED <<vars, logvars, histvars, restorevars>>

EnginesNext ==
  \/ part = "memory"  /\ Mem!MemoryNext   /\ UNCHANGED <<cachevars, vecvars, dbvars, skillvars>>
  \/ part = "cache"   /\ Mem!CacheNext  /\ UNCHANGED <<memvars, vecvars, dbvars, skillvars>>
  \/ part = "vectors" /\ Db!VecNext      /\ UNCHANGED <<memvars, cachevars, dbvars, skillvars>>
  \/ part = "tree"    /\ Db!TreeNext      /\ UNCHANGED <<memvars, cachevars, vecvars, skillvars>>
  \/ part = "rows"    /\ Db!RowsNext      /\ UNCHANGED <<memvars, cachevars, vecvars, skillvars>>
  \/ part = "skills"  /\ Skills!SkillNext /\ UNCHANGED <<memvars, cachevars, vecvars, dbvars>>

DataNext == \/ StoresNext  /\ UNCHANGED <<part, enginevars>>
            \/ EnginesNext /\ UNCHANGED <<part, storevars>>

DataSpec == DataInit /\ [][DataNext]_<<part, storevars, enginevars>>

-----------------------------------------------------------------------------
(* The properties of the parts, where they are explained.                   *)
RecordsExact   == /\ part = "log" => SnapshotIsTail
                  /\ part = "text" => Text!TextExact
TextReadBack   == part = "text" => Text!TextReadBack
RestoredAsSaved == Restore!RestoresSaved
MemoryExact    == part = "memory" => Mem!MemoryExact
TiersCoherent  == part = "cache" => Mem!TiersCoherent
VectorsExact   == part = "vectors" => Db!VectorsExact
DbExact        == part \in {"tree", "rows"} => Db!DbExact
SkillsExact    == part = "skills" => Skills!SkillsExact
==============================================================================
