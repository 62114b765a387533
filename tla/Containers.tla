----------------------------- MODULE Containers -----------------------------
(***************************************************************************)
(* The table of containers behind the docker commands of the terminal      *)
(* (container/lc_container.c) and the bundles registered for them          *)
(* (container/oci_runtime.c).  A container is found by its whole identifier*)
(* aevos_lc_<n>, by its name focused_<n>, or by a beginning of its         *)
(* identifier that no other container has.  A query is the digits behind   *)
(* the fixed part; the digits of a number are to base Base.  Nothing       *)
(* revokes the flow to the host that lc_docker_run asks for.               *)
(***************************************************************************)
EXTENDS Integers, FiniteSets, SequencesExt

CONSTANTS LC_MAX_CONTAINERS, LC_OCI_MAX_BUNDLES, Base,
          MaxId          \* bound: containers that are started

VARIABLES slots,         \* id 0: free
          g_next_id,
          g_bundles,     \* the ids that have a bundle, in order
          stopped        \* ghost: the containers that were ever stopped

ctrvars == <<slots, g_next_id, g_bundles, stopped>>

Free == [id |-> 0, state |-> "created"]

lc_layer_init ==
  /\ slots = [i \in 1 .. LC_MAX_CONTAINERS |-> Free] /\ g_next_id = 1
  /\ g_bundles = << >> /\ stopped = {}

Digits[n \in Nat] == IF n < Base THEN <<n>> ELSE Append(Digits[n \div Base], n % Base)

Used == {i \in DOMAIN slots : slots[i].id # 0}

Queries == [by : {"id", "name"}, digits : {<< >>} \cup {Digits[n] : n \in 1 .. MaxId}]

(* The slot that a query finds, 0 for none.  Names are compared as a whole. *)
find_slot(q) ==
  LET whole  == {i \in Used : Digits[slots[i].id] = q.digits}
      begins == {i \in Used : q.by = "id" /\ IsPrefix(q.digits, Digits[slots[i].id])}
  IN IF whole # {} THEN Min(whole)
     ELSE IF Cardinality(begins) = 1 THEN Min(begins) ELSE 0

slot_alloc == DOMAIN slots \ Used

lc_oci_register_bundle(id) ==
  g_bundles' = IF Len(g_bundles) < LC_OCI_MAX_BUNDLES THEN Append(g_bundles, id) ELSE g_bundles

lc_docker_run ==
  /\ slot_alloc # {} => g_next_id <= MaxId
  /\ IF slot_alloc = {} THEN UNCHANGED ctrvars
     ELSE /\ slots' = [slots EXCEPT ![Min(slot_alloc)] = [id |-> g_next_id, state |-> "running"]]
          /\ g_next_id' = g_next_id + 1
          /\ lc_oci_register_bundle(g_next_id)
          /\ UNCHANGED stopped

lc_docker_stop(q) ==
  LET s == find_slot(q) IN
  IF s = 0 \/ slots[s].state = "stopped" THEN UNCHANGED ctrvars
  ELSE /\ slots' = [slots EXCEPT ![s].state = "stopped"]
       /\ stopped' = stopped \cup {slots[s].id}
       /\ UNCHANGED <<g_next_id, g_bundles>>

lc_docker_rm(q) ==
  LET s == find_slot(q) IN
  IF s = 0 \/ slots[s].state # "stopped" THEN UNCHANGED ctrvars
  ELSE /\ slots' = [slots EXCEPT ![s] = Free]
       /\ UNCHANGED <<g_next_id, g_bundles, stopped>>

ContainersNext == \/ lc_docker_run
                  \/ \E q \in Queries : lc_docker_stop(q) \/ lc_docker_rm(q)

-----------------------------------------------------------------------------
(* Every container is found under its whole identifier and its name, also   *)
(* when that is the beginning of another one's in an earlier slot, and a    *)
(* query finds no container that it does not fit.  Only stopped containers  *)
(* disappear.  The first containers that were started have a bundle, later  *)
(* ones do not, because no bundle is given back.                            *)
ContainersExact ==
  /\ \A i \in Used, by \in {"id", "name"} : find_slot([by |-> by, digits |-> Digits[slots[i].id]]) = i
  /\ \A q \in Queries : find_slot(q) # 0 => IsPrefix(q.digits, Digits[slots[find_slot(q)].id])
  /\ (1 .. g_next_id - 1) \ stopped \subseteq {slots[i].id : i \in Used}
  /\ g_bundles = [k \in 1 .. Min({g_next_id - 1, LC_OCI_MAX_BUNDLES}) |-> k]
=============================================================================
