----------------------------- MODULE AgentCore ------------------------------
(***************************************************************************)
(* The agent system (agent/agent_core.c): the table of agents and the one  *)
(* that is active, the allocations an agent consists of, cancellation, and *)
(* a round of agent_process_input with the planner and the verifier of     *)
(* agent/sep_plane.c.  A call runs to its end before the next one starts,  *)
(* and every path through it ends with AGENT_IDLE and AGENT_TOOL_READY;    *)
(* the two are not variables.  What the log keeps is in Mailbox.           *)
(***************************************************************************)
EXTENDS Integers, FiniteSets, SequencesExt

CONSTANTS
  MAX_AGENTS,
  SEP_MAX_PLAN_STEPS,
  MaxScan,           \* entries the verifier looks at, 12
  MayFail,           \* bound: the allocations of agent_create that may fail
  MaxId, MaxRounds   \* bounds: agents created, and inputs processed

VARIABLES
  agents,            \* the ids of the table, in order (count is its length)
  active_agent,      \* an index, from 0
  next_id,
  agent,             \* what is known of the agent with an id
  heap,              \* <<id, part>> that is allocated
  cancel_broadcast,  \* the flag of the scheduler
  rounds,
  chosen,            \* ghost: the agent made active last; 0 when one before it was destroyed
  unborn             \* ghost: ids of agents whose creation failed

agvars == <<agents, active_agent, next_id, agent, heap, cancel_broadcast, rounds, chosen, unborn>>

Ids   == 1 .. MaxId
Parts == {"agent", "tiers", "memory", "registry", "response"}

(* seen is a ghost: the entries whose roles the verifier knew when it last  *)
(* ran.                                                                     *)
Unused == [cancel |-> FALSE, hist |-> << >>, plan |-> << >>, seen |-> << >>,
           verify |-> [streak |-> 0, ok |-> TRUE, phase |-> 0]]

agent_system_init ==
  /\ agents = << >> /\ active_agent = 0 /\ next_id = 1
  /\ agent = [id \in Ids |-> Unused]
  /\ heap = {} /\ cancel_broadcast = FALSE /\ rounds = 0 /\ chosen = 0 /\ unborn = {}

(* given: the allocations that succeed.  The tiers and the registry are     *)
(* done without; the registry is not given back when the last one fails.    *)
agent_create(given) ==
  LET id == next_id IN
  /\ Len(agents) < MAX_AGENTS /\ id <= MaxId
  /\ "agent" \in given
  /\ next_id' = id + 1
  /\ IF {"memory", "response"} \subseteq given
     THEN /\ agents' = Append(agents, id)
          /\ heap' = heap \cup ({id} \X given)
          /\ active_agent' = IF agents = << >> THEN 0 ELSE active_agent
          /\ chosen' = IF agents = << >> THEN id ELSE chosen
          /\ UNCHANGED unborn
     ELSE /\ heap' = heap \cup ({id} \X (IF "memory" \in given THEN given \cap {"registry"} ELSE {}))
          /\ unborn' = unborn \cup {id}
          /\ UNCHANGED <<agents, active_agent, chosen>>
  /\ UNCHANGED <<agent, cancel_broadcast, rounds>>

(* What agent_destroy gives back.                                           *)
Released(id) == {id} \X (Parts \cup {"texts"})

(* The later agents move down; active_agent stays as it is.                 *)
agent_destroy(id) ==
  LET i == CHOOSE k \in DOMAIN agents : agents[k] = id IN
  /\ id \in ToSet(agents)
  /\ agents' = RemoveAt(agents, i)
  /\ heap' = heap \ Released(id)
  /\ chosen' = IF i <= active_agent + 1 THEN 0 ELSE chosen
  /\ UNCHANGED <<active_agent, next_id, agent, cancel_broadcast, rounds, unborn>>

agent_set_active(id) ==
  /\ id \in ToSet(agents)
  /\ active_agent' = (CHOOSE k \in DOMAIN agents : agents[k] = id) - 1
  /\ chosen' = id
  /\ UNCHANGED <<agents, next_id, agent, heap, cancel_broadcast, rounds, unborn>>

(* The active agent, 0 for NULL.                                            *)
agent_get_active == IF active_agent < Len(agents) THEN agents[active_agent + 1] ELSE 0

agent_cancel_request(id) ==
  /\ id \in ToSet(agents)
  /\ agent' = [agent EXCEPT ![id].cancel = TRUE]
  /\ cancel_broadcast' = TRUE
  /\ UNCHANGED <<agents, active_agent, next_id, heap, rounds, chosen, unborn>>

agent_system_cancel_broadcast ==
  /\ agent' = [id \in Ids |-> [agent[id] EXCEPT !.cancel = @ \/ id \in ToSet(agents)]]
  /\ cancel_broadcast' = TRUE
  /\ UNCHANGED <<agents, active_agent, next_id, heap, rounds, chosen, unborn>>

-----------------------------------------------------------------------------
(* The outcomes of the [TOOL:...] of a response: a name that is not known,  *)
(* a skill that succeeds, one that fails.                                   *)
Outcomes == {"unknown", "ok", "fail"}

(* What a search for [RESULT:FAIL] and then [RESULT:OK] tells of the text.  *)
LineOf(results) == IF results \cap {"fail", "unknown"} # {} THEN "fail"
                   ELSE IF results # {} THEN "ok" ELSE "none"

(* What the verifier finds of the results.  One that has no room in         *)
(* tool_output is left out, and a text that history_get cannot decompress,  *)
(* or that is too long for the buffer, comes back compressed (Lz4), so that *)
(* only some of its results can be found.                                   *)
LinesOf(results) == {LineOf(found) : found \in SUBSET results}

sep_planner_push(plan, kind) == IF Len(plan) >= SEP_MAX_PLAN_STEPS THEN plan ELSE Append(plan, kind)

(* Mutation: a success does not end the row of failures.                    *)
Verified_NoReset(v, e) ==
  IF e.role # "tool" THEN v
  ELSE IF e.line = "fail"
  THEN [streak |-> v.streak + 1, ok |-> v.ok /\ v.streak + 1 < 2, phase |-> 2]
  ELSE IF e.line = "ok" THEN [v EXCEPT !.phase = 1] ELSE v

(* One turn of the verifier's loop.                                         *)
Verified(v, e) ==
  IF e.role # "tool" THEN v
  ELSE IF e.line = "fail"
  THEN [streak |-> v.streak + 1, ok |-> v.ok /\ v.streak + 1 < 2, phase |-> 2]
  ELSE IF e.line = "ok" THEN [v EXCEPT !.streak = 0, !.phase = 1] ELSE v

Scanned(hist) == SubSeq(hist, Max({1, Len(hist) - MaxScan + 1}), Len(hist))

sep_verifier_check_history_tail(hist, phase) ==
  FoldLeft(Verified, [streak |-> 0, ok |-> TRUE, phase |-> phase], Scanned(hist))

Entry(role, line) == [role |-> role, line |-> line]

(* history_push, whose result nobody looks at, and its evictions.           *)
Pushed(hist, e, failing) == IF e.role = failing THEN hist ELSE Append(hist, e)
Newest(hist, kept)       == SubSeq(hist, Max({1, Len(hist) - kept + 1}), Len(hist))

(* A tool was found and called, so that its results are pushed.             *)
Tooled(calls, failing) == failing # "output" /\ calls \cap {"ok", "fail"} # {}

(* An input that is processed.  llm is "none", "error" or "ok"; failing is  *)
(* the allocation of the round that fails, if one does; line is what the    *)
(* verifier will find in the tool results; and the pushes evict all but the *)
(* last kept entries.  Without the copy of the roles the verifier takes     *)
(* every entry for one of the user.  The evolver, called when the verifier  *)
(* finds two failures, only writes to the log, because auto_evolve_enabled  *)
(* is never set.                                                            *)
Round(a, llm, calls, failing, line, kept) ==
  LET asked   == Pushed(a.hist, Entry("user", "none"), failing)
      obs     == sep_planner_push(<< >>, "obs")
      thought == IF llm = "ok" THEN sep_planner_push(obs, "thought") ELSE obs
      tooled  == Tooled(calls, failing)
      results == IF tooled THEN Pushed(asked, Entry("tool", line), failing) ELSE asked
      hist    == Newest(Pushed(results, Entry("assistant", "none"), failing), kept)
      roles   == IF failing = "roles" THEN << >> ELSE hist
  IN IF failing = "prompt"
     THEN [a EXCEPT !.hist = Newest(asked, kept), !.plan = obs]
     ELSE [a EXCEPT !.hist = hist, !.seen = roles,
                    !.plan = IF tooled THEN sep_planner_push(thought, "action") ELSE thought,
                    !.verify = sep_verifier_check_history_tail(roles, a.verify.phase)]

agent_process_input(id) ==
  /\ id \in ToSet(agents)
  /\ IF agent[id].cancel
     THEN /\ agent' = [agent EXCEPT ![id].cancel = FALSE]
          /\ cancel_broadcast' = FALSE
          /\ UNCHANGED <<heap, rounds>>
     ELSE /\ rounds < MaxRounds /\ rounds' = rounds + 1
          /\ \E llm \in {"none", "error", "ok"},
                failing \in {"no", "user", "prompt", "output", "tool", "assistant", "roles"},
                kept \in 1 .. Len(agent[id].hist) + 3 :
             \E calls \in SUBSET IF llm = "ok" THEN Outcomes ELSE {} :
             \E line \in LinesOf(calls) :
               agent' = [agent EXCEPT ![id] = Round(@, llm, calls, failing, line, kept)]
          /\ heap' = heap \cup {<<id, "texts">>}
          /\ UNCHANGED cancel_broadcast
  /\ UNCHANGED <<agents, active_agent, next_id, chosen, unborn>>

AgentNext ==
  \/ \E failed \in SUBSET MayFail : agent_create(Parts \ failed)
  \/ \E id \in Ids : \/ agent_destroy(id) \/ agent_set_active(id)
                     \/ agent_cancel_request(id) \/ agent_process_input(id)
  \/ agent_system_cancel_broadcast

-----------------------------------------------------------------------------
ToolLines(hist) == SelectSeq(Scanned(hist), LAMBDA e : e.role = "tool" /\ e.line # "none")

(* sep_plane.h: the tool channel must not have two [RESULT:FAIL] in a row.  *)
(* What the verifier says after a round is that, of the tool results among  *)
(* the entries it looks at, whatever lies between them; its count is that   *)
(* of the failures at the end.                                              *)
VerdictExact ==
  \A id \in ToSet(agents) :
    LET t == ToolLines(agent[id].seen)
        v == agent[id].verify
    IN /\ v.ok <=> ~ \E i \in 1 .. Len(t) - 1 : t[i].line = "fail" /\ t[i + 1].line = "fail"
       /\ \A i \in 1 .. Len(t) : i > Len(t) - v.streak <=> \A j \in i .. Len(t) : t[j].line = "fail"
       /\ t # << >> => v.phase = IF Last(t).line = "fail" THEN 2 ELSE 1

(* The table has each agent once and nobody else, no agent that is gone or  *)
(* was not completed owns memory, but for the registry that agent_create    *)
(* does not give back, and agent_get_active is the agent that was chosen,   *)
(* as long as none before it was destroyed.                                 *)
AgentsExact ==
  /\ IsInjective(agents) /\ ToSet(agents) \subseteq 1 .. next_id - 1 \ unborn
  /\ \A p \in heap : p[1] \in ToSet(agents) \/ (p[1] \in unborn /\ p[2] = "registry")
  /\ \A id \in ToSet(agents) : {id} \X {"agent", "memory", "response"} \subseteq heap
  /\ chosen # 0 => agent_get_active = chosen
  /\ VerdictExact
=============================================================================
