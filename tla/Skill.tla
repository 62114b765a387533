-------------------------------- MODULE Skill --------------------------------
(***************************************************************************)
(* agent/skill.c: the skills of an agent, found by id or through a hash    *)
(* map from names to slots, with statistics that decide which of them are  *)
(* retired (agent_evaluate_and_retire of agent/evolution.c).               *)
(*                                                                         *)
(* A skill runs without the lock: its slot is looked up, the function is   *)
(* called, and its result is counted under the lock, so that other         *)
(* coroutines register, unregister and retire skills in between.  The      *)
(* success rate is a fraction.  Slots start with 0 as in the code.         *)
(***************************************************************************)
EXTENDS Integers, FiniteSets, SequencesExt

CONSTANTS MAX_SKILLS, SKILL_MIN_CALLS_EVAL,
          Threshold,              \* SKILL_SUCCESS_THRESHOLD, a fraction <<n, d>>
          Names, Tasks,           \* of skills; the coroutines that execute skills
          MaxCalls, MaxId         \* bounds: calls of one skill, ids given

VARIABLES skills,                 \* [0 .. count - 1 -> skills]
          next_id,
          registry_by_name,       \* [names -> slots]
          running,                \* [Tasks -> the slot of the skill a task runs]
          outcomes                \* [ids -> [BOOLEAN -> executions that succeeded, failed]]

skillvars == <<skills, next_id, registry_by_name, running, outcomes>>

count   == Cardinality(DOMAIN skills)
NoSlot  == -1

skill_init ==
  /\ skills = << >> /\ next_id = 1 /\ registry_by_name = << >>
  /\ running = [t \in Tasks |-> NoSlot]
  /\ outcomes = [id \in 1 .. MaxId |-> [ok \in BOOLEAN |-> 0]]

Actives == {i \in DOMAIN skills : skills[i].active}
Put(map, name, slot) == [n \in DOMAIN map \cup {name} |-> IF n = name THEN slot ELSE map[n]]
Without(map, names)  == [n \in DOMAIN map \ names |-> map[n]]

skill_register(name) ==
  /\ count < MAX_SKILLS /\ next_id <= MaxId
  /\ \A i \in Actives : skills[i].name # name
  /\ skills' = [i \in 0 .. count |-> IF i < count THEN skills[i] ELSE
       [id |-> next_id, name |-> name, fn |-> TRUE, active |-> TRUE,
        call_count |-> 0, fail_count |-> 0, success_rate |-> <<1, 1>>]]
  /\ next_id' = next_id + 1
  /\ registry_by_name' = Put(registry_by_name, name, count)
  /\ UNCHANGED <<running, outcomes>>

(* The skill may have been unregistered or retired before: its name leaves  *)
(* the registry even if it is another skill's by now.                       *)
skill_unregister(id) ==
  /\ \E i \in DOMAIN skills :
       /\ skills[i].id = id
       /\ skills' = [skills EXCEPT ![i].active = FALSE, ![i].fn = FALSE]
       /\ registry_by_name' = Without(registry_by_name, {skills[i].name})
  /\ UNCHANGED <<next_id, running, outcomes>>

(* Mutation: what is not in the registry is not looked for.                 *)
Scan_None(name) == {}

(* The slots that the scan of the array finds.                              *)
Scan(name) == {i \in Actives : skills[i].name = name}

(* A slot of 0 looks like no entry at all; then, and when the entry is out  *)
(* of date, the array is searched.                                          *)
skill_find_by_name(name) ==
  LET v == IF name \in DOMAIN registry_by_name THEN registry_by_name[name] ELSE 0
  IN IF v > 0 /\ v < count /\ v \in Actives /\ skills[v].name = name THEN v
     ELSE IF Scan(name) = {} THEN NoSlot
     ELSE CHOOSE i \in Scan(name) : \A j \in Scan(name) : i <= j

skill_find_by_id(id) == {i \in Actives : skills[i].id = id}

-----------------------------------------------------------------------------
(* skill_execute up to the call of the function.                            *)
skill_execute(t, id) ==
  /\ running[t] = NoSlot
  /\ \E i \in skill_find_by_id(id) :
       /\ skills[i].fn /\ skills[i].call_count < MaxCalls
       /\ running' = [running EXCEPT ![t] = i]
  /\ UNCHANGED <<skills, next_id, registry_by_name, outcomes>>

(* (rate * (calls - 1) + 1 or 0) / calls                                    *)
NewRate(r, calls, ok) == <<r[1] * (calls - 1) + IF ok THEN r[2] ELSE 0, r[2] * calls>>

(* The rest of skill_execute, after the function has returned.              *)
Executed(t, ok) ==
  LET i == running[t]
      s == skills[i]
  IN /\ i # NoSlot
     /\ skills' = [skills EXCEPT ![i].call_count = @ + 1,
                                 ![i].fail_count = IF ok THEN @ ELSE @ + 1,
                                 ![i].success_rate = NewRate(@, s.call_count + 1, ok)]
     /\ outcomes' = [outcomes EXCEPT ![s.id][ok] = @ + 1]
     /\ running' = [running EXCEPT ![t] = NoSlot]
     /\ UNCHANGED <<next_id, registry_by_name>>

(* What skill_evaluate_all flags and skill_auto_retire retires.             *)
Poor == {i \in Actives : /\ skills[i].call_count >= SKILL_MIN_CALLS_EVAL
                         /\ skills[i].success_rate[1] * Threshold[2]
                              < Threshold[1] * skills[i].success_rate[2]}

(* Also agent_evaluate_and_retire: it goes on to write new code for each    *)
(* retired skill, which tcc_get_symbol never finds a function in.           *)
skill_auto_retire ==
  /\ Poor # {}
  /\ skills' = [i \in DOMAIN skills |->
       IF i \in Poor THEN [skills[i] EXCEPT !.active = FALSE, !.fn = FALSE] ELSE skills[i]]
  /\ registry_by_name' = Without(registry_by_name, {skills[i].name : i \in Poor})
  /\ UNCHANGED <<next_id, running, outcomes>>

(* skill_serialize, and skill_deserialize of the image into a new engine:   *)
(* the active skills in their order, without their functions.               *)
skill_deserialize ==
  LET old == SetToSortSeq(Actives, <)
      new == [i \in 0 .. Len(old) - 1 |-> [skills[old[i + 1]] EXCEPT !.fn = FALSE]]
  IN /\ running = [t \in Tasks |-> NoSlot]
     /\ skills' = new
     /\ registry_by_name' = [n \in {new[i].name : i \in DOMAIN new} |->
                               CHOOSE i \in DOMAIN new : new[i].name = n]
     /\ UNCHANGED <<next_id, running, outcomes>>

SkillNext ==
  \/ \E name \in Names : skill_register(name)
  \/ \E i \in DOMAIN skills : skill_unregister(skills[i].id)
  \/ \E t \in Tasks : \/ \E i \in DOMAIN skills : skill_execute(t, skills[i].id)
                      \/ \E ok \in BOOLEAN : Executed(t, ok)
  \/ skill_auto_retire
  \/ skill_deserialize

-----------------------------------------------------------------------------
(* A name finds the active skill of that name whenever there is one, though *)
(* unregistering and retiring remove names from the registry that belong to *)
(* a newer skill by then; there is never more than one.  The statistics of  *)
(* a skill are those of its own executions, also of one that was retired    *)
(* while it ran: the rate is the share of them that succeeded.              *)
SkillsExact ==
  /\ \A i, j \in Actives : i # j => skills[i].name # skills[j].name
  /\ \A i, j \in DOMAIN skills : i # j => skills[i].id # skills[j].id
  /\ \A name \in Names :
       IF \E i \in Actives : skills[i].name = name
       THEN skill_find_by_name(name) \in Scan(name)
       ELSE skill_find_by_name(name) = NoSlot
  /\ \A i \in DOMAIN skills :
       LET s == skills[i]
           n == outcomes[s.id]
       IN /\ s.call_count = n[TRUE] + n[FALSE] /\ s.fail_count = n[FALSE]
          /\ s.call_count > 0 => s.success_rate[1] * s.call_count = n[TRUE] * s.success_rate[2]
==============================================================================
