------------------------------- MODULE MCShell -------------------------------
(***************************************************************************)
(* Input and the shell, explored side by side: the ring of events on a PC  *)
(* and on a board without PS/2, the terminal as an editor, as a view and   *)
(* with its environment, the panels with the terminal under them, the      *)
(* agents that answer, once as a table and once as the rounds of one of    *)
(* them, the language model that writes the answers, and the containers of *)
(* the docker commands.  The initial state chooses; the rest keeps its     *)
(* initial state.                                                          *)
(***************************************************************************)
EXTENDS Shell

VARIABLES part,
          ring, eq_tail, current_modifiers, mouse_pos, mouse_buttons, kb_extended,
          mouse_bytes, stage, copy, call, stroke, packet, rx, held, dev_buttons,
          seen, fifo, lost, raced,
          agents, active_agent, next_id, agent, heap, cancel_broadcast, rounds, chosen, unborn,
          phase, prompt, tokens, max_gen, pos, cache, beyond, made, output,
          slots, g_next_id, g_bundles, stopped

hidvars == <<ring, eq_tail, current_modifiers, mouse_pos, mouse_buttons, kb_extended,
             mouse_bytes, stage, copy, call, stroke, packet, rx, held, dev_buttons, seen, fifo,
             lost, raced>>

agvars == <<agents, active_agent, next_id, agent, heap, cancel_broadcast, rounds, chosen, unborn>>

modelvars == <<phase, prompt, tokens, max_gen, pos, cache, beyond, made, output>>

ctrvars == <<slots, g_next_id, g_bundles, stopped>>

(* Input.  RALT and "/" of the keypad have prefixed codes, one known and    *)
(* one not; a packet may move the mouse or not.  The PC once with its mouse *)
(* and once with a serial line and a second keyboard on virtio-input.       *)
MCDeltas == {<<1, 0>>, <<0, 0>>}

Ps2 == INSTANCE Hid WITH
         PS2 <- TRUE, EVENT_QUEUE_SIZE <- 3, Keys <- {"RALT", "KP_SLASH"}, VirtioKeys <- {},
         Buttons <- {0}, VirtioButtons <- {}, Deltas <- MCDeltas, VirtioDeltas <- {},
         mouse_max_x <- 1, mouse_max_y <- 1, Chars <- {}, RxMax <- 0
Mixed == INSTANCE Hid WITH
         PS2 <- TRUE, EVENT_QUEUE_SIZE <- 3, Keys <- {"RALT"}, VirtioKeys <- {"LALT"},
         Buttons <- {}, VirtioButtons <- {}, Deltas <- {}, VirtioDeltas <- {},
         mouse_max_x <- 1, mouse_max_y <- 1, Chars <- {"ESC", "^B"}, RxMax <- 2
Polled == INSTANCE Hid WITH
         PS2 <- FALSE, EVENT_QUEUE_SIZE <- 3, Keys <- {}, VirtioKeys <- {"LALT"},
         Buttons <- {}, VirtioButtons <- {0}, Deltas <- {}, VirtioDeltas <- MCDeltas,
         mouse_max_x <- 1, mouse_max_y <- 1,
         Chars <- {"ESC", "[", "3", "~"}, RxMax <- 3

(* The terminal.  Editor: words of two letters, "ab" and "b" to complete.   *)
Editor == INSTANCE Terminal WITH
            TERM_INPUT_LEN <- 4, TERM_HISTORY_COUNT <- 2, TERM_HISTORY_LEN <- 2,
            TERM_MAX_LINES <- 1, TERM_MAX_ENV <- 2, Letters <- {"a", "b"},
            builtin_commands <- {<<"a", "b">>, <<"b">>}, Meaning <- << >>, Roots <- {}, TERM_ENV_KEY_LEN <- 2,
            TERM_ENV_VAL_LEN <- 2, line_h <- 1, view_h <- 2

(* View: clearing, comments and output of several lines, six lines kept; a  *)
(* screen of three lines and a half.                                        *)
ViewMeaning == << "c" >> :> [op |-> "clear"] @@ << "h" >> :> [op |-> "comment"]
            @@ << "z" >> :> [op |-> "print", lines |-> 2]

View == INSTANCE Terminal WITH
          TERM_INPUT_LEN <- 2, TERM_HISTORY_COUNT <- 0, TERM_HISTORY_LEN <- 2,
          TERM_MAX_LINES <- 6, TERM_MAX_ENV <- 2, Letters <- {"c", "h", "z"},
          builtin_commands <- {<<"c">>, <<"c", "l">>}, Meaning <- ViewMeaning, Roots <- {}, TERM_ENV_KEY_LEN <- 2,
          TERM_ENV_VAL_LEN <- 2, line_h <- 2, view_h <- 7

(* Environment: one variable more than fits, one with a name that is cut,   *)
(* with and without a value, HOME emptied, PWD set to what no cd would,     *)
(* removed, and set again by cd, which also fails.                          *)
Path(a, t) == [abs |-> a, toks |-> t]
Export(k, v) == [op |-> "export", key |-> k, val |-> v, given |-> TRUE]
Name(k) == [op |-> "export", key |-> k, given |-> FALSE]
EnvMeaning ==
     << "e" >> :> Export(<<"X">>, <<"v", "w">>)
  @@ << "g" >> :> Name(<<"X", "Y">>)
  @@ << "h" >> :> Export(<<"X", "Y">>, <<"v">>)
  @@ << "f" >> :> Name(<<"HOME">>)
  @@ << "p" >> :> Export(<<"PWD">>, <<"tmp", "..">>)
  @@ << "q" >> :> Name(NoName)
  @@ << "n" >> :> [op |-> "env"]
  @@ << "u" >> :> [op |-> "unset", key |-> <<"PWD">>]
  @@ << "w" >> :> [op |-> "unset", key |-> NoName]
  @@ << "x" >> :> [op |-> "unset", key |-> <<"X">>]
  @@ << "d" >> :> [op |-> "cd", path |-> <<>>]
  @@ << "s" >> :> [op |-> "cd", path |-> <<Path(FALSE, <<"longer">>)>>]
  @@ << "t" >> :> [op |-> "cd", path |-> <<Path(FALSE, <<"..", ".">>)>>]
  @@ << "r" >> :> [op |-> "cd", path |-> <<Path(TRUE, <<"etc">>)>>]

Environ == INSTANCE Terminal WITH
             TERM_INPUT_LEN <- 2, TERM_HISTORY_COUNT <- 0, TERM_HISTORY_LEN <- 2,
             TERM_MAX_LINES <- 0, TERM_MAX_ENV <- 4, Letters <- {t[1] : t \in DOMAIN EnvMeaning},
             builtin_commands <- {}, Meaning <- EnvMeaning, Roots <- {"workspace", "tmp"},
             TERM_ENV_KEY_LEN <- 2, TERM_ENV_VAL_LEN <- 2, line_h <- 1, view_h <- 1

(* The panels: the constants are in the configuration.                      *)
PanelWords    == {<<"a">>}
PanelMeaning  == << >>
PanelSections == <<"Files">>
PanelEntries  == <<1>>

Table == INSTANCE AgentCore WITH
           MAX_AGENTS <- 2, SEP_MAX_PLAN_STEPS <- 2, MaxScan <- 5,
           MayFail <- {"agent", "tiers", "memory", "registry", "response"},
           MaxId <- 3, MaxRounds <- 0
Rounds == INSTANCE AgentCore WITH
           MAX_AGENTS <- 1, SEP_MAX_PLAN_STEPS <- 2, MaxScan <- 5,
           MayFail <- {}, MaxId <- 1, MaxRounds <- 3

(* Bytes 3 and 4; words that compete for a byte, twice the same word, one   *)
(* that only two words make and one without a text; a context of four for   *)
(* prompts of five.                                                         *)
MCVocab == << [text |-> <<3, 4>>, score |-> 2], [text |-> <<4, 3>>, score |-> 3],
              [text |-> <<3, 4, 3>>, score |-> 1], [text |-> <<4, 3>>, score |-> 4],
              [text |-> <<4, 3, 4, 3>>, score |-> 1], [text |-> << >>, score |-> 5] >>

Model == INSTANCE Llm WITH
           BYTES <- 5, Letters <- {3, 4}, Vocab <- MCVocab, n_ctx <- 4, n_layer <- 2,
           LLM_MAX_BATCH <- 3, out_size <- 4, MaxPrompt <- 5

Docker == INSTANCE Containers WITH
            LC_MAX_CONTAINERS <- 3, LC_OCI_MAX_BUNDLES <- 4, Base <- 2, MaxId <- 7

MCInit ==
  /\ part \in {"ps2", "mixed", "polled", "editor", "view", "environ", "panels", "agents", "rounds", "llm",
              "containers"}
  /\ Model!Init /\ Docker!lc_layer_init
  /\ IF part = "rounds" THEN Rounds!agent_system_init ELSE Table!agent_system_init
  /\ Polled!hid_init /\ Ps2!hid_init
  /\ active_panel = "chat" /\ show_sidebar = TRUE /\ SidebarInit /\ ChatInit
  /\ CASE part = "editor"  -> Editor!terminal_init
       [] part = "view"    -> View!terminal_init
       [] part = "environ" -> Environ!terminal_init
       [] OTHER            -> terminal_init

MCNext ==
  \/ part = "ps2"     /\ Ps2!Next     /\ UNCHANGED <<part, vars, shellvars, agvars, modelvars, ctrvars>>
  \/ part = "mixed"   /\ Mixed!Next   /\ UNCHANGED <<part, vars, shellvars, agvars, modelvars, ctrvars>>
  \/ part = "polled"  /\ Polled!Next  /\ UNCHANGED <<part, vars, shellvars, agvars, modelvars, ctrvars>>
  \/ part = "editor"  /\ Editor!Next  /\ UNCHANGED <<part, hidvars, shellvars, agvars, modelvars, ctrvars>>
  \/ part = "view"    /\ View!Next    /\ UNCHANGED <<part, hidvars, shellvars, agvars, modelvars, ctrvars>>
  \/ part = "environ" /\ Environ!Next /\ UNCHANGED <<part, hidvars, shellvars, agvars, modelvars, ctrvars>>
  \/ part = "panels"  /\ ShellNext    /\ UNCHANGED <<part, hidvars, agvars, modelvars, ctrvars>>
  \/ part = "agents"  /\ Table!AgentNext  /\ UNCHANGED <<part, vars, shellvars, hidvars, modelvars, ctrvars>>
  \/ part = "rounds"  /\ Rounds!AgentNext /\ UNCHANGED <<part, vars, shellvars, hidvars, modelvars, ctrvars>>
  \/ part = "llm"     /\ Model!LlmNext    /\ UNCHANGED <<part, vars, shellvars, hidvars, agvars, ctrvars>>
  \/ part = "containers" /\ Docker!ContainersNext
     /\ UNCHANGED <<part, vars, shellvars, hidvars, agvars, modelvars>>

MCSpec == MCInit /\ [][MCNext]_<<part, vars, shellvars, hidvars, agvars, modelvars, ctrvars>>

-----------------------------------------------------------------------------
(* The properties of Hid, Terminal, AgentCore, Llm and Containers, where    *)
(* they are explained, for every instance.  ServicesExact: the tables and   *)
(* answers of agents, language model and containers are what the calls and  *)
(* commands made of them.                                                   *)
ServicesExact   == /\ part \in {"agents", "rounds"} => Table!AgentsExact
                   /\ part = "llm" => Model!InferenceExact
                   /\ part = "containers" => Docker!ContainersExact
QueueExact      == part \in {"ps2", "mixed", "polled"} => Ps2!QueueExact
InputTracked    == part \in {"ps2", "mixed", "polled"} => Ps2!InputTracked
PromptInView    == CASE part = "editor"  -> Editor!PromptVisible
                     [] part = "view"    -> View!PromptVisible
                     [] part = "environ" -> Environ!PromptVisible
                     [] OTHER            -> PromptVisible
==============================================================================
