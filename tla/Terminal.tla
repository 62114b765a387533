------------------------------- MODULE Terminal -------------------------------
(***************************************************************************)
(* ui/terminal.c: the line editor, the command history, the output with    *)
(* its scrolling, the environment and the working directory, as the shell  *)
(* drives them with key releases and the mouse wheel.                      *)
(*                                                                         *)
(* A character is a letter of Letters or Space.  What a line means is the  *)
(* constant Meaning, from texts to commands; the texts of the output are   *)
(* left out, and a command prints its number of lines.  Heights are in     *)
(* pixels.  Paths and values are sequences of segments, names of variables *)
(* sequences of letters; a text that is too long is cut after one of them. *)
(* llm, docker and ping act on other components and print.                 *)
(***************************************************************************)
EXTENDS Integers, FiniteSets, SequencesExt

(* The text buffers of ui/terminal.c and ui/chat_view.c: an array of        *)
(* characters that ends in NUL, shifted in place by the loops behind each   *)
(* key.                                                                     *)
NUL == "nul"

Blank(size) == [i \in 0 .. size - 1 |-> NUL]

(* for (i = len; i >= cursor; i--) buf[i + 1] = buf[i]; buf[cursor] = ch    *)
InsertChar(buf, len, cursor, ch) ==
  [i \in DOMAIN buf |-> IF i = cursor THEN ch
                        ELSE IF i \in cursor + 1 .. len + 1 THEN buf[i - 1] ELSE buf[i]]

(* for (i = cursor - 1; i < len; i++) buf[i] = buf[i + 1]                   *)
DeleteChar(buf, len, cursor) ==
  [i \in DOMAIN buf |-> IF i \in cursor - 1 .. len - 1 THEN buf[i + 1] ELSE buf[i]]

(* A text and its NUL are copied to the front.                              *)
CopyText(buf, text) ==
  [i \in DOMAIN buf |-> IF i < Len(text) THEN text[i + 1]
                        ELSE IF i = Len(text) THEN NUL ELSE buf[i]]

(* The first len characters.                                                *)
Text(buf, len) == [i \in 1 .. len |-> buf[i - 1]]

(* What a user sees: the text to the left and to the right of the cursor.   *)
Line(l, r) == [l |-> l, r |-> r]
Typed(line, ch) == Line(Append(line.l, ch), line.r)
Erased(line) == IF line.l = << >> THEN line
                ELSE Line(SubSeq(line.l, 1, Len(line.l) - 1), line.r)
Left(line) == IF line.l = << >> THEN line
              ELSE Line(SubSeq(line.l, 1, Len(line.l) - 1), << line.l[Len(line.l)] >> \o line.r)
Right(line) == IF line.r = << >> THEN line ELSE Line(Append(line.l, Head(line.r)), Tail(line.r))
Home(line) == Line(<< >>, line.l \o line.r)
End(line)  == Line(line.l \o line.r, << >>)

-----------------------------------------------------------------------------
CONSTANTS TERM_INPUT_LEN, TERM_HISTORY_COUNT, TERM_HISTORY_LEN, TERM_MAX_LINES,
          TERM_MAX_ENV, TERM_PATH_MAX_SEG,
          TERM_ENV_KEY_LEN,       \* in letters
          TERM_ENV_VAL_LEN, TERM_CWD_LEN,   \* in segments
          Letters, Space,
          builtin_commands,       \* words that Tab completes
          Meaning,                \* [texts -> commands]
          Roots,                  \* names that begin with an allowed root
          line_h, view_h          \* height of a line, and of the terminal when shown

VARIABLES input_buf, input_len, cursor_pos,
          command_history, history_index,
          line_count, scroll_offset, scroll_follow_bottom,
          shown,                  \* show_terminal of the shell
          env, cwd,
          line, vars_set,         \* what the user expects: the line, the variables
          cut_names,              \* what longer names of variables were cut to
          stale                   \* a comment has turned following on without a scroll

editvars == <<input_buf, input_len, cursor_pos, line>>
histvars == <<command_history, history_index>>
viewvars == <<line_count, scroll_offset, scroll_follow_bottom, shown, stale>>
envvars  == <<env, cwd, vars_set, cut_names>>
vars     == <<editvars, histvars, viewvars, envvars>>

Least(a, b) == IF a < b THEN a ELSE b
Most(a, b)  == IF a > b THEN a ELSE b

-----------------------------------------------------------------------------
(* Scrolling, in pixels.  A hidden terminal has no height and still one     *)
(* visible line.                                                            *)
output_area_h == IF shown THEN Most(view_h, line_h) ELSE line_h
visible_lines == output_area_h \div line_h

MaxScroll(lines) == Most(0, (lines + 1) * line_h - output_area_h)
term_max_scroll == MaxScroll(line_count)

Clamp(offset, lines) == Least(Most(offset, 0), MaxScroll(lines))

(* terminal_render draws from the line in which the offset lies, and stops  *)
(* at the first line that does not fit whole; the prompt comes after        *)
(* line_count lines.                                                        *)
LastDrawn(offset) == offset \div line_h + visible_lines - 1

(* Mutation: the offset is left alone when a line comes in.                 *)
ScrollAfterLines_Never(lines) == scroll_offset

(* terminal_sync_scroll_after_line, after the last of several lines.        *)
ScrollAfterLines(lines) ==
  IF scroll_follow_bottom THEN MaxScroll(lines)
  ELSE Least(scroll_offset, MaxScroll(lines))

(* terminal_add_line n times: the oldest lines go when there are too many.  *)
terminal_print(n) ==
  /\ line_count' = Least(line_count + n, TERM_MAX_LINES)
  /\ scroll_offset' = ScrollAfterLines(line_count')
  /\ stale' = FALSE
  /\ UNCHANGED <<scroll_follow_bottom, shown>>

-----------------------------------------------------------------------------
(* Environment: entries in the order they were added; val << >> is the      *)
(* empty text.  A name is stored cut and looked up as it is given.          *)
NoValue == << "NULL" >>
NoName  == << >>

Cut(text, size) == SubSeq(text, 1, Least(Len(text), size - 1))    \* strncpy and the NUL

Index(es, key) == CHOOSE i \in 1 .. Len(es) : es[i].key = key /\ \A j \in 1 .. i - 1 : es[j].key # key
Has(es, key) == \E i \in 1 .. Len(es) : es[i].key = key

term_env_set(es, key, val) ==
  CASE Has(es, key) /\ val # NoValue -> [es EXCEPT ![Index(es, key)].val = Cut(val, TERM_ENV_VAL_LEN)]
    [] Has(es, key) /\ val = NoValue -> RemoveAt(es, Index(es, key))
    [] ~Has(es, key) /\ val # NoValue /\ Len(es) < TERM_MAX_ENV ->
         Append(es, [key |-> Cut(key, TERM_ENV_KEY_LEN), val |-> Cut(val, TERM_ENV_VAL_LEN)])
    [] OTHER -> es

term_env_get(es, key) == IF Has(es, key) THEN es[Index(es, key)].val ELSE NoValue

(* The same for the user: a set of variables, while the table has room.     *)
SetVar(vs, key, val) ==
  LET others == {v \in vs : v[1] # key} IN
  IF val = NoValue THEN others
  ELSE IF vs # others \/ Len(env) < TERM_MAX_ENV
       THEN others \cup {<<key, Cut(val, TERM_ENV_VAL_LEN)>>} ELSE vs

-----------------------------------------------------------------------------
(* Paths.  "longer" stands for a name of more than TERM_PATH_SEG_LEN - 1    *)
(* characters and "long" for what is left of it.                            *)
CutSeg(tok) == IF tok = "longer" THEN "long" ELSE tok

path_push_seg(segs, tok) ==
  CASE Len(segs) >= TERM_PATH_MAX_SEG -> segs
    [] Len(segs) < TERM_PATH_MAX_SEG /\ tok = "." -> segs
    [] Len(segs) < TERM_PATH_MAX_SEG /\ tok = ".." ->
         IF segs = << >> THEN segs ELSE SubSeq(segs, 1, Len(segs) - 1)
    [] OTHER -> Append(segs, CutSeg(tok))

path_tokenize_into(toks, segs) == FoldLeft(path_push_seg, segs, toks)

term_path_resolve(path) ==
  path_tokenize_into(path.toks,
                     IF path.abs THEN << >> ELSE path_tokenize_into(cwd, << >>))

TooLong(p) == Len(p) >= TERM_CWD_LEN
term_path_allowed(p) == IF p = << >> THEN TRUE ELSE p[1] \in Roots

-----------------------------------------------------------------------------
(* Commands.  Each sets the environment and prints after the prompt line.   *)
SetEnv(key, val) ==
  LET long == Len(key) >= TERM_ENV_KEY_LEN IN
  /\ env' = term_env_set(env, key, val)
  /\ vars_set' = IF long THEN vars_set ELSE SetVar(vars_set, key, val)
  /\ cut_names' = IF long /\ val # NoValue THEN cut_names \cup {Cut(key, TERM_ENV_KEY_LEN)} ELSE cut_names

(* The directory that cd goes to: HOME, whose text is taken as it is, or    *)
(* the argument.                                                            *)
CdTarget(c) ==
  IF c.path # << >> THEN term_path_resolve(c.path[1])
  ELSE LET home == term_env_get(env, <<"HOME">>)
       IN Cut(IF home \in {NoValue, << >>} THEN << "workspace" >> ELSE home, TERM_CWD_LEN)

cmd_cd(c) ==
  LET p == CdTarget(c) IN
  \/ /\ TooLong(p) \/ ~term_path_allowed(p)
     /\ UNCHANGED envvars
  \/ /\ ~TooLong(p) /\ term_path_allowed(p)
     /\ cwd' = p
     /\ SetEnv(<<"PWD">>, p)

(* With "=" the name is checked; without it, it is empty or taken whole.    *)
InvalidName(c) == c.given /\ Len(c.key) \notin 1 .. TERM_ENV_KEY_LEN - 1

cmd_export(c) ==
  \/ /\ InvalidName(c) \/ (c.key = NoName /\ ~c.given)
     /\ UNCHANGED envvars
  \/ /\ ~InvalidName(c) /\ c.key # NoName
     /\ SetEnv(c.key, IF c.given THEN c.val ELSE << >>)
     /\ cwd' = IF c.key = <<"PWD">> /\ c.given THEN Cut(c.val, TERM_CWD_LEN) ELSE cwd

cmd_unset(c) ==
  \/ c.key = NoName /\ UNCHANGED envvars
  \/ c.key # NoName /\ SetEnv(c.key, NoValue) /\ UNCHANGED cwd

(* echo, pwd, ls, env, help, sysinfo, agent, skill, memory, history, llm,   *)
(* docker, ping, exit, bash, reboot and unknown words only print.           *)
Lines(c) == CASE c.op = "cd" -> IF TooLong(CdTarget(c)) \/ ~term_path_allowed(CdTarget(c)) THEN 1 ELSE 0
              [] c.op = "export" -> IF InvalidName(c) THEN 1 ELSE IF c.key = NoName THEN Len(env) ELSE 0
              [] c.op = "unset" -> IF c.key = NoName THEN 1 ELSE 0
              [] c.op = "env" -> Len(env)
              [] OTHER -> c.lines

RunCommand(c) ==
  CASE c.op = "cd" -> cmd_cd(c)
    [] c.op = "export" -> cmd_export(c)
    [] c.op = "unset" -> cmd_unset(c)
    [] OTHER -> UNCHANGED envvars

-----------------------------------------------------------------------------
(* terminal_execute_command.  Leading spaces go; nothing happens to an      *)
(* empty line, and a comment only turns following on.  The history keeps    *)
(* the first TERM_HISTORY_COUNT commands, cut to their length.              *)
Stripped(text) == LET k == {i \in 1 .. Len(text) : text[i] # Space}
                  IN IF k = {} THEN << >>
                     ELSE SubSeq(text, CHOOSE i \in k : \A j \in k : i <= j, Len(text))

Trimmed(text) == Reverse(Stripped(Reverse(text)))

Command(text) == IF Trimmed(text) \in DOMAIN Meaning THEN Meaning[Trimmed(text)]
                 ELSE [op |-> "unknown", lines |-> 1]

Recorded(text) == IF Len(command_history) < TERM_HISTORY_COUNT
                  THEN Append(command_history, SubSeq(text, 1, Least(Len(text), TERM_HISTORY_LEN - 1)))
                  ELSE command_history

terminal_execute_command(text) ==
  LET c == Command(text) IN
  \/ text = << >> /\ UNCHANGED <<histvars, viewvars, envvars>>
  \/ /\ text # << >> /\ c.op = "comment"
     /\ scroll_follow_bottom' = TRUE
     /\ stale' = (stale \/ ~scroll_follow_bottom)
     /\ UNCHANGED <<histvars, line_count, scroll_offset, shown, envvars>>
  \/ /\ text # << >> /\ c.op # "comment"
     /\ command_history' = Recorded(text)
     /\ history_index' = Len(Recorded(text))
     /\ RunCommand(c)
     /\ line_count' = IF c.op = "clear" THEN 0
                      ELSE Least(line_count + 1 + Lines(c), TERM_MAX_LINES)
     /\ scroll_follow_bottom' = TRUE
     /\ scroll_offset' = MaxScroll(line_count')
     /\ stale' = FALSE
     /\ UNCHANGED shown

-----------------------------------------------------------------------------
(* terminal_handle_input, one action per key.                               *)
Shows(text) == /\ input_buf' = CopyText(input_buf, text)
               /\ input_len' = Len(text) /\ cursor_pos' = Len(text)
               /\ line' = Line(text, << >>)

KeyEnter ==
  \/ input_len = 0 /\ UNCHANGED vars
  \/ /\ input_len > 0
     /\ terminal_execute_command(Stripped(Text(input_buf, input_len)))
     /\ input_buf' = [input_buf EXCEPT ![0] = NUL]
     /\ input_len' = 0 /\ cursor_pos' = 0
     /\ line' = Line(<< >>, << >>)

KeyBackspace ==
  /\ IF cursor_pos > 0 /\ input_len > 0
     THEN /\ input_buf' = DeleteChar(input_buf, input_len, cursor_pos)
          /\ cursor_pos' = cursor_pos - 1 /\ input_len' = input_len - 1
     ELSE UNCHANGED <<input_buf, cursor_pos, input_len>>
  /\ line' = Erased(line)
  /\ UNCHANGED <<histvars, viewvars, envvars>>

(* Mutation: a full buffer takes one more character.                        *)
HasRoom_One(len) == len < TERM_INPUT_LEN

HasRoom(len) == len < TERM_INPUT_LEN - 1

KeyChar(ch) ==
  /\ HasRoom(input_len)
  /\ input_buf' = InsertChar(input_buf, input_len, cursor_pos, ch)
  /\ cursor_pos' = cursor_pos + 1 /\ input_len' = input_len + 1
  /\ line' = Typed(line, ch)
  /\ UNCHANGED <<histvars, viewvars, envvars>>

(* terminal_tab_complete: a single match replaces the text, several are     *)
(* listed under an empty line.                                              *)
KeyTab ==
  LET text    == Text(input_buf, input_len)
      matches == {w \in builtin_commands : IsPrefix(text, w)}
  IN
  /\ IF input_len > 0 /\ Cardinality(matches) = 1
          /\ Len(CHOOSE w \in matches : TRUE) < TERM_INPUT_LEN - 1
     THEN Shows(Append(CHOOSE w \in matches : TRUE, Space))
     ELSE UNCHANGED editvars
  /\ IF input_len > 0 /\ Cardinality(matches) > 1
     THEN terminal_print(1 + Cardinality(matches)) ELSE UNCHANGED viewvars
  /\ UNCHANGED <<histvars, envvars>>

MoveCursor(pos, newline) ==
  /\ cursor_pos' = pos /\ line' = newline
  /\ UNCHANGED <<input_buf, input_len, histvars, viewvars, envvars>>

KeyLeft  == MoveCursor(Most(cursor_pos - 1, 0), Left(line))
KeyRight == MoveCursor(Least(cursor_pos + 1, input_len), Right(line))
KeyHome  == MoveCursor(0, Home(line))
KeyEnd   == MoveCursor(input_len, End(line))

(* The command history starts at index -1, below which Up does nothing.     *)
KeyUp ==
  /\ IF Len(command_history) > 0 /\ history_index > 0
     THEN /\ history_index' = history_index - 1
          /\ Shows(command_history[history_index])
     ELSE UNCHANGED <<history_index, editvars>>
  /\ UNCHANGED <<command_history, viewvars, envvars>>

KeyDown ==
  /\ IF history_index < Len(command_history) - 1
     THEN /\ history_index' = history_index + 1
          /\ Shows(command_history[history_index + 2])
     ELSE /\ history_index' = Len(command_history)
          /\ input_buf' = [input_buf EXCEPT ![0] = NUL]
          /\ input_len' = 0 /\ cursor_pos' = 0 /\ line' = Line(<< >>, << >>)
  /\ UNCHANGED <<command_history, viewvars, envvars>>

(* The offset is clamped first and compared with the end then.              *)
Scrolled(offset, follow) ==
  /\ scroll_offset' = offset
  /\ scroll_follow_bottom' = follow
  /\ stale' = (stale /\ offset < term_max_scroll /\ follow)
  /\ UNCHANGED <<line_count, shown, editvars, histvars, envvars>>

Page == visible_lines * line_h

KeyPgUp == Scrolled(Clamp(scroll_offset - Page, line_count), FALSE)
KeyPgDn == LET new == Clamp(scroll_offset + Page, line_count)
           IN Scrolled(new, scroll_follow_bottom \/ new >= term_max_scroll)

(* The wheel reaches a terminal that is shown.                              *)
terminal_handle_mouse_scroll(dy) ==
  LET new == Clamp(scroll_offset + dy * line_h * 2, line_count) IN
  /\ shown
  /\ Scrolled(new, new >= term_max_scroll)

(* Other components print; F2 shows or hides; a frame is drawn.             *)
OthersPrint(n) == terminal_print(n) /\ UNCHANGED <<editvars, histvars, envvars>>

ToggleTerminal ==
  /\ shown' = ~shown
  /\ UNCHANGED <<line_count, scroll_offset, scroll_follow_bottom, stale, editvars, histvars, envvars>>

terminal_render ==
  /\ shown
  /\ scroll_offset' = Clamp(scroll_offset, line_count)
  /\ UNCHANGED <<line_count, scroll_follow_bottom, shown, stale, editvars, histvars, envvars>>

(* Seven variables are set at the start, of which the model has HOME and    *)
(* PWD; four lines are printed.                                             *)
terminal_init ==
  /\ input_buf = Blank(TERM_INPUT_LEN) /\ input_len = 0 /\ cursor_pos = 0
  /\ line = Line(<< >>, << >>)
  /\ command_history = << >> /\ history_index = -1
  /\ line_count = Least(4, TERM_MAX_LINES) /\ shown = TRUE
  /\ scroll_follow_bottom = TRUE /\ scroll_offset = MaxScroll(line_count)
  /\ stale = FALSE
  /\ cwd = << "workspace" >>
  /\ env = << [key |-> <<"HOME">>, val |-> cwd], [key |-> <<"PWD">>, val |-> cwd] >>
  /\ vars_set = {<< <<"HOME">>, cwd >>, << <<"PWD">>, cwd >>} /\ cut_names = {}

TerminalKey ==
  \/ KeyEnter \/ KeyBackspace \/ KeyTab \/ KeyLeft \/ KeyRight \/ KeyHome \/ KeyEnd
  \/ KeyUp \/ KeyDown \/ KeyPgUp \/ KeyPgDn
  \/ \E ch \in Letters \cup {Space} : KeyChar(ch)

Next ==
  \/ TerminalKey
  \/ \E dy \in {-1, 1} : terminal_handle_mouse_scroll(dy)
  \/ \E n \in {1, 2} : OthersPrint(n)
  \/ ToggleTerminal \/ terminal_render

Spec == terminal_init /\ [][Next]_vars

-----------------------------------------------------------------------------
(* The list of variables is a map: the last value set for a name and no     *)
(* other, with room for TERM_MAX_ENV entries (term_env_set), except for the *)
(* names that an exported longer one was cut to, which may stand in it      *)
(* several times.                                                           *)
EnvIsMap ==
  LET own == {i \in 1 .. Len(env) : env[i].key \notin cut_names} IN
  /\ {<<env[i].key, env[i].val>> : i \in own} = {v \in vars_set : v[1] \notin cut_names}
  /\ \A i, j \in own : env[i].key = env[j].key => i = j

(* The editor shows what was typed: the shifting loops, Tab and the history *)
(* leave in the array exactly the text left and right of the cursor, closed *)
(* by a NUL inside the array; and the list of variables is a map.           *)
LineExact ==
  /\ Text(input_buf, input_len) = line.l \o line.r
  /\ cursor_pos = Len(line.l)
  /\ input_len \in DOMAIN input_buf /\ input_buf[input_len] = NUL
  /\ EnvIsMap

(* A terminal that is shown and follows its output draws the prompt, also   *)
(* when it has printed while it was hidden: ToggleTerminal, the keys that   *)
(* scroll and terminal_sync_scroll_after_line.  When it scrolls and its     *)
(* height is no multiple of a line's, the prompt is the one line that       *)
(* terminal_render leaves out below the last.                               *)
PromptVisible ==
  shown /\ scroll_follow_bottom /\ ~stale =>
    LET last == LastDrawn(Clamp(scroll_offset, line_count)) IN
    IF term_max_scroll = 0 \/ output_area_h % line_h = 0
    THEN line_count <= last
    ELSE last = line_count - 1
==============================================================================
