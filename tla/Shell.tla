-------------------------------- MODULE Shell --------------------------------
(***************************************************************************)
(* ui/shell.c with ui/chat_view.c and ui/sidebar.c: input events go to the *)
(* sidebar, the chat or the terminal (Terminal, which this module extends),*)
(* and a message in the chat is answered.                                  *)
(*                                                                         *)
(* A position is a column and a row of the window: the sidebar is the left *)
(* column, the terminal the lower row, when they are shown.  Panels act on *)
(* key releases; presses reach them and are ignored, so they are left out, *)
(* as are button releases.  A message is one unit high.  The sidebar reads *)
(* a wheel movement from events that carry a position instead, and never   *)
(* leaves scroll_offset 0.  hover_panel is set anew by every mouse event   *)
(* that reads it.  No agent is running: shell->agent is NULL.              *)
(***************************************************************************)
EXTENDS Terminal

CONSTANTS CHAT_INPUT_SIZE, CHAT_MAX_MESSAGES,
          Sections, Entries,      \* of the sidebar: names, and entries under each
          ChatHeight,             \* messages in view when the terminal is hidden
          MaxChatScroll           \* bound: how far Down scrolls the chat

VARIABLES active_panel, show_sidebar,
          sections_expanded,      \* of the sidebar
          items, selected_index,  \* what it lists since it was last populated
          chat_text, input_cursor, messages, chat_scroll,
          chat_line               \* what the user has typed into the chat

sidevars  == <<sections_expanded, items, selected_index>>
chatvars  == <<chat_text, input_cursor, messages, chat_scroll, chat_line>>
shellvars == <<active_panel, show_sidebar, sidevars, chatvars>>

(* sidebar_populate: a header for every section, and its entries.           *)
sidebar_populate(expanded) ==
  LET Part(i) == << [header |-> TRUE, section |-> Sections[i]] >> \o
                 (IF Sections[i] \in expanded
                  THEN [k \in 1 .. Entries[i] |-> [header |-> FALSE, section |-> Sections[i]]]
                  ELSE << >>)
  IN FlattenSeq([i \in 1 .. Len(Sections) |-> Part(i)])

InSidebar(p)  == show_sidebar /\ p.col = "left"
InTerminal(p) == shown /\ p.row = "lower" /\ ~InSidebar(p)
detect_hover_panel(p) == IF InTerminal(p) THEN "terminal" ELSE "chat"

-----------------------------------------------------------------------------
(* The chat.                                                                *)
StrLen(buf) == CHOOSE n \in DOMAIN buf : buf[n] = NUL /\ \A k \in 0 .. n - 1 : buf[k] # NUL
ChatLen  == StrLen(chat_text)
ChatView == IF shown THEN 1 ELSE ChatHeight

(* A full list drops its oldest message.                                    *)
chat_view_add_message(ms, m) ==
  Append(IF Len(ms) >= CHAT_MAX_MESSAGES THEN Tail(ms) ELSE ms, m)

Message(role, text) == [role |-> role, text |-> text]

(* Mutation: no answer is added to a full list.                             *)
shell_on_user_message_Full(ms) ==
  IF Len(ms) < CHAT_MAX_MESSAGES THEN Append(ms, Message("assistant", << >>)) ELSE ms

(* The answer, when the newest message is one of the user.                  *)
shell_on_user_message(ms) ==
  IF ms[Len(ms)].role = "user" THEN chat_view_add_message(ms, Message("assistant", << >>)) ELSE ms

ChatEnter ==
  /\ ChatLen > 0
  /\ messages' = shell_on_user_message(
                   chat_view_add_message(messages, Message("user", Text(chat_text, ChatLen))))
  /\ chat_scroll' = Most(0, Len(messages') - ChatView)
  /\ chat_text' = [chat_text EXCEPT ![0] = NUL] /\ input_cursor' = 0
  /\ chat_line' = Line(<< >>, << >>)

ChatBackspace ==
  /\ input_cursor > 0 /\ ChatLen > 0
  /\ chat_text' = DeleteChar(chat_text, ChatLen, input_cursor)
  /\ input_cursor' = input_cursor - 1
  /\ chat_line' = Erased(chat_line)
  /\ UNCHANGED <<messages, chat_scroll>>

ChatChar(ch) ==
  /\ ChatLen < CHAT_INPUT_SIZE - 1
  /\ chat_text' = InsertChar(chat_text, ChatLen, input_cursor, ch)
  /\ input_cursor' = input_cursor + 1
  /\ chat_line' = Typed(chat_line, ch)
  /\ UNCHANGED <<messages, chat_scroll>>

ChatCursor(pos, l) == /\ input_cursor' = pos /\ chat_line' = l
                      /\ UNCHANGED <<chat_text, messages, chat_scroll>>

ChatScrollTo(y) == /\ y <= MaxChatScroll
                   /\ chat_scroll' = y
                   /\ UNCHANGED <<chat_text, input_cursor, messages, chat_line>>

ChatKey ==
  \/ ChatEnter \/ ChatBackspace
  \/ ChatCursor(Most(input_cursor - 1, 0), Left(chat_line))
  \/ ChatCursor(Least(input_cursor + 1, ChatLen), Right(chat_line))
  \/ ChatCursor(0, Home(chat_line)) \/ ChatCursor(ChatLen, End(chat_line))
  \/ ChatScrollTo(Most(chat_scroll - 2, 0)) \/ ChatScrollTo(chat_scroll + 2)
  \/ \E ch \in Letters : ChatChar(ch)

(* An INPUT_MOUSE_BUTTON event, whose position is taken for a wheel turn.   *)
ChatButton(y) ==
  ChatScrollTo(Least(Most(chat_scroll - 3 * y, 0), Most(0, Len(messages) - ChatView)))

-----------------------------------------------------------------------------
(* shell_handle_input.                                                      *)
(* The wheel: the terminal, when the pointer is over it; nobody otherwise.  *)
Wheel(p, dy) ==
  /\ IF InTerminal(p) THEN terminal_handle_mouse_scroll(dy) ELSE UNCHANGED vars
  /\ UNCHANGED <<active_panel, show_sidebar, sidevars, chatvars>>

(* A left press gives the keyboard to the panel under the pointer; in the   *)
(* sidebar it also lists the items anew.                                    *)
LeftDown(p) ==
  /\ active_panel' = detect_hover_panel(p)
  /\ items' = IF InSidebar(p) THEN sidebar_populate(sections_expanded) ELSE items
  /\ UNCHANGED <<vars, show_sidebar, sections_expanded, selected_index, chatvars>>

(* The context menu is two lines in the terminal.                           *)
RightDown(p) ==
  /\ OthersPrint(2)
  /\ UNCHANGED <<active_panel, show_sidebar, sidevars, chatvars>>

(* A packet without a change, with the left button held or not.             *)
Unchanged(p, left, y) ==
  /\ active_panel' = IF left THEN detect_hover_panel(p) ELSE active_panel
  /\ items' = IF left /\ InSidebar(p) THEN sidebar_populate(sections_expanded) ELSE items
  /\ IF ~InSidebar(p) /\ active_panel' = "chat" THEN ChatButton(y) ELSE UNCHANGED chatvars
  /\ UNCHANGED <<vars, show_sidebar, sections_expanded, selected_index>>

(* sidebar_handle_input on a movement: it selects the item, and folds or    *)
(* unfolds the section of a header; the list itself stays.                  *)
SidebarHover(i) ==
  /\ selected_index' = i
  /\ sections_expanded' = IF ~items[i].header THEN sections_expanded
                          ELSE IF items[i].section \in sections_expanded
                               THEN sections_expanded \ {items[i].section}
                               ELSE sections_expanded \cup {items[i].section}

Move(p, i) ==
  /\ IF InSidebar(p) /\ i <= Len(items) THEN SidebarHover(i)
     ELSE UNCHANGED <<selected_index, sections_expanded>>
  /\ UNCHANGED <<vars, active_panel, show_sidebar, items, chatvars>>

F1 == /\ show_sidebar' = ~show_sidebar
      /\ items' = sidebar_populate(sections_expanded)
      /\ UNCHANGED <<vars, active_panel, sections_expanded, selected_index, chatvars>>

F2 == ToggleTerminal /\ UNCHANGED shellvars

F3 == /\ active_panel' = IF active_panel = "chat" THEN "terminal" ELSE "chat"
      /\ UNCHANGED <<vars, show_sidebar, sidevars, chatvars>>

(* Ctrl-N and Ctrl-E print a line, whatever panel has the keyboard.         *)
Ctrl == OthersPrint(1) /\ UNCHANGED shellvars

(* Every other key goes to the panel that has the keyboard, also to a       *)
(* terminal that is hidden.                                                 *)
PanelKey ==
  \/ /\ active_panel = "chat" /\ ChatKey
     /\ UNCHANGED <<vars, active_panel, show_sidebar, sidevars>>
  \/ /\ active_panel = "terminal"
     /\ TerminalKey
     /\ UNCHANGED shellvars

SidebarInit ==
  /\ sections_expanded = {Sections[i] : i \in 1 .. Len(Sections)}
  /\ items = sidebar_populate(sections_expanded) /\ selected_index = 0

ChatInit ==
  /\ chat_text = Blank(CHAT_INPUT_SIZE) /\ input_cursor = 0 /\ chat_scroll = 0
  /\ messages = << Message("system", << >>) >>
  /\ chat_line = Line(<< >>, << >>)

shell_init ==
  /\ terminal_init
  /\ active_panel = "chat" /\ show_sidebar = TRUE
  /\ SidebarInit /\ ChatInit

Positions == [col : {"left", "right"}, row : {"upper", "lower"}]

ShellNext ==
  \/ PanelKey \/ F1 \/ F2 \/ F3 \/ Ctrl
  \/ terminal_render /\ UNCHANGED shellvars
  \/ \E p \in Positions :
       \/ LeftDown(p) \/ RightDown(p)
       \/ \E dy \in {-1, 1} : Wheel(p, dy)
       \/ \E left \in BOOLEAN, y \in {0, 1} : Unchanged(p, left, y)
       \/ \E i \in 1 .. Len(items) + 1 : Move(p, i)

ShellSpec == shell_init /\ [][ShellNext]_<<vars, shellvars>>

-----------------------------------------------------------------------------
(* The chat holds what was typed into it and not what was typed elsewhere,  *)
(* and every message of the user that is still listed is followed by its    *)
(* answer: chat_view_handle_input, shell_on_user_message and the dropping   *)
(* of old messages.                                                         *)
ChatExact ==
  /\ Text(chat_text, ChatLen) = chat_line.l \o chat_line.r /\ input_cursor = Len(chat_line.l)
  /\ Len(messages) <= CHAT_MAX_MESSAGES
  /\ \A i \in 1 .. Len(messages) : messages[i].role = "user" =>
       i < Len(messages) /\ messages[i + 1].role = "assistant" /\ messages[i].text # << >>
==============================================================================
