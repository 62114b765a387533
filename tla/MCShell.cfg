SPECIFICATION MCSpec
CONSTANTS
  TERM_INPUT_LEN = 2
  TERM_HISTORY_COUNT = 0
  TERM_HISTORY_LEN = 2
  TERM_MAX_LINES = 1
  TERM_MAX_ENV = 2
  TERM_PATH_MAX_SEG = 3
  TERM_CWD_LEN = 3
  Letters = {"a"}
  Space = " "
  builtin_commands <- PanelWords
  Meaning <- PanelMeaning
  Roots = {}
  TERM_ENV_KEY_LEN = 2
  TERM_ENV_VAL_LEN = 2
  line_h = 1
  view_h = 1
  CHAT_INPUT_SIZE = 2
  CHAT_MAX_MESSAGES = 3
  Sections <- PanelSections
  Entries <- PanelEntries
  ChatHeight = 2
  MaxChatScroll = 2
INVARIANTS QueueExact InputTracked LineExact PromptInView ChatExact ServicesExact
