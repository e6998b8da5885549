SPECIFICATION Spec
CONSTANTS
  Components = {"dispatching", "delivery", "scheduling", "listing", "events", "library",
                "voices", "knowledge", "review", "metering", "users", "sessions", "roles",
                "reports", "audio", "recognition", "local", "files", "generation",
                "execution", "synthesis", "esl", "command", "browsercall",
                "browserspeech", "browserlistening", "debug", "editor", "graph",
                "settings", "import"}
\* Most components are at rest when nobody calls, speaks or clicks.
CHECK_DEADLOCK FALSE
INVARIANTS
  ComponentsTypeOK
  DoneOnce
  KeptInOrder
  RightAnswers
  CopiesAgree
  OnlyWholeFlowsRun
  NothingLeftBehind
PROPERTIES StepsKeepTheRest
