SPECIFICATION FairSpec
CONSTANTS
  Components = {"dispatching", "delivery", "scheduling", "recognition", "files",
                "execution", "synthesis", "esl", "browsercall", "browserspeech",
                "browserlistening", "debug"}
\* Most components are at rest when nobody calls, speaks or clicks.
CHECK_DEADLOCK FALSE
PROPERTIES EverythingSettles
