CONSTANTS
    Tabs = {1, 2}
    Projects = {atlas}
    None = None
    MaxPrompts = 2
SPECIFICATION Spec
CHECK_DEADLOCK FALSE
PROPERTIES
    EachPromptRuns
