\* Five events, up to three Tasks at a time, a tool whose id looks like a Task's;
\* a limit that two segments and the status may exceed.
\* The run ends.
SPECIFICATION Spec
CONSTANTS
    Index = {0, 1}
    ToolIds = {taskOutput}
    TaskLikeTools = {taskOutput}
    MaxEvents = 5
    MaxTasks = 3
    Limit = 5
    MarkerLen = 1
    StatusLen = 2
    MinBudget = 1
    TailMax = 3
CHECK_DEADLOCK FALSE
INVARIANTS
    StackWaits
    BlocksKeptApart
    RenderFits
PROPERTIES
    HiddenUnlessOvertaken
