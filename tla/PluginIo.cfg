\* Two calls, two events for the log, and a channel with room for one response;
\* any number of bytes is read or written at a time.
SPECIFICATION FairSpec
CONSTANTS
    Byte <- MCByte
    Newline = 0
    Text <- MCText
    Calls <- MCCalls
    Parse <- MCParse
    NoId = 0
    Handled = {"htlc_accepted"}
    ResponseTo <- MCResponseTo
    LogLine <- Line
    Capacity = 1
    MaxCalls = 2
    MaxLogs = 2
PROPERTIES
    InputIsAPipe
    OutputIsAPipe
    CallsAreAnswered
    LogsAreDrained
CHECK_DEADLOCK FALSE
