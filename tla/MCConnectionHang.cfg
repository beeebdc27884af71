CONSTANTS
    Calls = {"CursorStream", "drop_cursor_stream", "query_stream", "recover"}
    Empty = {}
    Tokio = {TRUE}
    MaxWire = 2
    MaxNotes = 0
SPECIFICATION Spec
INVARIANT NoHang
CHECK_DEADLOCK FALSE
