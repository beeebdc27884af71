CONSTANTS
    Calls = {"query_stream", "query_prepared_stream", "query_params_stream", "batch_execute",
             "query_params",
             "query_prepared", "prepare", "close_statement", "pipeline", "copy_in", "copy_out", "Cursor", "CursorStream", "recover",
             "wait_for_notification", "close"}
    Empty = {"query_stream", "query_prepared_stream", "batch_execute",
             "query_params", "query_prepared", "copy_in", "copy_out"}
    Tokio = {TRUE, FALSE}
    MaxWire = 2
    MaxNotes = 2
SPECIFICATION Spec
INVARIANTS TypeOK InSync StatusAgrees NoHang NotificationsKept PortalLives
CHECK_DEADLOCK FALSE
