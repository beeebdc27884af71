----------------------------- MODULE Connection -----------------------------
(***************************************************************************)
(* One connection and the server at its other end (connection.rs, query/,  *)
(* copy/, notification.rs).                                                *)
(*                                                                         *)
(* A call borrows the connection mutably, so there is one call at a time;  *)
(* what makes the protocol hard is that a call can stop at any .await (the *)
(* caller drops the future) and that handles (RowStream, Cursor,           *)
(* CursorStream, CopyIn, CopyOut) can be dropped at any moment, with part  *)
(* of the server's answer unread.  job and at say which call is suspended  *)
(* and at which await; every message read is one action.                   *)
(*                                                                         *)
(* The test-native feature (blocking I/O inside Drop) is left out: in the  *)
(* other builds try_sync_write_and_flush and try_sync_drain_until_ready    *)
(* return false.                                                           *)
(***************************************************************************)
EXTENDS Naturals, Sequences

CONSTANTS
    Calls,      \* the calls that callers make
    Empty,      \* those of them that may be given an empty statement
    Tokio,      \* the values of the tokio-transport feature to explore
    MaxWire,    \* bound: messages in flight from the server
    MaxNotes    \* bound: notifications the server sends

ASSUME BoundsAssumption == MaxWire \in Nat \ {0} /\ MaxNotes \in Nat

ASSUME InputsAssumption == Empty \subseteq Calls /\ Tokio \subseteq BOOLEAN

VARIABLES
    tokio,               \* built with the tokio-transport feature
    state,               \* ConnectionState
    needs_recovery,
    transaction_status,
    notification_queue,
    job, at,             \* the call under way and the await it is suspended at
    handle, hstate,      \* the handle that borrows the connection, its state
    owns_transaction,    \* Cursor and CursorStream
    wire,                \* messages from the server not yet read
    srv,                 \* requests the server has: the phase of each, first the current
    stx,                 \* the server's transaction status
    broken,              \* the transport has failed
    delivered,           \* history: notifications handed to the caller
    held,                \* the notification a wait has read and not yet returned, or 0
    missed,              \* history: those that went with an abandoned wait
    notes                \* number of notifications the server has sent

connVars   == <<state, needs_recovery, transaction_status>>
handleVars == <<handle, hstate, owns_transaction>>
callVars   == <<job, at>>
noteVars   == <<notification_queue, delivered, held, missed>>
serverVars == <<srv, stx, broken, notes>>
vars == <<tokio, connVars, noteVars, callVars, handleVars, wire, serverVars>>

TransactionStatus == {"Idle", "InTransaction", "Failed"}

ConnectionState == {"Idle", "ActiveSimpleQuery", "ActiveExtendedQuery", "CopyIn",
                    "CopyOut", "Streaming", "Closing", "Closed"}

-----------------------------------------------------------------------------
(* The server: what it may send next in each phase of a request, and the     *)
(* phase that follows.  Several statements may follow one another in a       *)
(* simple query; "Ack" stands for ParseComplete, BindComplete, CloseComplete,*)
(* ParameterDescription, NoticeResponse and ParameterStatus.                 *)
Statement == {<<"RowDescription", "rows">>, <<"CommandComplete", "more">>,
              <<"ErrorResponse", "ready">>}

Say(phase) ==
    CASE phase = "query"       -> Statement
      [] phase = "more"        -> Statement \cup {<<"ReadyForQuery", "idle">>}
      [] phase = "rows"        -> {<<"DataRow", "rows">>, <<"CommandComplete", "more">>,
                                   <<"ErrorResponse", "ready">>}
      [] phase = "empty"       -> {<<"EmptyQueryResponse", "ready">>}
      [] phase = "parse"       -> {<<"Ack", "describe">>, <<"ErrorResponse", "ready">>}
      [] phase = "describe"    -> {<<"RowDescription", "execute">>, <<"NoData", "execute">>,
                                   <<"ErrorResponse", "ready">>}
      [] phase = "execute"     -> {<<"DataRow", "execute">>, <<"CommandComplete", "ready">>,
                                   <<"ErrorResponse", "ready">>}
      [] phase = "parse_empty" -> {<<"NoData", "empty">>}
      [] phase = "batch"       -> {<<"Ack", "batch_describe">>, <<"ErrorResponse", "ready">>,
                                   <<"ReadyForQuery", "idle">>}
      [] phase = "batch_describe" ->
             {<<"RowDescription", "batch_execute">>, <<"NoData", "batch_execute">>}
      [] phase = "batch_execute" ->
             {<<"DataRow", "batch_execute">>, <<"CommandComplete", "batch">>,
              <<"EmptyQueryResponse", "batch">>, <<"ErrorResponse", "ready">>}
      [] phase = "ack"         -> {<<"Ack", "ack_end">>, <<"ErrorResponse", "ready">>}
      [] phase = "ack_end"     -> {<<"RowDescription", "ready">>, <<"NoData", "ready">>,
                                   <<"ReadyForQuery", "idle">>}
      [] phase = "fetch"       -> {<<"DataRow", "fetched">>, <<"CommandComplete", "ready">>,
                                   <<"ErrorResponse", "ready">>}
      [] phase = "fetched"     -> {<<"DataRow", "fetched">>, <<"PortalSuspended", "ready">>,
                                   <<"CommandComplete", "ready">>}
      [] phase \in {"begin", "commit"} ->
             {<<"CommandComplete", "ready">>, <<"ErrorResponse", "ready">>}
      [] phase = "copy_in"     -> {<<"CopyInResponse", "copying">>} \cup Statement
      [] phase = "copying"     -> {<<"ErrorResponse", "ready">>}
      [] phase = "copy_done"   -> {<<"CommandComplete", "ready">>, <<"ErrorResponse", "ready">>}
      [] phase = "copy_fail"   -> {<<"ErrorResponse", "ready">>}
      [] phase = "copy_out"    -> {<<"CopyOutResponse", "out">>} \cup Statement
      [] phase = "out"         -> {<<"CopyData", "out">>, <<"CopyDone", "out_done">>,
                                   <<"ErrorResponse", "ready">>}
      [] phase = "out_done"    -> {<<"CommandComplete", "ready">>}
      [] OTHER                 -> {<<"ReadyForQuery", "idle">>}

(* The transaction status after message k of a request in this phase.  The   *)
(* caller's statements may open and end blocks; in a failed block the only   *)
(* statement that completes is the one that ends it.                         *)
StatusAfter(k, phase) ==
    IF k = "ErrorResponse" THEN {IF stx = "Idle" THEN "Idle" ELSE "Failed"}
    ELSE IF k # "CommandComplete" THEN {stx}
    ELSE IF phase \in {"query", "more", "rows", "execute", "batch_execute"}
         THEN IF stx = "Failed" THEN {"Idle"} ELSE {"Idle", "InTransaction"}
    ELSE IF phase = "begin" THEN {"InTransaction"} \ {x \in {stx} : x = "Failed"}
    ELSE IF phase = "commit" THEN {"Idle"} ELSE {stx}

Msg(k, status, n) == [kind |-> k, status |-> status, note |-> n]

ServerSend ==
    /\ srv # <<>> /\ Len(wire) < MaxWire
    /\ \E s \in Say(Head(srv)) :
          /\ stx' \in StatusAfter(s[1], Head(srv))
          /\ wire' = Append(wire, Msg(s[1], stx', 0))
          /\ srv' = (IF s[2] = "idle" THEN <<>> ELSE <<s[2]>>) \o Tail(srv)
    /\ UNCHANGED <<tokio, connVars, noteVars, callVars, handleVars, broken, notes>>

(* A NotificationResponse may come at any time.                              *)
ServerNotifies ==
    /\ ~broken /\ notes < MaxNotes /\ Len(wire) < MaxWire
    /\ notes' = notes + 1
    /\ wire' = Append(wire, Msg("NotificationResponse", "Idle", notes'))
    /\ UNCHANGED <<tokio, connVars, noteVars, callVars, handleVars, srv, stx, broken>>

(* So may a NoticeResponse or a ParameterStatus; bound: one, to an idle      *)
(* client (elsewhere "Ack" has the same effect).                             *)
ServerNotices ==
    /\ ~broken /\ srv = <<>> /\ wire = <<>>
    /\ wire' = <<Msg("Ack", "Idle", 0)>>
    /\ UNCHANGED <<tokio, connVars, noteVars, callVars, handleVars, serverVars>>

(* The transport fails, or is shut down; what the codec has read already can *)
(* still be taken from its buffer.                                           *)
Disconnect ==
    /\ broken' = TRUE /\ srv' = <<>>
    /\ \E n \in 0..Len(wire) : wire' = SubSeq(wire, 1, n)
    /\ UNCHANGED <<stx, notes>>

TransportFails ==
    /\ ~broken /\ Disconnect
    /\ UNCHANGED <<tokio, connVars, noteVars, callVars, handleVars>>

-----------------------------------------------------------------------------
(* Connection::connect has just returned.                                    *)
Init ==
    /\ tokio \in Tokio
    /\ state = "Idle" /\ needs_recovery = FALSE /\ transaction_status = "Idle"
    /\ notification_queue = <<>> /\ delivered = <<>> /\ held = 0 /\ missed = {}
    /\ job = "none" /\ at = "rest"
    /\ handle = "none" /\ hstate = "Done" /\ owns_transaction = FALSE
    /\ wire = <<>> /\ srv = <<>> /\ stx = "Idle" /\ broken = FALSE
    /\ notes = 0

(* Mutant: the handle goes, its claim on the transaction stays.              *)
ReleaseKeepsOwner == handle' = "none" /\ hstate' = "Done" /\ UNCHANGED owns_transaction

Return       == job' = "none" /\ at' = "rest"
Suspend(j, a) == job' = j /\ at' = a
Release      == handle' = "none" /\ hstate' = "Done" /\ owns_transaction' = FALSE
Free         == at = "rest" /\ handle = "none"

(* The state each call asks transition() for.  transition() accepts only     *)
(* Idle as the old one, so a call made in any other state returns            *)
(* InvalidState and changes nothing.                                         *)
ActiveState(j) ==
    CASE j \in {"query_stream", "query_prepared_stream", "query_params_stream",
                "begin", "commit"}                     -> "Streaming"
      [] j \in {"batch_execute", "wait_for_notification"} -> "ActiveSimpleQuery"
      [] j = "copy_in"                                 -> "CopyIn"
      [] j = "copy_out"                                -> "CopyOut"
      [] OTHER                                         -> "ActiveExtendedQuery"

(* transition() and the first await of the send.  Calls that take parameters *)
(* encode them in between and return if that fails.                          *)
Encodes == {"query_prepared_stream", "query_params_stream", "query_params", "query_prepared",
            "open"}

Transition(j) ==
    /\ state' = ActiveState(j)
    /\ Suspend(j, "send") \/ (j \in Encodes /\ Return)

(* query_stream and the like recover first; so does query("COMMIT").         *)
RecoverFirst(j, current) ==
    IF needs_recovery
    THEN Suspend(j, "recover") /\ state' = current
    ELSE current = "Idle" /\ Transition(j)

StartStream(j) ==
    /\ j \in Calls /\ Free
    /\ RecoverFirst(j, state)
    /\ UNCHANGED <<tokio, needs_recovery, transaction_status, noteVars, handleVars, wire,
                   serverVars>>

query_stream          == StartStream("query_stream")
query_prepared_stream == StartStream("query_prepared_stream")
query_params_stream   == StartStream("query_params_stream")

(* The other calls do not recover; they need an Idle connection.             *)
StartCall(j) ==
    /\ j \in Calls /\ Free /\ state = "Idle"
    /\ Transition(j)
    /\ UNCHANGED <<tokio, needs_recovery, transaction_status, noteVars, handleVars, wire,
                   serverVars>>

batch_execute   == StartCall("batch_execute")
query_params    == StartCall("query_params")
query_prepared  == StartCall("query_prepared")
prepare         == StartCall("prepare")
close_statement == StartCall("close_statement")
pipeline        == StartCall("pipeline")          \* Pipeline::finish
copy_in         == StartCall("copy_in")
copy_out        == StartCall("copy_out")

(* Mutant: no BEGIN on a connection that has to recover first.               *)
StartCursorRecovered(h) ==
    /\ h \in Calls /\ Free
    /\ IF transaction_status = "Idle" /\ ~needs_recovery THEN RecoverFirst("begin", state)
       ELSE RecoverFirst("open", state)
    /\ IF at' = "rest" THEN UNCHANGED handleVars
       ELSE /\ handle' = h /\ hstate' = "Done"
            /\ owns_transaction' = (transaction_status = "Idle")
    /\ UNCHANGED <<tokio, needs_recovery, transaction_status, noteVars, wire, serverVars>>

(* A cursor: BEGIN first, by query(), if no block seems to be open.  The     *)
(* handle to be made is in handle already.                                   *)
StartCursor(h) ==
    /\ h \in Calls /\ Free
    /\ IF transaction_status = "Idle" THEN RecoverFirst("begin", state)
       ELSE state = "Idle" /\ Transition("open")
    /\ IF at' = "rest" THEN UNCHANGED handleVars
       ELSE /\ handle' = h /\ hstate' = "Done"
            /\ owns_transaction' = (transaction_status = "Idle")
    /\ UNCHANGED <<tokio, needs_recovery, transaction_status, noteVars, wire, serverVars>>

query_cursor        == StartCursor("Cursor")
query_cursor_stream == StartCursor("CursorStream")

recover ==
    /\ "recover" \in Calls
    /\ Free /\ needs_recovery /\ Suspend("recover", "recover")
    /\ UNCHANGED <<tokio, connVars, noteVars, handleVars, wire, serverVars>>

(* The calls of a handle.                                                    *)
next ==           \* RowStream::next
    /\ at = "rest" /\ handle = "RowStream" /\ hstate \notin {"Done", "Error"}
    /\ Suspend("next", "read")
    /\ UNCHANGED <<tokio, connVars, noteVars, handleVars, wire, serverVars>>

StartHandleCall(h, hs, j) ==
    /\ at = "rest" /\ handle = h /\ hstate \in hs
    /\ state = "Idle" /\ Transition(j)
    /\ UNCHANGED <<tokio, needs_recovery, transaction_status, noteVars, handleVars, wire,
                   serverVars>>

fetch_next      == StartHandleCall("Cursor", {"Active"}, "fetch")
cursor_close    == StartHandleCall("Cursor", {"Active", "Done"}, "close_cursor")
fetch_batch     == StartHandleCall("CursorStream", {"Active"}, "fetch")  \* CursorStream::next

(* CursorStream::consume once next() has returned None: COMMIT after a last  *)
(* row, close_portal after an error.                                         *)
close_portal == StartHandleCall("CursorStream", {"Error"}, "close_cursor")

consume ==
    /\ at = "rest" /\ handle = "CursorStream" /\ hstate = "Done"
    /\ owns_transaction /\ RecoverFirst("commit", state)
    /\ UNCHANGED <<tokio, needs_recovery, transaction_status, noteVars, handleVars, wire,
                   serverVars>>

StartCopyEnd(j) ==
    /\ at = "rest" /\ handle = "CopyIn"
    /\ Suspend(j, "send")
    /\ UNCHANGED <<tokio, connVars, noteVars, handleVars, wire, serverVars>>

finish      == StartCopyEnd("copy_finish")     \* CopyIn::finish
copy_cancel == StartCopyEnd("copy_cancel")     \* CopyIn::cancel

read_next ==           \* CopyOut::read_next
    /\ at = "rest" /\ handle = "CopyOut" /\ hstate = "Active"
    /\ Suspend("copy_read", "read")
    /\ UNCHANGED <<tokio, connVars, noteVars, handleVars, wire, serverVars>>

-----------------------------------------------------------------------------
(* The request has been written and flushed.                                 *)
Requests(j) ==
    LET empty(phase) == IF j \in Empty THEN {phase} ELSE {} IN
    CASE j \in {"query_stream", "batch_execute"} -> {"query"} \cup empty("empty")
      [] j \in {"copy_in", "copy_out"}           -> {j} \cup empty("empty")
      [] j \in {"query_prepared_stream", "query_params_stream"} ->
             {"parse"} \cup empty("parse_empty")
      [] j \in {"query_params", "query_prepared"} -> {"parse"} \cup empty("parse_empty")
      [] j \in {"prepare", "close_statement", "open", "close_cursor"} -> {"ack"}
      [] j = "pipeline"                 -> {"batch"}
      [] j = "wait_for_notification"    -> {"empty"}
      [] j = "copy_finish"              -> {"copy_done"}
      [] j = "copy_cancel"              -> {"copy_fail"}
      [] OTHER                          -> {j}

(* CopyDone and CopyFail end the COPY under way, and are ignored once the    *)
(* server has given it up.                                                   *)
Receive(phase) ==
    srv' = IF phase \notin {"copy_done", "copy_fail"} THEN Append(srv, phase)
           ELSE IF srv # <<>> /\ Head(srv) = "copying" THEN <<phase>> \o Tail(srv) ELSE srv

Sent ==
    /\ at = "send" /\ ~broken
    /\ \E phase \in Requests(job) : Receive(phase)
    /\ IF job \in {"query_stream", "query_prepared_stream"}
       THEN /\ Return
            /\ handle' = "RowStream" /\ hstate' = "WaitingForDescription"
            /\ UNCHANGED owns_transaction
       ELSE /\ Suspend(job, IF job = "copy_cancel" THEN "drain" ELSE "read")
            /\ UNCHANGED handleVars
    /\ UNCHANGED <<tokio, connVars, noteVars, wire, stx, broken, notes>>

-----------------------------------------------------------------------------
(* Reading one message.                                                      *)
Read(kinds) ==
    /\ wire # <<>> /\ Head(wire).kind \in kinds
    /\ wire' = Tail(wire)
    /\ UNCHANGED <<tokio, serverVars>>

Reading == at \in {"read", "drain", "recover"}

(* Mutant: read_until_ready drops the notifications it meets.                *)
ReadNotificationLossy ==
    /\ Reading /\ ~(job = "wait_for_notification" /\ at = "read")
    /\ Read({"NotificationResponse"})
    /\ notification_queue' = IF at = "drain" THEN notification_queue
                             ELSE Append(notification_queue, Head(wire).note)
    /\ UNCHANGED <<connVars, callVars, handleVars, delivered, held, missed>>

(* handle_async_message, and the same arms written out in the other loops.   *)
ReadNotification ==
    /\ Reading /\ ~(job = "wait_for_notification" /\ at = "read")
    /\ Read({"NotificationResponse"})
    /\ notification_queue' = Append(notification_queue, Head(wire).note)
    /\ UNCHANGED <<connVars, callVars, handleVars, delivered, held, missed>>

(* The messages each loop does something about; it discards the others.      *)
Heeds ==
    IF at \in {"drain", "recover"} THEN {"ReadyForQuery"}
    ELSE CASE job = "next" /\ hstate = "WaitingForDescription" ->
                  {"RowDescription", "CommandComplete", "EmptyQueryResponse", "ErrorResponse"}
           [] job = "next" /\ hstate = "ReceivingRows" ->
                  {"DataRow", "CommandComplete", "ErrorResponse"}
           [] job = "query_params_stream" ->
                  {"RowDescription", "NoData", "CommandComplete", "EmptyQueryResponse",
                   "ReadyForQuery", "ErrorResponse"}
           [] job \in {"copy_in", "copy_out"} ->
                  {"CopyInResponse", "CopyOutResponse", "RowDescription", "CommandComplete",
                   "EmptyQueryResponse", "ErrorResponse"}
           [] job = "copy_read"             -> {"CopyData", "ReadyForQuery", "ErrorResponse"}
           [] job = "fetch"                 -> {"CommandComplete", "ReadyForQuery", "ErrorResponse"}
           [] job = "wait_for_notification" -> {"ReadyForQuery"}
           [] OTHER                         -> {"ReadyForQuery", "ErrorResponse"}

Discard ==
    /\ Reading /\ wire # <<>>
    /\ Head(wire).kind \notin Heeds \cup {"NotificationResponse"}
    /\ Read({Head(wire).kind})
    /\ UNCHANGED <<connVars, noteVars, callVars, handleVars>>

(* RowStream::next, before ReadyForQuery.                                    *)
NextReads ==
    /\ job = "next" /\ at = "read"
    /\ \/ /\ hstate = "WaitingForDescription" /\ Read({"RowDescription"})
          /\ hstate' = "ReceivingRows" /\ UNCHANGED callVars
       \/ /\ hstate = "WaitingForDescription" /\ Read({"CommandComplete", "EmptyQueryResponse"})
          /\ hstate' = "Finishing" /\ UNCHANGED callVars
       \/ /\ hstate = "ReceivingRows" /\ Read({"CommandComplete"})
          /\ hstate' = "Finishing" /\ UNCHANGED callVars
       \/ /\ hstate = "ReceivingRows" /\ Read({"DataRow"})
          /\ Return /\ UNCHANGED hstate
    /\ UNCHANGED <<connVars, noteVars, handle, owns_transaction>>

(* query_params_stream reads the preamble up to the description; whatever    *)
(* ends the loop, the stream starts in ReceivingRows.                        *)
PreambleEnds ==
    /\ job = "query_params_stream" /\ at = "read"
    /\ Read(Heeds \ {"ErrorResponse"})
    /\ transaction_status' = IF Head(wire).kind = "ReadyForQuery" THEN Head(wire).status
                             ELSE transaction_status
    /\ Return
    /\ handle' = "RowStream" /\ hstate' = "ReceivingRows"
    /\ UNCHANGED <<state, needs_recovery, noteVars, owns_transaction>>

(* Cursor marks itself done at CommandComplete, CursorStream keeps the tag   *)
(* in a local until ReadyForQuery.                                           *)
FetchCompletes ==
    /\ job = "fetch" /\ at = "read" /\ Read({"CommandComplete"})
    /\ hstate' = IF handle = "Cursor" THEN "Done" ELSE "Completing"
    /\ UNCHANGED <<connVars, noteVars, callVars, handle, owns_transaction>>

(* copy_in and copy_out expect their response; anything else is drained.     *)
CopyStarts ==
    /\ job \in {"copy_in", "copy_out"} /\ at = "read"
    /\ \/ /\ Read({IF job = "copy_in" THEN "CopyInResponse" ELSE "CopyOutResponse"})
          /\ handle' = (IF job = "copy_in" THEN "CopyIn" ELSE "CopyOut") /\ hstate' = "Active"
          /\ Return
       \/ /\ Read({"RowDescription", "CommandComplete", "EmptyQueryResponse"})
          /\ Suspend(job, "drain") /\ UNCHANGED <<handle, hstate>>
    /\ UNCHANGED <<connVars, noteVars, owns_transaction>>

CopyReads ==
    /\ job = "copy_read" /\ at = "read" /\ Read({"CopyData"})
    /\ Return
    /\ UNCHANGED <<connVars, noteVars, handleVars>>

(* Mutant: the call returns its error without draining to ReadyForQuery.     *)
ReadErrorReturns ==
    /\ at = "read" /\ job # "wait_for_notification" /\ Read({"ErrorResponse"})
    /\ Return /\ state' = "Idle"
    /\ UNCHANGED <<needs_recovery, transaction_status, noteVars, handleVars>>

(* An ErrorResponse: every loop then calls read_until_ready.                 *)
ReadError ==
    /\ at = "read" /\ job # "wait_for_notification" /\ Read({"ErrorResponse"})
    /\ Suspend(job, "drain")
    /\ UNCHANGED <<connVars, noteVars, handleVars>>

(* Mutant: the status byte of ReadyForQuery is not stored.                   *)
ReadyIgnored == UNCHANGED transaction_status

(* ReadyForQuery: the connection is Idle, and the call goes on.              *)
Ready == transaction_status' = Head(wire).status

(* ... read by the call's own loop.                                          *)
ReadReady ==
    /\ at = "read" /\ job \notin {"query_params_stream", "copy_in", "copy_out"}
    /\ job = "next" => hstate = "Finishing"
    /\ Read({"ReadyForQuery"})
    /\ Ready
    /\ CASE job = "begin" -> /\ Transition("open")
                             /\ IF at' = "rest" THEN Release ELSE UNCHANGED handleVars
         [] job = "close_cursor" /\ owns_transaction ->
                RecoverFirst("commit", "Idle") /\ UNCHANGED handleVars
         [] OTHER ->
                /\ state' = "Idle" /\ Return
                /\ CASE job \in {"next", "copy_read"} ->
                            hstate' = "Done" /\ UNCHANGED <<handle, owns_transaction>>
                     [] job = "open" -> hstate' = "Active" /\ UNCHANGED <<handle, owns_transaction>>
                     [] job = "fetch" ->
                            /\ hstate' = IF hstate = "Completing" THEN "Done" ELSE hstate
                            /\ UNCHANGED <<handle, owns_transaction>>
                     [] job \in {"close_cursor", "commit", "copy_finish"} -> Release
                     [] OTHER -> UNCHANGED handleVars
    /\ UNCHANGED <<needs_recovery, noteVars>>

(* ... read by read_until_ready, after an error or an unexpected answer: the *)
(* call returns an error, and the handle is in the state its error arm sets. *)
DrainReady ==
    /\ at = "drain" /\ Read({"ReadyForQuery"})
    /\ Ready /\ state' = "Idle" /\ Return
    /\ CASE job = "next" \/ (job = "fetch" /\ handle = "CursorStream") ->
                hstate' = "Error" /\ UNCHANGED <<handle, owns_transaction>>
         [] job = "copy_read" -> hstate' = "Done" /\ UNCHANGED <<handle, owns_transaction>>
         [] job = "fetch" /\ handle = "Cursor" -> UNCHANGED handleVars
         [] OTHER             -> Release
    /\ held' = 0
    /\ delivered' = IF held = 0 THEN delivered ELSE Append(delivered, held)
    /\ UNCHANGED <<needs_recovery, notification_queue, missed>>

(* ... read by recover(): the call that had to recover goes on to its own    *)
(* transition and send.                                                      *)
RecoverReady ==
    /\ at = "recover" /\ Read({"ReadyForQuery"})
    /\ Ready /\ needs_recovery' = FALSE
    /\ IF job = "recover" THEN Return /\ state' = "Idle" ELSE Transition(job)
    /\ UNCHANGED <<noteVars, handleVars>>

-----------------------------------------------------------------------------
(* Notifications.                                                            *)
notifications ==
    /\ Free /\ notification_queue # <<>>
    /\ delivered' = delivered \o notification_queue /\ notification_queue' = <<>>
    /\ UNCHANGED <<tokio, connVars, callVars, handleVars, held, missed, wire, serverVars>>

wait_for_notification ==
    /\ "wait_for_notification" \in Calls
    /\ Free
    /\ IF notification_queue # <<>>
       THEN /\ delivered' = Append(delivered, Head(notification_queue))
            /\ notification_queue' = Tail(notification_queue)
            /\ UNCHANGED <<callVars, state>>
       ELSE /\ state = "Idle"
            /\ IF tokio THEN Suspend("wait_for_notification", "notification") /\ UNCHANGED state
                        ELSE Transition("wait_for_notification")
            /\ UNCHANGED <<delivered, notification_queue>>
    /\ UNCHANGED <<tokio, needs_recovery, transaction_status, handleVars, held, missed, wire,
                   serverVars>>

(* With the empty query the first notification is kept until ReadyForQuery;  *)
(* with tokio it is returned at once.                                        *)
WaitReadsNotification ==
    /\ job = "wait_for_notification" /\ at \in {"read", "notification"}
    /\ Read({"NotificationResponse"})
    /\ IF at = "read"
       THEN held' = Head(wire).note /\ Suspend(job, "drain") /\ UNCHANGED delivered
       ELSE delivered' = Append(delivered, Head(wire).note) /\ Return /\ UNCHANGED held
    /\ UNCHANGED <<connVars, handleVars, notification_queue, missed>>

(* read_next_notification_blocking: anything but these is an error.          *)
WaitReadsOther ==
    /\ at = "notification" /\ wire # <<>> /\ Head(wire).kind # "NotificationResponse"
    /\ Read({Head(wire).kind})
    /\ IF Head(wire).kind \in {"Ack", "EmptyQueryResponse", "ReadyForQuery"}
       THEN UNCHANGED callVars ELSE Return
    /\ IF Head(wire).kind = "ReadyForQuery" THEN Ready ELSE UNCHANGED transaction_status
    /\ UNCHANGED <<state, needs_recovery, noteVars, handleVars>>

-----------------------------------------------------------------------------
(* Mutant: a stream asks for recovery even when it has been read to the end. *)
UnfinishedAlways(h, s) == h \in {"RowStream", "CursorStream"}

(* Drop of a handle.  Callers use up their CursorStreams unless they         *)
(* "drop_cursor_stream".                                                     *)
Unfinished(h, s) == h \in {"RowStream", "CursorStream"} /\ s \notin {"Done", "Error"}

DropHandle ==
    /\ at = "rest" /\ handle # "none"
    /\ handle = "CursorStream" /\ hstate = "Active" => "drop_cursor_stream" \in Calls
    /\ needs_recovery' = (needs_recovery \/ Unfinished(handle, hstate))
    /\ state' = IF handle = "CopyIn" \/ (handle = "CopyOut" /\ hstate = "Active")
                THEN "Closed" ELSE state
    /\ Release
    /\ UNCHANGED <<tokio, transaction_status, noteVars, callVars, wire, serverVars>>

(* The future of a call ends at the await it is suspended at, because its    *)
(* caller drops it or because of an I/O error.  next, fetch and copy_read    *)
(* only borrow their handle (a fetch forgets the tag it had seen); the other *)
(* calls of a handle own it, and the streams inside begin and commit are     *)
(* dropped with the call.                                                    *)
Borrows == {"next", "fetch", "copy_read"}

Abandon ==
    /\ Return
    /\ IF job \in Borrows
       THEN /\ hstate' = IF hstate = "Completing" THEN "Active" ELSE hstate
            /\ UNCHANGED <<handle, owns_transaction>>
       ELSE Release
    /\ needs_recovery' = (\/ needs_recovery
                          \/ job \in {"begin", "commit"} /\ at \in {"read", "drain"})
    /\ held' = 0
    /\ missed' = IF held = 0 THEN missed ELSE missed \cup {held}
    /\ UNCHANGED <<tokio, transaction_status, notification_queue, delivered, wire, stx, broken,
                   notes>>

(* The caller gives up.  A request being sent may or may not have gone out.  *)
(* A RowStream given up while an error is drained goes with its future       *)
(* unless callers "resume_next".                                             *)
Cancel ==
    /\ at # "rest"
    /\ job = "next" /\ at = "drain" => "resume_next" \in Calls
    /\ Abandon
    /\ state' = IF job \in {"copy_finish", "copy_cancel"} THEN "Closed" ELSE state
    /\ \/ UNCHANGED srv
       \/ at = "send" /\ ~broken /\ \E phase \in Requests(job) : Receive(phase)

CancelNextDrain ==
    /\ job = "next" /\ at = "drain"
    /\ Return /\ Release /\ needs_recovery' = TRUE
    /\ UNCHANGED <<tokio, state, transaction_status, noteVars, wire, serverVars>>

(* query_params and query_prepared set Idle once they have read, whatever    *)
(* the outcome.                                                              *)
IoError ==
    /\ broken /\ (at = "send" \/ (at # "rest" /\ wire = <<>>))
    /\ Abandon
    /\ state' = IF job \in {"copy_finish", "copy_cancel"} THEN "Closed"
                ELSE IF job \in {"query_params", "query_prepared"} /\ at # "send" THEN "Idle"
                ELSE state
    /\ UNCHANGED srv

(* close() (Closing if it is cancelled) and abort().                         *)
Close ==
    /\ "close" \in Calls
    /\ Free /\ state # "Closed"
    /\ state' \in {"Closing", "Closed"}
    /\ Disconnect
    /\ UNCHANGED <<tokio, needs_recovery, transaction_status, noteVars, callVars, handleVars>>

-----------------------------------------------------------------------------
Next ==
    \/ ServerSend \/ ServerNotifies \/ ServerNotices \/ TransportFails
    \/ query_stream \/ query_prepared_stream \/ query_params_stream
    \/ batch_execute \/ query_params \/ query_prepared \/ prepare \/ close_statement
    \/ pipeline \/ copy_in \/ copy_out \/ query_cursor \/ query_cursor_stream \/ recover
    \/ next \/ fetch_next \/ fetch_batch \/ cursor_close \/ close_portal \/ consume
    \/ finish \/ copy_cancel \/ read_next
    \/ Sent
    \/ ReadNotification \/ Discard \/ NextReads \/ PreambleEnds \/ FetchCompletes
    \/ CopyStarts \/ CopyReads \/ ReadError
    \/ ReadReady \/ DrainReady \/ RecoverReady
    \/ notifications \/ wait_for_notification \/ WaitReadsNotification \/ WaitReadsOther
    \/ DropHandle \/ Cancel \/ CancelNextDrain \/ IoError \/ Close

Spec == Init /\ [][Next]_vars

-----------------------------------------------------------------------------
Jobs == {"none", "query_stream", "query_prepared_stream", "query_params_stream", "begin",
         "commit", "batch_execute", "wait_for_notification", "query_params", "query_prepared",
         "prepare", "close_statement", "pipeline", "open", "fetch", "close_cursor", "copy_in",
         "copy_out", "copy_finish", "copy_cancel", "copy_read", "next", "recover"}

(* The states a handle can be in.                                            *)
HandleStates(h) ==
    CASE h = "RowStream"    -> {"WaitingForDescription", "ReceivingRows", "Finishing", "Done",
                                "Error"}
      [] h = "CursorStream" -> {"Active", "Completing", "Done", "Error"}
      [] h = "none"         -> {"Done"}
      [] OTHER              -> {"Active", "Done"}

(* Every variable has its type; a call is under way exactly when something   *)
(* is awaited, a handle is in one of its own states, only the handle of a    *)
(* cursor can own a transaction, and the server has one request at a time.   *)
TypeOK ==
    /\ tokio \in BOOLEAN /\ needs_recovery \in BOOLEAN /\ broken \in BOOLEAN
    /\ owns_transaction \in BOOLEAN
    /\ state \in ConnectionState
    /\ transaction_status \in TransactionStatus /\ stx \in TransactionStatus
    /\ job \in Jobs /\ at \in {"rest", "send", "read", "drain", "recover", "notification"}
    /\ (job = "none") = (at = "rest")
    /\ handle \in {"none", "RowStream", "Cursor", "CursorStream", "CopyIn", "CopyOut"}
    /\ hstate \in HandleStates(handle)
    /\ owns_transaction => handle \in {"Cursor", "CursorStream"}
    /\ notes \in 0..MaxNotes /\ held \in 0..MaxNotes /\ missed \subseteq 1..MaxNotes
    /\ notification_queue \in Seq(1..MaxNotes) /\ delivered \in Seq(1..MaxNotes)
    /\ Len(wire) <= MaxWire /\ Len(srv) <= 1

(* The connection believes the exchange is over, or is about to send a new   *)
(* request.                                                                  *)
Quiet ==
    /\ ~broken
    /\ \/ state = "Idle" /\ at \in {"rest", "notification"}
       \/ at = "send" /\ job \notin {"copy_finish", "copy_cancel"}

(* No call starts, and no request goes out, while part of an earlier answer  *)
(* is outstanding: whatever was cancelled or dropped before, what the server *)
(* still has to say then is notifications and notices only.                  *)
InSync ==
    Quiet => /\ srv = <<>>
             /\ \A i \in DOMAIN wire : wire[i].kind \in {"NotificationResponse", "Ack"}

(* And transaction_status is then the server's.                              *)
StatusAgrees == Quiet => transaction_status = stx

(* A call that reads never waits for a server that has nothing to say: there *)
(* is something to read, or the server is working on a request.              *)
NoHang ==
    at \in {"read", "drain", "recover"} /\ ~broken =>
        wire # <<>> \/ (srv # <<>> /\ Head(srv) # "copying")

(* The numbers in a queue, of the notifications in flight and of the one     *)
(* that a wait holds.                                                        *)
Elements(s)   == {s[i] : i \in DOMAIN s}
Increasing(s) == \A i, k \in DOMAIN s : i < k => s[i] < s[k]
Before(A, B)  == \A a \in A, b \in B : a < b

IsNote(i) == wire[i].kind = "NotificationResponse"
InFlight  == {wire[i].note : i \in {j \in DOMAIN wire : IsNote(j)}}
Held      == {held} \ {0}

(* No reading loop loses a notification, hands it out twice or out of order: *)
(* those delivered, held, queued and in flight are, in this order, the ones  *)
(* sent, except for those that went with an abandoned wait.                  *)
NotificationsKept ==
    ~broken =>
        /\ Increasing(delivered) /\ Increasing(notification_queue)
        /\ \A i, k \in DOMAIN wire : IsNote(i) /\ IsNote(k) /\ i < k => wire[i].note < wire[k].note
        /\ Before(Elements(delivered), Held \cup Elements(notification_queue) \cup InFlight)
        /\ Before(Held, Elements(notification_queue) \cup InFlight)
        /\ Before(Elements(notification_queue), InFlight)
        /\ Elements(delivered) \cup Held \cup Elements(notification_queue) \cup InFlight
             = (1 .. notes) \ missed

(* The portal of an open cursor lives on the server from one fetch to the    *)
(* next (query_cursor: "so the portal remains valid across `fetch_next`      *)
(* calls"): a transaction block is open, the caller's or the one that the    *)
(* cursor began, although the cursor looked at transaction_status before     *)
(* BEGIN had recovered the connection (cursor.rs:518).                       *)
PortalLives ==
    handle \in {"Cursor", "CursorStream"} /\ hstate = "Active" /\ ~broken /\ job # "commit"
        => stx # "Idle"

=============================================================================
